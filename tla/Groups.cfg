SPECIFICATION Spec
CONSTANTS
  ann = ann
  bob = bob
  paper = paper
  n1 = n1
  Readers = {ann, bob, cat}
  Groups = {g1, g2}
  Papers = {paper}
  Notes = {n1}
  Author <- AuthorMC
  PaperOf <- PaperOfMC
  Invitations = {i1, i2}
  Requests = {q1, q2}
  Calls = {"create", "leave", "remove", "removeMember", "setRole", "removePaper", "removeAnnotation", "invite", "revoke", "addPaper", "accept", "decline", "share", "unshare"}
  MaxOwned = 1
  MaxMembers = 2
  MaxInbox = 1
  MaxPapers = 1
  MaxShares = 1
  Nil = Nil
CHECK_DEADLOCK FALSE
SYMMETRY GroupSymmetry
INVARIANTS NeverOverfull MembersWereInvited AudiencesDoNotMix
PROPERTIES WithdrawalsSpareOthers
CONSTRAINT ThreeOnlyInOne
