------------------------ MODULE ReadingGroupsProofs ------------------------
(***************************************************************************)
(* Proofs about ReadingGroups, for any number of readers, groups, notes    *)
(* and requests in flight.                                                 *)
(***************************************************************************)
EXTENDS ReadingGroups, FiniteSetTheorems, TLAPS

-----------------------------------------------------------------------------
(* What a request in flight may rely on.  The last three conjuncts carry   *)
(* the weight: a removal or a change of role is never aimed at the owner,  *)
(* rows a withdrawal deleted are still there for everyone else, and a copy *)
(* it is about to delete is for its own group alone.                       *)
AimedAt(x) ==
  \/ x.op \in {"leave", "removeMember"} /\ x.at # "target"
  \/ x.op = "setRole" /\ x.at = "write"

Shape(x) ==
  /\ x \in Calling
  /\ x.op # "share" => x.group \in Groups /\ x.rows \subseteq Notes
  /\ x.op = "share" => x.arg \in Notes /\ x.rows \subseteq Groups /\ x.at = "write"
  /\ x.op \in {"leave", "removeMember", "setRole", "invite"} => x.arg \in Readers
  /\ x.op = "addPaper" => x.arg \in Papers
  /\ x.op \in {"accept", "decline"} => x.arg \in Invitations
  /\ x.op = "setRole" => x.role \in {"moderator", "member"}
  /\ x.op # "share" /\ x.at \notin {"orphans", "commit"} => x.rows = {}
  /\ x.at # "commit" => x.last = {}
  /\ x.last \subseteq x.rows

GroupKnown(x) == x.op # "share" => group[x.group] # "unused"
InvitationKnown(x) == x.op \in {"accept", "decline"} => sentTo[x.arg] = <<x.group, x.by>>
SparesOwner(x) == AimedAt(x) => role[x.group][x.arg] # "owner"
RowsThere(x) == x.op # "share" => \A n \in x.rows : x.group \in into[n]
LastForIt(x) == \A n \in x.last : share[n] = "group" /\ into[n] = {x.group}

Good(x) ==
  GroupKnown(x) /\ InvitationKnown(x) /\ SparesOwner(x) /\ RowsThere(x) /\ LastForIt(x)

InFlight(q) == req[q] # Idle
AllShaped == \A q \in Requests : InFlight(q) => Shape(req[q])
AllGood == \A q \in Requests : InFlight(q) => Good(req[q])
OneDeleter == \A p, q \in Requests, n \in Notes, g \in Groups :
  Deleting(p, n, g) /\ Deleting(q, n, g) => p = q

Tables ==
  NothingOutlivesItsGroup /\ MembersWereInvited /\ OneOwner /\ NeverOverfull /\ AudiencesDoNotMix

Inv == TypeOK /\ AllShaped /\ AllGood /\ OneDeleter /\ Tables

tables == <<people, invitations, list, shares>>

-----------------------------------------------------------------------------
LEMMA IdleIsNoCall == Idle.op = "idle" /\ Idle.at = "idle" /\ Idle.rows = {} /\ ~ Shape(Idle)
  BY DEF Idle, Shape, Calling

LEMMA InitInv == Init => Inv
<1> SUFFICES ASSUME Init PROVE Inv
  OBVIOUS
<1>1. TypeOK
  BY DEF Init, TypeOK
<1>2. AllShaped /\ AllGood /\ OneDeleter
  BY IdleIsNoCall DEF Init, AllShaped, AllGood, OneDeleter, InFlight, Deleting
<1>3. \A g \in Groups : Members(g) = {} /\ Pending(g) = {}
  BY DEF Init, Members, Pending
<1>4. NeverOverfull
  <2> SUFFICES ASSUME NEW g \in Groups PROVE Cardinality(Members(g)) <= MaxMembers
    BY DEF NeverOverfull
  <2> QED BY <1>3, FS_EmptySet, LimitsAssumption
<1>5. NothingOutlivesItsGroup /\ MembersWereInvited /\ OneOwner /\ AudiencesDoNotMix
  BY <1>3 DEF Init, NothingOutlivesItsGroup, MembersWereInvited, OneOwner, AudiencesDoNotMix
<1> QED BY <1>1, <1>2, <1>4, <1>5 DEF Inv, Tables

LEMMA SameTables ==
  ASSUME Inv, UNCHANGED tables
  PROVE  Tables'
<1> USE DEF tables, people, invitations, shares
<1>1. \A g \in Groups : Members(g)' = Members(g) /\ Pending(g)' = Pending(g)
  BY DEF Members, Pending
<1>2. NeverOverfull' /\ NothingOutlivesItsGroup'
  BY <1>1 DEF Inv, Tables, NeverOverfull, NothingOutlivesItsGroup
<1>3. MembersWereInvited' /\ OneOwner' /\ AudiencesDoNotMix'
  BY DEF Inv, Tables, MembersWereInvited, OneOwner, AudiencesDoNotMix
<1> QED BY <1>2, <1>3 DEF Tables

(* A step that only moves one request on keeps the invariant if what the *)
(* request now relies on is true.                                        *)
LEMMA QuietStep ==
  ASSUME Inv, NEW q \in Requests, NEW x, Shape(x), Good(x),
         req' = [req EXCEPT ![q] = x], UNCHANGED tables,
         x.op # "share" => \A p \in Requests \ {q}, n \in x.rows : ~ Deleting(p, n, x.group)
  PROVE  Inv'
<1> USE DEF tables, people, invitations, shares
<1>1. req \in [Requests -> Calling \cup {Idle}]
  BY DEF Inv, TypeOK
<1>2. x \in Calling
  BY DEF Shape
<1>3. \A p \in Requests : req'[p] = IF p = q THEN x ELSE req[p]
  BY <1>1
<1>4. TypeOK'
  BY <1>1, <1>2 DEF Inv, TypeOK
<1>5. AllShaped'
  BY <1>3 DEF Inv, AllShaped, InFlight
<1>7. AllGood'
  <2> SUFFICES ASSUME NEW p \in Requests, InFlight(p)' PROVE Good(req[p])'
    BY DEF AllGood
  <2>1. Good(req'[p])
    BY <1>3 DEF Inv, AllGood, InFlight
  <2> QED
    BY <2>1 DEF Good, GroupKnown, InvitationKnown, SparesOwner, RowsThere, LastForIt
<1>8. OneDeleter'
  <2> SUFFICES ASSUME NEW p \in Requests, NEW r \in Requests, NEW n \in Notes, NEW g \in Groups,
                      Deleting(p, n, g)', Deleting(r, n, g)'
               PROVE  p = r
    BY DEF OneDeleter
  <2>1. CASE p # q /\ r # q
    BY <1>3, <2>1 DEF Inv, OneDeleter, Deleting
  <2>2. CASE p = q /\ r # q
    BY <1>3, <2>2 DEF Deleting
  <2>3. CASE p # q /\ r = q
    BY <1>3, <2>3 DEF Deleting
  <2> QED BY <2>1, <2>2, <2>3
<1>9. Tables'
  BY SameTables
<1> QED BY <1>4, <1>5, <1>7, <1>8, <1>9 DEF Inv

(* A step that ends one request, or none, and writes the tables keeps what *)
(* the others rely on if no group is forgotten, no invitation rewritten,   *)
(* no owner made, and the rows others are withdrawing are left alone.      *)
GroupsStay == \A g \in Groups : group[g] # "unused" => group'[g] # "unused"
SentStays == \A i \in Invitations : sentTo[i] # Nil => sentTo'[i] = sentTo[i]
NoNewOwner == \A g \in Groups, r \in Readers :
  group[g] # "unused" /\ role[g][r] # "owner" => role'[g][r] # "owner"
RowsLeftAlone == \A p \in Requests :
  InFlight(p) /\ req'[p] = req[p] => RowsThere(req[p])' /\ LastForIt(req[p])'

LEMMA WritingStep ==
  ASSUME Inv, \A p \in Requests : req'[p] = req[p] \/ req'[p] = Idle,
         GroupsStay, SentStays, NoNewOwner, RowsLeftAlone
  PROVE  AllShaped' /\ AllGood' /\ OneDeleter'
<1>1. AllShaped'
  BY DEF Inv, AllShaped, InFlight
<1>2. AllGood'
  <2> SUFFICES ASSUME NEW p \in Requests, InFlight(p)' PROVE Good(req[p])'
    BY DEF AllGood
  <2>1. req'[p] = req[p] /\ InFlight(p)
    BY DEF InFlight
  <2>2. Shape(req[p]) /\ Good(req[p])
    BY <2>1 DEF Inv, AllShaped, AllGood
  <2>3. RowsThere(req[p])' /\ LastForIt(req[p])'
    BY <2>1 DEF RowsLeftAlone
  <2>4. GroupKnown(req[p])'
    BY <2>1, <2>2 DEF Good, Shape, GroupKnown, GroupsStay
  <2>5. InvitationKnown(req[p])'
    <3> SUFFICES ASSUME req[p].op \in {"accept", "decline"} PROVE sentTo'[req[p].arg] = <<req[p].group, req[p].by>>
      BY <2>1 DEF InvitationKnown
    <3>1. req[p].group \in Groups /\ req[p].by \in Readers /\ req[p].arg \in Invitations
      BY <2>2 DEF Shape, Calling
    <3>2. sentTo[req[p].arg] = <<req[p].group, req[p].by>>
      BY <2>2 DEF Good, InvitationKnown
    <3> QED BY <3>1, <3>2, NilAssumption DEF SentStays
  <2>6. SparesOwner(req[p])'
    BY <2>1, <2>2 DEF Good, Shape, SparesOwner, AimedAt, GroupKnown, NoNewOwner
  <2> QED BY <2>3, <2>4, <2>5, <2>6 DEF Good
<1>3. OneDeleter'
  <2> SUFFICES ASSUME NEW p \in Requests, NEW r \in Requests, NEW n \in Notes, NEW g \in Groups,
                      Deleting(p, n, g)', Deleting(r, n, g)'
               PROVE  p = r
    BY DEF OneDeleter
  <2>1. req'[p] = req[p] /\ req'[r] = req[r]
    BY IdleIsNoCall DEF Deleting
  <2> QED BY <2>1 DEF Inv, OneDeleter, Deleting
<1> QED BY <1>1, <1>2, <1>3

LEMMA Ended ==
  ASSUME Inv, NEW q \in Requests, End(q)
  PROVE  /\ req' \in [Requests -> Calling \cup {Idle}]
         /\ \A p \in Requests : req'[p] = req[p] \/ req'[p] = Idle
         /\ req'[q] = Idle
         /\ \A p \in Requests : p # q => req'[p] = req[p]
  BY DEF Inv, TypeOK, End

LEMMA SharesAlone ==
  ASSUME Inv, UNCHANGED shares
  PROVE  RowsLeftAlone /\ AudiencesDoNotMix'
<1>1. RowsLeftAlone
  <2> SUFFICES ASSUME NEW p \in Requests, InFlight(p), req'[p] = req[p]
               PROVE  RowsThere(req[p])' /\ LastForIt(req[p])'
    BY DEF RowsLeftAlone
  <2>1. RowsThere(req[p]) /\ LastForIt(req[p])
    BY DEF Inv, AllGood, Good
  <2> QED BY <2>1 DEF RowsThere, LastForIt, shares
<1>2. AudiencesDoNotMix'
  BY DEF Inv, Tables, AudiencesDoNotMix, shares
<1> QED BY <1>1, <1>2

LEMMA PeopleAlone ==
  ASSUME Inv, UNCHANGED people, SentStays
  PROVE  GroupsStay /\ NoNewOwner /\ OneOwner' /\ NeverOverfull' /\ MembersWereInvited'
<1> USE DEF people
<1>1. GroupsStay /\ NoNewOwner /\ OneOwner'
  BY DEF Inv, Tables, GroupsStay, NoNewOwner, OneOwner
<1>2. \A g \in Groups : Members(g)' = Members(g)
  BY DEF Members
<1>3. NeverOverfull'
  BY <1>2 DEF Inv, Tables, NeverOverfull
<1>4. MembersWereInvited'
  BY NilAssumption DEF Inv, Tables, MembersWereInvited, SentStays
<1> QED BY <1>1, <1>3, <1>4

LEMMA FewerMembers ==
  ASSUME Inv, TypeOK', \A g \in Groups : Members(g)' \subseteq Members(g)
  PROVE  NeverOverfull'
<1> SUFFICES ASSUME NEW g \in Groups PROVE Cardinality(Members(g)') <= MaxMembers
  BY DEF NeverOverfull
<1>1. IsFiniteSet(Members(g)) /\ Members(g) \subseteq Readers
  BY FiniteAssumption, FS_Subset DEF Members
<1>2. Cardinality(Members(g)') <= Cardinality(Members(g)) /\ Cardinality(Members(g)') \in Nat
  BY <1>1, FS_Subset, FS_CardinalityType
<1>3. Cardinality(Members(g)) <= MaxMembers /\ Cardinality(Members(g)) \in Nat
  BY <1>1, FS_CardinalityType DEF Inv, Tables, NeverOverfull
<1> QED BY <1>2, <1>3, LimitsAssumption

-----------------------------------------------------------------------------
LEMMA MembersLive ==
  ASSUME Inv, NEW g \in Groups, NEW r \in Readers, role[g][r] # "none"
  PROVE  group[g] = "live"
  BY DEF Inv, Tables, NothingOutlivesItsGroup, Members

LEMMA CallWithdrawingInv ==
  ASSUME Inv, NEW q \in Requests, NEW r \in Readers, NEW g \in Groups, CallWithdrawing(q, r, g)
  PROVE  Inv'
<1>1. role[g][r] # "none"
  BY DEF CallWithdrawing, Managers
<1>2. group[g] = "live"
  BY <1>1, MembersLive
<1>3. UNCHANGED tables
  BY DEF CallWithdrawing, tables
<1>4. CASE req' = [req EXCEPT ![q] = Ask("leave", "withdraw", r, g, r)] /\ role[g][r] # "owner"
  <2> DEFINE x == [op |-> "leave", at |-> "withdraw", by |-> r, group |-> g, arg |-> r, role |-> Nil, rows |-> {}, last |-> {}]
  <2>1. Shape(x)
    BY DEF Shape, Calling
  <2>2. Good(x)
    BY <1>2, <1>4 DEF Good, GroupKnown, InvitationKnown, SparesOwner, RowsThere, LastForIt
  <2>3. req' = [req EXCEPT ![q] = x]
    BY <1>4 DEF Ask, AskAs
  <2> QED BY <1>3, <2>1, <2>2, <2>3, QuietStep
<1>5. CASE req' = [req EXCEPT ![q] = Ask("remove", "withdraw", r, g, Nil)]
  <2> DEFINE x == [op |-> "remove", at |-> "withdraw", by |-> r, group |-> g, arg |-> Nil, role |-> Nil, rows |-> {}, last |-> {}]
  <2>1. Shape(x)
    BY DEF Shape, Calling
  <2>2. Good(x)
    BY <1>2 DEF Good, GroupKnown, InvitationKnown, SparesOwner, RowsThere, LastForIt, AimedAt
  <2>3. req' = [req EXCEPT ![q] = x]
    BY <1>5 DEF Ask, AskAs
  <2> QED BY <1>3, <2>1, <2>2, <2>3, QuietStep
<1>6. ASSUME NEW p \in Papers, req' = [req EXCEPT ![q] = Ask("removePaper", "withdraw", r, g, p)]
      PROVE  Inv'
  <2> DEFINE x == [op |-> "removePaper", at |-> "withdraw", by |-> r, group |-> g, arg |-> p, role |-> Nil, rows |-> {}, last |-> {}]
  <2>1. Shape(x)
    BY DEF Shape, Calling
  <2>2. Good(x)
    BY <1>2 DEF Good, GroupKnown, InvitationKnown, SparesOwner, RowsThere, LastForIt, AimedAt
  <2>3. req' = [req EXCEPT ![q] = x]
    BY <1>6 DEF Ask, AskAs
  <2> QED BY <1>3, <2>1, <2>2, <2>3, QuietStep
<1> QED BY <1>4, <1>5, <1>6 DEF CallWithdrawing

LEMMA CallOnTargetInv ==
  ASSUME Inv, NEW q \in Requests, NEW r \in Readers, NEW g \in Groups, CallOnTarget(q, r, g)
  PROVE  Inv'
<1>1. role[g][r] \in Roles
  BY DEF CallOnTarget, Managers, Inv, TypeOK, Roles
<1>2. group[g] = "live"
  BY <1>1, MembersLive DEF Roles, Managers
<1>3. UNCHANGED tables
  BY DEF CallOnTarget, tables
<1>4. ASSUME NEW o \in {"removeMember", "setRole"}, NEW t \in Readers, NEW s \in Roles,
             o = "setRole" => s \in {"moderator", "member"},
             req' = [req EXCEPT ![q] = AskAs(o, "target", r, g, t, s)]
      PROVE  Inv'
  <2> DEFINE x == [op |-> o, at |-> "target", by |-> r, group |-> g, arg |-> t, role |-> s, rows |-> {}, last |-> {}]
  <2>1. Shape(x)
    BY <1>4 DEF Shape, Calling
  <2>2. Good(x)
    BY <1>2, <1>4 DEF Good, GroupKnown, InvitationKnown, SparesOwner, RowsThere, LastForIt, AimedAt
  <2>3. req' = [req EXCEPT ![q] = x]
    BY <1>4 DEF AskAs
  <2> QED BY <1>3, <2>1, <2>2, <2>3, QuietStep
<1>5. ASSUME NEW n \in Notes,
             req' = [req EXCEPT ![q] = AskAs("removeAnnotation", "target", r, g, n, role[g][r])]
      PROVE  Inv'
  <2> DEFINE x == [op |-> "removeAnnotation", at |-> "target", by |-> r, group |-> g, arg |-> n, role |-> role[g][r], rows |-> {}, last |-> {}]
  <2>1. Shape(x)
    BY <1>1 DEF Shape, Calling
  <2>2. Good(x)
    BY <1>2 DEF Good, GroupKnown, InvitationKnown, SparesOwner, RowsThere, LastForIt, AimedAt
  <2>3. req' = [req EXCEPT ![q] = x]
    BY <1>5 DEF AskAs
  <2> QED BY <1>3, <2>1, <2>2, <2>3, QuietStep
<1>6. ASSUME NEW t \in Readers, req' = [req EXCEPT ![q] = AskAs("removeMember", "target", r, g, t, role[g][r])]
      PROVE  Inv'
  BY <1>1, <1>4, <1>6
<1>7. ASSUME NEW t \in Readers, NEW new \in {"moderator", "member"},
             req' = [req EXCEPT ![q] = AskAs("setRole", "target", r, g, t, new)]
      PROVE  Inv'
  BY <1>4, <1>7 DEF Roles, Managers
<1> QED BY <1>5, <1>6, <1>7 DEF CallOnTarget

LEMMA CallAsManagerInv ==
  ASSUME Inv, NEW q \in Requests, NEW r \in Readers, NEW g \in Groups, CallAsManager(q, r, g)
  PROVE  Inv'
<1>1. group[g] = "live"
  BY MembersLive DEF CallAsManager, Managers
<1>2. UNCHANGED tables
  BY DEF CallAsManager, tables
<1>3. PICK o \in {"invite", "revoke", "addPaper"}, at \in {"lock", "write"},
          y \in Readers \cup Invitations \cup Papers :
        /\ o = "invite" => y \in Readers
        /\ o = "revoke" => y \in Invitations
        /\ o = "addPaper" => y \in Papers
        /\ req' = [req EXCEPT ![q] = Ask(o, at, r, g, y)]
  BY DEF CallAsManager
<1> DEFINE x == [op |-> o, at |-> at, by |-> r, group |-> g, arg |-> y, role |-> Nil, rows |-> {}, last |-> {}]
<1>4. Shape(x)
  BY <1>3 DEF Shape, Calling
<1>5. Good(x)
  BY <1>1, <1>3 DEF Good, GroupKnown, InvitationKnown, SparesOwner, RowsThere, LastForIt, AimedAt
<1>6. req' = [req EXCEPT ![q] = x]
  BY <1>3 DEF Ask, AskAs
<1> QED BY <1>2, <1>4, <1>5, <1>6, QuietStep

LEMMA RunningShaped ==
  ASSUME Inv, NEW q \in Requests, req[q].op # "idle" \/ req[q].at # "idle"
  PROVE  InFlight(q) /\ Shape(req[q]) /\ Good(req[q])
  BY IdleIsNoCall DEF Inv, AllShaped, AllGood, InFlight

LEMMA ReadTargetInv ==
  ASSUME Inv, NEW q \in Requests, ReadTarget(q)
  PROVE  Inv'
<1>1. Shape(req[q]) /\ Good(req[q])
  BY RunningShaped DEF ReadTarget, At
<1>2. UNCHANGED tables
  BY DEF ReadTarget, tables
<1>3. PICK to \in {"withdraw", "write"} :
        /\ req' = [req EXCEPT ![q] = [req[q] EXCEPT !.at = to]]
        /\ req[q].at = "target"
        /\ \/ req[q].op = "removeMember" /\ to = "withdraw" /\ role[req[q].group][req[q].arg] # "owner"
           \/ req[q].op = "setRole" /\ to = "write" /\ role[req[q].group][req[q].arg] # "owner"
           \/ req[q].op = "removeAnnotation" /\ to = "withdraw"
  BY DEF ReadTarget, At, Goto
<1> DEFINE x == [req[q] EXCEPT !.at = to]
<1>4. /\ x.op = req[q].op /\ x.group = req[q].group /\ x.arg = req[q].arg /\ x.by = req[q].by
      /\ x.role = req[q].role /\ x.rows = req[q].rows /\ x.last = req[q].last /\ x.at = to
      /\ x \in Calling
  BY <1>1 DEF Shape, Calling
<1>5. Shape(x)
  BY <1>1, <1>3, <1>4 DEF Shape
<1>6. Good(x)
  BY <1>1, <1>3, <1>4 DEF Good, GroupKnown, InvitationKnown, SparesOwner, RowsThere, LastForIt, AimedAt, Shape
<1>7. x.rows = {}
  BY <1>1, <1>3, <1>4 DEF Shape
<1> QED BY <1>2, <1>3, <1>5, <1>6, <1>7, QuietStep

LEMMA WithdrawInv ==
  ASSUME Inv, NEW q \in Requests, Withdraw(q)
  PROVE  Inv'
<1>1. Shape(req[q]) /\ Good(req[q])
  BY RunningShaped DEF Withdraw
<1>2. UNCHANGED tables
  BY DEF Withdraw, tables
<1>3. PICK to \in {"orphans", "commit"} :
        /\ req' = [req EXCEPT ![q] = [req[q] EXCEPT !.rows = WithdrawnBy(q), !.at = to]]
        /\ req[q].at = "withdraw"
        /\ \A n \in WithdrawnBy(q) : ~ RowLocked(n, req[q].group)
  BY DEF Withdraw
<1> DEFINE x == [req[q] EXCEPT !.rows = WithdrawnBy(q), !.at = to]
<1>4. WithdrawnBy(q) \subseteq Notes /\ \A n \in WithdrawnBy(q) : req[q].group \in into[n]
  BY DEF WithdrawnBy
<1>5. /\ x.op = req[q].op /\ x.group = req[q].group /\ x.arg = req[q].arg /\ x.by = req[q].by
      /\ x.role = req[q].role /\ x.rows = WithdrawnBy(q) /\ x.last = req[q].last /\ x.at = to
      /\ x \in Calling
  BY <1>1, <1>4 DEF Shape, Calling
<1>6. Shape(x)
  BY <1>1, <1>3, <1>4, <1>5 DEF Shape
<1>7. Good(x)
  BY <1>1, <1>3, <1>4, <1>5 DEF Good, GroupKnown, InvitationKnown, SparesOwner, RowsThere, LastForIt, AimedAt, Shape
<1>8. \A p \in Requests \ {q}, n \in x.rows : ~ Deleting(p, n, x.group)
  BY <1>3, <1>5 DEF RowLocked
<1> QED BY <1>2, <1>3, <1>6, <1>7, <1>8, QuietStep

LEMMA FindOrphansInv ==
  ASSUME Inv, NEW q \in Requests, FindOrphans(q)
  PROVE  Inv'
<1>1. Shape(req[q]) /\ Good(req[q]) /\ req[q].at = "orphans"
  BY RunningShaped DEF FindOrphans
<1>2. UNCHANGED tables
  BY DEF FindOrphans, tables
<1> DEFINE x == [req[q] EXCEPT !.last = Orphans(q), !.at = "commit"]
<1>3. req' = [req EXCEPT ![q] = x]
  BY DEF FindOrphans
<1>4. Orphans(q) \subseteq req[q].rows
  BY DEF Orphans
<1>5. req[q].op # "share" /\ req[q].rows \subseteq Notes /\ req[q].group \in Groups
  BY <1>1 DEF Shape
<1>6. /\ x.op = req[q].op /\ x.group = req[q].group /\ x.arg = req[q].arg /\ x.by = req[q].by
      /\ x.role = req[q].role /\ x.rows = req[q].rows /\ x.last = Orphans(q) /\ x.at = "commit"
      /\ x \in Calling
  BY <1>1, <1>4, <1>5 DEF Shape, Calling
<1>7. Shape(x)
  BY <1>1, <1>4, <1>5, <1>6 DEF Shape
<1>8. LastForIt(x)
  BY <1>6 DEF LastForIt, Orphans
<1>9. Good(x)
  BY <1>1, <1>6, <1>8 DEF Good, GroupKnown, InvitationKnown, SparesOwner, RowsThere, AimedAt
<1>10. \A p \in Requests \ {q}, n \in x.rows : ~ Deleting(p, n, x.group)
  BY <1>5, <1>6 DEF Inv, OneDeleter, Deleting
<1> QED BY <1>2, <1>3, <1>7, <1>9, <1>10, QuietStep

LEMMA InviteInv ==
  ASSUME Inv, NEW q \in Requests, Invite(q)
  PROVE  Inv'
<1>1. Shape(req[q]) /\ Good(req[q]) /\ req[q].op = "invite" /\ req[q].at = "lock"
  BY RunningShaped DEF Invite, At
<1>2. UNCHANGED tables
  BY DEF Invite, tables
<1> DEFINE x == [req[q] EXCEPT !.at = "insert"]
<1>3. req' = [req EXCEPT ![q] = x]
  BY DEF Invite, Goto
<1>4. /\ x.op = req[q].op /\ x.group = req[q].group /\ x.arg = req[q].arg /\ x.by = req[q].by
      /\ x.role = req[q].role /\ x.rows = req[q].rows /\ x.last = req[q].last /\ x.at = "insert"
      /\ x \in Calling
  BY <1>1 DEF Shape, Calling
<1>5. Shape(x) /\ x.rows = {}
  BY <1>1, <1>4 DEF Shape
<1>6. Good(x)
  BY <1>1, <1>4 DEF Good, GroupKnown, InvitationKnown, SparesOwner, RowsThere, LastForIt, AimedAt
<1> QED BY <1>2, <1>3, <1>5, <1>6, QuietStep

LEMMA ReadInvitationInv ==
  ASSUME Inv, NEW q \in Requests, NEW r \in Readers, ReadInvitation(q, r)
  PROVE  Inv'
<1>1. PICK i \in Inbox(r), o \in {"accept", "decline"}, at \in {"lock", "write"} :
        req' = [req EXCEPT ![q] = Ask(o, at, r, sentTo[i][1], i)] /\ UNCHANGED tables
  BY DEF ReadInvitation, tables
<1>2. i \in waiting /\ i \in Invitations /\ sentTo[i] \in Groups \X Readers /\ sentTo[i][2] = r
  BY DEF Inbox, Inv, TypeOK
<1>3. PICK g \in Groups : sentTo[i] = <<g, r>>
  BY <1>2
<1>4. group[g] = "live"
  BY <1>2, <1>3 DEF Inv, Tables, NothingOutlivesItsGroup, Pending
<1> DEFINE x == [op |-> o, at |-> at, by |-> r, group |-> g, arg |-> i, role |-> Nil, rows |-> {}, last |-> {}]
<1>5. Shape(x)
  BY <1>2 DEF Shape, Calling
<1>6. Good(x)
  BY <1>3, <1>4 DEF Good, GroupKnown, InvitationKnown, SparesOwner, RowsThere, LastForIt, AimedAt
<1>7. req' = [req EXCEPT ![q] = x]
  BY <1>1, <1>3 DEF Ask, AskAs
<1> QED BY <1>1, <1>5, <1>6, <1>7, QuietStep

LEMMA CheckShareInv ==
  ASSUME Inv, NEW q \in Requests, NEW n \in Notes, NEW G \in SUBSET Groups, CheckShare(q, n, G)
  PROVE  Inv'
<1>1. UNCHANGED tables
  BY DEF CheckShare, tables
<1> DEFINE x == [op |-> "share", at |-> "write", by |-> Author[n], group |-> Nil, arg |-> n, role |-> Nil, rows |-> G, last |-> {}]
<1>2. req' = [req EXCEPT ![q] = x]
  BY DEF CheckShare
<1>3. Shape(x)
  BY NotesAssumption DEF Shape, Calling
<1>4. Good(x)
  BY DEF Good, GroupKnown, InvitationKnown, SparesOwner, RowsThere, LastForIt, AimedAt
<1> QED BY <1>1, <1>2, <1>3, <1>4, QuietStep

LEMMA RefuseInv ==
  ASSUME Inv, NEW q \in Requests, Refuse(q)
  PROVE  Inv'
<1>1. UNCHANGED tables /\ UNCHANGED shares /\ UNCHANGED people /\ SentStays
  BY DEF Refuse, tables, invitations, SentStays
<1>2. AllShaped' /\ AllGood' /\ OneDeleter'
  BY <1>1, Ended, SharesAlone, PeopleAlone, WritingStep DEF Refuse
<1>3. TypeOK'
  BY <1>1, Ended DEF Inv, TypeOK, tables, people, invitations, shares, Refuse
<1> QED BY <1>1, <1>2, <1>3, SameTables DEF Inv

-----------------------------------------------------------------------------
LEMMA CreateInv ==
  ASSUME Inv, NEW r \in Readers, Create(r)
  PROVE  Inv'
<1>1. PICK g \in Groups : /\ group[g] = "unused"
                          /\ group' = [group EXCEPT ![g] = "live"]
                          /\ role' = [role EXCEPT ![g][r] = "owner"]
  BY DEF Create
<1>2. UNCHANGED shares /\ SentStays /\ req' = req /\ UNCHANGED <<sentTo, waiting, list, share, into>>
  BY DEF Create, invitations, shares, SentStays
<1>3. TypeOK'
  BY <1>1, <1>2 DEF Inv, TypeOK, Roles, Managers
<1>4. Members(g) = {} /\ Pending(g) = {} /\ \A s \in Readers : role[g][s] = "none"
  BY <1>1 DEF Inv, Tables, NothingOutlivesItsGroup, Members
<1>5. /\ \A h \in Groups, s \in Readers :
            role'[h][s] = IF h = g /\ s = r THEN "owner" ELSE role[h][s]
      /\ \A h \in Groups : group'[h] = IF h = g THEN "live" ELSE group[h]
  BY <1>1 DEF Inv, TypeOK
<1>6. Members(g)' = {r} /\ \A h \in Groups : Pending(h)' = Pending(h) /\ (h # g => Members(h)' = Members(h))
  BY <1>2, <1>4, <1>5 DEF Members, Pending
<1>7. NeverOverfull'
  <2> SUFFICES ASSUME NEW h \in Groups PROVE Cardinality(Members(h)') <= MaxMembers
    BY DEF NeverOverfull
  <2>1. CASE h = g
    BY <1>6, <2>1, FS_Singleton, LimitsAssumption
  <2>2. CASE h # g
    BY <1>6, <2>2 DEF Inv, Tables, NeverOverfull
  <2> QED BY <2>1, <2>2
<1>8. NothingOutlivesItsGroup'
  BY <1>2, <1>5, <1>6 DEF Inv, Tables, NothingOutlivesItsGroup
<1>9. OneOwner'
  BY <1>4, <1>5 DEF Inv, Tables, OneOwner
<1>10. MembersWereInvited'
  BY <1>2, <1>5 DEF Inv, Tables, MembersWereInvited
<1>11. GroupsStay /\ NoNewOwner
  BY <1>1, <1>5 DEF GroupsStay, NoNewOwner
<1> QED BY <1>2, <1>3, <1>7, <1>8, <1>9, <1>10, <1>11, SharesAlone, WritingStep DEF Inv, Tables

LEMMA SetRoleInv ==
  ASSUME Inv, NEW q \in Requests, SetRole(q)
  PROVE  Inv'
<1>1. Shape(req[q]) /\ Good(req[q]) /\ req[q].op = "setRole" /\ req[q].at = "write"
  BY RunningShaped DEF SetRole, At
<1> DEFINE g == req[q].group
           t == req[q].arg
<1>2. g \in Groups /\ t \in Readers /\ req[q].role \in {"moderator", "member"} /\ role[g][t] # "owner"
  BY <1>1 DEF Shape, Good, SparesOwner, AimedAt
<1>3. UNCHANGED shares /\ SentStays /\ End(q) /\ UNCHANGED <<group, sentTo, waiting, list, share, into>>
  BY DEF SetRole, invitations, shares, SentStays
<1>4. role' = IF role[g][t] = "none" THEN role ELSE [role EXCEPT ![g][t] = req[q].role]
  BY DEF SetRole
<1>5. \A h \in Groups, s \in Readers :
        role'[h][s] = IF h = g /\ s = t /\ role[g][t] # "none" THEN req[q].role ELSE role[h][s]
  BY <1>2, <1>4 DEF Inv, TypeOK
<1>6. TypeOK'
  BY <1>2, <1>3, <1>4, Ended DEF Inv, TypeOK, Roles, Managers
<1>7. \A h \in Groups : Members(h)' = Members(h) /\ Pending(h)' = Pending(h)
  BY <1>2, <1>3, <1>5 DEF Members, Pending
<1>8. NeverOverfull' /\ NothingOutlivesItsGroup'
  BY <1>3, <1>7 DEF Inv, Tables, NeverOverfull, NothingOutlivesItsGroup
<1>9. OneOwner'
  BY <1>2, <1>3, <1>5 DEF Inv, Tables, OneOwner
<1>10. MembersWereInvited'
  <2>1. role[g][t] \in {"none", "moderator", "member"}
    BY <1>2 DEF Inv, TypeOK, Roles, Managers
  <2> SUFFICES ASSUME NEW h \in Groups, NEW s \in Readers, role'[h][s] \in {"moderator", "member"}
               PROVE  \E i \in Invitations : sentTo'[i] = <<h, s>>
    BY DEF MembersWereInvited
  <2>2. role[h][s] \in {"moderator", "member"}
    BY <1>5, <2>1
  <2> QED BY <1>3, <2>2 DEF Inv, Tables, MembersWereInvited
<1>11. GroupsStay /\ NoNewOwner
  BY <1>2, <1>3, <1>5 DEF GroupsStay, NoNewOwner
<1> QED BY <1>3, <1>6, <1>8, <1>9, <1>10, <1>11, Ended, SharesAlone, WritingStep DEF Inv, Tables

-----------------------------------------------------------------------------
(* What a commit takes out of the shares. *)
LEMMA TakenOut ==
  ASSUME Inv, NEW q \in Requests, NEW cascade \in BOOLEAN, TakeOut(q, cascade), End(q), InFlight(q),
         req[q].op # "share",
         cascade => \A p \in Requests \ {q}, n \in Notes : ~ Deleting(p, n, req[q].group)
  PROVE  /\ RowsLeftAlone /\ AudiencesDoNotMix'
         /\ share' \in [Notes -> {"none", "other", "group"}] /\ into' \in [Notes -> SUBSET Groups]
         /\ \A n \in Notes : into'[n] \subseteq into[n] /\ (cascade => req[q].group \notin into'[n])
         /\ \A n \in Notes : share[n] # "none" /\ share'[n] = "none" => share[n] = "group" /\ into[n] = {req[q].group}
<1> DEFINE g == req[q].group
<1>1. Shape(req[q]) /\ Good(req[q])
  BY DEF Inv, AllShaped, AllGood
<1>2. g \in Groups /\ req[q].rows \subseteq Notes /\ req[q].last \subseteq req[q].rows
  BY <1>1 DEF Shape
<1>3. \A n \in req[q].last : share[n] = "group" /\ into[n] = {g}
  BY <1>1 DEF Good, LastForIt
<1>4. /\ share \in [Notes -> {"none", "other", "group"}]
      /\ into \in [Notes -> SUBSET Groups]
  BY DEF Inv, TypeOK
<1>5. \A n \in Notes :
        /\ share'[n] = IF n \in req[q].last THEN "none" ELSE share[n]
        /\ into'[n] = IF n \in req[q].last THEN {}
                      ELSE IF cascade \/ n \in req[q].rows THEN into[n] \ {g} ELSE into[n]
  BY DEF TakeOut
<1>6. share' \in [Notes -> {"none", "other", "group"}] /\ into' \in [Notes -> SUBSET Groups]
  BY <1>4 DEF TakeOut
<1>7. AudiencesDoNotMix'
  BY <1>5 DEF Inv, Tables, AudiencesDoNotMix
<1>8. RowsLeftAlone
  <2> SUFFICES ASSUME NEW p \in Requests, InFlight(p), req'[p] = req[p]
               PROVE  RowsThere(req[p])' /\ LastForIt(req[p])'
    BY DEF RowsLeftAlone
  <2>1. p # q
    BY Ended DEF InFlight
  <2>2. Shape(req[p]) /\ RowsThere(req[p]) /\ LastForIt(req[p])
    BY DEF Inv, AllShaped, AllGood, Good
  <2>3. CASE req[p].op = "share"
    BY <2>2, <2>3 DEF Shape, RowsThere, LastForIt
  <2>4. CASE req[p].op # "share"
    <3> DEFINE h == req[p].group
    <3>1. req[p].rows \subseteq Notes /\ req[p].last \subseteq req[p].rows /\ h \in Groups
      BY <2>2, <2>4 DEF Shape
    <3>2. \A n \in req[p].rows : h = g => n \notin req[q].rows /\ ~ cascade
      BY <1>2, <2>1, <2>4, <3>1 DEF Inv, OneDeleter, Deleting
    <3>3. \A n \in req[p].rows : h \in into[n]
      BY <2>2, <2>4 DEF RowsThere
    <3>4. \A n \in req[p].rows : n \in req[q].last => h = g
      BY <1>3, <3>3
    <3>5. \A n \in req[p].rows : n \notin req[q].last
      BY <1>2, <3>2, <3>4
    <3>6. \A n \in req[p].rows : h \in into'[n]
      BY <1>5, <3>1, <3>2, <3>3, <3>5
    <3>7. \A n \in req[p].last : share[n] = "group" /\ into[n] = {h}
      BY <2>2 DEF LastForIt
    <3>8. \A n \in req[p].last : share'[n] = "group" /\ into'[n] = {h}
      BY <1>5, <3>1, <3>5, <3>6, <3>7
    <3> QED BY <3>6, <3>8 DEF RowsThere, LastForIt
  <2> QED BY <2>3, <2>4
<1>9. \A n \in Notes : into'[n] \subseteq into[n] /\ (cascade => g \notin into'[n])
  BY <1>4, <1>5
<1> QED BY <1>3, <1>5, <1>6, <1>7, <1>8, <1>9

LEMMA CommitLeaveInv ==
  ASSUME Inv, NEW q \in Requests, CommitLeave(q)
  PROVE  Inv'
<1>1. Shape(req[q]) /\ Good(req[q]) /\ req[q].op \in {"leave", "removeMember"} /\ req[q].at = "commit" /\ InFlight(q)
  BY RunningShaped DEF CommitLeave
<1> DEFINE g == req[q].group
           t == req[q].arg
<1>2. g \in Groups /\ t \in Readers /\ role[g][t] # "owner"
  BY <1>1 DEF Shape, Good, SparesOwner, AimedAt
<1>3. End(q) /\ TakeOut(q, FALSE) /\ UNCHANGED <<group, sentTo, waiting, list>> /\ SentStays
  BY DEF CommitLeave, invitations, SentStays
<1>4. /\ RowsLeftAlone /\ AudiencesDoNotMix'
      /\ share' \in [Notes -> {"none", "other", "group"}] /\ into' \in [Notes -> SUBSET Groups]
      /\ \A n \in Notes : into'[n] \subseteq into[n]
  BY <1>1, <1>3, TakenOut
<1>5. \A h \in Groups, s \in Readers : role'[h][s] = IF h = g /\ s = t THEN "none" ELSE role[h][s]
  BY <1>2 DEF CommitLeave, Inv, TypeOK
<1>6. role' \in [Groups -> [Readers -> Roles \cup {"none"}]]
  BY <1>2 DEF CommitLeave, Inv, TypeOK
<1>7. TypeOK'
  BY <1>3, <1>4, <1>6, Ended DEF Inv, TypeOK
<1>8. \A h \in Groups : Members(h)' \subseteq Members(h) /\ Pending(h)' = Pending(h)
  BY <1>3, <1>5 DEF Members, Pending
<1>9. NeverOverfull'
  BY <1>7, <1>8, FewerMembers
<1>10. NothingOutlivesItsGroup'
  BY <1>3, <1>4, <1>8 DEF Inv, Tables, NothingOutlivesItsGroup
<1>11. OneOwner'
  BY <1>2, <1>3, <1>5 DEF Inv, Tables, OneOwner
<1>12. MembersWereInvited'
  BY <1>3, <1>5 DEF Inv, Tables, MembersWereInvited
<1>13. GroupsStay /\ NoNewOwner
  BY <1>3, <1>5 DEF GroupsStay, NoNewOwner
<1> QED BY <1>3, <1>4, <1>7, <1>9, <1>10, <1>11, <1>12, <1>13, Ended, WritingStep DEF Inv, Tables

LEMMA CommitRemoveInv ==
  ASSUME Inv, NEW q \in Requests, CommitRemove(q)
  PROVE  Inv'
<1>1. Shape(req[q]) /\ Good(req[q]) /\ req[q].op = "remove" /\ req[q].at = "commit" /\ InFlight(q)
  BY RunningShaped DEF CommitRemove, At
<1> DEFINE g == req[q].group
<1>2. g \in Groups
  BY <1>1 DEF Shape
<1>3. End(q) /\ TakeOut(q, TRUE) /\ UNCHANGED sentTo /\ SentStays /\ waiting' = waiting \ Pending(g)
  BY DEF CommitRemove, SentStays
<1>4. /\ RowsLeftAlone /\ AudiencesDoNotMix'
      /\ share' \in [Notes -> {"none", "other", "group"}] /\ into' \in [Notes -> SUBSET Groups]
      /\ \A n \in Notes : into'[n] \subseteq into[n] /\ g \notin into'[n]
  BY <1>1, <1>3, TakenOut DEF CommitRemove
<1>5. /\ \A h \in Groups, s \in Readers : role'[h][s] = IF h = g THEN "none" ELSE role[h][s]
      /\ \A h \in Groups : group'[h] = IF h = g THEN "gone" ELSE group[h]
      /\ \A h \in Groups : list'[h] = IF h = g THEN {} ELSE list[h]
  BY <1>2 DEF CommitRemove, Inv, TypeOK
<1>6. /\ role' \in [Groups -> [Readers -> Roles \cup {"none"}]]
      /\ group' \in [Groups -> {"unused", "live", "gone"}]
      /\ list' \in [Groups -> SUBSET Papers]
  BY <1>2 DEF CommitRemove, Inv, TypeOK
<1>7. TypeOK'
  BY <1>3, <1>4, <1>6, Ended DEF Inv, TypeOK
<1>8. \A h \in Groups :
        /\ Members(h)' = IF h = g THEN {} ELSE Members(h)
        /\ Pending(h)' \subseteq Pending(h)
        /\ h = g => Pending(h)' = {}
  BY <1>3, <1>5 DEF Members, Pending
<1>9. NeverOverfull'
  BY <1>7, <1>8, FewerMembers
<1>10. NothingOutlivesItsGroup'
  <2> SUFFICES ASSUME NEW h \in Groups, group'[h] # "live"
               PROVE  Members(h)' = {} /\ Pending(h)' = {} /\ list'[h] = {} /\ \A n \in Notes : h \notin into'[n]
    BY DEF NothingOutlivesItsGroup
  <2>1. CASE h = g
    BY <1>4, <1>5, <1>8, <2>1
  <2>2. CASE h # g
    BY <1>4, <1>5, <1>8, <2>2 DEF Inv, Tables, NothingOutlivesItsGroup
  <2> QED BY <2>1, <2>2
<1>11. OneOwner'
  BY <1>5 DEF Inv, Tables, OneOwner
<1>12. MembersWereInvited'
  BY <1>3, <1>5 DEF Inv, Tables, MembersWereInvited
<1>13. GroupsStay /\ NoNewOwner
  BY <1>5 DEF GroupsStay, NoNewOwner
<1> QED BY <1>3, <1>4, <1>7, <1>9, <1>10, <1>11, <1>12, <1>13, Ended, WritingStep DEF Inv, Tables

LEMMA CommitRemovePaperInv ==
  ASSUME Inv, NEW q \in Requests, CommitRemovePaper(q) \/ CommitRemoveAnnotation(q)
  PROVE  Inv'
<1>1. Shape(req[q]) /\ req[q].op \in {"removePaper", "removeAnnotation"} /\ InFlight(q)
  BY RunningShaped DEF CommitRemovePaper, CommitRemoveAnnotation, At
<1>2. End(q) /\ TakeOut(q, FALSE) /\ UNCHANGED <<group, role, sentTo, waiting>> /\ UNCHANGED people /\ SentStays
  BY DEF CommitRemovePaper, CommitRemoveAnnotation, invitations, people, SentStays
<1>3. /\ RowsLeftAlone /\ AudiencesDoNotMix'
      /\ share' \in [Notes -> {"none", "other", "group"}] /\ into' \in [Notes -> SUBSET Groups]
      /\ \A n \in Notes : into'[n] \subseteq into[n]
  BY <1>1, <1>2, TakenOut
<1>4. list' \in [Groups -> SUBSET Papers] /\ \A h \in Groups : list'[h] \subseteq list[h]
  <2>1. list \in [Groups -> SUBSET Papers] /\ req[q].group \in Groups
    BY <1>1 DEF Shape, Inv, TypeOK
  <2>2. list' = list \/ list' = [list EXCEPT ![req[q].group] = @ \ {req[q].arg}]
    BY DEF CommitRemovePaper, CommitRemoveAnnotation
  <2> QED BY <2>1, <2>2
<1>5. TypeOK'
  BY <1>2, <1>3, <1>4, Ended DEF Inv, TypeOK
<1>6. \A h \in Groups : Members(h)' = Members(h) /\ Pending(h)' = Pending(h)
  BY <1>2 DEF Members, Pending
<1>7. NothingOutlivesItsGroup'
  BY <1>2, <1>3, <1>4, <1>6 DEF Inv, Tables, NothingOutlivesItsGroup
<1> QED BY <1>2, <1>3, <1>5, <1>7, Ended, PeopleAlone, WritingStep DEF Inv, Tables

-----------------------------------------------------------------------------
LEMMA InsertInvitationInv ==
  ASSUME Inv, NEW q \in Requests, InsertInvitation(q)
  PROVE  Inv'
<1>1. Shape(req[q]) /\ req[q].op = "invite"
  BY RunningShaped DEF InsertInvitation, At
<1> DEFINE g == req[q].group
           t == req[q].arg
<1>2. g \in Groups /\ t \in Readers /\ group[g] = "live"
  BY <1>1 DEF Shape, InsertInvitation
<1>3. PICK i \in Invitations : sentTo[i] = Nil /\ sentTo' = [sentTo EXCEPT ![i] = <<g, t>>] /\ waiting' = waiting \cup {i}
  BY DEF InsertInvitation
<1>4. End(q) /\ UNCHANGED <<group, role, list, share, into>> /\ UNCHANGED people /\ UNCHANGED shares
  BY DEF InsertInvitation, people, shares
<1>5. sentTo' \in [Invitations -> (Groups \X Readers) \cup {Nil}] /\ sentTo'[i] = <<g, t>>
      /\ \A j \in Invitations : j # i => sentTo'[j] = sentTo[j]
  BY <1>2, <1>3 DEF Inv, TypeOK
<1>6. SentStays
  BY <1>3, <1>5 DEF SentStays
<1>7. TypeOK'
  BY <1>2, <1>3, <1>4, <1>5, Ended, NilAssumption DEF Inv, TypeOK
<1>8. \A h \in Groups : h # g => Pending(h)' \subseteq Pending(h)
  <2> SUFFICES ASSUME NEW h \in Groups, h # g, NEW j \in waiting', sentTo'[j][1] = h
               PROVE  j \in Pending(h)
    BY DEF Pending
  <2> QED BY <1>3, <1>5 DEF Inv, TypeOK, Pending
<1>9. \A h \in Groups : Members(h)' = Members(h)
  BY <1>4 DEF Members
<1>10. NothingOutlivesItsGroup'
  BY <1>2, <1>4, <1>8, <1>9 DEF Inv, Tables, NothingOutlivesItsGroup
<1> QED BY <1>4, <1>6, <1>7, <1>10, Ended, SharesAlone, PeopleAlone, WritingStep DEF Inv, Tables

LEMMA InvitationGoneInv ==
  ASSUME Inv, NEW q \in Requests, Revoke(q) \/ Decline(q)
  PROVE  Inv'
<1>1. /\ End(q) /\ waiting' \subseteq waiting
      /\ UNCHANGED <<group, role, sentTo, list, share, into>> /\ UNCHANGED people /\ UNCHANGED shares
      /\ SentStays
  BY DEF Revoke, Decline, people, shares, SentStays
<1>2. TypeOK'
  BY <1>1, Ended DEF Inv, TypeOK
<1>3. \A h \in Groups : Members(h)' = Members(h) /\ Pending(h)' \subseteq Pending(h)
  BY <1>1 DEF Members, Pending
<1>4. NothingOutlivesItsGroup'
  BY <1>1, <1>3 DEF Inv, Tables, NothingOutlivesItsGroup
<1> QED BY <1>1, <1>2, <1>4, Ended, SharesAlone, PeopleAlone, WritingStep DEF Inv, Tables

LEMMA AcceptInv ==
  ASSUME Inv, NEW q \in Requests, Accept(q)
  PROVE  Inv'
<1>1. Shape(req[q]) /\ Good(req[q]) /\ req[q].op = "accept"
  BY RunningShaped DEF Accept, At
<1> DEFINE g == req[q].group
           r == req[q].by
           i == req[q].arg
<1>2. g \in Groups /\ r \in Readers /\ i \in Invitations /\ sentTo[i] = <<g, r>>
  BY <1>1 DEF Shape, Calling, Good, InvitationKnown
<1>3. group[g] = "live" /\ Cardinality(Members(g)) < MaxMembers
  BY DEF Accept
<1>4. /\ End(q) /\ waiting' = waiting \ {i}
      /\ UNCHANGED <<group, sentTo, list, share, into>> /\ UNCHANGED shares /\ SentStays
  BY DEF Accept, shares, SentStays
<1>5. \A h \in Groups, s \in Readers :
        role'[h][s] = IF h = g /\ s = r /\ role[g][r] = "none" THEN "member" ELSE role[h][s]
  BY <1>2 DEF Accept, Inv, TypeOK
<1>6. role' \in [Groups -> [Readers -> Roles \cup {"none"}]]
  BY <1>2 DEF Accept, Inv, TypeOK, Roles
<1>7. TypeOK'
  BY <1>4, <1>6, Ended DEF Inv, TypeOK
<1>8. \A h \in Groups : /\ h = g => Members(h)' = Members(h) \cup {r}
                        /\ h # g => Members(h)' = Members(h)
                        /\ Pending(h)' \subseteq Pending(h)
  <2>1. \A h \in Groups : h = g => Members(h)' = Members(h) \cup {r}
    BY <1>2, <1>5 DEF Members
  <2>2. \A h \in Groups : h # g => Members(h)' = Members(h)
    BY <1>5 DEF Members
  <2>3. \A h \in Groups : Pending(h)' \subseteq Pending(h)
    BY <1>4 DEF Pending
  <2> QED BY <2>1, <2>2, <2>3
<1>9. NeverOverfull'
  <2> SUFFICES ASSUME NEW h \in Groups PROVE Cardinality(Members(h)') <= MaxMembers
    BY DEF NeverOverfull
  <2>1. CASE h # g
    BY <1>8, <2>1 DEF Inv, Tables, NeverOverfull
  <2>2. CASE h = g
    <3>1. IsFiniteSet(Members(g))
      BY FiniteAssumption, FS_Subset DEF Members
    <3>2. Cardinality(Members(g)) \in Nat
      BY <3>1, FS_CardinalityType
    <3>3. \/ Cardinality(Members(g) \cup {r}) = Cardinality(Members(g))
          \/ Cardinality(Members(g) \cup {r}) = Cardinality(Members(g)) + 1
      BY <3>1, FS_AddElement
    <3>4. MaxMembers \in Nat
      BY LimitsAssumption
    <3>5. Members(h)' = Members(h) \cup {r}
      BY <1>8, <2>2
    <3> QED BY <1>3, <2>2, <3>2, <3>3, <3>4, <3>5
  <2> QED BY <2>1, <2>2
<1>10. NothingOutlivesItsGroup'
  BY <1>3, <1>4, <1>8 DEF Inv, Tables, NothingOutlivesItsGroup
<1>11. OneOwner'
  BY <1>2, <1>4, <1>5 DEF Inv, Tables, OneOwner
<1>12. MembersWereInvited'
  BY <1>2, <1>4, <1>5 DEF Inv, Tables, MembersWereInvited
<1>13. GroupsStay /\ NoNewOwner
  BY <1>2, <1>4, <1>5 DEF GroupsStay, NoNewOwner
<1> QED BY <1>4, <1>7, <1>9, <1>10, <1>11, <1>12, <1>13, Ended, SharesAlone, WritingStep DEF Inv, Tables

LEMMA AddPaperInv ==
  ASSUME Inv, NEW q \in Requests, AddPaper(q)
  PROVE  Inv'
<1>1. Shape(req[q]) /\ req[q].op = "addPaper"
  BY RunningShaped DEF AddPaper, At
<1>2. req[q].group \in Groups /\ req[q].arg \in Papers /\ group[req[q].group] = "live"
  BY <1>1 DEF Shape, AddPaper
<1>3. /\ End(q) /\ UNCHANGED <<group, role, sentTo, waiting, share, into>>
      /\ UNCHANGED people /\ UNCHANGED shares /\ SentStays
  BY DEF AddPaper, people, invitations, shares, SentStays
<1>4. /\ list' \in [Groups -> SUBSET Papers]
      /\ \A h \in Groups : h # req[q].group => list'[h] = list[h]
  BY <1>2 DEF AddPaper, Inv, TypeOK
<1>5. TypeOK'
  BY <1>3, <1>4, Ended DEF Inv, TypeOK
<1>6. \A h \in Groups : Members(h)' = Members(h) /\ Pending(h)' = Pending(h)
  BY <1>3 DEF Members, Pending
<1>7. NothingOutlivesItsGroup'
  BY <1>2, <1>3, <1>4, <1>6 DEF Inv, Tables, NothingOutlivesItsGroup
<1> QED BY <1>3, <1>5, <1>7, Ended, SharesAlone, PeopleAlone, WritingStep DEF Inv, Tables

(* The two steps that replace the audience of a share: no withdrawal under *)
(* way has rows of it.                                                     *)
LEMMA AudienceReplaced ==
  ASSUME Inv, NEW n \in Notes, NEW v \in {"none", "other", "group"}, NEW G \in SUBSET Groups,
         share' = [share EXCEPT ![n] = v], into' = [into EXCEPT ![n] = G],
         G # {} => v = "group", \A g \in Groups : ~ RowLocked(n, g)
  PROVE  RowsLeftAlone /\ AudiencesDoNotMix'
<1>1. \A m \in Notes : /\ into'[m] = IF m = n THEN G ELSE into[m]
                       /\ share'[m] = IF m = n THEN v ELSE share[m]
  <2>1. into \in [Notes -> SUBSET Groups] /\ share \in [Notes -> {"none", "other", "group"}]
    BY DEF Inv, TypeOK
  <2> QED BY <2>1
<1>2. AudiencesDoNotMix'
  <2> SUFFICES ASSUME NEW m \in Notes, into'[m] # {} PROVE share'[m] = "group"
    BY DEF AudiencesDoNotMix
  <2>1. CASE m = n
    BY <1>1, <2>1
  <2>2. CASE m # n
    BY <1>1, <2>2 DEF Inv, Tables, AudiencesDoNotMix
  <2> QED BY <2>1, <2>2
<1>3. RowsLeftAlone
  <2> SUFFICES ASSUME NEW p \in Requests, InFlight(p), req'[p] = req[p]
               PROVE  RowsThere(req[p])' /\ LastForIt(req[p])'
    BY DEF RowsLeftAlone
  <2>1. Shape(req[p]) /\ RowsThere(req[p]) /\ LastForIt(req[p])
    BY DEF Inv, AllShaped, AllGood, Good
  <2>2. CASE req[p].op = "share"
    BY <2>1, <2>2 DEF Shape, RowsThere, LastForIt
  <2>3. CASE req[p].op # "share"
    <3>1. req[p].rows \subseteq Notes /\ req[p].last \subseteq req[p].rows /\ req[p].group \in Groups
      BY <2>1, <2>3 DEF Shape
    <3>2. n \notin req[p].rows
      BY <2>3, <3>1 DEF RowLocked, Deleting
    <3> QED BY <1>1, <2>1, <3>1, <3>2 DEF RowsThere, LastForIt
  <2> QED BY <2>2, <2>3
<1> QED BY <1>2, <1>3

LEMMA WriteShareInv ==
  ASSUME Inv, NEW q \in Requests, WriteShare(q)
  PROVE  Inv'
<1>1. Shape(req[q]) /\ req[q].op = "share"
  BY RunningShaped DEF WriteShare, At
<1> DEFINE n == req[q].arg
           G == req[q].rows
           v == IF G = {} THEN "other" ELSE "group"
<1>2. n \in Notes /\ G \in SUBSET Groups
  BY <1>1 DEF Shape
<1>3. /\ End(q) /\ UNCHANGED <<group, role, sentTo, waiting, list>> /\ UNCHANGED people /\ SentStays
      /\ share' = [share EXCEPT ![n] = v] /\ into' = [into EXCEPT ![n] = G]
      /\ \A g \in Groups : ~ RowLocked(n, g)
      /\ \A g \in G : group[g] = "live"
  BY DEF WriteShare, people, invitations, SentStays
<1>4. RowsLeftAlone /\ AudiencesDoNotMix'
  BY <1>2, <1>3, AudienceReplaced
<1>5. /\ share' \in [Notes -> {"none", "other", "group"}] /\ into' \in [Notes -> SUBSET Groups]
      /\ \A m \in Notes : into'[m] = IF m = n THEN G ELSE into[m]
  BY <1>2, <1>3 DEF Inv, TypeOK
<1>6. TypeOK'
  BY <1>3, <1>5, Ended DEF Inv, TypeOK
<1>7. \A h \in Groups : Members(h)' = Members(h) /\ Pending(h)' = Pending(h)
  BY <1>3 DEF Members, Pending
<1>8. NothingOutlivesItsGroup'
  BY <1>3, <1>5, <1>7 DEF Inv, Tables, NothingOutlivesItsGroup
<1> QED BY <1>3, <1>4, <1>6, <1>8, Ended, PeopleAlone, WritingStep DEF Inv, Tables

LEMMA UnshareInv ==
  ASSUME Inv, NEW n \in Notes, Unshare(n)
  PROVE  Inv'
<1>1. /\ UNCHANGED <<group, role, sentTo, waiting, list, req>> /\ UNCHANGED people /\ SentStays
      /\ share' = [share EXCEPT ![n] = "none"] /\ into' = [into EXCEPT ![n] = {}]
      /\ \A g \in Groups : ~ RowLocked(n, g)
  BY DEF Unshare, people, invitations, SentStays
<1>2. RowsLeftAlone /\ AudiencesDoNotMix'
  <2> DEFINE G == {}
             v == "none"
  <2>1. G \in SUBSET Groups /\ v \in {"none", "other", "group"} /\ ~ (G # {})
    OBVIOUS
  <2>2. share' = [share EXCEPT ![n] = v] /\ into' = [into EXCEPT ![n] = G]
    BY <1>1
  <2> HIDE DEF G, v
  <2> QED BY <1>1, <2>1, <2>2, AudienceReplaced
<1>3. /\ share' \in [Notes -> {"none", "other", "group"}] /\ into' \in [Notes -> SUBSET Groups]
      /\ \A m \in Notes : into'[m] \subseteq into[m]
  BY <1>1 DEF Inv, TypeOK
<1>4. TypeOK'
  BY <1>1, <1>3 DEF Inv, TypeOK
<1>5. \A h \in Groups : Members(h)' = Members(h) /\ Pending(h)' = Pending(h)
  BY <1>1 DEF Members, Pending
<1>6. NothingOutlivesItsGroup'
  BY <1>1, <1>3, <1>5 DEF Inv, Tables, NothingOutlivesItsGroup
<1> QED BY <1>1, <1>2, <1>4, <1>6, PeopleAlone, WritingStep DEF Inv, Tables

-----------------------------------------------------------------------------
LEMMA StepInv ==
  ASSUME Inv, NEW q \in Requests, Step(q)
  PROVE  Inv'
<1>1. CASE \E r \in Readers, g \in Groups :
             CallWithdrawing(q, r, g) \/ CallOnTarget(q, r, g) \/ CallAsManager(q, r, g)
  BY <1>1, CallWithdrawingInv, CallOnTargetInv, CallAsManagerInv
<1>2. CASE Refuse(q) \/ ReadTarget(q) \/ SetRole(q)
  BY <1>2, RefuseInv, ReadTargetInv, SetRoleInv
<1>3. CASE Withdraw(q) \/ FindOrphans(q)
  BY <1>3, WithdrawInv, FindOrphansInv
<1>4. CASE CommitLeave(q) \/ CommitRemovePaper(q) \/ CommitRemoveAnnotation(q) \/ CommitRemove(q)
  BY <1>4, CommitLeaveInv, CommitRemovePaperInv, CommitRemoveInv
<1>5. CASE Invite(q) \/ InsertInvitation(q) \/ Revoke(q)
  BY <1>5, InviteInv, InsertInvitationInv, InvitationGoneInv
<1>6. CASE (\E r \in Readers : ReadInvitation(q, r)) \/ Accept(q) \/ Decline(q)
  BY <1>6, ReadInvitationInv, AcceptInv, InvitationGoneInv
<1>7. CASE AddPaper(q) \/ (\E n \in Notes, G \in SUBSET Groups : CheckShare(q, n, G)) \/ WriteShare(q)
  BY <1>7, AddPaperInv, CheckShareInv, WriteShareInv
<1> QED BY <1>1, <1>2, <1>3, <1>4, <1>5, <1>6, <1>7 DEF Step

LEMMA NextInv == Inv /\ [Next]_vars => Inv'
<1> SUFFICES ASSUME Inv, [Next]_vars PROVE Inv'
  OBVIOUS
<1>1. CASE Next
  BY <1>1, CreateInv, StepInv, UnshareInv DEF Next
<1>2. CASE UNCHANGED vars
  <2>1. UNCHANGED tables /\ req' = req
    BY <1>2 DEF vars, tables
  <2>2. TypeOK' /\ AllShaped' /\ OneDeleter'
    BY <2>1 DEF Inv, TypeOK, AllShaped, OneDeleter, InFlight, Deleting, tables, people, invitations, shares
  <2>3. AllGood'
    BY <2>1 DEF Inv, AllGood, InFlight, Good, GroupKnown, InvitationKnown, SparesOwner, RowsThere, LastForIt,
         tables, people, invitations, shares
  <2> QED BY <2>1, <2>2, <2>3, SameTables DEF Inv
<1> QED BY <1>1, <1>2

-----------------------------------------------------------------------------
(* What is true of every behaviour of the reading groups. *)
THEOREM InvHolds == Spec => []Inv
<1> QED BY InitInv, NextInv, PTL DEF Spec

(* Every variable stays in its type. *)
THEOREM TypeCorrect == Spec => []TypeOK
<1>1. Inv => TypeOK
  BY DEF Inv
<1> QED BY <1>1, InvHolds, PTL

(* No interleaving of invitations, answers and removals fills a group past *)
(* its limit of readers (accept counts under the group's lock).            *)
THEOREM SizeHolds == Spec => []NeverOverfull
<1>1. Inv => NeverOverfull
  BY DEF Inv, Tables
<1> QED BY <1>1, InvHolds, PTL

(* A group that exists has exactly one owner: the checks that removals and *)
(* changes of role read before they write are never overtaken for the      *)
(* owner, whose role does not move.                                        *)
THEOREM OwnerHolds == Spec => []OneOwner
<1>1. Inv => OneOwner
  BY DEF Inv, Tables
<1> QED BY <1>1, InvHolds, PTL

(* A member who is not the owner was invited to that group by name. *)
THEOREM InvitedHolds == Spec => []MembersWereInvited
<1>1. Inv => MembersWereInvited
  BY DEF Inv, Tables
<1> QED BY <1>1, InvHolds, PTL

(* A deleted group leaves no member, invitation, paper or shared annotation *)
(* behind, and requests it overtook cannot bring one back.                  *)
THEOREM DeletionIsWhole == Spec => []NothingOutlivesItsGroup
<1>1. Inv => NothingOutlivesItsGroup
  BY DEF Inv, Tables
<1> QED BY <1>1, InvHolds, PTL

(* A share in a group is for groups, never for the public or named readers. *)
THEOREM AudiencesHold == Spec => []AudiencesDoNotMix
<1>1. Inv => AudiencesDoNotMix
  BY DEF Inv, Tables
<1> QED BY <1>1, InvHolds, PTL

LEMMA StepSparesOthers ==
  ASSUME Inv, Next, NEW q \in Requests, NEW n \in Notes,
         req[q].at = "commit", req'[q] = Idle, share[n] # "none", share'[n] = "none"
  PROVE  share[n] = "group" /\ into[n] = {req[q].group}
<1>1. req[q] # Idle /\ share' # share
  BY IdleIsNoCall
<1>2. ASSUME NEW r \in Readers, Create(r) PROVE FALSE
  BY <1>1, <1>2 DEF Create, shares
<1>3. ASSUME NEW m \in Notes, Unshare(m) PROVE FALSE
  BY <1>1, <1>3 DEF Unshare
<1>4. ASSUME NEW p \in Requests, Step(p)
      PROVE  share[n] = "group" /\ into[n] = {req[q].group}
  <2>1. WriteShare(p) \/ CommitLeave(p) \/ CommitRemovePaper(p) \/ CommitRemoveAnnotation(p) \/ CommitRemove(p)
    BY <1>1, <1>4 DEF Step, CallWithdrawing, CallOnTarget, CallAsManager, Refuse, ReadTarget, SetRole, Withdraw,
         FindOrphans, Invite, InsertInvitation, Revoke, ReadInvitation, Accept, Decline, AddPaper, CheckShare, shares
  <2>2. End(p)
    BY <2>1 DEF WriteShare, CommitLeave, CommitRemovePaper, CommitRemoveAnnotation, CommitRemove
  <2>3. p = q
    BY <1>1, <2>2, Ended
  <2>4. CASE WriteShare(p)
    BY <2>4, RunningShaped DEF WriteShare, Shape, At, Inv, TypeOK
  <2>5. CASE \E c \in BOOLEAN :
               /\ TakeOut(p, c) /\ req[p].op # "share" /\ InFlight(p)
               /\ c => \A o \in Requests \ {p}, m \in Notes : ~ Deleting(o, m, req[p].group)
    BY <2>2, <2>3, <2>5, TakenOut
  <2>6. InFlight(p)
    BY <1>1, <2>3 DEF InFlight
  <2> QED BY <2>1, <2>4, <2>5, <2>6 DEF CommitLeave, CommitRemovePaper, CommitRemoveAnnotation, CommitRemove, At
<1> QED BY <1>2, <1>3, <1>4 DEF Next

(* Whatever requests run beside it, taking an annotation out of a group      *)
(* deletes the published copy only when it was for that group alone: the row *)
(* locks keep its audience from changing between the two DELETEs.            *)
THEOREM WithdrawalsHold == Spec => WithdrawalsSpareOthers
<1>1. Inv /\ [Next]_vars =>
        [\A q \in Requests, n \in Notes :
           req[q].at = "commit" /\ req'[q] = Idle /\ share[n] # "none" /\ share'[n] = "none"
             => share[n] = "group" /\ into[n] = {req[q].group}]_vars
  BY StepSparesOthers
<1> QED BY <1>1, InvHolds, PTL DEF Spec, WithdrawalsSpareOthers
=============================================================================
