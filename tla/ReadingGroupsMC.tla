-------------------------- MODULE ReadingGroupsMC --------------------------
(* Small instances of ReadingGroups. *)
EXTENDS ReadingGroups, TLC

CONSTANTS ann, bob, paper, n1

(* Both annotations are Ann's and about the one paper. *)
AuthorMC == [n \in Notes |-> ann]
PaperOfMC == [n \in Notes |-> paper]

(* A bound: all three readers take part only where there is one group and no *)
(* paper or annotation has come into it.                                     *)
TakesPart(r) ==
  \/ \E g \in Groups : role[g][r] # "none"
  \/ \E i \in Invitations : sentTo[i] # Nil /\ sentTo[i][2] = r
  \/ \E q \in Requests : r \in {req[q].by, req[q].arg}
ThreeOnlyInOne ==
  \/ Cardinality({r \in Readers : TakesPart(r)}) <= 2
  \/ /\ Cardinality({g \in Groups : group[g] # "unused"}) <= 1
     /\ \A g \in Groups : list[g] = {}
     /\ \A n \in Notes : share[n] = "none"

GroupSymmetry ==
  Permutations(Readers \ {ann}) \cup Permutations(Groups)
    \cup Permutations(Invitations) \cup Permutations(Requests)
=============================================================================
