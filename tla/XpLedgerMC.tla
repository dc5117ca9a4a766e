---------------------------- MODULE XpLedgerMC ----------------------------
(* A small catalog for XpLedger: a track of two sessions and one of direct *)
(* units.  The second build adds a unit to a session and retires the other *)
(* track.                                                                  *)
EXTENDS XpLedger, TLC

CONSTANTS u1, u2, u3, b1, b2, course, topic

SessionsOfMC == (course :> {b1, b2}) @@ (topic :> {})
SessionUnitsMC == << (b1 :> {u1}) @@ (b2 :> {u2}), (b1 :> {u1, u3}) @@ (b2 :> {u2}) >>
DirectUnitsMC == << (course :> {}) @@ (topic :> {u3}), (course :> {}) @@ (topic :> {u3}) >>
ActiveMC == << {course, topic}, {course} >>
GradesMC == {<<2, 3>>}

Alike == Permutations(Requests)
=============================================================================
