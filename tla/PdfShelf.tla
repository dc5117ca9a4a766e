------------------------------- MODULE PdfShelf -------------------------------
(***************************************************************************)
(* What the attachment feature promises a reader, without replicas, rows   *)
(* or queues: each (reader, paper) slot serves at most one file, a file is *)
(* in storage for as long as it is served, and a file that was replaced,   *)
(* refused or deleted is never served again.                               *)
(***************************************************************************)
CONSTANTS Slots, Files, NoFile

VARIABLES
  served,   \* the file each slot serves, or NoFile
  present,  \* files that are in storage
  spent     \* files that may no longer start being served

shelf == <<served, present, spent>>

Init ==
  /\ served = [a \in Slots |-> NoFile]
  /\ present = {}
  /\ spent = {}

Arrive(f) ==
  /\ present' = present \cup {f}
  /\ UNCHANGED <<served, spent>>

Publish(a, f) ==
  /\ f \in present \ spent
  /\ served' = [served EXCEPT ![a] = f]
  /\ spent' = spent \cup {f}
  /\ UNCHANGED present

Withdraw(A) ==
  /\ served' = [a \in Slots |-> IF a \in A THEN NoFile ELSE served[a]]
  /\ UNCHANGED <<present, spent>>

GiveUp(F) ==
  /\ spent' = spent \cup F
  /\ UNCHANGED <<served, present>>

Discard(f) ==
  /\ \A a \in Slots : served[a] # f
  /\ present' = present \ {f}
  /\ UNCHANGED <<served, spent>>

Next ==
  \/ \E f \in Files : Arrive(f) \/ Discard(f)
  \/ \E a \in Slots, f \in Files : Publish(a, f)
  \/ \E A \in SUBSET Slots : Withdraw(A)
  \/ \E F \in SUBSET Files : GiveUp(F)

Spec == Init /\ [][Next]_shelf
=============================================================================
