------------------------- MODULE PaperAttachmentsMC -------------------------
(* Small instances of PaperAttachments: one reader, one or two papers. *)
EXTENDS PaperAttachments, TLC

CONSTANTS ann, private, public, r1, r2

OwnerMC == (private :> ann)
NobodyMC == [p \in {} |-> ann]

UploadSymmetry == Permutations(Uploads)

(* One upload of two bytes, the others of one. *)
Large == CHOOSE u \in Uploads : TRUE
OneIsLarge == size = [u \in Uploads |-> IF u = Large THEN 2 ELSE 1]
MCInit == Init /\ OneIsLarge
MCFairSpec == MCInit /\ [][Next]_vars /\ Fairness
=============================================================================
