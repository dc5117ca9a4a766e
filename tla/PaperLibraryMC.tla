---------------------------- MODULE PaperLibraryMC ----------------------------
(* One public paper and its DOI; a work with a DOI of its own, the same    *)
(* without one, and one that cannot be told apart by its DOI.              *)
EXTENDS PaperLibrary, TLC

CONSTANTS ownDoi, publicDoi, slug1, print1, otherDay

MCSlugOf == (ownDoi :> Nil) @@ (publicDoi :> slug1)
MCWorks == {[doi |-> ownDoi, print |-> print1], [doi |-> Nil, print |-> print1], [doi |-> publicDoi, print |-> print1]}

(* Finished today, being read again, another day, and other tags. *)
NoChange == [status |-> Same, completedAt |-> Same, tags |-> Same]
MCChanges ==
  {[NoChange EXCEPT !.status = "read"], [NoChange EXCEPT !.status = "reading"],
   [NoChange EXCEPT !.completedAt = otherDay], [NoChange EXCEPT !.tags = TRUE]}

Alike == Permutations(Calls) \cup Permutations(Names)
===============================================================================
