--------------------------- MODULE DiscussionMC ---------------------------
(* A small instance of Discussion. *)
EXTENDS Discussion, TLC

CommentIds == 1..3

(* The users here are alike, and so are markers and requests. *)
Alike == Permutations(Users) \cup Permutations(Markers) \cup Permutations(Requests)
=============================================================================
