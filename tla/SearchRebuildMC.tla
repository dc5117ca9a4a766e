-------------------------- MODULE SearchRebuildMC --------------------------
(* Two builds for SearchRebuild: the second renames a page and so holds as *)
(* many as the first.                                                      *)
EXTENDS SearchRebuild, TLC

CONSTANTS home, old, new

ContentMC == << (home :> "v1") @@ (old :> "v1") @@ (new :> Nil),
                (home :> "v2") @@ (old :> Nil) @@ (new :> "v2") >>
SettingsMC == <<"s1", "s1">>
=============================================================================
