----------------------------- MODULE VizPlayerMC -----------------------------
(* Figures of four steps: a grid of two slots, a row of two tokens, trees of *)
(* three nodes.                                                              *)
EXTENDS VizPlayer, TLC

CONSTANTS ta, tb, tc, td

ItemsMC == <<ta, tb>>
KeysMC == <<ta, tb, tc, td>>
=============================================================================
