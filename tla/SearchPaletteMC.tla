--------------------------- MODULE SearchPaletteMC ---------------------------
(* Two queries and two filters, and searches of three pages of results.    *)
EXTENDS SearchPalette, TLC
==============================================================================
