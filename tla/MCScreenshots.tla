--------------------------- MODULE MCScreenshots ---------------------------
(* Two screens, so that repeats and changes both happen, and enough shots  *)
(* for a screen to come back after another one.                            *)
EXTENDS Screenshots

CONSTANTS s1, s2

MC_Screens == {s1, s2}
=============================================================================
