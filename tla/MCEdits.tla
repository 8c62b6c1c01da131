------------------------------- MODULE MCEdits -------------------------------
(* Small instances of Edits for TLC: a grid in each of two windows, and two   *)
(* grids in one window.                                                       *)
EXTENDS Edits, TLC
CONSTANTS s1, s2, g1, g2, r1, r2

OneEach == g1 :> s1 @@ g2 :> s2
OneWindow == g1 :> s1 @@ g2 :> s1
===============================================================================
