------------------------------ MODULE MCTabSave ------------------------------
(* Small instances of TabSave for TLC: one tab in each of two windows on the  *)
(* same file, and two tabs in one window.                                     *)
EXTENDS TabSave, TLC
CONSTANTS w1, w2, t1, t2, f1, f2

OneEach == t1 :> w1 @@ t2 :> w2
OneTab == t1 :> w1
OneFile == t1 :> f1
OneWindow == t1 :> w1 @@ t2 :> w1
SameFile == t1 :> f1 @@ t2 :> f1
OwnFile == t1 :> f1 @@ t2 :> f2
===============================================================================
