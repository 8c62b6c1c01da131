--------------------------- MODULE MCClientSession ---------------------------
(* Small instances of ClientSession for TLC.  The structures of one kind are  *)
(* interchangeable, so safety is checked up to a permutation of them.         *)
EXTENDS SessionRecovery, TLC

Symmetry == Permutations(Clients) \cup Permutations(Requests)
=============================================================================
