--------------------------- MODULE MCLastActivity ---------------------------
(* Small instances of LastActivity for TLC.                                  *)
EXTENDS LastActivity, TLC

Symmetry == Permutations(Clients) \cup Permutations(Logins)
=============================================================================
