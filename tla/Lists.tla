-------------------------------- MODULE Lists --------------------------------
(***************************************************************************)
(* What the program does with its lists and arrays, as operators that can  *)
(* be reasoned about.                                                      *)
(***************************************************************************)
EXTENDS Naturals, Sequences

RangeOf(s) == {s[i] : i \in 1 .. Len(s)}

\* The elements of s that are in W, in their order.
Kept(s, W) ==
    LET f[n \in 0 .. Len(s)] ==
          IF n = 0 THEN <<>>
          ELSE IF s[n] \in W THEN Append(f[n - 1], s[n]) ELSE f[n - 1]
    IN f[Len(s)]
=============================================================================
