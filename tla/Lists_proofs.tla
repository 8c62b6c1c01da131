----------------------------- MODULE Lists_proofs -----------------------------
(***************************************************************************)
(* Facts about sequences and about what is kept of them.                   *)
(*                                                                         *)
(* Kept is a recursive function.  That there is such a function, and what  *)
(* it yields for every sequence, is shown by looking at the first place at *)
(* which it would go wrong: a set of numbers that is not empty has a least *)
(* member.                                                                 *)
(***************************************************************************)
EXTENDS Lists, SequenceTheorems, WellFoundedInduction, TLAPS

LEMMA LeastNumber ==
    ASSUME NEW T \in SUBSET Nat, T # {}
    PROVE  \E n \in T : \A m \in T : n <= m
<1>1. IsWellFoundedOn(OpToRel(<, Nat), Nat)
  BY NatLessThanWellFounded
<1>2. PICK n \in T : \A m \in T : <<m, n>> \notin OpToRel(<, Nat)
  BY <1>1, WFMin
<1>3. ASSUME NEW m \in T PROVE ~ m < n
  BY <1>2 DEF OpToRel
<1> QED
  BY <1>3

\* Induction over numbers, for a set of numbers in the place of a predicate.
LEMMA AllNumbers ==
    ASSUME NEW k \in Nat, NEW T \in SUBSET Nat, 0 \in T,
           \A n \in 1 .. k : n - 1 \in T => n \in T
    PROVE  \A n \in 0 .. k : n \in T
<1> SUFFICES ASSUME NEW m \in 0 .. k, m \notin T PROVE FALSE
  OBVIOUS
<1> DEFINE U == {n \in 0 .. k : n \notin T}
<1>1. U \in SUBSET Nat /\ U # {}
  OBVIOUS
<1>2. PICK n \in U : \A u \in U : n <= u
  BY <1>1, LeastNumber
<1>3. n - 1 \in 0 .. k /\ n - 1 \notin U /\ n \in 1 .. k
  BY <1>2
<1> QED
  BY <1>2, <1>3

-----------------------------------------------------------------------------
(* One step of a sequence.                                                 *)

LEMMA TailAt ==
    ASSUME NEW S, NEW s \in Seq(S), s # <<>>
    PROVE  /\ Tail(s) \in Seq(S) /\ Len(Tail(s)) = Len(s) - 1 /\ Len(s) \in Nat \ {0}
           /\ Head(s) = s[1] /\ 1 \in 1 .. Len(s) /\ Head(s) \in S
           /\ \A i \in 1 .. Len(Tail(s)) : Tail(s)[i] = s[i + 1] /\ i + 1 \in 1 .. Len(s)
  OBVIOUS

LEMMA AppendAt ==
    ASSUME NEW S, NEW s \in Seq(S), NEW x \in S
    PROVE  /\ Append(s, x) \in Seq(S) /\ Len(Append(s, x)) = Len(s) + 1 /\ Len(s) \in Nat
           /\ Append(s, x)[Len(s) + 1] = x
           /\ \A i \in 1 .. Len(Append(s, x)) :
                  \/ i \in 1 .. Len(s) /\ Append(s, x)[i] = s[i]
                  \/ i = Len(s) + 1 /\ Append(s, x)[i] = x
           /\ \A i \in 1 .. Len(s) : i \in 1 .. Len(Append(s, x)) /\ Append(s, x)[i] = s[i]
  OBVIOUS

LEMMA PrefixAt ==
    ASSUME NEW S, NEW s \in Seq(S), NEW n \in 0 .. Len(s)
    PROVE  /\ SubSeq(s, 1, n) \in Seq(S) /\ Len(SubSeq(s, 1, n)) = n /\ Len(s) \in Nat
           /\ \A i \in 1 .. Len(SubSeq(s, 1, n)) : SubSeq(s, 1, n)[i] = s[i] /\ i \in 1 .. Len(s)
  BY SubSeqProperties

LEMMA ConcatAt ==
    ASSUME NEW S, NEW s \in Seq(S), NEW t \in Seq(S)
    PROVE  /\ s \o t \in Seq(S) /\ Len(s \o t) = Len(s) + Len(t)
           /\ Len(s) \in Nat /\ Len(t) \in Nat
           /\ \A i \in 1 .. Len(s \o t) :
                  \/ i \in 1 .. Len(s) /\ (s \o t)[i] = s[i]
                  \/ i - Len(s) \in 1 .. Len(t) /\ (s \o t)[i] = t[i - Len(s)]
           /\ \A i \in 1 .. Len(s) : i \in 1 .. Len(s \o t) /\ (s \o t)[i] = s[i]
           /\ \A i \in 1 .. Len(t) : i + Len(s) \in 1 .. Len(s \o t) /\ (s \o t)[i + Len(s)] = t[i]
  OBVIOUS

LEMMA RangeAppend ==
    ASSUME NEW S, NEW s \in Seq(S), NEW x \in S
    PROVE  RangeOf(Append(s, x)) = RangeOf(s) \cup {x}
<1>1. ASSUME NEW y \in RangeOf(Append(s, x)) PROVE y \in RangeOf(s) \cup {x}
  BY <1>1, AppendAt DEF RangeOf
<1>2. ASSUME NEW y \in RangeOf(s) PROVE y \in RangeOf(Append(s, x))
  BY <1>2, AppendAt DEF RangeOf
<1>3. x \in RangeOf(Append(s, x))
  <2>1. Len(s) + 1 \in 1 .. Len(Append(s, x))
    BY AppendAt
  <2> QED
    BY <2>1, AppendAt DEF RangeOf
<1> QED
  BY <1>1, <1>2, <1>3

LEMMA RangeConcat ==
    ASSUME NEW S, NEW s \in Seq(S), NEW t \in Seq(S)
    PROVE  RangeOf(s \o t) = RangeOf(s) \cup RangeOf(t)
<1>1. ASSUME NEW y \in RangeOf(s \o t) PROVE y \in RangeOf(s) \cup RangeOf(t)
  BY <1>1, ConcatAt DEF RangeOf
<1>2. ASSUME NEW y \in RangeOf(s) PROVE y \in RangeOf(s \o t)
  BY <1>2, ConcatAt DEF RangeOf
<1>3. ASSUME NEW y \in RangeOf(t) PROVE y \in RangeOf(s \o t)
  BY <1>3, ConcatAt DEF RangeOf
<1> QED
  BY <1>1, <1>2, <1>3

-----------------------------------------------------------------------------
(* What is kept.                                                           *)

\* f is what Kept computes for the first n elements and for fewer.
Keeps(s, W, f, n) ==
    f = [i \in 0 .. n |-> IF i = 0 THEN <<>>
                          ELSE IF s[i] \in W THEN Append(f[i - 1], s[i]) ELSE f[i - 1]]

LEMMA KeepsExists ==
    ASSUME NEW s, NEW W, NEW k \in Nat
    PROVE  \E f : Keeps(s, W, f, k)
<1> DEFINE T == {n \in Nat : \E f : Keeps(s, W, f, n)}
<1>1. 0 \in T
  <2>1. Keeps(s, W, [i \in 0 .. 0 |-> <<>>], 0)
    BY DEF Keeps
  <2> QED
    BY <2>1
<1>2. ASSUME NEW n \in 1 .. k, n - 1 \in T PROVE n \in T
  <2>1. PICK f : Keeps(s, W, f, n - 1)
    BY <1>2
  <2> DEFINE g == [i \in 0 .. n |-> IF i = n THEN IF s[n] \in W THEN Append(f[n - 1], s[n]) ELSE f[n - 1]
                                    ELSE f[i]]
  <2>2. \A i \in 0 .. n : i # n => i \in 0 .. n - 1
    OBVIOUS
  <2>3. \A i \in 1 .. n : i - 1 \in 0 .. n - 1
    OBVIOUS
  <2>4. \A i \in 0 .. n - 1 : f[i] = IF i = 0 THEN <<>>
                                     ELSE IF s[i] \in W THEN Append(f[i - 1], s[i]) ELSE f[i - 1]
    BY <2>1 DEF Keeps
  <2>5. \A i \in 0 .. n : g[i] = IF i = 0 THEN <<>>
                                 ELSE IF s[i] \in W THEN Append(g[i - 1], s[i]) ELSE g[i - 1]
    BY <2>2, <2>3, <2>4
  <2>6. Keeps(s, W, g, n)
    BY <2>5 DEF Keeps
  <2> QED
    BY <2>6
<1> HIDE DEF T
<1>3. \A n \in 0 .. k : n \in T
  <2>1. T \in SUBSET Nat
    BY DEF T
  <2> QED
    BY <1>1, <1>2, <2>1, AllNumbers
<1> QED
  BY <1>3 DEF T

LEMMA KeptIsKept ==
    ASSUME NEW S, NEW s \in Seq(S), NEW W
    PROVE  \E f : /\ Kept(s, W) = f[Len(s)]
                  /\ f[0] = <<>>
                  /\ \A n \in 1 .. Len(s) :
                         f[n] = IF s[n] \in W THEN Append(f[n - 1], s[n]) ELSE f[n - 1]
<1>1. Len(s) \in Nat
  OBVIOUS
<1>2. \E f : Keeps(s, W, f, Len(s))
  BY <1>1, KeepsExists
<1> DEFINE g == CHOOSE f : Keeps(s, W, f, Len(s))
<1>3. Keeps(s, W, g, Len(s))
  BY <1>2
<1>4. Kept(s, W) = g[Len(s)]
  BY DEF Keeps, Kept
<1> HIDE DEF g
<1>5. \A n \in 0 .. Len(s) : g[n] = IF n = 0 THEN <<>>
                                    ELSE IF s[n] \in W THEN Append(g[n - 1], s[n]) ELSE g[n - 1]
  BY <1>3 DEF Keeps
<1> QED
  BY <1>1, <1>4, <1>5

\* t is what is kept of the first n elements of s.
KeptOf(t, s, W, n) ==
    /\ Len(t) <= n
    /\ \A i \in 1 .. Len(t) : t[i] \in W /\ \E m \in 1 .. n : t[i] = s[m]
    /\ \A m \in 1 .. n : s[m] \in W => \E i \in 1 .. Len(t) : t[i] = s[m]
    /\ (\A i, j \in 1 .. n : s[i] = s[j] => i = j)
           => \A i, j \in 1 .. Len(t) : t[i] = t[j] => i = j

LEMMA KeptOfNext ==
    ASSUME NEW S, NEW s \in Seq(S), NEW W, NEW n \in 1 .. Len(s), NEW t \in Seq(S), KeptOf(t, s, W, n - 1)
    PROVE  KeptOf(IF s[n] \in W THEN Append(t, s[n]) ELSE t, s, W, n)
<1>1. s[n] \in S /\ n \in Nat /\ n - 1 \in Nat
  OBVIOUS
<1>2. \A m \in 1 .. n : m = n \/ m \in 1 .. n - 1
  BY <1>1
<1>3. \A m \in 1 .. n - 1 : m \in 1 .. n /\ m # n
  BY <1>1
<1>4. CASE s[n] \notin W
  BY <1>1, <1>2, <1>3, <1>4 DEF KeptOf
<1>5. CASE s[n] \in W
  <2> DEFINE u == Append(t, s[n])
  <2>1. /\ Len(u) = Len(t) + 1 /\ Len(t) \in Nat /\ u[Len(t) + 1] = s[n]
        /\ \A i \in 1 .. Len(u) : \/ i \in 1 .. Len(t) /\ u[i] = t[i]
                                  \/ i = Len(t) + 1 /\ u[i] = s[n]
        /\ \A i \in 1 .. Len(t) : i \in 1 .. Len(u) /\ u[i] = t[i]
        /\ Len(t) + 1 \in 1 .. Len(u)
    BY <1>1, AppendAt
  <2> HIDE DEF u
  <2>2. Len(u) <= n
    BY <1>1, <2>1 DEF KeptOf
  <2>3. \A i \in 1 .. Len(u) : u[i] \in W /\ \E m \in 1 .. n : u[i] = s[m]
    BY <1>1, <1>3, <1>5, <2>1 DEF KeptOf
  <2>4. ASSUME NEW m \in 1 .. n, s[m] \in W PROVE \E i \in 1 .. Len(u) : u[i] = s[m]
    <3>1. CASE m = n
      BY <2>1, <3>1
    <3>2. CASE m # n
      <4>1. PICK i \in 1 .. Len(t) : t[i] = s[m]
        BY <1>2, <2>4, <3>2 DEF KeptOf
      <4> QED
        BY <2>1, <4>1
    <3> QED
      BY <3>1, <3>2
  <2>5. ASSUME \A i, j \in 1 .. n : s[i] = s[j] => i = j
        PROVE  \A i, j \in 1 .. Len(u) : u[i] = u[j] => i = j
    <3>1. \A i \in 1 .. Len(t) : t[i] # s[n]
      BY <1>1, <1>3, <2>5 DEF KeptOf
    <3>2. \A i, j \in 1 .. Len(t) : t[i] = t[j] => i = j
      BY <1>3, <2>5 DEF KeptOf
    <3> QED
      BY <2>1, <3>1, <3>2
  <2>6. KeptOf(u, s, W, n)
    BY <2>2, <2>3, <2>4, <2>5 DEF KeptOf
  <2> QED
    BY <1>5, <2>6 DEF u
<1> QED
  BY <1>4, <1>5

\* Kept loses, repeats and reorders nothing.
LEMMA KeptProperties ==
    ASSUME NEW S, NEW s \in Seq(S), NEW W
    PROVE  /\ Kept(s, W) \in Seq(S) /\ Len(Kept(s, W)) <= Len(s)
           /\ \A x : x \in RangeOf(Kept(s, W)) <=> x \in RangeOf(s) /\ x \in W
           /\ (\A i, j \in 1 .. Len(s) : s[i] = s[j] => i = j)
                => \A i, j \in 1 .. Len(Kept(s, W)) : Kept(s, W)[i] = Kept(s, W)[j] => i = j
<1>1. PICK f : /\ Kept(s, W) = f[Len(s)] /\ f[0] = <<>>
               /\ \A n \in 1 .. Len(s) :
                      f[n] = IF s[n] \in W THEN Append(f[n - 1], s[n]) ELSE f[n - 1]
  BY KeptIsKept
<1> DEFINE T == {n \in Nat : f[n] \in Seq(S) /\ KeptOf(f[n], s, W, n)}
<1>2. 0 \in T
  <2>1. KeptOf(<<>>, s, W, 0) /\ <<>> \in Seq(S)
    BY DEF KeptOf
  <2> QED
    BY <1>1, <2>1
<1>3. ASSUME NEW n \in 1 .. Len(s), n - 1 \in T PROVE n \in T
  <2>1. f[n - 1] \in Seq(S) /\ KeptOf(f[n - 1], s, W, n - 1) /\ s[n] \in S /\ n \in Nat
    BY <1>3
  <2>2. f[n] = IF s[n] \in W THEN Append(f[n - 1], s[n]) ELSE f[n - 1]
    BY <1>1
  <2>3. KeptOf(f[n], s, W, n)
    BY <2>1, <2>2, KeptOfNext
  <2>4. f[n] \in Seq(S)
    BY <2>1, <2>2, AppendProperties
  <2> QED
    BY <2>1, <2>3, <2>4
<1>4. Len(s) \in 0 .. Len(s) /\ Len(s) \in Nat /\ T \in SUBSET Nat
  OBVIOUS
<1> HIDE DEF T
<1>5. Len(s) \in T
  BY <1>2, <1>3, <1>4, AllNumbers
<1>6. Kept(s, W) \in Seq(S) /\ KeptOf(Kept(s, W), s, W, Len(s))
  BY <1>1, <1>5 DEF T
<1> DEFINE t == Kept(s, W)
<1> HIDE DEF t
<1>7. t \in Seq(S) /\ KeptOf(t, s, W, Len(s))
  BY <1>6 DEF t
<1>8. ASSUME NEW x \in RangeOf(t) PROVE x \in RangeOf(s) /\ x \in W
  BY <1>7, <1>8 DEF RangeOf, KeptOf
<1>9. ASSUME NEW x \in RangeOf(s), x \in W PROVE x \in RangeOf(t)
  <2>1. PICK m \in 1 .. Len(s) : s[m] = x
    BY <1>9 DEF RangeOf
  <2>2. PICK i \in 1 .. Len(t) : t[i] = x
    BY <1>7, <1>9, <2>1 DEF KeptOf
  <2> QED
    BY <2>2 DEF RangeOf
<1> QED
  BY <1>7, <1>8, <1>9 DEF KeptOf, t

LEMMA RangeTail ==
    ASSUME NEW S, NEW s \in Seq(S), s # <<>>
    PROVE  RangeOf(s) = {Head(s)} \cup RangeOf(Tail(s))
<1>1. ASSUME NEW y \in RangeOf(s) PROVE y \in {Head(s)} \cup RangeOf(Tail(s))
  <2>1. PICK i \in 1 .. Len(s) : s[i] = y
    BY <1>1 DEF RangeOf
  <2>2. CASE i = 1
    BY <2>1, <2>2, TailAt
  <2>3. CASE i # 1
    <3>1. i - 1 \in 1 .. Len(Tail(s)) /\ Tail(s)[i - 1] = s[i]
      BY <2>3, TailAt
    <3> QED
      BY <2>1, <3>1 DEF RangeOf
  <2> QED
    BY <2>2, <2>3
<1>2. ASSUME NEW y \in RangeOf(Tail(s)) PROVE y \in RangeOf(s)
  BY <1>2, TailAt DEF RangeOf
<1>3. Head(s) \in RangeOf(s)
  BY TailAt DEF RangeOf
<1> QED
  BY <1>1, <1>2, <1>3

\* t was taken from the first n elements of s, at the places p.
TakenAt(t, s, p, n) ==
    /\ \A i \in 1 .. Len(t) : p[i] \in 1 .. n /\ t[i] = s[p[i]]
    /\ \A i, j \in 1 .. Len(t) : i < j => p[i] < p[j]

\* Kept keeps the order: its elements are those at increasing places.
LEMMA KeptPlaces ==
    ASSUME NEW S, NEW s \in Seq(S), NEW W
    PROVE  \E p : TakenAt(Kept(s, W), s, p, Len(s))
<1>1. PICK f : /\ Kept(s, W) = f[Len(s)] /\ f[0] = <<>>
               /\ \A n \in 1 .. Len(s) :
                      f[n] = IF s[n] \in W THEN Append(f[n - 1], s[n]) ELSE f[n - 1]
  BY KeptIsKept
<1> DEFINE T == {n \in Nat : f[n] \in Seq(S) /\ \E p : TakenAt(f[n], s, p, n)}
<1>2. 0 \in T
  <2>1. TakenAt(<<>>, s, <<>>, 0)
    BY DEF TakenAt
  <2>2. <<>> \in Seq(S) /\ 0 \in Nat
    OBVIOUS
  <2> QED
    BY <1>1, <2>1, <2>2
<1>3. ASSUME NEW n \in 1 .. Len(s), n - 1 \in T PROVE n \in T
  <2>1. PICK p : TakenAt(f[n - 1], s, p, n - 1)
    BY <1>3
  <2>2. f[n - 1] \in Seq(S) /\ s[n] \in S /\ n \in Nat /\ Len(f[n - 1]) \in Nat
    BY <1>3
  <2>3. \A m \in 1 .. n - 1 : m \in 1 .. n /\ m < n
    BY <2>2
  <2>4. CASE s[n] \notin W
    <3>1. f[n] = f[n - 1]
      BY <1>1, <2>4
    <3>2. TakenAt(f[n], s, p, n)
      BY <2>1, <2>3, <3>1 DEF TakenAt
    <3> QED
      BY <2>2, <3>1, <3>2
  <2>5. CASE s[n] \in W
    <3> DEFINE t == f[n - 1]
               u == Append(t, s[n])
               q == [i \in 1 .. Len(t) + 1 |-> IF i = Len(t) + 1 THEN n ELSE p[i]]
    <3>1. f[n] = u
      BY <1>1, <2>5
    <3>2. /\ u \in Seq(S) /\ Len(u) = Len(t) + 1 /\ Len(t) \in Nat
          /\ \A i \in 1 .. Len(u) : \/ i \in 1 .. Len(t) /\ u[i] = t[i]
                                    \/ i = Len(t) + 1 /\ u[i] = s[n]
      BY <2>2, AppendAt
    <3>3. /\ \A i \in 1 .. Len(t) : i \in 1 .. Len(t) + 1 /\ i < Len(t) + 1 /\ q[i] = p[i]
          /\ q[Len(t) + 1] = n
      BY <3>2
    <3>4. /\ \A i \in 1 .. Len(t) : p[i] \in 1 .. n - 1 /\ t[i] = s[p[i]]
          /\ \A i, j \in 1 .. Len(t) : i < j => p[i] < p[j]
      BY <2>1 DEF TakenAt
    <3> HIDE DEF t, u, q
    <3>5. ASSUME NEW i \in 1 .. Len(u) PROVE q[i] \in 1 .. n /\ u[i] = s[q[i]]
      <4>1. CASE i \in 1 .. Len(t)
        BY <2>3, <3>2, <3>3, <3>4, <4>1
      <4>2. CASE i = Len(t) + 1
        BY <2>2, <3>2, <3>3, <4>2
      <4> QED
        BY <3>2, <4>1, <4>2
    <3>6. ASSUME NEW i \in 1 .. Len(u), NEW j \in 1 .. Len(u), i < j
          PROVE  q[i] < q[j]
      <4>1. i \in 1 .. Len(t)
        BY <3>2, <3>6
      <4>2. CASE j \in 1 .. Len(t)
        BY <3>3, <3>4, <3>6, <4>1, <4>2
      <4>3. CASE j = Len(t) + 1
        BY <2>3, <3>3, <3>4, <4>1, <4>3
      <4> QED
        BY <3>2, <4>2, <4>3
    <3>7. TakenAt(u, s, q, n)
      BY <3>5, <3>6 DEF TakenAt
    <3> QED
      BY <2>2, <3>1, <3>2, <3>7
  <2> QED
    BY <2>4, <2>5
<1>4. Len(s) \in 0 .. Len(s) /\ Len(s) \in Nat /\ T \in SUBSET Nat
  OBVIOUS
<1> HIDE DEF T
<1>5. Len(s) \in T
  BY <1>2, <1>3, <1>4, AllNumbers
<1> QED
  BY <1>1, <1>5 DEF T
=============================================================================
