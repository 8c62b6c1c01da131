------------------------- MODULE LastActivity_proofs -------------------------
(***************************************************************************)
(* Proofs about LastActivity, for any clients and logins and any           *)
(* login_timeout.                                                          *)
(*                                                                         *)
(* What free_last_activity leaves is described by SweptFrom, which each    *)
(* pass keeps: entries are dropped where they are, only expired ones, and  *)
(* only idle clients are closed.                                           *)
(***************************************************************************)
EXTENDS LastActivity, Lists_proofs

\* A client that is listed was given the login of its cookie or its request.
ListedHaveLogin == \A c \in RangeOf(list) : client[c].login \in Logins

LogInv == LogTypeOK /\ EntriesUnique /\ ListedHaveLogin

-----------------------------------------------------------------------------
(* Helpers.                                                                *)

\* A login that is found has an entry; one that is not found has none.
LEMMA FoundIsEntry ==
    ASSUME LogTypeOK, NEW l \in Logins
    PROVE  /\ Found(l) \in Nat \cup {None}
           /\ Found(l) = None <=> \A n \in 1 .. Len(log) : log[n].login # l
           /\ Found(l) # None => Found(l) + 1 \in 1 .. Len(log)
<1> DEFINE P == Positions(l)
<1>1. P \in SUBSET (Nat \ {0}) /\ P \subseteq 1 .. Len(log)
  BY DEF Positions
<1>2. Found(l) = IF P = {} THEN None ELSE (CHOOSE n \in P : \A m \in P : n <= m) - 1
  BY DEF Found
<1>3. CASE P = {}
  BY <1>2, <1>3 DEF Positions
<1>4. CASE P # {}
  <2>1. P \in SUBSET Nat
    BY <1>1
  <2> HIDE DEF P
  <2>2. \E n \in P : \A m \in P : n <= m
    BY <1>4, <2>1, LeastNumber
  <2>3. (CHOOSE n \in P : \A m \in P : n <= m) \in P
    BY <2>2
  <2> DEFINE k == CHOOSE n \in P : \A m \in P : n <= m
  <2>k. Found(l) = k - 1 /\ k \in P /\ k \in Nat \ {0}
    BY <1>1, <1>2, <1>4, <2>3
  <2> HIDE DEF k
  <2>4. Found(l) \in Nat /\ Found(l) + 1 \in P
    BY <2>k
  <2>5. Found(l) # None
    BY <2>4, NoneAssumption
  <2>6. Found(l) + 1 \in 1 .. Len(log) /\ \E n \in 1 .. Len(log) : log[n].login = l
    BY <1>1, <2>4 DEF P, Positions
  <2> QED
    BY <2>4, <2>5, <2>6
<1> QED
  BY <1>3, <1>4

LEMMA EntryOK ==
    ASSUME NEW e \in EntryType
    PROVE  /\ e.login \in Logins /\ e.age \in 0 .. Timeout
           /\ [e EXCEPT !.age = 0] \in EntryType /\ [e EXCEPT !.age = 0].login = e.login
           /\ ~ Expired(e) => /\ [e EXCEPT !.age = @ + 1] \in EntryType
                              /\ [e EXCEPT !.age = @ + 1].login = e.login
BY TimeoutAssumption DEF EntryType, Expired

\* Setting the time of an entry changes nothing else.
LEMMA UsedOK ==
    ASSUME NEW lg \in Seq(EntryType), NEW i
    PROVE  /\ Used(lg, i) \in Seq(EntryType) /\ Len(Used(lg, i)) = Len(lg)
           /\ \A n \in 1 .. Len(lg) : Used(lg, i)[n].login = lg[n].login
<1>1. Len(lg) \in Nat /\ \A n \in 1 .. Len(lg) : lg[n] \in EntryType
  OBVIOUS
<1>2. \A n \in 1 .. Len(lg) : /\ (IF n - 1 = i THEN [lg[n] EXCEPT !.age = 0] ELSE lg[n]) \in EntryType
                              /\ (IF n - 1 = i THEN [lg[n] EXCEPT !.age = 0] ELSE lg[n]).login = lg[n].login
  BY <1>1, EntryOK
<1>3. Used(lg, i) \in Seq(EntryType) /\ Len(Used(lg, i)) = Len(lg)
  BY <1>1, <1>2 DEF Used
<1>4. \A n \in 1 .. Len(lg) : Used(lg, i)[n] = IF n - 1 = i THEN [lg[n] EXCEPT !.age = 0] ELSE lg[n]
  BY <1>1 DEF Used
<1> QED
  BY <1>2, <1>3, <1>4

\* Logins in a log are unique.
Unique(lg) == \A m, n \in 1 .. Len(lg) : lg[m].login = lg[n].login => m = n

LEMMA UsedUnique ==
    ASSUME NEW lg \in Seq(EntryType), NEW i, Unique(lg)
    PROVE  Unique(Used(lg, i))
BY UsedOK DEF Unique

LEMMA AddedUnique ==
    ASSUME NEW lg \in Seq(EntryType), NEW e \in EntryType, Unique(lg),
           \A n \in 1 .. Len(lg) : lg[n].login # e.login
    PROVE  Append(lg, e) \in Seq(EntryType) /\ Unique(Append(lg, e))
BY AppendAt DEF Unique

\* What is left of the list is a part of it.
LEMMA ListPart ==
    ASSUME NEW s \in Seq(Clients), NEW W
    PROVE  /\ Kept(s, W) \in Seq(Clients)
           /\ \A c : c \in RangeOf(Kept(s, W)) <=> c \in RangeOf(s) /\ c \in W
BY KeptProperties

-----------------------------------------------------------------------------
(* The sweep.                                                              *)

\* The passes for the first n entries, as Swept makes them.
Sweeps(f, n) ==
    f = [i \in 0 .. n |->
            IF i = 0 THEN [index |-> [c \in Clients |-> client[c].index], list |-> list, log |-> log]
            ELSE SweepEntry(f[i - 1], i - 1)]

LEMMA SweepsExist ==
    ASSUME NEW k \in Nat
    PROVE  \E f : Sweeps(f, k)
<1> DEFINE start == [index |-> [c \in Clients |-> client[c].index], list |-> list, log |-> log]
           T == {n \in Nat : \E f : Sweeps(f, n)}
<1>1. 0 \in T
  <2>1. Sweeps([i \in 0 .. 0 |-> start], 0)
    BY DEF Sweeps
  <2> QED
    BY <2>1
<1>2. ASSUME NEW n \in 1 .. k, n - 1 \in T PROVE n \in T
  <2>1. PICK f : Sweeps(f, n - 1)
    BY <1>2
  <2> DEFINE g == [i \in 0 .. n |-> IF i = n THEN SweepEntry(f[n - 1], n - 1) ELSE f[i]]
  <2>2. \A i \in 0 .. n : i # n => i \in 0 .. n - 1
    OBVIOUS
  <2>3. \A i \in 1 .. n : i - 1 \in 0 .. n - 1 /\ i - 1 # n /\ i - 1 \in 0 .. n
    OBVIOUS
  <2>4. \A i \in 0 .. n - 1 : f[i] = IF i = 0 THEN start ELSE SweepEntry(f[i - 1], i - 1)
    BY <2>1 DEF Sweeps
  <2> HIDE DEF start
  <2>5. \A i \in 0 .. n : g[i] = IF i = 0 THEN start ELSE SweepEntry(g[i - 1], i - 1)
    BY <2>2, <2>3, <2>4
  <2>6. Sweeps(g, n)
    BY <2>5 DEF Sweeps, start
  <2> QED
    BY <2>6
<1> HIDE DEF T
<1>3. \A n \in 0 .. k : n \in T
  <2>1. T \in SUBSET Nat
    BY DEF T
  <2> QED
    BY <1>1, <1>2, <2>1, AllNumbers
<1> QED
  BY <1>3 DEF T

LEMMA SweptIsSwept ==
    ASSUME LogTypeOK
    PROVE  \E f : /\ Swept = f[Len(log)]
                  /\ f[0] = [index |-> [c \in Clients |-> client[c].index], list |-> list, log |-> log]
                  /\ \A n \in 1 .. Len(log) : f[n] = SweepEntry(f[n - 1], n - 1)
<1>1. Len(log) \in Nat
  BY DEF LogTypeOK
<1>2. \E f : Sweeps(f, Len(log))
  BY <1>1, SweepsExist
<1> DEFINE g == CHOOSE f : Sweeps(f, Len(log))
<1>3. Sweeps(g, Len(log))
  BY <1>2
<1>4. Swept = g[Len(log)]
  BY DEF Sweeps, Swept
<1> HIDE DEF g
<1>5. \A n \in 0 .. Len(log) : g[n] = IF n = 0
          THEN [index |-> [c \in Clients |-> client[c].index], list |-> list, log |-> log]
          ELSE SweepEntry(g[n - 1], n - 1)
  BY <1>3 DEF Sweeps
<1>6. 0 \in 0 .. Len(log) /\ \A n \in 1 .. Len(log) : n \in 0 .. Len(log) /\ n # 0
  BY <1>1
<1>7. g[0] = [index |-> [c \in Clients |-> client[c].index], list |-> list, log |-> log]
  BY <1>5, <1>6
<1>8. \A n \in 1 .. Len(log) : g[n] = SweepEntry(g[n - 1], n - 1)
  BY <1>5, <1>6
<1> QED
  BY <1>4, <1>7, <1>8

StateType ==
    [index : [Clients -> Nat \cup {None}], list : Seq(Clients), log : Seq(EntryType \cup {None})]

\* What the first n passes leave.  Only expired entries are dropped, each
\* where it was, and only idle clients are closed.
SweptFrom(s, n) ==
    /\ s \in StateType
    /\ Len(s.log) = Len(log)
    /\ \A m \in 1 .. Len(log) :
          \/ s.log[m] = log[m]
          \/ s.log[m] = None /\ m <= n /\ Expired(log[m])
    /\ \A c \in RangeOf(s.list) : c \in RangeOf(list)
    /\ \A c \in RangeOf(list) : client[c].busy => c \in RangeOf(s.list)

LEMMA MovedDownOK ==
    ASSUME NEW s \in StateType, NEW i \in Nat
    PROVE  MovedDown(s, i) \in [Clients -> Nat \cup {None}]
<1>1. s.index \in [Clients -> Nat \cup {None}]
  BY DEF StateType
<1>2. ASSUME NEW c \in Clients
      PROVE  (IF s.index[c] # None /\ s.index[c] > i THEN s.index[c] - 1 ELSE s.index[c]) \in Nat \cup {None}
  <2>1. s.index[c] \in Nat \/ s.index[c] = None
    BY <1>1
  <2> QED
    BY <2>1
<1> QED
  BY <1>2 DEF MovedDown

\* One entry is looked at.
LEMMA SweepEntryStep ==
    ASSUME LogTypeOK, NEW n \in 1 .. Len(log), NEW s, SweptFrom(s, n - 1)
    PROVE  SweptFrom(SweepEntry(s, n - 1), n)
<1> DEFINE u == SweepEntry(s, n - 1)
           moved == MovedDown(s, n - 1)
           W == {c \in Clients : moved[c] # n - 1 \/ client[c].busy}
<1>1. /\ n \in Nat /\ n - 1 \in Nat /\ n - 1 + 1 = n /\ Len(log) \in Nat
      /\ \A m \in 1 .. Len(log) : m \in Nat /\ (m <= n - 1 => m <= n)
  BY DEF LogTypeOK
<1>2. /\ s \in StateType /\ Len(s.log) = Len(log)
      /\ s.list \in Seq(Clients) /\ s.log \in Seq(EntryType \cup {None})
      /\ s = [index |-> s.index, list |-> s.list, log |-> s.log]
  BY DEF SweptFrom, StateType
<1>3. moved \in [Clients -> Nat \cup {None}]
  BY <1>1, <1>2, MovedDownOK
<1>4. SweptFrom(s, n)
  BY <1>1 DEF SweptFrom
<1> HIDE DEF moved, W
<1>5. CASE ~ Expired(s.log[n]) \/ \E c \in UsersOf(s, n - 1) : client[c].busy
  <2>1. u = s
    BY <1>1, <1>5 DEF SweepEntry
  <2> QED
    BY <1>4, <2>1
<1>6. CASE Expired(s.log[n]) /\ (\A c \in UsersOf(s, n - 1) : ~ client[c].busy) /\ UsersOf(s, n - 1) = {}
  <2>1. u = [s EXCEPT !.index = moved, !.log[n] = None]
    BY <1>1, <1>6 DEF SweepEntry, moved
  <2> HIDE DEF u
  <2>2. /\ u.index = moved /\ u.list = s.list /\ u.log = [s.log EXCEPT ![n] = None]
        /\ u = [index |-> u.index, list |-> u.list, log |-> u.log]
    BY <1>2, <2>1
  <2>3. /\ u.log \in Seq(EntryType \cup {None}) /\ Len(u.log) = Len(log)
        /\ u.log[n] = None /\ \A m \in 1 .. Len(log) : m # n => u.log[m] = s.log[m]
    BY <1>2, <2>2
  <2>4. u \in StateType
    BY <1>2, <1>3, <2>2, <2>3 DEF StateType
  <2>5. ASSUME NEW m \in 1 .. Len(log)
        PROVE  \/ u.log[m] = log[m]
               \/ u.log[m] = None /\ m <= n /\ Expired(log[m])
    <3>1. CASE m = n
      <4>1. u.log[m] = None /\ m <= n
        BY <1>1, <2>3, <3>1
      <4>2. s.log[n] = log[n] \/ Expired(log[n])
        BY DEF SweptFrom
      <4> QED
        BY <1>6, <3>1, <4>1, <4>2
    <3>2. CASE m # n
      BY <1>4, <2>3, <3>2 DEF SweptFrom
    <3> QED
      BY <3>1, <3>2
  <2>6. /\ \A c \in RangeOf(u.list) : c \in RangeOf(list)
        /\ \A c \in RangeOf(list) : client[c].busy => c \in RangeOf(u.list)
    BY <1>4, <2>2 DEF SweptFrom
  <2>7. SweptFrom(u, n)
    BY <2>3, <2>4, <2>5, <2>6 DEF SweptFrom
  <2> QED
    BY <2>7 DEF u
<1>7. CASE Expired(s.log[n]) /\ (\A c \in UsersOf(s, n - 1) : ~ client[c].busy) /\ UsersOf(s, n - 1) # {}
  <2>1. u = [s EXCEPT !.index = moved, !.list = Kept(@, W)]
    BY <1>1, <1>7 DEF SweepEntry, moved, W
  <2> HIDE DEF u
  <2>2. /\ u.index = moved /\ u.list = Kept(s.list, W) /\ u.log = s.log
        /\ u = [index |-> u.index, list |-> u.list, log |-> u.log]
    BY <1>2, <2>1
  <2>3. /\ u.list \in Seq(Clients)
        /\ \A c : c \in RangeOf(u.list) <=> c \in RangeOf(s.list) /\ c \in W
    BY <1>2, <2>2, ListPart
  <2>4. u \in StateType
    BY <1>2, <1>3, <2>2, <2>3 DEF StateType
  <2>5. \A c \in RangeOf(list) : client[c].busy => c \in RangeOf(u.list)
    <3>1. \A c \in RangeOf(list) : c \in Clients
      BY DEF LogTypeOK, RangeOf
    <3> QED
      BY <1>4, <2>3, <3>1 DEF SweptFrom, W
  <2>6. \A c \in RangeOf(u.list) : c \in RangeOf(list)
    BY <1>4, <2>3 DEF SweptFrom
  <2>7. /\ Len(u.log) = Len(log)
        /\ \A m \in 1 .. Len(log) :
              \/ u.log[m] = log[m]
              \/ u.log[m] = None /\ m <= n /\ Expired(log[m])
    BY <1>4, <2>2 DEF SweptFrom
  <2>8. SweptFrom(u, n)
    BY <2>4, <2>5, <2>6, <2>7 DEF SweptFrom
  <2> QED
    BY <2>8 DEF u
<1> QED
  BY <1>5, <1>6, <1>7

LEMMA SweptOK ==
    ASSUME LogTypeOK
    PROVE  SweptFrom(Swept, Len(log))
<1>1. PICK f : /\ Swept = f[Len(log)]
               /\ f[0] = [index |-> [c \in Clients |-> client[c].index], list |-> list, log |-> log]
               /\ \A n \in 1 .. Len(log) : f[n] = SweepEntry(f[n - 1], n - 1)
  BY SweptIsSwept
<1> DEFINE T == {n \in Nat : SweptFrom(f[n], n)}
<1>2. Len(log) \in Nat /\ Len(log) \in 0 .. Len(log) /\ T \in SUBSET Nat
  BY DEF LogTypeOK
<1>3. 0 \in T
  <2> DEFINE z == f[0]
  <2>1. z.index = [c \in Clients |-> client[c].index] /\ z.list = list /\ z.log = log
        /\ z = [index |-> z.index, list |-> z.list, log |-> z.log]
    BY <1>1
  <2> HIDE DEF z
  <2>2. [c \in Clients |-> client[c].index] \in [Clients -> Nat \cup {None}]
    BY DEF LogTypeOK, LogClientType
  <2>3. log \in Seq(EntryType \cup {None}) /\ list \in Seq(Clients)
    BY DEF LogTypeOK
  <2>4. z \in StateType
    BY <2>1, <2>2, <2>3 DEF StateType
  <2>5. SweptFrom(z, 0)
    BY <2>1, <2>4 DEF SweptFrom
  <2> QED
    BY <2>5 DEF z
<1>4. ASSUME NEW n \in 1 .. Len(log), n - 1 \in T PROVE n \in T
  <2>1. SweptFrom(f[n - 1], n - 1) /\ n \in Nat
    BY <1>2, <1>4
  <2>2. SweptFrom(SweepEntry(f[n - 1], n - 1), n)
    BY <2>1, SweepEntryStep
  <2> QED
    BY <1>1, <2>1, <2>2
<1> HIDE DEF T
<1>5. Len(log) \in T
  BY <1>2, <1>3, <1>4, AllNumbers
<1> QED
  BY <1>1, <1>5 DEF T

\* The entries that stay are those of the log, each at most once.
LEMMA CompactedOK ==
    ASSUME LogTypeOK, EntriesUnique, NEW s, SweptFrom(s, Len(log))
    PROVE  /\ Kept(s.log, EntryType) \in Seq(EntryType)
           /\ Unique(Kept(s.log, EntryType))
           /\ \A m \in 1 .. Len(log) : ~ Expired(log[m]) => log[m] \in RangeOf(Kept(s.log, EntryType))
<1> DEFINE k == Kept(s.log, EntryType)
<1>1. s.log \in Seq(EntryType \cup {None}) /\ Len(s.log) = Len(log) /\ Len(log) \in Nat
  BY DEF SweptFrom, StateType, LogTypeOK
<1>2. /\ k \in Seq(EntryType \cup {None})
      /\ \A x : x \in RangeOf(k) <=> x \in RangeOf(s.log) /\ x \in EntryType
  BY <1>1, KeptProperties
<1>3. PICK p : TakenAt(k, s.log, p, Len(s.log))
  BY <1>1, KeptPlaces
<1> HIDE DEF k
<1>4. \A i \in 1 .. Len(k) : k[i] \in EntryType
  BY <1>2 DEF RangeOf
<1>5. k \in Seq(EntryType)
  BY <1>2, <1>4
<1>6. None \notin EntryType
  BY NoneAssumption DEF EntryType
<1>7. ASSUME NEW i \in 1 .. Len(k) PROVE p[i] \in 1 .. Len(log) /\ k[i] = log[p[i]]
  <2>1. p[i] \in 1 .. Len(log) /\ k[i] = s.log[p[i]]
    BY <1>1, <1>3 DEF TakenAt
  <2>2. s.log[p[i]] # None
    BY <1>4, <1>6, <2>1
  <2> QED
    BY <2>1, <2>2 DEF SweptFrom
<1>8. ASSUME NEW i \in 1 .. Len(k), NEW j \in 1 .. Len(k), k[i].login = k[j].login
      PROVE  i = j
  <2>1. p[i] = p[j] /\ p[i] \in Nat
    BY <1>7, <1>8 DEF EntriesUnique
  <2>2. i \in Nat /\ j \in Nat /\ ~ i < j /\ ~ j < i
    BY <1>3, <2>1 DEF TakenAt
  <2> QED
    BY <2>2
<1>9. ASSUME NEW m \in 1 .. Len(log), ~ Expired(log[m]) PROVE log[m] \in RangeOf(k)
  <2>1. s.log[m] = log[m] /\ log[m] \in EntryType
    BY <1>9 DEF SweptFrom, LogTypeOK
  <2>2. log[m] \in RangeOf(s.log)
    BY <1>1, <2>1 DEF RangeOf
  <2> QED
    BY <1>2, <2>1, <2>2
<1> QED
  BY <1>5, <1>8, <1>9 DEF k, Unique

-----------------------------------------------------------------------------
(* The invariant is kept, action by action.                                *)

LEMMA LogInitOK ==
    ASSUME LogInit
    PROVE  LogInv
<1>1. LogTypeOK
  BY DEF LogInit, LogTypeOK, LogClientType
<1>2. RangeOf(list) = {}
  BY DEF LogInit, RangeOf
<1>3. EntriesUnique
  BY DEF LogInit, EntriesUnique
<1> QED
  BY <1>1, <1>2, <1>3 DEF LogInv, ListedHaveLogin

\* What a listed client is.
LEMMA Listed ==
    ASSUME LogInv, NEW c \in Clients, InList(c)
    PROVE  client[c] \in LogClientType /\ client[c].login \in Logins
BY DEF LogInv, LogTypeOK, InList, ListedHaveLogin

LEMMA JoinOK ==
    ASSUME LogInv, NEW c \in Clients, NEW l \in Logins, Join(c, l) \/ LoginStarts(c, l)
    PROVE  LogInv'
<1>1. log' = log /\ issued' = issued /\ list' = Append(list, c)
  BY DEF Join, LoginStarts
<1>2. list' \in Seq(Clients) /\ RangeOf(list') = RangeOf(list) \cup {c}
  BY <1>1, AppendAt, RangeAppend DEF LogInv, LogTypeOK
<1>3. Found(l) \in Nat \cup {None}
  BY FoundIsEntry DEF LogInv
<1>4. LetIn(Found(l)) \in BOOLEAN
  <2>1. \A i \in Nat : Expired(log[i]) \in BOOLEAN
    BY DEF Expired
  <2>2. \A d \in Clients : client[d].conn \in BOOLEAN
    BY DEF LogInv, LogTypeOK, LogClientType
  <2> DEFINE same == Kept(list, {d \in Clients : client[d].index = Found(l)})
  <2>3. same \in Seq(Clients)
    BY ListPart DEF LogInv, LogTypeOK
  <2> HIDE DEF same
  <2>4. same # <<>> => client[Head(same)].conn \in BOOLEAN
    BY <2>2, <2>3, TailAt
  <2> QED
    BY <2>1, <2>4 DEF LetIn, same, Expired
<1>5. PICK r \in LogClientType : client' = [client EXCEPT ![c] = r] /\ r.login = l
  <2>1. CASE Join(c, l)
    <3> DEFINE r == [used |-> TRUE, kind |-> "socket", login |-> l, index |-> Found(l),
                     open |-> TRUE, conn |-> LetIn(Found(l)), busy |-> FALSE]
    <3>1. r \in LogClientType /\ r.login = l
      BY <1>3, <1>4 DEF LogClientType
    <3> QED
      BY <2>1, <3>1 DEF Join
  <2>2. CASE LoginStarts(c, l)
    <3> DEFINE r == [used |-> TRUE, kind |-> "login", login |-> l, index |-> None,
                     open |-> TRUE, conn |-> TRUE, busy |-> FALSE]
    <3>1. r \in LogClientType /\ r.login = l
      BY DEF LogClientType
    <3> QED
      BY <2>2, <3>1 DEF LoginStarts
  <2> QED
    BY <2>1, <2>2
<1>6. /\ client' \in [Clients -> LogClientType]
      /\ client'[c].login = l /\ \A d \in Clients : d # c => client'[d] = client[d]
  BY <1>5 DEF LogInv, LogTypeOK
<1>7. LogTypeOK'
  BY <1>1, <1>2, <1>6 DEF LogInv, LogTypeOK
<1>8. ListedHaveLogin'
  <2>1. \A d \in RangeOf(list) : d \in Clients
    BY DEF LogInv, LogTypeOK, RangeOf
  <2>2. \A d \in RangeOf(list') : client'[d].login \in Logins
    BY <1>2, <1>6, <2>1 DEF LogInv, ListedHaveLogin
  <2>3. ListedHaveLogin' <=> \A d \in RangeOf(list') : client'[d].login \in Logins
    BY DEF ListedHaveLogin, RangeOf
  <2> QED
    BY <2>2, <2>3
<1>9. EntriesUnique'
  BY <1>1 DEF LogInv, EntriesUnique
<1> QED
  BY <1>7, <1>8, <1>9 DEF LogInv

\* A step that leaves the logins of the clients alone and lists no other one.
LEMMA KeepsInv ==
    ASSUME LogInv,
           client' \in [Clients -> LogClientType],
           \A d \in Clients : client'[d].login = client[d].login,
           list' \in Seq(Clients), \A d \in RangeOf(list') : d \in RangeOf(list),
           log' \in Seq(EntryType), Unique(log'),
           issued' \subseteq Logins
    PROVE  LogInv'
<1>1. LogTypeOK'
  BY DEF LogTypeOK
<1>2. EntriesUnique'
  BY DEF EntriesUnique, Unique
<1>3. \A d \in RangeOf(list) : d \in Clients
  BY DEF LogInv, LogTypeOK, RangeOf
<1>4. \A d \in RangeOf(list') : client'[d].login \in Logins
  BY <1>3 DEF LogInv, ListedHaveLogin
<1>5. ListedHaveLogin' <=> \A d \in RangeOf(list') : client'[d].login \in Logins
  BY DEF ListedHaveLogin, RangeOf
<1> QED
  BY <1>1, <1>2, <1>4, <1>5 DEF LogInv

LEMMA LoginSucceedsOK ==
    ASSUME LogInv, NEW c \in Clients, LoginSucceeds(c)
    PROVE  LogInv'
<1> DEFINE l == client[c].login
           i == IF Found(l) # None THEN Found(l) ELSE PushedIndex
           e == [login |-> l, age |-> 0]
<1>1. /\ client[c] \in LogClientType /\ l \in Logins
      /\ list' = list /\ issued' = issued \cup {l}
      /\ client' = [client EXCEPT ![c].index = i]
      /\ log' = IF Found(l) # None THEN log ELSE Append(log, e)
  BY Listed DEF LoginSucceeds
<1>2. /\ Found(l) \in Nat \cup {None}
      /\ Found(l) = None => \A n \in 1 .. Len(log) : log[n].login # l
  BY <1>1, FoundIsEntry DEF LogInv
<1>3. i \in Nat \cup {None}
  BY <1>2 DEF PushedIndex, LogInv, LogTypeOK
<1> HIDE DEF i
<1>4. /\ client' \in [Clients -> LogClientType]
      /\ \A d \in Clients : client'[d].login = client[d].login
  BY <1>1, <1>3 DEF LogInv, LogTypeOK, LogClientType
<1>5. log' \in Seq(EntryType) /\ Unique(log')
  <2>1. log \in Seq(EntryType) /\ Unique(log)
    BY DEF LogInv, LogTypeOK, EntriesUnique, Unique
  <2>2. CASE Found(l) # None
    BY <1>1, <2>1, <2>2
  <2>3. CASE Found(l) = None
    <3>1. e \in EntryType /\ e.login = l
      BY <1>1, TimeoutAssumption DEF EntryType
    <3> HIDE DEF e
    <3>2. Append(log, e) \in Seq(EntryType) /\ Unique(Append(log, e))
      BY <1>2, <2>1, <2>3, <3>1, AddedUnique
    <3> QED
      BY <1>1, <2>3, <3>2
  <2> QED
    BY <2>2, <2>3
<1>6. issued' \subseteq Logins /\ list' \in Seq(Clients) /\ \A d \in RangeOf(list') : d \in RangeOf(list)
  BY <1>1 DEF LogInv, LogTypeOK
<1> QED
  BY <1>4, <1>5, <1>6, KeepsInv

LEMMA ActivityOK ==
    ASSUME LogInv, NEW c \in Clients, Activity(c)
    PROVE  LogInv'
<1>1. log \in Seq(EntryType) /\ Unique(log)
  BY DEF LogInv, LogTypeOK, EntriesUnique, Unique
<1>2. log' \in Seq(EntryType) /\ Unique(log')
  BY <1>1, UsedOK, UsedUnique DEF Activity
<1> QED
  BY <1>2, KeepsInv DEF Activity, LogInv, LogTypeOK

LEMMA StartsOrEndsOK ==
    ASSUME LogInv, NEW c \in Clients, StartsOrEnds(c)
    PROVE  LogInv'
<1>1. /\ client' \in [Clients -> LogClientType]
      /\ \A d \in Clients : client'[d].login = client[d].login
  BY ZenonT(40) DEF StartsOrEnds, LogInv, LogTypeOK, LogClientType
<1>2. Unique(log')
  BY DEF StartsOrEnds, LogInv, EntriesUnique, Unique
<1> QED
  BY <1>1, <1>2, KeepsInv DEF StartsOrEnds, LogInv, LogTypeOK

\* A client_close gives a websocket without a login an entry.
LEMMA CloseOK ==
    ASSUME LogInv, NEW c \in Clients, Close(c)
    PROVE  LogInv'
<1> DEFINE l == client[c].login
           i == client[c].index
           adds == client[c].conn /\ i = None /\ client[c].kind = "socket" /\ Found(l) = None
           at == IF i # None \/ client[c].kind = "login" THEN i
                 ELSE IF adds THEN PushedIndex ELSE Found(l)
           e == [login |-> l, age |-> Timeout]
           full == IF adds THEN Append(log, e) ELSE log
<1>1. /\ client[c] \in LogClientType /\ l \in Logins /\ InList(c)
      /\ log' = IF client[c].conn /\ at # None THEN Used(full, at) ELSE log
      /\ client' = [client EXCEPT ![c].index = IF client[c].conn THEN at ELSE @, ![c].open = FALSE]
      /\ list' = IF client[c].busy THEN list ELSE Without(list, c)
      /\ issued' = issued
  BY Listed DEF Close
<1>2. /\ Found(l) \in Nat \cup {None}
      /\ Found(l) = None => \A n \in 1 .. Len(log) : log[n].login # l
  BY <1>1, FoundIsEntry DEF LogInv
<1>3. at \in Nat \cup {None}
  BY <1>1, <1>2 DEF PushedIndex, LogInv, LogTypeOK, LogClientType
<1>4. full \in Seq(EntryType) /\ Unique(full)
  <2>1. log \in Seq(EntryType) /\ Unique(log)
    BY DEF LogInv, LogTypeOK, EntriesUnique, Unique
  <2>2. CASE ~ adds
    BY <2>1, <2>2
  <2>3. CASE adds
    <3>1. e \in EntryType /\ e.login = l
      BY <1>1, TimeoutAssumption DEF EntryType
    <3>2. \A n \in 1 .. Len(log) : log[n].login # l
      BY <1>2, <2>3
    <3> HIDE DEF e
    <3>3. Append(log, e) \in Seq(EntryType) /\ Unique(Append(log, e))
      BY <2>1, <3>1, <3>2, AddedUnique
    <3> QED
      BY <2>3, <3>3
  <2> QED
    BY <2>2, <2>3
<1> HIDE DEF at, full
<1>5. log' \in Seq(EntryType) /\ Unique(log')
  <2>1. log \in Seq(EntryType) /\ Unique(log)
    BY DEF LogInv, LogTypeOK, EntriesUnique, Unique
  <2> QED
    BY <1>1, <1>4, <2>1, UsedOK, UsedUnique
<1>6. /\ client' \in [Clients -> LogClientType]
      /\ \A d \in Clients : client'[d].login = client[d].login
  <2> DEFINE r == [client[c] EXCEPT !.index = IF client[c].conn THEN at ELSE @, !.open = FALSE]
  <2>1. r \in LogClientType /\ r.login = l
    BY <1>1, <1>3 DEF LogClientType
  <2>2. client' = [client EXCEPT ![c] = r]
    BY <1>1
  <2> HIDE DEF r
  <2> QED
    BY <2>1, <2>2 DEF LogInv, LogTypeOK
<1>7. list' \in Seq(Clients) /\ \A d \in RangeOf(list') : d \in RangeOf(list)
  BY <1>1, ListPart DEF LogInv, LogTypeOK, Without
<1>8. issued' \subseteq Logins
  BY <1>1 DEF LogInv, LogTypeOK
<1> QED
  BY <1>5, <1>6, <1>7, <1>8, KeepsInv

LEMMA CloseImmediateOK ==
    ASSUME LogInv, NEW c \in Clients, CloseImmediate(c)
    PROVE  LogInv'
<1>1. list' \in Seq(Clients) /\ \A d \in RangeOf(list') : d \in RangeOf(list)
  BY ListPart DEF CloseImmediate, Without, LogInv, LogTypeOK
<1>2. Unique(log')
  BY DEF CloseImmediate, LogInv, EntriesUnique, Unique
<1> QED
  BY <1>1, <1>2, KeepsInv DEF CloseImmediate, LogInv, LogTypeOK

LEMMA TickOK ==
    ASSUME LogInv, Tick
    PROVE  LogInv'
<1>1. log \in Seq(EntryType) /\ Unique(log) /\ Len(log) \in Nat
  BY DEF LogInv, LogTypeOK, EntriesUnique, Unique
<1> DEFINE older(n) == IF Expired(log[n]) THEN log[n] ELSE [log[n] EXCEPT !.age = @ + 1]
<1>2. ASSUME NEW n \in 1 .. Len(log) PROVE older(n) \in EntryType /\ older(n).login = log[n].login
  <2>1. log[n] \in EntryType
    BY <1>1
  <2> QED
    BY <2>1, EntryOK
<1>3. log' = [n \in 1 .. Len(log) |-> older(n)]
  BY DEF Tick
<1> HIDE DEF older
<1>4. /\ log' \in Seq(EntryType) /\ Len(log') = Len(log)
      /\ \A n \in 1 .. Len(log) : log'[n].login = log[n].login
  BY <1>1, <1>2, <1>3
<1>5. Unique(log')
  BY <1>1, <1>4 DEF Unique
<1> QED
  BY <1>4, <1>5, KeepsInv DEF Tick, LogInv, LogTypeOK

LEMMA SweepOK ==
    ASSUME LogInv, Sweep
    PROVE  LogInv'
<1> DEFINE s == Swept
<1>1. SweptFrom(s, Len(log))
  BY SweptOK DEF LogInv
<1>2. /\ list' = s.list
      /\ client' = [c \in Clients |-> [client[c] EXCEPT !.index = s.index[c]]]
      /\ log' = Kept(s.log, EntryType)
      /\ issued' = issued
  BY DEF Sweep
<1> HIDE DEF s
<1>3. log' \in Seq(EntryType) /\ Unique(log')
  BY <1>1, <1>2, CompactedOK DEF LogInv
<1>4. s.index \in [Clients -> Nat \cup {None}] /\ s.list \in Seq(Clients)
  BY <1>1 DEF SweptFrom, StateType
<1>5. /\ client' \in [Clients -> LogClientType]
      /\ \A d \in Clients : client'[d].login = client[d].login
  <2>1. ASSUME NEW c \in Clients
        PROVE  /\ [client[c] EXCEPT !.index = s.index[c]] \in LogClientType
               /\ [client[c] EXCEPT !.index = s.index[c]].login = client[c].login
    BY <1>4 DEF LogInv, LogTypeOK, LogClientType
  <2> QED
    BY <1>2, <2>1
<1>6. \A d \in RangeOf(list') : d \in RangeOf(list)
  BY <1>1, <1>2 DEF SweptFrom
<1>7. list' \in Seq(Clients) /\ issued' \subseteq Logins
  BY <1>2, <1>4 DEF LogInv, LogTypeOK
<1> QED
  BY <1>3, <1>5, <1>6, <1>7, KeepsInv

LEMMA LogStepOK ==
    ASSUME LogInv, [LogNext]_lvars
    PROVE  LogInv'
<1>1. CASE \E c \in Clients, l \in Logins : Join(c, l) \/ LoginStarts(c, l)
  BY <1>1, JoinOK
<1>2. CASE \E c \in Clients : LoginSucceeds(c)
  BY <1>2, LoginSucceedsOK
<1>3. CASE \E c \in Clients : Activity(c)
  BY <1>3, ActivityOK
<1>4. CASE \E c \in Clients : StartsOrEnds(c)
  BY <1>4, StartsOrEndsOK
<1>5. CASE \E c \in Clients : Close(c)
  BY <1>5, CloseOK
<1>6. CASE \E c \in Clients : CloseImmediate(c)
  BY <1>6, CloseImmediateOK
<1>7. CASE Sweep
  BY <1>7, SweepOK
<1>8. CASE Tick
  BY <1>8, TickOK
<1>9. CASE UNCHANGED lvars
  BY <1>9 DEF lvars, LogInv, LogTypeOK, EntriesUnique, ListedHaveLogin
<1> QED
  BY <1>1, <1>2, <1>3, <1>4, <1>5, <1>6, <1>7, <1>8, <1>9 DEF LogNext

-----------------------------------------------------------------------------
(* What follows.                                                           *)

\* The invariant of the log of activity.
THEOREM LogInvariant == LogSpec => []LogInv
<1>1. LogInit => LogInv
  BY LogInitOK
<1>2. LogInv /\ [LogNext]_lvars => LogInv'
  BY LogStepOK
<1> QED
  BY <1>1, <1>2, PTL DEF LogSpec

\* The clients, the list and the log keep their types in every step of the
\* server (common_client.c, login_timeout in common_main.c).
THEOREM LogTypeCorrect == LogSpec => []LogTypeOK
<1>1. LogInv => LogTypeOK
  BY DEF LogInv
<1> QED
  BY <1>1, LogInvariant, PTL

\* arr_client_last_activity never has two entries for one address and cookie,
\* although three places push to it and the sweep rebuilds it.
THEOREM EntriesUniqueAlways == LogSpec => []EntriesUnique
<1>1. LogInv => EntriesUnique
  BY DEF LogInv
<1> QED
  BY <1>1, LogInvariant, PTL

\* free_last_activity closes no client whose request is in progress, however
\* many entries expire in one sweep and wherever their indices were moved.
THEOREM SweepSparesBusyAlways == LogSpec => SweepSparesBusy
<1>1. ASSUME LogInv, Sweep, NEW c \in Clients, c \in RangeOf(list), client[c].busy
      PROVE  c \in RangeOf(list')
  <2> DEFINE s == Swept
  <2>1. SweptFrom(s, Len(log)) /\ list' = s.list
    BY <1>1, SweptOK DEF LogInv, Sweep
  <2> HIDE DEF s
  <2> QED
    BY <1>1, <2>1 DEF SweptFrom
<1>2. ASSUME NEW c \in Clients PROVE InList(c)' <=> c \in RangeOf(list')
  BY DEF InList, RangeOf
<1>3. LogInv => [Sweep => \A c \in Clients : InList(c) /\ client[c].busy => InList(c)']_lvars
  BY <1>1, <1>2 DEF InList
<1> QED
  BY <1>3, LogInvariant, PTL DEF SweepSparesBusy

\* free_last_activity drops no login before login_timeout: every entry that
\* has not expired is in the array it leaves.
THEOREM FreshLoginsStayAlways == LogSpec => FreshLoginsStay
<1>1. ASSUME LogInv, Sweep, NEW n \in 1 .. Len(log), ~ Expired(log[n])
      PROVE  log[n] \in RangeOf(log')
  <2> DEFINE s == Swept
  <2>1. SweptFrom(s, Len(log)) /\ log' = Kept(s.log, EntryType)
    BY <1>1, SweptOK DEF LogInv, Sweep
  <2> HIDE DEF s
  <2> QED
    BY <1>1, <2>1, CompactedOK DEF LogInv
<1>2. LogInv => [Sweep => \A n \in 1 .. Len(log) : ~ Expired(log[n]) => log[n] \in RangeOf(log')]_lvars
  BY <1>1
<1> QED
  BY <1>2, LogInvariant, PTL DEF FreshLoginsStay
=============================================================================
