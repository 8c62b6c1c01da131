---------------------------- MODULE Edits_proofs -----------------------------
(***************************************************************************)
(* The types of Edits, and, when every grid has a session of its own: what *)
(* the user refused stays out of the database, and a lock has an edit that *)
(* is still to be ended.                                                   *)
(*                                                                         *)
(* The argument follows the requests of a session.  They are answered in   *)
(* the order in which they were sent, so the ones under way form a line:   *)
(* the request of the answer that the tab has not read yet (place 0), and  *)
(* the requests that wait in the server.                                   *)
(***************************************************************************)
EXTENDS Edits, SequenceTheorems, FiniteSetTheorems, TLAPS

Places(s) == {k \in 0 .. Len(toServer[s]) : k = 0 => toTab[s] # None}
At(s, k) == IF k = 0 THEN toTab[s].of ELSE toServer[s][k]
OfEdit(s, k) == At(s, k).op # "select"
Ending(s, k) == At(s, k).op \in {"commit", "rollback"}

\* Every request is of an edit of its own session.
Known ==
    \A s \in Sessions : \A k \in Places(s) : OfEdit(s, k) => At(s, k).of \in EditsOf(s)

\* No two connections hold the same record.
Apart ==
    \A r \in Records : \A s, t \in Sessions : own[s][r] # None /\ own[t][r] # None => s = t

TypeInv == EditsTypeOK /\ Known /\ Apart

-----------------------------------------------------------------------------
(* The line of a session.                                                  *)

\* An edit has at most one request under way, that of its phase.
Matched(s) ==
    \A k \in Places(s) : OfEdit(s, k) =>
        /\ edits[At(s, k).of].phase = At(s, k).op
        /\ \A j \in Places(s) : OfEdit(s, j) /\ At(s, j).of = At(s, k).of => j = k

\* An edit ends before the next one begins.
InTurn(s) ==
    \A j, k \in Places(s) : At(s, j).op \in {"begin", "edit"} /\ Ending(s, k) => k < j

\* While a dialog asks, no COMMIT or ROLLBACK is under way.
Asking(s) ==
    \A v \in EditsOf(s) : edits[v].phase = "ask" => \A k \in Places(s) : ~ Ending(s, k)

\* Of the edits of a session one at most has not come to its end.
Alone(s) ==
    \A u, v \in EditsOf(s) :
        /\ edits[u].phase \in {"begin", "edit", "ask"}
        /\ edits[v].phase \in {"begin", "edit", "ask"}
        => u = v

Covered(s) == \A v \in EditsOf(s) : edits[v].phase \in {"begin", "edit"} => edits[v].loader

InLine(s) == Matched(s) /\ InTurn(s) /\ Asking(s) /\ Alone(s) /\ Covered(s)

-----------------------------------------------------------------------------
(* What a connection holds uncommitted is of one edit u, whose statement   *)
(* was just answered, or which is asked about, or whose end is under way.  *)

HeldBy(s, u) ==
    /\ u \in EditsOf(s)
    /\ \A r \in Records : own[s][r] \in {None, u}
    /\ \/ /\ edits[u].phase = "edit"
          /\ 0 \in Places(s) /\ At(s, 0).op = "edit" /\ At(s, 0).of = u
       \/ edits[u].phase = "ask"
       \/ /\ edits[u].phase \in {"commit", "rollback"}
          /\ \E k \in Places(s) \ {0} : OfEdit(s, k) /\ At(s, k).of = u
    /\ \A k \in Places(s) : Ending(s, k) => At(s, k).of = u

Held(s) == \A r \in Records : own[s][r] # None => HeldBy(s, own[s][r])

\* What was written is being reported, or was.
Reported ==
    \A v \in written :
        /\ v \in 1 .. Len(edits)
        /\ edits[v].phase \in {"commit", "committed"}
        /\ \A s \in Sessions : \A k \in Places(s) :
               OfEdit(s, k) /\ At(s, k).of = v => k = 0 /\ toTab[s].ok

EditsInv ==
    /\ TypeInv
    /\ \A s \in Sessions : InLine(s) /\ Held(s)
    /\ Reported

-----------------------------------------------------------------------------
(* What the steps do to the line of a session.                             *)

\* Nothing changes for the sessions other than s.
OthersStay(s) ==
    \A t \in Sessions \ {s} :
        /\ Places(t)' = Places(t)
        /\ \A k \in Places(t) : At(t, k)' = At(t, k)
        /\ toTab'[t] = toTab[t]

\* An answered request moves to place 0, the others one place up.
LEMMA ServedMoves ==
    ASSUME EditsTypeOK, NEW s \in Sessions, NEW op, NEW ok \in BOOLEAN,
           Serves(s, op), Answer(s, ok), Done(s)
    PROVE  /\ toServer' \in [Sessions -> Seq(RequestType)]
           /\ toTab' \in [Sessions -> AnswerType \cup {None}]
           /\ toTab'[s] # None /\ toTab'[s].ok = ok
           /\ 0 \notin Places(s) /\ 1 \in Places(s) /\ At(s, 1) = Head(toServer[s])
           /\ Places(s)' = 0 .. Len(toServer[s]) - 1
           /\ \A k \in Places(s)' : k + 1 \in Places(s) /\ At(s, k)' = At(s, k + 1)
           /\ \A k \in Places(s) : k # 0
           /\ OthersStay(s)
<1> DEFINE q == toServer[s]
<1>1. /\ q \in Seq(RequestType) /\ q # <<>> /\ toTab[s] = None
      /\ toServer \in [Sessions -> Seq(RequestType)]
      /\ toTab \in [Sessions -> AnswerType \cup {None}]
  BY DEF EditsTypeOK, Serves
<1>2. /\ Head(q) \in RequestType /\ Head(q) = q[1]
      /\ Tail(q) \in Seq(RequestType) /\ Len(Tail(q)) = Len(q) - 1
      /\ \A i \in 1 .. Len(Tail(q)) : Tail(q)[i] = q[i + 1]
      /\ Len(q) \in Nat \ {0}
  BY <1>1, HeadTailProperties, EmptySeq
<1>3. toServer' = [toServer EXCEPT ![s] = Tail(q)]
  BY DEF Done
<1>4. [r \in Records |-> Visible(s, r)] \in [Records -> Versions \cup {None}]
  BY DEF Visible, EditsTypeOK
<1> DEFINE a == [of |-> Head(q), ok |-> ok, rows |-> [r \in Records |-> Visible(s, r)]]
<1>5. toTab' = [toTab EXCEPT ![s] = a] /\ a \in AnswerType /\ a.of = Head(q) /\ a.ok = ok
  BY <1>2, <1>4 DEF Answer, AnswerType
<1> HIDE DEF a
<1>6. a # None
  BY <1>5, NoAnswerAssumption
<1>7. /\ toServer'[s] = Tail(q) /\ toTab'[s] = a
      /\ \A t \in Sessions \ {s} : toServer'[t] = toServer[t] /\ toTab'[t] = toTab[t]
  BY <1>1, <1>3, <1>5
<1>8. Places(s)' = 0 .. Len(q) - 1
  BY <1>2, <1>6, <1>7 DEF Places
<1>9. \A k \in Places(s)' : k + 1 \in Places(s) /\ At(s, k)' = At(s, k + 1)
  BY <1>2, <1>5, <1>7, <1>8 DEF Places, At
<1>10. 0 \notin Places(s) /\ 1 \in Places(s) /\ At(s, 1) = Head(q)
  BY <1>1, <1>2 DEF Places, At
<1>11. OthersStay(s)
  BY <1>7 DEF OthersStay, Places, At
<1> QED
  BY <1>1, <1>2, <1>3, <1>5, <1>6, <1>7, <1>8, <1>9, <1>10, <1>11

\* Requests that are sent go to the end, while the tab may read its answer.
LEMMA SentMoves ==
    ASSUME EditsTypeOK, NEW s \in Sessions, NEW new \in Seq(RequestType), Sends(s, new),
           NEW n, n = Len(toServer[s]),
           toTab' = toTab \/ toTab' = [toTab EXCEPT ![s] = None]
    PROVE  /\ toServer' \in [Sessions -> Seq(RequestType)]
           /\ toTab' \in [Sessions -> AnswerType \cup {None}]
           /\ toServer[s] # <<>> => toServer'[s] # <<>> /\ Head(toServer'[s]) = Head(toServer[s])
           /\ n \in Nat
           /\ \A k \in Places(s)' :
                 \/ k \in Places(s) /\ k <= n /\ At(s, k)' = At(s, k)
                 \/ /\ k > n /\ k - n \in 1 .. Len(new)
                    /\ At(s, k)' = new[k - n]
           /\ \A k \in Places(s) \ {0} : k \in Places(s)' /\ At(s, k)' = At(s, k)
           /\ 1 \in 1 .. Len(new) => n + 1 \in Places(s)' /\ At(s, n + 1)' = new[1]
           /\ toTab' = toTab => \A k \in Places(s) : k \in Places(s)' /\ At(s, k)' = At(s, k)
           /\ toTab' # toTab => 0 \notin Places(s)'
           /\ OthersStay(s)
<1> DEFINE q == toServer[s]
<1>1. /\ q \in Seq(RequestType) /\ n = Len(q) /\ n \in Nat /\ Len(new) \in Nat
      /\ toServer \in [Sessions -> Seq(RequestType)]
      /\ toTab \in [Sessions -> AnswerType \cup {None}]
  BY LenProperties DEF EditsTypeOK
<1>2. /\ q \o new \in Seq(RequestType) /\ Len(q \o new) = Len(q) + Len(new)
      /\ \A i \in 1 .. Len(q) + Len(new) :
             (q \o new)[i] = IF i <= Len(q) THEN q[i] ELSE new[i - Len(q)]
  BY <1>1, ConcatProperties
<1>3. toServer' = [toServer EXCEPT ![s] = q \o new]
  BY DEF Sends
<1>4. /\ toServer'[s] = q \o new
      /\ \A t \in Sessions \ {s} : toServer'[t] = toServer[t] /\ toTab'[t] = toTab[t]
      /\ toTab' = toTab \/ toTab'[s] = None
      /\ toTab' # toTab => toTab'[s] = None
  BY <1>1, <1>3
<1>5. /\ toServer' \in [Sessions -> Seq(RequestType)]
      /\ toTab' \in [Sessions -> AnswerType \cup {None}]
  BY <1>1, <1>2, <1>3
<1>6. q # <<>> => q \o new # <<>> /\ Head(q \o new) = Head(q)
  <2> SUFFICES ASSUME q # <<>> PROVE q \o new # <<>> /\ Head(q \o new) = Head(q)
    OBVIOUS
  <2>1. Len(q) \in Nat \ {0}
    BY <1>1, EmptySeq
  <2>2. Len(q \o new) # 0 /\ (q \o new)[1] = q[1]
    BY <1>1, <1>2, <2>1
  <2>3. q \o new # <<>>
    BY <2>2, EmptySeq
  <2> QED
    BY <1>1, <1>2, <2>2, <2>3
<1>7. Places(s)' = {k \in 0 .. n + Len(new) : k = 0 => toTab'[s] # None}
  BY <1>2, <1>4 DEF Places
<1>8. \A k \in 1 .. n + Len(new) :
         At(s, k)' = IF k <= n THEN q[k] ELSE new[k - n]
  BY <1>1, <1>2, <1>4 DEF At
<1>9. 0 \in Places(s)' => 0 \in Places(s) /\ At(s, 0)' = At(s, 0)
  BY <1>1, <1>4 DEF Places, At
<1>10. \A k \in Places(s)' :
          \/ k \in Places(s) /\ k <= n /\ At(s, k)' = At(s, k)
          \/ /\ k > n /\ k - n \in 1 .. Len(new)
             /\ At(s, k)' = new[k - n]
  <2> SUFFICES ASSUME NEW k \in Places(s)'
               PROVE  \/ k \in Places(s) /\ k <= n /\ At(s, k)' = At(s, k)
                      \/ k > n /\ k - n \in 1 .. Len(new) /\ At(s, k)' = new[k - n]
    OBVIOUS
  <2>1. k \in 0 .. n + Len(new)
    BY <1>7
  <2>2. CASE k = 0
    BY <1>1, <1>9, <2>2
  <2>3. CASE k \in 1 .. n
    BY <1>1, <1>8, <2>3 DEF Places, At
  <2>4. CASE k > n
    BY <1>1, <1>8, <2>1, <2>4
  <2> QED
    BY <1>1, <2>1, <2>2, <2>3, <2>4
<1>11. \A k \in Places(s) \ {0} : k \in Places(s)' /\ At(s, k)' = At(s, k)
  BY SMTT(30), <1>1, <1>7, <1>8 DEF Places, At
<1>12. 1 \in 1 .. Len(new) => n + 1 \in Places(s)' /\ At(s, n + 1)' = new[1]
  <2> SUFFICES ASSUME 1 \in 1 .. Len(new)
               PROVE  n + 1 \in Places(s)' /\ At(s, n + 1)' = new[1]
    OBVIOUS
  <2> PICK k : k = n + 1
    OBVIOUS
  <2>1. k \in 1 .. n + Len(new) /\ ~ (k <= n) /\ k - n = 1 /\ k # 0
    BY <1>1
  <2>2. k \in Places(s)' /\ At(s, k)' = new[k - n]
    BY <1>1, <1>7, <1>8, <2>1
  <2> QED
    BY <2>1, <2>2
<1>13. toTab' = toTab => \A k \in Places(s) : k \in Places(s)' /\ At(s, k)' = At(s, k)
  BY <1>1, <1>7, <1>11 DEF Places, At
<1>14. toTab' # toTab => 0 \notin Places(s)'
  BY <1>4, <1>7
<1>15. OthersStay(s)
  BY <1>4 DEF OthersStay, Places, At
<1> QED
  BY <1>1, <1>4, <1>5, <1>6, <1>10, <1>11, <1>12, <1>13, <1>14, <1>15

\* The same of a request that is found under way after that.
LEMMA SentLine ==
    ASSUME EditsTypeOK, NEW s \in Sessions, NEW new \in Seq(RequestType), Sends(s, new),
           NEW n, n = Len(toServer[s]),
           toTab' = toTab \/ toTab' = [toTab EXCEPT ![s] = None]
    PROVE  /\ \A k \in Places(s)' :
                 \/ k \in Places(s) /\ At(s, k)' = At(s, k)
                 \/ k - n \in 1 .. Len(new) /\ At(s, k)' = new[k - n]
           /\ 1 \in 1 .. Len(new) => n + 1 \in Places(s)' /\ At(s, n + 1)' = new[1]
<1>1. \A k \in Places(s)' :
         \/ k \in Places(s) /\ At(s, k)' = At(s, k)
         \/ k - n \in 1 .. Len(new) /\ At(s, k)' = new[k - n]
  BY SentMoves
<1>2. 1 \in 1 .. Len(new) => n + 1 \in Places(s)' /\ At(s, n + 1)' = new[1]
  BY SentMoves
<1> QED
  BY <1>1, <1>2

\* An edit goes on to another phase.
LEMMA EditBecomes ==
    ASSUME EditsTypeOK, NEW v \in 1 .. Len(edits), NEW phase \in Phases, NEW loader \in BOOLEAN,
           Becomes(v, phase, loader)
    PROVE  /\ edits' \in Seq(EditType) /\ Len(edits') = Len(edits)
           /\ edits'[v].phase = phase /\ edits'[v].loader = loader
           /\ \A u \in 1 .. Len(edits) : u # v => edits'[u] = edits[u]
           /\ \A u \in 1 .. Len(edits) :
                 /\ edits'[u].grid = edits[u].grid
                 /\ edits'[u].kind = edits[u].kind /\ edits'[u].rec = edits[u].rec
           /\ \A s \in Sessions : EditsOf(s)' = EditsOf(s)
<1>1. edits \in Seq(EditType) /\ edits[v] \in EditType /\ DOMAIN edits = 1 .. Len(edits)
  BY ElementOfSeq, LenProperties DEF EditsTypeOK
<1> DEFINE e == [edits[v] EXCEPT !.phase = phase, !.loader = loader]
<1>2. /\ e \in EditType /\ e.phase = phase /\ e.loader = loader /\ e.grid = edits[v].grid
      /\ e.kind = edits[v].kind /\ e.rec = edits[v].rec
  BY <1>1 DEF EditType
<1>3. edits' = [edits EXCEPT ![v] = e]
  BY <1>1 DEF Becomes
<1>4. /\ edits' \in Seq(EditType) /\ Len(edits') = Len(edits)
      /\ \A j \in 1 .. Len(edits) : edits'[j] = IF j = v THEN e ELSE edits[j]
  BY <1>1, <1>2, <1>3, ExceptSeq
<1> QED
  BY <1>2, <1>4 DEF EditsOf

LEMMA FirstPlaces ==
    ASSUME TypeInv, NEW s \in Sessions
    PROVE  /\ toTab[s] # None /\ toTab[s].of.op # "select"
                  => toTab[s].of.of \in EditsOf(s) /\ toTab[s].of.of \in Versions
           /\ toServer[s] # <<>> /\ Head(toServer[s]).op # "select"
                  => /\ Head(toServer[s]).of \in EditsOf(s)
                     /\ Head(toServer[s]).of \in Versions
<1>1. toServer[s] \in Seq(RequestType) /\ toTab[s] \in AnswerType \cup {None}
  BY DEF TypeInv, EditsTypeOK
<1>2. toTab[s] # None => 0 \in Places(s) /\ At(s, 0) = toTab[s].of
  BY <1>1, LenProperties DEF Places, At
<1>3. toServer[s] # <<>> => 1 \in Places(s) /\ At(s, 1) = Head(toServer[s])
  BY <1>1, EmptySeq, HeadTailProperties DEF Places, At
<1>4. \A v \in EditsOf(s) : v \in Versions
  BY EditsAssumption, LenProperties DEF EditsOf, Versions, TypeInv, EditsTypeOK
<1> QED
  BY <1>2, <1>3, <1>4 DEF TypeInv, Known, OfEdit

LEMMA KnownWhenServed ==
    ASSUME TypeInv, NEW s \in Sessions, NEW op, NEW ok \in BOOLEAN,
           Serves(s, op), Answer(s, ok), Done(s), edits' = edits
    PROVE  Known'
<1> SUFFICES ASSUME NEW t \in Sessions, NEW k \in Places(t)', OfEdit(t, k)'
             PROVE  At(t, k)'.of \in EditsOf(t)'
  BY DEF Known
<1>1. EditsOf(t)' = EditsOf(t)
  BY DEF EditsOf
<1>2. CASE t = s
  BY <1>1, <1>2, ServedMoves DEF TypeInv, Known, OfEdit
<1>3. CASE t # s
  BY <1>1, <1>3, ServedMoves DEF TypeInv, Known, OfEdit, OthersStay
<1> QED
  BY <1>2, <1>3

LEMMA KnownWhenSent ==
    ASSUME TypeInv, NEW s \in Sessions, NEW new \in Seq(RequestType), Sends(s, new),
           toTab' = toTab \/ toTab' = [toTab EXCEPT ![s] = None],
           \A t \in Sessions : EditsOf(t) \subseteq EditsOf(t)',
           \A j \in 1 .. Len(new) : new[j].op # "select" => new[j].of \in EditsOf(s)'
    PROVE  Known'
<1> SUFFICES ASSUME NEW t \in Sessions, NEW k \in Places(t)', OfEdit(t, k)'
             PROVE  At(t, k)'.of \in EditsOf(t)'
  BY DEF Known
<1> PICK n : n = Len(toServer[s])
  OBVIOUS
<1>1. /\ \A i \in Places(s)' :
            \/ i \in Places(s) /\ At(s, i)' = At(s, i)
            \/ i - n \in 1 .. Len(new) /\ At(s, i)' = new[i - n]
      /\ OthersStay(s)
  BY SentMoves DEF TypeInv
<1>2. CASE t = s
  BY <1>1, <1>2 DEF TypeInv, Known, OfEdit
<1>3. CASE t # s
  BY <1>1, <1>3 DEF TypeInv, Known, OfEdit, OthersStay
<1> QED
  BY <1>2, <1>3

\* The part of EditsTypeOK that counts follows from Apart.
LEMMA ApartCounts ==
    ASSUME NEW held, NEW r \in Records,
           \A s, t \in Sessions : held[s][r] # None /\ held[t][r] # None => s = t
    PROVE  Cardinality({s \in Sessions : held[s][r] # None}) <= 1
<1> DEFINE S == {s \in Sessions : held[s][r] # None}
<1>1. CASE S = {}
  BY <1>1, FS_EmptySet
<1>2. CASE S # {}
  <2>1. PICK s \in S : TRUE
    BY <1>2
  <2>2. S = {s}
    BY <2>1
  <2>3. Cardinality({s}) = 1
    BY FS_Singleton
  <2>4. Cardinality(S) = 1
    BY <2>2, <2>3
  <2> QED
    BY <2>4
<1> QED
  BY <1>1, <1>2

-----------------------------------------------------------------------------
(* Types.                                                                  *)

LEMMA TypeInit == EditsInit => TypeInv
<1> SUFFICES ASSUME EditsInit PROVE TypeInv
  OBVIOUS
<1>1. Apart
  BY DEF EditsInit, Apart, Nothing
<1>2. Known
  BY EmptySeq DEF EditsInit, Known, Places
<1>3. /\ rows \in [Records -> Versions \cup {None}] /\ shown \in [Grids -> [Records -> Versions \cup {None}]]
      /\ lost \in [Sessions -> 0 .. MaxLost] /\ errors \in 0 .. MaxErrors
      /\ own \in [Sessions -> [Records -> Versions \cup {None}]]
  BY EditsAssumption DEF EditsInit, Versions, Nothing
<1>4. edits \in Seq(EditType) /\ Len(edits) <= MaxEdits
  BY EmptySeq, EditsAssumption DEF EditsInit
<1>5. toServer \in [Sessions -> Seq(RequestType)] /\ toTab \in [Sessions -> AnswerType \cup {None}]
  BY EmptySeq DEF EditsInit
<1>6. \A r \in Records : Cardinality({s \in Sessions : own[s][r] # None}) <= 1
  BY <1>1, ApartCounts DEF Apart
<1> QED
  BY <1>1, <1>2, <1>3, <1>4, <1>5, <1>6 DEF TypeInv, EditsTypeOK, EditsInit

LEMMA TypeServed ==
    ASSUME TypeInv, NEW s \in Sessions, NEW op, NEW ok \in BOOLEAN,
           Serves(s, op), Answer(s, ok), Done(s),
           own' \in [Sessions -> [Records -> Versions \cup {None}]], Apart',
           tx' \in [Sessions -> {"none", "open", "aborted"}],
           checked' \in [Sessions -> BOOLEAN],
           rows' \in [Records -> Versions \cup {None}], written' \subseteq Versions,
           errors' \in 0 .. MaxErrors, UNCHANGED <<edits, shown, lost>>,
           ~ checked'[s], \A t \in Sessions \ {s} : checked'[t] = checked[t] /\ tx'[t] = tx[t]
    PROVE  TypeInv'
<1>1. Known'
  BY KnownWhenServed
<1>2. \A r \in Records : Cardinality({t \in Sessions : own'[t][r] # None}) <= 1
  BY ApartCounts DEF Apart
<1>3. /\ toServer' \in [Sessions -> Seq(RequestType)]
      /\ toTab' \in [Sessions -> AnswerType \cup {None}]
  BY ServedMoves DEF TypeInv
<1>4. \A t \in Sessions \ {s} : toServer'[t] = toServer[t]
  BY DEF Done, TypeInv, EditsTypeOK
<1>5. edits' \in Seq(EditType) /\ Len(edits') <= MaxEdits
  BY DEF TypeInv, EditsTypeOK
<1>6. ASSUME NEW t \in Sessions, checked'[t]
      PROVE  toServer'[t] # <<>> /\ Head(toServer'[t]).op = "edit" /\ tx'[t] = "open"
  BY <1>4, <1>6 DEF TypeInv, EditsTypeOK
<1> QED
  BY <1>1, <1>2, <1>3, <1>5, <1>6 DEF TypeInv, EditsTypeOK

LEMMA TypeServe ==
    ASSUME TypeInv, NEW s \in Sessions, Serve(s)
    PROVE  TypeInv'
<1> USE DEF TypeInv, EditsTypeOK
<1>1. \A r \in Records : Visible(s, r) \in Versions \cup {None}
  BY DEF Visible
<1>2. CASE ServeBegin(s)
  BY <1>2, TypeServed DEF ServeBegin, Serves, Apart
<1>3. CASE ServeSelect(s)
  BY <1>3, TypeServed DEF ServeSelect, Serves, Apart
<1>4. CASE ServeCompare(s)
  <2>1. CASE UNCHANGED <<toServer, toTab>>
    <3>1. Known'
      BY <1>4, <2>1 DEF ServeCompare, Known, Places, At, OfEdit, EditsOf
    <3> QED
      BY <1>4, <2>1, <3>1 DEF ServeCompare, Serves, Answer, Apart
  <2>2. CASE Answer(s, FALSE) /\ Done(s) /\ UNCHANGED checked
    BY <1>4, <2>2, TypeServed DEF ServeCompare, Apart
  <2> QED
    BY <1>4, <2>1, <2>2 DEF ServeCompare
<1>5. CASE ServeStatement(s)
  <2> DEFINE v == Head(toServer[s]).of
             e == edits[v]
  <2>1. v \in Versions
    BY <1>5, FirstPlaces DEF ServeStatement, Serves
  <2>2. /\ tx' \in [Sessions -> {"none", "open", "aborted"}]
        /\ \A t \in Sessions \ {s} : tx'[t] = tx[t]
    <3>1. tx' = tx \/ tx' = [tx EXCEPT ![s] = Aborted(s)]
      BY <1>5 DEF ServeStatement
    <3> QED
      BY <3>1 DEF Aborted
  <2>5. /\ \A t \in Sessions \ {s} : checked'[t] = checked[t]
        /\ checked' \in [Sessions -> BOOLEAN] /\ ~ checked'[s]
    BY <1>5 DEF ServeStatement
  <2>6. errors' \in 0 .. MaxErrors
    <3>1. errors' = errors \/ (errors < MaxErrors /\ errors' = errors + 1)
      BY <1>5 DEF ServeStatement
    <3> QED
      BY <3>1, EditsAssumption
  <2>3. own' \in [Sessions -> [Records -> Versions \cup {None}]] /\ Apart'
    <3>1. CASE own' = [own EXCEPT ![s][e.rec] = v]
      <4>1. \A other \in Sessions \ {s} : own[other][e.rec] = None
        BY <1>5 DEF ServeStatement
      <4>2. own' \in [Sessions -> [Records -> Versions \cup {None}]]
        BY <3>1, <2>1
      <4>3. \A t \in Sessions, r \in Records :
               own'[t][r] = IF t = s /\ r = e.rec THEN v ELSE own[t][r]
        BY <3>1
      <4> DEFINE rec == e.rec
      <4>4. \A t \in Sessions : \A r \in Records :
               own'[t][r] # None => own[t][r] # None \/ (t = s /\ r = rec)
        BY <4>3
      <4>5. \A t \in Sessions : own[t][rec] # None => t = s
        BY <4>1
      <4> HIDE DEF rec, e, v
      <4>6. Apart'
        <5> SUFFICES ASSUME NEW r \in Records, NEW t \in Sessions, NEW u \in Sessions,
                            own'[t][r] # None, own'[u][r] # None
                     PROVE  t = u
          BY DEF Apart
        <5>1. own[t][r] # None /\ own[u][r] # None => t = u
          BY DEF Apart
        <5> QED
          BY <4>4, <4>5, <5>1
      <4> QED
        BY <4>2, <4>6
    <3>2. CASE own' = own
      BY <3>2 DEF Apart
    <3> QED
      BY <1>5, <3>1, <3>2 DEF ServeStatement
  <2>4. PICK ok \in BOOLEAN : Answer(s, ok)
    BY <1>5 DEF ServeStatement
  <2> QED
    BY <1>5, <2>2, <2>3, <2>4, <2>5, <2>6, TypeServed DEF ServeStatement
<1>6. CASE ServeEnd(s)
  <2>1. PICK op \in {"commit", "rollback"} : Serves(s, op)
    BY <1>6 DEF ServeEnd
  <2>3. ~ checked[s]
    BY <2>1 DEF Serves
  <2>4. CASE Commit(s)
    <3>1. written' \subseteq Versions
      BY <2>4 DEF Commit
    <3>2. rows' \in [Records -> Versions \cup {None}]
      BY <1>1, <2>4 DEF Commit
    <3> QED
      BY <1>6, <2>1, <2>3, <2>4, <3>1, <3>2, TypeServed DEF Commit, ServeEnd, Apart, Nothing
  <2>5. CASE RollBack(s)
    BY <1>6, <2>1, <2>3, <2>5, TypeServed DEF RollBack, ServeEnd, Apart, Nothing
  <2> QED
    BY <1>6, <2>4, <2>5 DEF ServeEnd
<1>7. CASE CommitFails(s)
  <2>1. ~ checked[s]
    BY <1>7 DEF CommitFails, Serves
  <2>2. errors' \in 0 .. MaxErrors
    BY <1>7, EditsAssumption DEF CommitFails
  <2> QED
    BY <1>7, <2>1, <2>2, TypeServed DEF CommitFails, RollBack, Apart, Nothing
<1> QED
  BY <1>2, <1>3, <1>4, <1>5, <1>6, <1>7 DEF Serve

LEMMA TypeSent ==
    ASSUME TypeInv, NEW s \in Sessions, NEW new \in Seq(RequestType), Sends(s, new),
           toTab' = toTab \/ toTab' = [toTab EXCEPT ![s] = None],
           \A t \in Sessions : EditsOf(t) \subseteq EditsOf(t)',
           \A j \in 1 .. Len(new) : new[j].op # "select" => new[j].of \in EditsOf(s)',
           edits' \in Seq(EditType), Len(edits') <= MaxEdits,
           shown' \in [Grids -> [Records -> Versions \cup {None}]],
           UNCHANGED <<checked, tx, own, rows, written, lost, errors>>
    PROVE  TypeInv'
<1>1. Known'
  BY KnownWhenSent
<1> PICK n : n = Len(toServer[s])
  OBVIOUS
<1>2. /\ toServer' \in [Sessions -> Seq(RequestType)]
      /\ toTab' \in [Sessions -> AnswerType \cup {None}]
      /\ toServer[s] # <<>> => toServer'[s] # <<>> /\ Head(toServer'[s]) = Head(toServer[s])
  BY SentMoves DEF TypeInv
<1>3. \A t \in Sessions \ {s} : toServer'[t] = toServer[t]
  BY DEF Sends, TypeInv, EditsTypeOK
<1>4. ASSUME NEW t \in Sessions, checked'[t]
      PROVE  toServer'[t] # <<>> /\ Head(toServer'[t]).op = "edit" /\ tx'[t] = "open"
  BY <1>2, <1>3, <1>4 DEF TypeInv, EditsTypeOK
<1>5. Apart'
  BY DEF TypeInv, Apart
<1>6. \A r \in Records : Cardinality({t \in Sessions : own'[t][r] # None}) <= 1
  BY DEF TypeInv, EditsTypeOK
<1> QED
  BY <1>1, <1>2, <1>4, <1>5, <1>6 DEF TypeInv, EditsTypeOK

\* What the callbacks and the dialog send: SELECTs, perhaps after a request m.
Selects(new) ==
    new \in Seq(RequestType) /\ \A j \in 1 .. Len(new) : new[j].op = "select"
SendsFirst(new, m) ==
    /\ new \in Seq(RequestType) /\ 1 \in 1 .. Len(new) /\ new[1] = m
    /\ \A j \in 2 .. Len(new) : new[j].op = "select"

LEMMA SentOfEdit ==
    ASSUME TypeInv, NEW s \in Sessions, NEW v \in EditsOf(s),
           NEW op \in {"begin", "edit", "commit", "rollback"}, NEW m, m = [op |-> op, of |-> v]
    PROVE  /\ Selects(<<>>) /\ Selects(Reloads(v))
           /\ SendsFirst(<<m>>, m) /\ SendsFirst(<<m>> \o <<>>, m)
           /\ SendsFirst(<<m>> \o Reloads(v), m)
<1>1. edits[v] \in EditType /\ v \in Versions
  BY ElementOfSeq, LenProperties, EditsAssumption DEF TypeInv, EditsTypeOK, EditsOf, Versions
<1>2. m \in RequestType
  BY <1>1 DEF RequestType
<1> DEFINE load == [op |-> "select", of |-> edits[v].grid]
<1>3. load \in RequestType /\ load.op = "select"
  BY <1>1 DEF EditType, RequestType
<1> HIDE DEF load
<1>4. Selects(<<>>) /\ Selects(<<load>>)
  BY <1>3 DEF Selects
<1>5. Selects(Reloads(v))
  BY <1>4 DEF Reloads, load
<1>6. /\ <<m>> \in Seq(RequestType) /\ Len(<<m>>) = 1 /\ <<m>>[1] = m
  BY <1>2
<1>7. ASSUME NEW new, Selects(new)
      PROVE  SendsFirst(<<m>> \o new, m)
  <2>1. new \in Seq(RequestType) /\ Len(new) \in Nat
    BY <1>7, LenProperties DEF Selects
  <2>2. /\ <<m>> \o new \in Seq(RequestType) /\ Len(<<m>> \o new) = 1 + Len(new)
        /\ \A i \in 1 .. 1 + Len(new) : (<<m>> \o new)[i] = IF i <= 1 THEN <<m>>[i] ELSE new[i - 1]
    BY <1>6, <2>1, ConcatProperties
  <2> QED
    BY <1>6, <1>7, <2>1, <2>2 DEF Selects, SendsFirst
<1>8. SendsFirst(<<m>>, m)
  BY <1>6 DEF SendsFirst
<1> QED
  BY <1>4, <1>5, <1>7, <1>8

\* The phase that follows the answer to m, and what is sent then.
Goes(m, ok, phase, loader, new) ==
    \/ m.op = "begin" /\ phase = "edit" /\ loader /\ SendsFirst(new, [op |-> "edit", of |-> m.of])
    \/ m.op = "begin" /\ phase = "failed" /\ Selects(new)
    \/ m.op = "edit" /\ ok /\ phase = "ask" /\ Selects(new)
    \/ /\ m.op = "edit" /\ phase = (IF ok THEN "commit" ELSE "rollback")
       /\ SendsFirst(new, [op |-> phase, of |-> m.of])
    \/ m.op = "commit" /\ phase = (IF ok THEN "committed" ELSE "failed") /\ Selects(new)
    \/ m.op = "rollback" /\ phase \in {"rolled back", "failed"} /\ Selects(new)

LEMMA FirstOnly ==
    ASSUME NEW new, NEW m, Selects(new) \/ SendsFirst(new, m)
    PROVE  \A j \in 1 .. Len(new) :
               new[j].op # "select" => j = 1 /\ new[j] = m /\ SendsFirst(new, m)
<1>1. new \in Seq(RequestType) /\ Len(new) \in Nat
  BY LenProperties DEF Selects, SendsFirst
<1>2. CASE Selects(new)
  BY <1>2 DEF Selects
<1>3. CASE SendsFirst(new, m)
  BY <1>1, <1>3 DEF SendsFirst
<1> QED
  BY <1>2, <1>3

LEMMA GoesFirst ==
    ASSUME NEW m, NEW ok, NEW phase, NEW loader, NEW new, Goes(m, ok, phase, loader, new)
    PROVE  \A j \in 1 .. Len(new) : new[j].op # "select" =>
               /\ j = 1 /\ new[j] = [op |-> phase, of |-> m.of]
               /\ phase \in {"edit", "commit", "rollback"}
               /\ m.op \in {"begin", "edit"} /\ (phase = "edit" <=> m.op = "begin")
<1> PICK x : x = [op |-> phase, of |-> m.of]
  OBVIOUS
<1>1. CASE Selects(new)
  BY <1>1 DEF Selects
<1>2. CASE m.op = "begin" /\ phase = "edit" /\ SendsFirst(new, x)
  BY <1>2, FirstOnly
<1>3. CASE m.op = "edit" /\ phase \in {"commit", "rollback"} /\ SendsFirst(new, x)
  BY <1>3, FirstOnly
<1> QED
  BY <1>1, <1>2, <1>3 DEF Goes

LEMMA ReceivedGoes ==
    ASSUME TypeInv, NEW s \in Sessions, Receive(s), toTab[s].of.op # "select"
    PROVE  /\ toTab[s] \in AnswerType /\ toTab[s] # None /\ toTab' = [toTab EXCEPT ![s] = None]
           /\ toTab[s].of.of \in EditsOf(s) /\ toTab[s].of.of \in Versions
           /\ \E phase \in Phases, loader \in BOOLEAN, new \in Seq(RequestType) :
                 /\ Becomes(toTab[s].of.of, phase, loader) /\ Sends(s, new)
                 /\ Goes(toTab[s].of, toTab[s].ok, phase, loader, new)
<1> PICK a : a = toTab[s]
  OBVIOUS
<1> PICK v : v = a.of.of
  OBVIOUS
<1>1. /\ a \in AnswerType /\ a # None /\ a.of \in RequestType /\ a.ok \in BOOLEAN
      /\ toTab' = [toTab EXCEPT ![s] = None]
  BY DEF Receive, TypeInv, EditsTypeOK, AnswerType
<1>2. v \in EditsOf(s) /\ v \in Versions
  BY <1>1, FirstPlaces
<1>3. /\ Selects(<<>>) /\ Selects(Reloads(v))
      /\ \A op \in {"begin", "edit", "commit", "rollback"} :
            LET m == [op |-> op, of |-> v] IN
            SendsFirst(<<m>>, m) /\ SendsFirst(<<m>> \o <<>>, m) /\ SendsFirst(<<m>> \o Reloads(v), m)
  BY <1>2, SentOfEdit
<1> SUFFICES \E phase \in Phases, loader \in BOOLEAN, new \in Seq(RequestType) :
                 /\ Becomes(v, phase, loader) /\ Sends(s, new)
                 /\ Goes(a.of, a.ok, phase, loader, new)
  BY <1>1, <1>2
<1>4. CASE a.of.op = "begin" /\ BeginAnswered(s, v, a.ok)
  <2> DEFINE m == [op |-> "edit", of |-> v]
  <2>1. SendsFirst(<<m>>, m)
    BY <1>3
  <2>2. CASE a.ok
    <3>1. Becomes(v, "edit", TRUE) /\ Sends(s, <<m>>)
      BY <1>4, <2>2 DEF BeginAnswered
    <3>2. Goes(a.of, a.ok, "edit", TRUE, <<m>>)
      BY <1>4, <2>1 DEF Goes
    <3>3. <<m>> \in Seq(RequestType)
      BY <2>1 DEF SendsFirst
    <3> HIDE DEF m
    <3> QED
      BY <3>1, <3>2, <3>3 DEF Phases
  <2>3. CASE ~ a.ok
    <3>1. Becomes(v, "failed", FALSE) /\ Sends(s, Reloads(v))
      BY <1>4, <2>3 DEF BeginAnswered
    <3>2. Goes(a.of, a.ok, "failed", FALSE, Reloads(v)) /\ Reloads(v) \in Seq(RequestType)
      BY <1>3, <1>4 DEF Goes, Selects
    <3> QED
      BY <3>1, <3>2 DEF Phases
  <2> QED
    BY <2>2, <2>3
<1>5. CASE a.of.op = "edit" /\ StatementAnswered(s, v, a.ok)
  <2> PICK op \in {"commit", "rollback"} : op = IF a.ok THEN "commit" ELSE "rollback"
    OBVIOUS
  <2> PICK new : new = <<[op |-> op, of |-> v]>> \o (IF a.ok THEN <<>> ELSE Reloads(v))
    OBVIOUS
  <2>1. SendsFirst(new, [op |-> op, of |-> v])
    BY <1>3
  <2>2. CASE a.ok /\ edits[v].asks
    <3>1. Becomes(v, "ask", FALSE) /\ toServer' = toServer
      BY <1>5, <2>2 DEF StatementAnswered
    <3>2. toServer[s] \in Seq(RequestType) /\ toServer \in [Sessions -> Seq(RequestType)]
      BY DEF TypeInv, EditsTypeOK
    <3>3. Sends(s, <<>>)
      BY <3>1, <3>2, ConcatEmptySeq DEF Sends
    <3>4. Goes(a.of, a.ok, "ask", FALSE, <<>>) /\ <<>> \in Seq(RequestType)
      BY <1>3, <1>5, <2>2 DEF Goes, Selects
    <3> QED
      BY <3>1, <3>3, <3>4 DEF Phases
  <2>3. CASE ~ (a.ok /\ edits[v].asks)
    <3>1. Becomes(v, op, FALSE) /\ Sends(s, new)
      BY <1>5, <2>3 DEF StatementAnswered
    <3>2. Goes(a.of, a.ok, op, FALSE, new) /\ new \in Seq(RequestType)
      BY <1>5, <2>1 DEF Goes, SendsFirst
    <3> QED
      BY <3>1, <3>2 DEF Phases
  <2> QED
    BY <2>2, <2>3
<1>6. CASE a.of.op \in {"commit", "rollback"} /\ EndAnswered(s, v, a.of.op, a.ok)
  <2> PICK phase : phase = IF ~ a.ok THEN "failed"
                           ELSE IF a.of.op = "commit" THEN "committed" ELSE "rolled back"
    OBVIOUS
  <2> PICK new : /\ Becomes(v, phase, FALSE) /\ Sends(s, new)
                 /\ Selects(new)
    BY <1>3, <1>6 DEF EndAnswered
  <2>1. Goes(a.of, a.ok, phase, FALSE, new) /\ new \in Seq(RequestType) /\ phase \in Phases
    BY <1>6 DEF Goes, Selects, Phases
  <2> QED
    BY <2>1
<1> QED
  BY <1>4, <1>5, <1>6 DEF Receive

LEMMA TypeReceive ==
    ASSUME TypeInv, NEW s \in Sessions, Receive(s)
    PROVE  TypeInv'
<1>1. UNCHANGED <<checked, tx, own, rows, written, lost, errors>>
  BY DEF Receive
<1>2. CASE toTab[s].of.op = "select"
  <2>1. toTab[s] \in AnswerType /\ toTab' = [toTab EXCEPT ![s] = None]
    BY DEF Receive, TypeInv, EditsTypeOK
  <2>2. /\ edits' = edits /\ toServer' = toServer
        /\ shown' \in [Grids -> [Records -> Versions \cup {None}]]
    BY <1>2, <2>1 DEF Receive, TypeInv, EditsTypeOK, AnswerType, BeginAnswered,
                      StatementAnswered, EndAnswered
  <2>3. Known'
    BY <2>1, <2>2 DEF Known, Places, At, OfEdit, EditsOf, TypeInv, EditsTypeOK
  <2> QED
    BY <1>1, <2>1, <2>2, <2>3 DEF TypeInv, EditsTypeOK, Apart
<1>3. CASE toTab[s].of.op # "select"
  <2> PICK m : m = toTab[s].of
    OBVIOUS
  <2>1. m.of \in EditsOf(s) /\ m.of \in Versions /\ toTab' = [toTab EXCEPT ![s] = None]
    BY <1>3, ReceivedGoes
  <2>2. PICK phase \in Phases, loader \in BOOLEAN, new \in Seq(RequestType) :
           Becomes(m.of, phase, loader) /\ Sends(s, new)
           /\ Goes(m, toTab[s].ok, phase, loader, new)
    BY <1>3, ReceivedGoes
  <2>3. edits[m.of] \in EditType /\ m.of \in 1 .. Len(edits)
    BY <2>1, ElementOfSeq DEF EditsOf, TypeInv, EditsTypeOK
  <2>4. shown' \in [Grids -> [Records -> Versions \cup {None}]]
    <3>1. \/ shown' = shown
          \/ shown' = [shown EXCEPT ![edits[m.of].grid][edits[m.of].rec] = m.of]
      BY <1>3 DEF Receive, BeginAnswered, StatementAnswered, EndAnswered
    <3>2. edits[m.of].grid \in Grids /\ edits[m.of].rec \in Records
      BY <2>3 DEF EditType
    <3>3. shown \in [Grids -> [Records -> Versions \cup {None}]]
      BY DEF TypeInv, EditsTypeOK
    <3>4. CASE shown' = shown
      BY <3>3, <3>4
    <3>5. CASE shown' = [shown EXCEPT ![edits[m.of].grid][edits[m.of].rec] = m.of]
      <4> PICK g \in Grids : g = edits[m.of].grid
        BY <3>2
      <4> PICK r \in Records : r = edits[m.of].rec
        BY <3>2
      <4>1. shown' = [shown EXCEPT ![g] = [shown[g] EXCEPT ![r] = m.of]]
        BY <3>3, <3>5
      <4>2. [shown[g] EXCEPT ![r] = m.of] \in [Records -> Versions \cup {None}]
        BY <2>1, <3>3
      <4> QED
        BY <3>3, <4>1, <4>2
    <3> QED
      BY <3>1, <3>4, <3>5
  <2>5. /\ edits' \in Seq(EditType) /\ Len(edits') <= MaxEdits
        /\ \A t \in Sessions : EditsOf(t)' = EditsOf(t)
    BY <2>2, <2>3, EditBecomes DEF TypeInv, EditsTypeOK
  <2>6. \A j \in 1 .. Len(new) : new[j].op # "select" => new[j].of = m.of
    <3> PICK ok : ok = toTab[s].ok
      OBVIOUS
    <3>1. Goes(m, ok, phase, loader, new)
      BY <2>2
    <3> SUFFICES ASSUME NEW j \in 1 .. Len(new), new[j].op # "select" PROVE new[j].of = m.of
      OBVIOUS
    <3>2. new[j] = [op |-> phase, of |-> m.of]
      BY <3>1, GoesFirst
    <3> QED
      BY <3>2
  <2> QED
    BY <1>1, <2>1, <2>2, <2>4, <2>5, <2>6, TypeSent
<1> QED
  BY <1>2, <1>3

\* The user's steps: a new edit, and the answer to a dialog.
LEMMA EditAppends ==
    ASSUME TypeInv, NEW g \in Grids, NEW kind \in Kinds, NEW r \in Records, NEW asks \in BOOLEAN,
           Edit(g, kind, r, asks), NEW v, v = Len(edits) + 1
    PROVE  /\ v \in Versions /\ v \notin 1 .. Len(edits)
           /\ edits' \in Seq(EditType) /\ Len(edits') = v /\ v <= MaxEdits
           /\ \A u \in 1 .. Len(edits) : edits'[u] = edits[u]
           /\ edits'[v].grid = g /\ edits'[v].phase = "begin" /\ edits'[v].loader
           /\ \A t \in Sessions :
                 EditsOf(t)' = EditsOf(t) \cup (IF t = SessionOf[g] THEN {v} ELSE {})
           /\ SendsFirst(<<[op |-> "begin", of |-> v]>>, [op |-> "begin", of |-> v])
           /\ Sends(SessionOf[g], <<[op |-> "begin", of |-> v]>>)
           /\ UNCHANGED <<shown, toTab, checked, tx, own, rows, written, lost, errors>>
<1> DEFINE e == [grid |-> g, kind |-> kind, rec |-> r, seen |-> shown[g][r],
                 asks |-> asks, loader |-> TRUE, phase |-> "begin"]
<1>1. edits \in Seq(EditType) /\ Len(edits) \in Nat /\ v <= MaxEdits /\ MaxEdits \in Nat
  BY LenProperties, EditsAssumption DEF TypeInv, EditsTypeOK, Edit
<1>2. v \in Versions /\ v \notin 1 .. Len(edits)
  BY <1>1 DEF Versions
<1>3. e \in EditType /\ e.grid = g /\ e.phase = "begin" /\ e.loader
  BY DEF EditType, Phases, TypeInv, EditsTypeOK
<1>4. edits' = Append(edits, e)
  BY DEF Edit
<1> HIDE DEF e
<1>5. /\ edits' \in Seq(EditType) /\ Len(edits') = v /\ edits'[v] = e
      /\ \A u \in 1 .. Len(edits) : edits'[u] = edits[u]
  BY <1>1, <1>3, <1>4
<1>6. \A t \in Sessions :
         EditsOf(t)' = EditsOf(t) \cup (IF t = SessionOf[g] THEN {v} ELSE {})
  BY <1>1, <1>3, <1>5 DEF EditsOf
<1>7. SendsFirst(<<[op |-> "begin", of |-> v]>>, [op |-> "begin", of |-> v])
  BY <1>2 DEF SendsFirst, RequestType
<1>8. /\ Sends(SessionOf[g], <<[op |-> "begin", of |-> v]>>)
      /\ UNCHANGED <<shown, toTab, checked, tx, own, rows, written, lost, errors>>
  BY DEF Edit
<1> QED
  BY <1>1, <1>2, <1>3, <1>5, <1>6, <1>7, <1>8

LEMMA TypeEdit ==
    ASSUME TypeInv, NEW g \in Grids, NEW kind \in Kinds, NEW r \in Records, NEW asks \in BOOLEAN,
           Edit(g, kind, r, asks)
    PROVE  TypeInv'
<1> PICK v : v = Len(edits) + 1
  OBVIOUS
<1> PICK new : new = <<[op |-> "begin", of |-> v]>>
  OBVIOUS
<1>1. SessionOf[g] \in Sessions
  BY EditsAssumption
<1>2. /\ edits' \in Seq(EditType) /\ Len(edits') <= MaxEdits
      /\ \A t \in Sessions : EditsOf(t) \subseteq EditsOf(t)'
      /\ v \in EditsOf(SessionOf[g])'
      /\ Sends(SessionOf[g], new)
      /\ UNCHANGED <<shown, toTab, checked, tx, own, rows, written, lost, errors>>
      /\ SendsFirst(new, [op |-> "begin", of |-> v])
  BY <1>1, EditAppends
<1>3. new \in Seq(RequestType) /\ \A j \in 1 .. Len(new) : new[j].op # "select" => new[j].of = v
  BY <1>2, FirstOnly DEF SendsFirst
<1>4. shown' \in [Grids -> [Records -> Versions \cup {None}]]
  BY <1>2 DEF TypeInv, EditsTypeOK
<1> QED
  BY ZenonT(40), <1>1, <1>2, <1>3, <1>4, TypeSent

LEMMA DecideSends ==
    ASSUME TypeInv, NEW v \in 1 .. Len(edits), Decide(v)
    PROVE  /\ v \in EditsOf(SessionOf[edits[v].grid]) /\ SessionOf[edits[v].grid] \in Sessions
           /\ edits[v].phase = "ask"
           /\ UNCHANGED <<shown, toTab, checked, tx, own, rows, written, lost, errors>>
           /\ \E phase \in {"commit", "rollback"}, new \in Seq(RequestType) :
                 /\ Becomes(v, phase, TRUE) /\ Sends(SessionOf[edits[v].grid], new)
                 /\ SendsFirst(new, [op |-> phase, of |-> v])
<1> PICK s : s = SessionOf[edits[v].grid]
  OBVIOUS
<1>1. edits[v] \in EditType
  BY ElementOfSeq DEF TypeInv, EditsTypeOK
<1>2. s \in Sessions /\ v \in EditsOf(s)
  BY <1>1, EditsAssumption DEF EditType, EditsOf
<1>3. PICK phase \in {"commit", "rollback"} :
         Becomes(v, phase, TRUE) /\ Sends(s, <<[op |-> phase, of |-> v]>>)
  BY DEF Decide
<1>4. SendsFirst(<<[op |-> phase, of |-> v]>>, [op |-> phase, of |-> v])
  BY <1>2, SentOfEdit
<1>5. PICK new : new = <<[op |-> phase, of |-> v]>>
  OBVIOUS
<1>6. new \in Seq(RequestType)
  BY <1>4, <1>5 DEF SendsFirst
<1>7. edits[v].phase = "ask"
      /\ UNCHANGED <<shown, toTab, checked, tx, own, rows, written, lost, errors>>
  BY DEF Decide
<1> QED
  BY <1>2, <1>3, <1>4, <1>5, <1>6, <1>7

LEMMA TypeDecide ==
    ASSUME TypeInv, NEW v \in 1 .. Len(edits), Decide(v)
    PROVE  TypeInv'
<1> PICK s : s = SessionOf[edits[v].grid]
  OBVIOUS
<1>1. /\ v \in EditsOf(s) /\ s \in Sessions
      /\ UNCHANGED <<shown, toTab, checked, tx, own, rows, written, lost, errors>>
  BY DecideSends
<1>2. PICK phase \in {"commit", "rollback"}, new \in Seq(RequestType) :
         Becomes(v, phase, TRUE) /\ Sends(s, new) /\ SendsFirst(new, [op |-> phase, of |-> v])
  BY DecideSends
<1>3. phase \in Phases
  BY DEF Phases
<1>4. /\ edits' \in Seq(EditType) /\ Len(edits') <= MaxEdits
      /\ \A t \in Sessions : EditsOf(t)' = EditsOf(t)
  BY <1>2, <1>3, EditBecomes DEF TypeInv, EditsTypeOK
<1>5. \A j \in 1 .. Len(new) : new[j].op # "select" => new[j].of = v
  BY <1>2, FirstOnly
<1>6. shown' \in [Grids -> [Records -> Versions \cup {None}]]
  BY <1>1 DEF TypeInv, EditsTypeOK
<1> QED
  BY <1>1, <1>2, <1>4, <1>5, <1>6, TypeSent

LEMMA LostEmpties ==
    ASSUME TypeInv, NEW s \in Sessions, SessionLost(s)
    PROVE  /\ Places(s)' = {} /\ OthersStay(s)
           /\ own' = [own EXCEPT ![s] = Nothing]
           /\ UNCHANGED <<edits, shown, rows, written>>
<1>1. /\ toServer'[s] = <<>> /\ toTab'[s] = None
      /\ \A t \in Sessions \ {s} : toServer'[t] = toServer[t] /\ toTab'[t] = toTab[t]
  BY DEF SessionLost, TypeInv, EditsTypeOK
<1>2. Places(s)' = {}
  BY <1>1, EmptySeq DEF Places
<1> QED
  BY <1>1, <1>2 DEF SessionLost, RollBack, OthersStay, Places, At

LEMMA TypeLost ==
    ASSUME TypeInv, NEW s \in Sessions, SessionLost(s)
    PROVE  TypeInv'
<1>0. /\ Places(s)' = {} /\ OthersStay(s)
      /\ own' = [own EXCEPT ![s] = Nothing]
      /\ UNCHANGED <<edits, shown, rows, written>>
  BY LostEmpties
<1>1. Known'
  BY <1>0 DEF TypeInv, Known, OthersStay, OfEdit, EditsOf
<1>2. Apart'
  BY <1>0 DEF TypeInv, EditsTypeOK, Apart, Nothing
<1>3. \A r \in Records : Cardinality({t \in Sessions : own'[t][r] # None}) <= 1
  BY <1>2, ApartCounts DEF Apart
<1> USE DEF TypeInv, EditsTypeOK
<1>4. toServer' \in [Sessions -> Seq(RequestType)] /\ toTab' \in [Sessions -> AnswerType \cup {None}]
  BY EmptySeq DEF SessionLost
<1>5. lost' \in [Sessions -> 0 .. MaxLost]
  BY EditsAssumption DEF SessionLost
<1>6. /\ checked' \in [Sessions -> BOOLEAN] /\ tx' \in [Sessions -> {"none", "open", "aborted"}]
      /\ own' \in [Sessions -> [Records -> Versions \cup {None}]]
  BY DEF SessionLost, RollBack, Nothing
<1>7. UNCHANGED <<edits, shown, rows, written, errors>>
  BY DEF SessionLost, RollBack
<1>8. ASSUME NEW t \in Sessions, checked'[t]
      PROVE  toServer'[t] # <<>> /\ Head(toServer'[t]).op = "edit" /\ tx'[t] = "open"
  BY <1>8 DEF SessionLost, RollBack
<1> QED
  BY <1>1, <1>2, <1>3, <1>4, <1>5, <1>6, <1>7, <1>8

LEMMA TypeNext == TypeInv /\ [EditsNext]_evars => TypeInv'
<1> SUFFICES ASSUME TypeInv, [EditsNext]_evars PROVE TypeInv'
  OBVIOUS
<1>1. ASSUME NEW g \in Grids, NEW kind \in Kinds, NEW r \in Records, NEW asks \in BOOLEAN,
             Edit(g, kind, r, asks)
      PROVE  TypeInv'
  BY <1>1, TypeEdit
<1>2. ASSUME NEW v \in 1 .. Len(edits), Decide(v) PROVE TypeInv'
  BY <1>2, TypeDecide
<1>3. ASSUME NEW s \in Sessions, Receive(s) \/ Serve(s) \/ SessionLost(s) PROVE TypeInv'
  BY <1>3, TypeReceive, TypeServe, TypeLost
<1>4. CASE UNCHANGED evars
  BY <1>4 DEF evars, TypeInv, EditsTypeOK, Known, Apart, Places, At, OfEdit, EditsOf
<1> QED
  BY <1>1, <1>2, <1>3, <1>4 DEF EditsNext

\* Whatever the windows do and however sessions are lost, the state keeps its
\* types, two connections never hold the same record, and a comparison is that
\* of the statement at the head, in an open transaction.
THEOREM EditsTypeCorrect == EditsSpec => []EditsTypeOK
<1>1. TypeInv => EditsTypeOK
  BY DEF TypeInv
<1> QED
  BY <1>1, TypeInit, TypeNext, PTL DEF EditsSpec

-----------------------------------------------------------------------------
(* The line and the locks, step by step.                                   *)

\* A step of another session leaves them.
LEMMA ElsewhereStays ==
    ASSUME TypeInv, NEW s \in Sessions, NEW t \in Sessions \ {s}, OthersStay(s),
           InLine(t), Held(t), own'[t] = own[t], EditsOf(t)' = EditsOf(t),
           \A u \in EditsOf(t) : edits'[u] = edits[u]
    PROVE  InLine(t)' /\ Held(t)'
<1>1. /\ Places(t)' = Places(t) /\ \A k \in Places(t) : At(t, k)' = At(t, k)
      /\ \A k \in Places(t) : OfEdit(t, k) => At(t, k).of \in EditsOf(t)
  BY DEF OthersStay, TypeInv, Known
<1>2. /\ \A k \in Places(t) : OfEdit(t, k)' = OfEdit(t, k) /\ Ending(t, k)' = Ending(t, k)
  BY <1>1 DEF OfEdit, Ending
<1>3. Matched(t)'
  BY <1>1, <1>2 DEF InLine, Matched
<1>4. InTurn(t)' /\ Asking(t)'
  BY <1>1, <1>2 DEF InLine, InTurn, Asking
<1>5. Alone(t)' /\ Covered(t)'
  BY DEF InLine, Alone, Covered
<1>6. Held(t)'
  <2> SUFFICES ASSUME NEW r \in Records, own[t][r] # None PROVE HeldBy(t, own[t][r])'
    BY DEF Held
  <2> PICK u : u = own[t][r]
    OBVIOUS
  <2>1. HeldBy(t, u)
    BY DEF Held
  <2>2. own'[t] = own[t] /\ edits'[u] = edits[u] /\ u \in EditsOf(t)'
    BY <2>1 DEF HeldBy
  <2>3. HeldBy(t, u)'
    BY <1>1, <1>2, <2>1, <2>2 DEF HeldBy
  <2> QED
    BY <2>3
<1> QED
  BY <1>3, <1>4, <1>5, <1>6 DEF InLine

\* Serving a request leaves the line, one place up.
LEMMA ServedInLine ==
    ASSUME TypeInv, NEW s \in Sessions, NEW op, NEW ok \in BOOLEAN, InLine(s),
           Serves(s, op), Answer(s, ok), Done(s), edits' = edits
    PROVE  InLine(s)'
<1>1. /\ Places(s)' \subseteq Nat
      /\ \A k \in Places(s)' : k + 1 \in Places(s) /\ At(s, k)' = At(s, k + 1)
  <2>1. toServer[s] \in Seq(RequestType)
    BY DEF TypeInv, EditsTypeOK
  <2> QED
    BY <2>1, LenProperties, ServedMoves DEF TypeInv
<1>2. \A k \in Places(s)' : /\ OfEdit(s, k)' = OfEdit(s, k + 1)
                            /\ Ending(s, k)' = Ending(s, k + 1)
  BY <1>1 DEF OfEdit, Ending
<1>3. EditsOf(s)' = EditsOf(s)
  BY DEF EditsOf
<1>4. Matched(s)'
  <2> SUFFICES ASSUME NEW k \in Places(s)', OfEdit(s, k)'
               PROVE  /\ edits[At(s, k)'.of].phase = At(s, k)'.op
                      /\ \A j \in Places(s)' :
                             OfEdit(s, j)' /\ At(s, j)'.of = At(s, k)'.of => j = k
    BY DEF Matched
  <2>1. k + 1 \in Places(s) /\ OfEdit(s, k + 1) /\ At(s, k)' = At(s, k + 1)
    BY <1>1, <1>2
  <2>2. ASSUME NEW j \in Places(s)', OfEdit(s, j)', At(s, j)'.of = At(s, k)'.of
        PROVE  j = k
    <3>1. j + 1 \in Places(s) /\ OfEdit(s, j + 1) /\ At(s, j + 1).of = At(s, k + 1).of
      BY <1>1, <1>2, <2>1, <2>2
    <3>2. j + 1 = k + 1
      BY <2>1, <3>1 DEF InLine, Matched
    <3> QED
      BY <1>1, <3>2
  <2>3. edits[At(s, k + 1).of].phase = At(s, k + 1).op
    BY <2>1 DEF InLine, Matched
  <2> QED
    BY <2>1, <2>2, <2>3
<1>5. InTurn(s)'
  <2> SUFFICES ASSUME NEW j \in Places(s)', NEW k \in Places(s)',
                      At(s, j)'.op \in {"begin", "edit"}, Ending(s, k)'
               PROVE  k < j
    BY DEF InTurn
  <2>1. k + 1 < j + 1
    BY <1>1, <1>2 DEF InLine, InTurn
  <2> QED
    BY <1>1, <2>1
<1>6. Asking(s)'
  BY <1>1, <1>2, <1>3 DEF InLine, Asking
<1>7. Alone(s)' /\ Covered(s)'
  BY <1>3 DEF InLine, Alone, Covered
<1> QED
  BY <1>4, <1>5, <1>6, <1>7 DEF InLine

\* While the first request of the line begins or changes, nothing is held yet.
LEMMA HeldNothing ==
    ASSUME TypeInv, NEW s \in Sessions, InLine(s), Held(s), NEW f \in Places(s),
           At(s, f).op \in {"begin", "edit"}, \A k \in Places(s) : f <= k,
           f # 0 \/ At(s, f).op = "begin"
    PROVE  \A r \in Records : own[s][r] = None
<1> SUFFICES ASSUME NEW r \in Records, own[s][r] # None PROVE FALSE
  OBVIOUS
<1> PICK u : u = own[s][r]
  OBVIOUS
<1> PICK v : v = At(s, f).of
  OBVIOUS
<1>1. HeldBy(s, u)
  BY DEF Held
<1>2. OfEdit(s, f) /\ v \in EditsOf(s) /\ edits[v].phase = At(s, f).op
  BY DEF OfEdit, TypeInv, Known, InLine, Matched
<1>3. \A k \in Places(s) : k \in Nat
  BY LenProperties DEF Places, TypeInv, EditsTypeOK
<1>4. CASE edits[u].phase = "edit" /\ 0 \in Places(s) /\ At(s, 0).op = "edit"
  BY <1>3, <1>4
<1>5. CASE edits[u].phase = "ask"
  BY <1>1, <1>2, <1>5 DEF HeldBy, InLine, Alone
<1>6. ASSUME edits[u].phase \in {"commit", "rollback"},
             NEW k \in Places(s), OfEdit(s, k), At(s, k).of = u
      PROVE  FALSE
  <2>1. Ending(s, k)
    BY <1>6 DEF Ending, InLine, Matched
  <2>2. k < f
    BY <2>1 DEF InLine, InTurn
  <2> QED
    BY <1>3, <2>2
<1> QED
  BY <1>1, <1>4, <1>5, <1>6 DEF HeldBy

LEMMA ServedHeld ==
    ASSUME TypeInv, NEW s \in Sessions, NEW op \in {"begin", "edit", "select"},
           NEW ok \in BOOLEAN, InLine(s), Held(s),
           Serves(s, op), Answer(s, ok), Done(s), edits' = edits, own'[s] = own[s]
    PROVE  Held(s)'
<1> SUFFICES ASSUME NEW r \in Records, own[s][r] # None PROVE HeldBy(s, own[s][r])'
  BY DEF Held
<1> PICK u : u = own[s][r]
  OBVIOUS
<1> PICK n : n = Len(toServer[s])
  OBVIOUS
<1>1. HeldBy(s, u)
  BY DEF Held
<1>2. n \in Nat /\ Places(s) \subseteq 0 .. n
  BY LenProperties DEF Places, TypeInv, EditsTypeOK
<1>3. /\ 1 \in Places(s) /\ At(s, 1).op = op /\ \A k \in Places(s) : k # 0
      /\ Places(s)' = 0 .. n - 1
      /\ \A k \in Places(s)' : k + 1 \in Places(s) /\ At(s, k)' = At(s, k + 1)
  BY ServedMoves DEF Serves, TypeInv
<1>4. op = "select"
  BY <1>2, <1>3, HeldNothing
<1>5. \A k \in Places(s)' : /\ OfEdit(s, k)' = OfEdit(s, k + 1)
                            /\ Ending(s, k)' = Ending(s, k + 1)
  BY <1>3 DEF OfEdit, Ending
<1>6. ASSUME edits[u].phase \in {"commit", "rollback"},
             NEW k \in Places(s), OfEdit(s, k), At(s, k).of = u
      PROVE  \E i \in Places(s)' \ {0} : OfEdit(s, i)' /\ At(s, i)'.of = u
  <2>1. k # 1 /\ k \in 0 .. n /\ k # 0
    BY <1>2, <1>3, <1>4, <1>6 DEF OfEdit
  <2> PICK i : i = k - 1
    OBVIOUS
  <2>2. i \in Places(s)' \ {0} /\ i + 1 = k
    BY <1>2, <1>3, <2>1
  <2>3. OfEdit(s, i)' /\ At(s, i)'.of = u
    BY <1>3, <1>5, <1>6, <2>2
  <2> QED
    BY <2>2, <2>3
<1>7. u \in EditsOf(s)' /\ own'[s] = own[s] /\ edits'[u] = edits[u]
  BY <1>1 DEF HeldBy, EditsOf
<1>8. \/ edits[u].phase = "ask"
      \/ /\ edits[u].phase \in {"commit", "rollback"}
         /\ \E k \in Places(s) : OfEdit(s, k) /\ At(s, k).of = u
  BY <1>1, <1>3 DEF HeldBy
<1>9. \/ edits'[u].phase = "ask"
      \/ /\ edits'[u].phase \in {"commit", "rollback"}
         /\ \E k \in Places(s)' \ {0} : OfEdit(s, k)' /\ At(s, k)'.of = u
  BY <1>6, <1>7, <1>8
<1>10. \A k \in Places(s)' : Ending(s, k)' => At(s, k)'.of = u
  BY <1>1, <1>3, <1>5 DEF HeldBy
<1>11. HeldBy(s, u)'
  BY <1>1, <1>7, <1>9, <1>10 DEF HeldBy
<1> QED
  BY <1>11

LEMMA ServedReported ==
    ASSUME TypeInv, NEW s \in Sessions, NEW op, NEW ok \in BOOLEAN, InLine(s), Reported,
           Serves(s, op), Answer(s, ok), Done(s), edits' = edits,
           \A v \in written' : \/ v \in written
                               \/ ok /\ op = "commit" /\ v = Head(toServer[s]).of
    PROVE  Reported'
<1> PICK n : n = Len(toServer[s])
  OBVIOUS
<1>1. /\ n \in Nat /\ OthersStay(s) /\ toTab'[s].ok = ok
      /\ 1 \in Places(s) /\ At(s, 1) = Head(toServer[s]) /\ At(s, 1).op = op
      /\ Places(s)' = 0 .. n - 1
      /\ \A k \in Places(s)' : k + 1 \in Places(s) /\ At(s, k)' = At(s, k + 1)
  BY ServedMoves, LenProperties DEF Serves, TypeInv, EditsTypeOK
<1>2. \A k \in Places(s)' : OfEdit(s, k)' = OfEdit(s, k + 1)
  BY <1>1 DEF OfEdit
<1>3. \A t \in Sessions \ {s} : \A k \in Places(t)' :
         /\ k \in Places(t) /\ At(t, k)' = At(t, k) /\ OfEdit(t, k)' = OfEdit(t, k)
         /\ toTab'[t] = toTab[t]
  BY <1>1 DEF OthersStay, OfEdit
<1> SUFFICES ASSUME NEW v \in written'
             PROVE  /\ v \in 1 .. Len(edits)
                    /\ edits[v].phase \in {"commit", "committed"}
                    /\ \A t \in Sessions : \A k \in Places(t)' :
                           OfEdit(t, k)' /\ At(t, k)'.of = v => k = 0 /\ toTab'[t].ok
  BY DEF Reported
<1>4. CASE v \in written
  <2>1. \A t \in Sessions : \A k \in Places(t) :
           OfEdit(t, k) /\ At(t, k).of = v => k = 0 /\ toTab[t].ok
    BY <1>4 DEF Reported
  <2>2. ASSUME NEW k \in Places(s)', OfEdit(s, k)', At(s, k)'.of = v PROVE FALSE
    <3>1. k + 1 = 0
      BY <1>1, <1>2, <2>1, <2>2
    <3> QED
      BY <1>1, <3>1
  <2> QED
    BY <1>3, <1>4, <2>1, <2>2 DEF Reported
<1>5. CASE ok /\ op = "commit" /\ v = Head(toServer[s]).of
  <2>1. At(s, 1).of = v /\ OfEdit(s, 1) /\ v \in EditsOf(s) /\ edits[v].phase = "commit"
    BY <1>1, <1>5 DEF OfEdit, TypeInv, Known, InLine, Matched
  <2>2. ASSUME NEW k \in Places(s)', OfEdit(s, k)', At(s, k)'.of = v
        PROVE  k = 0 /\ toTab'[s].ok
    <3>1. k + 1 = 1
      BY <1>1, <1>2, <2>1, <2>2 DEF InLine, Matched
    <3> QED
      BY <1>1, <1>5, <3>1
  <2>3. ASSUME NEW t \in Sessions \ {s}, NEW k \in Places(t)', OfEdit(t, k)', At(t, k)'.of = v
        PROVE  FALSE
    <3>1. v \in EditsOf(t)
      BY <1>3, <2>3 DEF TypeInv, Known
    <3> QED
      BY <2>1, <3>1 DEF EditsOf
  <2> QED
    BY <2>1, <2>2, <2>3 DEF EditsOf
<1> QED
  BY <1>4, <1>5

LEMMA NothingMoves ==
    ASSUME \A t \in Sessions : InLine(t) /\ Held(t), Reported,
           UNCHANGED <<edits, toServer, toTab, own, written>>
    PROVE  (\A t \in Sessions : InLine(t)' /\ Held(t)') /\ Reported'
<1> USE DEF Places, At, OfEdit, Ending, EditsOf
<1>1. ASSUME NEW t \in Sessions PROVE InLine(t)' /\ Held(t)'
  <2>1. InLine(t) /\ Held(t)
    OBVIOUS
  <2>2. InLine(t)'
    BY <2>1 DEF InLine, Matched, InTurn, Asking, Alone, Covered
  <2>3. Held(t)'
    BY <2>1 DEF Held, HeldBy
  <2> QED
    BY <2>2, <2>3
<1>2. Reported'
  BY DEF Reported
<1> QED
  BY <1>1, <1>2

\* What a statement changes, it changes for the one edit that holds anything.
LEMMA StatementHeld ==
    ASSUME TypeInv, NEW s \in Sessions, InLine(s), Held(s), ServeStatement(s)
    PROVE  Held(s)'
<1> PICK n : n = Len(toServer[s])
  OBVIOUS
<1> PICK v : v = Head(toServer[s]).of
  OBVIOUS
<1>1. PICK ok \in BOOLEAN : Serves(s, "edit") /\ Answer(s, ok) /\ Done(s) /\ edits' = edits
  BY DEF ServeStatement
<1>2. n \in Nat /\ Places(s) \subseteq 0 .. n
  BY LenProperties DEF Places, TypeInv, EditsTypeOK
<1>3. /\ 1 \in Places(s) /\ At(s, 1).op = "edit" /\ At(s, 1).of = v /\ \A k \in Places(s) : k # 0
      /\ Places(s)' = 0 .. n - 1
      /\ \A k \in Places(s)' : k + 1 \in Places(s) /\ At(s, k)' = At(s, k + 1)
  BY <1>1, ServedMoves DEF Serves, TypeInv
<1>4. \A r \in Records : own[s][r] = None
  BY <1>2, <1>3, HeldNothing
<1>5. v \in EditsOf(s) /\ edits[v].phase = "edit"
  BY <1>3 DEF OfEdit, TypeInv, Known, InLine, Matched
<1>6. ASSUME NEW k \in Places(s)', Ending(s, k)' PROVE FALSE
  <2>1. Ending(s, k + 1) /\ k + 1 \in Places(s)
    BY <1>3, <1>6 DEF Ending
  <2>2. k + 1 < 1
    BY <1>3, <2>1 DEF InLine, InTurn
  <2> QED
    BY <1>3, <2>2, <1>2
<1>7. \A r \in Records : own'[s][r] \in {None, v}
  <2>1. own' = own \/ own' = [own EXCEPT ![s][edits[v].rec] = v]
    BY DEF ServeStatement
  <2> QED
    BY <1>4, <2>1 DEF TypeInv, EditsTypeOK
<1>8. 0 \in Places(s)' /\ At(s, 0)' = At(s, 1)
  BY <1>2, <1>3
<1>9. HeldBy(s, v)'
  BY <1>1, <1>3, <1>5, <1>6, <1>7, <1>8 DEF HeldBy, EditsOf
<1> QED
  BY <1>7, <1>9 DEF Held

LEMMA ServeKeeps ==
    ASSUME EditsInv, NEW s \in Sessions, Serve(s)
    PROVE  EditsInv'
<1>0. TypeInv /\ InLine(s) /\ Held(s) /\ Reported /\ TypeInv'
  BY TypeServe DEF EditsInv
<1>1. CASE UNCHANGED <<edits, toServer, toTab, own, written>>
  BY <1>0, <1>1, NothingMoves DEF EditsInv
<1>2. ASSUME NEW op, NEW ok \in BOOLEAN, Serves(s, op), Answer(s, ok), Done(s),
             UNCHANGED edits, \A t \in Sessions \ {s} : own'[t] = own[t], Held(s)',
             \A v \in written' : \/ v \in written
                                 \/ ok /\ op = "commit" /\ v = Head(toServer[s]).of
      PROVE  EditsInv'
  <2>1. InLine(s)' /\ Reported'
    BY <1>0, <1>2, ServedInLine, ServedReported
  <2>2. OthersStay(s)
    BY <1>0, <1>2, ServedMoves DEF TypeInv
  <2>3. ASSUME NEW t \in Sessions \ {s} PROVE InLine(t)' /\ Held(t)'
    <3>1. InLine(t) /\ Held(t)
      BY DEF EditsInv
    <3>2. EditsOf(t)' = EditsOf(t)
      BY <1>2 DEF EditsOf
    <3> QED
      BY <1>0, <1>2, <2>2, <3>1, <3>2, ElsewhereStays
  <2> QED
    BY <1>0, <1>2, <2>1, <2>3 DEF EditsInv
<1>3. ASSUME NEW op \in {"begin", "edit", "select"}, NEW ok \in BOOLEAN,
             Serves(s, op), Answer(s, ok), Done(s), UNCHANGED <<edits, own, written>>
      PROVE  EditsInv'
  BY <1>0, <1>2, <1>3, ServedHeld
<1>4. CASE ServeBegin(s) \/ ServeSelect(s)
  <2>1. (tx[s] # "aborted") \in BOOLEAN
    OBVIOUS
  <2> QED
    BY <1>3, <1>4, <2>1 DEF ServeBegin, ServeSelect
<1>5. CASE ServeCompare(s)
  BY <1>1, <1>3, <1>5 DEF ServeCompare
<1>6. CASE ServeStatement(s)
  <2>1. Held(s)'
    BY <1>0, <1>6, StatementHeld
  <2>2. PICK ok \in BOOLEAN : Answer(s, ok)
    BY <1>6 DEF ServeStatement
  <2>3. own' = own \/ \E r, v : own' = [own EXCEPT ![s][r] = v]
    BY <1>6 DEF ServeStatement
  <2>4. \A t \in Sessions \ {s} : own'[t] = own[t]
    BY <1>0, <2>3 DEF TypeInv, EditsTypeOK
  <2> QED
    BY <1>2, <1>6, <2>1, <2>2, <2>4 DEF ServeStatement
<1>7. ASSUME own' = [own EXCEPT ![s] = Nothing]
      PROVE  Held(s)' /\ \A t \in Sessions \ {s} : own'[t] = own[t]
  BY <1>0, <1>7 DEF Held, Nothing, TypeInv, EditsTypeOK
<1>8. CASE ServeEnd(s)
  <2>1. PICK op \in {"commit", "rollback"} : Serves(s, op)
    BY <1>8 DEF ServeEnd
  <2>2. CASE Commit(s) /\ op = "commit"
    <3>1. ASSUME NEW v \in written', v \notin written PROVE v = Head(toServer[s]).of
      <4>1. PICK r \in Records : v = own[s][r] /\ v # None
        BY <2>2, <3>1 DEF Commit
      <4>2. HeldBy(s, v)
        BY <1>0, <4>1 DEF Held
      <4>3. 1 \in Places(s) /\ At(s, 1) = Head(toServer[s])
        BY <1>0, <1>8, <2>1, ServedMoves DEF ServeEnd, TypeInv
      <4>4. Ending(s, 1)
        BY <2>1, <4>3 DEF Ending, Serves
      <4> QED
        BY <4>2, <4>3, <4>4 DEF HeldBy
    <3> QED
      BY <1>2, <1>7, <1>8, <2>1, <2>2, <3>1 DEF Commit, ServeEnd
  <2>3. CASE RollBack(s)
    BY <1>2, <1>7, <1>8, <2>1, <2>3 DEF RollBack, ServeEnd
  <2> QED
    BY <1>8, <2>1, <2>2, <2>3 DEF ServeEnd, Serves
<1>9. CASE CommitFails(s)
  BY <1>2, <1>7, <1>9 DEF CommitFails, RollBack
<1> QED
  BY <1>4, <1>5, <1>6, <1>8, <1>9 DEF Serve

\* Sending leaves the other sessions, and what they reported.
LEMMA SentKeeps ==
    ASSUME EditsInv, TypeInv', NEW s \in Sessions, NEW new \in Seq(RequestType), Sends(s, new),
           toTab' = toTab \/ toTab' = [toTab EXCEPT ![s] = None],
           UNCHANGED <<own, written>>, InLine(s)', Held(s)',
           \A t \in Sessions \ {s} : /\ EditsOf(t)' = EditsOf(t)
                                     /\ \A u \in EditsOf(t) : edits'[u] = edits[u],
           \A v \in written :
               /\ v \in 1 .. Len(edits') /\ edits'[v].phase \in {"commit", "committed"}
               /\ \A k \in Places(s)' :
                      OfEdit(s, k)' /\ At(s, k)'.of = v => k = 0 /\ toTab'[s].ok
    PROVE  EditsInv'
<1> PICK n : n = Len(toServer[s])
  OBVIOUS
<1>1. TypeInv /\ EditsTypeOK /\ OthersStay(s)
  BY SentMoves DEF EditsInv, TypeInv
<1>2. ASSUME NEW t \in Sessions \ {s} PROVE InLine(t)' /\ Held(t)'
  <2>1. InLine(t) /\ Held(t)
    BY DEF EditsInv
  <2> QED
    BY <1>1, <2>1, ElsewhereStays
<1>3. Reported'
  <2> SUFFICES ASSUME NEW v \in written, NEW t \in Sessions \ {s}, NEW k \in Places(t)',
                      OfEdit(t, k)', At(t, k)'.of = v
               PROVE  k = 0 /\ toTab'[t].ok
    BY DEF Reported
  <2>1. k \in Places(t) /\ OfEdit(t, k) /\ At(t, k).of = v /\ toTab'[t] = toTab[t]
    BY <1>1 DEF OthersStay, OfEdit
  <2> QED
    BY <2>1 DEF EditsInv, Reported
<1> QED
  BY <1>2, <1>3 DEF EditsInv

\* The tab has read the answer to m, the first of the line; what it sends goes
\* behind the n requests that wait.
Read(s, m, phase, n) ==
    /\ 0 \in Places(s) /\ At(s, 0) = m /\ OfEdit(s, 0)
    /\ m.of \in EditsOf(s) /\ edits[m.of].phase = m.op
    /\ \A k \in Places(s)' : k \in Nat \ {0}
    /\ \A k \in Places(s)' : OfEdit(s, k)' =>
          \/ /\ k \in Places(s) /\ k <= n /\ At(s, k)' = At(s, k)
             /\ OfEdit(s, k) /\ At(s, k).of # m.of
          \/ /\ k = n + 1 /\ At(s, k)'.op = phase /\ At(s, k)'.of = m.of
             /\ phase \in {"edit", "commit", "rollback"} /\ m.op \in {"begin", "edit"}
             /\ phase = "edit" <=> m.op = "begin"
    /\ \A k \in Places(s) \ {0} : k \in Places(s)' /\ At(s, k)' = At(s, k)

LEMMA ReceivedMoves ==
    ASSUME TypeInv, NEW s \in Sessions, InLine(s), Receive(s), toTab[s].of.op # "select",
           NEW m, m = toTab[s].of, NEW n, n = Len(toServer[s]), NEW ok,
           NEW phase \in Phases, NEW loader \in BOOLEAN, NEW new \in Seq(RequestType),
           Sends(s, new), Goes(m, ok, phase, loader, new)
    PROVE  Read(s, m, phase, n)
<1>1. /\ toTab[s] # None /\ toTab' = [toTab EXCEPT ![s] = None] /\ toTab' # toTab
      /\ m.of \in EditsOf(s)
  BY ReceivedGoes DEF TypeInv, EditsTypeOK
<1>2. toServer[s] \in Seq(RequestType) /\ n \in Nat
  BY LenProperties DEF TypeInv, EditsTypeOK
<1>3. 0 \in Places(s) /\ At(s, 0) = m /\ OfEdit(s, 0)
  BY <1>1, <1>2 DEF Places, At, OfEdit
<1>4. edits[m.of].phase = m.op
      /\ \A k \in Places(s) \ {0} : OfEdit(s, k) => At(s, k).of # m.of
  BY <1>3 DEF InLine, Matched
<1>5. /\ \A k \in Places(s)' :
            \/ k \in Places(s) /\ At(s, k)' = At(s, k)
            \/ k - n \in 1 .. Len(new) /\ At(s, k)' = new[k - n]
      /\ \A k \in Places(s) \ {0} : k \in Places(s)' /\ At(s, k)' = At(s, k)
      /\ 0 \notin Places(s)'
  <2>1. EditsTypeOK /\ toTab' = [toTab EXCEPT ![s] = None] /\ toTab' # toTab
    BY <1>1 DEF TypeInv
  <2>2. \A k \in Places(s) \ {0} : k \in Places(s)' /\ At(s, k)' = At(s, k)
    BY <2>1, SentMoves
  <2>3. 0 \notin Places(s)'
    BY <2>1, SentMoves
  <2>4. \A k \in Places(s)' :
            \/ k \in Places(s) /\ At(s, k)' = At(s, k)
            \/ k - n \in 1 .. Len(new) /\ At(s, k)' = new[k - n]
    BY <2>1, SentLine
  <2> QED
    BY <2>2, <2>3, <2>4
<1>6. \A k \in Places(s)' : k \in Nat \ {0}
  <2>1. toServer'[s] \in Seq(RequestType)
    BY <1>1, SentMoves DEF TypeInv
  <2> QED
    BY <1>5, <2>1, LenProperties DEF Places
<1>7. ASSUME NEW k \in Places(s)', OfEdit(s, k)'
      PROVE  \/ /\ k \in Places(s) /\ k <= n /\ At(s, k)' = At(s, k)
                /\ OfEdit(s, k) /\ At(s, k).of # m.of
             \/ /\ k = n + 1 /\ At(s, k)'.op = phase /\ At(s, k)'.of = m.of
                /\ phase \in {"edit", "commit", "rollback"} /\ m.op \in {"begin", "edit"}
                /\ phase = "edit" <=> m.op = "begin"
  <2>1. CASE k \in Places(s) /\ At(s, k)' = At(s, k)
    <3>1. k <= n
      BY <1>2, <2>1 DEF Places
    <3> QED
      BY <1>4, <1>6, <1>7, <2>1, <3>1 DEF OfEdit
  <2>2. CASE k - n \in 1 .. Len(new) /\ At(s, k)' = new[k - n]
    <3>1. new[k - n].op # "select"
      BY <1>7, <2>2 DEF OfEdit
    <3>2. /\ k - n = 1 /\ new[k - n] = [op |-> phase, of |-> m.of]
          /\ phase \in {"edit", "commit", "rollback"}
          /\ m.op \in {"begin", "edit"} /\ (phase = "edit" <=> m.op = "begin")
      BY <2>2, <3>1, GoesFirst
    <3> QED
      BY <1>2, <1>6, <2>2, <3>2
  <2> QED
    BY <1>5, <2>1, <2>2
<1> QED
  BY <1>1, <1>3, <1>4, <1>5, <1>6, <1>7 DEF Read

LEMMA ReceivedInLine ==
    ASSUME TypeInv, NEW s \in Sessions, InLine(s), NEW m, NEW ok, NEW n \in Nat,
           NEW phase \in Phases, NEW loader \in BOOLEAN, NEW new,
           Read(s, m, phase, n), Becomes(m.of, phase, loader), Goes(m, ok, phase, loader, new)
    PROVE  InLine(s)'
<1> PICK v : v = m.of
  OBVIOUS
<1>1. /\ v \in EditsOf(s) /\ v \in 1 .. Len(edits) /\ edits[v].phase = m.op
      /\ 0 \in Places(s) /\ At(s, 0) = m /\ OfEdit(s, 0)
      /\ \A k \in Places(s)' : k \in Nat \ {0}
  BY DEF Read, EditsOf
<1>2. /\ edits'[v].phase = phase /\ edits'[v].loader = loader
      /\ \A u \in EditsOf(s) : u # v => edits'[u] = edits[u]
      /\ EditsOf(s)' = EditsOf(s)
  BY <1>1, EditBecomes DEF TypeInv, EditsOf
<1>3. ASSUME NEW k \in Places(s)', OfEdit(s, k)'
      PROVE  \/ /\ k \in Places(s) /\ k <= n /\ At(s, k)' = At(s, k)
                /\ OfEdit(s, k) /\ At(s, k).of # v /\ At(s, k).of \in EditsOf(s)
                /\ edits[At(s, k).of].phase = At(s, k).op
             \/ /\ k = n + 1 /\ At(s, k)'.op = phase /\ At(s, k)'.of = v
                /\ phase \in {"edit", "commit", "rollback"} /\ m.op \in {"begin", "edit"}
                /\ phase = "edit" <=> m.op = "begin"
  BY <1>3 DEF Read, TypeInv, Known, InLine, Matched
<1>4. ASSUME NEW u \in EditsOf(s), edits[u].phase \in {"begin", "edit", "ask"},
             m.op \in {"begin", "edit"}
      PROVE  u = v
  BY <1>1, <1>4 DEF InLine, Alone
<1>5. Matched(s)'
  <2> SUFFICES ASSUME NEW k \in Places(s)', OfEdit(s, k)'
               PROVE  /\ edits'[At(s, k)'.of].phase = At(s, k)'.op
                      /\ \A j \in Places(s)' :
                             OfEdit(s, j)' /\ At(s, j)'.of = At(s, k)'.of => j = k
    BY DEF Matched
  <2>1. edits'[At(s, k)'.of].phase = At(s, k)'.op
    BY <1>2, <1>3
  <2>2. ASSUME NEW j \in Places(s)', OfEdit(s, j)', At(s, j)'.of = At(s, k)'.of
        PROVE  j = k
    BY <1>3, <2>2 DEF InLine, Matched
  <2> QED
    BY <2>1, <2>2
<1>6. InTurn(s)'
  <2> SUFFICES ASSUME NEW j \in Places(s)', NEW k \in Places(s)',
                      At(s, j)'.op \in {"begin", "edit"}, At(s, k)'.op \in {"commit", "rollback"}
               PROVE  k < j
    BY DEF InTurn, Ending
  <2>1. OfEdit(s, j)' /\ OfEdit(s, k)'
    BY DEF OfEdit
  <2>2. CASE j \in Places(s) /\ At(s, j)' = At(s, j) /\ k \in Places(s) /\ At(s, k)' = At(s, k)
    BY <2>2 DEF InLine, InTurn, Ending
  <2>3. CASE j = n + 1 /\ k <= n
    BY <1>1, <2>3
  <2>4. CASE k = n + 1
    <3>1. m.op \in {"begin", "edit"} /\ phase \in {"commit", "rollback"}
      BY <1>3, <2>1, <2>4
    <3>2. At(s, j)'.op # phase /\ At(s, j)'.of # v
      BY <1>3, <2>1, <3>1
    <3> QED
      BY <1>3, <1>4, <2>1, <3>1, <3>2
  <2> QED
    BY <1>3, <2>1, <2>2, <2>3, <2>4
<1>7. Asking(s)'
  <2> SUFFICES ASSUME NEW u \in EditsOf(s), edits'[u].phase = "ask",
                      NEW k \in Places(s)', At(s, k)'.op \in {"commit", "rollback"}
               PROVE  FALSE
    BY <1>2 DEF Asking, Ending
  <2>1. OfEdit(s, k)'
    BY DEF OfEdit
  <2>2. CASE u = v
    <3>1. phase = "ask" /\ m.op = "edit"
      BY <1>2, <2>2 DEF Goes
    <3>2. k \in Places(s) /\ Ending(s, k)
      BY <1>3, <2>1, <3>1 DEF Ending
    <3>3. k < 0
      BY <1>1, <3>1, <3>2 DEF InLine, InTurn
    <3> QED
      BY <1>1, <3>3
  <2>3. CASE u # v
    <3>1. edits[u].phase = "ask"
      BY <1>2, <2>3
    <3>2. ~ (k \in Places(s) /\ At(s, k)' = At(s, k))
      BY <3>1 DEF InLine, Asking, Ending
    <3>3. m.op \in {"begin", "edit"}
      BY <1>3, <2>1, <3>2
    <3> QED
      BY <1>4, <2>3, <3>1, <3>3
  <2> QED
    BY <2>2, <2>3
<1>8. Alone(s)'
  <2>1. phase \in {"begin", "edit", "ask"} => m.op \in {"begin", "edit"}
    BY DEF Goes
  <2>2. \A u \in EditsOf(s) : edits'[u].phase \in {"begin", "edit", "ask"}
                                  => edits[u].phase \in {"begin", "edit", "ask"}
    BY <1>1, <1>2, <2>1
  <2> QED
    BY <1>2, <2>2 DEF InLine, Alone
<1>9. Covered(s)'
  <2>1. phase \in {"begin", "edit"} => loader
    BY DEF Goes
  <2> QED
    BY <1>2, <2>1 DEF InLine, Covered
<1> QED
  BY <1>5, <1>6, <1>7, <1>8, <1>9 DEF InLine

LEMMA ReceivedHeld ==
    ASSUME TypeInv, NEW s \in Sessions, InLine(s), Held(s), NEW m, NEW ok, NEW n \in Nat,
           NEW phase \in Phases, NEW loader \in BOOLEAN, NEW new,
           Read(s, m, phase, n), Becomes(m.of, phase, loader), Goes(m, ok, phase, loader, new),
           SendsFirst(new, [op |-> phase, of |-> m.of]) =>
               n + 1 \in Places(s)' /\ At(s, n + 1)' = [op |-> phase, of |-> m.of],
           own' = own
    PROVE  Held(s)'
<1> SUFFICES ASSUME NEW r \in Records, own[s][r] # None PROVE HeldBy(s, own[s][r])'
  BY DEF Held
<1> PICK u : u = own[s][r]
  OBVIOUS
<1> PICK v : v = m.of
  OBVIOUS
<1>1. /\ v \in EditsOf(s) /\ v \in 1 .. Len(edits) /\ edits[v].phase = m.op
      /\ 0 \in Places(s) /\ At(s, 0) = m /\ OfEdit(s, 0)
      /\ \A k \in Places(s) : k \in Nat
  BY LenProperties DEF Read, EditsOf, Places, TypeInv, EditsTypeOK
<1>2. /\ edits'[v].phase = phase
      /\ \A w \in EditsOf(s) : w # v => edits'[w] = edits[w]
      /\ EditsOf(s)' = EditsOf(s)
  BY <1>1, EditBecomes DEF TypeInv, EditsOf
<1>3. HeldBy(s, u)
  BY DEF Held
<1>4. m.op # "begin"
  <2>1. \A k \in Places(s) : 0 <= k
    BY <1>1
  <2> QED
    BY <1>1, <2>1, HeldNothing
<1>5. m.op \notin {"commit", "rollback"}
  <2> SUFFICES ASSUME m.op \in {"commit", "rollback"} PROVE FALSE
    OBVIOUS
  <2>1. u = v
    BY <1>1, <1>3 DEF HeldBy, Ending
  <2>2. PICK k \in Places(s) \ {0} : OfEdit(s, k) /\ At(s, k).of = v
    BY <1>1, <1>3, <2>1 DEF HeldBy
  <2>3. k = 0
    BY <1>1, <2>2 DEF InLine, Matched
  <2> QED
    BY <2>2, <2>3
<1>6. m.op = "edit" /\ phase # "edit" /\ phase \in {"ask", "commit", "rollback"}
  BY <1>4, <1>5 DEF Goes
<1>7. \A k \in Places(s) : ~ Ending(s, k)
  <2> SUFFICES ASSUME NEW k \in Places(s), Ending(s, k) PROVE FALSE
    OBVIOUS
  <2>1. k < 0
    BY <1>1, <1>6 DEF InLine, InTurn
  <2> QED
    BY <1>1, <2>1
<1>8. u = v
  <2>1. CASE edits[u].phase \in {"edit", "ask"}
    BY <1>1, <1>3, <1>6, <2>1 DEF HeldBy, InLine, Alone
  <2>2. CASE edits[u].phase \in {"commit", "rollback"}
    <3>1. PICK k \in Places(s) : OfEdit(s, k) /\ At(s, k).of = u
      BY <1>3, <2>2 DEF HeldBy
    <3>2. Ending(s, k)
      BY <2>2, <3>1 DEF Ending, InLine, Matched
    <3> QED
      BY <1>7, <3>2
  <2> QED
    BY <1>3, <2>1, <2>2 DEF HeldBy
<1>9. \A k \in Places(s)' : Ending(s, k)' => At(s, k)'.of = u
  <2> SUFFICES ASSUME NEW k \in Places(s)', At(s, k)'.op \in {"commit", "rollback"}
               PROVE  At(s, k)'.of = v
    BY <1>8 DEF Ending
  <2>1. OfEdit(s, k)'
    BY DEF OfEdit
  <2>2. ~ (k \in Places(s) /\ At(s, k)' = At(s, k))
    BY <1>7 DEF Ending
  <2> QED
    BY <2>1, <2>2 DEF Read
<1>10. \/ edits'[u].phase = "ask"
       \/ /\ edits'[u].phase \in {"commit", "rollback"}
          /\ \E k \in Places(s)' \ {0} : OfEdit(s, k)' /\ At(s, k)'.of = u
  <2>1. CASE phase = "ask"
    BY <1>2, <1>8, <2>1
  <2>2. CASE phase \in {"commit", "rollback"}
    <3> PICK k : k = n + 1
      OBVIOUS
    <3>1. k # 0 /\ k \in Places(s)' /\ At(s, k)' = [op |-> phase, of |-> v]
      BY <1>6, <2>2 DEF Goes
    <3>2. OfEdit(s, k)' /\ At(s, k)'.of = u
      BY <1>8, <2>2, <3>1 DEF OfEdit
    <3> QED
      BY <1>2, <1>8, <2>2, <3>1, <3>2
  <2> QED
    BY <1>6, <2>1, <2>2
<1>11. HeldBy(s, u)'
  BY <1>2, <1>3, <1>8, <1>9, <1>10 DEF HeldBy
<1> QED
  BY <1>11

LEMMA ReceiveKeeps ==
    ASSUME EditsInv, NEW s \in Sessions, Receive(s)
    PROVE  EditsInv'
<1>0. TypeInv /\ InLine(s) /\ Held(s) /\ Reported /\ TypeInv' /\ own' = own /\ written' = written
  BY TypeReceive DEF EditsInv, Receive
<1> PICK n : n = Len(toServer[s])
  OBVIOUS
<1>1. n \in Nat /\ toServer[s] \in Seq(RequestType)
  BY <1>0, LenProperties DEF TypeInv, EditsTypeOK
<1>2. CASE toTab[s].of.op = "select"
  <2>1. /\ toTab[s] # None /\ toTab' = [toTab EXCEPT ![s] = None]
        /\ edits' = edits /\ toServer' = toServer
    BY <1>2 DEF Receive, BeginAnswered, StatementAnswered, EndAnswered
  <2>2. toServer' = [toServer EXCEPT ![s] = @ \o <<>>]
    BY <1>0, <1>1, <2>1, ConcatEmptySeq DEF TypeInv, EditsTypeOK
  <2>3. Places(s)' \subseteq Places(s) /\ \A k \in Places(s) \ {0} : k \in Places(s)'
    BY <1>0, <2>1 DEF Places, TypeInv, EditsTypeOK
  <2>4. /\ 0 \in Places(s) /\ At(s, 0) = toTab[s].of /\ 0 \notin Places(s)'
        /\ \A k \in Places(s)' : k \in Nat /\ At(s, k)' = At(s, k)
    BY <1>0, <1>1, <2>1 DEF Places, At, TypeInv, EditsTypeOK
  <2>5. \A k \in Places(s)' : OfEdit(s, k)' = OfEdit(s, k) /\ Ending(s, k)' = Ending(s, k)
    BY <2>4 DEF OfEdit, Ending
  <2>6. InLine(s)'
    <3>1. Matched(s)'
      BY <1>0, <2>1, <2>3, <2>4, <2>5 DEF InLine, Matched
    <3>2. InTurn(s)' /\ Asking(s)'
      BY <1>0, <2>1, <2>3, <2>4, <2>5 DEF InLine, InTurn, Asking, EditsOf
    <3>3. Alone(s)' /\ Covered(s)'
      BY <1>0, <2>1 DEF InLine, Alone, Covered, EditsOf
    <3> QED
      BY <3>1, <3>2, <3>3 DEF InLine
  <2>7. Held(s)'
    <3> SUFFICES ASSUME NEW r \in Records, own[s][r] # None PROVE HeldBy(s, own[s][r])'
      BY <1>0 DEF Held
    <3> PICK u : u = own[s][r]
      OBVIOUS
    <3>1. HeldBy(s, u)
      BY <1>0 DEF Held
    <3>2. \/ edits[u].phase = "ask"
          \/ /\ edits[u].phase \in {"commit", "rollback"}
             /\ \E k \in Places(s)' \ {0} : OfEdit(s, k)' /\ At(s, k)'.of = u
      BY <1>2, <2>3, <2>4, <2>5, <3>1 DEF HeldBy
    <3>3. HeldBy(s, u)'
      BY <1>0, <2>1, <2>3, <2>4, <2>5, <3>1, <3>2 DEF HeldBy, EditsOf
    <3> QED
      BY <1>0, <3>3
  <2>8. ASSUME NEW v \in written
        PROVE  /\ v \in 1 .. Len(edits) /\ edits[v].phase \in {"commit", "committed"}
               /\ \A k \in Places(s)' :
                      OfEdit(s, k)' /\ At(s, k)'.of = v => k = 0 /\ toTab'[s].ok
    BY <1>0, <2>3, <2>4, <2>5, <2>8 DEF Reported
  <2>9. <<>> \in Seq(RequestType)
    OBVIOUS
  <2> QED
    BY <1>0, <2>1, <2>2, <2>6, <2>7, <2>8, <2>9, SentKeeps DEF Sends, EditsOf
<1>3. CASE toTab[s].of.op # "select"
  <2> PICK m : m = toTab[s].of
    OBVIOUS
  <2> PICK v : v = m.of
    OBVIOUS
  <2> PICK ok : ok = toTab[s].ok
    OBVIOUS
  <2>1. v \in EditsOf(s) /\ v \in 1 .. Len(edits) /\ toTab' = [toTab EXCEPT ![s] = None]
    BY <1>0, <1>3, ReceivedGoes DEF EditsOf
  <2>2. PICK phase \in Phases, loader \in BOOLEAN, new \in Seq(RequestType) :
           Becomes(v, phase, loader) /\ Sends(s, new) /\ Goes(m, ok, phase, loader, new)
    BY <1>0, <1>3, ReceivedGoes
  <2>3. Read(s, m, phase, n)
    BY <1>0, <1>3, <2>2, ReceivedMoves
  <2>4. InLine(s)'
    BY <1>0, <1>1, <2>2, <2>3, ReceivedInLine
  <2>5. SendsFirst(new, [op |-> phase, of |-> v]) =>
            n + 1 \in Places(s)' /\ At(s, n + 1)' = [op |-> phase, of |-> v]
    <3>1. 1 \in 1 .. Len(new) => n + 1 \in Places(s)' /\ At(s, n + 1)' = new[1]
      BY <1>0, <2>1, <2>2, SentLine DEF TypeInv
    <3> QED
      BY <3>1 DEF SendsFirst
  <2>6. Held(s)'
    BY <1>0, <1>1, <2>2, <2>3, <2>5, ReceivedHeld
  <2>7. /\ Len(edits') = Len(edits) /\ edits'[v].phase = phase
        /\ \A u \in 1 .. Len(edits) : u # v => edits'[u] = edits[u]
        /\ \A t \in Sessions : EditsOf(t)' = EditsOf(t)
    BY <1>0, <2>1, <2>2, EditBecomes DEF TypeInv
  <2>8. \A t \in Sessions \ {s} : /\ EditsOf(t)' = EditsOf(t)
                                  /\ \A u \in EditsOf(t) : edits'[u] = edits[u]
    BY <2>1, <2>7 DEF EditsOf
  <2>9. ASSUME NEW w \in written
        PROVE  /\ w \in 1 .. Len(edits') /\ edits'[w].phase \in {"commit", "committed"}
               /\ \A k \in Places(s)' :
                      OfEdit(s, k)' /\ At(s, k)'.of = w => k = 0 /\ toTab'[s].ok
    <3>1. /\ w \in 1 .. Len(edits) /\ edits[w].phase \in {"commit", "committed"}
          /\ \A k \in Places(s) : OfEdit(s, k) /\ At(s, k).of = w => k = 0 /\ ok
      BY <1>0, <2>9 DEF Reported
    <3>2. w = v => m.op = "commit" /\ ok
      BY <3>1, <2>2, <2>3, <1>3 DEF Read, Goes
    <3>3. w = v => phase = "committed"
      BY <3>2, <2>2 DEF Goes
    <3>4. ASSUME NEW k \in Places(s)', OfEdit(s, k)', At(s, k)'.of = w PROVE FALSE
      <4>1. k # 0
        BY <2>3 DEF Read
      <4> QED
        BY <2>3, <3>1, <3>2, <3>4, <4>1 DEF Read
    <3> QED
      BY <2>7, <3>1, <3>3, <3>4
  <2> QED
    BY <1>0, <2>1, <2>2, <2>4, <2>6, <2>8, <2>9, SentKeeps
<1> QED
  BY <1>2, <1>3

\* What the user does puts at most one request of an edit, m, behind the n
\* requests that wait.
Puts(s, m, n) ==
    /\ \A k \in Places(s) : k \in Nat /\ k <= n
    /\ \A k \in Places(s)' : OfEdit(s, k)' =>
          \/ k \in Places(s) /\ At(s, k)' = At(s, k) /\ OfEdit(s, k)
          \/ k = n + 1 /\ At(s, k)' = m
    /\ \A k \in Places(s) : k \in Places(s)' /\ At(s, k)' = At(s, k)
    /\ n + 1 \in Places(s)' /\ At(s, n + 1)' = m

LEMMA UserPuts ==
    ASSUME TypeInv, NEW s \in Sessions, NEW m, NEW new \in Seq(RequestType), Sends(s, new),
           SendsFirst(new, m), toTab' = toTab, NEW n, n = Len(toServer[s])
    PROVE  n \in Nat /\ Puts(s, m, n)
<1>1. EditsTypeOK /\ n \in Nat /\ toServer[s] \in Seq(RequestType)
  BY LenProperties DEF TypeInv, EditsTypeOK
<1>2. \A k \in Places(s) : k \in Nat /\ k <= n
  BY <1>1 DEF Places
<1>3. \A k \in Places(s)' :
         \/ k \in Places(s) /\ At(s, k)' = At(s, k)
         \/ k - n \in 1 .. Len(new) /\ At(s, k)' = new[k - n]
  BY <1>1, SentLine
<1>4. 1 \in 1 .. Len(new) => n + 1 \in Places(s)' /\ At(s, n + 1)' = new[1]
  BY <1>1, SentLine
<1>5. \A k \in Places(s) : k \in Places(s)' /\ At(s, k)' = At(s, k)
  BY <1>1, SentMoves
<1>6. \A k \in Places(s)' : k \in Nat
  <2>1. toServer'[s] \in Seq(RequestType)
    BY <1>1, SentMoves
  <2> QED
    BY <2>1, LenProperties DEF Places
<1>7. ASSUME NEW k \in Places(s)', OfEdit(s, k)'
      PROVE  \/ k \in Places(s) /\ At(s, k)' = At(s, k) /\ OfEdit(s, k)
             \/ k = n + 1 /\ At(s, k)' = m
  <2>1. CASE k \in Places(s) /\ At(s, k)' = At(s, k)
    BY <1>7, <2>1 DEF OfEdit
  <2>2. CASE k - n \in 1 .. Len(new) /\ At(s, k)' = new[k - n]
    <3>1. k - n = 1 /\ new[k - n] = m
      BY <1>7, <2>2, FirstOnly DEF OfEdit
    <3> QED
      BY <1>1, <1>6, <2>2, <3>1
  <2> QED
    BY <1>3, <2>1, <2>2
<1> QED
  BY <1>1, <1>2, <1>4, <1>5, <1>7 DEF Puts, SendsFirst

\* With one grid in a window, a new edit is the only one of its session that
\* has not come to its end.
LEMMA EditKeeps ==
    ASSUME EditsInv, \A g, h \in Grids : SessionOf[g] = SessionOf[h] => g = h,
           NEW g \in Grids, NEW kind \in Kinds, NEW r \in Records, NEW asks \in BOOLEAN,
           Edit(g, kind, r, asks)
    PROVE  EditsInv'
<1> PICK s : s = SessionOf[g]
  OBVIOUS
<1> PICK v : v = Len(edits) + 1
  OBVIOUS
<1> PICK n : n = Len(toServer[s])
  OBVIOUS
<1> PICK m : m = [op |-> "begin", of |-> v]
  OBVIOUS
<1> PICK new : new = <<m>>
  OBVIOUS
<1>0. TypeInv /\ s \in Sessions /\ InLine(s) /\ Held(s) /\ Reported /\ TypeInv'
  BY TypeEdit, EditsAssumption DEF EditsInv
<1>1. /\ v \notin 1 .. Len(edits) /\ Len(edits') = v /\ v \in Versions
      /\ \A u \in 1 .. Len(edits) : edits'[u] = edits[u]
      /\ edits'[v].phase = "begin" /\ edits'[v].loader
      /\ \A t \in Sessions : EditsOf(t)' = EditsOf(t) \cup (IF t = s THEN {v} ELSE {})
      /\ SendsFirst(new, m) /\ Sends(s, new)
      /\ UNCHANGED <<toTab, own, written>>
  BY <1>0, EditAppends
<1>2. new \in Seq(RequestType)
  BY <1>1 DEF SendsFirst
<1>3. n \in Nat /\ Puts(s, m, n)
  BY <1>0, <1>1, <1>2, UserPuts
<1>4. \A u \in EditsOf(s) : u # v /\ edits'[u] = edits[u]
  BY <1>1 DEF EditsOf
<1>5. ASSUME NEW u \in EditsOf(s) PROVE edits[u].phase \notin {"begin", "edit", "ask"}
  <2>1. edits[u].grid \in Grids /\ SessionOf[edits[u].grid] = s
    <3>1. u \in 1 .. Len(edits) /\ SessionOf[edits[u].grid] = s
      BY <1>5 DEF EditsOf
    <3>2. edits[u] \in EditType
      BY <1>0, <3>1, ElementOfSeq DEF TypeInv, EditsTypeOK
    <3> QED
      BY <3>1, <3>2 DEF EditType
  <2>2. edits[u].grid = g
    BY <2>1
  <2>3. edits[u].phase # "ask" /\ ~ edits[u].loader
    BY <2>2 DEF Edit
  <2> QED
    BY <1>0, <2>3 DEF InLine, Covered
<1>6. EditsOf(s)' = EditsOf(s) \cup {v}
  BY <1>0, <1>1
<1>7. \A k \in Places(s) : OfEdit(s, k) => /\ At(s, k).of \in EditsOf(s)
                                           /\ edits[At(s, k).of].phase = At(s, k).op
  BY <1>0 DEF TypeInv, Known, InLine, Matched
<1>8. Matched(s)'
  <2> SUFFICES ASSUME NEW k \in Places(s)', OfEdit(s, k)'
               PROVE  /\ edits'[At(s, k)'.of].phase = At(s, k)'.op
                      /\ \A j \in Places(s)' :
                             OfEdit(s, j)' /\ At(s, j)'.of = At(s, k)'.of => j = k
    BY DEF Matched
  <2>1. edits'[At(s, k)'.of].phase = At(s, k)'.op
    BY <1>1, <1>3, <1>4, <1>7 DEF Puts
  <2>2. ASSUME NEW j \in Places(s)', OfEdit(s, j)', At(s, j)'.of = At(s, k)'.of PROVE j = k
    BY <1>0, <1>3, <1>4, <1>7, <2>2 DEF Puts, InLine, Matched
  <2> QED
    BY <2>1, <2>2
<1>9. ASSUME NEW k \in Places(s)', Ending(s, k)'
      PROVE  k \in Places(s) /\ Ending(s, k) /\ At(s, k)' = At(s, k)
  BY <1>3, <1>9 DEF Puts, Ending, OfEdit
<1>10. InTurn(s)'
  <2> SUFFICES ASSUME NEW j \in Places(s)', NEW k \in Places(s)',
                      At(s, j)'.op \in {"begin", "edit"}, Ending(s, k)'
               PROVE  k < j
    BY DEF InTurn
  <2>1. CASE j \in Places(s) /\ At(s, j)' = At(s, j)
    BY <1>0, <1>9, <2>1 DEF InLine, InTurn
  <2>2. CASE j = n + 1
    BY <1>3, <1>9, <2>2 DEF Puts
  <2> QED
    BY <1>3, <2>1, <2>2 DEF Puts, OfEdit
<1>11. Asking(s)' /\ Alone(s)' /\ Covered(s)'
  BY <1>1, <1>4, <1>5, <1>6 DEF Asking, Alone, Covered
<1>12. Held(s)'
  <2> SUFFICES ASSUME NEW q \in Records, own[s][q] # None PROVE HeldBy(s, own[s][q])'
    BY <1>1 DEF Held
  <2> PICK u : u = own[s][q]
    OBVIOUS
  <2>1. HeldBy(s, u)
    BY <1>0 DEF Held
  <2>2. /\ u \in EditsOf(s)' /\ edits'[u] = edits[u] /\ own' = own
        /\ \A k \in Places(s)' : Ending(s, k)' => At(s, k)'.of = u
    BY <1>1, <1>4, <1>6, <1>9, <2>1 DEF HeldBy
  <2>3. \A k \in Places(s) :
           k \in Places(s)' /\ At(s, k)' = At(s, k) /\ OfEdit(s, k)' = OfEdit(s, k)
    BY <1>3 DEF Puts, OfEdit
  <2>4. HeldBy(s, u)'
    BY <2>1, <2>2, <2>3 DEF HeldBy
  <2> QED
    BY <1>1, <2>4
<1>13. ASSUME NEW w \in written
       PROVE  /\ w \in 1 .. Len(edits') /\ edits'[w].phase \in {"commit", "committed"}
              /\ \A k \in Places(s)' :
                     OfEdit(s, k)' /\ At(s, k)'.of = w => k = 0 /\ toTab'[s].ok
  <2>1. /\ w \in 1 .. Len(edits) /\ edits[w].phase \in {"commit", "committed"}
        /\ \A k \in Places(s) : OfEdit(s, k) /\ At(s, k).of = w => k = 0 /\ toTab[s].ok
    BY <1>0, <1>13 DEF Reported
  <2>2. w # v /\ w \in 1 .. Len(edits')
    BY <1>0, <1>1, <2>1, LenProperties DEF TypeInv, EditsTypeOK
  <2> QED
    BY <1>1, <1>3, <2>1, <2>2 DEF Puts
<1>14. \A t \in Sessions \ {s} : /\ EditsOf(t)' = EditsOf(t)
                                 /\ \A u \in EditsOf(t) : edits'[u] = edits[u]
  BY <1>1 DEF EditsOf
<1>15. InLine(s)'
  BY <1>8, <1>10, <1>11 DEF InLine
<1> QED
  BY <1>0, <1>1, <1>2, <1>12, <1>13, <1>14, <1>15, SentKeeps

LEMMA DecideKeeps ==
    ASSUME EditsInv, NEW v \in 1 .. Len(edits), Decide(v)
    PROVE  EditsInv'
<1> PICK s : s = SessionOf[edits[v].grid]
  OBVIOUS
<1> PICK n : n = Len(toServer[s])
  OBVIOUS
<1>0. /\ v \in EditsOf(s) /\ s \in Sessions /\ edits[v].phase = "ask"
      /\ UNCHANGED <<toTab, own, written>>
      /\ TypeInv /\ InLine(s) /\ Held(s) /\ Reported /\ TypeInv'
  BY DecideSends, TypeDecide DEF EditsInv
<1>1. PICK phase \in {"commit", "rollback"}, new \in Seq(RequestType) :
         Becomes(v, phase, TRUE) /\ Sends(s, new) /\ SendsFirst(new, [op |-> phase, of |-> v])
  BY <1>0, DecideSends
<1> PICK m : m = [op |-> phase, of |-> v]
  OBVIOUS
<1>2. n \in Nat /\ Puts(s, m, n)
  BY <1>0, <1>1, UserPuts
<1>3. phase \in Phases
  BY DEF Phases
<1>4. /\ Len(edits') = Len(edits) /\ edits'[v].phase = phase
      /\ \A u \in 1 .. Len(edits) : u # v => edits'[u] = edits[u]
      /\ \A t \in Sessions : EditsOf(t)' = EditsOf(t)
  BY <1>0, <1>1, <1>3, EditBecomes DEF TypeInv
<1>5. \A u \in EditsOf(s) : u # v => /\ edits'[u] = edits[u]
                                     /\ edits[u].phase \notin {"begin", "edit", "ask"}
  BY <1>0, <1>4 DEF EditsOf, InLine, Alone
<1>6. \A k \in Places(s) : /\ ~ Ending(s, k)
                           /\ OfEdit(s, k) => /\ At(s, k).of \in EditsOf(s)
                                              /\ edits[At(s, k).of].phase = At(s, k).op
  BY <1>0 DEF InLine, Asking, TypeInv, Known, Matched
<1>7. \A k \in Places(s) : ~ OfEdit(s, k)
  <2> SUFFICES ASSUME NEW k \in Places(s), OfEdit(s, k) PROVE FALSE
    OBVIOUS
  <2> PICK u : u = At(s, k).of
    OBVIOUS
  <2>1. At(s, k).op \in {"begin", "edit", "commit", "rollback"}
    <3>1. At(s, k) \in RequestType
      BY <1>0, ElementOfSeq DEF Places, At, TypeInv, EditsTypeOK, AnswerType
    <3> QED
      BY <3>1 DEF OfEdit, RequestType
  <2>2. At(s, k).op \in {"begin", "edit"} /\ u \in EditsOf(s) /\ edits[u].phase = At(s, k).op
    BY <1>6, <2>1 DEF Ending
  <2> QED
    BY <1>0, <1>5, <2>2
<1>8. \A k \in Places(s)' : OfEdit(s, k)' => k = n + 1 /\ At(s, k)' = m
  BY <1>2, <1>7 DEF Puts
<1>9. Matched(s)'
  BY <1>4, <1>8 DEF Matched
<1>10. InTurn(s)'
  BY <1>8 DEF InTurn, Ending, OfEdit
<1>11. Asking(s)' /\ Alone(s)' /\ Covered(s)'
  <2>1. \A u \in EditsOf(s) : edits'[u].phase \notin {"begin", "edit", "ask"}
    BY <1>4, <1>5
  <2> QED
    BY <1>0, <1>4, <2>1 DEF Asking, Alone, Covered
<1>12. Held(s)'
  <2> SUFFICES ASSUME NEW r \in Records, own[s][r] # None PROVE HeldBy(s, own[s][r])'
    BY <1>0 DEF Held
  <2> PICK u : u = own[s][r]
    OBVIOUS
  <2>1. HeldBy(s, u)
    BY <1>0 DEF Held
  <2>2. u = v
    <3>1. CASE edits[u].phase \in {"edit", "ask"}
      BY <1>5, <2>1, <3>1 DEF HeldBy
    <3>2. CASE \E k \in Places(s) : OfEdit(s, k)
      BY <1>7, <3>2
    <3> QED
      BY <2>1, <3>1, <3>2 DEF HeldBy
  <2> PICK k : k = n + 1
    OBVIOUS
  <2>3. k \in Places(s)' /\ k # 0 /\ At(s, k)' = m
    BY <1>2 DEF Puts
  <2>4. OfEdit(s, k)' /\ At(s, k)'.of = u
    BY <2>2, <2>3 DEF OfEdit
  <2>5. \A j \in Places(s)' : Ending(s, j)' => At(s, j)'.of = u
    BY <1>8, <2>2 DEF Ending, OfEdit
  <2>6. \A q \in Records : own'[s][q] \in {None, u}
    BY <1>0, <2>1 DEF HeldBy
  <2>7. u \in EditsOf(s)' /\ edits'[u].phase \in {"commit", "rollback"}
    BY <1>0, <1>4, <2>2
  <2>8. HeldBy(s, u)'
    BY <2>3, <2>4, <2>5, <2>6, <2>7 DEF HeldBy
  <2> QED
    BY <1>0, <2>8
<1>13. ASSUME NEW w \in written
       PROVE  /\ w \in 1 .. Len(edits') /\ edits'[w].phase \in {"commit", "committed"}
              /\ \A k \in Places(s)' :
                     OfEdit(s, k)' /\ At(s, k)'.of = w => k = 0 /\ toTab'[s].ok
  <2>1. w \in 1 .. Len(edits) /\ edits[w].phase \in {"commit", "committed"} /\ w # v
    BY <1>0, <1>13 DEF Reported
  <2> QED
    BY <1>4, <1>8, <2>1
<1>14. \A t \in Sessions \ {s} : /\ EditsOf(t)' = EditsOf(t)
                                 /\ \A u \in EditsOf(t) : edits'[u] = edits[u]
  BY <1>0, <1>4 DEF EditsOf
<1>15. InLine(s)'
  BY <1>9, <1>10, <1>11 DEF InLine
<1> QED
  BY <1>0, <1>1, <1>12, <1>13, <1>14, <1>15, SentKeeps

LEMMA LostKeeps ==
    ASSUME EditsInv, NEW s \in Sessions, SessionLost(s)
    PROVE  EditsInv'
<1>1. /\ TypeInv /\ TypeInv' /\ Places(s)' = {} /\ OthersStay(s)
      /\ own' = [own EXCEPT ![s] = Nothing]
      /\ UNCHANGED <<edits, written>>
      /\ \A t \in Sessions : InLine(t) /\ Held(t) /\ EditsOf(t)' = EditsOf(t)
  BY TypeLost, LostEmpties DEF EditsInv, EditsOf
<1>2. own'[s] = Nothing /\ \A t \in Sessions \ {s} : own'[t] = own[t]
  BY <1>1 DEF TypeInv, EditsTypeOK
<1>3. \A t \in Sessions \ {s} : InLine(t)' /\ Held(t)'
  BY <1>1, <1>2, ElsewhereStays
<1>4. InLine(s)'
  BY <1>1 DEF InLine, Matched, InTurn, Asking, Alone, Covered
<1>5. Held(s)'
  BY <1>2 DEF Held, Nothing
<1>6. Reported'
  BY <1>1 DEF EditsInv, Reported, OthersStay, OfEdit
<1> QED
  BY <1>1, <1>3, <1>4, <1>5, <1>6 DEF EditsInv

-----------------------------------------------------------------------------
(* With one grid in a window.                                              *)

GridsAlone == \A g, h \in Grids : SessionOf[g] = SessionOf[h] => g = h

LEMMA InvInit == EditsInit => EditsInv
<1> SUFFICES ASSUME EditsInit PROVE EditsInv
  OBVIOUS
<1>1. \A s \in Sessions : Places(s) = {} /\ EditsOf(s) = {} /\ own[s] = Nothing
  BY EmptySeq DEF EditsInit, Places, EditsOf
<1>2. \A s \in Sessions : InLine(s) /\ Held(s)
  BY <1>1 DEF InLine, Matched, InTurn, Asking, Alone, Covered, Held, Nothing
<1>3. Reported
  BY DEF EditsInit, Reported
<1> QED
  BY <1>2, <1>3, TypeInit DEF EditsInv

LEMMA InvNext == GridsAlone /\ EditsInv /\ [EditsNext]_evars => EditsInv'
<1> SUFFICES ASSUME GridsAlone, EditsInv, [EditsNext]_evars PROVE EditsInv'
  OBVIOUS
<1>1. ASSUME NEW g \in Grids, NEW kind \in Kinds, NEW r \in Records, NEW asks \in BOOLEAN,
             Edit(g, kind, r, asks)
      PROVE  EditsInv'
  BY <1>1, EditKeeps DEF GridsAlone
<1>2. ASSUME NEW v \in 1 .. Len(edits), Decide(v) PROVE EditsInv'
  BY <1>2, DecideKeeps
<1>3. ASSUME NEW s \in Sessions, Receive(s) \/ Serve(s) \/ SessionLost(s) PROVE EditsInv'
  BY <1>3, ReceiveKeeps, ServeKeeps, LostKeeps
<1>4. CASE UNCHANGED evars
  BY <1>4, TypeNext, NothingMoves DEF evars, EditsInv
<1> QED
  BY <1>1, <1>2, <1>3, <1>4 DEF EditsNext

\* In windows of one grid, what the user refused in the dialog, and what was
\* reported as failed, is never in the database, whatever fails and whichever
\* sessions are lost (the callbacks of insertRecords, updateRecords and
\* deleteSelection).
THEOREM WhatIsRefusedStaysOut == GridsAlone => (EditsSpec => []RefusedStaysOut)
<1> SUFFICES ASSUME GridsAlone PROVE EditsSpec => []RefusedStaysOut
  OBVIOUS
<1>1. EditsInv => RefusedStaysOut
  BY DEF EditsInv, Reported, RefusedStaysOut, Refused
<1>2. EditsInv /\ [EditsNext]_evars => EditsInv'
  BY InvNext
<1> QED
  BY <1>1, <1>2, InvInit, PTL DEF EditsSpec

\* In windows of one grid, what a connection holds uncommitted is of one edit,
\* which still comes to its COMMIT or ROLLBACK (requestCommit, requestRollback).
THEOREM LocksAreOwned == GridsAlone => (EditsSpec => []LocksHaveAnOwner)
<1> SUFFICES ASSUME GridsAlone PROVE EditsSpec => []LocksHaveAnOwner
  OBVIOUS
<1>1. EditsInv => LocksHaveAnOwner
  BY DEF EditsInv, Held, HeldBy, LocksHaveAnOwner
<1>2. EditsInv /\ [EditsNext]_evars => EditsInv'
  BY InvNext
<1> QED
  BY <1>1, <1>2, InvInit, PTL DEF EditsSpec

-----------------------------------------------------------------------------
(***************************************************************************)
(* In windows of one grid, an edit that is reported as committed was       *)
(* committed.  On the line of requests above, an edit is sure to be        *)
(* committed from the answer to its statement on: what it changed is       *)
(* held by a transaction that is open until its own COMMIT is served, or   *)
(* another edit has deleted the record before it.                          *)
(***************************************************************************)

\* One COMMIT or ROLLBACK at a time.
OneEnd(s) == \A j, k \in Places(s) : Ending(s, j) /\ Ending(s, k) => j = k

\* An uncommitted and a committed version of a record is of an edit of it.
Origins ==
    /\ \A s \in Sessions, r \in Records :
           own[s][r] # None => own[s][r] \in 1 .. Len(edits) /\ edits[own[s][r]].rec = r
    /\ \A r \in Records :
           rows[r] \notin {None, 0} =>
               rows[r] \in written /\ rows[r] \in 1 .. Len(edits) /\ edits[rows[r]].rec = r

\* A record that was compared was there; its row can only be deleted since.
WasThere ==
    \A s \in Sessions : checked[s] =>
        LET e == edits[Head(toServer[s]).of] IN e.kind # "insert" => rows[e.rec] # None

Deleted(v) == \E u \in written : edits[u].kind = "delete" /\ edits[u].rec = edits[v].rec

\* The statement of v was answered as done; its COMMIT was.
Sure(s, v) ==
    \/ edits[v].phase = "ask"
    \/ 0 \in Places(s) /\ At(s, 0).op = "edit" /\ At(s, 0).of = v /\ toTab[s].ok
    \/ \E k \in Places(s) \ {0} : At(s, k).op = "commit" /\ At(s, k).of = v
Told(s, v) ==
    \/ edits[v].phase = "committed"
    \/ 0 \in Places(s) /\ At(s, 0).op = "commit" /\ At(s, 0).of = v /\ toTab[s].ok

Kept(s) ==
    lost[s] = 0 => \A v \in EditsOf(s) :
        /\ Sure(s, v) => tx[s] = "open" /\ (own[s][edits[v].rec] = v \/ Deleted(v))
        /\ Told(s, v) => v \in written \/ Deleted(v)

CommittedInv ==
    /\ EditsInv /\ Origins /\ WasThere
    /\ \A s \in Sessions : OneEnd(s) /\ Kept(s)

SameEdits ==
    \A u \in 1 .. Len(edits) : /\ u \in 1 .. Len(edits')
                               /\ edits'[u].kind = edits[u].kind
                               /\ edits'[u].rec = edits[u].rec

-----------------------------------------------------------------------------
(* What stays.                                                             *)

LEMMA DeletedStays ==
    ASSUME SameEdits, written \subseteq written', written \subseteq 1 .. Len(edits),
           NEW v \in 1 .. Len(edits), Deleted(v)
    PROVE  Deleted(v)'
<1>1. PICK u \in written : edits[u].kind = "delete" /\ edits[u].rec = edits[v].rec
  BY DEF Deleted
<1>2. u \in written' /\ edits'[u].kind = "delete" /\ edits'[u].rec = edits'[v].rec
  BY <1>1 DEF SameEdits
<1> QED
  BY <1>2 DEF Deleted

LEMMA KeptElsewhere ==
    ASSUME TypeInv, NEW s \in Sessions, NEW t \in Sessions \ {s}, OthersStay(s),
           OneEnd(t), Kept(t), EditsOf(t)' = EditsOf(t),
           \A u \in EditsOf(t) : edits'[u] = edits[u],
           own'[t] = own[t], tx'[t] = tx[t], lost'[t] = lost[t],
           SameEdits, written \subseteq written', written \subseteq 1 .. Len(edits)
    PROVE  OneEnd(t)' /\ Kept(t)'
<1>1. /\ Places(t)' = Places(t) /\ toTab'[t] = toTab[t]
      /\ \A k \in Places(t) : At(t, k)' = At(t, k)
  BY DEF OthersStay
<1>2. OneEnd(t)'
  BY <1>1 DEF OneEnd, Ending
<1>3. ASSUME lost'[t] = 0, NEW v \in EditsOf(t)'
      PROVE  /\ Sure(t, v)' => tx'[t] = "open" /\ (own'[t][edits'[v].rec] = v \/ Deleted(v)')
             /\ Told(t, v)' => v \in written' \/ Deleted(v)'
  <2>1. v \in EditsOf(t) /\ v \in 1 .. Len(edits) /\ edits'[v] = edits[v]
    BY <1>3 DEF EditsOf
  <2>2. Sure(t, v)' => Sure(t, v)
    BY <1>1, <2>1 DEF Sure
  <2>3. Told(t, v)' => Told(t, v)
    BY <1>1, <2>1 DEF Told
  <2>4. Deleted(v) => Deleted(v)'
    BY <2>1, DeletedStays
  <2> QED
    BY <1>3, <2>1, <2>2, <2>3, <2>4 DEF Kept
<1> QED
  BY <1>2, <1>3 DEF Kept

\* While the line begins with a begin or a change, nothing in it is sure.
LEMMA NothingSure ==
    ASSUME TypeInv, NEW s \in Sessions, InLine(s), 1 \in Places(s), At(s, 1).op = "edit",
           0 \notin Places(s), NEW v \in EditsOf(s), Sure(s, v)
    PROVE  FALSE
<1>1. \A k \in Places(s) : k \in Nat
  BY LenProperties DEF Places, TypeInv, EditsTypeOK
<1>2. OfEdit(s, 1) /\ At(s, 1).of \in EditsOf(s) /\ edits[At(s, 1).of].phase = "edit"
  BY DEF OfEdit, TypeInv, Known, InLine, Matched
<1>3. CASE edits[v].phase = "ask"
  BY <1>2, <1>3 DEF InLine, Alone
<1>4. ASSUME NEW k \in Places(s), At(s, k).op = "commit" PROVE FALSE
  <2>1. k < 1
    BY <1>4 DEF InLine, InTurn, Ending
  <2> QED
    BY <1>1, <1>4, <2>1
<1> QED
  BY <1>3, <1>4 DEF Sure

-----------------------------------------------------------------------------
(* The server.                                                             *)

\* Serving a request makes an edit sure or told only with its answer.
LEMMA ServedSure ==
    ASSUME TypeInv, NEW s \in Sessions, NEW op, NEW ok \in BOOLEAN,
           Serves(s, op), Answer(s, ok), Done(s), edits' = edits, NEW v
    PROVE  /\ Sure(s, v)' => \/ edits[v].phase = "ask"
                             \/ op = "edit" /\ ok /\ v = Head(toServer[s]).of
                             \/ \E k \in Places(s) \ {0, 1} :
                                    At(s, k).op = "commit" /\ At(s, k).of = v
           /\ Told(s, v)' => \/ edits[v].phase = "committed"
                             \/ op = "commit" /\ ok /\ v = Head(toServer[s]).of
           /\ OneEnd(s) => OneEnd(s)'
<1> PICK n : n = Len(toServer[s])
  OBVIOUS
<1>1. /\ n \in Nat /\ toTab'[s].ok = ok
      /\ 1 \in Places(s) /\ At(s, 1) = Head(toServer[s]) /\ At(s, 1).op = op
      /\ Places(s)' = 0 .. n - 1
      /\ \A k \in Places(s)' : k + 1 \in Places(s) /\ At(s, k)' = At(s, k + 1)
  BY ServedMoves, LenProperties DEF Serves, TypeInv, EditsTypeOK
<1>2. 0 \in Places(s)' => At(s, 0)' = At(s, 1)
  BY <1>1
<1>3. ASSUME NEW k \in Places(s)' \ {0}, At(s, k)'.op = "commit", At(s, k)'.of = v
      PROVE  \E j \in Places(s) \ {0, 1} : At(s, j).op = "commit" /\ At(s, j).of = v
  <2>1. k + 1 \in Places(s) \ {0, 1} /\ At(s, k + 1) = At(s, k)'
    BY <1>1, <1>3
  <2> QED
    BY <1>3, <2>1
<1>4. OneEnd(s) => OneEnd(s)'
  <2> SUFFICES ASSUME OneEnd(s), NEW j \in Places(s)', NEW k \in Places(s)',
                      Ending(s, j)', Ending(s, k)'
               PROVE  j = k
    BY DEF OneEnd
  <2>1. j + 1 = k + 1
    BY <1>1 DEF OneEnd, Ending
  <2> QED
    BY <1>1, <2>1
<1>5. Sure(s, v)' => \/ edits[v].phase = "ask"
                     \/ op = "edit" /\ ok /\ v = Head(toServer[s]).of
                     \/ \E k \in Places(s) \ {0, 1} :
                            At(s, k).op = "commit" /\ At(s, k).of = v
  BY <1>1, <1>2, <1>3 DEF Sure
<1>6. Told(s, v)' => \/ edits[v].phase = "committed"
                     \/ op = "commit" /\ ok /\ v = Head(toServer[s]).of
  BY <1>1, <1>2 DEF Told
<1> QED
  BY <1>4, <1>5, <1>6

LEMMA HeadOfEdit ==
    ASSUME EditsInv, NEW s \in Sessions, NEW op \in {"edit", "commit", "rollback"}, Serves(s, op),
           NEW ok \in BOOLEAN, Answer(s, ok), Done(s)
    PROVE  /\ 1 \in Places(s) /\ 0 \notin Places(s) /\ At(s, 1) = Head(toServer[s])
           /\ At(s, 1).op = op /\ At(s, 1).of \in EditsOf(s) /\ At(s, 1).of \in 1 .. Len(edits)
           /\ op = "edit" => \A r \in Records : own[s][r] = None
<1>1. /\ TypeInv /\ InLine(s) /\ Held(s)
      /\ 1 \in Places(s) /\ 0 \notin Places(s) /\ At(s, 1) = Head(toServer[s]) /\ At(s, 1).op = op
  BY ServedMoves DEF EditsInv, TypeInv, Serves
<1>2. At(s, 1).of \in EditsOf(s) /\ At(s, 1).of \in 1 .. Len(edits)
  BY <1>1 DEF OfEdit, TypeInv, Known, EditsOf
<1>3. \A k \in Places(s) : 1 <= k
  BY <1>1, LenProperties DEF Places, TypeInv, EditsTypeOK
<1> QED
  BY <1>1, <1>2, <1>3, HeldNothing

\* An answer that commits nothing makes nothing sure.
LEMMA AnsweredKept ==
    ASSUME CommittedInv, NEW s \in Sessions, NEW op, NEW ok \in BOOLEAN,
           Serves(s, op), Answer(s, ok), Done(s), ~ ok \/ op \in {"begin", "select"},
           UNCHANGED <<edits, own, written, lost>>, tx[s] = "open" => tx'[s] = "open"
    PROVE  Kept(s)'
<1> SUFFICES ASSUME lost[s] = 0, NEW v \in EditsOf(s)
             PROVE  /\ Sure(s, v)' => tx'[s] = "open" /\ (own[s][edits[v].rec] = v \/ Deleted(v))
                    /\ Told(s, v)' => v \in written \/ Deleted(v)
  BY DEF Kept, EditsOf, Deleted
<1>1. /\ Sure(s, v) => tx[s] = "open" /\ (own[s][edits[v].rec] = v \/ Deleted(v))
      /\ Told(s, v) => v \in written \/ Deleted(v)
  BY DEF CommittedInv, Kept
<1>2. TypeInv
  BY DEF CommittedInv, EditsInv
<1>3. Sure(s, v)' => Sure(s, v)
  BY <1>2, ServedSure DEF Sure
<1>4. Told(s, v)' => Told(s, v)
  BY <1>2, ServedSure DEF Told
<1> QED
  BY <1>1, <1>3, <1>4

\* A statement that is answered as done has changed the record, or found it
\* deleted.
LEMMA StatementKept ==
    ASSUME CommittedInv, NEW s \in Sessions, ServeStatement(s)
    PROVE  Kept(s)' /\ Origins'
<1> PICK v : v = Head(toServer[s]).of
  OBVIOUS
<1> PICK rec : rec = edits[v].rec
  OBVIOUS
<1>0. PICK ok \in BOOLEAN : /\ Serves(s, "edit") /\ Answer(s, ok) /\ Done(s)
                            /\ UNCHANGED <<edits, written, lost, rows>> /\ checked[s]
  BY DEF ServeStatement
<1>1. TypeInv /\ InLine(s) /\ Origins /\ EditsInv /\ WasThere
  BY DEF CommittedInv, EditsInv
<1>2. /\ 1 \in Places(s) /\ 0 \notin Places(s) /\ At(s, 1).op = "edit"
      /\ v \in EditsOf(s) /\ v \in 1 .. Len(edits)
      /\ \A r \in Records : own[s][r] = None
  BY <1>0, <1>1, HeadOfEdit
<1>3. rec \in Records /\ tx[s] = "open"
  <2>1. edits[v] \in EditType
    BY <1>1, <1>2, ElementOfSeq DEF TypeInv, EditsTypeOK
  <2> QED
    BY <1>0, <1>1, <2>1 DEF EditType, TypeInv, EditsTypeOK
<1>4. toTab'[s].ok = ok
  BY <1>0, <1>1, ServedMoves DEF TypeInv
<1>5. ok => /\ tx'[s] = "open"
            /\ \/ own' = [own EXCEPT ![s][rec] = v]
               \/ own' = own /\ edits[v].kind # "insert" /\ Gone(Visible(s, rec))
  <2> SUFFICES ASSUME ok
               PROVE  /\ tx' = tx
                      /\ \/ own' = [own EXCEPT ![s][rec] = v]
                         \/ own' = own /\ edits[v].kind # "insert" /\ Gone(Visible(s, rec))
    BY <1>3
  <2>1. ~ Answer(s, FALSE)
    BY <1>0, <1>1, <1>4, ServedMoves DEF TypeInv
  <2> QED
    BY <2>1 DEF ServeStatement
<1>6. own' = own \/ own' = [own EXCEPT ![s][rec] = v]
  BY DEF ServeStatement
<1>7. Origins'
  <2>1. \A t \in Sessions, r \in Records :
           own'[t][r] # own[t][r] => r = rec /\ own'[t][r] = v
    <3>1. CASE own' = own
      BY <3>1
    <3>2. CASE own' = [own EXCEPT ![s][rec] = v]
      <4>1. own \in [Sessions -> [Records -> Versions \cup {None}]]
        BY <1>1 DEF TypeInv, EditsTypeOK
      <4>2. \A t \in Sessions, r \in Records :
               own'[t][r] = IF t = s /\ r = rec THEN v ELSE own[t][r]
        BY <3>2, <4>1
      <4> QED
        BY <4>2
    <3> QED
      BY <1>6, <3>1, <3>2
  <2> QED
    BY <1>0, <1>1, <1>2, <2>1 DEF Origins
<1>8. own' = own /\ edits[v].kind # "insert" /\ Gone(Visible(s, rec)) => Deleted(v)
  <2> SUFFICES ASSUME edits[v].kind # "insert", Gone(Visible(s, rec)) PROVE Deleted(v)
    OBVIOUS
  <2>1. Visible(s, rec) = rows[rec]
    BY <1>2, <1>3 DEF Visible
  <2>2. rows[rec] # None
    BY <1>0, <1>1 DEF WasThere
  <2>3. rows[rec] # 0 /\ edits[rows[rec]].kind = "delete"
    BY <2>1, <2>2 DEF Gone
  <2>4. rows[rec] \in written /\ edits[rows[rec]].rec = rec
    BY <1>1, <1>3, <2>2, <2>3 DEF Origins
  <2> QED
    BY <2>3, <2>4 DEF Deleted
<1>9. ASSUME NEW w \in EditsOf(s), Sure(s, w)'
      PROVE  w = v /\ ok
  <2>1. ~ Sure(s, w)
    BY <1>1, <1>2, NothingSure
  <2> QED
    BY <1>0, <1>1, <1>9, <2>1, ServedSure DEF Sure
<1>10. ok => tx'[s] = "open" /\ (own'[s][rec] = v \/ Deleted(v))
  BY <1>1, <1>3, <1>5, <1>8 DEF TypeInv, EditsTypeOK
<1>11. ASSUME lost[s] = 0, NEW w \in EditsOf(s), Told(s, w)' PROVE w \in written \/ Deleted(w)
  <2>1. Told(s, w)
    BY <1>0, <1>1, <1>11, ServedSure DEF Told
  <2> QED
    BY <1>11, <2>1 DEF CommittedInv, Kept
<1>12. Kept(s)'
  BY <1>0, <1>9, <1>10, <1>11 DEF Kept, EditsOf, Deleted
<1> QED
  BY <1>7, <1>12

LEMMA OriginsStay ==
    ASSUME TypeInv, NEW s \in Sessions, Origins, SameEdits, UNCHANGED <<rows, written>>,
           own' = own \/ own' = [own EXCEPT ![s] = Nothing]
    PROVE  Origins'
<1>1. \A t \in Sessions, r \in Records : own'[t][r] \in {None, own[t][r]}
  <2>1. CASE own' = own
    BY <2>1
  <2>2. CASE own' = [own EXCEPT ![s] = Nothing]
    BY <2>2 DEF Nothing, TypeInv, EditsTypeOK
  <2> QED
    BY <2>1, <2>2
<1> QED
  BY <1>1 DEF Origins, SameEdits

LEMMA CommitsOrigins ==
    ASSUME EditsInv, NEW s \in Sessions, Origins, Commit(s), edits' = edits
    PROVE  Origins' /\ \A r \in Records : rows[r] # None => rows'[r] # None
<1>1. /\ own' = [own EXCEPT ![s] = Nothing] /\ own \in [Sessions -> [Records -> Versions \cup {None}]]
      /\ \A r \in Records : rows'[r] = IF own[s][r] # None THEN own[s][r] ELSE rows[r]
      /\ written' = written \cup ({own[s][r] : r \in Records} \ {None})
  BY DEF EditsInv, TypeInv, EditsTypeOK, Commit, Visible
<1>2. \A t \in Sessions, r \in Records : own'[t][r] \in {None, own[t][r]}
  BY <1>1 DEF Nothing
<1>3. \A t \in Sessions, r \in Records :
         own'[t][r] # None => own'[t][r] \in 1 .. Len(edits) /\ edits[own'[t][r]].rec = r
  BY <1>2 DEF Origins
<1>4. ASSUME NEW r \in Records, rows'[r] \notin {None, 0}
      PROVE  rows'[r] \in written' /\ rows'[r] \in 1 .. Len(edits) /\ edits[rows'[r]].rec = r
  <2>1. CASE own[s][r] # None
    BY <1>1, <2>1 DEF Origins
  <2>2. CASE own[s][r] = None
    BY <1>1, <1>4, <2>2 DEF Origins
  <2> QED
    BY <2>1, <2>2
<1>5. Origins'
  BY <1>3, <1>4 DEF Origins
<1> QED
  BY <1>1, <1>5

\* A served COMMIT has committed what was sure, and nothing else was sure then.
LEMMA EndKept ==
    ASSUME CommittedInv, NEW s \in Sessions, NEW op \in {"commit", "rollback"},
           NEW ok \in BOOLEAN, Serves(s, op), Answer(s, ok), Done(s), UNCHANGED <<edits, lost>>,
           \/ op = "commit" /\ tx[s] = "open" /\ Commit(s)
           \/ ~ (op = "commit" /\ tx[s] = "open" /\ ok) /\ UNCHANGED written
    PROVE  Kept(s)'
<1> PICK v : v = Head(toServer[s]).of
  OBVIOUS
<1>1. TypeInv /\ InLine(s) /\ EditsInv /\ OneEnd(s) /\ Kept(s)
  BY DEF CommittedInv, EditsInv
<1>2. /\ 1 \in Places(s) /\ At(s, 1).op = op /\ At(s, 1).of = v
      /\ v \in EditsOf(s) /\ v \in 1 .. Len(edits)
  BY <1>1, HeadOfEdit
<1>3. Ending(s, 1)
  BY <1>2 DEF Ending
<1>4. ASSUME NEW w \in EditsOf(s) PROVE ~ Sure(s, w)'
  <2>1. edits[w].phase # "ask"
    BY <1>1, <1>2, <1>3 DEF InLine, Asking
  <2>2. \A k \in Places(s) \ {0, 1} : At(s, k).op # "commit"
    BY <1>1, <1>2, <1>3 DEF OneEnd, Ending
  <2> QED
    BY <1>1, <2>1, <2>2, ServedSure
<1>5. written \subseteq written'
  BY DEF Commit
<1>6. ASSUME lost[s] = 0, NEW w \in EditsOf(s), Told(s, w)'
      PROVE  w \in written' \/ Deleted(w)'
  <2>1. w \in 1 .. Len(edits) /\ (Deleted(w) => Deleted(w)')
    BY <1>5 DEF EditsOf, Deleted
  <2>2. CASE Told(s, w)
    BY <1>1, <1>5, <1>6, <2>1, <2>2 DEF Kept
  <2>3. CASE op = "commit" /\ ok /\ w = v
    <3>1. Sure(s, v)
      BY <1>2, <2>3 DEF Sure
    <3>2. tx[s] = "open" /\ (own[s][edits[v].rec] = v \/ Deleted(v))
      BY <1>1, <1>2, <1>6, <3>1 DEF Kept
    <3>3. Commit(s)
      BY <2>3, <3>2
    <3>4. edits[v].rec \in Records /\ v # None
      <4>1. edits[v] \in EditType
        BY <1>1, <1>2, ElementOfSeq DEF TypeInv, EditsTypeOK
      <4>2. v \in Nat
        BY <1>2
      <4> QED
        BY <4>1, <4>2, EditsAssumption DEF EditType
    <3>5. own[s][edits[v].rec] = v => v \in written'
      BY <3>3, <3>4 DEF Commit
    <3> QED
      BY <2>1, <2>3, <3>2, <3>5
  <2> QED
    BY <1>1, <1>6, <2>2, <2>3, ServedSure DEF Told
<1> QED
  BY <1>4, <1>6 DEF Kept, EditsOf

LEMMA WasThereServed ==
    ASSUME EditsInv, NEW s \in Sessions, WasThere, NEW op, Serves(s, op), Done(s), edits' = edits,
           ~ checked'[s], \A t \in Sessions \ {s} : checked'[t] = checked[t],
           \A r \in Records : rows[r] # None => rows'[r] # None
    PROVE  WasThere'
<1> SUFFICES ASSUME NEW t \in Sessions, checked'[t], edits[Head(toServer'[t]).of].kind # "insert"
             PROVE  rows'[edits[Head(toServer'[t]).of].rec] # None
  BY DEF WasThere
<1>1. t # s /\ checked[t] /\ toServer'[t] = toServer[t]
  BY DEF Done, EditsInv, TypeInv, EditsTypeOK
<1> PICK v : v = Head(toServer[t]).of
  OBVIOUS
<1>2. rows[edits[v].rec] # None
  BY <1>1 DEF WasThere
<1>3. v \in EditsOf(t)
  BY <1>1, FirstPlaces DEF EditsInv, TypeInv, EditsTypeOK
<1>4. edits[v] \in EditType
  BY <1>3, ElementOfSeq DEF EditsOf, EditsInv, TypeInv, EditsTypeOK
<1> QED
  BY <1>1, <1>2, <1>4 DEF EditType

LEMMA ServeKeepsCommitted ==
    ASSUME CommittedInv, NEW s \in Sessions, Serve(s)
    PROVE  CommittedInv'
<1>0. /\ EditsInv /\ EditsInv' /\ TypeInv /\ Origins /\ WasThere
      /\ OneEnd(s) /\ Kept(s) /\ written \subseteq 1 .. Len(edits)
      /\ \A t \in Sessions : OneEnd(t) /\ Kept(t)
  BY ServeKeeps DEF CommittedInv, EditsInv, Reported
<1>1. ASSUME NEW op, NEW ok \in BOOLEAN, Serves(s, op), Answer(s, ok), Done(s),
             UNCHANGED <<edits, lost>>, Kept(s)', Origins',
             ~ checked'[s], \A t \in Sessions \ {s} : checked'[t] = checked[t],
             \A r \in Records : rows[r] # None => rows'[r] # None,
             \A t \in Sessions \ {s} : own'[t] = own[t] /\ tx'[t] = tx[t],
             written \subseteq written'
      PROVE  CommittedInv'
  <2>1. WasThere'
    BY <1>0, <1>1, WasThereServed
  <2>2. OneEnd(s)' /\ OthersStay(s)
    BY <1>0, <1>1, ServedSure, ServedMoves DEF TypeInv
  <2>3. SameEdits /\ \A t \in Sessions : EditsOf(t)' = EditsOf(t)
    BY <1>1 DEF SameEdits, EditsOf
  <2>4. \A t \in Sessions \ {s} : OneEnd(t)' /\ Kept(t)'
    BY <1>0, <1>1, <2>2, <2>3, KeptElsewhere
  <2> QED
    BY <1>0, <1>1, <2>1, <2>2, <2>4 DEF CommittedInv
<1>2. SameEdits
  BY DEF SameEdits, Serve, ServeBegin, ServeSelect, ServeCompare, ServeStatement, ServeEnd, CommitFails
<1>3. Serves(s, "begin") \/ Serves(s, "select") \/ Serves(s, "commit") \/ Serves(s, "rollback")
          => ~ checked[s]
  BY <1>0 DEF Serves, TypeInv, EditsTypeOK
<1>4. CASE ServeBegin(s) \/ ServeSelect(s)
  <2>1. PICK op \in {"begin", "select"}, ok \in BOOLEAN :
           Serves(s, op) /\ Answer(s, ok) /\ Done(s)
    BY <1>4 DEF ServeBegin, ServeSelect
  <2>2. /\ UNCHANGED <<edits, checked, own, rows, written, lost>>
        /\ tx[s] = "open" => tx'[s] = "open"
        /\ \A t \in Sessions \ {s} : tx'[t] = tx[t]
    BY <1>0, <1>4 DEF ServeBegin, ServeSelect, TypeInv, EditsTypeOK
  <2>3. Kept(s)' /\ Origins'
    BY <1>0, <1>2, <2>1, <2>2, AnsweredKept, OriginsStay
  <2> QED
    BY <1>1, <1>3, <2>1, <2>2, <2>3
<1>5. CASE ServeCompare(s)
  <2>1. CASE Answer(s, FALSE) /\ Done(s) /\ UNCHANGED checked
    <3>1. Serves(s, "edit") /\ ~ checked[s] /\ UNCHANGED <<edits, tx, own, rows, written, lost>>
      BY <1>5 DEF ServeCompare
    <3>2. Kept(s)' /\ Origins'
      BY <1>0, <1>2, <2>1, <3>1, AnsweredKept, OriginsStay
    <3> QED
      BY <1>1, <2>1, <3>1, <3>2
  <2>2. CASE /\ checked' = [checked EXCEPT ![s] = TRUE]
             /\ UNCHANGED <<toServer, toTab>>
             /\ Compares(s, edits[Head(toServer[s]).of])
    <3>1. UNCHANGED <<edits, toServer, toTab, tx, own, rows, written, lost>>
      BY <1>5, <2>2 DEF ServeCompare
    <3>2. \A t \in Sessions : OneEnd(t)' /\ Kept(t)'
      BY <1>0, <3>1 DEF OneEnd, Kept, Sure, Told, Deleted, Places, At, Ending, EditsOf
    <3>3. Origins'
      BY <1>0, <1>2, <3>1, OriginsStay
    <3>4. WasThere'
      <4> PICK v : v = Head(toServer[s]).of
        OBVIOUS
      <4>1. v \in EditsOf(s) /\ \A r \in Records : own[s][r] = None
        <5>1. 1 \in Places(s) /\ At(s, 1) = Head(toServer[s]) /\ \A k \in Places(s) : 1 <= k
          BY <1>0, <1>5, EmptySeq, HeadTailProperties
             DEF ServeCompare, Serves, Places, At, TypeInv, EditsTypeOK
        <5>2. At(s, 1).op = "edit"
          BY <1>5, <5>1 DEF ServeCompare, Serves
        <5>3. InLine(s) /\ Held(s)
          BY <1>0 DEF EditsInv
        <5> QED
          BY <1>0, <5>1, <5>2, <5>3, HeldNothing DEF OfEdit, TypeInv, Known
      <4>2. edits[v].rec \in Records
        <5>1. edits[v] \in EditType
          BY <1>0, <4>1, ElementOfSeq DEF EditsOf, TypeInv, EditsTypeOK
        <5> QED
          BY <5>1 DEF EditType
      <4>3. edits[v].kind # "insert" => rows[edits[v].rec] # None
        BY <2>2, <4>1, <4>2 DEF Compares, Gone, Visible
      <4>4. \A t \in Sessions \ {s} : checked'[t] = checked[t]
        BY <1>0, <2>2 DEF TypeInv, EditsTypeOK
      <4> QED
        BY <1>0, <3>1, <4>3, <4>4 DEF WasThere
    <3> QED
      BY <1>0, <3>2, <3>3, <3>4 DEF CommittedInv
  <2> QED
    BY <1>5, <2>1, <2>2 DEF ServeCompare
<1>6. CASE ServeStatement(s)
  <2>1. PICK ok \in BOOLEAN : Serves(s, "edit") /\ Answer(s, ok) /\ Done(s)
    BY <1>6 DEF ServeStatement
  <2>2. Kept(s)' /\ Origins'
    BY <1>6, StatementKept
  <2>3. /\ UNCHANGED <<edits, lost, rows, written>> /\ ~ checked'[s]
        /\ \A t \in Sessions \ {s} : checked'[t] = checked[t]
    BY <1>0, <1>6 DEF ServeStatement, TypeInv, EditsTypeOK
  <2>4. \A t \in Sessions \ {s} : own'[t] = own[t] /\ tx'[t] = tx[t]
    <3>1. /\ own' = own \/ \E r, v : own' = [own EXCEPT ![s][r] = v]
          /\ tx' = tx \/ tx' = [tx EXCEPT ![s] = Aborted(s)]
      BY <1>6 DEF ServeStatement
    <3>2. \A t \in Sessions \ {s} : own'[t] = own[t]
      BY <1>0, <3>1 DEF TypeInv, EditsTypeOK
    <3>3. \A t \in Sessions \ {s} : tx'[t] = tx[t]
      BY <1>0, <3>1 DEF TypeInv, EditsTypeOK
    <3> QED
      BY <3>2, <3>3
  <2> QED
    BY <1>1, <2>1, <2>2, <2>3, <2>4
<1>7. CASE ServeEnd(s) \/ CommitFails(s)
  <2>1. PICK op \in {"commit", "rollback"}, ok \in BOOLEAN :
           /\ Serves(s, op) /\ Answer(s, ok) /\ Done(s) /\ UNCHANGED <<edits, lost, checked>>
           /\ \/ op = "commit" /\ tx[s] = "open" /\ Commit(s)
              \/ ~ (op = "commit" /\ tx[s] = "open" /\ ok) /\ RollBack(s)
    <3>1. CASE ServeEnd(s)
      <4>1. PICK op \in {"commit", "rollback"} : Serves(s, op)
        BY <3>1 DEF ServeEnd
      <4>2. \/ op = "commit" /\ tx[s] = "open" /\ Commit(s)
            \/ ~ (op = "commit" /\ tx[s] = "open") /\ RollBack(s)
        BY <3>1, <4>1 DEF ServeEnd, Serves
      <4> QED
        BY <3>1, <4>1, <4>2 DEF ServeEnd
    <3>2. CASE CommitFails(s)
      BY <3>2 DEF CommitFails
    <3> QED
      BY <1>7, <3>1, <3>2
  <2>2. Kept(s)'
    BY <2>1, EndKept DEF RollBack
  <2>3. /\ own' = [own EXCEPT ![s] = Nothing] /\ tx' = [tx EXCEPT ![s] = "none"]
        /\ written \subseteq written'
    BY <2>1 DEF Commit, RollBack
  <2>4. \A t \in Sessions \ {s} : own'[t] = own[t] /\ tx'[t] = tx[t]
    BY <1>0, <2>3 DEF TypeInv, EditsTypeOK
  <2>5. Origins' /\ \A r \in Records : rows[r] # None => rows'[r] # None
    <3>1. CASE Commit(s)
      BY <1>0, <2>1, <3>1, CommitsOrigins
    <3>2. CASE RollBack(s)
      BY <1>0, <1>2, <3>2, OriginsStay DEF RollBack
    <3> QED
      BY <2>1, <3>1, <3>2
  <2>6. ~ checked'[s]
    BY <1>3, <2>1
  <2> QED
    BY <1>1, <2>1, <2>2, <2>3, <2>4, <2>5, <2>6
<1> QED
  BY <1>4, <1>5, <1>6, <1>7 DEF Serve

-----------------------------------------------------------------------------
(* The windows, and what they lose.                                        *)

LEMMA SameWhenBecomes ==
    ASSUME TypeInv, NEW v \in 1 .. Len(edits), NEW phase \in Phases, NEW loader \in BOOLEAN,
           Becomes(v, phase, loader)
    PROVE  SameEdits
<1>1. Len(edits') = Len(edits)
      /\ \A u \in 1 .. Len(edits) : edits'[u].kind = edits[u].kind /\ edits'[u].rec = edits[u].rec
  BY EditBecomes DEF TypeInv
<1> QED
  BY <1>1 DEF SameEdits

\* What was compared before stays, when a window sends.
LEMMA WasThereSent ==
    ASSUME EditsInv, NEW s \in Sessions, NEW new \in Seq(RequestType), Sends(s, new), WasThere,
           toTab' = toTab \/ toTab' = [toTab EXCEPT ![s] = None], SameEdits,
           UNCHANGED <<checked, rows>>
    PROVE  WasThere'
<1> SUFFICES ASSUME NEW t \in Sessions, checked[t],
                    edits'[Head(toServer'[t]).of].kind # "insert"
             PROVE  rows[edits'[Head(toServer'[t]).of].rec] # None
  BY DEF WasThere
<1> PICK v : v = Head(toServer[t]).of
  OBVIOUS
<1>1. EditsTypeOK /\ TypeInv /\ toServer[t] # <<>> /\ Head(toServer[t]).op = "edit"
  BY DEF EditsInv, TypeInv, EditsTypeOK
<1>2. v \in 1 .. Len(edits)
  BY <1>1, FirstPlaces DEF EditsOf
<1>3. Head(toServer'[t]) = Head(toServer[t])
  <2>1. CASE t = s
    <3> PICK n : n = Len(toServer[s])
      OBVIOUS
    <3> QED
      BY <1>1, <2>1, SentMoves
  <2>2. CASE t # s
    BY <1>1, <2>2 DEF Sends, EditsTypeOK
  <2> QED
    BY <2>1, <2>2
<1> QED
  BY <1>2, <1>3 DEF WasThere, SameEdits

LEMMA SentKeepsCommitted ==
    ASSUME CommittedInv, EditsInv', NEW s \in Sessions, NEW new \in Seq(RequestType), Sends(s, new),
           toTab' = toTab \/ toTab' = [toTab EXCEPT ![s] = None], SameEdits,
           UNCHANGED <<checked, tx, own, rows, written, lost>>,
           \A t \in Sessions \ {s} : /\ EditsOf(t)' = EditsOf(t)
                                     /\ \A u \in EditsOf(t) : edits'[u] = edits[u],
           OneEnd(s)',
           \A v \in EditsOf(s)' : /\ Sure(s, v)' => v \in EditsOf(s) /\ Sure(s, v)
                                  /\ Told(s, v)' => v \in EditsOf(s) /\ Told(s, v)
    PROVE  CommittedInv'
<1>0. /\ EditsInv /\ TypeInv /\ Origins /\ WasThere /\ written \subseteq 1 .. Len(edits)
      /\ \A t \in Sessions : OneEnd(t) /\ Kept(t)
  BY DEF CommittedInv, EditsInv, Reported
<1>1. Origins' /\ WasThere'
  BY <1>0, OriginsStay, WasThereSent
<1>2. OthersStay(s)
  <2> PICK n : n = Len(toServer[s])
    OBVIOUS
  <2> QED
    BY <1>0, SentMoves DEF TypeInv
<1>3. \A t \in Sessions \ {s} : OneEnd(t)' /\ Kept(t)'
  BY <1>0, <1>2, KeptElsewhere
<1>4. Kept(s)'
  <2> SUFFICES ASSUME lost[s] = 0, NEW v \in EditsOf(s)'
               PROVE  /\ Sure(s, v)' => tx[s] = "open"
                                        /\ (own[s][edits'[v].rec] = v \/ Deleted(v)')
                      /\ Told(s, v)' => v \in written \/ Deleted(v)'
    BY DEF Kept
  <2>1. ASSUME v \in EditsOf(s) PROVE edits'[v].rec = edits[v].rec /\ (Deleted(v) => Deleted(v)')
    BY <1>0, <2>1, DeletedStays DEF EditsOf, SameEdits
  <2> QED
    BY <1>0, <2>1 DEF Kept
<1> QED
  BY <1>0, <1>1, <1>3, <1>4 DEF CommittedInv

LEMMA ReceivedCommitted ==
    ASSUME CommittedInv, NEW s \in Sessions, Receive(s)
    PROVE  CommittedInv'
<1>0. /\ EditsInv /\ EditsInv' /\ TypeInv /\ InLine(s) /\ OneEnd(s)
      /\ UNCHANGED <<checked, tx, own, rows, written, lost>>
  BY ReceiveKeeps DEF CommittedInv, EditsInv, Receive
<1> PICK n : n = Len(toServer[s])
  OBVIOUS
<1>1. n \in Nat /\ toServer[s] \in Seq(RequestType)
  BY <1>0, LenProperties DEF TypeInv, EditsTypeOK
<1>2. CASE toTab[s].of.op = "select"
  <2>1. /\ toTab' = [toTab EXCEPT ![s] = None] /\ edits' = edits /\ toServer' = toServer
    BY <1>2 DEF Receive, BeginAnswered, StatementAnswered, EndAnswered
  <2>2. Sends(s, <<>>) /\ <<>> \in Seq(RequestType)
    BY <1>0, <1>1, <2>1, ConcatEmptySeq DEF Sends, TypeInv, EditsTypeOK
  <2>3. /\ 0 \notin Places(s)' /\ Places(s)' \subseteq Places(s)
        /\ \A k \in Places(s)' : At(s, k)' = At(s, k)
    BY <1>0, <1>1, <2>1 DEF Places, At, TypeInv, EditsTypeOK
  <2>4. OneEnd(s)'
    BY <1>0, <2>3 DEF OneEnd, Ending
  <2>5. \A v : (Sure(s, v)' => Sure(s, v)) /\ (Told(s, v)' => Told(s, v))
    BY <2>1, <2>3 DEF Sure, Told
  <2>6. SameEdits /\ \A t \in Sessions : EditsOf(t)' = EditsOf(t)
    BY <2>1 DEF SameEdits, EditsOf
  <2> QED
    BY <1>0, <2>1, <2>2, <2>4, <2>5, <2>6, SentKeepsCommitted
<1>3. CASE toTab[s].of.op # "select"
  <2> PICK m : m = toTab[s].of
    OBVIOUS
  <2> PICK v : v = m.of
    OBVIOUS
  <2> PICK ok : ok = toTab[s].ok
    OBVIOUS
  <2>1. v \in EditsOf(s) /\ v \in 1 .. Len(edits) /\ toTab' = [toTab EXCEPT ![s] = None]
    BY <1>0, <1>3, ReceivedGoes DEF EditsOf
  <2>2. PICK phase \in Phases, loader \in BOOLEAN, new \in Seq(RequestType) :
           Becomes(v, phase, loader) /\ Sends(s, new) /\ Goes(m, ok, phase, loader, new)
    BY <1>0, <1>3, ReceivedGoes
  <2>3. Read(s, m, phase, n)
    BY <1>0, <1>3, <2>2, ReceivedMoves
  <2>4. /\ edits'[v].phase = phase
        /\ \A u \in 1 .. Len(edits) : u # v => edits'[u] = edits[u]
        /\ \A t \in Sessions : EditsOf(t)' = EditsOf(t)
        /\ SameEdits
    BY <1>0, <2>1, <2>2, EditBecomes, SameWhenBecomes DEF TypeInv
  <2>5. 0 \in Places(s) /\ At(s, 0) = m /\ 0 \notin Places(s)'
    BY <2>3 DEF Read
  <2>6. ASSUME NEW k \in Places(s)', At(s, k)'.op \in {"commit", "rollback"}
        PROVE  \/ k \in Places(s) \ {0} /\ At(s, k)' = At(s, k)
               \/ /\ k = n + 1 /\ At(s, k)'.op = phase /\ At(s, k)'.of = v
                  /\ m.op = "edit" /\ (phase = "commit" => ok)
    <3>1. OfEdit(s, k)'
      BY <2>6 DEF OfEdit
    <3>2. phase \in {"commit", "rollback"} /\ m.op \in {"begin", "edit"}
              => m.op = "edit" /\ (phase = "commit" => ok)
      BY <2>2 DEF Goes
    <3>3. \/ k \in Places(s) /\ At(s, k)' = At(s, k)
          \/ k = n + 1 /\ At(s, k)'.op = phase /\ At(s, k)'.of = v /\ m.op \in {"begin", "edit"}
      BY <2>3, <3>1 DEF Read
    <3>4. k # 0
      BY <2>5
    <3> QED
      BY <2>6, <3>2, <3>3, <3>4
  <2>7. OneEnd(s)'
    <3> SUFFICES ASSUME NEW j \in Places(s)', NEW k \in Places(s)',
                        At(s, j)'.op \in {"commit", "rollback"}, At(s, k)'.op \in {"commit", "rollback"}
                 PROVE  j = k
      BY DEF OneEnd, Ending
    <3>1. ASSUME NEW i \in Places(s)', i \in Places(s) \ {0}, At(s, i)' = At(s, i),
                 At(s, i)'.op \in {"commit", "rollback"}
          PROVE  m.op # "edit"
      <4>1. m.op = "edit" => i < 0
        BY <1>0, <2>5, <3>1 DEF InLine, InTurn, Ending
      <4>2. i \in Nat
        BY <2>3, <3>1 DEF Read
      <4> QED
        BY <4>1, <4>2
    <3>2. CASE j \in Places(s) /\ k \in Places(s) /\ At(s, j)' = At(s, j) /\ At(s, k)' = At(s, k)
      BY <1>0, <3>2 DEF OneEnd, Ending
    <3> QED
      BY <2>6, <3>1, <3>2
  <2>8. ASSUME NEW w \in EditsOf(s), Sure(s, w)' PROVE Sure(s, w)
    <3>1. m.op = "edit" /\ ok => Sure(s, v)
      BY <2>5 DEF Sure
    <3>2. CASE edits'[w].phase = "ask"
      <4>1. CASE w = v
        BY <2>2, <2>4, <3>1, <3>2, <4>1 DEF Goes
      <4>2. CASE w # v
        BY <2>4, <3>2, <4>2 DEF EditsOf, Sure
      <4> QED
        BY <4>1, <4>2
    <3>3. ASSUME NEW k \in Places(s)', At(s, k)'.op = "commit", At(s, k)'.of = w
          PROVE  Sure(s, w)
      BY <2>6, <3>1, <3>3 DEF Sure
    <3> QED
      BY <2>5, <2>8, <3>2, <3>3 DEF Sure
  <2>9. ASSUME NEW w \in EditsOf(s), Told(s, w)' PROVE Told(s, w)
    <3>1. edits'[w].phase = "committed"
      BY <2>5, <2>9 DEF Told
    <3>2. CASE w = v
      <4>1. m.op = "commit" /\ ok
        BY <2>2, <2>4, <3>1, <3>2 DEF Goes
      <4> QED
        BY <2>5, <3>2, <4>1 DEF Told
    <3>3. CASE w # v
      BY <2>4, <3>1, <3>3 DEF EditsOf, Told
    <3> QED
      BY <3>2, <3>3
  <2>10. \A t \in Sessions \ {s} : /\ EditsOf(t)' = EditsOf(t)
                                   /\ \A u \in EditsOf(t) : edits'[u] = edits[u]
    BY <2>1, <2>4 DEF EditsOf
  <2> QED
    BY <1>0, <2>1, <2>2, <2>4, <2>7, <2>8, <2>9, <2>10, SentKeepsCommitted
<1> QED
  BY <1>2, <1>3

\* What the user does makes no edit sure that was not: Yes sends the COMMIT of
\* the edit that was asked about.
LEMMA PutSure ==
    ASSUME NEW s \in Sessions, NEW m, NEW n \in Nat, Puts(s, m, n), toTab' = toTab, NEW v,
           edits'[v].phase \in {"ask", "committed"} => edits'[v].phase = edits[v].phase,
           m.op = "commit" /\ m.of = v => edits[v].phase = "ask"
    PROVE  (Sure(s, v)' => Sure(s, v)) /\ (Told(s, v)' => Told(s, v))
<1>1. ASSUME NEW k \in Places(s)', At(s, k)'.op # "select"
      PROVE  \/ k \in Places(s) /\ At(s, k)' = At(s, k)
             \/ k = n + 1 /\ At(s, k)' = m
  BY <1>1 DEF Puts, OfEdit
<1>2. Told(s, v)' => Told(s, v)
  BY <1>1 DEF Told
<1>3. ASSUME NEW k \in Places(s)' \ {0}, At(s, k)'.op = "commit", At(s, k)'.of = v
      PROVE  Sure(s, v)
  BY <1>1, <1>3 DEF Sure
<1>4. ASSUME 0 \in Places(s)', At(s, 0)'.op = "edit", At(s, 0)'.of = v, toTab[s].ok
      PROVE  Sure(s, v)
  BY <1>1, <1>4 DEF Sure
<1> QED
  BY <1>2, <1>3, <1>4 DEF Sure

LEMMA DecidedCommitted ==
    ASSUME CommittedInv, NEW v \in 1 .. Len(edits), Decide(v)
    PROVE  CommittedInv'
<1> PICK s : s = SessionOf[edits[v].grid]
  OBVIOUS
<1> PICK n : n = Len(toServer[s])
  OBVIOUS
<1>0. /\ v \in EditsOf(s) /\ s \in Sessions /\ edits[v].phase = "ask"
      /\ UNCHANGED <<toTab, checked, tx, own, rows, written, lost>>
      /\ TypeInv /\ InLine(s) /\ EditsInv'
  BY DecideSends, DecideKeeps DEF CommittedInv, EditsInv
<1>1. PICK phase \in {"commit", "rollback"}, new \in Seq(RequestType) :
         Becomes(v, phase, TRUE) /\ Sends(s, new) /\ SendsFirst(new, [op |-> phase, of |-> v])
  BY <1>0, DecideSends DEF CommittedInv, EditsInv
<1> PICK m : m = [op |-> phase, of |-> v]
  OBVIOUS
<1>2. n \in Nat /\ Puts(s, m, n) /\ phase \in Phases
  BY <1>0, <1>1, UserPuts DEF Phases
<1>3. /\ edits'[v].phase = phase
      /\ \A u \in 1 .. Len(edits) : u # v => edits'[u] = edits[u]
      /\ \A t \in Sessions : EditsOf(t)' = EditsOf(t)
      /\ SameEdits
  BY <1>0, <1>1, <1>2, EditBecomes, SameWhenBecomes DEF TypeInv
<1>4. OneEnd(s)'
  <2>1. \A k \in Places(s) : ~ Ending(s, k)
    BY <1>0 DEF InLine, Asking
  <2>2. ASSUME NEW k \in Places(s)', Ending(s, k)' PROVE k = n + 1
    BY <1>2, <2>1, <2>2 DEF Puts, Ending, OfEdit
  <2> QED
    BY <2>2 DEF OneEnd
<1>5. ASSUME NEW w \in EditsOf(s) PROVE (Sure(s, w)' => Sure(s, w)) /\ (Told(s, w)' => Told(s, w))
  <2>1. edits'[w].phase \in {"ask", "committed"} => edits'[w].phase = edits[w].phase
    BY <1>1, <1>3 DEF EditsOf
  <2>2. m.op = "commit" /\ m.of = w => edits[w].phase = "ask"
    BY <1>0
  <2> QED
    BY <1>0, <1>2, <2>1, <2>2, PutSure
<1>6. \A t \in Sessions \ {s} : /\ EditsOf(t)' = EditsOf(t)
                                /\ \A u \in EditsOf(t) : edits'[u] = edits[u]
  BY <1>0, <1>3 DEF EditsOf
<1> QED
  BY <1>0, <1>1, <1>3, <1>4, <1>5, <1>6, SentKeepsCommitted

LEMMA EditedCommitted ==
    ASSUME GridsAlone, CommittedInv,
           NEW g \in Grids, NEW kind \in Kinds, NEW r \in Records, NEW asks \in BOOLEAN,
           Edit(g, kind, r, asks)
    PROVE  CommittedInv'
<1> PICK s : s = SessionOf[g]
  OBVIOUS
<1> PICK v : v = Len(edits) + 1
  OBVIOUS
<1> PICK n : n = Len(toServer[s])
  OBVIOUS
<1> PICK m : m = [op |-> "begin", of |-> v]
  OBVIOUS
<1> PICK new : new = <<m>>
  OBVIOUS
<1>0. TypeInv /\ s \in Sessions /\ EditsInv' /\ OneEnd(s)
  BY EditKeeps, EditsAssumption DEF CommittedInv, EditsInv, GridsAlone
<1>1. /\ v \notin 1 .. Len(edits) /\ Len(edits') = v
      /\ \A u \in 1 .. Len(edits) : edits'[u] = edits[u]
      /\ edits'[v].phase = "begin"
      /\ \A t \in Sessions : EditsOf(t)' = EditsOf(t) \cup (IF t = s THEN {v} ELSE {})
      /\ SendsFirst(new, m) /\ Sends(s, new)
      /\ UNCHANGED <<toTab, checked, tx, own, rows, written, lost>>
  BY <1>0, EditAppends
<1>2. new \in Seq(RequestType)
  BY <1>1 DEF SendsFirst
<1>3. n \in Nat /\ Puts(s, m, n)
  BY <1>0, <1>1, <1>2, UserPuts
<1>4. OneEnd(s)'
  <2>1. ASSUME NEW k \in Places(s)', Ending(s, k)' PROVE k \in Places(s) /\ Ending(s, k)
    BY <1>3, <2>1 DEF Puts, Ending, OfEdit
  <2> QED
    BY <1>0, <2>1 DEF OneEnd
<1>5. ASSUME NEW w \in EditsOf(s) PROVE (Sure(s, w)' => Sure(s, w)) /\ (Told(s, w)' => Told(s, w))
  <2>1. edits'[w] = edits[w]
    BY <1>1 DEF EditsOf
  <2>2. ~ (m.op = "commit" /\ m.of = w)
    OBVIOUS
  <2> QED
    BY <1>0, <1>1, <1>3, <2>1, <2>2, PutSure
<1>6. ~ Sure(s, v)' /\ ~ Told(s, v)'
  <2>1. ASSUME NEW k \in Places(s)', OfEdit(s, k)', At(s, k)'.of = v PROVE At(s, k)'.op = "begin"
    <3>1. CASE k \in Places(s) /\ At(s, k)' = At(s, k) /\ OfEdit(s, k)
      BY <1>0, <1>1, <2>1, <3>1 DEF TypeInv, Known, EditsOf
    <3>2. CASE At(s, k)' = m
      BY <3>2
    <3> QED
      BY <1>3, <2>1, <3>1, <3>2 DEF Puts
  <2> QED
    BY <1>1, <2>1 DEF Sure, Told, OfEdit
<1>7. /\ EditsOf(s)' = EditsOf(s) \cup {v}
      /\ \A t \in Sessions \ {s} : /\ EditsOf(t)' = EditsOf(t)
                                   /\ \A u \in EditsOf(t) : edits'[u] = edits[u]
  BY <1>0, <1>1 DEF EditsOf
<1>8. SameEdits
  <2>1. \A u \in 1 .. Len(edits) : u \in 1 .. Len(edits')
    BY <1>0, <1>1, LenProperties DEF TypeInv, EditsTypeOK
  <2> QED
    BY <1>1, <2>1 DEF SameEdits
<1> QED
  BY <1>0, <1>1, <1>2, <1>4, <1>5, <1>6, <1>7, <1>8, SentKeepsCommitted

LEMMA LostCommitted ==
    ASSUME CommittedInv, NEW s \in Sessions, SessionLost(s)
    PROVE  CommittedInv'
<1>0. /\ EditsInv /\ EditsInv' /\ TypeInv /\ Origins /\ WasThere /\ written \subseteq 1 .. Len(edits)
      /\ \A t \in Sessions : OneEnd(t) /\ Kept(t)
  BY LostKeeps DEF CommittedInv, EditsInv, Reported
<1>1. /\ Places(s)' = {} /\ OthersStay(s) /\ own' = [own EXCEPT ![s] = Nothing]
      /\ UNCHANGED <<edits, rows, written>> /\ SameEdits
      /\ \A t \in Sessions : EditsOf(t)' = EditsOf(t)
  BY <1>0, LostEmpties DEF SameEdits, EditsOf
<1>2. lost'[s] # 0 /\ ~ checked'[s]
  BY <1>0 DEF SessionLost, TypeInv, EditsTypeOK
<1>3. \A t \in Sessions \ {s} : /\ own'[t] = own[t] /\ tx'[t] = tx[t] /\ lost'[t] = lost[t]
                                /\ checked'[t] = checked[t] /\ toServer'[t] = toServer[t]
  BY <1>0 DEF SessionLost, RollBack, TypeInv, EditsTypeOK
<1>4. \A t \in Sessions \ {s} : OneEnd(t)' /\ Kept(t)'
  BY <1>0, <1>1, <1>3, KeptElsewhere
<1>5. OneEnd(s)' /\ Kept(s)'
  BY <1>1, <1>2 DEF OneEnd, Kept
<1>6. Origins'
  BY <1>0, <1>1, OriginsStay
<1>7. WasThere'
  BY <1>0, <1>1, <1>2, <1>3 DEF WasThere
<1> QED
  BY <1>0, <1>4, <1>5, <1>6, <1>7 DEF CommittedInv

-----------------------------------------------------------------------------
LEMMA CommittedInit == EditsInit => CommittedInv
<1> SUFFICES ASSUME EditsInit PROVE CommittedInv
  OBVIOUS
<1>1. /\ \A s \in Sessions : Places(s) = {} /\ EditsOf(s) = {} /\ own[s] = Nothing /\ ~ checked[s]
      /\ \A r \in Records : rows[r] \in {None, 0}
  BY EmptySeq DEF EditsInit, Places, EditsOf
<1>2. Origins /\ WasThere /\ \A s \in Sessions : OneEnd(s) /\ Kept(s)
  BY <1>1 DEF Origins, WasThere, OneEnd, Kept, Nothing
<1> QED
  BY <1>2, InvInit DEF CommittedInv

LEMMA CommittedNext == GridsAlone /\ CommittedInv /\ [EditsNext]_evars => CommittedInv'
<1> SUFFICES ASSUME GridsAlone, CommittedInv, [EditsNext]_evars PROVE CommittedInv'
  OBVIOUS
<1>1. ASSUME NEW g \in Grids, NEW kind \in Kinds, NEW r \in Records, NEW asks \in BOOLEAN,
             Edit(g, kind, r, asks)
      PROVE  CommittedInv'
  BY <1>1, EditedCommitted
<1>2. ASSUME NEW v \in 1 .. Len(edits), Decide(v) PROVE CommittedInv'
  BY <1>2, DecidedCommitted
<1>3. ASSUME NEW s \in Sessions, Receive(s) \/ Serve(s) \/ SessionLost(s) PROVE CommittedInv'
  BY <1>3, ReceivedCommitted, ServeKeepsCommitted, LostCommitted
<1>4. CASE UNCHANGED evars
  <2>1. EditsInv'
    BY <1>4, InvNext DEF CommittedInv
  <2>2. Origins' /\ WasThere'
    BY <1>4 DEF evars, CommittedInv, Origins, WasThere
  <2>3. \A s \in Sessions : OneEnd(s)' /\ Kept(s)'
    BY SMTT(30), <1>4 DEF evars, CommittedInv, OneEnd, Kept, Sure, Told, Deleted, Places, At, Ending, EditsOf
  <2> QED
    BY <2>1, <2>2, <2>3 DEF CommittedInv
<1> QED
  BY <1>1, <1>2, <1>3, <1>4 DEF EditsNext

\* In windows of one grid, an edit that its window reports as committed was
\* committed, in a session that was not lost, unless another edit deleted the
\* record before (the callbacks of requestCommit in datagrid.js).
THEOREM ReportsAreTrue == GridsAlone => (EditsSpec => []ReportedIsCommitted)
<1> SUFFICES ASSUME GridsAlone PROVE EditsSpec => []ReportedIsCommitted
  OBVIOUS
<1>1. CommittedInv => ReportedIsCommitted
  <2> SUFFICES ASSUME CommittedInv, NEW v \in 1 .. Len(edits), edits[v].phase = "committed",
                      lost[SessionOf[edits[v].grid]] = 0
               PROVE  v \in written \/ Deleted(v)
    BY DEF ReportedIsCommitted, Deleted
  <2> PICK s : s = SessionOf[edits[v].grid]
    OBVIOUS
  <2>1. edits[v] \in EditType
    BY ElementOfSeq DEF CommittedInv, EditsInv, TypeInv, EditsTypeOK
  <2>2. s \in Sessions /\ v \in EditsOf(s)
    BY <2>1, EditsAssumption DEF EditType, EditsOf
  <2> QED
    BY <2>2 DEF CommittedInv, Kept, Told
<1>2. CommittedInv /\ [EditsNext]_evars => CommittedInv'
  BY CommittedNext
<1> QED
  BY <1>1, <1>2, CommittedInit, PTL DEF EditsSpec
==============================================================================
