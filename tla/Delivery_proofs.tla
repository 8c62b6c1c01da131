--------------------------- MODULE Delivery_proofs ---------------------------
(***************************************************************************)
(* Proofs about Delivery, for any requests, any number of answers and any  *)
(* number of lost websockets.                                              *)
(*                                                                         *)
(* The invariant is built in layers: where a request is and how far its    *)
(* work has come (AskedFirst, InOnePlace, Working), what the frames under  *)
(* way are about (FramesName), which frames follow a reconnect (Resuming), *)
(* and with them what is still to come for the tab (Coming).               *)
(***************************************************************************)
EXTENDS Delivery, Lists_proofs

\* Nothing is known of a request before it is asked.
AskedFirst ==
    /\ waiting \subseteq RangeOf(asked)
    /\ \A i, j \in 1 .. Len(asked) : asked[i] = asked[j] => i = j
    /\ \A i \in 1 .. Len(up) : up[i].r \in RangeOf(asked)
    /\ \A i \in 1 .. Len(que) : que[i] \in RangeOf(asked)
    /\ cur # None => cur \in RangeOf(asked)
    /\ \A r \in Requests : r \notin RangeOf(asked) => made[r] = 0 /\ got[r] = <<>>

\* A request is on its way, in the queue, or current, in this order and once
\* each; it has no answers before it is current.
InOnePlace ==
    /\ \A i \in 1 .. Len(up) : up[i].kind = "request" =>
           made[up[i].r] = 0 /\ cur # up[i].r /\ up[i].r \notin RangeOf(que)
    /\ \A i, j \in 1 .. Len(up) :
           up[i].kind = "request" /\ up[j].kind = "request" /\ up[i].r = up[j].r => i = j
    /\ \A i \in 1 .. Len(que) : made[que[i]] = 0 /\ cur # que[i]
    /\ \A i, j \in 1 .. Len(que) : que[i] = que[j] => i = j

\* The work of the current request goes on until the last answer is made, and
\* what is sent again was made.
Working ==
    /\ cur # None => /\ work # "none"
                     /\ work \in {"active", "paused"} => made[cur] < Answers
                     /\ work = "done" => made[cur] = Answers
    /\ cur = None => work = "none"
    /\ ~ over /\ resend # None => cur # None /\ resend.upto <= made[cur]

PlacedInv == DeliveryTypeOK /\ AskedFirst /\ InOnePlace /\ Working

\* A CONFIRM under way is for the current request, of an answer the tab has,
\* and the last answer's is the last one; an answer under way is for the
\* current request, too, or the tab will ignore it.
FramesName ==
    /\ \A i \in 1 .. Len(up) : up[i].kind = "confirm" =>
           /\ up[i].r = cur
           /\ up[i].n \in RangeOf(got[up[i].r])
           /\ up[i].n = Answers => up[i].r \notin waiting
    /\ \A i, j \in 1 .. Len(up) :
           i < j /\ up[i].kind = "confirm" /\ up[j].kind = "confirm" => up[i].n # Answers
    /\ \A i \in 1 .. Len(down) : down[i].kind = "answer" =>
           /\ down[i].r \in RangeOf(asked)
           /\ down[i].n \in Numbers
           /\ down[i].r = cur \/ down[i].r \notin waiting
    /\ \A r \in Requests : Answers \in RangeOf(got[r]) => r \notin waiting

ConfirmInv == PlacedInv /\ FramesName /\ ConfirmedIsReceived

\* What follows a reconnect: the session id, then one SEND FROM for each
\* message that waits, from a number up to which the tab has the answers, and
\* only then does the server send again.
Resuming ==
    /\ linked => open
    /\ \A i \in 1 .. Len(down) : down[i].kind = "session" =>
           /\ i = 1
           /\ ~ over => resend = None
           /\ \A j \in 1 .. Len(up) : up[j].kind # "from"
    /\ \A i, j \in 1 .. Len(up) :
           up[i].kind = "from" /\ up[j].kind = "from" /\ up[i].r = up[j].r => i = j
    /\ \A i \in 1 .. Len(up) : up[i].kind = "from" =>
           \A n \in 1 .. up[i].n - 1 : n \in RangeOf(got[up[i].r])
    /\ ~ over /\ resend # None =>
           \A i \in 1 .. Len(up) : up[i].kind = "from" => up[i].r # cur

SessionComes == \E i \in 1 .. Len(down) : down[i].kind = "session"

\* Answer n of the current request has been received, or will be.
Comes(n) ==
    \/ n \in RangeOf(got[cur])
    \/ \E i \in 1 .. Len(down) : down[i] = [kind |-> "answer", r |-> cur, n |-> n]
    \/ resend # None /\ resend.i <= n /\ n <= resend.upto
    \/ \E i \in 1 .. Len(up) : up[i].kind = "from" /\ up[i].r = cur /\ up[i].n <= n
    \/ SessionComes

\* The current request will be asked to go on.
Resumes ==
    \/ resend # None
    \/ \E i \in 1 .. Len(up) : up[i].kind = "from" /\ up[i].r = cur
    \/ SessionComes

\* On a working websocket, all that was made for the message that runs comes,
\* and paused work will be resumed.
Coming ==
    ~ over /\ linked /\ cur \in waiting =>
        /\ \A n \in 1 .. made[cur] : Comes(n)
        /\ work = "paused" => Resumes

DeliveryInv == ConfirmInv /\ Resuming /\ Coming

\* A tab never runs out of a number to ask from: the first one that is not in
\* its place, or the one after the last.
LEMMA StartFromIsFirstMissing ==
    ASSUME NEW s \in Seq(Numbers)
    PROVE  /\ StartFrom(s) \in 1 .. Answers + 1
           /\ \A i \in 1 .. StartFrom(s) - 1 : i \in RangeOf(s)
<1> DEFINE First(n) == /\ \A i \in 1 .. n - 1 : s[i] = i
                       /\ n = Len(s) + 1 \/ s[n] # n
           T == {n \in 1 .. Len(s) + 1 : n = Len(s) + 1 \/ s[n] # n}
<1>1. Len(s) \in Nat /\ \A i \in 1 .. Len(s) : s[i] \in Numbers
  OBVIOUS
<1>2. Len(s) + 1 \in T /\ T \in SUBSET Nat
  BY <1>1
<1>3. PICK n \in T : \A m \in T : n <= m
  BY <1>2, LeastNumber
<1>4. n \in 1 .. Len(s) + 1 /\ First(n)
  BY <1>1, <1>3
<1>5. StartFrom(s) = CHOOSE k \in 1 .. Len(s) + 1 : First(k)
  BY DEF StartFrom
<1>6. StartFrom(s) \in 1 .. Len(s) + 1 /\ First(StartFrom(s))
  BY <1>4, <1>5
<1>7. \A i \in 1 .. StartFrom(s) - 1 : i \in 1 .. Len(s) /\ s[i] = i
  BY <1>1, <1>6
<1>8. StartFrom(s) \in 1 .. Answers + 1
  <2>1. CASE StartFrom(s) = 1
    BY <2>1, AnswersAssumption
  <2>2. CASE StartFrom(s) # 1
    <3>1. StartFrom(s) - 1 \in 1 .. StartFrom(s) - 1
      BY <1>1, <1>6, <2>2
    <3>2. StartFrom(s) - 1 \in Numbers
      BY <1>1, <1>7, <3>1
    <3> QED
      BY <1>1, <1>6, <3>2, AnswersAssumption DEF Numbers
  <2> QED
    BY <2>1, <2>2
<1> QED
  BY <1>7, <1>8 DEF RangeOf

-----------------------------------------------------------------------------
(* Types, and where the requests are.                                      *)

LEMMA FreshRequest ==
    ASSUME PlacedInv, NEW r \in Requests, r \notin RangeOf(asked)
    PROVE  /\ made[r] = 0 /\ got[r] = <<>> /\ cur # r /\ r \notin RangeOf(que) /\ r \notin waiting
           /\ \A i \in 1 .. Len(up) : up[i].r # r
<1>1. cur # r
  BY NoRequestAssumption DEF PlacedInv, AskedFirst
<1>2. r \notin RangeOf(que)
  BY DEF PlacedInv, AskedFirst, RangeOf
<1> QED
  BY <1>1, <1>2 DEF PlacedInv, AskedFirst

\* What most actions leave alone.
LEMMA AskedFirstKept ==
    ASSUME PlacedInv, UNCHANGED <<asked, que, made>>, waiting' \subseteq waiting,
           cur' = cur \/ cur' = None,
           \A i \in 1 .. Len(up') : up'[i].r \in RangeOf(asked),
           \A r \in Requests : r \notin RangeOf(asked) => got'[r] = got[r]
    PROVE  AskedFirst'
<1> USE DEF PlacedInv
<1>1. RangeOf(asked)' = RangeOf(asked) /\ \A r : r \in RangeOf(asked') <=> r \in RangeOf(asked)
  OBVIOUS
<1> QED
  BY <1>1 DEF AskedFirst

LEMMA InOnePlaceKept ==
    ASSUME PlacedInv, UNCHANGED <<que, made>>, cur' = cur \/ cur' = None,
           NEW k \in Nat, up' \in Seq(UpType),
           \A i \in 1 .. Len(up') : up'[i].kind = "request" =>
               i + k \in 1 .. Len(up) /\ up'[i] = up[i + k]
    PROVE  InOnePlace'
<1>1. \A r : r \in RangeOf(que') <=> r \in RangeOf(que)
  OBVIOUS
<1>2. \A i \in 1 .. Len(up') : up'[i].r \in Requests
  <2>1. \A i \in 1 .. Len(up') : up'[i] \in UpType
    OBVIOUS
  <2>2. \A x \in UpType : x.r \in Requests
    BY DEF UpType
  <2> QED
    BY <2>1, <2>2
<1>3. \A i \in 1 .. Len(up') : up'[i].r # None
  BY <1>2, NoRequestAssumption
<1>4. \A i \in 1 .. Len(que) : que[i] \in Requests
  BY DEF PlacedInv, DeliveryTypeOK
<1>5. \A i \in 1 .. Len(que) : que[i] # None
  BY <1>4, NoRequestAssumption
<1>6. \A i \in 1 .. Len(up') : up'[i].kind = "request" =>
          made'[up'[i].r] = 0 /\ cur' # up'[i].r /\ up'[i].r \notin RangeOf(que')
  <2> SUFFICES ASSUME NEW i \in 1 .. Len(up'), up'[i].kind = "request"
               PROVE  made'[up'[i].r] = 0 /\ cur' # up'[i].r /\ up'[i].r \notin RangeOf(que')
    OBVIOUS
  <2>1. i + k \in 1 .. Len(up) /\ up'[i] = up[i + k]
    OBVIOUS
  <2>2. made[up'[i].r] = 0 /\ cur # up'[i].r /\ up'[i].r \notin RangeOf(que)
    BY <2>1 DEF PlacedInv, InOnePlace
  <2> QED
    BY <1>1, <1>3, <2>2
<1>7. ASSUME NEW i \in 1 .. Len(up'), NEW j \in 1 .. Len(up'),
             up'[i].kind = "request", up'[j].kind = "request", up'[i].r = up'[j].r
      PROVE  i = j
  <2>1. /\ i + k \in 1 .. Len(up) /\ up'[i] = up[i + k]
        /\ j + k \in 1 .. Len(up) /\ up'[j] = up[j + k]
    BY <1>7
  <2>2. i + k = j + k
    BY <1>7, <2>1 DEF PlacedInv, InOnePlace
  <2> QED
    BY <2>2
<1>8. \A i \in 1 .. Len(que') : made'[que'[i]] = 0 /\ cur' # que'[i]
  BY <1>5 DEF PlacedInv, InOnePlace
<1>9. \A i, j \in 1 .. Len(que') : que'[i] = que'[j] => i = j
  BY DEF PlacedInv, InOnePlace
<1> QED
  BY <1>6, <1>7, <1>8, <1>9 DEF InOnePlace

LEMMA PlacedInit == DeliveryInit => PlacedInv
<1> SUFFICES ASSUME DeliveryInit PROVE PlacedInv
  OBVIOUS
<1> USE DEF DeliveryInit
<1>1. DeliveryTypeOK
  <2>1. 0 \in 0 .. Answers /\ 0 \in 0 .. MaxCuts
    BY AnswersAssumption, MaxCutsAssumption
  <2>2. /\ asked \in Seq(Requests) /\ que \in Seq(Requests)
        /\ up \in Seq(UpType) /\ down \in Seq(DownType)
        /\ got \in [Requests -> Seq(Numbers)]
    OBVIOUS
  <2> QED
    BY <2>1, <2>2 DEF DeliveryTypeOK
<1>2. AskedFirst
  BY DEF AskedFirst, RangeOf
<1>3. InOnePlace
  BY DEF InOnePlace
<1>4. Working
  BY DEF Working
<1> QED
  BY <1>1, <1>2, <1>3, <1>4 DEF PlacedInv

LEMMA PlacedTabRequests ==
    ASSUME PlacedInv, NEW r \in Requests, TabRequests(r)
    PROVE  PlacedInv'
<1> USE DEF PlacedInv, DeliveryTypeOK
<1>1. /\ asked' = Append(asked, r) /\ waiting' = waiting \cup {r} /\ r \notin RangeOf(asked)
      /\ up' = Append(up, [kind |-> "request", r |-> r, n |-> 1])
      /\ UNCHANGED <<got, down, linked, cuts, open, que, cur, made, confirmed, work, resend, over, stale, left>>
  BY DEF TabRequests, request, ids
<1>2. [kind |-> "request", r |-> r, n |-> 1] \in UpType
  BY AnswersAssumption DEF UpType
<1>3. DeliveryTypeOK'
  BY <1>1, <1>2
<1>4. RangeOf(asked') = RangeOf(asked) \cup {r}
  BY <1>1, RangeAppend
<1>5. \A i \in 1 .. Len(up') : \/ i \in 1 .. Len(up) /\ up'[i] = up[i]
                               \/ i = Len(up) + 1 /\ up'[i] = [kind |-> "request", r |-> r, n |-> 1]
  BY <1>1, <1>2, AppendAt
<1>6. \A i \in 1 .. Len(asked') : \/ i \in 1 .. Len(asked) /\ asked'[i] = asked[i]
                                  \/ i = Len(asked) + 1 /\ asked'[i] = r
  BY <1>1, AppendAt
<1>7. \A i \in 1 .. Len(asked) : asked[i] # r
  BY <1>1 DEF RangeOf
<1> DEFINE x == [kind |-> "request", r |-> r, n |-> 1]
<1>20. x.r = r /\ x.kind = "request"
  OBVIOUS
<1> HIDE DEF x
<1>11. \A q : q \in RangeOf(asked') <=> q \in RangeOf(asked) \/ q = r
  BY <1>4
<1>12. \A q : q \in RangeOf(que') <=> q \in RangeOf(que)
  BY <1>1
<1>13. \A i \in 1 .. Len(up') : \/ i \in 1 .. Len(up) /\ up'[i] = up[i]
                                \/ i = Len(up) + 1 /\ up'[i] = x
  BY <1>5 DEF x
<1> HIDE DEF DeliveryTypeOK
<1>8. AskedFirst'
  <2>1. waiting' \subseteq RangeOf(asked)'
    BY <1>1, <1>4 DEF AskedFirst
  <2>2. \A i, j \in 1 .. Len(asked') : asked'[i] = asked'[j] => i = j
    BY <1>6, <1>7 DEF AskedFirst
  <2>3. \A i \in 1 .. Len(up') : up'[i].r \in RangeOf(asked')
    BY <1>11, <1>13, <1>20 DEF AskedFirst
  <2> QED
    BY <1>1, <1>11, <2>1, <2>2, <2>3 DEF AskedFirst
<1>9. InOnePlace'
  <2>1. made[r] = 0 /\ cur # r /\ r \notin RangeOf(que) /\ \A i \in 1 .. Len(up) : up[i].r # r
    BY <1>1, FreshRequest
  <2>2. \A i \in 1 .. Len(up') : up'[i].kind = "request" =>
           made'[up'[i].r] = 0 /\ cur' # up'[i].r /\ up'[i].r \notin RangeOf(que')
    BY <1>1, <1>12, <1>13, <1>20, <2>1 DEF InOnePlace
  <2>3. \A i, j \in 1 .. Len(up') :
           up'[i].kind = "request" /\ up'[j].kind = "request" /\ up'[i].r = up'[j].r => i = j
    BY <1>13, <1>20, <2>1 DEF InOnePlace
  <2> QED
    BY <1>1, <2>2, <2>3 DEF InOnePlace
<1>10. Working'
  BY <1>1 DEF Working
<1> QED
  BY <1>3, <1>8, <1>9, <1>10

\* The frames of TabResumes: one for each message that waits.
LEMMA ResumesWithFrom ==
    ASSUME PlacedInv, TabResumes
    PROVE  \E new \in Seq(UpType) :
              /\ up' = up \o new
              /\ \A i \in 1 .. Len(new) : /\ new[i].kind = "from" /\ new[i].r \in waiting
                                          /\ new[i].n = StartFrom(got[new[i].r])
              /\ \A i, j \in 1 .. Len(new) : new[i].r = new[j].r => i = j
              /\ \A r \in waiting : \E i \in 1 .. Len(new) : new[i].r = r
<1> USE DEF PlacedInv, DeliveryTypeOK
<1> DEFINE S == Kept(asked, waiting)
           new == [i \in 1 .. Len(S) |-> [kind |-> "from", r |-> S[i], n |-> StartFrom(got[S[i]])]]
<1>1. /\ S \in Seq(Requests)
      /\ \A x : x \in RangeOf(S) <=> x \in RangeOf(asked) /\ x \in waiting
      /\ \A i, j \in 1 .. Len(S) : S[i] = S[j] => i = j
  BY KeptProperties DEF AskedFirst
<1>2. up' = up \o new
  BY DEF TabResumes
<1> HIDE DEF S
<1>3. \A i \in 1 .. Len(S) : S[i] \in Requests /\ S[i] \in waiting
  BY <1>1 DEF RangeOf
<1>4. \A i \in 1 .. Len(S) : StartFrom(got[S[i]]) \in 1 .. Answers + 1
  BY <1>3, StartFromIsFirstMissing
<1>5. Len(S) \in Nat /\ \A i \in 1 .. Len(S) : new[i] \in UpType
  BY <1>1, <1>3, <1>4 DEF UpType
<1>6. new \in Seq(UpType) /\ Len(new) = Len(S)
  BY <1>5
<1>7. \A r \in waiting : \E i \in 1 .. Len(S) : S[i] = r
  <2>1. \A r \in waiting : r \in RangeOf(S)
    BY <1>1 DEF AskedFirst
  <2> QED
    BY <2>1 DEF RangeOf
<1> HIDE DEF new
<1>8. \A i \in 1 .. Len(S) : /\ new[i].kind = "from" /\ new[i].r = S[i]
                             /\ new[i].n = StartFrom(got[S[i]])
  BY DEF new
<1>9. /\ \A i \in 1 .. Len(new) : /\ new[i].kind = "from" /\ new[i].r \in waiting
                                  /\ new[i].n = StartFrom(got[new[i].r])
      /\ \A i, j \in 1 .. Len(new) : new[i].r = new[j].r => i = j
      /\ \A r \in waiting : \E i \in 1 .. Len(new) : new[i].r = r
  <2> HIDE DEF PlacedInv, DeliveryTypeOK
  <2> QED
    BY <1>1, <1>3, <1>6, <1>7, <1>8
<1> QED
  BY <1>2, <1>6, <1>9

LEMMA PlacedTabResumes ==
    ASSUME PlacedInv, TabResumes
    PROVE  PlacedInv'
<1> USE DEF PlacedInv, DeliveryTypeOK
<1>1. PICK new \in Seq(UpType) :
          /\ up' = up \o new
          /\ \A i \in 1 .. Len(new) : new[i].kind = "from" /\ new[i].r \in waiting
  BY ResumesWithFrom
<1>2. /\ down' = Tail(down) /\ down # <<>>
      /\ UNCHANGED <<asked, waiting, got, linked, cuts, open, que, cur, made, confirmed, work, resend, over, left>>
      /\ stale' = FALSE
  BY DEF TabResumes, tab, request, ids
<1>3. up' \in Seq(UpType) /\ down' \in Seq(DownType)
  BY <1>1, <1>2
<1>4. DeliveryTypeOK'
  BY <1>2, <1>3
<1>5. \A i \in 1 .. Len(up') :
          \/ i \in 1 .. Len(up) /\ up'[i] = up[i]
          \/ up'[i].kind = "from" /\ up'[i].r \in waiting
  <2>1. up \in Seq(UpType)
    OBVIOUS
  <2> HIDE DEF PlacedInv, DeliveryTypeOK
  <2> QED
    BY <1>1, <2>1, ConcatAt
<1> HIDE DEF DeliveryTypeOK
<1>6. AskedFirst'
  <2>1. \A i \in 1 .. Len(up') : up'[i].r \in RangeOf(asked)
    BY <1>5 DEF AskedFirst
  <2> QED
    BY <1>2, <2>1, AskedFirstKept
<1>7. InOnePlace'
  <2>1. \A i \in 1 .. Len(up') : up'[i].kind = "request" =>
            i + 0 \in 1 .. Len(up) /\ up'[i] = up[i + 0]
    BY <1>5
  <2> QED
    BY <1>2, <1>3, <2>1, InOnePlaceKept
<1>8. Working'
  BY <1>2 DEF Working
<1> QED
  BY <1>4, <1>6, <1>7, <1>8

LEMMA PlacedTabReceives ==
    ASSUME PlacedInv, TabReceives,
           down[1].r \in waiting => down[1].n \in Numbers
    PROVE  PlacedInv'
<1> USE DEF PlacedInv, DeliveryTypeOK
<1> DEFINE r == Head(down).r
           n == Head(down).n
           x == [kind |-> "confirm", r |-> r, n |-> n]
<1>1. /\ down' = Tail(down) /\ down # <<>>
      /\ \/ /\ r \in waiting /\ got' = [got EXCEPT ![r] = Append(@, n)]
            /\ up' = Append(up, x) /\ waiting' \subseteq waiting
         \/ UNCHANGED <<got, up, waiting>>
      /\ UNCHANGED <<asked, linked, cuts, open, que, cur, made, confirmed, work, resend, over, stale, left>>
  BY DEF TabReceives, request, ids
<1>2. down' \in Seq(DownType) /\ Head(down) = down[1]
  BY <1>1
<1>3. CASE UNCHANGED <<got, up, waiting>>
  BY <1>1, <1>2, <1>3 DEF AskedFirst, InOnePlace, Working
<1>4. CASE /\ r \in waiting /\ got' = [got EXCEPT ![r] = Append(@, n)]
           /\ up' = Append(up, x) /\ waiting' \subseteq waiting
  <2>1. r \in Requests /\ n \in Numbers /\ n \in 1 .. Answers + 1 /\ r \in RangeOf(asked)
    BY SMTT(30), <1>2, <1>4, AnswersAssumption DEF Numbers, AskedFirst
  <2> HIDE DEF r, n
  <2>2. x \in UpType
    BY <2>1 DEF UpType
  <2>3. up' \in Seq(UpType) /\ got' \in [Requests -> Seq(Numbers)]
    BY <1>4, <2>1, <2>2
  <2>4. DeliveryTypeOK'
    BY <1>1, <1>2, <1>4, <2>3
  <2>5. \A i \in 1 .. Len(up') : \/ i \in 1 .. Len(up) /\ up'[i] = up[i]
                                 \/ up'[i].kind = "confirm" /\ up'[i].r = r
    BY <1>4, <2>2, AppendAt
  <2>9. \A q \in Requests : q \notin RangeOf(asked) => got'[q] = got[q]
    BY <1>4, <2>1
  <2> HIDE DEF DeliveryTypeOK
  <2>6. AskedFirst'
    <3>1. \A i \in 1 .. Len(up') : up'[i].r \in RangeOf(asked)
      BY <2>1, <2>5 DEF AskedFirst
    <3> QED
      BY <1>1, <1>4, <2>9, <3>1, AskedFirstKept
  <2>7. InOnePlace'
    <3>1. \A i \in 1 .. Len(up') : up'[i].kind = "request" =>
              i + 0 \in 1 .. Len(up) /\ up'[i] = up[i + 0]
      BY <2>5
    <3> QED
      BY <1>1, <2>3, <3>1, InOnePlaceKept
  <2>8. Working'
    BY <1>1 DEF Working
  <2> QED
    BY <2>4, <2>6, <2>7, <2>8
<1> QED
  BY <1>1, <1>3, <1>4

\* Frames are lost or read: what is left is a part of what was on its way.
UpPart ==
    /\ up' \in Seq(UpType)
    /\ \E k \in Nat : \A i \in 1 .. Len(up') : i + k \in 1 .. Len(up) /\ up'[i] = up[i + k]

LEMMA TailIsPart ==
    ASSUME PlacedInv, up # <<>>, up' = Tail(up)
    PROVE  /\ UpPart /\ Head(up) = up[1] /\ 1 \in 1 .. Len(up) /\ Len(up') = Len(up) - 1
           /\ up[1] \in UpType
           /\ \A i \in 1 .. Len(up') : i + 1 \in 1 .. Len(up) /\ up'[i] = up[i + 1]
<1>1. up \in Seq(UpType)
  BY DEF PlacedInv, DeliveryTypeOK
<1>2. /\ up' \in Seq(UpType) /\ Len(up') = Len(up) - 1
      /\ Head(up) = up[1] /\ 1 \in 1 .. Len(up) /\ Head(up) \in UpType
      /\ \A i \in 1 .. Len(up') : up'[i] = up[i + 1] /\ i + 1 \in 1 .. Len(up)
  BY <1>1, TailAt
<1>3. 1 \in Nat
  OBVIOUS
<1> QED
  BY <1>2, <1>3 DEF UpPart

LEMMA PlacedPart ==
    ASSUME PlacedInv, UpPart, DeliveryTypeOK', Working', UNCHANGED <<tab, que, made>>,
           cur' = cur \/ cur' = None
    PROVE  PlacedInv'
<1> USE DEF PlacedInv
<1>1. PICK k \in Nat : \A i \in 1 .. Len(up') : i + k \in 1 .. Len(up) /\ up'[i] = up[i + k]
  BY DEF UpPart
<1>2. UNCHANGED <<asked, waiting, got, que, made>>
  BY DEF tab
<1>3. AskedFirst'
  <2>1. \A i \in 1 .. Len(up') : up'[i].r \in RangeOf(asked)
    BY <1>1 DEF AskedFirst
  <2> QED
    BY <1>2, <2>1, AskedFirstKept
<1>4. InOnePlace'
  BY <1>1, <1>2, InOnePlaceKept DEF UpPart
<1> QED
  BY <1>3, <1>4

LEMMA PlacedCut ==
    ASSUME PlacedInv, Cut
    PROVE  PlacedInv'
<1> USE DEF PlacedInv
<1>1. PICK n \in 0 .. Len(up) : up' = SubSeq(up, 1, n)
  BY DEF Cut
<1>2. UpPart
  <2>1. /\ up' \in Seq(UpType)
        /\ \A i \in 1 .. Len(up') : up'[i] = up[i] /\ i \in 1 .. Len(up)
    BY <1>1, PrefixAt DEF DeliveryTypeOK
  <2>2. \A i \in 1 .. Len(up') : i + 0 \in 1 .. Len(up) /\ up'[i] = up[i + 0]
    BY <2>1
  <2> QED
    BY <2>1, <2>2 DEF UpPart
<1>3. /\ down' = <<>> /\ linked' = FALSE /\ cuts' = cuts + 1
      /\ UNCHANGED <<asked, waiting, got, open, que, cur, made, confirmed, work, resend, over, stale, left>>
  BY DEF Cut, tab, request, ids
<1>4. DeliveryTypeOK'
  <2>1. cuts + 1 \in 0 .. MaxCuts
    BY MaxCutsAssumption DEF Cut, DeliveryTypeOK
  <2>2. up' \in Seq(UpType) /\ down' \in Seq(DownType)
    BY <1>2, <1>3 DEF UpPart
  <2> HIDE DEF PlacedInv
  <2>3. DeliveryTypeOK
    BY DEF PlacedInv
  <2> QED
    BY <1>3, <2>1, <2>2, <2>3 DEF DeliveryTypeOK
<1>5. Working'
  BY <1>3 DEF Working
<1> QED
  BY <1>2, <1>3, <1>4, <1>5, PlacedPart DEF tab

\* A reconnect finds the session, or leaves it behind for an empty one.
LEMMA Reconnects ==
    ASSUME PlacedInv, Reconnect
    PROVE  /\ up' = <<>> /\ down' = <<[kind |-> "session", r |-> None, n |-> 0]>>
           /\ resend' = None /\ linked' = TRUE /\ open' = TRUE /\ stale' = TRUE
           /\ UNCHANGED <<asked, waiting, got, cuts, made, confirmed, over>>
           /\ \/ UNCHANGED <<que, cur, work>>
              \/ que' = <<>> /\ cur' = None /\ work' = "none"
           /\ left' \subseteq Requests
<1>1. /\ left \subseteq Requests /\ que \in Seq(Requests) /\ cur \in Requests \cup {None}
  BY DEF PlacedInv, DeliveryTypeOK
<1>2. RangeOf(que) \subseteq Requests
  BY <1>1 DEF RangeOf
<1> QED
  BY <1>1, <1>2 DEF Reconnect, Recovers, tab, request

LEMMA PlacedReconnect ==
    ASSUME PlacedInv, Reconnect
    PROVE  PlacedInv'
<1>1. [kind |-> "session", r |-> None, n |-> 0] \in DownType
  BY AnswersAssumption DEF DownType
<1>2. down' \in Seq(DownType) /\ up' = <<>> /\ Len(up') = 0 /\ up' \in Seq(UpType)
  <2>1. PICK x \in DownType : down' = <<x>>
    BY <1>1, Reconnects
  <2>2. down' \in Seq(DownType)
    BY <2>1
  <2> QED
    BY <2>2, Reconnects
<1>3. /\ resend' = None /\ linked' = TRUE /\ open' = TRUE /\ stale' = TRUE
      /\ UNCHANGED <<asked, waiting, got, cuts, made, confirmed, over>>
      /\ \/ UNCHANGED <<que, cur, work>>
         \/ que' = <<>> /\ cur' = None /\ work' = "none"
      /\ left' \subseteq Requests
  BY Reconnects
<1>4. DeliveryTypeOK'
  <2>1. /\ asked' \in Seq(Requests) /\ waiting' \subseteq Requests /\ cuts' \in 0 .. MaxCuts
        /\ got' \in [Requests -> Seq(Numbers)] /\ made' \in [Requests -> 0 .. Answers]
        /\ confirmed' \in [Requests -> SUBSET Numbers] /\ over' \in BOOLEAN
    BY <1>3 DEF PlacedInv, DeliveryTypeOK
  <2>2. /\ que' \in Seq(Requests) /\ cur' \in Requests \cup {None}
        /\ work' \in {"none", "active", "paused", "done"}
    <3>1. /\ que \in Seq(Requests) /\ cur \in Requests \cup {None} /\ <<>> \in Seq(Requests)
          /\ work \in {"none", "active", "paused", "done"}
      BY DEF PlacedInv, DeliveryTypeOK
    <3>2. CASE UNCHANGED <<que, cur, work>>
      BY <3>1, <3>2
    <3>3. CASE que' = <<>> /\ cur' = None /\ work' = "none"
      BY <3>1, <3>3
    <3> QED
      BY <1>3, <3>2, <3>3
  <2>3. {linked', open', over', stale'} \subseteq BOOLEAN
    BY <1>3, <2>1
  <2> QED
    BY <1>2, <1>3, <2>1, <2>2, <2>3 DEF DeliveryTypeOK
<1>5. AskedFirst'
  <2>1. \A r : r \in RangeOf(asked') <=> r \in RangeOf(asked)
    BY <1>3
  <2>2. CASE UNCHANGED <<que, cur, work>>
    BY <1>2, <1>3, <2>1, <2>2 DEF PlacedInv, AskedFirst
  <2>3. CASE que' = <<>> /\ cur' = None /\ work' = "none"
    BY <1>2, <1>3, <2>1, <2>3 DEF PlacedInv, AskedFirst
  <2> QED
    BY <1>3, <2>2, <2>3
<1>6. InOnePlace'
  <2>2. CASE UNCHANGED <<que, cur, work>>
    BY <1>2, <1>3, <2>2 DEF PlacedInv, InOnePlace
  <2>3. CASE que' = <<>> /\ cur' = None /\ work' = "none"
    BY <1>2, <1>3, <2>3 DEF InOnePlace
  <2> QED
    BY <1>3, <2>2, <2>3
<1>7. Working'
  BY <1>3 DEF PlacedInv, Working
<1> QED
  BY <1>4, <1>5, <1>6, <1>7 DEF PlacedInv

LEMMA PlacedReadConfirm ==
    ASSUME PlacedInv, ReadConfirm
    PROVE  PlacedInv'
<1> USE DEF PlacedInv
<1>1. UpPart /\ Head(up) = up[1] /\ 1 \in 1 .. Len(up)
  BY TailIsPart DEF ReadConfirm, ReadsFrame
<1>2. /\ UNCHANGED <<tab, down, linked, cuts, open, que, made, resend, stale, left>>
      /\ \/ cur' = cur /\ work' = work /\ over' = FALSE
         \/ cur' = None /\ work' = "none" /\ over' = (resend # None)
      /\ \/ confirmed' = confirmed
         \/ /\ cur # None /\ Head(up).n \in 1 .. made[cur]
            /\ confirmed' = [confirmed EXCEPT ![cur] = @ \cup {Head(up).n}]
      /\ ~ over
  BY DEF ReadConfirm, ReadsFrame, ids
<1>3. confirmed' \in [Requests -> SUBSET Numbers]
  <2>1. CASE confirmed' = confirmed
    BY <2>1 DEF DeliveryTypeOK
  <2>2. CASE /\ cur # None /\ Head(up).n \in 1 .. made[cur]
             /\ confirmed' = [confirmed EXCEPT ![cur] = @ \cup {Head(up).n}]
    <3>1. cur \in Requests /\ made[cur] \in 0 .. Answers /\ confirmed \in [Requests -> SUBSET Numbers]
      BY <2>2 DEF DeliveryTypeOK
    <3>2. Head(up).n \in Numbers
      BY <2>2, <3>1, AnswersAssumption DEF Numbers
    <3> HIDE DEF PlacedInv
    <3> QED
      BY <2>2, <3>1, <3>2
  <2> QED
    BY <1>2, <2>1, <2>2
<1>4. DeliveryTypeOK'
  BY <1>1, <1>2, <1>3 DEF DeliveryTypeOK, UpPart, tab
<1>5. Working'
  BY <1>2 DEF Working
<1> QED
  BY <1>1, <1>2, <1>4, <1>5, PlacedPart

LEMMA PlacedReadFrom ==
    ASSUME PlacedInv, ReadFrom
    PROVE  PlacedInv'
<1> USE DEF PlacedInv
<1>1. UpPart /\ Head(up) = up[1] /\ up[1] \in UpType
  BY TailIsPart DEF ReadFrom, ReadsFrame
<1>2. /\ UNCHANGED <<tab, down, linked, cuts, open, que, cur, made, confirmed, work, over, stale, left>>
      /\ \/ resend' = resend
         \/ up[1].r = cur /\ resend' = [i |-> up[1].n, upto |-> made[cur]]
  BY <1>1 DEF ReadFrom, request, ids
<1>3. up[1].n \in Nat \ {0} /\ up[1].r \in Requests
  BY <1>1, AnswersAssumption DEF UpType
<1>4. resend' \in [i : Nat \ {0}, upto : 0 .. Answers] \cup {None}
  <2>1. /\ resend \in [i : Nat \ {0}, upto : 0 .. Answers] \cup {None}
        /\ made \in [Requests -> 0 .. Answers]
    BY DEF DeliveryTypeOK
  <2>2. up[1].r = cur => made[cur] \in 0 .. Answers
    BY <1>3, <2>1
  <2> HIDE DEF PlacedInv
  <2> QED
    BY <1>2, <1>3, <2>1, <2>2
<1>5. DeliveryTypeOK'
  BY <1>1, <1>2, <1>4 DEF DeliveryTypeOK, UpPart, tab
<1>6. Working'
  <2>1. up[1].r = cur => cur # None /\ made[cur] \in Nat
    BY <1>3, NoRequestAssumption DEF DeliveryTypeOK
  <2> QED
    BY <1>2, <2>1 DEF Working
<1> QED
  BY <1>1, <1>2, <1>5, <1>6, PlacedPart

LEMMA PlacedReadRequest ==
    ASSUME PlacedInv, ReadRequest
    PROVE  PlacedInv'
<1> DEFINE r == up[1].r
<1>1. /\ up # <<>> /\ up' = Tail(up) /\ Head(up).kind = "request" /\ que' = Append(que, Head(up).r)
      /\ UNCHANGED <<asked, waiting, got, down, linked, cuts, open, cur, made, confirmed, work, resend, over, stale, left>>
  BY DEF ReadRequest, ReadsFrame, tab, ids
<1>2. /\ up' \in Seq(UpType) /\ up[1] \in UpType /\ Head(up) = up[1] /\ 1 \in 1 .. Len(up)
      /\ Len(up') = Len(up) - 1
      /\ \A i \in 1 .. Len(up') : i + 1 \in 1 .. Len(up) /\ up'[i] = up[i + 1]
  BY <1>1, TailIsPart DEF UpPart
<1>3. r \in Requests
  BY <1>2 DEF UpType
<1>4. que \in Seq(Requests)
  BY DEF PlacedInv, DeliveryTypeOK
<1>5. DeliveryTypeOK'
  <2>1. que' \in Seq(Requests)
    BY <1>1, <1>2, <1>3, <1>4
  <2> QED
    BY <1>1, <1>2, <2>1 DEF PlacedInv, DeliveryTypeOK
<1>6. \A i \in 1 .. Len(que') : \/ i \in 1 .. Len(que) /\ que'[i] = que[i]
                                \/ i = Len(que) + 1 /\ que'[i] = r
  BY <1>1, <1>2, <1>3, <1>4, AppendAt
<1>7. RangeOf(que') = RangeOf(que) \cup {r}
  BY <1>1, <1>2, <1>3, <1>4, RangeAppend
<1>8. made[r] = 0 /\ cur # r /\ r \notin RangeOf(que) /\ r \in RangeOf(asked)
  BY <1>1, <1>2 DEF PlacedInv, InOnePlace, AskedFirst
<1>9. ASSUME NEW i \in 1 .. Len(up'), up'[i].kind = "request"
      PROVE  up'[i].r # r
  BY <1>1, <1>2, <1>9 DEF PlacedInv, InOnePlace
<1> HIDE DEF r
<1>10. AskedFirst'
  <2>1. \A i \in 1 .. Len(up') : up'[i].r \in RangeOf(asked)
    BY <1>2 DEF PlacedInv, AskedFirst
  <2>2. \A i \in 1 .. Len(que') : que'[i] \in RangeOf(asked)
    BY <1>6, <1>8 DEF PlacedInv, AskedFirst
  <2> QED
    BY <1>1, <2>1, <2>2 DEF PlacedInv, AskedFirst
<1>11. InOnePlace'
  <2>1. ASSUME NEW i \in 1 .. Len(up'), up'[i].kind = "request"
        PROVE  made'[up'[i].r] = 0 /\ cur' # up'[i].r /\ up'[i].r \notin RangeOf(que')
    BY <1>1, <1>2, <1>7, <1>9, <2>1 DEF PlacedInv, InOnePlace
  <2>2. ASSUME NEW i \in 1 .. Len(up'), NEW j \in 1 .. Len(up'),
               up'[i].kind = "request", up'[j].kind = "request", up'[i].r = up'[j].r
        PROVE  i = j
    <3>1. i + 1 = j + 1
      BY SMTT(30), <1>2, <2>2 DEF PlacedInv, InOnePlace
    <3> QED
      BY <3>1
  <2>3. \A i \in 1 .. Len(que') : made'[que'[i]] = 0 /\ cur' # que'[i]
    BY <1>1, <1>6, <1>8 DEF PlacedInv, InOnePlace
  <2>4. \A i, j \in 1 .. Len(que') : que'[i] = que'[j] => i = j
    <3>1. \A i \in 1 .. Len(que) : que[i] # r
      BY <1>8 DEF RangeOf
    <3> QED
      BY <1>6, <3>1 DEF PlacedInv, InOnePlace
  <2> QED
    BY <2>1, <2>2, <2>3, <2>4 DEF InOnePlace
<1>12. Working'
  BY <1>1 DEF PlacedInv, Working
<1> QED
  BY <1>5, <1>10, <1>11, <1>12 DEF PlacedInv

LEMMA PlacedStart ==
    ASSUME PlacedInv, Start
    PROVE  PlacedInv'
<1>1. /\ ~ over /\ cur = None /\ que # <<>> /\ cur' = Head(que) /\ que' = Tail(que) /\ work' = "active"
      /\ UNCHANGED <<asked, waiting, got, up, down, linked, cuts, open, made, confirmed, resend, over, stale, left>>
  BY DEF Start, CanStart, tab, ids
<1>2. que \in Seq(Requests)
  BY DEF PlacedInv, DeliveryTypeOK
<1>3. /\ que' \in Seq(Requests) /\ Head(que) = que[1] /\ 1 \in 1 .. Len(que) /\ cur' \in Requests
      /\ \A i \in 1 .. Len(que') : que'[i] = que[i + 1] /\ i + 1 \in 1 .. Len(que)
  BY <1>1, <1>2, TailAt
<1>4. RangeOf(que) = {cur'} \cup RangeOf(que')
  BY <1>1, <1>2, RangeTail
<1>5. DeliveryTypeOK'
  BY <1>1, <1>3 DEF PlacedInv, DeliveryTypeOK
<1>6. made[cur'] = 0 /\ cur' \in RangeOf(asked)
  BY <1>1, <1>3 DEF PlacedInv, InOnePlace, AskedFirst
<1>7. AskedFirst'
  <2>1. \A i \in 1 .. Len(que') : que'[i] \in RangeOf(asked)
    BY <1>3 DEF PlacedInv, AskedFirst
  <2> QED
    BY <1>1, <1>6, <2>1 DEF PlacedInv, AskedFirst
<1>8. InOnePlace'
  <2>1. \A i \in 1 .. Len(up') : up'[i].kind = "request" =>
            made'[up'[i].r] = 0 /\ cur' # up'[i].r /\ up'[i].r \notin RangeOf(que')
    BY <1>1, <1>4 DEF PlacedInv, InOnePlace
  <2>2. ASSUME NEW i \in 1 .. Len(que')
        PROVE  made'[que'[i]] = 0 /\ cur' # que'[i]
    <3>1. que'[i] = que[i + 1] /\ i + 1 \in 1 .. Len(que) /\ i + 1 # 1
      BY <1>2, <1>3
    <3>2. que[i + 1] # que[1]
      BY <1>3, <3>1 DEF PlacedInv, InOnePlace
    <3> QED
      BY <1>1, <1>3, <3>1, <3>2 DEF PlacedInv, InOnePlace
  <2>3. ASSUME NEW i \in 1 .. Len(que'), NEW j \in 1 .. Len(que'), que'[i] = que'[j]
        PROVE  i = j
    <3>1. i + 1 = j + 1
      BY <1>3, <2>3 DEF PlacedInv, InOnePlace
    <3> QED
      BY <3>1
  <2> QED
    BY <1>1, <2>1, <2>2, <2>3 DEF PlacedInv, InOnePlace
<1>9. Working'
  <2>1. resend' # None /\ ~ over' => FALSE
    BY <1>1 DEF PlacedInv, Working
  <2>2. cur' # None /\ made'[cur'] = 0 /\ 0 < Answers
    BY <1>1, <1>3, <1>6, NoRequestAssumption, AnswersAssumption
  <2> QED
    BY <1>1, <2>1, <2>2 DEF Working
<1> QED
  BY <1>5, <1>7, <1>8, <1>9 DEF PlacedInv

LEMMA PlacedAnswer ==
    ASSUME PlacedInv, Answer
    PROVE  PlacedInv'
<1> DEFINE n == made[cur] + 1
           x == [kind |-> "answer", r |-> cur, n |-> n]
<1>1. /\ ~ over /\ cur # None /\ work = "active"
      /\ made' = [made EXCEPT ![cur] = n]
      /\ down' = Append(down, x) \/ down' = down
      /\ work' = IF n = Answers THEN "done" ELSE IF open THEN "active" ELSE "paused"
      /\ UNCHANGED <<asked, waiting, got, up, linked, cuts, open, que, cur, confirmed, resend, over, stale, left>>
  BY DEF Answer, Sends, tab, ids
<1>2. cur \in Requests /\ made[cur] \in 0 .. Answers /\ made \in [Requests -> 0 .. Answers]
  BY <1>1 DEF PlacedInv, DeliveryTypeOK
<1>3. made[cur] < Answers
  BY <1>1 DEF PlacedInv, Working
<1>4. n \in Numbers /\ n \in 0 .. Answers /\ n \in Nat /\ n <= Answers /\ made[cur] <= n
  BY <1>2, <1>3, AnswersAssumption DEF Numbers
<1>5. made' \in [Requests -> 0 .. Answers] /\ made'[cur] = n
      /\ \A r \in Requests : r # cur => made'[r] = made[r]
  BY <1>1, <1>2, <1>4
<1>6. x \in DownType
  BY <1>2, <1>4 DEF DownType
<1> HIDE DEF n, x
<1>7. down' \in Seq(DownType)
  <2>1. down \in Seq(DownType)
    BY DEF PlacedInv, DeliveryTypeOK
  <2> QED
    BY <1>1, <1>6, <2>1
<1>8. DeliveryTypeOK'
  BY <1>1, <1>5, <1>7 DEF PlacedInv, DeliveryTypeOK
<1>9. AskedFirst'
  <2>1. cur \in RangeOf(asked)
    BY <1>1 DEF PlacedInv, AskedFirst
  <2>2. ASSUME NEW r \in Requests, r \notin RangeOf(asked)
        PROVE  made'[r] = 0 /\ got'[r] = <<>>
    BY <1>1, <1>5, <2>1, <2>2 DEF PlacedInv, AskedFirst
  <2> QED
    BY <1>1, <2>2 DEF PlacedInv, AskedFirst
<1>10. InOnePlace'
  <2>1. \A i \in 1 .. Len(up) : up[i].r \in Requests
    <3>1. \A y \in UpType : y.r \in Requests
      BY DEF UpType
    <3>2. \A i \in 1 .. Len(up) : up[i] \in UpType
      BY DEF PlacedInv, DeliveryTypeOK
    <3> QED
      BY <3>1, <3>2
  <2>2. \A i \in 1 .. Len(que) : que[i] \in Requests
    BY DEF PlacedInv, DeliveryTypeOK
  <2> QED
    BY <1>1, <1>5, <2>1, <2>2 DEF PlacedInv, InOnePlace
<1>11. Working'
  <2>1. work' \in {"active", "paused"} => made'[cur] < Answers
    BY <1>1, <1>4, <1>5, AnswersAssumption
  <2>2. work' # "none" /\ (work' = "done" => made'[cur] = Answers)
    BY <1>1, <1>5
  <2>3. resend # None => resend.upto <= made'[cur]
    <3>1. resend # None => resend.upto <= made[cur] /\ resend.upto \in Nat
      BY <1>1 DEF PlacedInv, Working, DeliveryTypeOK
    <3> QED
      BY <1>2, <1>4, <1>5, <3>1
  <2> QED
    BY <1>1, <2>1, <2>2, <2>3 DEF Working
<1> QED
  BY <1>8, <1>9, <1>10, <1>11 DEF PlacedInv

\* The steps of the server that no request moves with, and stuttering.
Quiet == Pause \/ ServerNotices \/ WindowPasses \/ ResendOne \/ ResendEnds \/ UNCHANGED dvars

LEMMA QuietSteps ==
    ASSUME PlacedInv, Quiet
    PROVE  /\ UNCHANGED <<asked, waiting, got, up, linked, cuts, que, cur, made, confirmed, stale, left>>
           /\ \/ UNCHANGED <<down, resend, work>>
              \/ UNCHANGED <<down, resend>> /\ cur # None /\ work = "active" /\ work' = "paused"
              \/ /\ ~ over /\ over' = over /\ resend # None /\ cur # None
                 /\ UNCHANGED work \/ (work = "paused" /\ work' = "active")
                 /\ \/ resend' = None
                    \/ resend' = [resend EXCEPT !.i = @ + 1] /\ resend.i < resend.upto
                 /\ \/ UNCHANGED down
                    \/ /\ resend.i <= resend.upto /\ resend.i \in Numbers
                       /\ down' = Append(down, [kind |-> "answer", r |-> cur, n |-> resend.i])
           /\ ~ over' => ~ over
<1>1. UNCHANGED <<asked, waiting, got, up, linked, cuts, que, cur, made, confirmed, stale, left>>
  BY DEF Quiet, Pause, ServerNotices, WindowPasses, ResendOne, ResendEnds, dvars, tab, request, ids
<1>2. CASE Pause \/ ServerNotices \/ WindowPasses \/ UNCHANGED dvars
  BY <1>1, <1>2 DEF Pause, ServerNotices, WindowPasses, dvars, tab, request, ids, PlacedInv, Working
<1>3. CASE ResendOne \/ ResendEnds
  <2>1. resend # None /\ ~ over /\ over' = over
    BY <1>3 DEF ResendOne, ResendEnds
  <2>2. cur # None
    BY <2>1 DEF PlacedInv, Working
  <2>3. resend.i \in Nat \ {0} /\ resend.upto \in 0 .. Answers
    BY <2>1 DEF PlacedInv, DeliveryTypeOK
  <2>4. resend.i <= resend.upto => resend.i \in Numbers
    BY <2>3, AnswersAssumption DEF Numbers
  <2>5. CASE ResendOne
    <3>1. /\ UNCHANGED work /\ resend.i < resend.upto /\ resend' = [resend EXCEPT !.i = @ + 1]
          /\ \/ UNCHANGED down
             \/ down' = Append(down, [kind |-> "answer", r |-> cur, n |-> resend.i])
      BY <2>5 DEF ResendOne, Sends, request, ids
    <3>2. resend.i <= resend.upto
      BY <2>3, <3>1
    <3> QED
      BY <1>1, <2>1, <2>2, <2>4, <3>1, <3>2
  <2>6. CASE ResendEnds
    <3>1. /\ UNCHANGED work \/ (work = "paused" /\ work' = "active")
          /\ resend' = None
          /\ \/ UNCHANGED down
             \/ /\ ~ resend.i > resend.upto
                /\ down' = Append(down, [kind |-> "answer", r |-> cur, n |-> resend.i])
      BY <2>6 DEF ResendEnds, Sends
    <3>2. resend.i > resend.upto \/ resend.i <= resend.upto
      BY <2>3
    <3> QED
      BY <1>1, <2>1, <2>2, <2>4, <3>1, <3>2
  <2> QED
    BY <1>3, <2>5, <2>6
<1> QED
  BY <1>2, <1>3 DEF Quiet

LEMMA PlacedQuiet ==
    ASSUME PlacedInv, Quiet
    PROVE  PlacedInv'
<1>1. /\ UNCHANGED <<asked, waiting, got, up, linked, cuts, que, cur, made, confirmed, stale, left>>
      /\ ~ over' => ~ over
  BY QuietSteps
<1>2. down' \in Seq(DownType)
  <2>1. down \in Seq(DownType)
    BY DEF PlacedInv, DeliveryTypeOK
  <2>2. cur \in Requests \cup {None}
    BY DEF PlacedInv, DeliveryTypeOK
  <2>3. resend.i \in Numbers => [kind |-> "answer", r |-> cur, n |-> resend.i] \in DownType
    BY <2>2 DEF DownType, Numbers
  <2> QED
    BY <2>1, <2>3, QuietSteps
<1>3. /\ resend' \in [i : Nat \ {0}, upto : 0 .. Answers] \cup {None}
      /\ resend' # None => resend # None /\ resend'.upto = resend.upto
  <2>1. resend \in [i : Nat \ {0}, upto : 0 .. Answers] \cup {None}
    BY DEF PlacedInv, DeliveryTypeOK
  <2>2. \/ UNCHANGED resend \/ resend' = None
        \/ resend # None /\ resend' = [resend EXCEPT !.i = @ + 1]
    BY QuietSteps
  <2> QED
    BY <2>1, <2>2
<1>4. /\ work' \in {"none", "active", "paused", "done"}
      /\ work' = work \/ (work \in {"active", "paused"} /\ work' \in {"active", "paused"} /\ cur # None)
  <2>1. work \in {"none", "active", "paused", "done"}
    BY DEF PlacedInv, DeliveryTypeOK
  <2> QED
    BY <2>1, QuietSteps
<1>5. {open', over'} \subseteq BOOLEAN
  <2>1. \/ UNCHANGED <<open, over>>
        \/ open' = FALSE /\ UNCHANGED over
        \/ open' = FALSE /\ over' = (cur = None)
        \/ over' = TRUE /\ UNCHANGED open
    BY DEF Quiet, Pause, ServerNotices, WindowPasses, ResendOne, ResendEnds, dvars
  <2>2. {open, over} \subseteq BOOLEAN
    BY DEF PlacedInv, DeliveryTypeOK
  <2> QED
    BY <2>1, <2>2
<1>6. DeliveryTypeOK'
  BY <1>1, <1>2, <1>3, <1>4, <1>5 DEF PlacedInv, DeliveryTypeOK
<1>7. Working'
  BY <1>1, <1>3, <1>4 DEF PlacedInv, Working
<1>8. AskedFirst' /\ InOnePlace'
  BY <1>1 DEF PlacedInv, AskedFirst, InOnePlace
<1> QED
  BY <1>6, <1>7, <1>8 DEF PlacedInv

LEMMA PlacedStep ==
    ASSUME ConfirmInv, [DeliveryNext]_dvars
    PROVE  PlacedInv'
<1>1. PlacedInv /\ FramesName
  BY DEF ConfirmInv
<1>2. CASE TabReceives
  <2>1. down # <<>> /\ Head(down).kind = "answer" /\ down \in Seq(DownType)
    BY <1>1, <1>2 DEF TabReceives, PlacedInv, DeliveryTypeOK
  <2>2. Head(down) = down[1] /\ 1 \in 1 .. Len(down)
    BY <2>1
  <2>3. down[1].n \in Numbers
    BY <1>1, <2>1, <2>2 DEF FramesName
  <2> QED
    BY <1>1, <1>2, <2>3, PlacedTabReceives
<1>3. CASE Quiet
  BY <1>1, <1>3, PlacedQuiet
<1> QED
  BY <1>1, <1>2, <1>3, PlacedTabRequests, PlacedTabResumes, PlacedCut, PlacedReconnect, PlacedReadConfirm,
     PlacedReadFrom, PlacedReadRequest, PlacedStart, PlacedAnswer DEF DeliveryNext, Quiet

-----------------------------------------------------------------------------
(* What the frames under way are about.                                    *)

LEMMA FrameTypes ==
    ASSUME PlacedInv
    PROVE  /\ Len(up) \in Nat /\ Len(down) \in Nat
           /\ \A i \in 1 .. Len(up) : up[i] \in UpType /\ up[i].r \in Requests /\ up[i].r # None
           /\ \A i \in 1 .. Len(down) : down[i] \in DownType
           /\ RangeOf(asked) \subseteq Requests /\ None \notin RangeOf(asked) /\ None \notin waiting
           /\ cur # None => cur \in Requests /\ cur \in RangeOf(asked)
<1>1. /\ up \in Seq(UpType) /\ down \in Seq(DownType) /\ asked \in Seq(Requests)
      /\ waiting \subseteq Requests /\ cur \in Requests \cup {None}
  BY DEF PlacedInv, DeliveryTypeOK
<1>2. \A x \in UpType : x.r \in Requests
  BY DEF UpType
<1>3. \A i \in 1 .. Len(up) : up[i] \in UpType
  BY <1>1
<1>4. RangeOf(asked) \subseteq Requests
  BY <1>1 DEF RangeOf
<1>5. cur # None => cur \in RangeOf(asked)
  BY DEF PlacedInv, AskedFirst
<1> QED
  BY <1>1, <1>2, <1>3, <1>4, <1>5, NoRequestAssumption

\* What most actions leave alone: CONFIRMs are lost or read, and what is sent
\* is an answer of the current request.
LEMMA FramesKept ==
    ASSUME ConfirmInv, UNCHANGED <<asked, waiting, got, cur>>,
           NEW k \in Nat,
           \A i \in 1 .. Len(up') : up'[i].kind = "confirm" =>
               i + k \in 1 .. Len(up) /\ up'[i] = up[i + k],
           \A i \in 1 .. Len(down') : down'[i].kind = "answer" =>
               \/ \E j \in 1 .. Len(down) : down'[i] = down[j]
               \/ down'[i].r = cur /\ cur # None /\ down'[i].n \in Numbers,
           Len(up') \in Nat
    PROVE  FramesName'
<1>1. PlacedInv /\ FramesName
  BY DEF ConfirmInv
<1>2. ASSUME NEW i \in 1 .. Len(up'), up'[i].kind = "confirm"
      PROVE  /\ up'[i].r = cur'
             /\ up'[i].n \in RangeOf(got'[up'[i].r])
             /\ up'[i].n = Answers => up'[i].r \notin waiting'
  <2>1. i + k \in 1 .. Len(up) /\ up'[i] = up[i + k]
    BY <1>2
  <2> QED
    BY <1>1, <1>2, <2>1 DEF FramesName
<1>3. ASSUME NEW i \in 1 .. Len(up'), NEW j \in 1 .. Len(up'), i < j,
             up'[i].kind = "confirm", up'[j].kind = "confirm"
      PROVE  up'[i].n # Answers
  <2>1. /\ i + k \in 1 .. Len(up) /\ up'[i] = up[i + k]
        /\ j + k \in 1 .. Len(up) /\ up'[j] = up[j + k]
    BY <1>3
  <2>2. i + k < j + k
    BY <1>3
  <2> QED
    BY <1>1, <1>3, <2>1, <2>2 DEF FramesName
<1>4. ASSUME NEW i \in 1 .. Len(down'), down'[i].kind = "answer"
      PROVE  /\ down'[i].r \in RangeOf(asked')
             /\ down'[i].n \in Numbers
             /\ down'[i].r = cur' \/ down'[i].r \notin waiting'
  <2>1. CASE \E j \in 1 .. Len(down) : down'[i] = down[j]
    BY <1>1, <1>4, <2>1 DEF FramesName
  <2>2. CASE down'[i].r = cur /\ cur # None /\ down'[i].n \in Numbers
    BY <1>1, <2>2, FrameTypes
  <2> QED
    BY <1>4, <2>1, <2>2
<1>5. \A r \in Requests : Answers \in RangeOf(got'[r]) => r \notin waiting'
  BY <1>1 DEF FramesName
<1> QED
  BY <1>2, <1>3, <1>4, <1>5 DEF FramesName

LEMMA FramesTabRequests ==
    ASSUME ConfirmInv, NEW r \in Requests, TabRequests(r)
    PROVE  FramesName'
<1> DEFINE x == [kind |-> "request", r |-> r, n |-> 1]
<1>1. PlacedInv /\ FramesName
  BY DEF ConfirmInv
<1>2. /\ waiting' = waiting \cup {r} /\ r \notin RangeOf(asked) /\ up' = Append(up, x)
      /\ asked' = Append(asked, r) /\ UNCHANGED <<got, down, cur>>
  BY DEF TabRequests, request, ids
<1>3. asked \in Seq(Requests) /\ up \in Seq(UpType) /\ x \in UpType
  BY <1>1, AnswersAssumption DEF PlacedInv, DeliveryTypeOK, UpType
<1>4. RangeOf(asked') = RangeOf(asked) \cup {r}
  BY <1>2, <1>3, RangeAppend
<1>5. \A i \in 1 .. Len(up') : \/ i \in 1 .. Len(up) /\ up'[i] = up[i]
                               \/ i = Len(up) + 1 /\ up'[i] = x
  BY <1>2, <1>3, AppendAt
<1>6. x.kind = "request"
  OBVIOUS
<1> HIDE DEF x
<1>7. \A i \in 1 .. Len(up') : up'[i].kind = "confirm" => i \in 1 .. Len(up) /\ up'[i] = up[i]
  BY <1>5, <1>6
<1>8. got[r] = <<>> /\ cur # r /\ \A i \in 1 .. Len(up) : up[i].r # r
  BY <1>1, <1>2, FreshRequest
<1>9. Answers \notin RangeOf(got[r])
  BY <1>8 DEF RangeOf
<1>10. \A i \in 1 .. Len(up') : up'[i].kind = "confirm" =>
           /\ up'[i].r = cur'
           /\ up'[i].n \in RangeOf(got'[up'[i].r])
           /\ up'[i].n = Answers => up'[i].r \notin waiting'
  BY <1>1, <1>2, <1>7, <1>8 DEF FramesName
<1>11. \A i, j \in 1 .. Len(up') :
           i < j /\ up'[i].kind = "confirm" /\ up'[j].kind = "confirm" => up'[i].n # Answers
  BY <1>1, <1>7 DEF FramesName
<1>12. \A i \in 1 .. Len(down') : down'[i].kind = "answer" =>
           /\ down'[i].r \in RangeOf(asked')
           /\ down'[i].n \in Numbers
           /\ down'[i].r = cur' \/ down'[i].r \notin waiting'
  BY <1>1, <1>2, <1>4 DEF FramesName
<1>13. \A q \in Requests : Answers \in RangeOf(got'[q]) => q \notin waiting'
  BY <1>1, <1>2, <1>9 DEF FramesName
<1> QED
  BY <1>10, <1>11, <1>12, <1>13 DEF FramesName

\* An answer that is not ignored is of the current request.
LEMMA Receives ==
    ASSUME ConfirmInv, TabReceives
    PROVE  /\ 1 \in 1 .. Len(down) /\ down[1].kind = "answer" /\ down[1].n \in Numbers
           /\ Len(down') = Len(down) - 1
           /\ \A i \in 1 .. Len(down') : i + 1 \in 1 .. Len(down) /\ down'[i] = down[i + 1]
           /\ UNCHANGED <<asked, linked, cuts, open, que, cur, made, confirmed, work, resend, over>>
           /\ \/ down[1].r \notin waiting /\ UNCHANGED <<got, up, waiting>>
              \/ /\ down[1].r = cur /\ cur \in waiting /\ cur \in Requests
                 /\ waiting' = IF down[1].n = Answers THEN waiting \ {cur} ELSE waiting
                 /\ Len(up) \in Nat /\ Len(up') = Len(up) + 1
                 /\ \A i \in 1 .. Len(up') :
                        \/ i \in 1 .. Len(up) /\ up'[i] = up[i]
                        \/ i = Len(up) + 1 /\ up'[i] = [kind |-> "confirm", r |-> cur, n |-> down[1].n]
                 /\ \A i \in 1 .. Len(up) : i \in 1 .. Len(up') /\ up'[i] = up[i]
                 /\ \A q \in Requests :
                        RangeOf(got'[q]) = IF q = cur THEN RangeOf(got[q]) \cup {down[1].n} ELSE RangeOf(got[q])
<1> DEFINE r == Head(down).r
           n == Head(down).n
           x == [kind |-> "confirm", r |-> r, n |-> n]
<1>1. /\ down' = Tail(down) /\ down # <<>> /\ Head(down).kind = "answer"
      /\ UNCHANGED <<asked, linked, cuts, open, que, cur, made, confirmed, work, resend, over>>
      /\ \/ r \notin waiting /\ UNCHANGED <<got, up, waiting>>
         \/ /\ r \in waiting /\ got' = [got EXCEPT ![r] = Append(@, n)] /\ up' = Append(up, x)
            /\ waiting' = IF n = Answers THEN waiting \ {r} ELSE waiting
  BY DEF TabReceives, request, ids
<1>2. PlacedInv /\ FramesName
  BY DEF ConfirmInv
<1>3. /\ down \in Seq(DownType) /\ up \in Seq(UpType) /\ waiting \subseteq Requests
      /\ got \in [Requests -> Seq(Numbers)]
  BY <1>2 DEF PlacedInv, DeliveryTypeOK
<1>4. /\ Len(down') = Len(down) - 1 /\ Head(down) = down[1] /\ 1 \in 1 .. Len(down)
      /\ \A i \in 1 .. Len(down') : i + 1 \in 1 .. Len(down) /\ down'[i] = down[i + 1]
  BY <1>1, <1>3, TailAt
<1>5. /\ r = cur \/ r \notin waiting
      /\ down[1].kind = "answer"
  BY <1>1, <1>2, <1>4 DEF FramesName
<1>6. n = down[1].n /\ r = down[1].r /\ n \in Numbers
  BY <1>1, <1>2, <1>4 DEF FramesName
<1> HIDE DEF r, n
<1>7. CASE r \notin waiting /\ UNCHANGED <<got, up, waiting>>
  BY <1>1, <1>4, <1>5, <1>6, <1>7
<1>8. CASE /\ r \in waiting /\ got' = [got EXCEPT ![r] = Append(@, n)] /\ up' = Append(up, x)
           /\ waiting' = IF n = Answers THEN waiting \ {r} ELSE waiting
  <2>1. r = cur /\ cur \in waiting /\ cur \in Requests
    BY <1>2, <1>3, <1>4, <1>5, <1>6, <1>8 DEF FramesName
  <2>2. x \in UpType
    BY <1>6, <2>1, AnswersAssumption DEF UpType, Numbers
  <2>3. /\ Len(up) \in Nat /\ Len(up') = Len(up) + 1
        /\ \A i \in 1 .. Len(up') : \/ i \in 1 .. Len(up) /\ up'[i] = up[i]
                                    \/ i = Len(up) + 1 /\ up'[i] = x
        /\ \A i \in 1 .. Len(up) : i \in 1 .. Len(up') /\ up'[i] = up[i]
    BY <1>3, <1>8, <2>2, AppendAt
  <2>4. \A q \in Requests : got'[q] = IF q = cur THEN Append(got[q], n) ELSE got[q]
    BY <1>3, <1>8, <2>1
  <2>5. RangeOf(Append(got[cur], n)) = RangeOf(got[cur]) \cup {n}
    BY <1>3, <1>6, <2>1, RangeAppend
  <2>6. \A q \in Requests : RangeOf(got'[q]) = IF q = cur THEN RangeOf(got[q]) \cup {n} ELSE RangeOf(got[q])
    BY <2>4, <2>5
  <2> QED
    BY <1>1, <1>4, <1>5, <1>6, <1>8, <2>1, <2>3, <2>6
<1> QED
  BY <1>1, <1>7, <1>8

LEMMA FramesTabReceives ==
    ASSUME ConfirmInv, TabReceives
    PROVE  FramesName'
<1> DEFINE n == down[1].n
<1>1. PlacedInv /\ FramesName
  BY DEF ConfirmInv
<1>2. CASE down[1].r \notin waiting /\ UNCHANGED <<got, up, waiting>>
  <2>1. /\ UNCHANGED <<asked, cur>>
        /\ \A i \in 1 .. Len(down') : i + 1 \in 1 .. Len(down) /\ down'[i] = down[i + 1]
    BY Receives
  <2>2. \A i \in 1 .. Len(up') : up'[i].kind = "confirm" => i + 0 \in 1 .. Len(up) /\ up'[i] = up[i + 0]
    BY <1>1, <1>2, FrameTypes
  <2>3. Len(up') \in Nat
    BY <1>1, <1>2, FrameTypes
  <2> QED
    BY <1>2, <2>1, <2>2, <2>3, FramesKept
<1>3. CASE ~ (down[1].r \notin waiting /\ UNCHANGED <<got, up, waiting>>)
  <2>1. /\ UNCHANGED <<asked, cur>> /\ n \in Numbers
        /\ \A i \in 1 .. Len(down') : i + 1 \in 1 .. Len(down) /\ down'[i] = down[i + 1]
        /\ cur \in waiting /\ cur \in Requests
        /\ waiting' = IF n = Answers THEN waiting \ {cur} ELSE waiting
        /\ Len(up) \in Nat /\ Len(up') = Len(up) + 1
        /\ \A q \in Requests :
               RangeOf(got'[q]) = IF q = cur THEN RangeOf(got[q]) \cup {n} ELSE RangeOf(got[q])
    BY <1>3, Receives
  <2>2. \A i \in 1 .. Len(up') :
            \/ i \in 1 .. Len(up) /\ up'[i] = up[i]
            \/ i = Len(up) + 1 /\ up'[i].r = cur /\ up'[i].n = n
    BY <1>3, Receives
  <2> HIDE DEF n
  <2>3. ASSUME NEW i \in 1 .. Len(up'), up'[i].kind = "confirm"
        PROVE  /\ up'[i].r = cur'
               /\ up'[i].n \in RangeOf(got'[up'[i].r])
               /\ up'[i].n = Answers => up'[i].r \notin waiting'
    <3>1. up'[i].r = cur /\ (up'[i].n = n \/ (up'[i].n \in RangeOf(got[cur]) /\ up'[i].n # Answers))
      BY <1>1, <2>1, <2>2, <2>3 DEF FramesName
    <3> QED
      BY <2>1, <3>1
  <2>4. ASSUME NEW i \in 1 .. Len(up'), NEW j \in 1 .. Len(up'), i < j,
               up'[i].kind = "confirm", up'[j].kind = "confirm"
        PROVE  up'[i].n # Answers
    <3>1. i \in 1 .. Len(up) /\ up'[i] = up[i]
      BY <2>1, <2>2, <2>4
    <3> QED
      BY <1>1, <2>1, <2>4, <3>1 DEF FramesName
  <2>5. ASSUME NEW i \in 1 .. Len(down'), down'[i].kind = "answer"
        PROVE  /\ down'[i].r \in RangeOf(asked')
               /\ down'[i].n \in Numbers
               /\ down'[i].r = cur' \/ down'[i].r \notin waiting'
    BY <1>1, <2>1, <2>5 DEF FramesName
  <2>6. \A q \in Requests : Answers \in RangeOf(got'[q]) => q \notin waiting'
    BY <1>1, <2>1 DEF FramesName
  <2> QED
    BY <2>3, <2>4, <2>5, <2>6 DEF FramesName
<1> QED
  BY <1>2, <1>3

\* A CONFIRM names the current request, and after the last answer's there is none.
LEMMA Confirms ==
    ASSUME ConfirmInv, ReadConfirm
    PROVE  /\ cur \in Requests /\ up[1].n \in RangeOf(got[cur])
           /\ \A i \in 1 .. Len(up') : i + 1 \in 1 .. Len(up) /\ up'[i] = up[i + 1]
           /\ Len(up) \in Nat /\ Len(up') = Len(up) - 1
           /\ UNCHANGED <<asked, waiting, got, down, linked, cuts, open, que, made, resend>>
           /\ \/ cur' = cur /\ work' = work /\ over' = FALSE
              \/ /\ cur' = None /\ work' = "none" /\ over' = (resend # None)
                 /\ up[1].n = Answers /\ cur \notin waiting
                 /\ \A i \in 1 .. Len(up') : up'[i].kind # "confirm"
           /\ confirmed' = confirmed \/ confirmed' = [confirmed EXCEPT ![cur] = @ \cup {up[1].n}]
           /\ ~ over
<1>1. PlacedInv /\ FramesName
  BY DEF ConfirmInv
<1>2. /\ up # <<>> /\ Head(up).kind = "confirm" /\ up' = Tail(up)
      /\ UNCHANGED <<asked, waiting, got, down, linked, cuts, open, que, made, resend>>
      /\ \/ cur' = cur /\ work' = work /\ over' = FALSE
         \/ cur' = None /\ work' = "none" /\ over' = (resend # None) /\ Head(up).n = Answers
      /\ confirmed' = confirmed \/ confirmed' = [confirmed EXCEPT ![cur] = @ \cup {Head(up).n}]
      /\ ~ over
  BY DEF ReadConfirm, ReadsFrame, tab
<1>3. /\ Head(up) = up[1] /\ 1 \in 1 .. Len(up) /\ Len(up') = Len(up) - 1 /\ up[1] \in UpType
      /\ \A i \in 1 .. Len(up') : i + 1 \in 1 .. Len(up) /\ up'[i] = up[i + 1]
  BY <1>1, <1>2, TailIsPart
<1>4. /\ up[1].r = cur /\ up[1].n \in RangeOf(got[cur])
      /\ up[1].n = Answers => cur \notin waiting
  BY <1>1, <1>2, <1>3 DEF FramesName
<1>5. cur \in Requests /\ Len(up) \in Nat
  BY <1>1, <1>3, <1>4, FrameTypes
<1>6. ASSUME up[1].n = Answers, NEW i \in 1 .. Len(up') PROVE up'[i].kind # "confirm"
  <2>1. i + 1 \in 1 .. Len(up) /\ 1 < i + 1 /\ up'[i] = up[i + 1] /\ up[1].kind = "confirm"
    BY <1>2, <1>3, <1>5
  <2> QED
    BY <1>1, <1>3, <1>6, <2>1 DEF FramesName
<1> QED
  BY <1>2, <1>3, <1>4, <1>5, <1>6

LEMMA FramesReadConfirm ==
    ASSUME ConfirmInv, ReadConfirm
    PROVE  FramesName'
<1>1. PlacedInv /\ FramesName
  BY DEF ConfirmInv
<1>2. /\ UNCHANGED <<asked, waiting, got, down>>
      /\ \A i \in 1 .. Len(up') : i + 1 \in 1 .. Len(up) /\ up'[i] = up[i + 1]
      /\ Len(up') \in Nat
  BY Confirms
<1>3. CASE cur' = cur
  <2>1. \A i \in 1 .. Len(down') : down'[i].kind = "answer" =>
            \E j \in 1 .. Len(down) : down'[i] = down[j]
    BY <1>2
  <2> QED
    BY <1>2, <1>3, <2>1, FramesKept
<1>4. CASE cur' # cur
  <2>1. /\ cur \notin waiting /\ \A i \in 1 .. Len(up') : up'[i].kind # "confirm"
    BY <1>4, Confirms
  <2>2. \A i \in 1 .. Len(down') : down'[i].kind = "answer" =>
           /\ down'[i].r \in RangeOf(asked')
           /\ down'[i].n \in Numbers
           /\ down'[i].r = cur' \/ down'[i].r \notin waiting'
    BY <1>1, <1>2, <2>1 DEF FramesName
  <2> QED
    BY <1>1, <1>2, <2>1, <2>2 DEF FramesName
<1> QED
  BY <1>3, <1>4

LEMMA FramesStart ==
    ASSUME ConfirmInv, Start
    PROVE  FramesName'
<1>1. PlacedInv /\ FramesName
  BY DEF ConfirmInv
<1>2. cur = None /\ UNCHANGED <<asked, waiting, got, up, down>>
  BY DEF Start, CanStart, tab
<1>3. \A i \in 1 .. Len(up) : up[i].kind # "confirm"
  BY <1>1, <1>2, FrameTypes DEF FramesName
<1>4. \A i \in 1 .. Len(down) : down[i].kind = "answer" => down[i].r \notin waiting
  BY <1>1, <1>2, FrameTypes DEF FramesName
<1> QED
  BY <1>1, <1>2, <1>3, <1>4 DEF FramesName

LEMMA FramesStep ==
    ASSUME ConfirmInv, [DeliveryNext]_dvars
    PROVE  FramesName'
<1>1. PlacedInv /\ FramesName
  BY DEF ConfirmInv
<1>2. \A i \in 1 .. Len(down) : \E j \in 1 .. Len(down) : down[i] = down[j]
  OBVIOUS
<1>3. CASE TabResumes
  <2>1. PICK new \in Seq(UpType) :
            /\ up' = up \o new
            /\ \A i \in 1 .. Len(new) : new[i].kind = "from"
    BY <1>1, <1>3, ResumesWithFrom
  <2>2. /\ down # <<>> /\ down' = Tail(down) /\ UNCHANGED <<asked, waiting, got, cur>>
        /\ up \in Seq(UpType) /\ down \in Seq(DownType)
    BY <1>1, <1>3 DEF TabResumes, tab, request, ids, PlacedInv, DeliveryTypeOK
  <2>3. /\ Len(up') = Len(up) + Len(new) /\ Len(up) \in Nat /\ Len(new) \in Nat
        /\ \A i \in 1 .. Len(up') : \/ i \in 1 .. Len(up) /\ up'[i] = up[i]
                                    \/ up'[i].kind = "from"
    BY <2>1, <2>2, ConcatAt
  <2>4. \A i \in 1 .. Len(up') : up'[i].kind = "confirm" => i + 0 \in 1 .. Len(up) /\ up'[i] = up[i + 0]
    BY <2>3
  <2>5. \A i \in 1 .. Len(down') : i + 1 \in 1 .. Len(down) /\ down'[i] = down[i + 1]
    BY <2>2, TailAt
  <2>6. \A i \in 1 .. Len(down') : \E j \in 1 .. Len(down) : down'[i] = down[j]
    BY <2>5
  <2>7. Len(up') \in Nat
    BY <2>3
  <2> QED
    BY <2>2, <2>4, <2>6, <2>7, FramesKept
<1>4. CASE Cut
  <2>1. PICK n \in 0 .. Len(up) : up' = SubSeq(up, 1, n)
    BY <1>4 DEF Cut
  <2>2. /\ down' = <<>> /\ UNCHANGED <<asked, waiting, got, cur>> /\ up \in Seq(UpType) /\ 0 \in Nat
        /\ \A i \in 1 .. Len(down') : FALSE
    BY <1>1, <1>4 DEF Cut, tab, request, ids, PlacedInv, DeliveryTypeOK
  <2>3. Len(up') \in Nat /\ \A i \in 1 .. Len(up') : up'[i] = up[i] /\ i \in 1 .. Len(up)
    BY <2>1, <2>2, PrefixAt
  <2>4. \A i \in 1 .. Len(up') : up'[i].kind = "confirm" => i + 0 \in 1 .. Len(up) /\ up'[i] = up[i + 0]
    BY <2>3
  <2> QED
    BY <2>2, <2>3, <2>4, FramesKept
<1>5. CASE Reconnect
  <2>1. /\ up' = <<>> /\ down' = <<[kind |-> "session", r |-> None, n |-> 0]>>
        /\ UNCHANGED <<waiting, got>>
    BY <1>1, <1>5, Reconnects
  <2>2. Len(up') = 0 /\ \A i \in 1 .. Len(down') : down'[i].kind # "answer"
    BY <2>1
  <2> QED
    BY <1>1, <2>1, <2>2 DEF FramesName
<1>6. CASE ReadRequest \/ ReadFrom
  <2>1. /\ up # <<>> /\ up' = Tail(up) /\ UNCHANGED <<asked, waiting, got, down, cur>>
    BY <1>6 DEF ReadRequest, ReadFrom, ReadsFrame, tab, request, ids
  <2>2. /\ \A i \in 1 .. Len(up') : i + 1 \in 1 .. Len(up) /\ up'[i] = up[i + 1]
        /\ Len(up') \in Nat
    BY <1>1, <2>1, TailIsPart, FrameTypes
  <2> QED
    BY <1>2, <2>1, <2>2, FramesKept
<1>7. CASE Answer \/ Quiet
  <2>1. UNCHANGED <<asked, waiting, got, up, cur>>
    BY <1>1, <1>7, QuietSteps DEF Answer, tab
  <2>2. \/ down' = down
        \/ cur # None /\ \E n \in Numbers : down' = Append(down, [kind |-> "answer", r |-> cur, n |-> n])
    <3>1. CASE Quiet
      BY <1>1, <3>1, QuietSteps
    <3>2. CASE Answer
      <4>1. /\ cur # None /\ work = "active"
            /\ \/ down' = down
               \/ down' = Append(down, [kind |-> "answer", r |-> cur, n |-> made[cur] + 1])
        BY <3>2 DEF Answer, Sends
      <4>2. made[cur] \in 0 .. Answers /\ made[cur] < Answers
        BY <1>1, <4>1 DEF PlacedInv, Working, DeliveryTypeOK
      <4>3. made[cur] + 1 \in Numbers
        BY <4>2, AnswersAssumption DEF Numbers
      <4> QED
        BY <4>1, <4>3
    <3> QED
      BY <1>7, <3>1, <3>2
  <2>3. \A i \in 1 .. Len(up') : up'[i].kind = "confirm" => i + 0 \in 1 .. Len(up) /\ up'[i] = up[i + 0]
    BY <1>1, <2>1, FrameTypes
  <2>4. Len(up') \in Nat
    BY <1>1, <2>1, FrameTypes
  <2>5. CASE down' = down
    BY <1>2, <2>1, <2>3, <2>4, <2>5, FramesKept
  <2>6. CASE cur # None /\ \E n \in Numbers : down' = Append(down, [kind |-> "answer", r |-> cur, n |-> n])
    <3>1. PICK n \in Numbers : down' = Append(down, [kind |-> "answer", r |-> cur, n |-> n])
      BY <2>6
    <3>2. down \in Seq(DownType) /\ [kind |-> "answer", r |-> cur, n |-> n] \in DownType
      BY <1>1, AnswersAssumption DEF PlacedInv, DeliveryTypeOK, DownType, Numbers
    <3>3. \A i \in 1 .. Len(down') :
              \/ i \in 1 .. Len(down) /\ down'[i] = down[i]
              \/ down'[i].r = cur /\ down'[i].n \in Numbers
      BY <3>1, <3>2, AppendAt
    <3>4. \A i \in 1 .. Len(down') : down'[i].kind = "answer" =>
              \/ \E j \in 1 .. Len(down) : down'[i] = down[j]
              \/ down'[i].r = cur /\ cur # None /\ down'[i].n \in Numbers
      BY <2>6, <3>3
    <3> QED
      BY <2>1, <2>3, <2>4, <3>4, FramesKept
  <2> QED
    BY <2>2, <2>5, <2>6
<1> QED
  BY <1>3, <1>4, <1>5, <1>6, <1>7, FramesTabRequests, FramesTabReceives, FramesReadConfirm,
     FramesStart DEF DeliveryNext, Quiet

LEMMA ConfirmedStep ==
    ASSUME ConfirmInv, [DeliveryNext]_dvars
    PROVE  ConfirmedIsReceived'
<1>1. PlacedInv /\ ConfirmedIsReceived
  BY DEF ConfirmInv
<1>2. confirmed \in [Requests -> SUBSET Numbers]
  BY <1>1 DEF PlacedInv, DeliveryTypeOK
<1>3. CASE ReadConfirm
  <2>1. /\ cur \in Requests /\ up[1].n \in RangeOf(got[cur]) /\ got' = got
        /\ confirmed' = confirmed \/ confirmed' = [confirmed EXCEPT ![cur] = @ \cup {up[1].n}]
    BY <1>3, Confirms
  <2> QED
    BY <1>1, <1>2, <2>1 DEF ConfirmedIsReceived
<1>4. CASE TabReceives
  <2>1. confirmed' = confirmed /\ \A q \in Requests : RangeOf(got[q]) \subseteq RangeOf(got'[q])
    BY <1>4, Receives
  <2> QED
    BY <1>1, <2>1 DEF ConfirmedIsReceived
<1>5. CASE Quiet
  BY <1>1, <1>5, QuietSteps DEF ConfirmedIsReceived
<1>6. CASE \/ \E r \in Requests : TabRequests(r)
           \/ TabResumes \/ Cut \/ Reconnect \/ ReadRequest \/ ReadFrom \/ Start \/ Answer
  <2>1. UNCHANGED <<confirmed, got>>
    BY <1>6 DEF TabRequests, TabResumes, Cut, Reconnect, Recovers, ReadRequest, ReadFrom, Start, Answer, tab, request, ids
  <2> QED
    BY <1>1, <2>1 DEF ConfirmedIsReceived
<1> QED
  BY <1>3, <1>4, <1>5, <1>6 DEF DeliveryNext, Quiet

LEMMA ConfirmInit == DeliveryInit => ConfirmInv
<1> SUFFICES ASSUME DeliveryInit PROVE ConfirmInv
  OBVIOUS
<1>1. PlacedInv
  BY PlacedInit
<1>2. up = <<>> /\ down = <<>> /\ waiting = {} /\ confirmed = [r \in Requests |-> {}]
  BY DEF DeliveryInit
<1>3. FramesName
  BY <1>2 DEF FramesName
<1>4. ConfirmedIsReceived
  BY <1>2 DEF ConfirmedIsReceived
<1> QED
  BY <1>1, <1>3, <1>4 DEF ConfirmInv

LEMMA ConfirmStep ==
    ASSUME ConfirmInv, [DeliveryNext]_dvars
    PROVE  ConfirmInv'
BY PlacedStep, FramesStep, ConfirmedStep DEF ConfirmInv

-----------------------------------------------------------------------------
(* What follows a reconnect.                                               *)

\* What most actions leave alone.
LEMMA ResumingKept ==
    ASSUME ConfirmInv, Resuming, linked' => open', NEW k \in Nat,
           \A i \in 1 .. Len(up') : up'[i].kind = "from" =>
               i + k \in 1 .. Len(up) /\ up'[i] = up[i + k],
           \A q \in Requests : RangeOf(got[q]) \subseteq RangeOf(got'[q]),
           \A i \in 1 .. Len(down') : down'[i].kind = "session" =>
               i \in 1 .. Len(down) /\ down[i].kind = "session",
           ~ over' /\ resend' # None => ~ over /\ resend # None /\ cur' = cur
    PROVE  Resuming'
<1>1. PlacedInv /\ FramesName
  BY DEF ConfirmInv
<1>2. ASSUME NEW i \in 1 .. Len(down'), down'[i].kind = "session"
      PROVE  /\ i = 1
             /\ ~ over' => resend' = None
             /\ \A j \in 1 .. Len(up') : up'[j].kind # "from"
  <2>1. i \in 1 .. Len(down) /\ down[i].kind = "session"
    BY <1>2
  <2>2. i = 1 /\ (~ over => resend = None) /\ \A j \in 1 .. Len(up) : up[j].kind # "from"
    BY <2>1 DEF Resuming
  <2> QED
    BY <2>2
<1>3. ASSUME NEW i \in 1 .. Len(up'), NEW j \in 1 .. Len(up'),
             up'[i].kind = "from", up'[j].kind = "from", up'[i].r = up'[j].r
      PROVE  i = j
  <2>1. /\ i + k \in 1 .. Len(up) /\ up'[i] = up[i + k]
        /\ j + k \in 1 .. Len(up) /\ up'[j] = up[j + k]
    BY <1>3
  <2>2. i + k = j + k
    BY <1>3, <2>1 DEF Resuming
  <2> QED
    BY <2>2
<1>4. ASSUME NEW i \in 1 .. Len(up'), up'[i].kind = "from", NEW n \in 1 .. up'[i].n - 1
      PROVE  n \in RangeOf(got'[up'[i].r])
  <2>1. i + k \in 1 .. Len(up) /\ up'[i] = up[i + k]
    BY <1>4
  <2>2. n \in RangeOf(got[up'[i].r]) /\ up'[i].r \in Requests
    BY <1>1, <1>4, <2>1, FrameTypes DEF Resuming
  <2> QED
    BY <2>2
<1>5. ASSUME ~ over', resend' # None, NEW i \in 1 .. Len(up'), up'[i].kind = "from"
      PROVE  up'[i].r # cur'
  <2>1. i + k \in 1 .. Len(up) /\ up'[i] = up[i + k]
    BY <1>5
  <2> QED
    BY <1>5, <2>1 DEF Resuming
<1> QED
  BY <1>2, <1>3, <1>4, <1>5 DEF Resuming

LEMMA ResumingTabResumes ==
    ASSUME ConfirmInv, Resuming, TabResumes
    PROVE  Resuming'
<1>1. PlacedInv
  BY DEF ConfirmInv
<1>2. /\ down # <<>> /\ Head(down).kind = "session" /\ down' = Tail(down)
      /\ UNCHANGED <<asked, waiting, got, linked, open, cur, resend, over>>
      /\ up \in Seq(UpType) /\ down \in Seq(DownType) /\ got \in [Requests -> Seq(Numbers)]
      /\ waiting \subseteq Requests
  BY <1>1 DEF TabResumes, tab, request, ids, PlacedInv, DeliveryTypeOK
<1>3. /\ Head(down) = down[1] /\ 1 \in 1 .. Len(down)
      /\ \A i \in 1 .. Len(down') : i + 1 \in 1 .. Len(down) /\ down'[i] = down[i + 1]
  BY <1>2, TailAt
<1>4. /\ ~ over => resend = None
      /\ \A j \in 1 .. Len(up) : up[j].kind # "from"
  BY <1>2, <1>3 DEF Resuming
<1>5. \A i \in 1 .. Len(down') : down'[i].kind # "session"
  <2> SUFFICES ASSUME NEW i \in 1 .. Len(down'), down'[i].kind = "session" PROVE FALSE
    OBVIOUS
  <2>1. i + 1 \in 1 .. Len(down) /\ down[i + 1].kind = "session"
    BY <1>3
  <2>2. i + 1 = 1
    BY <2>1 DEF Resuming
  <2> QED
    BY <2>2
<1>6. PICK new \in Seq(UpType) :
          /\ up' = up \o new
          /\ \A i \in 1 .. Len(new) : /\ new[i].kind = "from" /\ new[i].r \in waiting
                                      /\ new[i].n = StartFrom(got[new[i].r])
          /\ \A i, j \in 1 .. Len(new) : new[i].r = new[j].r => i = j
  BY <1>1, ResumesWithFrom
<1>7. /\ Len(up) \in Nat
      /\ \A i \in 1 .. Len(up') : \/ i \in 1 .. Len(up) /\ up'[i] = up[i]
                                  \/ i - Len(up) \in 1 .. Len(new) /\ up'[i] = new[i - Len(up)]
  BY <1>2, <1>6, ConcatAt
<1>8. \A i \in 1 .. Len(up') : up'[i].kind = "from" =>
          i - Len(up) \in 1 .. Len(new) /\ up'[i] = new[i - Len(up)]
  BY <1>4, <1>7
<1>9. ASSUME NEW i \in 1 .. Len(up'), NEW j \in 1 .. Len(up'),
             up'[i].kind = "from", up'[j].kind = "from", up'[i].r = up'[j].r
      PROVE  i = j
  <2>1. i - Len(up) = j - Len(up)
    BY ZenonT(40), <1>6, <1>8, <1>9
  <2> QED
    BY <1>7, <2>1
<1>10. ASSUME NEW i \in 1 .. Len(up'), up'[i].kind = "from", NEW n \in 1 .. up'[i].n - 1
       PROVE  n \in RangeOf(got'[up'[i].r])
  <2>1. up'[i].r \in waiting /\ up'[i].n = StartFrom(got[up'[i].r])
    BY <1>6, <1>8, <1>10
  <2>2. got[up'[i].r] \in Seq(Numbers)
    BY <1>2, <2>1
  <2> QED
    BY <1>2, <1>10, <2>1, <2>2, StartFromIsFirstMissing
<1> QED
  BY <1>2, <1>4, <1>5, <1>9, <1>10 DEF Resuming

LEMMA ResumingReadFrom ==
    ASSUME ConfirmInv, Resuming, ReadFrom
    PROVE  Resuming'
<1>1. PlacedInv
  BY DEF ConfirmInv
<1>2. /\ up # <<>> /\ Head(up).kind = "from" /\ up' = Tail(up)
      /\ UNCHANGED <<asked, waiting, got, down, linked, open, cur, over>>
      /\ resend' = resend \/ (Head(up).r = cur /\ resend = None)
  BY DEF ReadFrom, ReadsFrame, tab, request, ids
<1>3. /\ Head(up) = up[1] /\ 1 \in 1 .. Len(up)
      /\ \A i \in 1 .. Len(up') : i + 1 \in 1 .. Len(up) /\ up'[i] = up[i + 1]
  BY <1>1, <1>2, TailIsPart
<1>4. CASE resend' = resend
  <2>1. linked' => open'
    BY <1>2 DEF Resuming
  <2>2. \A q \in Requests : RangeOf(got[q]) \subseteq RangeOf(got'[q])
    BY <1>2
  <2> QED
    BY <1>2, <1>3, <1>4, <2>1, <2>2, ResumingKept
<1>5. CASE up[1].r = cur
  <2>1. \A i \in 1 .. Len(down) : down[i].kind # "session"
    BY <1>2, <1>3 DEF Resuming
  <2>2. ASSUME NEW i \in 1 .. Len(up'), up'[i].kind = "from" PROVE up'[i].r # cur
    <3>1. i + 1 \in 1 .. Len(up) /\ up'[i] = up[i + 1] /\ i + 1 # 1
      BY <1>3
    <3> QED
      BY <1>2, <1>3, <1>5, <2>2, <3>1 DEF Resuming
  <2>3. ASSUME NEW i \in 1 .. Len(up'), NEW j \in 1 .. Len(up'),
               up'[i].kind = "from", up'[j].kind = "from", up'[i].r = up'[j].r
        PROVE  i = j
    <3>1. i + 1 = j + 1
      BY <1>3, <2>3 DEF Resuming
    <3> QED
      BY <3>1
  <2>4. ASSUME NEW i \in 1 .. Len(up'), up'[i].kind = "from", NEW n \in 1 .. up'[i].n - 1
        PROVE  n \in RangeOf(got'[up'[i].r])
    BY <1>2, <1>3, <2>4 DEF Resuming
  <2> QED
    BY <1>2, <2>1, <2>2, <2>3, <2>4 DEF Resuming
<1> QED
  BY <1>2, <1>3, <1>4, <1>5

LEMMA ResumingStep ==
    ASSUME ConfirmInv, Resuming, [DeliveryNext]_dvars
    PROVE  Resuming'
<1>1. PlacedInv
  BY DEF ConfirmInv
<1>2. linked => open
  BY DEF Resuming
<1>3. /\ up \in Seq(UpType) /\ down \in Seq(DownType) /\ Len(up) \in Nat
  BY <1>1 DEF PlacedInv, DeliveryTypeOK
<1>4. CASE \E r \in Requests : TabRequests(r)
  <2>1. PICK r \in Requests : TabRequests(r)
    BY <1>4
  <2>2. /\ up' = Append(up, [kind |-> "request", r |-> r, n |-> 1])
        /\ UNCHANGED <<got, down, linked, open, cur, resend, over>>
    BY <2>1 DEF TabRequests, request, ids
  <2>3. [kind |-> "request", r |-> r, n |-> 1] \in UpType
    BY AnswersAssumption DEF UpType
  <2>4. \A i \in 1 .. Len(up') : \/ i \in 1 .. Len(up) /\ up'[i] = up[i]
                                 \/ up'[i].kind = "request"
    BY <1>3, <2>2, <2>3, AppendAt
  <2>5. \A i \in 1 .. Len(up') : up'[i].kind = "from" => i + 0 \in 1 .. Len(up) /\ up'[i] = up[i + 0]
    BY <1>3, <2>4
  <2>6. linked' => open'
    BY <1>2, <2>2
  <2> QED
    BY <2>2, <2>5, <2>6, ResumingKept
<1>5. CASE TabReceives
  <2>1. /\ UNCHANGED <<linked, open, cur, resend, over>>
        /\ \A i \in 1 .. Len(down') : i + 1 \in 1 .. Len(down) /\ down'[i] = down[i + 1]
    BY <1>5, Receives
  <2>2. \A i \in 1 .. Len(up') : up'[i].kind = "from" => i \in 1 .. Len(up) /\ up'[i] = up[i]
    BY <1>5, Receives
  <2>7. ASSUME NEW q \in Requests PROVE RangeOf(got[q]) \subseteq RangeOf(got'[q])
    <3>1. RangeOf(got'[q]) = RangeOf(got[q]) \/ RangeOf(got'[q]) = RangeOf(got[q]) \cup {down[1].n}
      BY <1>5, Receives
    <3> QED
      BY <3>1
  <2>3. \A i \in 1 .. Len(up') : up'[i].kind = "from" => i + 0 \in 1 .. Len(up) /\ up'[i] = up[i + 0]
    BY <1>3, <2>2
  <2>4. ASSUME NEW i \in 1 .. Len(down'), down'[i].kind = "session" PROVE FALSE
    <3>1. i + 1 \in 1 .. Len(down) /\ down[i + 1].kind = "session"
      BY <2>1, <2>4
    <3>2. i + 1 = 1
      BY <3>1 DEF Resuming
    <3> QED
      BY <3>2
  <2>5. linked' => open'
    BY <1>2, <2>1
  <2> QED
    BY <2>1, <2>3, <2>4, <2>5, <2>7, ResumingKept
<1>6. CASE Cut
  <2>1. PICK n \in 0 .. Len(up) : up' = SubSeq(up, 1, n)
    BY <1>6 DEF Cut
  <2>2. down' = <<>> /\ linked' = FALSE /\ UNCHANGED <<got, cur, resend, over>>
    BY <1>6 DEF Cut, tab, request, ids
  <2>3. \A i \in 1 .. Len(up') : up'[i] = up[i] /\ i \in 1 .. Len(up)
    BY <1>3, <2>1, PrefixAt
  <2>4. \A i \in 1 .. Len(up') : up'[i].kind = "from" => i + 0 \in 1 .. Len(up) /\ up'[i] = up[i + 0]
    BY <1>3, <2>3
  <2>5. /\ \A q \in Requests : RangeOf(got[q]) \subseteq RangeOf(got'[q])
        /\ \A i \in 1 .. Len(down') : down'[i].kind = "session" =>
               i \in 1 .. Len(down) /\ down[i].kind = "session"
    BY <2>2
  <2>6. 0 \in Nat
    OBVIOUS
  <2> QED
    BY <2>2, <2>4, <2>5, <2>6, ResumingKept
<1>7. CASE Reconnect
  <2>1. /\ up' = <<>> /\ down' = <<[kind |-> "session", r |-> None, n |-> 0]>>
        /\ open' = TRUE /\ resend' = None
    BY <1>7 DEF Reconnect, Recovers
  <2>2. \A i \in 1 .. Len(down') : i = 1
    BY <2>1
  <2>3. \A i \in 1 .. Len(up') : FALSE
    BY <2>1
  <2> QED
    BY <2>1, <2>2, <2>3 DEF Resuming
<1>8. CASE ReadRequest \/ ReadConfirm
  <2>1. /\ up # <<>> /\ up' = Tail(up) /\ UNCHANGED <<got, down, linked, open>>
        /\ ~ over' /\ resend' # None => ~ over /\ resend # None /\ cur' = cur
    BY <1>8 DEF ReadRequest, ReadConfirm, ReadsFrame, tab
  <2>2. \A i \in 1 .. Len(up') : i + 1 \in 1 .. Len(up) /\ up'[i] = up[i + 1]
    BY <1>1, <2>1, TailIsPart
  <2>3. linked' => open'
    BY <1>2, <2>1
  <2> QED
    BY <2>1, <2>2, <2>3, ResumingKept
<1>9. CASE Start \/ Answer \/ Quiet
  <2>1. UNCHANGED <<got, up, linked>>
    BY <1>1, <1>9, QuietSteps DEF Start, Answer, tab
  <2>2. linked' => open'
    <3>1. UNCHANGED open \/ ~ linked
      <4>1. CASE Start \/ Answer
        BY <4>1 DEF Start, Answer
      <4>2. CASE Pause
        BY <1>2, <4>2 DEF Pause
      <4>3. CASE ServerNotices \/ WindowPasses \/ ResendOne \/ ResendEnds \/ UNCHANGED dvars
        BY <4>3 DEF ServerNotices, WindowPasses, ResendOne, ResendEnds, dvars
      <4> QED
        BY <1>9, <4>1, <4>2, <4>3 DEF Quiet
    <3> QED
      BY <1>2, <2>1, <3>1
  <2>3. \A i \in 1 .. Len(down') : down'[i].kind = "session" => i \in 1 .. Len(down) /\ down[i].kind = "session"
    <3>1. down' = down \/ \E n : down' = Append(down, [kind |-> "answer", r |-> cur, n |-> n])
      BY <1>1, <1>9, QuietSteps DEF Start, Answer, Sends
    <3>2. ASSUME NEW n, down' = Append(down, [kind |-> "answer", r |-> cur, n |-> n]),
                 NEW i \in 1 .. Len(down'), down'[i].kind = "session"
          PROVE  i \in 1 .. Len(down) /\ down[i].kind = "session"
      <4> DEFINE x == [kind |-> "answer", r |-> cur, n |-> n]
      <4>1. x.kind = "answer"
        OBVIOUS
      <4> HIDE DEF x
      <4>2. down' = Append(down, x)
        BY <3>2 DEF x
      <4>3. \/ i \in 1 .. Len(down) /\ down'[i] = down[i]
            \/ i = Len(down) + 1 /\ down'[i] = x
        BY <1>3, <3>2, <4>2
      <4> QED
        BY <3>2, <4>1, <4>3
    <3> QED
      BY <3>1, <3>2
  <2>4. ~ over' /\ resend' # None => ~ over /\ resend # None /\ cur' = cur
    <3>1. CASE Start
      BY <1>1, <3>1 DEF Start, CanStart, PlacedInv, Working
    <3>2. CASE Answer
      BY <3>2 DEF Answer
    <3>3. CASE Quiet
      BY <1>1, <3>3, QuietSteps
    <3> QED
      BY <1>9, <3>1, <3>2, <3>3
  <2>5. \A i \in 1 .. Len(up') : up'[i].kind = "from" => i + 0 \in 1 .. Len(up) /\ up'[i] = up[i + 0]
    BY <1>3, <2>1
  <2> QED
    BY <2>1, <2>2, <2>3, <2>4, <2>5, ResumingKept
<1> QED
  BY <1>4, <1>5, <1>6, <1>7, <1>8, <1>9, ResumingTabResumes, ResumingReadFrom DEF DeliveryNext, Quiet

-----------------------------------------------------------------------------
(* What is still to come for the tab.                                      *)

\* What is kept of what is to come, when nothing that was to come is lost.
LEMMA ComesKept ==
    ASSUME cur' = cur, RangeOf(got[cur]) \subseteq RangeOf(got'[cur]),
           \A i \in 1 .. Len(down) :
               \/ \E j \in 1 .. Len(down') : down'[j] = down[i]
               \/ down[i].kind = "answer" /\ (down[i].r = cur => down[i].n \in RangeOf(got'[cur])),
           \A i \in 1 .. Len(up) : up[i].kind = "from" /\ up[i].r = cur =>
               \E j \in 1 .. Len(up') : up'[j] = up[i]
    PROVE  /\ Resumes => Resumes' \/ resend' # resend
           /\ \A n \in Nat : Comes(n) =>
                  \/ Comes(n)'
                  \/ resend' # resend /\ resend # None /\ resend.i <= n /\ n <= resend.upto
<1>1. SessionComes => SessionComes'
  BY DEF SessionComes
<1>2. (\E i \in 1 .. Len(up) : up[i].kind = "from" /\ up[i].r = cur)
      => (\E i \in 1 .. Len(up') : up'[i].kind = "from" /\ up'[i].r = cur')
  OBVIOUS
<1>3. ASSUME NEW n \in Nat,
             \E i \in 1 .. Len(up) : up[i].kind = "from" /\ up[i].r = cur /\ up[i].n <= n
      PROVE  \E i \in 1 .. Len(up') : up'[i].kind = "from" /\ up'[i].r = cur' /\ up'[i].n <= n
  BY <1>3
<1>4. ASSUME NEW n \in Nat,
             \E i \in 1 .. Len(down) : down[i] = [kind |-> "answer", r |-> cur, n |-> n]
      PROVE  \/ n \in RangeOf(got'[cur'])
             \/ \E i \in 1 .. Len(down') : down'[i] = [kind |-> "answer", r |-> cur', n |-> n]
  <2>1. PICK i \in 1 .. Len(down) : down[i] = [kind |-> "answer", r |-> cur, n |-> n]
    BY <1>4
  <2>2. down[i].r = cur /\ down[i].n = n
    BY <2>1
  <2> QED
    BY <2>1, <2>2
<1> QED
  BY <1>1, <1>2, <1>3, <1>4 DEF Comes, Resumes

LEMMA ComingKept ==
    ASSUME PlacedInv, Coming, UNCHANGED <<cur, made, resend>>,
           ~ over' => ~ over, linked' => linked, cur \in waiting' => cur \in waiting,
           work' = "paused" => work = "paused",
           RangeOf(got[cur]) \subseteq RangeOf(got'[cur]),
           \A i \in 1 .. Len(down) :
               \/ \E j \in 1 .. Len(down') : down'[j] = down[i]
               \/ down[i].kind = "answer" /\ (down[i].r = cur => down[i].n \in RangeOf(got'[cur])),
           \A i \in 1 .. Len(up) : up[i].kind = "from" /\ up[i].r = cur =>
               \E j \in 1 .. Len(up') : up'[j] = up[i]
    PROVE  Coming'
<1> SUFFICES ASSUME ~ over', linked', cur' \in waiting'
             PROVE  /\ \A n \in 1 .. made'[cur'] : Comes(n)'
                    /\ work' = "paused" => Resumes'
  BY DEF Coming
<1>1. /\ \A n \in 1 .. made[cur] : Comes(n)
      /\ work = "paused" => Resumes
  BY DEF Coming
<1>2. Resumes => Resumes'
  BY ComesKept
<1>3. \A n \in Nat : Comes(n) => Comes(n)'
  BY ComesKept
<1>4. cur \in Requests
  BY DEF PlacedInv, DeliveryTypeOK
<1>5. made[cur] \in Nat
  BY <1>4 DEF PlacedInv, DeliveryTypeOK
<1> QED
  BY <1>1, <1>2, <1>3, <1>5

LEMMA ComingTabRequests ==
    ASSUME ConfirmInv, Coming, NEW r \in Requests, TabRequests(r)
    PROVE  Coming'
<1>1. PlacedInv
  BY DEF ConfirmInv
<1>2. /\ up' = Append(up, [kind |-> "request", r |-> r, n |-> 1]) /\ waiting' = waiting \cup {r}
      /\ r \notin RangeOf(asked)
      /\ UNCHANGED <<got, down, linked, cur, made, work, resend, over>>
  BY DEF TabRequests, request, ids
<1>3. cur # r
  BY <1>1, <1>2, FreshRequest
<1>4. up \in Seq(UpType) /\ [kind |-> "request", r |-> r, n |-> 1] \in UpType
  BY <1>1, AnswersAssumption DEF UpType, PlacedInv, DeliveryTypeOK
<1>5. \A i \in 1 .. Len(up) : i \in 1 .. Len(up') /\ up'[i] = up[i]
  BY <1>2, <1>4, AppendAt
<1> QED
  BY <1>1, <1>2, <1>3, <1>5, ComingKept

LEMMA ComingTabResumes ==
    ASSUME ConfirmInv, Coming, TabResumes
    PROVE  Coming'
<1>1. PlacedInv
  BY DEF ConfirmInv
<1>2. /\ UNCHANGED <<got, waiting, cur, made>>
      /\ up \in Seq(UpType) /\ waiting \subseteq Requests
      /\ made \in [Requests -> 0 .. Answers] /\ got \in [Requests -> Seq(Numbers)]
  BY <1>1 DEF TabResumes, tab, request, ids, PlacedInv, DeliveryTypeOK
<1> SUFFICES ASSUME cur \in waiting
             PROVE  /\ \A n \in 1 .. made[cur] : Comes(n)'
                    /\ Resumes'
  BY <1>2 DEF Coming
<1>3. PICK new \in Seq(UpType) :
          /\ up' = up \o new
          /\ \A i \in 1 .. Len(new) : /\ new[i].kind = "from"
                                      /\ new[i].n = StartFrom(got[new[i].r])
          /\ \A q \in waiting : \E i \in 1 .. Len(new) : new[i].r = q
  BY <1>1, ResumesWithFrom
<1>4. PICK k \in 1 .. Len(new) : new[k].r = cur
  BY <1>3
<1>5. PICK j \in 1 .. Len(up') : up'[j] = new[k]
  <2>1. k + Len(up) \in 1 .. Len(up') /\ up'[k + Len(up)] = new[k]
    <3>1. /\ up' = up \o new /\ new \in Seq(UpType)
      BY <1>3
    <3> QED
      BY <1>2, <3>1, ConcatAt
  <2> QED
    BY <2>1
<1>6. /\ up'[j].kind = "from" /\ up'[j].r = cur' /\ up'[j].n = StartFrom(got[cur])
  BY <1>2, <1>3, <1>4, <1>5
<1>7. ASSUME NEW n \in 1 .. made[cur] PROVE Comes(n)'
  <2>1. StartFrom(got[cur]) \in Nat /\ \A i \in 1 .. StartFrom(got[cur]) - 1 : i \in RangeOf(got[cur])
    BY <1>2, AnswersAssumption, StartFromIsFirstMissing
  <2>2. n \in Nat \ {0}
    BY <1>2
  <2>3. CASE n < StartFrom(got[cur])
    BY <1>2, <2>1, <2>2, <2>3 DEF Comes
  <2>4. CASE up'[j].n <= n
    BY <1>6, <2>4 DEF Comes
  <2> QED
    BY <1>6, <2>1, <2>2, <2>3, <2>4
<1>8. Resumes'
  BY <1>6 DEF Resumes
<1> QED
  BY <1>7, <1>8

LEMMA ComingTabReceives ==
    ASSUME ConfirmInv, Coming, TabReceives
    PROVE  Coming'
<1>1. PlacedInv
  BY DEF ConfirmInv
<1>2. /\ 1 \in 1 .. Len(down) /\ down[1].kind = "answer" /\ Len(down') = Len(down) - 1
      /\ UNCHANGED <<linked, cur, made, work, resend, over>>
      /\ \A i \in 1 .. Len(down') : i + 1 \in 1 .. Len(down) /\ down'[i] = down[i + 1]
      /\ Len(down) \in Nat
  BY <1>1, Receives, FrameTypes
<1>3. \A i \in 1 .. Len(up) : up[i].kind = "from" => \E j \in 1 .. Len(up') : up'[j] = up[i]
  BY Receives
<1>4. ASSUME NEW i \in 1 .. Len(down), i # 1
      PROVE  \E j \in 1 .. Len(down') : down'[j] = down[i]
  <2>1. i - 1 \in 1 .. Len(down') /\ (i - 1) + 1 = i
    BY <1>2, <1>4
  <2> QED
    BY <1>2, <2>1
<1>5. CASE cur \in waiting
  <2>1. /\ cur \in Requests /\ waiting' \subseteq waiting
        /\ \/ down[1].r # cur /\ UNCHANGED got
           \/ RangeOf(got'[cur]) = RangeOf(got[cur]) \cup {down[1].n}
    BY <1>1, <1>5, Receives, FrameTypes
  <2>2. RangeOf(got[cur]) \subseteq RangeOf(got'[cur])
    BY <2>1
  <2>3. down[1].r = cur => down[1].n \in RangeOf(got'[cur])
    BY <2>1
  <2> QED
    BY <1>1, <1>2, <1>3, <1>4, <2>1, <2>2, <2>3, ComingKept
<1>6. CASE cur \notin waiting
  <2>1. cur \notin waiting'
    BY <1>6, Receives
  <2> QED
    BY <1>2, <2>1 DEF Coming
<1> QED
  BY <1>5, <1>6

LEMMA ComingReads ==
    ASSUME ConfirmInv, Resuming, Coming, ReadRequest \/ ReadConfirm \/ ReadFrom
    PROVE  Coming'
<1>1. PlacedInv
  BY DEF ConfirmInv
<1>2. /\ up # <<>> /\ up' = Tail(up) /\ ~ over
      /\ UNCHANGED <<waiting, got, down, linked, made>>
  BY DEF ReadRequest, ReadConfirm, ReadFrom, ReadsFrame, tab, request, ids
<1>3. /\ Head(up) = up[1] /\ 1 \in 1 .. Len(up) /\ Len(up') = Len(up) - 1 /\ up[1] \in UpType
      /\ \A i \in 1 .. Len(up') : i + 1 \in 1 .. Len(up) /\ up'[i] = up[i + 1]
      /\ Len(up) \in Nat
  BY <1>1, <1>2, TailIsPart, FrameTypes
<1>4. ASSUME NEW i \in 1 .. Len(up), i # 1
      PROVE  \E j \in 1 .. Len(up') : up'[j] = up[i]
  <2>1. i - 1 \in 1 .. Len(up') /\ (i - 1) + 1 = i
    BY <1>3, <1>4
  <2> QED
    BY <1>3, <2>1
<1>5. \A i \in 1 .. Len(down) : \E j \in 1 .. Len(down') : down'[j] = down[i]
  BY <1>2
<1>6. CASE ReadRequest
  <2>1. up[1].kind = "request" /\ UNCHANGED <<cur, resend, work, over>>
    BY <1>3, <1>6 DEF ReadRequest, ReadsFrame
  <2> QED
    BY <1>1, <1>2, <1>4, <1>5, <2>1, ComingKept
<1>7. CASE ReadConfirm
  <2>1. /\ up[1].kind = "confirm" /\ UNCHANGED resend
        /\ cur' = None \/ (cur' = cur /\ work' = work)
    BY <1>3, <1>7 DEF ReadConfirm, ReadsFrame
  <2>2. CASE cur' = None
    BY <1>1, <1>2, <2>2, FrameTypes DEF Coming
  <2>3. CASE cur' = cur /\ work' = work
    BY <1>1, <1>2, <1>4, <1>5, <2>1, <2>3, ComingKept
  <2> QED
    BY <2>1, <2>2, <2>3
<1>8. CASE ReadFrom
  <2>1. /\ up[1].kind = "from" /\ UNCHANGED <<cur, work, over>>
        /\ resend' = IF up[1].r = cur /\ resend = None
                     THEN [i |-> up[1].n, upto |-> made[cur]] ELSE resend
    BY <1>3, <1>8 DEF ReadFrom, ReadsFrame, request
  <2>2. CASE up[1].r # cur
    BY <1>1, <1>2, <1>4, <1>5, <2>1, <2>2, ComingKept
  <2>3. CASE up[1].r = cur
    <3>1. resend = None
      BY <1>2, <1>3, <2>1, <2>3 DEF Resuming
    <3>2. resend' = [i |-> up[1].n, upto |-> made[cur]]
      BY <2>1, <2>3, <3>1
    <3>3. cur \in Requests /\ made[cur] \in Nat /\ None \notin Requests
      BY <1>1, <1>3, <2>3, NoRequestAssumption DEF UpType, PlacedInv, DeliveryTypeOK
    <3>4. resend' # None
      <4>1. up[1].n \in Nat \ {0} /\ made[cur] \in 0 .. Answers
        BY SMTT(30), <1>1, <1>3, <3>3, AnswersAssumption DEF UpType, PlacedInv, DeliveryTypeOK
      <4> QED
        BY <3>2, <4>1, NoResendAssumption
    <3> SUFFICES ASSUME cur \in waiting, linked
                 PROVE  /\ \A n \in 1 .. made[cur] : Comes(n)'
                        /\ Resumes'
      BY <1>2, <2>1 DEF Coming
    <3>5. Resumes'
      BY <3>4 DEF Resumes
    <3>6. ASSUME NEW n \in 1 .. made[cur] PROVE Comes(n)'
      <4>1. Comes(n)
        BY <1>2, <3>6 DEF Coming
      <4>2. CASE n \in RangeOf(got[cur])
        BY <1>2, <2>1, <4>2 DEF Comes
      <4>3. CASE \E i \in 1 .. Len(down) : down[i] = [kind |-> "answer", r |-> cur, n |-> n]
        BY <1>2, <2>1, <4>3 DEF Comes
      <4>4. CASE \E i \in 1 .. Len(up) : up[i].kind = "from" /\ up[i].r = cur /\ up[i].n <= n
        <5>1. PICK i \in 1 .. Len(up) : up[i].kind = "from" /\ up[i].r = cur /\ up[i].n <= n
          BY <4>4
        <5>2. i = 1
          BY <1>3, <2>1, <2>3, <5>1 DEF Resuming
        <5>3. resend'.i <= n /\ n <= resend'.upto
          BY <3>2, <3>3, <5>1, <5>2
        <5> QED
          BY <3>4, <5>3 DEF Comes
      <4>5. CASE SessionComes
        BY <1>2, <4>5 DEF Comes, SessionComes
      <4> QED
        BY <3>1, <4>1, <4>2, <4>3, <4>4, <4>5 DEF Comes
    <3> QED
      BY <3>5, <3>6
  <2> QED
    BY <2>2, <2>3
<1> QED
  BY <1>6, <1>7, <1>8

LEMMA ComingAnswer ==
    ASSUME ConfirmInv, Resuming, Coming, Answer
    PROVE  Coming'
<1> DEFINE x == [kind |-> "answer", r |-> cur, n |-> made[cur] + 1]
<1>1. PlacedInv
  BY DEF ConfirmInv
<1>2. /\ ~ over /\ cur # None /\ work = "active"
      /\ made' = [made EXCEPT ![cur] = made[cur] + 1]
      /\ down' = IF open /\ linked THEN Append(down, x) ELSE down
      /\ work' = IF made[cur] + 1 = Answers THEN "done" ELSE IF open THEN "active" ELSE "paused"
      /\ UNCHANGED <<waiting, got, up, linked, cur, resend, over>>
  BY DEF Answer, Sends, tab
<1> SUFFICES ASSUME linked, cur \in waiting
             PROVE  /\ \A n \in 1 .. made'[cur] : Comes(n)'
                    /\ work' # "paused"
  BY <1>2 DEF Coming
<1>3. open /\ down' = Append(down, x)
  BY <1>2 DEF Resuming
<1>4. cur \in Requests /\ made[cur] \in 0 .. Answers /\ made \in [Requests -> 0 .. Answers]
  BY <1>1, <1>2 DEF PlacedInv, DeliveryTypeOK
<1>5. made[cur] + 1 \in 0 .. Answers /\ made'[cur] = made[cur] + 1 /\ made[cur] \in Nat
  BY <1>1, <1>2, <1>4, AnswersAssumption DEF PlacedInv, Working
<1>6. x \in DownType /\ down \in Seq(DownType)
  BY <1>1, <1>4, <1>5 DEF DownType, PlacedInv, DeliveryTypeOK
<1>7. /\ \A i \in 1 .. Len(down) : i \in 1 .. Len(down') /\ down'[i] = down[i]
      /\ Len(down) + 1 \in 1 .. Len(down') /\ down'[Len(down) + 1] = x
  BY <1>3, <1>6, AppendAt
<1>8. ASSUME NEW n \in 1 .. made[cur] PROVE Comes(n)'
  <2>1. Comes(n) /\ n \in Nat
    BY <1>2 DEF Coming
  <2>2. \A i \in 1 .. Len(up) : \E j \in 1 .. Len(up') : up'[j] = up[i]
    BY <1>2
  <2>3. \A i \in 1 .. Len(down) : \E j \in 1 .. Len(down') : down'[j] = down[i]
    BY <1>7
  <2> HIDE DEF x
  <2> QED
    BY <1>2, <2>1, <2>2, <2>3, ComesKept
<1>9. ASSUME NEW n \in Nat, n = made[cur] + 1 PROVE Comes(n)'
  <2>1. \E i \in 1 .. Len(down') : down'[i] = [kind |-> "answer", r |-> cur', n |-> n]
    BY <1>2, <1>7, <1>9
  <2> QED
    BY <2>1 DEF Comes
<1>10. \A n \in 1 .. made'[cur] : n \in 1 .. made[cur] \/ (n \in Nat /\ n = made[cur] + 1)
  BY <1>5
<1>11. \A n \in 1 .. made'[cur] : Comes(n)'
  BY <1>8, <1>9, <1>10
<1>12. work' # "paused"
  BY <1>2, <1>3
<1> QED
  BY <1>11, <1>12

LEMMA ComingQuiet ==
    ASSUME ConfirmInv, Resuming, Coming, Quiet
    PROVE  Coming'
<1>1. PlacedInv
  BY DEF ConfirmInv
<1>2. /\ UNCHANGED <<waiting, got, up, linked, cur, made, confirmed>>
      /\ ~ over' => ~ over
  BY <1>1, QuietSteps
<1>3. \A i \in 1 .. Len(up) : \E j \in 1 .. Len(up') : up'[j] = up[i]
  BY <1>2
<1>4. CASE UNCHANGED dvars
  <2>1. UNCHANGED <<down, work, resend>>
    BY <1>4 DEF dvars, request
  <2>2. \A i \in 1 .. Len(down) : \E j \in 1 .. Len(down') : down'[j] = down[i]
    BY <2>1
  <2> QED
    BY <1>1, <1>2, <1>3, <2>1, <2>2, ComingKept
<1>5. CASE Pause \/ ServerNotices \/ WindowPasses
  <2>1. ~ linked
    BY <1>5 DEF Pause, ServerNotices, WindowPasses, Resuming
  <2> QED
    BY <1>2, <2>1 DEF Coming
<1>6. CASE ResendOne \/ ResendEnds
  <2> SUFFICES ASSUME linked, cur \in waiting
               PROVE  /\ \A n \in 1 .. made[cur] : Comes(n)'
                      /\ work' = "paused" => Resumes'
    BY <1>2 DEF Coming
  <2>1. /\ open /\ resend # None /\ ~ over
        /\ \A n \in 1 .. made[cur] : Comes(n)
    BY <1>2, <1>6 DEF Resuming, Coming, ResendOne, ResendEnds
  <2>2. cur \in Requests /\ made[cur] \in 0 .. Answers /\ resend \in [i : Nat \ {0}, upto : 0 .. Answers]
    BY <1>1, <2>1 DEF PlacedInv, Working, DeliveryTypeOK
  <2> DEFINE x == [kind |-> "answer", r |-> cur, n |-> resend.i]
  <2>3. \/ down' = down /\ resend.i \in RangeOf(got[cur])
        \/ down' = down /\ resend.i > resend.upto
        \/ down' = Append(down, x) /\ resend.i \in Numbers
    <3>1. confirmed[cur] \subseteq RangeOf(got[cur])
      BY <2>2 DEF ConfirmInv, ConfirmedIsReceived
    <3>2. resend.i \in Numbers \/ resend.i > resend.upto
      BY <2>2, AnswersAssumption DEF Numbers
    <3>3. CASE ResendOne
      BY <2>1, <2>2, <3>1, <3>2, <3>3 DEF ResendOne, Sends
    <3>4. CASE ResendEnds
      BY <2>1, <2>2, <3>1, <3>2, <3>4 DEF ResendEnds, Sends
    <3> QED
      BY <1>6, <3>3, <3>4
  <2>4. /\ \A i \in 1 .. Len(down) : \E j \in 1 .. Len(down') : down'[j] = down[i]
        /\ down' # down => \E j \in 1 .. Len(down') : down'[j] = x
    <3>1. CASE down' = down
      BY <3>1
    <3>2. CASE down' = Append(down, x) /\ resend.i \in Numbers
      <4>1. x \in DownType /\ down \in Seq(DownType)
        BY <1>1, <2>2, <3>2 DEF DownType, Numbers, PlacedInv, DeliveryTypeOK
      <4>2. /\ \A i \in 1 .. Len(down) : i \in 1 .. Len(down') /\ down'[i] = down[i]
            /\ Len(down) + 1 \in 1 .. Len(down') /\ down'[Len(down) + 1] = x
        BY <3>2, <4>1, AppendAt
      <4> QED
        BY <4>2
    <3> QED
      BY <2>3, <3>1, <3>2
  <2>5. ASSUME NEW n \in 1 .. made[cur], resend.i <= n, n <= resend.upto
        PROVE  Comes(n)'
    <3>1. CASE n = resend.i
      <4>1. CASE down' = down
        BY <1>2, <2>2, <2>3, <2>5, <3>1, <4>1 DEF Comes
      <4>2. CASE down' # down
        <5>1. \E j \in 1 .. Len(down') : down'[j] = [kind |-> "answer", r |-> cur', n |-> n]
          BY <1>2, <2>4, <3>1, <4>2
        <5> QED
          BY <5>1 DEF Comes
      <4> QED
        BY <4>1, <4>2
    <3>2. CASE n # resend.i
      <4>1. resend.i + 1 <= n /\ resend.i < resend.upto /\ resend.i + 1 \in Nat \ {0}
        BY <2>2, <2>5, <3>2
      <4>2. resend' = [resend EXCEPT !.i = @ + 1]
        <5>1. ~ ResendEnds
          <6>1. resend.i \in Nat /\ resend.upto \in Nat
            BY <2>2
          <6>2. ~ (resend.i >= resend.upto)
            BY <4>1, <6>1
          <6> QED
            BY <6>2 DEF ResendEnds
        <5> QED
          BY <1>6, <5>1 DEF ResendOne
      <4>3. resend' \in [i : Nat \ {0}, upto : 0 .. Answers] /\ resend'.i = resend.i + 1 /\ resend'.upto = resend.upto
        BY <2>2, <4>1, <4>2
      <4>4. resend' # None
        BY <4>3, NoResendAssumption
      <4> QED
        BY <2>5, <4>1, <4>3, <4>4 DEF Comes
    <3> QED
      BY <3>1, <3>2
  <2>6. ASSUME NEW n \in 1 .. made[cur] PROVE Comes(n)'
    <3>1. n \in Nat /\ Comes(n)
      BY <2>1
    <3>2. CASE resend # None /\ resend.i <= n /\ n <= resend.upto
      BY <2>5, <3>2
    <3>3. CASE ~ (resend # None /\ resend.i <= n /\ n <= resend.upto)
      <4> HIDE DEF x
      <4> QED
        BY <1>2, <1>3, <2>4, <3>1, <3>3, ComesKept
    <3> QED
      BY <3>2, <3>3
  <2>7. work' = "paused" => Resumes'
    <3>1. CASE ResendOne
      <4>1. resend' = [resend EXCEPT !.i = @ + 1]
        BY <3>1 DEF ResendOne
      <4>2. resend' \in [i : Nat \ {0}, upto : 0 .. Answers]
        BY <2>2, <4>1
      <4> QED
        BY <4>2, NoResendAssumption DEF Resumes
    <3>2. CASE ResendEnds
      BY <3>2 DEF ResendEnds
    <3> QED
      BY <1>6, <3>1, <3>2
  <2> QED
    BY <2>6, <2>7
<1> QED
  BY <1>4, <1>5, <1>6 DEF Quiet

LEMMA ComingStep ==
    ASSUME ConfirmInv, Resuming, Coming, [DeliveryNext]_dvars
    PROVE  Coming'
<1>1. PlacedInv
  BY DEF ConfirmInv
<1>2. CASE Cut
  BY <1>2 DEF Cut, Coming
<1>3. CASE Reconnect
  <2>1. down' = <<[kind |-> "session", r |-> None, n |-> 0]>>
    BY <1>3 DEF Reconnect, Recovers
  <2>2. 1 \in 1 .. Len(down') /\ down'[1].kind = "session"
    BY <2>1
  <2>3. SessionComes'
    BY <2>2 DEF SessionComes
  <2> QED
    BY <2>3 DEF Coming, Comes, Resumes
<1>4. CASE Start
  <2>1. /\ cur' = Head(que) /\ work' = "active" /\ que # <<>> /\ que \in Seq(Requests) /\ made' = made
    BY <1>1, <1>4 DEF Start, CanStart, PlacedInv, DeliveryTypeOK
  <2>2. cur' = que[1] /\ 1 \in 1 .. Len(que)
    BY <2>1
  <2>3. made'[cur'] = 0
    BY <1>1, <2>1, <2>2 DEF PlacedInv, InOnePlace
  <2> QED
    BY <2>1, <2>3 DEF Coming
<1> QED
  BY <1>2, <1>3, <1>4, ComingTabRequests, ComingTabResumes, ComingTabReceives, ComingReads,
     ComingAnswer, ComingQuiet DEF DeliveryNext, Quiet

-----------------------------------------------------------------------------
(* The theorems.                                                           *)

THEOREM DeliveryInvariant == DeliverySpec => []DeliveryInv
<1>1. DeliveryInit => DeliveryInv
  <2> SUFFICES ASSUME DeliveryInit PROVE DeliveryInv
    OBVIOUS
  <2>1. ConfirmInv
    BY ConfirmInit
  <2>2. up = <<>> /\ down = <<>> /\ waiting = {} /\ open /\ resend = None
    BY DEF DeliveryInit
  <2>3. Resuming
    BY <2>2 DEF Resuming
  <2>4. Coming
    BY <2>2 DEF Coming
  <2> QED
    BY <2>1, <2>3, <2>4 DEF DeliveryInv
<1>2. DeliveryInv /\ [DeliveryNext]_dvars => DeliveryInv'
  BY ConfirmStep, ResumingStep, ComingStep DEF DeliveryInv
<1> QED
  BY <1>1, <1>2, PTL DEF DeliverySpec

\* Every variable of the session and its tab keeps its type: a SEND FROM never
\* asks from beyond the answer after the last, and no more answers are made
\* than there are (client_send_from_cb, client_copy_check).
THEOREM DeliveryTypeCorrect == DeliverySpec => []DeliveryTypeOK
<1>1. DeliveryInv => DeliveryTypeOK
  BY DEF DeliveryInv, ConfirmInv, PlacedInv
<1> QED
  BY <1>1, DeliveryInvariant, PTL

\* The server only throws away what the tab has, although CONFIRM looks at the
\* current request whatever message it names: however often the websocket is
\* lost, no CONFIRM outlives the request it is for.
THEOREM ConfirmedIsReceivedAlways == DeliverySpec => []ConfirmedIsReceived
<1>1. DeliveryInv => ConfirmedIsReceived
  BY DEF DeliveryInv, ConfirmInv
<1> QED
  BY <1>1, DeliveryInvariant, PTL

\* With a working websocket and nothing under way, there is nothing more to
\* come, so all that was made is there (client_send_from_cb, client_cb).
LEMMA NothingToCome ==
    ASSUME DeliveryInv, ~ over, linked, up = <<>>, down = <<>>, resend = None, cur \in waiting
    PROVE  /\ 1 .. made[cur] \subseteq RangeOf(got[cur])
           /\ work # "paused"
<1>1. ~ SessionComes
  BY DEF SessionComes
<1>2. \A n : Comes(n) => n \in RangeOf(got[cur])
  BY <1>1 DEF Comes
<1>3. ~ Resumes
  BY <1>1 DEF Resumes
<1> QED
  BY <1>2, <1>3 DEF DeliveryInv, Coming

THEOREM QuiescentTabHasAllAlways == DeliverySpec => []QuiescentTabHasAll
<1>1. DeliveryInv => QuiescentTabHasAll
  BY NothingToCome DEF QuiescentTabHasAll
<1> QED
  BY <1>1, DeliveryInvariant, PTL

\* Work that pauses when the browser is gone is never left behind: with a
\* working websocket, nothing under way and the tab still waiting, it runs.
THEOREM QuiescentWorkGoesOnAlways == DeliverySpec => []QuiescentWorkGoesOn
<1>1. ASSUME DeliveryInv, ~ over, linked, up = <<>>, down = <<>>, resend = None, cur \in waiting
      PROVE  work = "active"
  <2>1. /\ PlacedInv /\ FramesName
    BY <1>1 DEF DeliveryInv, ConfirmInv
  <2>2. /\ cur \in Requests /\ cur # None /\ made[cur] \in 0 .. Answers
        /\ work \in {"none", "active", "paused", "done"}
    BY <1>1, <2>1, NoRequestAssumption DEF PlacedInv, DeliveryTypeOK
  <2>3. work # "none" /\ work # "paused"
    BY <1>1, <2>1, <2>2, NothingToCome DEF PlacedInv, Working
  <2>4. work # "done"
    <3>1. SUFFICES ASSUME work = "done" PROVE FALSE
      OBVIOUS
    <3>2. made[cur] = Answers
      BY <2>1, <2>2, <3>1 DEF PlacedInv, Working
    <3>3. Answers \in RangeOf(got[cur])
      BY <1>1, <3>2, AnswersAssumption, NothingToCome
    <3> QED
      BY <1>1, <2>1, <2>2, <3>3 DEF FramesName
  <2> QED
    BY <2>2, <2>3, <2>4
<1>2. DeliveryInv => QuiescentWorkGoesOn
  BY <1>1 DEF QuiescentWorkGoesOn
<1> QED
  BY <1>2, DeliveryInvariant, PTL
=============================================================================
