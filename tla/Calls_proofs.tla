----------------------------- MODULE Calls_proofs -----------------------------
(***************************************************************************)
(* Proofs about Calls, for any named websockets and any number of          *)
(* websockets, calls and losses.                                           *)
(*                                                                         *)
(* A step of the window is several calls of its functions, one after the   *)
(* other.  The invariants are therefore stated of any window t and any     *)
(* sessions sv in the place of tab and server, and kept by each function   *)
(* separately.                                                             *)
(*                                                                         *)
(* Leaves that are instances of lemmas name Zenon, which is faster there   *)
(* than the SMT solver that is tried first otherwise.                      *)
(***************************************************************************)
EXTENDS Calls, Lists_proofs, FiniteSetTheorems

LEMMA Numbers ==
    /\ MaxSockets \in Nat \ {0} /\ MaxCalls \in Nat /\ MaxDrops \in Nat
    /\ Env \in Places /\ Tabs \subseteq Places /\ Places = {Env} \cup Tabs
    /\ 0 \in Ids /\ Socks \subseteq Ids /\ CallIds \subseteq Nat /\ Ids \subseteq Nat
    /\ Env \notin Tabs /\ None \notin Tabs
  BY CallsAssumption DEF Places, Ids, Socks, CallIds

-----------------------------------------------------------------------------
(* What the functions of the window return.                                *)

\* The window has its types, and what it names is there.
Formed(t) ==
    /\ t \in WindowType /\ Len(t.socks) <= MaxSockets /\ Len(t.calls) <= MaxCalls
    /\ t.place[Env] # 0
    /\ \A p \in Places : t.place[p] \in 0 .. Len(t.socks)
    /\ \A c \in 1 .. Len(t.calls) :
           t.calls[c].to \in 1 .. Len(t.socks) /\ t.place[t.calls[c].via] # 0
    /\ \A n \in 1 .. Len(t.waiting) : t.waiting[n] \in 1 .. Len(t.calls)
    /\ \A i \in 1 .. Len(t.socks) : \A n \in 1 .. Len(t.socks[i].up) :
           t.socks[i].up[n].c \in 1 .. Len(t.calls)

LEMMA FormedTypes ==
    ASSUME NEW t, Formed(t)
    PROVE  /\ t.socks \in Seq(SocketType) /\ t.place \in [Places -> Ids]
           /\ t.calls \in Seq(CallType) /\ t.waiting \in Seq(CallIds)
           /\ Len(t.socks) \in Nat /\ Len(t.calls) \in Nat
           /\ 1 .. Len(t.socks) \subseteq Socks /\ 1 .. Len(t.calls) \subseteq CallIds
           /\ \A i \in 1 .. Len(t.socks) : t.socks[i] \in SocketType
           /\ \A c \in 1 .. Len(t.calls) : t.calls[c] \in CallType
           /\ t.place[Env] \in 1 .. Len(t.socks)
           /\ \A p \in Places : t.place[p] = 0 \/ t.place[p] \in 1 .. Len(t.socks)
<1>1. /\ t.socks \in Seq(SocketType) /\ t.place \in [Places -> Ids]
      /\ t.calls \in Seq(CallType) /\ t.waiting \in Seq(CallIds)
  BY DEF Formed, WindowType
<1>2. Len(t.socks) \in Nat /\ Len(t.calls) \in Nat
  BY <1>1
<1>3. 1 .. Len(t.socks) \subseteq Socks /\ 1 .. Len(t.calls) \subseteq CallIds
  BY <1>2, Numbers DEF Formed, Socks, CallIds
<1>4. \A p \in Places : t.place[p] = 0 \/ t.place[p] \in 1 .. Len(t.socks)
  BY <1>2 DEF Formed
<1>5. t.place[Env] \in 1 .. Len(t.socks)
  BY <1>4, Numbers DEF Formed
<1>6. /\ \A i \in 1 .. Len(t.socks) : t.socks[i] \in SocketType
      /\ \A c \in 1 .. Len(t.calls) : t.calls[c] \in CallType
  BY <1>1
<1> QED
  BY <1>1, <1>2, <1>3, <1>4, <1>5, <1>6

LEMMA NewSocket ==
    ASSUME NEW name \in Tabs \cup {None}, NEW sid \in Ids
    PROVE  /\ Socket(name, sid) \in SocketType
           /\ LET s == Socket(name, sid) IN
              /\ s.name = name /\ s.at = "connecting" /\ ~ s.stay /\ ~ s.timer
              /\ s.sid = sid /\ s.old = sid /\ s.up = <<>>
  BY DEF Socket, SocketType

\* The window t opens another websocket s at a place, and is u.
Opens(t, p, s, u) ==
    /\ Formed(u)
    /\ Len(u.socks) = Len(t.socks) + 1
    /\ \A i \in 1 .. Len(t.socks) : i \in 1 .. Len(u.socks) /\ u.socks[i] = t.socks[i]
    /\ u.socks[Len(t.socks) + 1] = s
    /\ u.place = [t.place EXCEPT ![p] = Len(t.socks) + 1]
    /\ u.calls = t.calls /\ u.waiting = t.waiting

LEMMA OpenedDoes ==
    ASSUME NEW t, Formed(t), NEW p \in Places, NEW name \in Tabs \cup {None}, NEW sid \in Ids,
           Len(t.socks) + 1 <= MaxSockets
    PROVE  Opens(t, p, Socket(name, sid), Opened(t, p, name, sid))
<1> DEFINE n == Len(t.socks)
<1>1. PICK u : u = Opened(t, p, name, sid)
  OBVIOUS
<1>2. /\ u.socks = Append(t.socks, Socket(name, sid))
      /\ u.place = [t.place EXCEPT ![p] = n + 1]
      /\ u.calls = t.calls /\ u.waiting = t.waiting
      /\ u = [socks |-> u.socks, place |-> u.place, calls |-> u.calls, waiting |-> u.waiting]
  BY Zenon, <1>1 DEF Opened, Formed, WindowType
<1>3. /\ t.socks \in Seq(SocketType) /\ t.place \in [Places -> Ids] /\ n \in Nat
      /\ \A q \in Places : t.place[q] = 0 \/ t.place[q] \in 1 .. n
  BY FormedTypes
<1>4. Socket(name, sid) \in SocketType /\ Socket(name, sid).up = <<>>
  BY NewSocket
<1>5. /\ u.socks \in Seq(SocketType) /\ Len(u.socks) = n + 1
      /\ \A i \in 1 .. n : i \in 1 .. Len(u.socks) /\ u.socks[i] = t.socks[i]
      /\ u.socks[n + 1] = Socket(name, sid)
  BY <1>2, <1>3, <1>4, AppendAt
<1>6. n + 1 \in Ids /\ n + 1 # 0
  BY <1>3, Numbers DEF Ids
<1>7. u.place \in [Places -> Ids]
  BY <1>2, <1>3, <1>6
<1>8. \A q \in Places : u.place[q] \in 0 .. n + 1 /\ (t.place[q] # 0 => u.place[q] # 0)
  BY <1>2, <1>3, <1>6
<1>9. u \in WindowType
  BY Zenon, <1>2, <1>5, <1>7 DEF Formed, WindowType
<1>10. \A i \in 1 .. n + 1 : i \in 1 .. n \/ i = n + 1
  BY <1>3
<1>11. \A i \in 1 .. Len(u.socks) : \A m \in 1 .. Len(u.socks[i].up) : u.socks[i].up[m].c \in 1 .. Len(u.calls)
  <2> SUFFICES ASSUME NEW i \in 1 .. Len(u.socks), NEW m \in 1 .. Len(u.socks[i].up)
               PROVE  u.socks[i].up[m].c \in 1 .. Len(u.calls)
    OBVIOUS
  <2>1. CASE i \in 1 .. n
    BY Zenon, <1>2, <1>5, <2>1 DEF Formed
  <2>2. CASE i = n + 1
    <3>1. Len(u.socks[i].up) = 0
      BY <1>4, <1>5, <2>2
    <3> QED
      BY <3>1
  <2> QED
    BY <1>5, <1>10, <2>1, <2>2
<1>12. \A c \in 1 .. Len(u.calls) : u.calls[c].to \in 1 .. Len(u.socks) /\ u.place[u.calls[c].via] # 0
  <2> SUFFICES ASSUME NEW c \in 1 .. Len(u.calls)
               PROVE  u.calls[c].to \in 1 .. Len(u.socks) /\ u.place[u.calls[c].via] # 0
    OBVIOUS
  <2>1. u.calls[c].to \in 1 .. n /\ t.place[u.calls[c].via] # 0 /\ u.calls[c].via \in Places
    BY Zenon, <1>2, FormedTypes DEF Formed, CallType
  <2> QED
    BY <1>5, <1>8, <2>1
<1>13. u.place[Env] # 0
  BY <1>8, Numbers DEF Formed
<1>14. Formed(u)
  BY Zenon, <1>2, <1>5, <1>8, <1>9, <1>11, <1>12, <1>13 DEF Formed
<1> QED
  BY <1>1, <1>2, <1>5, <1>14 DEF Opens

LEMMA FateIs ==
    ASSUME NEW s \in SocketType
    PROVE  \/ Fate(s) = "sent" /\ s.at = "open" /\ s.sid # 0
           \/ Fate(s) = "waiting" /\ (s.at = "connecting" \/ (s.at = "open" /\ s.sid = 0))
           \/ Fate(s) = "failed" /\ s.at \in {"closing", "closed"}
<1>1. s.at \in {"connecting", "open", "closing", "closed"}
  BY DEF SocketType
<1>2. CASE s.at = "open" /\ s.sid # 0
  BY <1>2 DEF Fate
<1>3. CASE s.at = "connecting" \/ (s.at = "open" /\ s.sid = 0)
  BY <1>3 DEF Fate
<1>4. CASE s.at \in {"closing", "closed"}
  BY <1>4 DEF Fate
<1> QED
  BY <1>1, <1>2, <1>3, <1>4

\* The call m is what became of the call k in the window t: it went to the
\* websocket it was for, or to GS.envSocket.
IsMade(t, k, m) ==
    /\ m \in CallType /\ m.to \in 1 .. Len(t.socks) /\ t.place[m.via] # 0
    /\ \/ m.to = k.to /\ m.via = k.via /\ t.socks[k.to].at # "closed"
       \/ m.to = t.place[Env] /\ m.via = Env /\ t.socks[k.to].at = "closed"
    /\ LET s == t.socks[m.to] IN
       \/ m.at = "sent" /\ s.at = "open" /\ s.sid # 0 /\ m.session = s.sid
       \/ m.at = "waiting" /\ (s.at = "connecting" \/ (s.at = "open" /\ s.sid = 0))
       \/ m.at = "failed" /\ s.at \in {"closing", "closed"}

LEMMA MadeDoes ==
    ASSUME NEW t, Formed(t), NEW c \in 1 .. Len(t.calls)
    PROVE  IsMade(t, t.calls[c], Made(t, t.calls[c]))
<1> DEFINE k == t.calls[c]
           g == IF t.socks[k.to].at = "closed" THEN [k EXCEPT !.to = t.place[Env], !.via = Env] ELSE k
<1>1. /\ k \in CallType /\ k.to \in 1 .. Len(t.socks) /\ t.place[k.via] # 0
      /\ t.place[Env] \in 1 .. Len(t.socks) /\ 1 .. Len(t.socks) \subseteq Ids
      /\ \A i \in 1 .. Len(t.socks) : t.socks[i] \in SocketType
  BY FormedTypes, Numbers DEF Formed
<1>2. /\ g \in CallType /\ g.to \in 1 .. Len(t.socks) /\ t.place[g.via] # 0
      /\ \/ g.to = k.to /\ g.via = k.via /\ t.socks[k.to].at # "closed"
         \/ g.to = t.place[Env] /\ g.via = Env /\ t.socks[k.to].at = "closed"
  <2>1. CASE t.socks[k.to].at = "closed"
    <3>1. g = [k EXCEPT !.to = t.place[Env], !.via = Env]
      BY <2>1
    <3>2. g \in CallType /\ g.to = t.place[Env] /\ g.via = Env
      BY Zenon, <1>1, <3>1, Numbers DEF CallType
    <3> QED
      BY <1>1, <2>1, <3>2
  <2>2. CASE t.socks[k.to].at # "closed"
    BY <1>1, <2>2
  <2> QED
    BY <2>1, <2>2
<1> HIDE DEF g
<1> DEFINE s == t.socks[g.to]
           m == [g EXCEPT !.at = Fate(s), !.session = IF Fate(s) = "sent" THEN s.sid ELSE 0]
<1>3. s \in SocketType
  BY <1>1, <1>2
<1>4. \/ Fate(s) = "sent" /\ s.at = "open" /\ s.sid # 0
      \/ Fate(s) = "waiting" /\ (s.at = "connecting" \/ (s.at = "open" /\ s.sid = 0))
      \/ Fate(s) = "failed" /\ s.at \in {"closing", "closed"}
  BY <1>3, FateIs
<1>5. /\ m \in CallType /\ m.to = g.to /\ m.via = g.via /\ m.at = Fate(s)
      /\ Fate(s) = "sent" => m.session = s.sid
  <2>1. s.sid \in Ids /\ 0 \in Ids /\ Fate(s) \in {"waiting", "sent", "failed", "answered"}
    BY <1>3, <1>4, Numbers DEF SocketType
  <2> HIDE DEF s
  <2> QED
    BY Zenon, <1>2, <2>1 DEF CallType
<1>6. Made(t, k) = m
  BY DEF Made, g
<1> QED
  BY <1>2, <1>4, <1>5, <1>6 DEF IsMade

\* The websockets of t and r are the same ones, but for what is on its way.
SameSockets(t, r) ==
    /\ Len(r.socks) = Len(t.socks) /\ r.place = t.place
    /\ \A i \in 1 .. Len(t.socks) : r.socks[i] = [t.socks[i] EXCEPT !.up = r.socks[i].up]

LEMMA FunctionIsSeq ==
    ASSUME NEW S, NEW n \in Nat, NEW f \in [1 .. n -> S]
    PROVE  f \in Seq(S) /\ Len(f) = n
  OBVIOUS

LEMMA WiderSeq ==
    ASSUME NEW S, NEW T, S \subseteq T, NEW s \in Seq(S)
    PROVE  s \in Seq(T)
  OBVIOUS

LEMMA FramesAre ==
    ASSUME NEW kind \in {"call", "from"}, NEW n \in Nat, n <= MaxCalls, NEW calls \in Seq(1 .. n)
    PROVE  /\ Frames(kind, calls) \in Seq(FrameType) /\ Len(Frames(kind, calls)) = Len(calls)
           /\ \A m \in 1 .. Len(calls) :
                  Frames(kind, calls)[m] = [kind |-> kind, c |-> calls[m]] /\ calls[m] \in 1 .. n
<1>1. \A m \in 1 .. Len(calls) : calls[m] \in 1 .. n /\ calls[m] \in CallIds
  BY Numbers DEF CallIds
<1> QED
  BY <1>1 DEF Frames, FrameType

LEMMA RevivedDoes ==
    ASSUME NEW t, Formed(t), NEW X, Len(Revived(t, X).socks) <= MaxSockets
    PROVE  \/ Revived(t, X) = t
           \/ /\ t.socks[t.place[Env]].at = "closed" /\ Len(t.socks) + 1 <= MaxSockets
              /\ Revived(t, X) = Opened(t, Env, None, 0)
<1>1. CASE Revived(t, X) # t
  <2>1. Revived(t, X) = Opened(t, Env, None, 0) /\ t.socks[t.place[Env]].at = "closed"
    BY <1>1 DEF Revived
  <2>2. Opened(t, Env, None, 0).socks = Append(t.socks, Socket(None, 0))
    BY DEF Opened, Formed, WindowType
  <2>3. Socket(None, 0) \in SocketType /\ t.socks \in Seq(SocketType)
    BY NewSocket, Numbers, FormedTypes
  <2>4. Len(Append(t.socks, Socket(None, 0))) = Len(t.socks) + 1
    BY <2>3
  <2> QED
    BY <2>1, <2>2, <2>4
<1> QED
  BY <1>1

\* What making calls does to a window: u is the window with GS.envSocket open.
Makes(u, calls, r) ==
    /\ SameSockets(u, r)
    /\ Len(r.calls) = Len(u.calls)
    /\ \A c \in 1 .. Len(u.calls) :
           r.calls[c] = IF c \in RangeOf(calls) THEN Made(u, u.calls[c]) ELSE u.calls[c]
    /\ r.waiting = u.waiting \o Kept(calls, {c \in RangeOf(calls) : r.calls[c].at = "waiting"})
    /\ \A i \in 1 .. Len(u.socks) :
           r.socks[i].up = u.socks[i].up \o
               Frames("call", Kept(calls, {c \in RangeOf(calls) : r.calls[c].at = "sent" /\ r.calls[c].to = i}))

\* GS.envSocket is opened for a call, if it is closed.
Reopens(t, u) ==
    u = t \/ (t.socks[t.place[Env]].at = "closed" /\ Opens(t, Env, Socket(None, 0), u))

LEMMA RequestedDoes ==
    ASSUME NEW t, Formed(t), NEW calls \in Seq(1 .. Len(t.calls)), Len(Requested(t, calls).socks) <= MaxSockets
    PROVE  \E u : /\ Reopens(t, u)
                  /\ Formed(u) /\ u.calls = t.calls /\ u.waiting = t.waiting
                  /\ Formed(Requested(t, calls)) /\ Makes(u, calls, Requested(t, calls))
<1>1. PICK u : u = Revived(t, RangeOf(calls))
  OBVIOUS
<1>2. PICK r : r = Requested(t, calls)
  OBVIOUS
<1> DEFINE done == [c \in 1 .. Len(u.calls) |->
                       IF c \in RangeOf(calls) THEN Made(u, u.calls[c]) ELSE u.calls[c]]
           up(i) == u.socks[i].up \o
                       Frames("call", Kept(calls, {c \in RangeOf(calls) : done[c].at = "sent" /\ done[c].to = i}))
           socks == [i \in 1 .. Len(u.socks) |-> [u.socks[i] EXCEPT !.up = up(i)]]
           waiting == u.waiting \o Kept(calls, {c \in RangeOf(calls) : done[c].at = "waiting"})
<1>3. r = [u EXCEPT !.calls = done, !.waiting = waiting, !.socks = socks]
  BY <1>1, <1>2 DEF Requested
<1>4. \/ u = t
      \/ u = [t EXCEPT !.socks = Append(@, Socket(None, 0)), !.place[Env] = Len(t.socks) + 1]
  BY <1>1 DEF Revived, Opened
<1>5. /\ u = [socks |-> u.socks, place |-> u.place, calls |-> u.calls, waiting |-> u.waiting]
      /\ u.socks \in Seq(SocketType) /\ Len(u.socks) \in Nat
  <2>1. t.socks \in Seq(SocketType) /\ Socket(None, 0) \in SocketType
    BY FormedTypes, NewSocket, Numbers
  <2>2. t = [socks |-> t.socks, place |-> t.place, calls |-> t.calls, waiting |-> t.waiting]
    BY DEF Formed, WindowType
  <2>3. CASE u = t
    BY <2>1, <2>2, <2>3
  <2>4. CASE u = [t EXCEPT !.socks = Append(@, Socket(None, 0)), !.place[Env] = Len(t.socks) + 1]
    <3>1. /\ u = [socks |-> u.socks, place |-> u.place, calls |-> u.calls, waiting |-> u.waiting]
          /\ u.socks = Append(t.socks, Socket(None, 0))
      BY Zenon, <2>2, <2>4
    <3> QED
      BY <2>1, <3>1
  <2> QED
    BY <1>4, <2>3, <2>4
<1>6. r = [socks |-> socks, place |-> u.place, calls |-> done, waiting |-> waiting]
  BY Zenon, <1>3, <1>5
<1>7. Len(socks) = Len(u.socks) /\ r.socks = socks
  BY SMTT(30), <1>5, <1>6
<1>8. Len(Revived(t, RangeOf(calls)).socks) <= MaxSockets
  BY <1>1, <1>2, <1>7
<1>9. \/ u = t
      \/ /\ t.socks[t.place[Env]].at = "closed" /\ Len(t.socks) + 1 <= MaxSockets
         /\ u = Opened(t, Env, None, 0)
  BY <1>1, <1>8, RevivedDoes
<1>10. Formed(u) /\ u.calls = t.calls /\ u.waiting = t.waiting /\ Reopens(t, u)
  <2>1. CASE u = t
    BY <2>1 DEF Reopens
  <2>2. CASE Len(t.socks) + 1 <= MaxSockets /\ u = Opened(t, Env, None, 0)
    <3>1. Env \in Places /\ None \in Tabs \cup {None} /\ 0 \in Ids
      BY Numbers
    <3>2. Opens(t, Env, Socket(None, 0), u)
      BY Zenon, <2>2, <3>1, OpenedDoes
    <3> QED
      BY <1>9, <2>2, <3>2 DEF Opens, Reopens
  <2> QED
    BY <1>9, <2>1, <2>2
<1>11. /\ u.socks \in Seq(SocketType) /\ u.calls \in Seq(CallType) /\ u.place \in [Places -> Ids]
       /\ u.waiting \in Seq(CallIds) /\ Len(u.calls) \in Nat /\ Len(u.calls) <= MaxCalls
       /\ \A i \in 1 .. Len(u.socks) : u.socks[i] \in SocketType
       /\ 1 .. Len(u.calls) \subseteq CallIds
  BY Zenon, <1>10, FormedTypes DEF Formed
<1>12. calls \in Seq(1 .. Len(u.calls))
  BY <1>10
<1>13. /\ done \in Seq(CallType) /\ Len(done) = Len(u.calls)
       /\ \A c \in 1 .. Len(u.calls) : done[c].to \in 1 .. Len(u.socks) /\ u.place[done[c].via] # 0
  <2>1. \A c \in 1 .. Len(u.calls) :
            /\ done[c] \in CallType /\ done[c].to \in 1 .. Len(u.socks) /\ u.place[done[c].via] # 0
    <3> SUFFICES ASSUME NEW c \in 1 .. Len(u.calls)
                 PROVE  /\ done[c] \in CallType /\ done[c].to \in 1 .. Len(u.socks)
                        /\ u.place[done[c].via] # 0
      BY Zenon
    <3>1. CASE c \in RangeOf(calls)
      BY <1>10, <3>1, MadeDoes DEF IsMade
    <3>2. CASE c \notin RangeOf(calls)
      BY Zenon, <1>10, <3>2, FormedTypes DEF Formed
    <3> QED
      BY <3>1, <3>2
  <2> HIDE DEF done
  <2>2. DOMAIN done = 1 .. Len(u.calls)
    BY DEF done
  <2>3. done = [c \in 1 .. Len(u.calls) |-> done[c]]
    BY DEF done
  <2>4. done \in [1 .. Len(u.calls) -> CallType]
    BY Zenon, <2>1, <2>3
  <2>5. done \in Seq(CallType) /\ Len(done) = Len(u.calls)
    BY Zenon, <1>11, <2>4, FunctionIsSeq
  <2> QED
    BY <2>1, <2>5
<1>14. \A W : /\ Kept(calls, W) \in Seq(1 .. Len(u.calls)) /\ Kept(calls, W) \in Seq(CallIds)
              /\ Frames("call", Kept(calls, W)) \in Seq(FrameType)
              /\ \A m \in 1 .. Len(Frames("call", Kept(calls, W))) :
                     Frames("call", Kept(calls, W))[m].c \in 1 .. Len(u.calls)
  <2> SUFFICES ASSUME NEW W
               PROVE  /\ Kept(calls, W) \in Seq(1 .. Len(u.calls)) /\ Kept(calls, W) \in Seq(CallIds)
                      /\ Frames("call", Kept(calls, W)) \in Seq(FrameType)
                      /\ \A m \in 1 .. Len(Frames("call", Kept(calls, W))) :
                             Frames("call", Kept(calls, W))[m].c \in 1 .. Len(u.calls)
    OBVIOUS
  <2>1. Kept(calls, W) \in Seq(1 .. Len(u.calls))
    BY <1>12, KeptProperties
  <2>2. /\ Frames("call", Kept(calls, W)) \in Seq(FrameType)
        /\ Len(Frames("call", Kept(calls, W))) = Len(Kept(calls, W))
        /\ \A m \in 1 .. Len(Kept(calls, W)) :
               /\ Frames("call", Kept(calls, W))[m] = [kind |-> "call", c |-> Kept(calls, W)[m]]
               /\ Kept(calls, W)[m] \in 1 .. Len(u.calls)
    BY <1>11, <2>1, FramesAre
  <2>3. Kept(calls, W) \in Seq(CallIds)
    BY Zenon, <1>11, <2>1, WiderSeq
  <2>4. ASSUME NEW m \in 1 .. Len(Frames("call", Kept(calls, W)))
        PROVE  Frames("call", Kept(calls, W))[m].c \in 1 .. Len(u.calls)
    <3>1. m \in 1 .. Len(Kept(calls, W))
      BY <2>2
    <3>2. PICK c : c = Kept(calls, W)[m]
      OBVIOUS
    <3>3. Frames("call", Kept(calls, W))[m] = [kind |-> "call", c |-> c] /\ c \in 1 .. Len(u.calls)
      BY <2>2, <3>1, <3>2
    <3> QED
      BY <3>3
  <2> QED
    BY <2>1, <2>2, <2>3, <2>4
<1>15. \A i \in 1 .. Len(u.socks) :
           /\ up(i) \in Seq(FrameType)
           /\ \A m \in 1 .. Len(up(i)) : up(i)[m].c \in 1 .. Len(u.calls)
  <2> SUFFICES ASSUME NEW i \in 1 .. Len(u.socks)
               PROVE  /\ up(i) \in Seq(FrameType)
                      /\ \A m \in 1 .. Len(up(i)) : up(i)[m].c \in 1 .. Len(u.calls)
    BY Zenon
  <2>1. PICK W : W = {c \in RangeOf(calls) : done[c].at = "sent" /\ done[c].to = i}
    BY Zenon
  <2>2. PICK f : f = Frames("call", Kept(calls, W))
    OBVIOUS
  <2>3. up(i) = u.socks[i].up \o f
    BY <2>1, <2>2
  <2>4. u.socks[i].up \in Seq(FrameType) /\ f \in Seq(FrameType)
    BY Zenon, <1>11, <1>14, <2>2 DEF SocketType
  <2>5. \A m \in 1 .. Len(f) : f[m].c \in 1 .. Len(u.calls)
    BY <1>14, <2>2
  <2>6. \A m \in 1 .. Len(u.socks[i].up) : u.socks[i].up[m].c \in 1 .. Len(u.calls)
    BY <1>10 DEF Formed
  <2> HIDE DEF up
  <2>7. PICK g : g = u.socks[i].up
    OBVIOUS
  <2>8. ASSUME NEW m \in 1 .. Len(g \o f) PROVE (g \o f)[m].c \in 1 .. Len(u.calls)
    <3>1. \/ m \in 1 .. Len(g) /\ (g \o f)[m] = g[m]
          \/ m - Len(g) \in 1 .. Len(f) /\ (g \o f)[m] = f[m - Len(g)]
      BY <2>4, <2>7, ConcatAt
    <3> QED
      BY Zenon, <2>5, <2>6, <2>7, <3>1
  <2> QED
    BY <2>3, <2>4, <2>7, <2>8, ConcatAt
<1> HIDE DEF up, done
<1>16. \A i \in 1 .. Len(u.socks) : /\ socks[i] \in SocketType /\ socks[i].up = up(i)
                                    /\ socks[i] = [u.socks[i] EXCEPT !.up = socks[i].up]
  BY Zenon, <1>11, <1>15 DEF SocketType
<1>17. socks \in Seq(SocketType)
  <2>1. socks = [i \in 1 .. Len(u.socks) |-> socks[i]]
    OBVIOUS
  <2> HIDE DEF socks
  <2> QED
    BY <1>5, <1>16, <2>1
<1>18. waiting \in Seq(CallIds) /\ \A n \in 1 .. Len(waiting) : waiting[n] \in 1 .. Len(u.calls)
  <2>1. PICK k : k = Kept(calls, {c \in RangeOf(calls) : done[c].at = "waiting"})
    BY Zenon
  <2>2. /\ k \in Seq(CallIds) /\ (\A n \in 1 .. Len(k) : k[n] \in 1 .. Len(u.calls))
        /\ u.waiting \in Seq(CallIds) /\ (\A n \in 1 .. Len(u.waiting) : u.waiting[n] \in 1 .. Len(u.calls))
    BY SMTT(30), <1>10, <1>11, <1>14, <2>1 DEF Formed
  <2>3. waiting = u.waiting \o k
    BY <2>1
  <2> HIDE DEF waiting
  <2> QED
    BY <2>2, <2>3, ConcatAt
<1> HIDE DEF waiting, socks
<1>19. r.socks = socks /\ r.place = u.place /\ r.calls = done /\ r.waiting = waiting
  BY <1>6
<1>20. r \in WindowType
  BY <1>6, <1>11, <1>13, <1>17, <1>18 DEF WindowType
<1>21. Formed(r)
  <2>1. Len(r.socks) = Len(u.socks) /\ Len(r.calls) = Len(u.calls) /\ r.place = u.place
    BY <1>7, <1>13, <1>19
  <2>2. \A c \in 1 .. Len(r.calls) : r.calls[c].to \in 1 .. Len(r.socks) /\ r.place[r.calls[c].via] # 0
    BY <1>13, <1>19, <2>1
  <2>3. \A n \in 1 .. Len(r.waiting) : r.waiting[n] \in 1 .. Len(r.calls)
    BY <1>18, <1>19, <2>1
  <2>4. \A i \in 1 .. Len(r.socks) : \A n \in 1 .. Len(r.socks[i].up) :
            r.socks[i].up[n].c \in 1 .. Len(r.calls)
    BY Zenon, <1>15, <1>16, <1>19, <2>1
  <2> QED
    BY <1>10, <1>20, <2>1, <2>2, <2>3, <2>4 DEF Formed
<1>22. SameSockets(u, r)
  BY Zenon, <1>7, <1>16, <1>19 DEF SameSockets
<1>23. Makes(u, calls, r)
  <2>1. \A c \in 1 .. Len(u.calls) :
            r.calls[c] = IF c \in RangeOf(calls) THEN Made(u, u.calls[c]) ELSE u.calls[c]
    BY <1>19 DEF done
  <2>2. r.waiting = u.waiting \o Kept(calls, {c \in RangeOf(calls) : r.calls[c].at = "waiting"})
    BY <1>19 DEF waiting
  <2>3. \A i \in 1 .. Len(u.socks) :
           r.socks[i].up = u.socks[i].up \o
               Frames("call", Kept(calls, {c \in RangeOf(calls) : r.calls[c].at = "sent" /\ r.calls[c].to = i}))
    BY Zenon, <1>16, <1>19 DEF up
  <2> QED
    BY Zenon, <1>13, <1>19, <1>22, <2>1, <2>2, <2>3 DEF Makes
<1> QED
  BY <1>2, <1>10, <1>21, <1>23

NoTwice(s) == \A m, n \in 1 .. Len(s) : s[m] = s[n] => m = n

\* A call waits when it is in arrWaitingCalls, or among those about to be made.
Listed(t, calls) ==
    /\ NoTwice(t.waiting) /\ NoTwice(calls) /\ RangeOf(t.waiting) \cap RangeOf(calls) = {}
    /\ \A c \in 1 .. Len(t.calls) :
           /\ t.calls[c].at = "waiting" <=> c \in RangeOf(t.waiting) \cup RangeOf(calls)
           /\ t.calls[c].at = "sent" => t.calls[c].session # 0

LEMMA ConcatTwice ==
    ASSUME NEW S, NEW s \in Seq(S), NEW t \in Seq(S), NoTwice(s), NoTwice(t),
           RangeOf(s) \cap RangeOf(t) = {}
    PROVE  NoTwice(s \o t)
<1> SUFFICES ASSUME NEW m \in 1 .. Len(s \o t), NEW n \in 1 .. Len(s \o t), (s \o t)[m] = (s \o t)[n]
             PROVE  m = n
  BY DEF NoTwice
<1> DEFINE x == (s \o t)[m]
<1>1. \/ m \in 1 .. Len(s) /\ x = s[m] /\ x \in RangeOf(s)
      \/ m - Len(s) \in 1 .. Len(t) /\ x = t[m - Len(s)] /\ x \in RangeOf(t)
  BY SMTT(30), ConcatAt DEF RangeOf
<1>2. \/ n \in 1 .. Len(s) /\ x = s[n] /\ x \in RangeOf(s)
      \/ n - Len(s) \in 1 .. Len(t) /\ x = t[n - Len(s)] /\ x \in RangeOf(t)
  BY ConcatAt DEF RangeOf
<1>3. Len(s) \in Nat /\ m \in Nat /\ n \in Nat
  BY ConcatAt
<1> HIDE DEF x
<1>4. CASE m \in 1 .. Len(s) /\ x = s[m] /\ x \in RangeOf(s)
  <2>1. n \in 1 .. Len(s) /\ x = s[n]
    BY <1>2, <1>4
  <2> QED
    BY <1>4, <2>1 DEF NoTwice
<1>5. CASE m - Len(s) \in 1 .. Len(t) /\ x = t[m - Len(s)] /\ x \in RangeOf(t)
  <2>1. n - Len(s) \in 1 .. Len(t) /\ x = t[n - Len(s)]
    BY <1>2, <1>5
  <2>2. m - Len(s) = n - Len(s)
    BY <1>5, <2>1 DEF NoTwice
  <2> QED
    BY <1>3, <2>2
<1> QED
  BY <1>1, <1>4, <1>5

LEMMA MakesListed ==
    ASSUME NEW u, Formed(u), NEW calls \in Seq(1 .. Len(u.calls)), Listed(u, calls), NEW r, Formed(r), Makes(u, calls, r)
    PROVE  Listed(r, <<>>)
<1> DEFINE W == {c \in RangeOf(calls) : r.calls[c].at = "waiting"}
           k == Kept(calls, W)
<1>1. /\ k \in Seq(1 .. Len(u.calls)) /\ RangeOf(k) = W /\ NoTwice(k)
  <2>1. \A i, j \in 1 .. Len(calls) : calls[i] = calls[j] => i = j
    BY DEF Listed, NoTwice
  <2>2. \A x : x \in RangeOf(k) <=> x \in RangeOf(calls) /\ x \in W
    BY KeptProperties
  <2> HIDE DEF W
  <2>3. k \in Seq(1 .. Len(u.calls)) /\ NoTwice(k)
    BY <2>1, KeptProperties DEF NoTwice
  <2> QED
    BY <2>2, <2>3 DEF W
<1> HIDE DEF k
<1>2. r.waiting = u.waiting \o k /\ Len(r.calls) = Len(u.calls)
  BY DEF Makes, k
<1>3. u.waiting \in Seq(1 .. Len(u.calls)) /\ RangeOf(u.waiting) \subseteq 1 .. Len(u.calls)
  <2>1. u.waiting \in Seq(CallIds) /\ \A n \in 1 .. Len(u.waiting) : u.waiting[n] \in 1 .. Len(u.calls)
    BY Zenon, FormedTypes DEF Formed
  <2> QED
    BY SMTT(30), <2>1 DEF RangeOf
<1>4. W \subseteq RangeOf(calls)
  OBVIOUS
<1>5. RangeOf(r.waiting) = RangeOf(u.waiting) \cup W
  BY <1>1, <1>2, <1>3, RangeConcat
<1>6. NoTwice(r.waiting)
  BY <1>1, <1>2, <1>3, <1>4, ConcatTwice DEF Listed
<1>7. ASSUME NEW c \in 1 .. Len(r.calls)
      PROVE  /\ r.calls[c].at = "waiting" <=> c \in RangeOf(r.waiting)
             /\ r.calls[c].at = "sent" => r.calls[c].session # 0
  <2>1. CASE c \in RangeOf(calls)
    <3>1. r.calls[c] = Made(u, u.calls[c])
      BY <1>2, <2>1 DEF Makes
    <3>2. c \notin RangeOf(u.waiting)
      BY <2>1 DEF Listed
    <3>3. r.calls[c].at = "sent" => r.calls[c].session # 0
      <4>1. PICK m : m = Made(u, u.calls[c])
        OBVIOUS
      <4>2. c \in 1 .. Len(u.calls)
        BY <1>2
      <4>3. IsMade(u, u.calls[c], m)
        BY <4>1, <4>2, MadeDoes
      <4>4. m.at = "sent" => m.session # 0
        BY <4>3 DEF IsMade
      <4> QED
        BY <3>1, <4>1, <4>4
    <3> QED
      BY <1>5, <2>1, <3>2, <3>3
  <2>2. CASE c \notin RangeOf(calls)
    <3>1. r.calls[c] = u.calls[c]
      BY <1>2, <2>2 DEF Makes
    <3> QED
      BY <1>2, <1>5, <2>2, <3>1 DEF Listed
  <2> QED
    BY <2>1, <2>2
<1>8. RangeOf(<<>>) = {} /\ NoTwice(<<>>)
  BY DEF RangeOf, NoTwice
<1> QED
  BY <1>6, <1>7, <1>8 DEF Listed

-----------------------------------------------------------------------------
(* What the steps of the window do.                                        *)

\* A call is added, and about to be made.
Adds(t, p, r) ==
    /\ r.socks = t.socks /\ r.place = t.place /\ r.waiting = t.waiting
    /\ r.calls = Append(t.calls, [via |-> p, to |-> t.place[p], at |-> "waiting", session |-> 0])

LEMMA AddsDoes ==
    ASSUME NEW t, Formed(t), Listed(t, <<>>), NEW p \in Places, t.place[p] # 0, Len(t.calls) < MaxCalls,
           NEW r, r = [t EXCEPT !.calls = Append(@, [via |-> p, to |-> t.place[p], at |-> "waiting", session |-> 0])]
    PROVE  /\ Adds(t, p, r) /\ Formed(r) /\ Listed(r, <<Len(t.calls) + 1>>)
           /\ <<Len(t.calls) + 1>> \in Seq(1 .. Len(r.calls))
           /\ Len(r.calls) = Len(t.calls) + 1
           /\ \A c \in 1 .. Len(t.calls) : c \in 1 .. Len(r.calls) /\ r.calls[c] = t.calls[c]
           /\ r.calls[Len(t.calls) + 1] = [via |-> p, to |-> t.place[p], at |-> "waiting", session |-> 0]
<1> DEFINE n == Len(t.calls)
<1>1. PICK k : k = [via |-> p, to |-> t.place[p], at |-> "waiting", session |-> 0]
  OBVIOUS
<1>2. /\ t.socks \in Seq(SocketType) /\ t.place \in [Places -> Ids] /\ t.calls \in Seq(CallType)
      /\ t.waiting \in Seq(CallIds) /\ n \in Nat /\ t.place[p] \in 1 .. Len(t.socks)
  BY FormedTypes
<1>3. k \in CallType /\ k.to = t.place[p] /\ k.via = p /\ k.at = "waiting" /\ k.session = 0
  BY <1>1, <1>2, Numbers DEF CallType
<1>4. Adds(t, p, r) /\ r.calls = Append(t.calls, k)
      /\ r = [socks |-> t.socks, place |-> t.place, calls |-> r.calls, waiting |-> t.waiting]
  BY Zenon, <1>1 DEF Adds, Formed, WindowType
<1>5. /\ r.calls \in Seq(CallType) /\ Len(r.calls) = n + 1 /\ r.calls[n + 1] = k
      /\ \A c \in 1 .. n : c \in 1 .. n + 1 /\ r.calls[c] = t.calls[c]
      /\ \A c \in 1 .. n + 1 : c \in 1 .. n \/ c = n + 1
  BY <1>2, <1>3, <1>4, AppendAt
<1>6. r.socks = t.socks /\ r.place = t.place /\ r.waiting = t.waiting
  BY <1>4 DEF Adds
<1>7. Formed(r)
  <2>1. r \in WindowType
    BY Zenon, <1>2, <1>4, <1>5 DEF WindowType
  <2>2. Len(r.calls) <= MaxCalls
    BY <1>2, <1>5, Numbers
  <2>3. \A c \in 1 .. Len(r.calls) : r.calls[c].to \in 1 .. Len(r.socks) /\ r.place[r.calls[c].via] # 0
    <3> SUFFICES ASSUME NEW c \in 1 .. n + 1
                 PROVE  r.calls[c].to \in 1 .. Len(r.socks) /\ r.place[r.calls[c].via] # 0
      BY <1>5
    <3>1. CASE c \in 1 .. n
      BY <1>5, <1>6, <3>1 DEF Formed
    <3>2. CASE c = n + 1
      BY <1>2, <1>3, <1>5, <1>6, <3>2
    <3> QED
      BY <1>5, <3>1, <3>2
  <2>4. \A m \in 1 .. Len(r.waiting) : r.waiting[m] \in 1 .. Len(r.calls)
    <3> SUFFICES ASSUME NEW m \in 1 .. Len(r.waiting) PROVE r.waiting[m] \in 1 .. Len(r.calls)
      OBVIOUS
    <3>1. r.waiting[m] \in 1 .. n
      BY <1>6 DEF Formed
    <3> QED
      BY <1>5, <3>1
  <2>5. \A i \in 1 .. Len(r.socks) : \A m \in 1 .. Len(r.socks[i].up) : r.socks[i].up[m].c \in 1 .. Len(r.calls)
    <3> SUFFICES ASSUME NEW i \in 1 .. Len(r.socks), NEW m \in 1 .. Len(r.socks[i].up)
                 PROVE  r.socks[i].up[m].c \in 1 .. Len(r.calls)
      BY Zenon
    <3>1. r.socks[i].up[m].c \in 1 .. n
      BY Zenon, <1>6 DEF Formed
    <3> QED
      BY Zenon, <1>5, <3>1
  <2> QED
    BY Zenon, <1>6, <2>1, <2>2, <2>3, <2>4, <2>5 DEF Formed
<1>8. <<n + 1>> \in Seq(1 .. Len(r.calls)) /\ RangeOf(<<n + 1>>) = {n + 1} /\ NoTwice(<<n + 1>>)
  <2>1. n + 1 \in 1 .. Len(r.calls)
    BY <1>2, <1>5
  <2> QED
    BY <2>1 DEF RangeOf, NoTwice
<1>9. RangeOf(t.waiting) \subseteq 1 .. n
  BY DEF RangeOf, Formed
<1>10. RangeOf(<<>>) = {}
  BY DEF RangeOf
<1>11. Listed(r, <<n + 1>>)
  <2>1. n + 1 \notin 1 .. n
    BY <1>2
  <2>2. ASSUME NEW c \in 1 .. Len(r.calls)
        PROVE  /\ r.calls[c].at = "waiting" <=> c \in RangeOf(r.waiting) \cup {n + 1}
               /\ r.calls[c].at = "sent" => r.calls[c].session # 0
    <3>1. CASE c \in 1 .. n
      BY <1>5, <1>6, <1>10, <2>1, <3>1 DEF Listed
    <3>2. CASE c = n + 1
      BY <1>3, <1>5, <3>2
    <3> QED
      BY <1>5, <3>1, <3>2
  <2>3. RangeOf(r.waiting) \cap {n + 1} = {}
    BY <1>6, <1>9, <2>1
  <2>4. NoTwice(r.waiting)
    BY <1>6 DEF Listed
  <2> QED
    BY <1>8, <2>2, <2>3, <2>4 DEF Listed
<1> QED
  BY <1>1, <1>4, <1>5, <1>7, <1>8, <1>11

\* A step that makes calls: t is the window before they are made, u the one
\* with GS.envSocket open.
Requesting(t, u, calls) ==
    /\ Formed(t) /\ Listed(t, calls) /\ calls \in Seq(1 .. Len(t.calls))
    /\ Reopens(t, u) /\ Formed(u) /\ u.calls = t.calls /\ u.waiting = t.waiting
    /\ Makes(u, calls, tab') /\ Formed(tab') /\ Listed(tab', <<>>)

LEMMA RequestingDoes ==
    ASSUME NEW t, Formed(t), NEW calls \in Seq(1 .. Len(t.calls)), Listed(t, calls),
           tab' = Requested(t, calls), Room
    PROVE  \E u : Requesting(t, u, calls)
<1>1. Len(Requested(t, calls).socks) <= MaxSockets
  BY DEF Room
<1>2. PICK u : /\ Reopens(t, u) /\ Formed(u) /\ u.calls = t.calls /\ u.waiting = t.waiting
               /\ Formed(Requested(t, calls)) /\ Makes(u, calls, Requested(t, calls))
  BY <1>1, RequestedDoes
<1>3. Listed(u, calls) /\ calls \in Seq(1 .. Len(u.calls))
  BY <1>2 DEF Listed
<1>4. PICK r : r = tab'
  OBVIOUS
<1>5. Formed(r) /\ Makes(u, calls, r)
  BY <1>2, <1>4
<1>6. Listed(r, <<>>)
  BY <1>2, <1>3, <1>5, MakesListed
<1> QED
  BY <1>2, <1>4, <1>5, <1>6 DEF Requesting

LEMMA CallRequests ==
    ASSUME Formed(tab), Listed(tab, <<>>), NEW p \in Places, Call(p)
    PROVE  \E t, u : Adds(tab, p, t) /\ Requesting(t, u, <<Len(tab.calls) + 1>>)
<1>1. PICK t : t = [tab EXCEPT !.calls = Append(@, [via |-> p, to |-> tab.place[p],
                                                   at |-> "waiting", session |-> 0])]
  BY Zenon
<1>2. PICK w : w = tab
  OBVIOUS
<1>3. w.place[p] # 0 /\ Len(w.calls) < MaxCalls /\ tab' = Requested(t, <<Len(w.calls) + 1>>) /\ Room
  BY <1>1, <1>2 DEF Call
<1>4. /\ Adds(w, p, t) /\ Formed(t) /\ Listed(t, <<Len(w.calls) + 1>>)
      /\ <<Len(w.calls) + 1>> \in Seq(1 .. Len(t.calls))
  BY <1>1, <1>2, <1>3, AddsDoes
<1>5. \E u : Requesting(t, u, <<Len(w.calls) + 1>>)
  BY Zenon, <1>3, <1>4, RequestingDoes
<1> QED
  BY <1>2, <1>4, <1>5

\* The numbers of the calls, in their order.
Count(n) == [c \in 1 .. n |-> c]

\* Websocket i has its session id, the unfinished calls are given it, and
\* those that waited are about to be made.
Resumes(t, X, i, r) ==
    /\ r.place = t.place /\ r.waiting = <<>>
    /\ Len(r.socks) = Len(t.socks) /\ Len(r.calls) = Len(t.calls)
    /\ \A j \in 1 .. Len(t.socks) \ {i} : r.socks[j] = t.socks[j]
    /\ r.socks[i] = [t.socks[i] EXCEPT !.sid = i, !.up = r.socks[i].up]
    /\ r.socks[i].up = t.socks[i].up \o Frames("from", Kept(Count(Len(t.calls)), X))
    /\ \A c \in 1 .. Len(t.calls) :
           r.calls[c] = IF c \in X THEN [t.calls[c] EXCEPT !.session = i] ELSE t.calls[c]

LEMMA ResumesDoes ==
    ASSUME Formed(tab), Listed(tab, <<>>), NEW i \in 1 .. Len(tab.socks),
           NEW t, t = [Resumed(i) EXCEPT !.waiting = <<>>]
    PROVE  /\ Resumes(tab, Unfinished(i), i, t) /\ Formed(t) /\ Listed(t, tab.waiting)
           /\ tab.waiting \in Seq(1 .. Len(t.calls))
<1>1. PICK w, X : w = tab /\ X = Unfinished(i)
  OBVIOUS
<1>2. /\ w.socks \in Seq(SocketType) /\ w.place \in [Places -> Ids] /\ w.calls \in Seq(CallType)
      /\ w.waiting \in Seq(CallIds) /\ i \in Socks /\ Len(w.calls) \in Nat /\ w.socks[i] \in SocketType
      /\ \A c \in 1 .. Len(w.calls) : w.calls[c] \in CallType
      /\ \A j \in 1 .. Len(w.socks) : w.socks[j] \in SocketType
      /\ i \in Ids /\ i # 0 /\ i \in 1 .. Len(w.socks) /\ Len(w.calls) <= MaxCalls
      /\ w = [socks |-> w.socks, place |-> w.place, calls |-> w.calls, waiting |-> w.waiting]
  BY <1>1, FormedTypes, Numbers DEF Socks, Formed, WindowType
<1>3. PICK f : f = Frames("from", Kept(Count(Len(w.calls)), X))
  OBVIOUS
<1>4. f \in Seq(FrameType) /\ \A m \in 1 .. Len(f) : f[m].c \in 1 .. Len(w.calls)
  <2>1. PICK k : k = Kept(Count(Len(w.calls)), X)
    OBVIOUS
  <2>2. Count(Len(w.calls)) \in Seq(1 .. Len(w.calls))
    BY <1>2 DEF Count
  <2>3. k \in Seq(1 .. Len(w.calls))
    BY <2>1, <2>2, KeptProperties
  <2>4. /\ f \in Seq(FrameType) /\ Len(f) = Len(k)
        /\ \A m \in 1 .. Len(k) : f[m] = [kind |-> "from", c |-> k[m]] /\ k[m] \in 1 .. Len(w.calls)
    BY Zenon, <1>2, <1>3, <2>1, <2>3, FramesAre
  <2>5. ASSUME NEW m \in 1 .. Len(f) PROVE f[m].c \in 1 .. Len(w.calls)
    <3>1. PICK c : c = k[m]
      OBVIOUS
    <3>2. f[m] = [kind |-> "from", c |-> c] /\ c \in 1 .. Len(w.calls)
      BY <2>4, <3>1
    <3> QED
      BY <3>2
  <2> QED
    BY <2>4, <2>5
<1>5. PICK g : g = w.socks[i].up \o f
  BY Zenon
<1>6. g \in Seq(FrameType) /\ \A m \in 1 .. Len(g) : g[m].c \in 1 .. Len(w.calls)
  <2>1. PICK h : h = w.socks[i].up
    OBVIOUS
  <2>2. h \in Seq(FrameType) /\ \A m \in 1 .. Len(h) : h[m].c \in 1 .. Len(w.calls)
    BY <1>1, <1>2, <2>1 DEF Formed, SocketType
  <2>3. ASSUME NEW m \in 1 .. Len(h \o f) PROVE (h \o f)[m].c \in 1 .. Len(w.calls)
    <3>1. \/ m \in 1 .. Len(h) /\ (h \o f)[m] = h[m]
          \/ m - Len(h) \in 1 .. Len(f) /\ (h \o f)[m] = f[m - Len(h)]
      BY <1>4, <2>2, ConcatAt
    <3> QED
      BY <1>4, <2>2, <3>1
  <2> QED
    BY Zenon, <1>4, <1>5, <2>1, <2>2, <2>3, ConcatAt
<1>7. PICK s : s = [w.socks[i] EXCEPT !.sid = i, !.up = g]
  OBVIOUS
<1>8. s \in SocketType /\ s = [w.socks[i] EXCEPT !.sid = i, !.up = s.up] /\ s.up = g
  BY Zenon, <1>2, <1>6, <1>7 DEF SocketType
<1>9. PICK d : d = [c \in 1 .. Len(w.calls) |->
                       IF c \in X THEN [w.calls[c] EXCEPT !.session = i] ELSE w.calls[c]]
  BY Zenon
<1>10. \A c \in 1 .. Len(w.calls) : /\ d[c] \in CallType /\ d[c].to = w.calls[c].to /\ d[c].via = w.calls[c].via
                                    /\ d[c].at = w.calls[c].at
                                    /\ d[c].session = i \/ d[c] = w.calls[c]
  <2> SUFFICES ASSUME NEW c \in 1 .. Len(w.calls)
               PROVE  /\ d[c] \in CallType /\ d[c].to = w.calls[c].to /\ d[c].via = w.calls[c].via
                      /\ d[c].at = w.calls[c].at
                      /\ d[c].session = i \/ d[c] = w.calls[c]
    OBVIOUS
  <2>1. w.calls[c] \in CallType
    BY <1>2
  <2>2. CASE c \in X
    <3>1. d[c] = [w.calls[c] EXCEPT !.session = i]
      BY <1>9, <2>2
    <3> QED
      BY Zenon, <1>2, <2>1, <3>1 DEF CallType
  <2>3. CASE c \notin X
    BY <1>9, <2>1, <2>3
  <2> QED
    BY <2>2, <2>3
<1>11. d \in Seq(CallType) /\ Len(d) = Len(w.calls)
  BY <1>2, <1>9, <1>10, FunctionIsSeq
<1>12. t = [socks |-> [w.socks EXCEPT ![i] = s], place |-> w.place, calls |-> d, waiting |-> <<>>]
  <2>1. f = Frames("from", Kept([c \in 1 .. Len(tab.calls) |-> c], Unfinished(i)))
    BY <1>1, <1>3 DEF Count
  <2>2. d = [c \in 1 .. Len(tab.calls) |->
                IF c \in Unfinished(i) THEN [tab.calls[c] EXCEPT !.session = i] ELSE tab.calls[c]]
    BY <1>1, <1>9
  <2>3. Resumed(i) = [tab EXCEPT !.calls = d, !.socks[i] = [tab.socks[i] EXCEPT !.sid = i, !.up = @ \o f]]
    BY <2>1, <2>2 DEF Resumed
  <2>4. [w.socks[i] EXCEPT !.sid = i, !.up = @ \o f] = s
    BY <1>5, <1>7
  <2>5. PICK socks : socks = [w.socks EXCEPT ![i] = s]
    BY Zenon
  <2>6. Resumed(i) = [w EXCEPT !.calls = d, !.socks = socks]
    BY Zenon, <1>1, <2>3, <2>4, <2>5
  <2>7. Resumed(i) = [socks |-> socks, place |-> w.place, calls |-> d, waiting |-> w.waiting]
    BY Zenon, <1>2, <2>6
  <2>8. t = [socks |-> socks, place |-> w.place, calls |-> d, waiting |-> <<>>]
    BY <2>7
  <2> QED
    BY Zenon, <2>5, <2>8
<1>13. /\ t.socks \in Seq(SocketType) /\ Len(t.socks) = Len(w.socks) /\ t.socks[i] = s
       /\ \A j \in 1 .. Len(w.socks) \ {i} : t.socks[j] = w.socks[j]
       /\ t.place = w.place /\ t.calls = d /\ t.waiting = <<>>
  <2>1. t.socks = [w.socks EXCEPT ![i] = s] /\ t.place = w.place /\ t.calls = d /\ t.waiting = <<>>
    BY <1>12
  <2>2. PICK a : a = w.socks
    OBVIOUS
  <2>3. a \in Seq(SocketType) /\ i \in 1 .. Len(a) /\ s \in SocketType /\ t.socks = [a EXCEPT ![i] = s]
    BY <1>2, <1>8, <2>1, <2>2
  <2>4. /\ t.socks \in Seq(SocketType) /\ Len(t.socks) = Len(a) /\ t.socks[i] = s
        /\ \A j \in 1 .. Len(a) \ {i} : t.socks[j] = a[j]
    BY <2>3
  <2> QED
    BY <2>1, <2>2, <2>4
<1>14. Resumes(w, X, i, t)
  BY Zenon, <1>3, <1>5, <1>8, <1>9, <1>11, <1>13 DEF Resumes
<1>15. Formed(t)
  <2>1. t \in WindowType
    <3>1. t = [socks |-> t.socks, place |-> t.place, calls |-> t.calls, waiting |-> t.waiting]
      BY Zenon, <1>12, <1>13
    <3>2. <<>> \in Seq(CallIds)
      OBVIOUS
    <3> QED
      BY Zenon, <1>2, <1>11, <1>13, <3>1, <3>2 DEF WindowType
  <2>2. \A c \in 1 .. Len(t.calls) : t.calls[c].to \in 1 .. Len(t.socks) /\ t.place[t.calls[c].via] # 0
    BY <1>1, <1>10, <1>11, <1>13 DEF Formed
  <2>3. \A j \in 1 .. Len(t.socks) : \A m \in 1 .. Len(t.socks[j].up) : t.socks[j].up[m].c \in 1 .. Len(t.calls)
    <3> SUFFICES ASSUME NEW j \in 1 .. Len(t.socks), NEW m \in 1 .. Len(t.socks[j].up)
                 PROVE  t.socks[j].up[m].c \in 1 .. Len(t.calls)
      OBVIOUS
    <3>1. CASE j = i
      BY Zenon, <1>6, <1>8, <1>11, <1>13, <3>1
    <3>2. CASE j # i
      BY <1>1, <1>11, <1>13, <3>2 DEF Formed
    <3> QED
      BY <3>1, <3>2
  <2> QED
    BY <1>1, <1>11, <1>13, <2>1, <2>2, <2>3 DEF Formed
<1>16. RangeOf(<<>>) = {} /\ NoTwice(<<>>)
  BY DEF RangeOf, NoTwice
<1>17. Listed(t, w.waiting)
  <2>1. \A c \in 1 .. Len(t.calls) : /\ t.calls[c].at = "waiting" <=> c \in RangeOf(w.waiting)
                                     /\ t.calls[c].at = "sent" => t.calls[c].session # 0
    BY <1>1, <1>2, <1>10, <1>11, <1>13, <1>16 DEF Listed
  <2> QED
    BY <1>1, <1>13, <1>16, <2>1 DEF Listed
<1>18. w.waiting \in Seq(1 .. Len(t.calls))
  <2>1. \A m \in 1 .. Len(w.waiting) : w.waiting[m] \in 1 .. Len(t.calls)
    BY <1>1, <1>11, <1>13 DEF Formed
  <2> QED
    BY SMTT(30), <1>2, <2>1
<1> QED
  BY <1>1, <1>14, <1>15, <1>17, <1>18

LEMMA ArrivalRequests ==
    ASSUME Formed(tab), Listed(tab, <<>>), NEW i, SessionArrives(i)
    PROVE  /\ i \in 1 .. Len(tab.socks)
           /\ \E t, u : Resumes(tab, Unfinished(i), i, t) /\ Requesting(t, u, tab.waiting)
<1>1. i \in 1 .. Len(tab.socks) /\ Room
  BY DEF SessionArrives, Is
<1>2. PICK t : t = [Resumed(i) EXCEPT !.waiting = <<>>]
  BY Zenon
<1>3. PICK k : k = tab.waiting
  OBVIOUS
<1>4. /\ Resumes(tab, Unfinished(i), i, t) /\ Formed(t) /\ Listed(t, k) /\ k \in Seq(1 .. Len(t.calls))
  BY Zenon, <1>1, <1>2, <1>3, ResumesDoes
<1>5. tab' = Requested(t, k)
  BY <1>2, <1>3 DEF SessionArrives
<1>6. \E u : Requesting(t, u, k)
  BY <1>1, <1>4, <1>5, RequestingDoes
<1> QED
  BY <1>1, <1>3, <1>4, <1>6

\* Websocket i becomes s.
Alters(t, i, s, r) ==
    /\ r.place = t.place /\ r.calls = t.calls /\ r.waiting = t.waiting
    /\ Len(r.socks) = Len(t.socks) /\ r.socks[i] = s
    /\ \A j \in 1 .. Len(t.socks) \ {i} : r.socks[j] = t.socks[j]

Altered(t, i, s) == [t EXCEPT !.socks[i] = s]

LEMMA AltersDoes ==
    ASSUME NEW t, Formed(t), NEW i \in 1 .. Len(t.socks), NEW s \in SocketType,
           \A m \in 1 .. Len(s.up) : s.up[m].c \in 1 .. Len(t.calls),
           NEW r, r = Altered(t, i, s)
    PROVE  Alters(t, i, s, r) /\ Formed(r)
<1>1. /\ r = [socks |-> r.socks, place |-> t.place, calls |-> t.calls, waiting |-> t.waiting]
      /\ r.socks = [t.socks EXCEPT ![i] = s]
      /\ r.place = t.place /\ r.calls = t.calls /\ r.waiting = t.waiting
  BY Zenon DEF Formed, WindowType, Altered
<1>2. /\ t.socks \in Seq(SocketType) /\ t.place \in [Places -> Ids] /\ t.calls \in Seq(CallType)
      /\ t.waiting \in Seq(CallIds)
  BY FormedTypes
<1>3. /\ r.socks \in Seq(SocketType) /\ Len(r.socks) = Len(t.socks) /\ r.socks[i] = s
      /\ \A j \in 1 .. Len(t.socks) \ {i} : r.socks[j] = t.socks[j]
  BY <1>1, <1>2
<1>4. r \in WindowType
  BY Zenon, <1>1, <1>2, <1>3 DEF WindowType
<1>5. \A j \in 1 .. Len(r.socks) : \A m \in 1 .. Len(r.socks[j].up) : r.socks[j].up[m].c \in 1 .. Len(r.calls)
  <2> SUFFICES ASSUME NEW j \in 1 .. Len(r.socks), NEW m \in 1 .. Len(r.socks[j].up)
               PROVE  r.socks[j].up[m].c \in 1 .. Len(r.calls)
    BY Zenon
  <2>1. CASE j = i
    BY <1>1, <1>3, <2>1
  <2>2. CASE j # i
    BY <1>1, <1>3, <2>2 DEF Formed
  <2> QED
    BY <2>1, <2>2
<1> QED
  BY <1>1, <1>3, <1>4, <1>5 DEF Formed, Alters

LEMMA HandshakeDoes ==
    ASSUME Formed(tab), NEW i, Handshake(i)
    PROVE  /\ i \in 1 .. Len(tab.socks) /\ tab.socks[i].at = "connecting" /\ Formed(tab')
           /\ Alters(tab, i, [tab.socks[i] EXCEPT !.at = "open"], tab')
<1>1. i \in 1 .. Len(tab.socks) /\ tab.socks[i].at = "connecting" /\ tab.socks[i] \in SocketType
  BY FormedTypes DEF Handshake, Is
<1>2. PICK t, r, s : t = tab /\ r = tab' /\ s = [tab.socks[i] EXCEPT !.at = "open"]
  BY Zenon
<1>3. r = Altered(t, i, s)
  BY <1>2 DEF Handshake, Altered
<1>4. s \in SocketType /\ s.up = t.socks[i].up
  BY <1>1, <1>2 DEF SocketType
<1>5. Alters(t, i, s, r) /\ Formed(r)
  <2>1. \A m \in 1 .. Len(s.up) : s.up[m].c \in 1 .. Len(t.calls)
    BY <1>1, <1>2, <1>4 DEF Formed
  <2> QED
    BY Zenon, <1>1, <1>2, <1>3, <1>4, <2>1, AltersDoes
<1> QED
  BY <1>1, <1>2, <1>5

LEMMA ClosesDoes ==
    ASSUME Formed(tab), NEW i, Closes(i)
    PROVE  /\ i \in 1 .. Len(tab.socks) /\ tab.socks[i].at # "closed" /\ Formed(tab')
           /\ Alters(tab, i, [tab.socks[i] EXCEPT !.at = "closed", !.up = <<>>, !.timer = ~ tab.socks[i].stay],
                     tab')
<1>1. i \in 1 .. Len(tab.socks) /\ tab.socks[i].at # "closed" /\ tab.socks[i] \in SocketType
  BY FormedTypes DEF Closes
<1>2. PICK t, r, s : /\ t = tab /\ r = tab'
                     /\ s = [tab.socks[i] EXCEPT !.at = "closed", !.up = <<>>, !.timer = ~ tab.socks[i].stay]
  OBVIOUS
<1>3. r = Altered(t, i, s)
  BY <1>2 DEF Closes, Altered
<1>4. s \in SocketType /\ s.up = <<>>
  <2>1. <<>> \in Seq(FrameType) /\ (~ tab.socks[i].stay) \in BOOLEAN
    OBVIOUS
  <2> QED
    BY Zenon, <1>1, <1>2, <2>1 DEF SocketType
<1>5. Alters(t, i, s, r) /\ Formed(r)
  <2>1. Len(s.up) = 0
    BY <1>4
  <2>2. \A m \in 1 .. Len(s.up) : s.up[m].c \in 1 .. Len(t.calls)
    BY <2>1
  <2> QED
    BY Zenon, <1>1, <1>2, <1>3, <1>4, <2>2, AltersDoes
<1> QED
  BY <1>1, <1>2, <1>5

LEMMA ReadDoes ==
    ASSUME Formed(tab), NEW i, ReadFrame(i)
    PROVE  /\ i \in 1 .. Len(tab.socks) /\ tab.socks[i].at = "open" /\ Formed(tab')
           /\ tab.socks[i].up \in Seq(FrameType) /\ tab.socks[i].up # <<>>
           /\ Alters(tab, i, [tab.socks[i] EXCEPT !.up = Tail(tab.socks[i].up)], tab')
<1>1. /\ i \in 1 .. Len(tab.socks) /\ tab.socks[i].at = "open" /\ tab.socks[i] \in SocketType
      /\ tab.socks[i].up # <<>>
  BY FormedTypes DEF ReadFrame, Is
<1>2. PICK t, r, s : /\ t = tab /\ r = tab'
                     /\ s = [tab.socks[i] EXCEPT !.up = Tail(tab.socks[i].up)]
  BY Zenon
<1>3. r = Altered(t, i, s)
  BY <1>2 DEF ReadFrame, Altered
<1>4. PICK f : f = tab.socks[i].up
  OBVIOUS
<1>5. f \in Seq(FrameType) /\ f # <<>>
  BY <1>1, <1>4 DEF SocketType
<1>6. s \in SocketType /\ s.up = Tail(f)
  <2>1. Tail(f) \in Seq(FrameType)
    BY <1>5, TailAt
  <2> QED
    BY Zenon, <1>1, <1>2, <1>4, <2>1 DEF SocketType
<1>7. \A m \in 1 .. Len(s.up) : s.up[m].c \in 1 .. Len(t.calls)
  <2> SUFFICES ASSUME NEW m \in 1 .. Len(Tail(f)) PROVE Tail(f)[m].c \in 1 .. Len(t.calls)
    BY <1>6
  <2>1. Tail(f)[m] = f[m + 1] /\ m + 1 \in 1 .. Len(f)
    BY <1>5, TailAt
  <2> QED
    BY Zenon, <1>1, <1>2, <1>4, <2>1 DEF Formed
<1>8. Alters(t, i, s, r) /\ Formed(r)
  BY Zenon, <1>1, <1>2, <1>3, <1>6, <1>7, AltersDoes
<1> QED
  BY <1>1, <1>2, <1>4, <1>5, <1>8

LEMMA OpenPlaceDoes ==
    ASSUME Formed(tab), NEW p \in Places, OpenPlace(p)
    PROVE  p \in Tabs /\ tab.place[p] = 0 /\ Opens(tab, p, Socket(p, 0), tab')
<1>1. p \in Tabs /\ p \in Tabs \cup {None} /\ 0 \in Ids
  BY Numbers DEF OpenPlace, Formed
<1>2. tab' = Opened(tab, p, p, 0) /\ Len(tab'.socks) <= MaxSockets /\ tab.place[p] = 0
  BY DEF OpenPlace, Room
<1>3. tab'.socks = Append(tab.socks, Socket(p, 0))
  BY <1>2 DEF Opened, Formed, WindowType
<1>4. tab.socks \in Seq(SocketType) /\ Socket(p, 0) \in SocketType
  BY <1>1, FormedTypes, NewSocket
<1>5. Len(tab.socks) + 1 <= MaxSockets
  BY <1>2, <1>3, <1>4, AppendAt
<1>6. Opens(tab, p, Socket(p, 0), Opened(tab, p, p, 0))
  BY <1>1, <1>5, OpenedDoes
<1> QED
  BY <1>1, <1>2, <1>6

\* The websocket of a timer is i; the one of the place, e, is closed.
Ends(t, e, i, w) ==
    /\ w.place = t.place /\ w.calls = t.calls /\ w.waiting = t.waiting /\ Len(w.socks) = Len(t.socks)
    /\ \A j \in 1 .. Len(t.socks) :
           LET a == t.socks[j]
               b == w.socks[j] IN
           /\ b.name = a.name /\ b.sid = a.sid /\ b.old = a.old /\ b.up = a.up
           /\ b.at = IF j = e /\ a.at # "closed" THEN "closing" ELSE a.at
           /\ b.stay = (a.stay \/ j = e) /\ b.timer = (a.timer /\ j # i)

TimerPlace(i) == IF tab.socks[i].name = None THEN Env ELSE tab.socks[i].name

LEMMA TimerDoes ==
    ASSUME Formed(tab), NEW i, Timer(i),
           \A j \in 1 .. Len(tab.socks) : tab.socks[j].name # None => tab.place[tab.socks[j].name] # 0
    PROVE  LET p == TimerPlace(i)
               e == tab.place[p] IN
           /\ i \in 1 .. Len(tab.socks) /\ tab.socks[i].timer
           /\ p \in Places /\ e \in 1 .. Len(tab.socks)
           /\ tab.socks[e].sid \in Ids
           /\ \E w : Formed(w) /\ Ends(tab, e, i, w) /\ Opens(w, p, Socket(None, tab.socks[e].sid), tab')
<1>1. PICK p : p = TimerPlace(i)
  OBVIOUS
<1>2. PICK t, e : t = tab /\ e = t.place[p]
  OBVIOUS
<1>3. i \in 1 .. Len(t.socks) /\ t.socks[i].timer
  BY Zenon, <1>2 DEF Timer
<1>4. p \in Places /\ e \in 1 .. Len(t.socks)
  <2>1. t.socks[i].name \in Tabs \cup {None}
    BY <1>2, <1>3, FormedTypes DEF SocketType
  <2>2. p \in Places /\ t.place[p] # 0
    BY <1>1, <1>2, <1>3, <2>1, Numbers DEF TimerPlace, Formed
  <2> QED
    BY <1>2, <2>2, FormedTypes
<1>5. /\ t.socks \in Seq(SocketType) /\ t.socks[i] \in SocketType /\ t.socks[e] \in SocketType
      /\ Formed(t) /\ Len(t.socks) \in Nat
  BY <1>2, <1>3, <1>4, FormedTypes
<1>6. PICK s : s = [t.socks[e] EXCEPT !.stay = TRUE, !.at = IF @ = "closed" THEN @ ELSE "closing"]
  OBVIOUS
<1>7. /\ s \in SocketType /\ s.name = t.socks[e].name /\ s.sid = t.socks[e].sid /\ s.old = t.socks[e].old
      /\ s.up = t.socks[e].up /\ s.timer = t.socks[e].timer /\ s.stay
      /\ s.at = IF t.socks[e].at # "closed" THEN "closing" ELSE t.socks[e].at
  BY Zenon, <1>5, <1>6 DEF SocketType
<1>8. PICK v : v = Altered(t, e, s)
  OBVIOUS
<1>9. Alters(t, e, s, v) /\ Formed(v)
  <2>1. \A m \in 1 .. Len(s.up) : s.up[m].c \in 1 .. Len(t.calls)
    BY <1>4, <1>5, <1>7 DEF Formed
  <2> QED
    BY <1>4, <1>5, <1>7, <1>8, <2>1, AltersDoes
<1>10. i \in 1 .. Len(v.socks) /\ v.socks[i] \in SocketType
  BY <1>3, <1>9, FormedTypes DEF Alters
<1>11. PICK r : r = [v.socks[i] EXCEPT !.timer = FALSE]
  BY Zenon
<1>12. /\ r \in SocketType /\ r.name = v.socks[i].name /\ r.sid = v.socks[i].sid /\ r.old = v.socks[i].old
       /\ r.up = v.socks[i].up /\ ~ r.timer /\ r.stay = v.socks[i].stay /\ r.at = v.socks[i].at
  BY Zenon, <1>10, <1>11 DEF SocketType
<1>13. PICK w : w = Altered(v, i, r)
  OBVIOUS
<1>14. Alters(v, i, r, w) /\ Formed(w)
  <2>1. \A m \in 1 .. Len(r.up) : r.up[m].c \in 1 .. Len(v.calls)
    BY <1>9, <1>10, <1>12 DEF Formed
  <2> QED
    BY Zenon, <1>9, <1>10, <1>12, <1>13, <2>1, AltersDoes
<1>15. Ends(t, e, i, w)
  <2>1. /\ w.place = t.place /\ w.calls = t.calls /\ w.waiting = t.waiting /\ Len(w.socks) = Len(t.socks)
    BY <1>9, <1>14 DEF Alters
  <2>2. ASSUME NEW j \in 1 .. Len(t.socks)
        PROVE  LET a == t.socks[j]
                   b == w.socks[j] IN
               /\ b.name = a.name /\ b.sid = a.sid /\ b.old = a.old /\ b.up = a.up
               /\ b.at = IF j = e /\ a.at # "closed" THEN "closing" ELSE a.at
               /\ b.stay = (a.stay \/ j = e) /\ b.timer = (a.timer /\ j # i)
    <3>1. t.socks[j] \in SocketType /\ t.socks[j].stay \in BOOLEAN /\ t.socks[j].timer \in BOOLEAN
      BY Zenon, <1>5, FormedTypes DEF SocketType
    <3>2. v.socks[j] = IF j = e THEN s ELSE t.socks[j]
      BY <1>9 DEF Alters
    <3>3. w.socks[j] = IF j = i THEN r ELSE v.socks[j]
      BY <1>9, <1>14 DEF Alters
    <3>4. r.stay \in BOOLEAN /\ s.stay \in BOOLEAN /\ r.timer \in BOOLEAN /\ s.timer \in BOOLEAN
      BY <1>7, <1>12 DEF SocketType
    <3>5. CASE j = i
      BY <1>7, <1>12, <3>1, <3>2, <3>3, <3>4, <3>5
    <3>6. CASE j # i
      BY Zenon, <1>7, <3>1, <3>2, <3>3, <3>4, <3>6
    <3> QED
      BY <3>5, <3>6
  <2> QED
    BY <2>1, <2>2 DEF Ends
<1>16. tab' = Opened(w, p, None, t.socks[e].sid) /\ Len(tab'.socks) <= MaxSockets
  <2>1. Closing(t, e) = v
    BY <1>6, <1>8 DEF Closing, Altered
  <2>2. [v EXCEPT !.socks[i].timer = FALSE] = w
    BY <1>11, <1>13 DEF Altered
  <2>3. tab' = Opened([Closing(tab, tab.place[p]) EXCEPT !.socks[i].timer = FALSE], p, None,
                      tab.socks[tab.place[p]].sid)
    BY Zenon, <1>1 DEF Timer, TimerPlace
  <2>4. Room
    BY Zenon DEF Timer
  <2> QED
    BY Zenon, <1>2, <2>1, <2>2, <2>3, <2>4 DEF Room
<1>17. t.socks[e].sid \in Ids /\ None \in Tabs \cup {None}
  BY <1>5 DEF SocketType
<1>18. Len(w.socks) + 1 <= MaxSockets
  <2>1. tab'.socks = Append(w.socks, Socket(None, t.socks[e].sid))
    BY <1>14, <1>16 DEF Opened, Formed, WindowType
  <2>2. w.socks \in Seq(SocketType) /\ Socket(None, t.socks[e].sid) \in SocketType
    BY Zenon, <1>14, <1>17, FormedTypes, NewSocket
  <2> QED
    BY <1>16, <2>1, <2>2, AppendAt
<1>19. Opens(w, p, Socket(None, t.socks[e].sid), tab')
  <2>1. PICK sid \in Ids : sid = t.socks[e].sid
    BY <1>17
  <2>2. Opens(w, p, Socket(None, sid), Opened(w, p, None, sid))
    BY Zenon, <1>4, <1>14, <1>17, <1>18, OpenedDoes
  <2> QED
    BY <1>16, <2>1, <2>2
<1> QED
  BY <1>1, <1>2, <1>3, <1>4, <1>14, <1>15, <1>17, <1>19

-----------------------------------------------------------------------------
(* What the steps do to the sessions of the server.                        *)

\* Sessions have their types, and work for the first n calls.
Sessions(sv, n) ==
    /\ sv \in [Socks -> SessionType]
    /\ \A i \in Socks : \A m \in 1 .. Len(sv[i].work) : sv[i].work[m] \in 1 .. n

LEMMA SeqWithin ==
    ASSUME NEW S, NEW s \in Seq(S), NEW T, \A m \in 1 .. Len(s) : s[m] \in T
    PROVE  s \in Seq(T)
  OBVIOUS

\* Session i becomes x.
Swaps(sv, i, x, r) == r = [sv EXCEPT ![i] = x]

LEMMA SwapsDoes ==
    ASSUME NEW n \in Nat, NEW sv, Sessions(sv, n), NEW i \in Socks, NEW x \in SessionType,
           \A m \in 1 .. Len(x.work) : x.work[m] \in 1 .. n, NEW r, Swaps(sv, i, x, r)
    PROVE  Sessions(r, n) /\ r[i] = x /\ \A j \in Socks \ {i} : r[j] = sv[j]
<1>1. r \in [Socks -> SessionType] /\ r[i] = x /\ \A j \in Socks \ {i} : r[j] = sv[j]
  BY DEF Sessions, Swaps
<1>2. ASSUME NEW j \in Socks, NEW m \in 1 .. Len(r[j].work) PROVE r[j].work[m] \in 1 .. n
  <2>1. CASE j = i
    BY <1>1, <2>1
  <2>2. CASE j # i
    BY <1>1, <2>2 DEF Sessions
  <2> QED
    BY <2>1, <2>2
<1> QED
  BY <1>1, <1>2 DEF Sessions

Fits(x, n) == x \in SessionType /\ \A m \in 1 .. Len(x.work) : x.work[m] \in 1 .. n
Swapped(sv, i, x, r) == r[i] = x /\ \A j \in Socks \ {i} : r[j] = sv[j]

LEMMA FittingSwap ==
    ASSUME NEW n \in Nat, NEW sv, Sessions(sv, n), NEW i \in Socks, NEW x, Fits(x, n),
           NEW r, Swaps(sv, i, x, r)
    PROVE  Sessions(r, n) /\ Swapped(sv, i, x, r)
<1>1. x \in SessionType /\ \A m \in 1 .. Len(x.work) : x.work[m] \in 1 .. n
  BY DEF Fits
<1> QED
  BY <1>1, SwapsDoes DEF Swapped

LEMMA SessionsMore ==
    ASSUME NEW n \in Nat, NEW k \in Nat, n <= k, NEW sv, Sessions(sv, n)
    PROVE  Sessions(sv, k)
<1>1. ASSUME NEW i \in Socks, NEW m \in 1 .. Len(sv[i].work) PROVE sv[i].work[m] \in 1 .. k
  <2>1. sv[i].work[m] \in 1 .. n
    BY DEF Sessions
  <2> QED
    BY <2>1
<1> QED
  BY <1>1 DEF Sessions

LEMMA NoSessionIs ==
    ASSUME NEW line \in Ids
    PROVE  LET x == [NoSession EXCEPT !.line = line]
               y == [NoSession EXCEPT !.alive = TRUE, !.line = line] IN
           /\ x \in SessionType /\ ~ x.alive /\ x.line = line /\ x.work = <<>> /\ ~ x.lost
           /\ y \in SessionType /\ y.alive /\ y.line = line /\ y.work = <<>> /\ ~ y.lost
           /\ NoSession \in SessionType /\ ~ NoSession.alive /\ NoSession.line = 0
           /\ NoSession.work = <<>> /\ ~ NoSession.lost
           /\ \A n : \A m \in 1 .. Len(x.work) : x.work[m] \in 1 .. n
           /\ \A n : \A m \in 1 .. Len(y.work) : y.work[m] \in 1 .. n
<1>1. PICK e : e = <<>>
  OBVIOUS
<1>2. e \in Seq(CallIds) /\ Len(e) = 0 /\ 0 \in Ids /\ 1 .. Len(e) = {}
  BY <1>1, Numbers
<1>3. NoSession = [alive |-> FALSE, line |-> 0, work |-> e, lost |-> FALSE]
  BY <1>1 DEF NoSession
<1> QED
  BY Zenon, <1>1, <1>2, <1>3 DEF SessionType

\* The session that websocket i asks for is moved to it, or it gets a new one.
Recovers(t, sv, i, r) ==
    LET o == t.socks[i].old IN
    IF o # 0 /\ sv[o].alive
    THEN /\ r[i] = sv[o]
         /\ ~ r[o].alive /\ r[o].line = sv[o].line /\ r[o].work = <<>> /\ ~ r[o].lost
         /\ \A j \in Socks \ {i, o} : r[j] = sv[j]
    ELSE /\ r[i].alive /\ r[i].line = i /\ r[i].work = <<>> /\ ~ r[i].lost
         /\ \A j \in Socks \ {i} : r[j] = sv[j]

LEMMA RecoveredDoes ==
    ASSUME Formed(tab), Sessions(server, Len(tab.calls)), NEW i \in 1 .. Len(tab.socks),
           server' = Recovered(i)
    PROVE  /\ Sessions(server', Len(tab.calls))
           /\ tab.socks[i].old # i => Recovers(tab, server, i, server')
<1>1. PICK sv, r, n, o : sv = server /\ r = server' /\ n = Len(tab.calls) /\ o = tab.socks[i].old
  OBVIOUS
<1>2. n \in Nat /\ i \in Socks /\ i \in Ids /\ o \in Ids /\ Sessions(sv, n)
  BY Zenon, <1>1, FormedTypes, Numbers DEF SocketType
<1>3. CASE o # 0 /\ sv[o].alive
  <2>1. o \in Socks /\ sv[o] \in SessionType /\ sv[o].line \in Ids
    BY <1>2, <1>3, Numbers DEF Ids, Socks, Sessions, SessionType
  <2>2. PICK x : x = [NoSession EXCEPT !.line = sv[o].line]
    BY Zenon
  <2>3. /\ x \in SessionType /\ ~ x.alive /\ x.line = sv[o].line /\ x.work = <<>> /\ ~ x.lost
        /\ \A m \in 1 .. Len(x.work) : x.work[m] \in 1 .. n
    BY Zenon, <2>1, <2>2, NoSessionIs
  <2>4. PICK a : Swaps(sv, i, sv[o], a)
    BY Zenon DEF Swaps
  <2>5. Sessions(a, n) /\ a[i] = sv[o] /\ \A j \in Socks \ {i} : a[j] = sv[j]
    <3>1. \A m \in 1 .. Len(sv[o].work) : sv[o].work[m] \in 1 .. n
      BY <1>2, <2>1 DEF Sessions
    <3> QED
      BY <1>2, <2>1, <2>4, <3>1, SwapsDoes
  <2>6. r = [server EXCEPT ![i] = server[o], ![o] = [NoSession EXCEPT !.line = server[o].line]]
    BY <1>1, <1>3 DEF Recovered
  <2>7. Swaps(a, o, x, r)
    BY <1>1, <2>2, <2>4, <2>6 DEF Swaps
  <2>8. Sessions(r, n) /\ r[o] = x /\ \A j \in Socks \ {o} : r[j] = a[j]
    BY <1>2, <2>1, <2>3, <2>5, <2>7, SwapsDoes
  <2>9. o # i => Recovers(tab, sv, i, r)
    BY <1>1, <1>2, <1>3, <2>3, <2>5, <2>8 DEF Recovers
  <2> QED
    BY <1>1, <2>8, <2>9
<1>4. CASE ~ (o # 0 /\ sv[o].alive)
  <2>1. PICK x : x = [NoSession EXCEPT !.alive = TRUE, !.line = i]
    OBVIOUS
  <2>2. /\ x \in SessionType /\ x.alive /\ x.line = i /\ x.work = <<>> /\ ~ x.lost
        /\ \A m \in 1 .. Len(x.work) : x.work[m] \in 1 .. n
    BY Zenon, <1>2, <2>1, NoSessionIs
  <2>3. Swaps(sv, i, x, r)
    BY <1>1, <1>4, <2>1 DEF Recovered, Swaps
  <2>4. Sessions(r, n) /\ r[i] = x /\ \A j \in Socks \ {i} : r[j] = sv[j]
    BY <1>2, <2>2, <2>3, SwapsDoes
  <2>5. Recovers(tab, sv, i, r)
    BY <1>1, <1>4, <2>2, <2>4 DEF Recovers
  <2> QED
    BY <1>1, <2>4, <2>5
<1> QED
  BY <1>3, <1>4

\* Session i reads a frame f with a call or a SEND FROM.
Reads(sv, i, f, r) ==
    /\ \A j \in Socks \ {i} : r[j] = sv[j]
    /\ r[i].alive = sv[i].alive /\ r[i].line = sv[i].line
    /\ \/ f.kind = "call" /\ r[i].work = Append(sv[i].work, f.c) /\ r[i].lost = sv[i].lost
       \/ /\ f.kind = "from" /\ r[i].work = sv[i].work
          /\ r[i].lost = (sv[i].lost /\ ~ (sv[i].work # <<>> /\ f.c = Head(sv[i].work)))

\* The running request of session i leaves it.
Pops(sv, i, r) ==
    /\ \A j \in Socks \ {i} : r[j] = sv[j]
    /\ r[i].alive = sv[i].alive /\ r[i].line = sv[i].line /\ r[i].work = Tail(sv[i].work)
    /\ r[i].lost = sv[i].lost

\* Session i reads a frame f.
Reading(sv, i, f, r) ==
    \/ f.kind # "confirm" /\ Reads(sv, i, f, r)
    \/ f.kind = "confirm" /\ sv[i].work # <<>> /\ Pops(sv, i, r)
    \/ f.kind = "confirm" /\ r = sv

LEMMA ReadsDoes ==
    ASSUME Formed(tab), Sessions(server, Len(tab.calls)), NEW i, ReadFrame(i)
    PROVE  /\ Sessions(server', Len(tab.calls)) /\ server[i].alive
           /\ Reading(server, i, Head(tab.socks[i].up), server')
<1>1. PICK sv, r, n, f : sv = server /\ r = server' /\ n = Len(tab.calls) /\ f = Head(tab.socks[i].up)
  OBVIOUS
<1>2. /\ i \in 1 .. Len(tab.socks) /\ tab.socks[i].up \in Seq(FrameType) /\ tab.socks[i].up # <<>>
  BY Zenon, ReadDoes
<1>3. f \in FrameType /\ f.c \in 1 .. n
  <2>1. f = tab.socks[i].up[1] /\ 1 \in 1 .. Len(tab.socks[i].up) /\ f \in FrameType
    BY <1>1, <1>2, TailAt
  <2> QED
    BY <1>1, <1>2, <2>1 DEF Formed
<1>4. /\ n \in Nat /\ i \in Socks /\ Sessions(sv, n) /\ f.c \in CallIds /\ f.kind \in {"call", "from", "confirm"}
  BY <1>1, <1>2, <1>3, FormedTypes DEF FrameType
<1>4a. Swaps(sv, i, Taken(sv[i], f), r)
  <2>1. server' = [server EXCEPT ![i] = Taken(@, Head(tab.socks[i].up))]
    BY Zenon DEF ReadFrame
  <2> QED
    BY <1>1, <2>1 DEF Swaps
<1>5. PICK y : y = sv[i]
  OBVIOUS
<1>6. /\ y \in SessionType /\ y.work \in Seq(CallIds) /\ y.lost \in BOOLEAN
      /\ \A m \in 1 .. Len(y.work) : y.work[m] \in 1 .. n
  BY <1>4, <1>5 DEF Sessions, SessionType
<1>7. sv[i].alive
  BY <1>1 DEF ReadFrame
<1>8. CASE f.kind = "call"
  <2>1. PICK x : x = [y EXCEPT !.work = Append(y.work, f.c)]
    BY Zenon
  <2>2. Append(y.work, f.c) \in Seq(CallIds)
    BY <1>4, <1>6, AppendAt
  <2>3. /\ x \in SessionType /\ x.alive = y.alive /\ x.line = y.line
        /\ x.work = Append(y.work, f.c) /\ x.lost = y.lost
    BY Zenon, <1>6, <2>1, <2>2 DEF SessionType
  <2>4. ASSUME NEW m \in 1 .. Len(x.work) PROVE x.work[m] \in 1 .. n
    <3>1. \/ m \in 1 .. Len(y.work) /\ x.work[m] = y.work[m]
          \/ x.work[m] = f.c
      BY <1>4, <1>6, <2>3, AppendAt
    <3> QED
      BY <1>3, <1>6, <3>1
  <2>5. Swaps(sv, i, x, r)
    BY <1>4a, <1>5, <1>8, <2>1 DEF Taken
  <2>6. Sessions(r, n) /\ r[i] = x /\ \A j \in Socks \ {i} : r[j] = sv[j]
    <3>1. x \in SessionType /\ \A m \in 1 .. Len(x.work) : x.work[m] \in 1 .. n
      BY <2>3, <2>4
    <3>2. Fits(x, n)
      BY <3>1 DEF Fits
    <3>3. Sessions(r, n) /\ Swapped(sv, i, x, r)
      BY <1>4, <2>5, <3>2, FittingSwap
    <3> QED
      BY <3>3 DEF Swapped
  <2>7. Reads(sv, i, f, r) /\ f.kind # "confirm"
    BY <1>5, <1>8, <2>3, <2>6 DEF Reads
  <2> QED
    BY <1>1, <1>7, <2>6, <2>7 DEF Reading
<1>9. CASE f.kind = "from" /\ y.work # <<>> /\ f.c = Head(y.work)
  <2>1. PICK x : x = [y EXCEPT !.lost = FALSE]
    BY Zenon
  <2>2. /\ x \in SessionType /\ x.alive = y.alive /\ x.line = y.line /\ x.work = y.work /\ x.lost = FALSE
        /\ \A m \in 1 .. Len(x.work) : x.work[m] \in 1 .. n
    <3>1. x \in SessionType /\ x.alive = y.alive /\ x.line = y.line /\ x.work = y.work /\ x.lost = FALSE
      BY Zenon, <1>6, <2>1 DEF SessionType
    <3> QED
      BY <1>6, <3>1
  <2>3. Swaps(sv, i, x, r)
    BY <1>4a, <1>5, <1>9, <2>1 DEF Taken
  <2>4. Sessions(r, n) /\ r[i] = x /\ \A j \in Socks \ {i} : r[j] = sv[j]
    BY <1>4, <2>2, <2>3, SwapsDoes
  <2>5. Reads(sv, i, f, r) /\ f.kind # "confirm"
    <3>1. f.kind # "confirm"
      BY <1>9
    <3> QED
      BY Zenon, <1>5, <1>9, <2>2, <2>4, <3>1 DEF Reads
  <2> QED
    BY <1>1, <1>7, <2>4, <2>5 DEF Reading
<1>10. CASE f.kind = "from" /\ ~ (y.work # <<>> /\ f.c = Head(y.work))
  <2>1. Taken(y, f) = y
    BY <1>10 DEF Taken
  <2>2. r = sv
    BY <1>4, <1>4a, <1>5, <2>1 DEF Swaps, Sessions
  <2>3. Reads(sv, i, f, r) /\ f.kind # "confirm"
    BY <1>5, <1>6, <1>10, <2>2 DEF Reads
  <2> QED
    BY <1>1, <1>4, <1>7, <2>2, <2>3 DEF Reading
<1>11. CASE f.kind = "confirm" /\ y.work # <<>>
  <2>1. PICK x : x = [y EXCEPT !.work = Tail(y.work)]
    BY Zenon
  <2>2. y.work \in Seq(1 .. n)
    BY Zenon, <1>6, SeqWithin
  <2>3. /\ Tail(y.work) \in Seq(CallIds)
        /\ \A m \in 1 .. Len(Tail(y.work)) : Tail(y.work)[m] \in 1 .. n
    BY <1>6, <1>11, <2>2, TailAt
  <2>4. x \in SessionType /\ x.alive = y.alive /\ x.line = y.line /\ x.work = Tail(y.work) /\ x.lost = y.lost
    BY Zenon, <1>6, <2>1, <2>3 DEF SessionType
  <2>5. \A m \in 1 .. Len(x.work) : x.work[m] \in 1 .. n
    BY <2>3, <2>4
  <2>6. Swaps(sv, i, x, r)
    BY <1>4a, <1>5, <1>11, <2>1 DEF Taken
  <2>7. Sessions(r, n) /\ r[i] = x /\ \A j \in Socks \ {i} : r[j] = sv[j]
    <3>1. Fits(x, n)
      BY <2>4, <2>5 DEF Fits
    <3>2. Sessions(r, n) /\ Swapped(sv, i, x, r)
      BY <1>4, <2>6, <3>1, FittingSwap
    <3> QED
      BY <3>2 DEF Swapped
  <2>8. Pops(sv, i, r)
    BY Zenon, <1>5, <2>4, <2>7 DEF Pops
  <2>9. sv[i].work # <<>>
    BY <1>5, <1>11
  <2> QED
    BY <1>1, <1>7, <1>11, <2>7, <2>8, <2>9 DEF Reading
<1>12. CASE f.kind = "confirm" /\ y.work = <<>>
  <2>1. Taken(y, f) = y
    BY <1>12 DEF Taken
  <2>2. r = sv
    BY <1>4, <1>4a, <1>5, <2>1 DEF Swaps, Sessions
  <2> QED
    BY <1>1, <1>4, <1>7, <1>12, <2>2 DEF Reading
<1> QED
  BY <1>4, <1>8, <1>9, <1>10, <1>11, <1>12

LEMMA AnswerHas ==
    ASSUME Formed(tab), Sessions(server, Len(tab.calls)), NEW i, Answer(i)
    PROVE  /\ i \in 1 .. Len(tab.socks) /\ tab.socks[i].at = "open" /\ tab.socks[i].sid = i
           /\ server[i].work \in Seq(1 .. Len(tab.calls)) /\ server[i].work # <<>> /\ ~ server[i].lost
           /\ Head(server[i].work) \in 1 .. Len(tab.calls) /\ tab.calls[Head(server[i].work)].at = "sent"
           /\ server' = server /\ drops' = drops /\ left' = left
<1>1. PICK sv, n, y : sv = server /\ n = Len(tab.calls) /\ y = server[i]
  OBVIOUS
<1>2. /\ i \in 1 .. Len(tab.socks) /\ tab.socks[i].at = "open" /\ tab.socks[i].sid = i
      /\ y.work # <<>> /\ ~ y.lost /\ tab.calls[Head(y.work)].at = "sent"
      /\ server' = server /\ drops' = drops /\ left' = left
  BY <1>1 DEF Answer, Answers, Is
<1>3. /\ n \in Nat /\ i \in Socks /\ Sessions(sv, n)
  BY <1>1, <1>2, FormedTypes
<1>4. /\ y \in SessionType /\ y.work \in Seq(CallIds) /\ \A m \in 1 .. Len(y.work) : y.work[m] \in 1 .. n
  BY <1>1, <1>3 DEF Sessions, SessionType
<1>5. y.work \in Seq(1 .. n)
  BY Zenon, <1>4, SeqWithin
<1>6. Head(y.work) \in 1 .. n
  BY <1>2, <1>4, <1>5, TailAt
<1> QED
  BY <1>1, <1>2, <1>5, <1>6

\* Answers of session i may be lost.
Loses(sv, i, r) ==
    /\ \A j \in Socks \ {i} : r[j] = sv[j]
    /\ r[i].alive = sv[i].alive /\ r[i].line = sv[i].line /\ r[i].work = sv[i].work
    /\ sv[i].work = <<>> => r[i].lost = sv[i].lost

LEMMA LosesDoes ==
    ASSUME Formed(tab), Sessions(server, Len(tab.calls)), NEW i, Closes(i)
    PROVE  /\ Sessions(server', Len(tab.calls))
           /\ Loses(server, i, server') \/ (server[i].line = 0 /\ server' = Recovered(i))
<1>1. PICK sv, r, n, y : sv = server /\ r = server' /\ n = Len(tab.calls) /\ y = server[i]
  OBVIOUS
<1>2. i \in 1 .. Len(tab.socks)
  BY DEF Closes
<1>3. n \in Nat /\ i \in Socks /\ Sessions(sv, n)
  BY <1>1, <1>2, FormedTypes
<1>4. /\ y \in SessionType /\ y.work \in Seq(CallIds) /\ y.lost \in BOOLEAN
      /\ \A m \in 1 .. Len(y.work) : y.work[m] \in 1 .. n
  BY <1>1, <1>3 DEF Sessions, SessionType
<1>5. CASE \E lost \in BOOLEAN : server' = [server EXCEPT ![i].lost = @ \/ (lost /\ server[i].work # <<>>)]
  <2>1. PICK lost \in BOOLEAN : server' = [server EXCEPT ![i].lost = @ \/ (lost /\ server[i].work # <<>>)]
    BY Zenon, <1>5
  <2>2. PICK x : x = [y EXCEPT !.lost = y.lost \/ (lost /\ y.work # <<>>)]
    BY Zenon
  <2>3. /\ x \in SessionType /\ x.alive = y.alive /\ x.line = y.line /\ x.work = y.work
        /\ y.work = <<>> => x.lost = y.lost
        /\ \A m \in 1 .. Len(x.work) : x.work[m] \in 1 .. n
    <3>1. PICK b \in BOOLEAN : b = (y.lost \/ (lost /\ y.work # <<>>))
      BY <1>4
    <3>2. /\ x \in SessionType /\ x.alive = y.alive /\ x.line = y.line /\ x.work = y.work
          /\ x.lost = b
      BY <1>4, <2>2, <3>1 DEF SessionType
    <3> QED
      BY <1>4, <3>1, <3>2
  <2>4. Swaps(sv, i, x, r)
    BY <1>1, <2>1, <2>2 DEF Swaps
  <2>5. Sessions(r, n) /\ r[i] = x /\ \A j \in Socks \ {i} : r[j] = sv[j]
    BY <1>3, <2>3, <2>4, SwapsDoes
  <2>6. Loses(sv, i, r)
    BY <1>1, <2>3, <2>5 DEF Loses
  <2>7. Sessions(r, n)
    BY <2>5
  <2> QED
    BY <1>1, <2>6, <2>7
<1>6. CASE server' = server
  <2>1. r = sv /\ Loses(sv, i, r)
    BY <1>1, <1>6 DEF Loses
  <2>2. Sessions(r, n)
    BY <1>3, <2>1
  <2> QED
    BY <1>1, <2>1, <2>2
<1>7. CASE server[i].line = 0 /\ server' = Recovered(i)
  BY <1>2, <1>7, RecoveredDoes
<1> QED
  BY <1>5, <1>6, <1>7 DEF Closes

\* Session i is closed.
Passes(sv, i, r) ==
    /\ \A j \in Socks \ {i} : r[j] = sv[j]
    /\ ~ r[i].alive /\ r[i].line = sv[i].line /\ r[i].work = <<>> /\ ~ r[i].lost

LEMMA PassesDoes ==
    ASSUME Formed(tab), Sessions(server, Len(tab.calls)), NEW i, WindowPasses(i)
    PROVE  /\ Sessions(server', Len(tab.calls)) /\ Passes(server, i, server')
           /\ i \in 1 .. Len(tab.socks) /\ tab.socks[i].at = "closed" /\ server[i].alive
<1>1. PICK sv, r, n : sv = server /\ r = server' /\ n = Len(tab.calls)
  OBVIOUS
<1>2. i \in 1 .. Len(tab.socks) /\ tab.socks[i].at = "closed" /\ server[i].alive
  BY DEF WindowPasses, Is
<1>3. n \in Nat /\ i \in Socks /\ Sessions(sv, n)
  BY <1>1, <1>2, FormedTypes
<1>4. sv[i].line \in Ids
  BY <1>3 DEF Sessions, SessionType
<1>5. PICK x : x = [NoSession EXCEPT !.line = sv[i].line]
  BY Zenon
<1>6. /\ x \in SessionType /\ ~ x.alive /\ x.line = sv[i].line /\ x.work = <<>> /\ ~ x.lost
      /\ \A m \in 1 .. Len(x.work) : x.work[m] \in 1 .. n
  BY Zenon, <1>4, <1>5, NoSessionIs
<1>7. Swaps(sv, i, x, r)
  BY <1>1, <1>5 DEF WindowPasses, Swaps
<1>8. Sessions(r, n) /\ r[i] = x /\ \A j \in Socks \ {i} : r[j] = sv[j]
  BY <1>3, <1>6, <1>7, SwapsDoes
<1>9. Passes(sv, i, r)
  BY <1>6, <1>8 DEF Passes
<1> QED
  BY <1>1, <1>2, <1>8, <1>9

-----------------------------------------------------------------------------
(* Type correctness.                                                       *)

\* The place that a websocket is named for has one.
Named(t) ==
    \A i \in 1 .. Len(t.socks) : t.socks[i].name # None => t.place[t.socks[i].name] # 0

Typed ==
    /\ Formed(tab) /\ Listed(tab, <<>>) /\ Named(tab)
    /\ Sessions(server, Len(tab.calls))
    /\ drops \in 0 .. MaxDrops /\ left \subseteq Places

\* The window t opens another websocket, with the session sid to ask for, at
\* the place p, whose websocket is on its way out; for the timer of i, or for
\* none (0).
Moves(t, p, i, sid, u) ==
    /\ Formed(t) /\ Formed(u) /\ p \in Places /\ sid \in Ids
    /\ u.calls = t.calls /\ u.waiting = t.waiting /\ Len(u.socks) = Len(t.socks) + 1
    /\ \A q \in Places : u.place[q] = IF q = p THEN Len(t.socks) + 1 ELSE t.place[q]
    /\ \A j \in 1 .. Len(t.socks) :
           LET a == t.socks[j]
               b == u.socks[j] IN
           /\ b.name = a.name /\ b.sid = a.sid /\ b.old = a.old /\ b.up = a.up
           /\ IF j = t.place[p]
              THEN b.at \in {"closing", "closed"} /\ (b.at = "closed" <=> a.at = "closed")
              ELSE b.at = a.at /\ b.stay = a.stay
           /\ b.timer = (a.timer /\ j # i)
    /\ LET s == u.socks[Len(t.socks) + 1] IN
       /\ s.name \in {None, p} /\ s.at = "connecting" /\ ~ s.stay /\ ~ s.timer
       /\ s.sid = sid /\ s.old = sid /\ s.up = <<>>
    /\ i # 0 => /\ i \in 1 .. Len(t.socks)
                /\ p = IF t.socks[i].name = None THEN Env ELSE t.socks[i].name
    /\ sid # 0 => t.place[p] # 0 /\ sid = t.socks[t.place[p]].sid

LEMMA OpensMoves ==
    ASSUME NEW t, Formed(t), NEW p \in Places, NEW name \in Tabs \cup {None}, name \in {None, p},
           t.place[p] # 0 => t.socks[t.place[p]].at = "closed",
           NEW u, Opens(t, p, Socket(name, 0), u)
    PROVE  Moves(t, p, 0, 0, u)
<1>1. PICK s : s = Socket(name, 0)
  OBVIOUS
<1>2. /\ s.name = name /\ s.at = "connecting" /\ ~ s.stay /\ ~ s.timer
      /\ s.sid = 0 /\ s.old = 0 /\ s.up = <<>>
  BY <1>1, NewSocket, Numbers
<1>3. /\ Formed(u) /\ Len(u.socks) = Len(t.socks) + 1
      /\ \A j \in 1 .. Len(t.socks) : u.socks[j] = t.socks[j]
      /\ u.socks[Len(t.socks) + 1] = s
      /\ u.place = [t.place EXCEPT ![p] = Len(t.socks) + 1]
      /\ u.calls = t.calls /\ u.waiting = t.waiting
  BY <1>1 DEF Opens
<1>4. \A q \in Places : u.place[q] = IF q = p THEN Len(t.socks) + 1 ELSE t.place[q]
  BY <1>3, FormedTypes
<1>5. ASSUME NEW j \in 1 .. Len(t.socks)
      PROVE  LET a == t.socks[j]
                 b == u.socks[j] IN
             /\ b.name = a.name /\ b.sid = a.sid /\ b.old = a.old /\ b.up = a.up
             /\ IF j = t.place[p]
                THEN b.at \in {"closing", "closed"} /\ (b.at = "closed" <=> a.at = "closed")
                ELSE b.at = a.at /\ b.stay = a.stay
             /\ b.timer = (a.timer /\ j # 0)
  <2>1. u.socks[j] = t.socks[j] /\ j # 0 /\ t.socks[j].timer \in BOOLEAN
    BY SMTT(30), <1>3, FormedTypes DEF SocketType
  <2>2. t.place[p] = j => t.socks[j].at = "closed"
    BY <2>1
  <2> QED
    BY <2>1, <2>2
<1> QED
  BY <1>2, <1>3, <1>4, <1>5, Numbers DEF Moves

LEMMA TimerMoves ==
    ASSUME Formed(tab), Named(tab), NEW i, Timer(i)
    PROVE  /\ i \in 1 .. Len(tab.socks) /\ tab.socks[i].timer
           /\ \E p, sid : Moves(tab, p, i, sid, tab') /\ tab.place[p] # 0 /\ sid = tab.socks[tab.place[p]].sid
<1>1. PICK p, e, sid : p = TimerPlace(i) /\ e = tab.place[p] /\ sid = tab.socks[e].sid
  OBVIOUS
<1>2. \A j \in 1 .. Len(tab.socks) : tab.socks[j].name # None => tab.place[tab.socks[j].name] # 0
  BY DEF Named
<1>3. /\ i \in 1 .. Len(tab.socks) /\ tab.socks[i].timer
      /\ p \in Places /\ e \in 1 .. Len(tab.socks) /\ sid \in Ids
      /\ \E w : Formed(w) /\ Ends(tab, e, i, w) /\ Opens(w, p, Socket(None, sid), tab')
  BY <1>1, <1>2, TimerDoes
<1>4. PICK t, u : t = tab /\ u = tab'
  OBVIOUS
<1>5. PICK w : Formed(w) /\ Ends(t, e, i, w) /\ Opens(w, p, Socket(None, sid), u)
  BY <1>3, <1>4
<1>6. PICK s : s = Socket(None, sid)
  OBVIOUS
<1>7. /\ s.name = None /\ s.at = "connecting" /\ ~ s.stay /\ ~ s.timer
      /\ s.sid = sid /\ s.old = sid /\ s.up = <<>>
  BY ZenonT(40), <1>3, <1>6, NewSocket
<1>8. /\ w.place = t.place /\ w.calls = t.calls /\ w.waiting = t.waiting /\ Len(w.socks) = Len(t.socks)
  BY <1>5 DEF Ends
<1>9. /\ Formed(u) /\ Len(u.socks) = Len(t.socks) + 1
      /\ \A j \in 1 .. Len(t.socks) : u.socks[j] = w.socks[j]
      /\ u.socks[Len(t.socks) + 1] = s
      /\ u.place = [t.place EXCEPT ![p] = Len(t.socks) + 1]
      /\ u.calls = t.calls /\ u.waiting = t.waiting
  BY <1>5, <1>6, <1>8 DEF Opens
<1>10. \A q \in Places : u.place[q] = IF q = p THEN Len(t.socks) + 1 ELSE t.place[q]
  BY <1>4, <1>9, FormedTypes
<1>11. ASSUME NEW j \in 1 .. Len(t.socks)
       PROVE  LET a == t.socks[j]
                  b == u.socks[j] IN
              /\ b.name = a.name /\ b.sid = a.sid /\ b.old = a.old /\ b.up = a.up
              /\ IF j = t.place[p]
                 THEN b.at \in {"closing", "closed"} /\ (b.at = "closed" <=> a.at = "closed")
                 ELSE b.at = a.at /\ b.stay = a.stay
              /\ b.timer = (a.timer /\ j # i)
  <2>1. /\ u.socks[j] = w.socks[j]
        /\ t.socks[j].stay \in BOOLEAN /\ t.socks[j].timer \in BOOLEAN
        /\ w.socks[j].stay \in BOOLEAN /\ w.socks[j].timer \in BOOLEAN
    BY Zenon, <1>4, <1>5, <1>8, <1>9, FormedTypes DEF SocketType
  <2>2. LET a == t.socks[j]
            b == w.socks[j] IN
        /\ b.name = a.name /\ b.sid = a.sid /\ b.old = a.old /\ b.up = a.up
        /\ b.at = IF j = e /\ a.at # "closed" THEN "closing" ELSE a.at
        /\ b.stay = (a.stay \/ j = e) /\ b.timer = (a.timer /\ j # i)
    BY <1>5 DEF Ends
  <2>3. e = t.place[p]
    BY <1>1, <1>4
  <2> QED
    BY <2>1, <2>2, <2>3
<1>12. p = IF t.socks[i].name = None THEN Env ELSE t.socks[i].name
  BY <1>1, <1>4 DEF TimerPlace
<1>13. t.place[p] = e /\ e # 0 /\ sid = t.socks[e].sid /\ Formed(t) /\ i \in 1 .. Len(t.socks)
  BY <1>1, <1>3, <1>4
<1>14. Moves(t, p, i, sid, u)
  BY <1>3, <1>7, <1>9, <1>10, <1>11, <1>12, <1>13 DEF Moves
<1> QED
  BY <1>3, <1>4, <1>13, <1>14

LEMMA ReopensMoves ==
    ASSUME NEW t, Formed(t), NEW u, Reopens(t, u)
    PROVE  u = t \/ (t.socks[t.place[Env]].at = "closed" /\ Moves(t, Env, 0, 0, u))
  BY OpensMoves, Numbers DEF Reopens

LEMMA OpenPlaceMoves ==
    ASSUME Formed(tab), NEW p \in Places, OpenPlace(p)
    PROVE  p \in Tabs /\ tab.place[p] = 0 /\ Moves(tab, p, 0, 0, tab')
<1>1. PICK u : u = tab'
  OBVIOUS
<1>2. p \in Tabs /\ tab.place[p] = 0 /\ Opens(tab, p, Socket(p, 0), u)
  BY <1>1, OpenPlaceDoes
<1>3. Moves(tab, p, 0, 0, u)
  BY <1>2, OpensMoves
<1> QED
  BY <1>1, <1>2, <1>3

LEMMA MovesNamed ==
    ASSUME NEW t, NEW u, NEW p, NEW i, NEW sid, Moves(t, p, i, sid, u), Named(t)
    PROVE  Named(u)
<1>1. /\ Formed(t) /\ Formed(u) /\ Len(t.socks) \in Nat /\ Len(u.socks) = Len(t.socks) + 1
  BY FormedTypes DEF Moves
<1>2. ASSUME NEW j \in 1 .. Len(u.socks), u.socks[j].name # None PROVE u.place[u.socks[j].name] # 0
  <2>1. CASE j = Len(t.socks) + 1
    <3>1. u.socks[j].name = p /\ u.place[p] = Len(t.socks) + 1
      BY <1>2, <2>1 DEF Moves
    <3> QED
      BY <1>1, <3>1
  <2>2. CASE j \in 1 .. Len(t.socks)
    <3>1. u.socks[j].name = t.socks[j].name /\ t.place[t.socks[j].name] # 0
      BY <1>2, <2>2 DEF Moves, Named
    <3>2. t.socks[j].name \in Places
      BY Zenon, <1>1, <1>2, <2>2, <3>1, FormedTypes, Numbers DEF SocketType
    <3>3. u.place[t.socks[j].name] = IF t.socks[j].name = p THEN Len(t.socks) + 1 ELSE t.place[t.socks[j].name]
      BY <3>2 DEF Moves
    <3> QED
      BY <1>1, <3>1, <3>3
  <2> QED
    BY <1>1, <2>1, <2>2
<1> QED
  BY <1>2 DEF Named

LEMMA SameNamed ==
    ASSUME NEW t, NEW u, Named(t), u.place = t.place, Len(u.socks) = Len(t.socks),
           \A j \in 1 .. Len(t.socks) : u.socks[j].name = t.socks[j].name
    PROVE  Named(u)
  BY DEF Named

\* The window r has the websockets of t, but for the frames on their way, the
\* states in S and what id is known.
LEMMA MakesSockets ==
    ASSUME NEW u, NEW calls, NEW r, Formed(u), Makes(u, calls, r)
    PROVE  /\ r.place = u.place /\ Len(r.socks) = Len(u.socks) /\ Len(r.calls) = Len(u.calls)
           /\ \A j \in 1 .. Len(u.socks) :
                  LET a == u.socks[j]
                      b == r.socks[j] IN
                  /\ b.name = a.name /\ b.at = a.at /\ b.stay = a.stay /\ b.timer = a.timer
                  /\ b.sid = a.sid /\ b.old = a.old
<1>1. SameSockets(u, r) /\ Len(r.calls) = Len(u.calls)
  BY DEF Makes
<1>2. ASSUME NEW j \in 1 .. Len(u.socks)
      PROVE  LET a == u.socks[j]
                 b == r.socks[j] IN
             /\ b.name = a.name /\ b.at = a.at /\ b.stay = a.stay /\ b.timer = a.timer
             /\ b.sid = a.sid /\ b.old = a.old
  <2>1. PICK up : up = r.socks[j].up
    OBVIOUS
  <2>2. r.socks[j] = [u.socks[j] EXCEPT !.up = up] /\ u.socks[j] \in SocketType
    BY <1>1, <2>1, FormedTypes DEF SameSockets
  <2> QED
    BY <2>2 DEF SocketType
<1> QED
  BY <1>1, <1>2 DEF SameSockets

\* Websocket i has its id.
Knows(t, i, r) ==
    \A j \in 1 .. Len(t.socks) :
        LET a == t.socks[j]
            b == r.socks[j] IN
        /\ b.name = a.name /\ b.at = a.at /\ b.stay = a.stay /\ b.timer = a.timer
        /\ b.sid = IF j = i THEN i ELSE a.sid
        /\ b.old = a.old

LEMMA ResumesSockets ==
    ASSUME NEW t, NEW X, NEW i \in 1 .. Len(t.socks), NEW r, Formed(t), Resumes(t, X, i, r)
    PROVE  Knows(t, i, r)
<1>1. ASSUME NEW j \in 1 .. Len(t.socks)
      PROVE  LET a == t.socks[j]
                 b == r.socks[j] IN
             /\ b.name = a.name /\ b.at = a.at /\ b.stay = a.stay /\ b.timer = a.timer
             /\ b.sid = IF j = i THEN i ELSE a.sid
             /\ b.old = a.old
  <2>1. PICK up : up = r.socks[i].up
    OBVIOUS
  <2>2. r.socks[i] = [t.socks[i] EXCEPT !.sid = i, !.up = up] /\ t.socks[i] \in SocketType
    BY <2>1, FormedTypes DEF Resumes
  <2>3. j # i => r.socks[j] = t.socks[j]
    BY DEF Resumes
  <2>4. CASE j = i
    BY Zenon, <2>2, <2>4 DEF SocketType
  <2> QED
    BY <2>3, <2>4
<1> QED
  BY <1>1 DEF Knows

\* Websocket i is in another state, with other frames on their way.
Turns(t, i, at, up, timer, r) ==
    /\ r.place = t.place /\ r.calls = t.calls /\ r.waiting = t.waiting /\ Len(r.socks) = Len(t.socks)
    /\ \A j \in 1 .. Len(t.socks) :
           LET a == t.socks[j]
               b == r.socks[j] IN
           /\ b.name = a.name /\ b.sid = a.sid /\ b.old = a.old /\ b.stay = a.stay
           /\ b.at = IF j = i THEN at ELSE a.at
           /\ b.up = IF j = i THEN up ELSE a.up
           /\ b.timer = IF j = i THEN timer ELSE a.timer

LEMMA AltersTurns ==
    ASSUME NEW t, Formed(t), NEW i \in 1 .. Len(t.socks), NEW at, NEW up, NEW timer,
           NEW s, s.name = t.socks[i].name, s.sid = t.socks[i].sid, s.old = t.socks[i].old,
           s.stay = t.socks[i].stay, s.at = at, s.up = up, s.timer = timer,
           NEW r, Alters(t, i, s, r)
    PROVE  Turns(t, i, at, up, timer, r)
  BY DEF Alters, Turns

LEMMA HandshakeTurns ==
    ASSUME Formed(tab), NEW i, Handshake(i)
    PROVE  /\ i \in 1 .. Len(tab.socks) /\ tab.socks[i].at = "connecting" /\ Formed(tab')
           /\ Turns(tab, i, "open", tab.socks[i].up, tab.socks[i].timer, tab')
<1>1. PICK t, a, s : t = tab /\ a = tab.socks[i] /\ s = [tab.socks[i] EXCEPT !.at = "open"]
  BY Zenon
<1>2. /\ i \in 1 .. Len(t.socks) /\ tab.socks[i].at = "connecting" /\ Formed(tab')
      /\ Alters(t, i, s, tab') /\ a \in SocketType
  BY Zenon, <1>1, HandshakeDoes, FormedTypes
<1>3. /\ s.name = a.name /\ s.sid = a.sid /\ s.old = a.old /\ s.stay = a.stay /\ s.at = "open"
      /\ s.up = a.up /\ s.timer = a.timer
  BY <1>1, <1>2 DEF SocketType
<1>4. PICK up, timer : up = a.up /\ timer = a.timer
  OBVIOUS
<1>5. Turns(t, i, "open", up, timer, tab')
  BY Zenon, <1>1, <1>2, <1>3, <1>4, AltersTurns
<1> QED
  BY <1>1, <1>2, <1>4, <1>5

LEMMA ClosesTurns ==
    ASSUME Formed(tab), NEW i, Closes(i)
    PROVE  /\ i \in 1 .. Len(tab.socks) /\ tab.socks[i].at # "closed" /\ Formed(tab')
           /\ Turns(tab, i, "closed", <<>>, ~ tab.socks[i].stay, tab')
<1>1. PICK t, a, timer : t = tab /\ a = tab.socks[i] /\ timer = ~ tab.socks[i].stay
  OBVIOUS
<1>2. PICK s : s = [tab.socks[i] EXCEPT !.at = "closed", !.up = <<>>, !.timer = ~ tab.socks[i].stay]
  OBVIOUS
<1>3. /\ i \in 1 .. Len(t.socks) /\ tab.socks[i].at # "closed" /\ Formed(tab')
      /\ Alters(t, i, s, tab') /\ a \in SocketType
  BY Zenon, <1>1, <1>2, ClosesDoes, FormedTypes
<1>4. /\ s.name = a.name /\ s.sid = a.sid /\ s.old = a.old /\ s.stay = a.stay /\ s.at = "closed"
      /\ s.up = <<>> /\ s.timer = timer
  BY <1>1, <1>2, <1>3 DEF SocketType
<1>5. PICK up : up = <<>>
  OBVIOUS
<1>6. Turns(t, i, "closed", up, timer, tab')
  BY <1>1, <1>3, <1>4, <1>5, AltersTurns
<1> QED
  BY <1>1, <1>3, <1>5, <1>6

LEMMA ReadTurns ==
    ASSUME Formed(tab), NEW i, ReadFrame(i)
    PROVE  /\ i \in 1 .. Len(tab.socks) /\ tab.socks[i].at = "open" /\ Formed(tab')
           /\ tab.socks[i].up \in Seq(FrameType) /\ tab.socks[i].up # <<>>
           /\ Turns(tab, i, "open", Tail(tab.socks[i].up), tab.socks[i].timer, tab')
<1>1. PICK t, a, s : /\ t = tab /\ a = tab.socks[i]
                     /\ s = [tab.socks[i] EXCEPT !.up = Tail(tab.socks[i].up)]
  BY Zenon
<1>2. PICK up, timer : up = Tail(a.up) /\ timer = a.timer
  BY Zenon
<1>3. /\ i \in 1 .. Len(t.socks) /\ a.at = "open" /\ Formed(tab')
      /\ tab.socks[i].up \in Seq(FrameType) /\ tab.socks[i].up # <<>>
      /\ Alters(t, i, s, tab') /\ a \in SocketType
  BY Zenon, <1>1, ReadDoes, FormedTypes
<1>4. /\ s.name = a.name /\ s.sid = a.sid /\ s.old = a.old /\ s.stay = a.stay /\ s.at = "open"
      /\ s.up = up /\ s.timer = timer
  BY <1>1, <1>2, <1>3 DEF SocketType
<1>5. Turns(t, i, "open", up, timer, tab')
  BY Zenon, <1>1, <1>3, <1>4, AltersTurns
<1> QED
  BY <1>1, <1>2, <1>3, <1>5

\* The tab u drops the message of the call h: it is answered.
Replies(u, h, r) ==
    /\ r.socks = u.socks /\ r.place = u.place /\ r.waiting = u.waiting /\ Len(r.calls) = Len(u.calls)
    /\ \A c \in 1 .. Len(u.calls) :
           r.calls[c] = IF c = h THEN [u.calls[c] EXCEPT !.at = "answered"] ELSE u.calls[c]

LEMMA RepliesDoes ==
    ASSUME NEW t, Formed(t), NEW h \in 1 .. Len(t.calls), NEW r, r = [t EXCEPT !.calls[h].at = "answered"]
    PROVE  Formed(r) /\ Replies(t, h, r)
<1>3. /\ t.socks \in Seq(SocketType) /\ t.place \in [Places -> Ids] /\ t.calls \in Seq(CallType)
      /\ t.waiting \in Seq(CallIds) /\ t.calls[h] \in CallType
  BY FormedTypes
<1>4. PICK k : k = [t.calls[h] EXCEPT !.at = "answered"]
  BY Zenon
<1>5. k \in CallType /\ k.to = t.calls[h].to /\ k.via = t.calls[h].via
  BY Zenon, <1>3, <1>4 DEF CallType
<1>6. /\ r = [socks |-> t.socks, place |-> t.place, calls |-> r.calls, waiting |-> t.waiting]
      /\ r.calls = [t.calls EXCEPT ![h] = k]
      /\ r.socks = t.socks /\ r.place = t.place /\ r.waiting = t.waiting
  BY Zenon, <1>4 DEF Formed, WindowType
<1>7. /\ r.calls \in Seq(CallType) /\ Len(r.calls) = Len(t.calls)
      /\ \A c \in 1 .. Len(t.calls) : r.calls[c] = IF c = h THEN k ELSE t.calls[c]
  <2>1. PICK a : a = t.calls
    OBVIOUS
  <2>2. a \in Seq(CallType) /\ h \in 1 .. Len(a) /\ k \in CallType
    BY <1>3, <1>5, <2>1
  <2>3. PICK b : b = [a EXCEPT ![h] = k]
    BY Zenon
  <2>4. b \in Seq(CallType) /\ Len(b) = Len(a) /\ \A c \in 1 .. Len(a) : b[c] = IF c = h THEN k ELSE a[c]
    BY <2>2, <2>3
  <2>5. r.calls = b
    BY <1>6, <2>1, <2>3
  <2> QED
    BY <2>1, <2>4, <2>5
<1>8. Formed(r)
  <2>1. r \in WindowType
    BY Zenon, <1>3, <1>6, <1>7 DEF WindowType
  <2>2. \A c \in 1 .. Len(r.calls) : r.calls[c].to \in 1 .. Len(r.socks) /\ r.place[r.calls[c].via] # 0
    BY <1>5, <1>6, <1>7 DEF Formed
  <2> QED
    BY <1>6, <1>7, <2>1, <2>2 DEF Formed
<1> QED
  BY Zenon, <1>4, <1>6, <1>7, <1>8 DEF Replies

\* Frames are on their way from websocket i, and then a CONFIRM.
Confirming(t, i, up) == up = Append(t.socks[i].up, up[Len(t.socks[i].up) + 1])
                        /\ up[Len(t.socks[i].up) + 1].kind = "confirm"

\* The answer arrives: the CONFIRM is on its way, and the message is dropped.
LEMMA AnswerDoes ==
    ASSUME Formed(tab), Sessions(server, Len(tab.calls)), NEW i, Answer(i)
    PROVE  \E u, up : /\ Formed(u) /\ Turns(tab, i, "open", up, tab.socks[i].timer, u)
                      /\ Confirming(tab, i, up) /\ up \in Seq(FrameType)
                      /\ Formed(tab') /\ Replies(u, Head(server[i].work), tab')
<1>1. PICK h, t, a, f : h = Head(server[i].work) /\ t = tab /\ a = tab.socks[i] /\ f = [kind |-> "confirm", c |-> h]
  BY Zenon
<1>2. /\ i \in 1 .. Len(t.socks) /\ a.at = "open" /\ h \in 1 .. Len(t.calls) /\ Formed(t)
  BY <1>1, AnswerHas
<1>3. a \in SocketType /\ h \in CallIds /\ f \in FrameType /\ f.kind = "confirm" /\ f.c = h
  <2>1. a \in SocketType /\ h \in CallIds
    BY <1>1, <1>2, FormedTypes DEF CallIds
  <2> QED
    BY <1>1, <2>1 DEF FrameType
<1>4. PICK up : up = Append(a.up, f)
  BY Zenon
<1>5. /\ a.up \in Seq(FrameType) /\ up \in Seq(FrameType) /\ Len(a.up) \in Nat /\ Len(up) = Len(a.up) + 1
      /\ up[Len(a.up) + 1] = f /\ \A m \in 1 .. Len(a.up) : up[m] = a.up[m]
  <2>1. a.up \in Seq(FrameType)
    BY <1>3 DEF SocketType
  <2> QED
    BY <1>3, <1>4, <2>1, AppendAt
<1>6. Confirming(t, i, up)
  BY <1>1, <1>3, <1>4, <1>5 DEF Confirming
<1>7. PICK s : s = [a EXCEPT !.up = up]
  BY Zenon
<1>8. /\ s \in SocketType /\ s.name = a.name /\ s.sid = a.sid /\ s.old = a.old /\ s.stay = a.stay /\ s.at = "open"
      /\ s.up = up /\ s.timer = a.timer
  BY Zenon, <1>2, <1>3, <1>5, <1>7 DEF SocketType
<1>9. PICK u : u = Altered(t, i, s)
  BY Zenon
<1>10. \A m \in 1 .. Len(s.up) : s.up[m].c \in 1 .. Len(t.calls)
  <2>1. ASSUME NEW m \in 1 .. Len(a.up) PROVE a.up[m].c \in 1 .. Len(t.calls)
    BY <1>1, <1>2 DEF Formed
  <2>2. ASSUME NEW m \in 1 .. Len(up) PROVE m \in 1 .. Len(a.up) \/ m = Len(a.up) + 1
    BY <1>5
  <2> QED
    BY <1>2, <1>3, <1>5, <1>8, <2>1, <2>2
<1>11. Alters(t, i, s, u) /\ Formed(u)
  BY Zenon, <1>2, <1>8, <1>9, <1>10, AltersDoes
<1>12. PICK timer : timer = a.timer
  OBVIOUS
<1>13. Turns(t, i, "open", up, timer, u)
  BY Zenon, <1>1, <1>2, <1>8, <1>11, <1>12, AltersTurns
<1>14. u = [t EXCEPT !.socks[i] = [a EXCEPT !.up = up]]
  BY <1>7, <1>9 DEF Altered
<1>15. tab' = [u EXCEPT !.calls[h].at = "answered"]
  <2>1. tab' = [tab EXCEPT !.calls[h].at = "answered", !.socks[i].up = Append(@, [kind |-> "confirm", c |-> h])]
    BY Zenon, <1>1 DEF Answer
  <2>2. t \in WindowType
    BY <1>2 DEF Formed
  <2>3. u = [socks |-> u.socks, place |-> t.place, calls |-> t.calls, waiting |-> t.waiting]
        /\ u.socks = [t.socks EXCEPT ![i] = [t.socks[i] EXCEPT !.up = Append(t.socks[i].up, f)]]
    BY Zenon, <1>1, <1>4, <1>14, <2>2 DEF WindowType
  <2>4. tab' = [socks |-> u.socks, place |-> t.place, waiting |-> t.waiting,
                calls |-> [t.calls EXCEPT ![h] = [t.calls[h] EXCEPT !.at = "answered"]]]
    BY <1>1, <2>1, <2>2, <2>3 DEF WindowType
  <2>5. PICK a2, k : a2 = u.socks /\ k = [t.calls EXCEPT ![h] = [t.calls[h] EXCEPT !.at = "answered"]]
    BY Zenon
  <2>6. u = [socks |-> a2, place |-> t.place, calls |-> t.calls, waiting |-> t.waiting]
    BY <2>3, <2>5
  <2>7. [u EXCEPT !.calls[h].at = "answered"] = [socks |-> a2, place |-> t.place, calls |-> k, waiting |-> t.waiting]
    BY <2>5, <2>6
  <2> QED
    BY Zenon, <2>4, <2>5, <2>7
<1>16. h \in 1 .. Len(u.calls)
  BY <1>2, <1>11 DEF Alters
<1>17. Formed(tab') /\ Replies(u, h, tab')
  <2>1. PICK r : r = tab'
    OBVIOUS
  <2>2. Formed(r) /\ Replies(u, h, r)
    BY <1>11, <1>15, <1>16, <2>1, RepliesDoes
  <2> QED
    BY <2>1, <2>2
<1> QED
  BY <1>1, <1>5, <1>6, <1>11, <1>12, <1>13, <1>17

LEMMA RequestingNamed ==
    ASSUME NEW t, NEW u, NEW calls, Requesting(t, u, calls), Named(t)
    PROVE  /\ Named(u) /\ Named(tab') /\ Formed(tab') /\ Listed(tab', <<>>)
           /\ Len(tab'.calls) = Len(t.calls)
<1>1. PICK r : r = tab'
  OBVIOUS
<1>2. /\ Formed(t) /\ Reopens(t, u) /\ Formed(u) /\ u.calls = t.calls /\ Makes(u, calls, r) /\ Formed(r)
      /\ Listed(r, <<>>)
  BY <1>1 DEF Requesting
<1>3. Named(u)
  BY <1>2, ReopensMoves, MovesNamed
<1>4. Named(r) /\ Len(r.calls) = Len(t.calls)
  BY <1>2, <1>3, MakesSockets, SameNamed
<1> QED
  BY <1>1, <1>2, <1>3, <1>4

LEMMA TypedInit ==
    ASSUME CallsInit
    PROVE  Typed
<1>1. PICK s : s = Socket(None, 0)
  OBVIOUS
<1>2. s \in SocketType /\ s.name = None /\ s.at = "connecting" /\ s.up = <<>>
  BY <1>1, NewSocket, Numbers
<1>3. PICK t, e : t = tab /\ e = <<>>
  OBVIOUS
<1>4. Len(e) = 0 /\ 1 .. Len(e) = {} /\ RangeOf(e) = {} /\ \A S : e \in Seq(S)
  BY <1>3 DEF RangeOf
<1>5. t = [socks |-> <<s>>, place |-> [p \in Places |-> IF p = Env THEN 1 ELSE 0], calls |-> e, waiting |-> e]
  BY <1>1, <1>3 DEF CallsInit
<1>6. /\ t.socks = <<s>> /\ t.place = [p \in Places |-> IF p = Env THEN 1 ELSE 0] /\ t.calls = e /\ t.waiting = e
  BY <1>5
<1>7. t.socks \in Seq(SocketType) /\ Len(t.socks) = 1 /\ t.socks[1] = s /\ 1 .. Len(t.socks) = {1}
  BY <1>2, <1>6
<1>8. 0 \in Ids /\ 1 \in Ids /\ 1 <= MaxSockets /\ 0 <= MaxCalls /\ 0 \in 0 .. MaxDrops
  BY Numbers DEF Ids
<1>9. t.place \in [Places -> Ids] /\ \A p \in Places : t.place[p] \in 0 .. 1
  BY <1>6, <1>8
<1>10. t.place[Env] # 0
  BY <1>6, Numbers
<1>11. t \in WindowType
  BY <1>4, <1>5, <1>6, <1>7, <1>9 DEF WindowType
<1>12. Formed(t)
  BY <1>2, <1>3, <1>4, <1>6, <1>7, <1>8, <1>9, <1>10, <1>11 DEF Formed
<1>13. Listed(t, e) /\ Named(t)
  BY <1>2, <1>4, <1>6, <1>7 DEF Listed, NoTwice, Named
<1>14. Sessions(server, Len(t.calls))
  <2>1. /\ NoSession \in SessionType /\ NoSession.work = e
    BY Zenon, <1>3, <1>8, NoSessionIs
  <2>2. server \in [Socks -> SessionType] /\ \A i \in Socks : server[i] = NoSession
    BY <2>1 DEF CallsInit, Socks
  <2> QED
    BY <1>4, <2>1, <2>2 DEF Sessions
<1> QED
  BY <1>3, <1>8, <1>12, <1>13, <1>14 DEF CallsInit, Typed

\* Frame m on its way from websocket i has the call c; the request n of session
\* j is the call c.
Carries(t, i, m, c) ==
    /\ i \in 1 .. Len(t.socks) /\ m \in 1 .. Len(t.socks[i].up)
    /\ t.socks[i].up[m].kind = "call" /\ t.socks[i].up[m].c = c
Works(sv, j, n, c) == j \in Socks /\ n \in 1 .. Len(sv[j].work) /\ sv[j].work[n] = c

\* What is known of the request n of a session, the call c.
AtWork(t, n, c) == t.calls[c].at = "sent" \/ (t.calls[c].at = "answered" /\ n = 1)

\* A call that is on its way or in a session was sent, and is nowhere else; one
\* that is answered is the request whose CONFIRM a session waits for.
Once(t, sv) ==
    /\ \A i, m, c : Carries(t, i, m, c) => t.calls[c].at = "sent"
    /\ \A i, j, m, n, c : Carries(t, i, m, c) /\ Carries(t, j, n, c) => i = j /\ m = n
    /\ \A j, n, c : Works(sv, j, n, c) => AtWork(t, n, c)
    /\ \A i, j, m, n, c : Works(sv, j, n, c) => ~ Carries(t, i, m, c)
    /\ \A i, j, m, n, c : Works(sv, i, m, c) /\ Works(sv, j, n, c) => i = j /\ m = n

LEMMA HeadWorks ==
    ASSUME NEW sv, NEW k \in Nat, NEW j \in Socks, sv[j].work \in Seq(1 .. k), sv[j].work # <<>>
    PROVE  Works(sv, j, 1, Head(sv[j].work))
  BY TailAt DEF Works

LEMMA TypedNext ==
    ASSUME Typed, Once(tab, server), [CallsNext]_cvars
    PROVE  Typed'
<1>1. /\ Formed(tab) /\ Listed(tab, <<>>) /\ Named(tab) /\ Sessions(server, Len(tab.calls))
      /\ drops \in 0 .. MaxDrops /\ left \subseteq Places /\ Len(tab.calls) \in Nat
  BY FormedTypes DEF Typed
<1> SUFFICES /\ Formed(tab') /\ Listed(tab', <<>>) /\ Named(tab') /\ Sessions(server', Len(tab'.calls))
             /\ drops' \in 0 .. MaxDrops /\ left' \subseteq Places
  BY DEF Typed
<1>2. ASSUME NEW p \in Places, OpenPlace(p)
      PROVE  /\ Formed(tab') /\ Listed(tab', <<>>) /\ Named(tab') /\ Sessions(server', Len(tab'.calls))
             /\ drops' \in 0 .. MaxDrops /\ left' \subseteq Places
  <2>1. PICK u : u = tab'
    OBVIOUS
  <2>2. Moves(tab, p, 0, 0, u)
    BY <1>1, <1>2, <2>1, OpenPlaceMoves
  <2>3. Formed(u) /\ u.calls = tab.calls /\ u.waiting = tab.waiting
    BY <2>2 DEF Moves
  <2>4. Named(u)
    BY <1>1, <2>2, MovesNamed
  <2>5. Listed(u, <<>>)
    BY <1>1, <2>3 DEF Listed
  <2>6. server' = server /\ drops' = drops /\ left' = left
    BY <1>2 DEF OpenPlace
  <2> QED
    BY <1>1, <2>1, <2>3, <2>4, <2>5, <2>6
<1>3. ASSUME NEW p \in Places, Call(p)
      PROVE  /\ Formed(tab') /\ Listed(tab', <<>>) /\ Named(tab') /\ Sessions(server', Len(tab'.calls))
             /\ drops' \in 0 .. MaxDrops /\ left' \subseteq Places
  <2>1. PICK t, u : Adds(tab, p, t) /\ Requesting(t, u, <<Len(tab.calls) + 1>>)
    BY <1>1, <1>3, CallRequests
  <2>2. t.place = tab.place /\ t.socks = tab.socks
    BY <2>1 DEF Adds
  <2>3. Len(t.calls) = Len(tab.calls) + 1
    <3>1. t.calls = Append(tab.calls, [via |-> p, to |-> tab.place[p], at |-> "waiting", session |-> 0])
      BY <2>1 DEF Adds
    <3> QED
      BY <1>1, <3>1, FormedTypes
  <2>4. Named(t)
    BY <1>1, <2>2, SameNamed
  <2>5. PICK calls : calls = <<Len(tab.calls) + 1>>
    BY Zenon
  <2>6. /\ Named(tab') /\ Formed(tab') /\ Listed(tab', <<>>) /\ Len(tab'.calls) = Len(t.calls)
    BY <2>1, <2>4, <2>5, RequestingNamed
  <2>7. Sessions(server, Len(tab.calls) + 1)
    BY <1>1, SessionsMore
  <2>8. server' = server /\ drops' = drops /\ left' \subseteq left \cup {Env}
    BY <1>3 DEF Call, LeavesEnv
  <2> QED
    BY <1>1, <2>3, <2>6, <2>7, <2>8, Numbers
<1>4. ASSUME NEW i \in Socks, SessionArrives(i)
      PROVE  /\ Formed(tab') /\ Listed(tab', <<>>) /\ Named(tab') /\ Sessions(server', Len(tab'.calls))
             /\ drops' \in 0 .. MaxDrops /\ left' \subseteq Places
  <2>1. PICK X : X = Unfinished(i)
    OBVIOUS
  <2>2. PICK t, u : Resumes(tab, X, i, t) /\ Requesting(t, u, tab.waiting)
    BY <1>1, <1>4, <2>1, ArrivalRequests
  <2>3. i \in 1 .. Len(tab.socks)
    BY <1>1, <1>4, ArrivalRequests
  <2>4. Named(t) /\ Len(t.calls) = Len(tab.calls)
    <3>1. /\ t.place = tab.place /\ Len(t.socks) = Len(tab.socks) /\ Len(t.calls) = Len(tab.calls)
          /\ \A j \in 1 .. Len(tab.socks) : t.socks[j].name = tab.socks[j].name
      <4>1. t.place = tab.place /\ Len(t.socks) = Len(tab.socks) /\ Len(t.calls) = Len(tab.calls)
        BY <2>2 DEF Resumes
      <4>2. \A j \in 1 .. Len(tab.socks) : t.socks[j].name = tab.socks[j].name
        BY <1>1, <2>2, <2>3, ResumesSockets DEF Knows
      <4> QED
        BY <4>1, <4>2
    <3> QED
      BY <1>1, <3>1, SameNamed
  <2>5. PICK calls : calls = tab.waiting
    OBVIOUS
  <2>6. /\ Named(tab') /\ Formed(tab') /\ Listed(tab', <<>>) /\ Len(tab'.calls) = Len(t.calls)
    BY <2>2, <2>4, <2>5, RequestingNamed
  <2>7. server' = server /\ drops' = drops /\ left' \subseteq left \cup {Env}
    BY <1>4 DEF SessionArrives, LeavesEnv
  <2> QED
    BY <1>1, <2>4, <2>6, <2>7, Numbers
<1>5. ASSUME NEW i \in Socks, Timer(i)
      PROVE  /\ Formed(tab') /\ Listed(tab', <<>>) /\ Named(tab') /\ Sessions(server', Len(tab'.calls))
             /\ drops' \in 0 .. MaxDrops /\ left' \subseteq Places
  <2>1. PICK u : u = tab'
    OBVIOUS
  <2>2. PICK p, sid : Moves(tab, p, i, sid, u)
    BY <1>1, <1>5, <2>1, TimerMoves
  <2>3. Formed(u) /\ u.calls = tab.calls /\ u.waiting = tab.waiting
    BY <2>2 DEF Moves
  <2>4. Named(u)
    BY <1>1, <2>2, MovesNamed
  <2>5. Listed(u, <<>>)
    BY <1>1, <2>3 DEF Listed
  <2>6. server' = server /\ drops' = drops /\ left' = left
    BY Zenon, <1>5 DEF Timer
  <2> QED
    BY <1>1, <2>1, <2>3, <2>4, <2>5, <2>6
<1>6. ASSUME NEW i, NEW at, NEW up, NEW timer, NEW u, Turns(tab, i, at, up, timer, u), Formed(u)
      PROVE  Formed(u) /\ Listed(u, <<>>) /\ Named(u) /\ Len(u.calls) = Len(tab.calls)
  <2>2. /\ u.place = tab.place /\ u.calls = tab.calls /\ u.waiting = tab.waiting /\ Len(u.socks) = Len(tab.socks)
        /\ \A j \in 1 .. Len(tab.socks) : u.socks[j].name = tab.socks[j].name
    BY <1>6 DEF Turns
  <2>3. Named(u)
    BY <1>1, <2>2, SameNamed
  <2>4. Listed(u, <<>>) /\ Len(u.calls) = Len(tab.calls)
    BY <1>1, <2>2 DEF Listed
  <2> QED
    BY <1>6, <2>3, <2>4
<1>7. ASSUME NEW i \in Socks, Handshake(i)
      PROVE  /\ Formed(tab') /\ Listed(tab', <<>>) /\ Named(tab') /\ Sessions(server', Len(tab'.calls))
             /\ drops' \in 0 .. MaxDrops /\ left' \subseteq Places
  <2>1. PICK up, timer : up = tab.socks[i].up /\ timer = tab.socks[i].timer
    OBVIOUS
  <2>2. i \in 1 .. Len(tab.socks) /\ Formed(tab') /\ Turns(tab, i, "open", up, timer, tab')
    BY <1>1, <1>7, <2>1, HandshakeTurns
  <2>3. Listed(tab', <<>>) /\ Named(tab') /\ Len(tab'.calls) = Len(tab.calls)
    BY <1>6, <2>2
  <2>4. server' = Recovered(i) /\ drops' = drops /\ left' = left \cup Stranded(i)
    BY <1>7 DEF Handshake
  <2>5. Sessions(server', Len(tab.calls))
    BY <1>1, <2>2, <2>4, RecoveredDoes
  <2>6. Stranded(i) \subseteq Places
    BY DEF Stranded
  <2> QED
    BY <1>1, <2>2, <2>3, <2>4, <2>5, <2>6
<1>8. ASSUME NEW i \in Socks, ReadFrame(i)
      PROVE  /\ Formed(tab') /\ Listed(tab', <<>>) /\ Named(tab') /\ Sessions(server', Len(tab'.calls))
             /\ drops' \in 0 .. MaxDrops /\ left' \subseteq Places
  <2>1. PICK up, timer : up = Tail(tab.socks[i].up) /\ timer = tab.socks[i].timer
    BY Zenon
  <2>2. Formed(tab') /\ Turns(tab, i, "open", up, timer, tab')
    BY <1>1, <1>8, <2>1, ReadTurns
  <2>3. Listed(tab', <<>>) /\ Named(tab') /\ Len(tab'.calls) = Len(tab.calls)
    BY <1>6, <2>2
  <2>4. Sessions(server', Len(tab.calls))
    BY <1>1, <1>8, ReadsDoes
  <2>5. drops' = drops /\ left' = left
    BY <1>8 DEF ReadFrame
  <2> QED
    BY <1>1, <2>2, <2>3, <2>4, <2>5
<1>9. ASSUME NEW i \in Socks, Answer(i)
      PROVE  /\ Formed(tab') /\ Listed(tab', <<>>) /\ Named(tab') /\ Sessions(server', Len(tab'.calls))
             /\ drops' \in 0 .. MaxDrops /\ left' \subseteq Places
  <2>1. PICK h : h = Head(server[i].work)
    OBVIOUS
  <2>2. /\ h \in 1 .. Len(tab.calls) /\ tab.calls[h].at = "sent"
        /\ server' = server /\ drops' = drops /\ left' = left
    BY <1>1, <1>9, <2>1, AnswerHas
  <2>3. PICK u, up, timer : /\ Turns(tab, i, "open", up, timer, u) /\ Formed(u)
                            /\ Replies(u, h, tab') /\ Formed(tab')
    <3>1. PICK u, up : /\ Turns(tab, i, "open", up, tab.socks[i].timer, u) /\ Formed(u)
                       /\ Replies(u, h, tab') /\ Formed(tab')
      BY <1>1, <1>9, <2>1, AnswerDoes
    <3> QED
      BY <3>1
  <2>4. Listed(u, <<>>) /\ Named(u) /\ Len(u.calls) = Len(tab.calls) /\ u.calls = tab.calls
    <3>1. Listed(u, <<>>) /\ Named(u) /\ Len(u.calls) = Len(tab.calls)
      <4>1. PICK at : at = "open"
        OBVIOUS
      <4> QED
        BY <1>6, <2>3, <4>1
    <3>2. u.calls = tab.calls
      BY <2>3 DEF Turns
    <3> QED
      BY <3>1, <3>2
  <2>5. Listed(tab', <<>>)
    <3>1. ASSUME NEW c \in 1 .. Len(tab'.calls)
          PROVE  /\ tab'.calls[c].at = "waiting" <=> c \in RangeOf(tab'.waiting) \cup RangeOf(<<>>)
                 /\ tab'.calls[c].at = "sent" => tab'.calls[c].session # 0
      <4>1. /\ u.calls[c].at = "waiting" <=> c \in RangeOf(u.waiting) \cup RangeOf(<<>>)
            /\ u.calls[c].at = "sent" => u.calls[c].session # 0
            /\ u.calls[c] \in CallType /\ c \in 1 .. Len(u.calls)
        BY <2>3, <2>4, FormedTypes DEF Listed, Replies
      <4>2. CASE c = h
        <5>1. tab'.calls[c].at = "answered"
          BY Zenon, <2>3, <4>1, <4>2 DEF CallType, Replies
        <5>2. u.calls[c].at = "sent"
          BY <2>2, <2>4, <4>2
        <5>3. tab'.waiting = u.waiting
          BY <2>3 DEF Replies
        <5> QED
          BY <4>1, <5>1, <5>2, <5>3
      <4>3. CASE c # h
        BY Zenon, <2>3, <4>1, <4>3 DEF Replies
      <4> QED
        BY <4>2, <4>3
    <3>2. tab'.waiting = u.waiting /\ Len(tab'.calls) = Len(u.calls)
      BY <2>3 DEF Replies
    <3> QED
      BY <2>4, <3>1, <3>2 DEF Listed
  <2>6. Named(tab')
    <3>1. tab'.socks = u.socks /\ tab'.place = u.place
      BY <2>3 DEF Replies
    <3> QED
      BY <2>4, <3>1, SameNamed
  <2> QED
    BY <1>1, <2>2, <2>3, <2>4, <2>5, <2>6 DEF Replies
<1>10. ASSUME NEW i \in Socks, Closes(i), drops' \in 0 .. MaxDrops
       PROVE  /\ Formed(tab') /\ Listed(tab', <<>>) /\ Named(tab') /\ Sessions(server', Len(tab'.calls))
              /\ drops' \in 0 .. MaxDrops /\ left' \subseteq Places
  <2>1. PICK up, timer : up = <<>> /\ timer = ~ tab.socks[i].stay
    OBVIOUS
  <2>2. Formed(tab') /\ Turns(tab, i, "closed", up, timer, tab')
    BY <1>1, <1>10, <2>1, ClosesTurns
  <2>3. Listed(tab', <<>>) /\ Named(tab') /\ Len(tab'.calls) = Len(tab.calls)
    BY <1>6, <2>2
  <2>4. Sessions(server', Len(tab.calls))
    BY <1>1, <1>10, LosesDoes
  <2>5. left' \subseteq left \cup Tabs
    BY <1>10 DEF Closes
  <2> QED
    BY <1>1, <1>10, <2>2, <2>3, <2>4, <2>5, Numbers
<1>11. ASSUME NEW i \in Socks, WindowPasses(i)
       PROVE  /\ Formed(tab') /\ Listed(tab', <<>>) /\ Named(tab') /\ Sessions(server', Len(tab'.calls))
              /\ drops' \in 0 .. MaxDrops /\ left' \subseteq Places
  <2>1. Sessions(server', Len(tab.calls))
    BY <1>1, <1>11, PassesDoes
  <2> QED
    BY <1>1, <1>11, <2>1 DEF WindowPasses
<1>12. ASSUME NEW i \in Socks, Close(i) PROVE Closes(i) /\ drops' \in 0 .. MaxDrops
  BY <1>1, <1>12 DEF Close
<1>13. ASSUME NEW i \in Socks, Drop(i) PROVE Closes(i) /\ drops' \in 0 .. MaxDrops
  <2>1. Closes(i) /\ drops < MaxDrops /\ drops' = drops + 1
    BY <1>13 DEF Drop
  <2> QED
    BY <1>1, <2>1, Numbers
<1>14. CASE UNCHANGED cvars
  BY <1>1, <1>14 DEF cvars
<1>15. CASE CallsNext
  BY <1>2, <1>3, <1>4, <1>5, <1>7, <1>8, <1>9, <1>10, <1>11, <1>12, <1>13, <1>15 DEF CallsNext, Progress
<1> QED
  BY <1>14, <1>15

-----------------------------------------------------------------------------
(* The places: one websocket at a time looks after each of them.           *)

\* A websocket is at one place, and one that is on its way in, or open, is at
\* a place.
AtPlaces(t) ==
    /\ \A p, q \in Places : t.place[p] = t.place[q] /\ t.place[p] # 0 => p = q
    /\ \A i \in 1 .. Len(t.socks) :
           t.socks[i].at \in {"connecting", "open"} => \E p \in Places : t.place[p] = i

\* The session that was asked for is of an earlier websocket.
Older(t) ==
    \A i \in 1 .. Len(t.socks) :
        LET s == t.socks[i] IN
        /\ s.old < i /\ s.sid \in {i, s.old} /\ (s.at = "connecting" => s.sid = s.old)
        /\ s.timer => s.at = "closed"

\* That websocket is at no place, and two places ask for different sessions.
OldApart(t) ==
    /\ \A p \in Places, i \in 1 .. Len(t.socks) : t.place[p] # 0 => t.socks[i].old # t.place[p]
    /\ \A p, q \in Places :
           /\ t.place[p] # 0 /\ t.place[q] # 0 /\ t.socks[t.place[p]].old # 0
           /\ t.socks[t.place[p]].old = t.socks[t.place[q]].old
           => p = q

\* The websocket of a place was not closed by the window, and a timer opens
\* the next one if it closes, unless the place was left.
Tended(t, l) ==
    \A p \in Places :
        LET s == t.socks[t.place[p]] IN
        t.place[p] # 0 =>
            /\ s.at # "closing" /\ ~ s.stay /\ s.name \in {None, p}
            /\ s.at = "closed" /\ (p = Env \/ p \notin l) => s.timer /\ (p = Env \/ s.name = p)

Placed(t, l) == AtPlaces(t) /\ Older(t) /\ OldApart(t) /\ Tended(t, l)

LEMMA MovesPlaced ==
    ASSUME NEW t, NEW u, NEW p, NEW i, NEW sid, Moves(t, p, i, sid, u), NEW l, Placed(t, l),
           i # 0 => t.socks[i].timer
    PROVE  Placed(u, l)
<1> DEFINE n == Len(t.socks)
<1>1. /\ Formed(t) /\ Formed(u) /\ n \in Nat /\ Len(u.socks) = n + 1 /\ p \in Places /\ sid \in Ids
      /\ \A q \in Places : t.place[q] = 0 \/ t.place[q] \in 1 .. n
      /\ \A q \in Places : t.place[q] \in Nat /\ t.place[q] <= n
      /\ \A j \in 1 .. n + 1 : j \in 1 .. n \/ j = n + 1
  BY FormedTypes DEF Moves, Formed
<1>2. \A q \in Places : u.place[q] = IF q = p THEN n + 1 ELSE t.place[q]
  BY DEF Moves
<1>3. \A j \in 1 .. n :
         LET a == t.socks[j]
             b == u.socks[j] IN
         /\ b.name = a.name /\ b.sid = a.sid /\ b.old = a.old
         /\ IF j = t.place[p]
            THEN b.at \in {"closing", "closed"} /\ (b.at = "closed" <=> a.at = "closed")
            ELSE b.at = a.at /\ b.stay = a.stay
         /\ b.timer = (a.timer /\ j # i)
  BY DEF Moves
<1>4. LET s == u.socks[n + 1] IN
      /\ s.name \in {None, p} /\ s.at = "connecting" /\ ~ s.stay /\ ~ s.timer
      /\ s.sid = sid /\ s.old = sid
  BY DEF Moves
<1>5. /\ i # 0 => i \in 1 .. n /\ p = IF t.socks[i].name = None THEN Env ELSE t.socks[i].name
      /\ sid # 0 => t.place[p] # 0 /\ sid = t.socks[t.place[p]].sid
  BY DEF Moves
<1> HIDE DEF n
<1>6. /\ \A q, s \in Places : t.place[q] = t.place[s] /\ t.place[q] # 0 => q = s
      /\ \A j \in 1 .. n : t.socks[j].at \in {"connecting", "open"} => \E q \in Places : t.place[q] = j
  BY DEF Placed, AtPlaces, n
<1>7. \A j \in 1 .. n : LET s == t.socks[j] IN
         /\ s.old < j /\ s.sid \in {j, s.old} /\ (s.at = "connecting" => s.sid = s.old)
         /\ s.timer => s.at = "closed"
  BY DEF Placed, Older, n
<1>8. /\ \A q \in Places, j \in 1 .. n : t.place[q] # 0 => t.socks[j].old # t.place[q]
      /\ \A q, s \in Places :
             /\ t.place[q] # 0 /\ t.place[s] # 0 /\ t.socks[t.place[q]].old # 0
             /\ t.socks[t.place[q]].old = t.socks[t.place[s]].old
             => q = s
  BY DEF Placed, OldApart, n
<1>9. \A j \in 1 .. n : t.socks[j].old \in Nat /\ t.socks[j].sid \in Nat /\ t.socks[j].timer \in BOOLEAN
  BY Zenon, <1>1, FormedTypes, Numbers DEF SocketType, n
<1>10. sid <= n /\ sid \in Nat
  BY SMTT(30), <1>1, <1>5, <1>7, <1>9, Numbers
<1>11. AtPlaces(u)
  <2>1. ASSUME NEW q \in Places, NEW s \in Places, u.place[q] = u.place[s], u.place[q] # 0
        PROVE  q = s
    BY <1>1, <1>2, <1>6, <2>1
  <2>2. ASSUME NEW j \in 1 .. n + 1, u.socks[j].at \in {"connecting", "open"}
        PROVE  \E q \in Places : u.place[q] = j
    <3>1. CASE j = n + 1
      BY <1>1, <1>2, <3>1
    <3>2. CASE j \in 1 .. n
      <4>1. j # t.place[p] /\ t.socks[j].at = u.socks[j].at
        BY <1>3, <2>2, <3>2
      <4>2. PICK q \in Places : t.place[q] = j
        BY <1>6, <2>2, <3>2, <4>1
      <4> QED
        BY <1>2, <4>1, <4>2
    <3> QED
      BY <1>1, <3>1, <3>2
  <2> QED
    BY <1>1, <2>1, <2>2 DEF AtPlaces
<1>12. Older(u)
  <2> SUFFICES ASSUME NEW j \in 1 .. n + 1
               PROVE  LET s == u.socks[j] IN
                      /\ s.old < j /\ s.sid \in {j, s.old} /\ (s.at = "connecting" => s.sid = s.old)
                      /\ s.timer => s.at = "closed"
    BY <1>1 DEF Older
  <2>1. CASE j = n + 1
    BY <1>1, <1>4, <1>10, <2>1
  <2>2. CASE j \in 1 .. n
    BY ZenonT(40), <1>3, <1>7, <2>2
  <2> QED
    BY <1>1, <2>1, <2>2
<1>13. ASSUME NEW q \in Places, t.place[q] # 0, q # p, sid # 0
       PROVE  /\ sid # t.place[q]
              /\ sid # t.socks[t.place[q]].old
  <2>1. t.place[p] \in 1 .. n /\ t.place[q] \in 1 .. n /\ t.place[p] # t.place[q]
    BY <1>1, <1>5, <1>6, <1>13
  <2>2. sid = t.place[p] \/ sid = t.socks[t.place[p]].old
    BY <1>5, <1>7, <1>13, <2>1
  <2>3. t.socks[t.place[p]].old # t.place[q] /\ t.socks[t.place[q]].old # t.place[p]
    <3>1. t.place[p] # 0 /\ t.place[q] # 0 /\ p \in Places /\ q \in Places
      BY <1>1, <1>5, <1>13
    <3> QED
      BY <1>8, <2>1, <3>1
  <2>4. sid = t.socks[t.place[p]].old => sid # t.socks[t.place[q]].old
    BY <1>1, <1>5, <1>8, <1>13
  <2> QED
    BY <2>1, <2>2, <2>3, <2>4
<1>14. OldApart(u)
  <2>1. ASSUME NEW q \in Places, NEW j \in 1 .. n + 1, u.place[q] # 0
        PROVE  u.socks[j].old # u.place[q]
    <3>1. CASE j = n + 1 /\ q = p
      BY <1>1, <1>2, <1>4, <1>10, <3>1
    <3>2. CASE j = n + 1 /\ q # p
      BY <1>2, <1>4, <1>13, <2>1, <3>2
    <3>3. CASE j \in 1 .. n /\ q = p
      <4>1. u.socks[j].old = t.socks[j].old /\ t.socks[j].old < j
        BY <1>3, <1>7, <3>3
      <4> QED
        BY <1>1, <1>2, <1>9, <3>3, <4>1
    <3>4. CASE j \in 1 .. n /\ q # p
      BY <1>2, <1>3, <1>8, <2>1, <3>4
    <3> QED
      BY <1>1, <3>1, <3>2, <3>3, <3>4
  <2>2. ASSUME NEW q \in Places, u.place[q] # 0, q # p
        PROVE  t.place[q] # 0 /\ u.place[q] = t.place[q] /\ u.socks[u.place[q]].old = t.socks[t.place[q]].old
    BY <1>1, <1>2, <1>3, <2>2
  <2>3. u.place[p] = n + 1 /\ u.socks[u.place[p]].old = sid
    BY <1>1, <1>2, <1>4
  <2>4. ASSUME NEW q \in Places, NEW s \in Places, u.place[q] # 0, u.place[s] # 0,
               u.socks[u.place[q]].old # 0, u.socks[u.place[q]].old = u.socks[u.place[s]].old
        PROVE  q = s
    <3>1. CASE q = p /\ s # p
      BY <1>13, <2>2, <2>3, <2>4, <3>1
    <3>2. CASE q # p /\ s = p
      BY <1>13, <2>2, <2>3, <2>4, <3>2
    <3>3. CASE q # p /\ s # p
      BY <1>8, <2>2, <2>4, <3>3
    <3> QED
      BY <3>1, <3>2, <3>3
  <2> QED
    BY <1>1, <2>1, <2>4 DEF OldApart
<1>15. Tended(u, l)
  <2> SUFFICES ASSUME NEW q \in Places, u.place[q] # 0
               PROVE  LET s == u.socks[u.place[q]] IN
                      /\ s.at # "closing" /\ ~ s.stay /\ s.name \in {None, q}
                      /\ s.at = "closed" /\ (q = Env \/ q \notin l) => s.timer /\ (q = Env \/ s.name = q)
    BY DEF Tended
  <2>1. CASE q = p
    BY <1>1, <1>2, <1>4, <2>1
  <2>2. CASE q # p
    <3>1. PICK e : e = t.place[q]
      OBVIOUS
    <3>2. u.place[q] = e /\ e \in 1 .. n /\ e # t.place[p]
      BY <1>1, <1>2, <1>6, <2>2, <3>1
    <3>3. /\ u.socks[e].at = t.socks[e].at /\ u.socks[e].stay = t.socks[e].stay
          /\ u.socks[e].name = t.socks[e].name /\ u.socks[e].timer = (t.socks[e].timer /\ e # i)
      BY <1>3, <3>2
    <3>4. LET s == t.socks[e] IN
          /\ s.at # "closing" /\ ~ s.stay /\ s.name \in {None, q}
          /\ s.at = "closed" /\ (q = Env \/ q \notin l) => s.timer /\ (q = Env \/ s.name = q)
      BY <3>1, <3>2 DEF Placed, Tended
    <3>5. ASSUME t.socks[e].at = "closed", q = Env \/ q \notin l PROVE e # i
      <4> SUFFICES ASSUME e = i PROVE FALSE
        OBVIOUS
      <4>1. i # 0 /\ p = IF t.socks[e].name = None THEN Env ELSE t.socks[e].name
        BY <1>5, <3>2
      <4>2. q = Env \/ t.socks[e].name = q
        BY <3>4, <3>5
      <4>3. CASE t.socks[e].name = None
        <5>1. p = Env /\ q # Env /\ q = None
          BY <2>2, <4>1, <4>2, <4>3
        <5>2. q \in Tabs
          BY <5>1, Numbers
        <5> QED
          BY <5>1, <5>2, Numbers
      <4>4. CASE t.socks[e].name # None
        <5>1. t.socks[e].name = q
          BY <3>4, <4>4
        <5> QED
          BY <2>2, <4>1, <4>4, <5>1
      <4> QED
        BY <4>3, <4>4
    <3> QED
      BY Zenon, <3>2, <3>3, <3>4, <3>5
  <2> QED
    BY <2>1, <2>2
<1> QED
  BY <1>11, <1>12, <1>14, <1>15 DEF Placed

\* No websocket is opened, and those that close have a timer if they should.
Stays(t, u, l) ==
    /\ u.place = t.place /\ Len(u.socks) = Len(t.socks)
    /\ \A j \in 1 .. Len(t.socks) :
           LET a == t.socks[j]
               b == u.socks[j] IN
           /\ b.name = a.name /\ b.old = a.old /\ b.stay = a.stay /\ b.sid \in {a.sid, j}
           /\ b.at = "connecting" => a.at = "connecting" /\ b.sid = a.sid
           /\ b.at = "open" => a.at \in {"connecting", "open"}
           /\ b.at = "closing" => a.at = "closing"
           /\ b.timer => b.at = "closed"
           /\ b.at = "closed" =>
                  \/ a.at = "closed" /\ b.timer = a.timer
                  \/ b.timer = ~ a.stay /\ \A p \in Tabs : t.place[p] = j /\ a.name = None => p \in l

LEMMA StaysPlaced ==
    ASSUME NEW t, Formed(t), NEW l, Placed(t, l), NEW l2, l \subseteq l2, NEW u, Stays(t, u, l2)
    PROVE  Placed(u, l2)
<1>1. /\ \A q \in Places : t.place[q] # 0 => t.place[q] \in 1 .. Len(t.socks)
      /\ \A j \in 1 .. Len(t.socks) : t.socks[j].stay \in BOOLEAN
  BY FormedTypes DEF SocketType
<1>2. u.place = t.place /\ Len(u.socks) = Len(t.socks)
  BY DEF Stays
<1>3. AtPlaces(u)
  <2>1. ASSUME NEW j \in 1 .. Len(t.socks), u.socks[j].at \in {"connecting", "open"}
        PROVE  \E q \in Places : u.place[q] = j
    <3>1. t.socks[j].at \in {"connecting", "open"}
      BY <2>1 DEF Stays
    <3> QED
      BY <1>2, <3>1 DEF Placed, AtPlaces
  <2>2. \A p, q \in Places : u.place[p] = u.place[q] /\ u.place[p] # 0 => p = q
    BY <1>2 DEF Placed, AtPlaces
  <2> QED
    BY <1>2, <2>1, <2>2 DEF AtPlaces
<1>4. Older(u)
  <2> SUFFICES ASSUME NEW j \in 1 .. Len(t.socks)
               PROVE  LET s == u.socks[j] IN
                      /\ s.old < j /\ s.sid \in {j, s.old} /\ (s.at = "connecting" => s.sid = s.old)
                      /\ s.timer => s.at = "closed"
    BY <1>2 DEF Older
  <2>1. LET s == t.socks[j] IN
        /\ s.old < j /\ s.sid \in {j, s.old} /\ (s.at = "connecting" => s.sid = s.old)
    BY DEF Placed, Older
  <2>2. LET a == t.socks[j]
            b == u.socks[j] IN
        /\ b.old = a.old /\ b.sid \in {a.sid, j}
        /\ b.at = "connecting" => a.at = "connecting" /\ b.sid = a.sid
        /\ b.timer => b.at = "closed"
    BY DEF Stays
  <2> QED
    BY <2>1, <2>2
<1>5. OldApart(u)
  <2>1. \A j \in 1 .. Len(t.socks) : u.socks[j].old = t.socks[j].old
    BY DEF Stays
  <2>2. \A q \in Places : t.place[q] # 0 => u.socks[u.place[q]].old = t.socks[t.place[q]].old
    BY <1>1, <1>2, <2>1
  <2>3. \A p \in Places, i \in 1 .. Len(t.socks) : t.place[p] # 0 => u.socks[i].old # t.place[p]
    BY <2>1 DEF Placed, OldApart
  <2>4. ASSUME NEW p \in Places, NEW q \in Places, t.place[p] # 0, t.place[q] # 0,
               u.socks[u.place[p]].old # 0, u.socks[u.place[p]].old = u.socks[u.place[q]].old
        PROVE  p = q
    BY <2>2, <2>4 DEF Placed, OldApart
  <2> QED
    BY <1>2, <2>3, <2>4 DEF OldApart
<1>6. Tended(u, l2)
  <2> SUFFICES ASSUME NEW q \in Places, u.place[q] # 0
               PROVE  LET s == u.socks[u.place[q]] IN
                      /\ s.at # "closing" /\ ~ s.stay /\ s.name \in {None, q}
                      /\ s.at = "closed" /\ (q = Env \/ q \notin l2) => s.timer /\ (q = Env \/ s.name = q)
    BY DEF Tended
  <2>1. PICK e : e = t.place[q]
    OBVIOUS
  <2>2. u.place[q] = e /\ e \in 1 .. Len(t.socks)
    BY <1>1, <1>2, <2>1
  <2>3. LET s == t.socks[e] IN
        /\ s.at # "closing" /\ ~ s.stay /\ s.name \in {None, q}
        /\ s.at = "closed" /\ (q = Env \/ q \notin l) => s.timer /\ (q = Env \/ s.name = q)
    BY <1>2, <2>1, <2>2 DEF Placed, Tended
  <2>4. LET a == t.socks[e]
            b == u.socks[e] IN
        /\ b.name = a.name /\ b.stay = a.stay
        /\ b.at = "closing" => a.at = "closing"
        /\ b.at = "closed" =>
               \/ a.at = "closed" /\ b.timer = a.timer
               \/ b.timer = ~ a.stay /\ \A p \in Tabs : t.place[p] = e /\ a.name = None => p \in l2
    BY <2>2 DEF Stays
  <2>5. q = Env \/ q \in Tabs
    BY Numbers
  <2> QED
    BY Zenon, <2>1, <2>2, <2>3, <2>4, <2>5
<1> QED
  BY <1>3, <1>4, <1>5, <1>6 DEF Placed

LEMMA SameStays ==
    ASSUME NEW t, Formed(t), NEW l, Placed(t, l), NEW u, u.place = t.place, Len(u.socks) = Len(t.socks),
           \A j \in 1 .. Len(t.socks) :
               LET a == t.socks[j]
                   b == u.socks[j] IN
               /\ b.name = a.name /\ b.at = a.at /\ b.stay = a.stay /\ b.timer = a.timer
               /\ b.old = a.old /\ (b.sid = a.sid \/ (b.sid = j /\ a.at # "connecting")),
           NEW l2, l \subseteq l2
    PROVE  Placed(u, l2)
<1>1. \A j \in 1 .. Len(t.socks) :
         /\ t.socks[j].timer => t.socks[j].at = "closed"
         /\ t.socks[j].at \in {"connecting", "open", "closing", "closed"}
  BY Zenon, FormedTypes DEF Placed, Older, SocketType
<1>2. Stays(t, u, l2)
  BY <1>1 DEF Stays
<1> QED
  BY <1>2, StaysPlaced

LEMMA PlacedInit ==
    ASSUME CallsInit
    PROVE  Placed(tab, left)
<1>1. PICK s : s = Socket(None, 0)
  OBVIOUS
<1>2. /\ s.name = None /\ s.at = "connecting" /\ ~ s.stay /\ ~ s.timer /\ s.sid = 0 /\ s.old = 0
  BY <1>1, NewSocket, Numbers
<1>3. PICK t : t = tab
  OBVIOUS
<1>4. t.socks = <<s>> /\ t.place = [p \in Places |-> IF p = Env THEN 1 ELSE 0]
  BY <1>1, <1>3 DEF CallsInit
<1>5. Len(t.socks) = 1 /\ t.socks[1] = s /\ \A i \in 1 .. 1 : i = 1
  BY <1>4
<1>6. \A p \in Places : t.place[p] = (IF p = Env THEN 1 ELSE 0)
  BY <1>4
<1>7. AtPlaces(t)
  <2>1. \A p, q \in Places : t.place[p] = t.place[q] /\ t.place[p] # 0 => p = q
    BY <1>6
  <2>2. \E p \in Places : t.place[p] = 1
    BY <1>6, Numbers
  <2> QED
    BY <1>5, <2>1, <2>2 DEF AtPlaces
<1>8. Older(t)
  BY <1>2, <1>5 DEF Older
<1>9. OldApart(t)
  BY <1>2, <1>5, <1>6 DEF OldApart
<1>10. Tended(t, left)
  BY <1>2, <1>5, <1>6 DEF Tended
<1> QED
  BY <1>3, <1>7, <1>8, <1>9, <1>10 DEF Placed

LEMMA ReopensPlaced ==
    ASSUME NEW t, Formed(t), NEW u, Reopens(t, u), NEW l, Placed(t, l)
    PROVE  Placed(u, l)
  BY ReopensMoves, MovesPlaced

LEMMA RequestingPlaced ==
    ASSUME NEW t, NEW u, NEW calls, Requesting(t, u, calls), NEW l, Placed(t, l), NEW l2, l \subseteq l2
    PROVE  Placed(u, l) /\ Placed(tab', l2)
<1>1. PICK r : r = tab'
  OBVIOUS
<1>2. Formed(t) /\ Reopens(t, u) /\ Formed(u) /\ Makes(u, calls, r)
  BY <1>1 DEF Requesting
<1>3. Placed(u, l)
  BY <1>2, ReopensPlaced
<1>4. r.place = u.place /\ Len(r.socks) = Len(u.socks)
  BY <1>2 DEF Makes, SameSockets
<1>5. \A j \in 1 .. Len(u.socks) :
         LET a == u.socks[j]
             b == r.socks[j] IN
         /\ b.name = a.name /\ b.at = a.at /\ b.stay = a.stay /\ b.timer = a.timer
         /\ b.old = a.old /\ (b.sid = a.sid \/ (b.sid = j /\ a.at # "connecting"))
  BY <1>2, MakesSockets
<1>6. Placed(r, l2)
  BY <1>2, <1>3, <1>4, <1>5, SameStays
<1> QED
  BY <1>1, <1>3, <1>6

LEMMA ResumesPlaced ==
    ASSUME NEW t, Formed(t), NEW X, NEW i \in 1 .. Len(t.socks), t.socks[i].at = "open",
           NEW r, Resumes(t, X, i, r), NEW l, Placed(t, l)
    PROVE  Placed(r, l)
<1>1. r.place = t.place /\ Len(r.socks) = Len(t.socks)
  BY DEF Resumes
<1>2. Knows(t, i, r)
  BY ResumesSockets
<1>3. \A j \in 1 .. Len(t.socks) :
         LET a == t.socks[j]
             b == r.socks[j] IN
         /\ b.name = a.name /\ b.at = a.at /\ b.stay = a.stay /\ b.timer = a.timer
         /\ b.old = a.old /\ (b.sid = a.sid \/ (b.sid = j /\ a.at # "connecting"))
  <2> SUFFICES ASSUME NEW j \in 1 .. Len(t.socks)
               PROVE  LET a == t.socks[j]
                          b == r.socks[j] IN
                      /\ b.name = a.name /\ b.at = a.at /\ b.stay = a.stay /\ b.timer = a.timer
                      /\ b.old = a.old /\ (b.sid = a.sid \/ (b.sid = j /\ a.at # "connecting"))
    OBVIOUS
  <2>1. r.socks[j].sid = IF j = i THEN i ELSE t.socks[j].sid
    BY <1>2 DEF Knows
  <2>2. LET a == t.socks[j]
            b == r.socks[j] IN
        /\ b.name = a.name /\ b.at = a.at /\ b.stay = a.stay /\ b.timer = a.timer
        /\ b.old = a.old
    BY <1>2 DEF Knows
  <2> QED
    BY <2>1, <2>2
<1> QED
  BY <1>1, <1>3, SameStays

LEMMA TurnsPlaced ==
    ASSUME NEW t, Formed(t), NEW i \in 1 .. Len(t.socks), NEW at, NEW up, NEW timer, NEW r,
           Turns(t, i, at, up, timer, r),
           \/ at = "open" /\ t.socks[i].at \in {"connecting", "open"} /\ timer = t.socks[i].timer
           \/ at = "closed" /\ timer = ~ t.socks[i].stay,
           NEW l, Placed(t, l), NEW l2, l \subseteq l2,
           at = "closed" => \A p \in Tabs : t.place[p] = i /\ t.socks[i].name = None => p \in l2
    PROVE  Placed(r, l2)
<1>1. \A j \in 1 .. Len(t.socks) :
         /\ t.socks[j].timer => t.socks[j].at = "closed"
         /\ t.socks[j].at \in {"connecting", "open", "closing", "closed"}
  BY FormedTypes DEF Placed, Older, SocketType
<1>2. r.place = t.place /\ Len(r.socks) = Len(t.socks)
  BY DEF Turns
<1>3. ASSUME NEW j \in 1 .. Len(t.socks)
      PROVE  LET a == t.socks[j]
                 b == r.socks[j] IN
             /\ b.name = a.name /\ b.old = a.old /\ b.stay = a.stay /\ b.sid \in {a.sid, j}
             /\ b.at = "connecting" => a.at = "connecting" /\ b.sid = a.sid
             /\ b.at = "open" => a.at \in {"connecting", "open"}
             /\ b.at = "closing" => a.at = "closing"
             /\ b.timer => b.at = "closed"
             /\ b.at = "closed" =>
                    \/ a.at = "closed" /\ b.timer = a.timer
                    \/ b.timer = ~ a.stay /\ \A p \in Tabs : t.place[p] = j /\ a.name = None => p \in l2
  <2>1. LET a == t.socks[j]
            b == r.socks[j] IN
        /\ b.name = a.name /\ b.sid = a.sid /\ b.old = a.old /\ b.stay = a.stay
        /\ b.at = IF j = i THEN at ELSE a.at
        /\ b.timer = IF j = i THEN timer ELSE a.timer
    BY DEF Turns
  <2>2. CASE j = i
    BY <1>1, <2>1, <2>2
  <2>3. CASE j # i
    BY <1>1, <2>1, <2>3
  <2> QED
    BY <2>2, <2>3
<1>4. Stays(t, r, l2)
  BY <1>2, <1>3 DEF Stays
<1> QED
  BY <1>4, StaysPlaced

LEMMA PlacedNext ==
    ASSUME Typed, Placed(tab, left), [CallsNext]_cvars
    PROVE  Placed(tab, left)'
<1>1. /\ Formed(tab) /\ Listed(tab, <<>>) /\ Named(tab) /\ Sessions(server, Len(tab.calls))
  BY DEF Typed
<1> SUFFICES Placed(tab', left')
  BY DEF Placed, AtPlaces, Older, OldApart, Tended
<1>2. PICK r, l2 : r = tab' /\ l2 = left'
  OBVIOUS
<1>3. ASSUME NEW p \in Places, OpenPlace(p) PROVE Placed(r, l2)
  <2>1. Moves(tab, p, 0, 0, r) /\ l2 = left
    BY <1>1, <1>2, <1>3, OpenPlaceMoves DEF OpenPlace
  <2> QED
    BY <2>1, MovesPlaced
<1>4. ASSUME NEW p \in Places, Call(p) PROVE Placed(r, l2)
  <2>1. PICK t, u : Adds(tab, p, t) /\ Requesting(t, u, <<Len(tab.calls) + 1>>)
    BY <1>1, <1>4, CallRequests
  <2>2. t.place = tab.place /\ t.socks = tab.socks
    BY <2>1 DEF Adds
  <2>3. Placed(t, left)
    BY <2>2 DEF Placed, AtPlaces, Older, OldApart, Tended
  <2>4. left \subseteq l2
    BY <1>2, <1>4 DEF Call, LeavesEnv
  <2>5. PICK calls : calls = <<Len(tab.calls) + 1>>
    BY Zenon
  <2> QED
    BY <1>2, <2>1, <2>3, <2>4, <2>5, RequestingPlaced
<1>5. ASSUME NEW i \in Socks, SessionArrives(i) PROVE Placed(r, l2)
  <2>1. PICK X : X = Unfinished(i)
    OBVIOUS
  <2>2. PICK t, u : Resumes(tab, X, i, t) /\ Requesting(t, u, tab.waiting)
    BY <1>1, <1>5, <2>1, ArrivalRequests
  <2>3. i \in 1 .. Len(tab.socks) /\ tab.socks[i].at = "open"
    BY <1>5 DEF SessionArrives, Is
  <2>4. Placed(t, left)
    BY <1>1, <2>2, <2>3, ResumesPlaced
  <2>5. left \subseteq l2
    BY <1>2, <1>5 DEF SessionArrives, LeavesEnv
  <2>6. PICK calls : calls = tab.waiting
    OBVIOUS
  <2> QED
    BY <1>2, <2>2, <2>4, <2>5, <2>6, RequestingPlaced
<1>6. ASSUME NEW i \in Socks, Timer(i) PROVE Placed(r, l2)
  <2>1. PICK p, sid : Moves(tab, p, i, sid, r)
    BY <1>1, <1>2, <1>6, TimerMoves
  <2>2. tab.socks[i].timer /\ l2 = left
    BY Zenon, <1>2, <1>6 DEF Timer
  <2> QED
    BY <2>1, <2>2, MovesPlaced
<1>7. ASSUME NEW i \in Socks, Handshake(i) PROVE Placed(r, l2)
  <2>1. PICK up, timer : up = tab.socks[i].up /\ timer = tab.socks[i].timer
    OBVIOUS
  <2>2. i \in 1 .. Len(tab.socks) /\ tab.socks[i].at = "connecting" /\ Turns(tab, i, "open", up, timer, r)
    BY <1>1, <1>2, <1>7, <2>1, HandshakeTurns
  <2>3. left \subseteq l2
    BY <1>2, <1>7 DEF Handshake
  <2> QED
    BY <1>1, <2>1, <2>2, <2>3, TurnsPlaced
<1>8. ASSUME NEW i \in Socks, ReadFrame(i) PROVE Placed(r, l2)
  <2>1. PICK up, timer : up = Tail(tab.socks[i].up) /\ timer = tab.socks[i].timer
    BY Zenon
  <2>2. i \in 1 .. Len(tab.socks) /\ tab.socks[i].at = "open" /\ Turns(tab, i, "open", up, timer, r)
    BY <1>1, <1>2, <1>8, <2>1, ReadTurns
  <2>3. l2 = left
    BY <1>2, <1>8 DEF ReadFrame
  <2> QED
    BY <1>1, <2>1, <2>2, <2>3, TurnsPlaced
<1>9. ASSUME NEW i \in Socks, Closes(i) PROVE Placed(r, l2)
  <2>1. PICK up, timer : up = <<>> /\ timer = ~ tab.socks[i].stay
    OBVIOUS
  <2>2. i \in 1 .. Len(tab.socks) /\ Turns(tab, i, "closed", up, timer, r)
    BY <1>1, <1>2, <1>9, <2>1, ClosesTurns
  <2>3. /\ left \subseteq l2
        /\ \A p \in Tabs : tab.place[p] = i /\ tab.socks[i].name = None => p \in l2
    BY <1>2, <1>9 DEF Closes
  <2> QED
    BY <1>1, <2>1, <2>2, <2>3, TurnsPlaced
<1>10. ASSUME r.socks = tab.socks, r.place = tab.place, l2 = left PROVE Placed(r, l2)
  BY <1>10 DEF Placed, AtPlaces, Older, OldApart, Tended
<1>11. ASSUME NEW i \in Socks, Answer(i) PROVE Placed(r, l2)
  <2>1. PICK timer : timer = tab.socks[i].timer
    OBVIOUS
  <2>2. PICK u, up : Turns(tab, i, "open", up, timer, u) /\ Replies(u, Head(server[i].work), r)
    <3>1. PICK u, up : Turns(tab, i, "open", up, tab.socks[i].timer, u) /\ Replies(u, Head(server[i].work), r)
      BY <1>1, <1>2, <1>11, AnswerDoes
    <3> QED
      BY <2>1, <3>1
  <2>3. i \in 1 .. Len(tab.socks) /\ tab.socks[i].at = "open" /\ l2 = left
    BY <1>1, <1>2, <1>11, AnswerHas
  <2>4. Placed(u, l2)
    BY <1>1, <2>1, <2>2, <2>3, TurnsPlaced
  <2> QED
    BY <2>2, <2>4 DEF Replies, Placed, AtPlaces, Older, OldApart, Tended
<1>12. ASSUME NEW i \in Socks, WindowPasses(i) PROVE Placed(r, l2)
  BY <1>2, <1>10, <1>12 DEF WindowPasses
<1>13. CASE UNCHANGED cvars
  BY <1>2, <1>10, <1>13 DEF cvars
<1>14. CASE CallsNext
  BY <1>2, <1>3, <1>4, <1>5, <1>6, <1>7, <1>8, <1>9, <1>11, <1>12, <1>14
     DEF CallsNext, Progress, Close, Drop
<1> QED
  BY <1>2, <1>13, <1>14

-----------------------------------------------------------------------------
(* A call is given to one session, once.                                   *)

LEMMA CarriesIs ==
    ASSUME NEW t, Formed(t), NEW i, NEW m, NEW c, Carries(t, i, m, c)
    PROVE  /\ i \in 1 .. Len(t.socks) /\ m \in 1 .. Len(t.socks[i].up) /\ m \in Nat
           /\ t.socks[i].up \in Seq(FrameType) /\ t.socks[i].up[m] = [kind |-> "call", c |-> c]
           /\ c \in 1 .. Len(t.calls)
<1>1. /\ i \in 1 .. Len(t.socks) /\ t.socks[i].up \in Seq(FrameType) /\ m \in 1 .. Len(t.socks[i].up)
      /\ t.socks[i].up[m].kind = "call" /\ t.socks[i].up[m].c = c
  BY FormedTypes DEF Carries, SocketType
<1>2. t.socks[i].up[m] \in FrameType
  BY <1>1
<1>3. t.socks[i].up[m] = [kind |-> "call", c |-> c]
  BY <1>1, <1>2 DEF FrameType
<1> QED
  BY <1>1, <1>3 DEF Formed

LEMMA WorksIs ==
    ASSUME NEW sv, NEW k, Sessions(sv, k), NEW j, NEW n, NEW c, Works(sv, j, n, c)
    PROVE  /\ j \in Socks /\ sv[j].work \in Seq(CallIds) /\ n \in 1 .. Len(sv[j].work) /\ n \in Nat
           /\ sv[j].work[n] = c /\ c \in 1 .. k
  BY DEF Works, Sessions, SessionType

\* Nothing more is on its way or in a session than before.
LEMMA FewerOnce ==
    ASSUME NEW t, NEW sv, Formed(t), Sessions(sv, Len(t.calls)), Once(t, sv), NEW u, NEW sv2,
           \A i, m, c : Carries(u, i, m, c) => Carries(t, i, m, c),
           \A j, n, c : Works(sv2, j, n, c) => Works(sv, j, n, c),
           \A c \in 1 .. Len(t.calls) : t.calls[c].at \in {"sent", "answered"} => u.calls[c].at = t.calls[c].at
    PROVE  Once(u, sv2)
<1>1. \A i, m, c : Carries(t, i, m, c) => c \in 1 .. Len(t.calls)
  BY Zenon, CarriesIs
<1>2. \A j, n, c : Works(sv, j, n, c) => c \in 1 .. Len(t.calls)
  BY WorksIs
<1> QED
  BY <1>1, <1>2 DEF Once, AtWork

LEMMA MovesOnce ==
    ASSUME NEW t, NEW u, NEW p, NEW i, NEW sid, Moves(t, p, i, sid, u), NEW sv, Sessions(sv, Len(t.calls)), Once(t, sv)
    PROVE  Once(u, sv)
<1>1. Formed(t) /\ Formed(u) /\ u.calls = t.calls /\ Len(u.socks) = Len(t.socks) + 1 /\ Len(t.socks) \in Nat
  BY FormedTypes DEF Moves
<1>2. \A j \in 1 .. Len(t.socks) : u.socks[j].up = t.socks[j].up
  BY DEF Moves
<1>3. u.socks[Len(t.socks) + 1].up = <<>>
  BY DEF Moves
<1>4. ASSUME NEW j, NEW m, NEW c, Carries(u, j, m, c) PROVE Carries(t, j, m, c)
  <2>1. j \in 1 .. Len(u.socks) /\ m \in 1 .. Len(u.socks[j].up)
    BY <1>4 DEF Carries
  <2>2. CASE j \in 1 .. Len(t.socks)
    BY Zenon, <1>2, <1>4, <2>2 DEF Carries
  <2>3. CASE j = Len(t.socks) + 1
    <3>1. Len(u.socks[j].up) = 0
      BY <1>3, <2>3
    <3> QED
      BY <2>1, <3>1
  <2> QED
    BY <1>1, <2>1, <2>2, <2>3
<1> QED
  BY <1>1, <1>4, FewerOnce

\* Frame m on its way from websocket i is of the call c that has just been made.
Sends(u, calls, r, i, m, c) ==
    LET k == Kept(calls, {d \in RangeOf(calls) : r.calls[d].at = "sent" /\ r.calls[d].to = i}) IN
    /\ i \in 1 .. Len(u.socks) /\ m - Len(u.socks[i].up) \in 1 .. Len(k) /\ m \in Nat
    /\ c = k[m - Len(u.socks[i].up)] /\ NoTwice(k) /\ k \in Seq(1 .. Len(u.calls))
    /\ c \in RangeOf(calls) /\ r.calls[c].at = "sent" /\ r.calls[c].to = i
    /\ c \in 1 .. Len(u.calls) /\ u.calls[c].at = "waiting"

LEMMA MakesCarries ==
    ASSUME NEW u, Formed(u), NEW calls \in Seq(1 .. Len(u.calls)), Listed(u, calls),
           NEW r, Formed(r), Makes(u, calls, r), NEW i, NEW m, NEW c, Carries(r, i, m, c)
    PROVE  Carries(u, i, m, c) \/ Sends(u, calls, r, i, m, c)
<1>1. PICK W : W = {d \in RangeOf(calls) : r.calls[d].at = "sent" /\ r.calls[d].to = i}
  BY Zenon
<1>2. PICK k : k = Kept(calls, W)
  OBVIOUS
<1>3. PICK a : a = u.socks[i].up
  OBVIOUS
<1>4. PICK f : f = Frames("call", k)
  OBVIOUS
<1>5. Len(r.socks) = Len(u.socks) /\ i \in 1 .. Len(u.socks)
  BY DEF Makes, SameSockets, Carries
<1>6. r.socks[i].up = a \o f
  BY Zenon, <1>1, <1>2, <1>3, <1>4, <1>5 DEF Makes
<1>7. /\ a \in Seq(FrameType) /\ Len(u.calls) \in Nat /\ Len(u.calls) <= MaxCalls
  BY Zenon, <1>3, <1>5, FormedTypes DEF SocketType, Formed
<1>8. \A x, y \in 1 .. Len(calls) : calls[x] = calls[y] => x = y
  BY DEF Listed, NoTwice
<1>9. /\ k \in Seq(1 .. Len(u.calls)) /\ NoTwice(k)
      /\ \A x : x \in RangeOf(k) <=> x \in RangeOf(calls) /\ x \in W
  <2>1. \A x : x \in RangeOf(k) <=> x \in RangeOf(calls) /\ x \in W
    BY <1>2, KeptProperties
  <2>2. k \in Seq(1 .. Len(u.calls)) /\ NoTwice(k)
    BY <1>2, <1>8, KeptProperties DEF NoTwice
  <2> QED
    BY <2>1, <2>2
<1>10. /\ f \in Seq(FrameType) /\ Len(f) = Len(k)
       /\ \A n \in 1 .. Len(k) : f[n] = [kind |-> "call", c |-> k[n]] /\ k[n] \in 1 .. Len(u.calls)
  BY <1>4, <1>7, <1>9, FramesAre
<1>11. m \in 1 .. Len(a \o f) /\ (a \o f)[m].kind = "call" /\ (a \o f)[m].c = c
  BY <1>6 DEF Carries
<1>12. \/ m \in 1 .. Len(a) /\ (a \o f)[m] = a[m]
       \/ m - Len(a) \in 1 .. Len(f) /\ (a \o f)[m] = f[m - Len(a)]
  BY <1>7, <1>10, <1>11, ConcatAt
<1>13. CASE m \in 1 .. Len(a) /\ (a \o f)[m] = a[m]
  <2>1. Carries(u, i, m, c)
    BY <1>3, <1>5, <1>11, <1>13 DEF Carries
  <2> QED
    BY <2>1
<1>14. CASE m - Len(a) \in 1 .. Len(f) /\ (a \o f)[m] = f[m - Len(a)]
  <2>1. PICK n : n = m - Len(a)
    OBVIOUS
  <2>2. n \in 1 .. Len(k) /\ (a \o f)[m] = f[n]
    BY <1>10, <1>14, <2>1
  <2>3. f[n] = [kind |-> "call", c |-> k[n]] /\ k[n] \in 1 .. Len(u.calls)
    BY <1>10, <2>2
  <2>4. c = k[n]
    BY <1>11, <2>2, <2>3
  <2>5. c \in RangeOf(k)
    BY <2>2, <2>4 DEF RangeOf
  <2>6. c \in RangeOf(calls) /\ r.calls[c].at = "sent" /\ r.calls[c].to = i
    BY <1>1, <1>9, <2>5
  <2>7. c \in 1 .. Len(u.calls) /\ u.calls[c].at = "waiting"
    BY <2>3, <2>4, <2>6 DEF Listed
  <2>8. m \in Nat
    BY <1>7, <1>10, <1>11, ConcatAt
  <2> QED
    BY Zenon, <1>1, <1>2, <1>3, <1>5, <1>9, <2>1, <2>2, <2>4, <2>6, <2>7, <2>8 DEF Sends
<1> QED
  BY Zenon, <1>12, <1>13, <1>14

LEMMA MakesOnce ==
    ASSUME NEW u, Formed(u), NEW calls \in Seq(1 .. Len(u.calls)), Listed(u, calls),
           NEW r, Formed(r), Makes(u, calls, r), NEW sv, Sessions(sv, Len(u.calls)), Once(u, sv)
    PROVE  Once(r, sv)
\* one that was sent before is not made again
<1>1. ASSUME NEW c \in 1 .. Len(u.calls), u.calls[c].at \in {"sent", "answered"}
      PROVE  r.calls[c] = u.calls[c]
  <2>1. c \notin RangeOf(calls)
    BY <1>1 DEF Listed
  <2> QED
    BY <2>1 DEF Makes
<1>2. \A i, m, c : Carries(u, i, m, c) => c \in 1 .. Len(u.calls) /\ u.calls[c].at = "sent"
  BY Zenon, CarriesIs DEF Once
<1>3. \A j, n, c : Works(sv, j, n, c) => c \in 1 .. Len(u.calls) /\ AtWork(u, n, c)
  BY WorksIs DEF Once
<1> DEFINE New(i, m, c) == Sends(u, calls, r, i, m, c)
<1>4. ASSUME NEW i, NEW m, NEW c, Carries(r, i, m, c) PROVE Carries(u, i, m, c) \/ New(i, m, c)
  BY <1>4, MakesCarries
<1>5. ASSUME NEW i, NEW m, NEW c, New(i, m, c)
      PROVE  r.calls[c].at = "sent" /\ r.calls[c].to = i /\ c \in 1 .. Len(u.calls) /\ u.calls[c].at = "waiting"
  BY Zenon, <1>5 DEF Sends
<1>6. ASSUME NEW i, NEW m, NEW n, NEW c, New(i, m, c), New(i, n, c) PROVE m = n
  <2>1. PICK k : k = Kept(calls, {d \in RangeOf(calls) : r.calls[d].at = "sent" /\ r.calls[d].to = i})
    BY Zenon
  <2>2. PICK l : l = Len(u.socks[i].up)
    BY Zenon
  <2>3. /\ m - l \in 1 .. Len(k) /\ n - l \in 1 .. Len(k) /\ m \in Nat /\ n \in Nat
        /\ k[m - l] = k[n - l] /\ NoTwice(k) /\ i \in 1 .. Len(u.socks)
    BY Zenon, <1>6, <2>1, <2>2 DEF Sends
  <2>4. l \in Nat
    <3>1. u.socks[i].up \in Seq(FrameType)
      BY Zenon, <2>3, FormedTypes DEF SocketType
    <3> QED
      BY <2>2, <3>1
  <2>5. m - l = n - l
    BY <2>3 DEF NoTwice
  <2> QED
    BY <2>3, <2>4, <2>5
<1> HIDE DEF New
<1>7. ASSUME NEW i, NEW m, NEW c, Carries(r, i, m, c) PROVE r.calls[c].at = "sent"
  BY <1>1, <1>2, <1>4, <1>5, <1>7
<1>8. ASSUME NEW i, NEW j, NEW m, NEW n, NEW c, Carries(r, i, m, c), Carries(r, j, n, c)
      PROVE  i = j /\ m = n
  <2>1. CASE Carries(u, i, m, c)
    <3>1. u.calls[c].at = "sent"
      BY <1>2, <2>1
    <3>2. Carries(u, j, n, c)
      BY <1>4, <1>5, <1>8, <3>1
    <3> QED
      BY <2>1, <3>2 DEF Once
  <2>2. CASE New(i, m, c)
    <3>1. New(j, n, c)
      BY <1>2, <1>4, <1>5, <1>8, <2>2
    <3>2. i = j
      BY <1>5, <2>2, <3>1
    <3> QED
      BY <1>6, <2>2, <3>1, <3>2
  <2> QED
    BY <1>4, <1>8, <2>1, <2>2
<1>9. ASSUME NEW j, NEW n, NEW c, Works(sv, j, n, c)
      PROVE  AtWork(r, n, c) /\ \A i, m : ~ Carries(r, i, m, c)
  <2>0. AtWork(u, n, c)
    BY <1>3, <1>9
  <2>1. c \in 1 .. Len(u.calls) /\ u.calls[c].at \in {"sent", "answered"}
    BY <1>3, <1>9 DEF AtWork
  <2>2. \A i, m : ~ Carries(u, i, m, c)
    BY <1>9 DEF Once
  <2>3. r.calls[c] = u.calls[c] /\ u.calls[c].at # "waiting"
    BY <1>1, <2>1
  <2>4. AtWork(r, n, c)
    BY <2>0, <2>3 DEF AtWork
  <2>5. ASSUME NEW i, NEW m, Carries(r, i, m, c) PROVE FALSE
    <3>1. New(i, m, c)
      BY <1>4, <2>2, <2>5
    <3> QED
      BY <1>5, <2>3, <3>1
  <2> QED
    BY <2>4, <2>5
<1>10. \A i, j, m, n, c : Works(sv, i, m, c) /\ Works(sv, j, n, c) => i = j /\ m = n
  BY DEF Once
<1> QED
  BY <1>7, <1>8, <1>9, <1>10 DEF Once

\* The requests of the calls on their way are those of before.
LEMMA ResumesCarries ==
    ASSUME NEW t, Formed(t), NEW X, NEW i \in 1 .. Len(t.socks), NEW r, Resumes(t, X, i, r)
    PROVE  \A j, m, c : Carries(r, j, m, c) => Carries(t, j, m, c)
<1>1. PICK a, f, k : a = t.socks[i].up /\ k = Kept(Count(Len(t.calls)), X) /\ f = Frames("from", k)
  OBVIOUS
<1>2. a \in Seq(FrameType) /\ Len(t.calls) \in Nat /\ Len(t.calls) <= MaxCalls
  BY <1>1, FormedTypes DEF SocketType, Formed
<1>3. k \in Seq(1 .. Len(t.calls))
  <2>1. Count(Len(t.calls)) \in Seq(1 .. Len(t.calls))
    BY <1>2 DEF Count
  <2> QED
    BY <1>1, <2>1, KeptProperties
<1>4. /\ f \in Seq(FrameType) /\ Len(f) = Len(k)
      /\ \A n \in 1 .. Len(k) : f[n] = [kind |-> "from", c |-> k[n]] /\ k[n] \in 1 .. Len(t.calls)
  BY <1>1, <1>2, <1>3, FramesAre
<1>5. r.socks[i].up = a \o f /\ Len(r.socks) = Len(t.socks)
  BY <1>1 DEF Resumes
<1>6. ASSUME NEW j, NEW m, NEW c, Carries(r, j, m, c) PROVE Carries(t, j, m, c)
  <2>1. CASE j # i
    <3>1. j \in 1 .. Len(t.socks) /\ r.socks[j] = t.socks[j]
      BY <1>6, <2>1 DEF Resumes, Carries
    <3> QED
      BY <1>6, <3>1 DEF Carries
  <2>2. CASE j = i
    <3>1. m \in 1 .. Len(a \o f) /\ (a \o f)[m].kind = "call" /\ (a \o f)[m].c = c
      BY Zenon, <1>5, <1>6, <2>2 DEF Carries
    <3>2. \/ m \in 1 .. Len(a) /\ (a \o f)[m] = a[m]
          \/ m - Len(a) \in 1 .. Len(f) /\ (a \o f)[m] = f[m - Len(a)]
      BY <1>2, <1>4, <3>1, ConcatAt
    <3>3. ASSUME m - Len(a) \in 1 .. Len(f), (a \o f)[m] = f[m - Len(a)] PROVE FALSE
      <4>1. PICK n : n = m - Len(a)
        OBVIOUS
      <4>2. n \in 1 .. Len(k) /\ (a \o f)[m] = f[n]
        BY <1>4, <3>3, <4>1
      <4>3. f[n] = [kind |-> "from", c |-> k[n]]
        BY <1>4, <4>2
      <4>4. f[n].kind = "from"
        BY <4>3
      <4> QED
        BY <3>1, <4>2, <4>4
    <3> QED
      BY <1>1, <2>2, <3>1, <3>2, <3>3 DEF Carries
  <2> QED
    BY <2>1, <2>2
<1> QED
  BY <1>6

LEMMA ResumesOnce ==
    ASSUME NEW t, Formed(t), NEW X, NEW i \in 1 .. Len(t.socks), NEW r, Resumes(t, X, i, r),
           NEW sv, Sessions(sv, Len(t.calls)), Once(t, sv)
    PROVE  Once(r, sv)
<1>1. \A j, m, c : Carries(r, j, m, c) => Carries(t, j, m, c)
  BY ResumesCarries
<1>2. ASSUME NEW c \in 1 .. Len(t.calls) PROVE r.calls[c].at = t.calls[c].at
  <2>1. t.calls[c] \in CallType
    BY FormedTypes
  <2>2. r.calls[c] = IF c \in X THEN [t.calls[c] EXCEPT !.session = i] ELSE t.calls[c]
    BY DEF Resumes
  <2>3. CASE c \in X
    BY <1>2, <2>1, <2>2, <2>3 DEF CallType
  <2> QED
    BY <1>2, <2>2, <2>3
<1> QED
  BY <1>1, <1>2, FewerOnce

LEMMA TurnsCarries ==
    ASSUME NEW t, NEW i, NEW at, NEW up, NEW timer, NEW r, Turns(t, i, at, up, timer, r),
           Formed(t), i \in 1 .. Len(t.socks), up = t.socks[i].up \/ up = <<>> \/ Confirming(t, i, up)
    PROVE  \A j, m, c : Carries(r, j, m, c) => Carries(t, j, m, c)
<1> SUFFICES ASSUME NEW j, NEW m, NEW c, Carries(r, j, m, c) PROVE Carries(t, j, m, c)
  OBVIOUS
<1>1. j \in 1 .. Len(t.socks) /\ r.socks[j].up = IF j = i THEN up ELSE t.socks[j].up
  BY DEF Turns, Carries
<1>2. j = i => up # <<>>
  <2> SUFFICES ASSUME j = i, up = <<>> PROVE FALSE
    OBVIOUS
  <2>1. Len(r.socks[j].up) = 0
    BY <1>1
  <2> QED
    BY <2>1 DEF Carries
<1>3. CASE j = i /\ Confirming(t, i, up)
  <2>1. PICK a, f : a = t.socks[i].up /\ f = up[Len(a) + 1] /\ up = Append(a, f) /\ f.kind = "confirm"
    BY <1>3 DEF Confirming
  <2>2. a \in Seq(FrameType)
    BY <2>1, FormedTypes DEF SocketType
  <2>3. m \in 1 .. Len(Append(a, f)) /\ Append(a, f)[m].kind = "call" /\ Append(a, f)[m].c = c
    BY Zenon, <1>1, <1>3, <2>1 DEF Carries
  <2>4. \/ m \in 1 .. Len(a) /\ Append(a, f)[m] = a[m]
        \/ m = Len(a) + 1 /\ Append(a, f)[m] = f
    <3>1. PICK S : a \in Seq(S) /\ f \in S
      <4>1. a \in Seq(FrameType \cup {f}) /\ f \in FrameType \cup {f}
        BY <2>2
      <4> QED
        BY <4>1
    <3> QED
      BY <2>3, <3>1, AppendAt
  <2>5. "confirm" # "call"
    OBVIOUS
  <2> QED
    BY Zenon, <1>1, <1>3, <2>1, <2>3, <2>4, <2>5 DEF Carries
<1> QED
  BY <1>1, <1>2, <1>3 DEF Carries

\* A frame of websocket i is read: those behind it move up by one.
LEMMA ReadsCarries ==
    ASSUME NEW t, Formed(t), NEW i \in 1 .. Len(t.socks), t.socks[i].up # <<>>, NEW at, NEW timer,
           NEW r, Turns(t, i, at, Tail(t.socks[i].up), timer, r)
    PROVE  \A j, m, c : Carries(r, j, m, c) =>
               Carries(t, j, IF j = i THEN m + 1 ELSE m, c) /\ m \in Nat /\ (j = i => m # 0)
<1>1. PICK a, f : a = t.socks[i].up /\ f = Head(a)
  OBVIOUS
<1>2. a \in Seq(FrameType) /\ a # <<>> /\ i \in Socks /\ r.calls = t.calls
  BY Zenon, <1>1, FormedTypes DEF SocketType, Turns
<1>3. /\ Tail(a) \in Seq(FrameType) /\ f = a[1] /\ 1 \in 1 .. Len(a)
      /\ \A m \in 1 .. Len(Tail(a)) : Tail(a)[m] = a[m + 1] /\ m + 1 \in 1 .. Len(a)
  BY <1>1, <1>2, TailAt
<1> DEFINE was(j, m) == IF j = i THEN m + 1 ELSE m
<1>4. ASSUME NEW j, NEW m, NEW c, Carries(r, j, m, c)
      PROVE  Carries(t, j, was(j, m), c) /\ m \in Nat /\ (j = i => m # 0)
  <2>1. /\ j \in 1 .. Len(t.socks) /\ m \in 1 .. Len(r.socks[j].up)
        /\ r.socks[j].up[m].kind = "call" /\ r.socks[j].up[m].c = c
        /\ r.socks[j].up = IF j = i THEN Tail(a) ELSE t.socks[j].up
    BY <1>1, <1>4 DEF Turns, Carries
  <2>2. m \in Nat /\ m # 0
    BY <2>1
  <2>3. CASE j = i
    <3>1. Tail(a)[m] = a[m + 1] /\ m + 1 \in 1 .. Len(a)
      BY <1>3, <2>1, <2>3
    <3>2. Carries(t, i, m + 1, c)
      BY <1>1, <2>1, <2>3, <3>1 DEF Carries
    <3> QED
      BY <2>2, <2>3, <3>2
  <2>4. CASE j # i
    BY <2>1, <2>2, <2>4 DEF Carries
  <2> QED
    BY <2>3, <2>4
<1> QED
  BY <1>4

\* The call that is read is the last one in the session.
LEMMA ReadsWorks ==
    ASSUME NEW t, Formed(t), NEW i \in 1 .. Len(t.socks), t.socks[i].up # <<>>,
           NEW sv, Sessions(sv, Len(t.calls)), NEW sv2, Reads(sv, i, Head(t.socks[i].up), sv2)
    PROVE  \A j, n, c : Works(sv2, j, n, c) =>
               \/ Works(sv, j, n, c)
               \/ j = i /\ n = Len(sv[i].work) + 1 /\ Carries(t, i, 1, c)
<1>1. PICK a, f : a = t.socks[i].up /\ f = Head(a)
  OBVIOUS
<1>2. a \in Seq(FrameType) /\ a # <<>> /\ i \in Socks
  BY Zenon, <1>1, FormedTypes DEF SocketType
<1>3. /\ Tail(a) \in Seq(FrameType) /\ f = a[1] /\ 1 \in 1 .. Len(a)
      /\ \A m \in 1 .. Len(Tail(a)) : Tail(a)[m] = a[m + 1] /\ m + 1 \in 1 .. Len(a)
  BY <1>1, <1>2, TailAt
<1>5. ASSUME NEW j, NEW n, NEW c, Works(sv2, j, n, c)
      PROVE  \/ Works(sv, j, n, c)
             \/ j = i /\ n = Len(sv[i].work) + 1 /\ Carries(t, i, 1, c)
  <2>1. CASE j # i
    BY <1>5, <2>1 DEF Works, Reads
  <2>2. CASE j = i /\ sv2[i].work = sv[i].work
    BY <1>5, <2>2 DEF Works
  <2>3. CASE j = i /\ f.kind = "call" /\ sv2[i].work = Append(sv[i].work, f.c)
    <3>1. PICK w : w = sv[i].work
      OBVIOUS
    <3>2. w \in Seq(CallIds)
      BY <1>2, <3>1 DEF Sessions, SessionType
    <3>3. f.c \in CallIds
      <4>1. f \in FrameType
        BY <1>2, <1>3
      <4> QED
        BY <4>1 DEF FrameType
    <3>4. n \in 1 .. Len(Append(w, f.c)) /\ Append(w, f.c)[n] = c
      BY Zenon, <1>5, <2>3, <3>1 DEF Works
    <3>5. \/ n \in 1 .. Len(w) /\ w[n] = c
          \/ n = Len(w) + 1 /\ c = f.c
      BY <3>2, <3>3, <3>4, AppendAt
    <3>6. CASE n \in 1 .. Len(w) /\ w[n] = c
      BY <1>2, <2>3, <3>1, <3>6 DEF Works
    <3>7. CASE n = Len(w) + 1 /\ c = f.c
      <4>1. Carries(t, i, 1, c)
        BY <1>1, <1>3, <2>3, <3>7 DEF Carries
      <4> QED
        BY <2>3, <3>1, <3>7, <4>1
    <3> QED
      BY <3>5, <3>6, <3>7
  <2> QED
    BY <1>1, <2>1, <2>2, <2>3 DEF Reads
<1> QED
  BY <1>5

LEMMA ReadsOnce ==
    ASSUME NEW t, Formed(t), NEW i \in 1 .. Len(t.socks), t.socks[i].up # <<>>, NEW at, NEW timer,
           NEW r, Turns(t, i, at, Tail(t.socks[i].up), timer, r),
           NEW sv, Sessions(sv, Len(t.calls)), NEW sv2, Reads(sv, i, Head(t.socks[i].up), sv2), Once(t, sv)
    PROVE  Once(r, sv2)
<1> DEFINE was(j, m) == IF j = i THEN m + 1 ELSE m
<1>2. r.calls = t.calls
  BY DEF Turns
<1>4. ASSUME NEW j, NEW m, NEW c, Carries(r, j, m, c)
      PROVE  Carries(t, j, was(j, m), c) /\ m \in Nat /\ (j = i => m # 0)
  BY Zenon, <1>4, ReadsCarries
<1>5. ASSUME NEW j, NEW n, NEW c, Works(sv2, j, n, c)
      PROVE  \/ Works(sv, j, n, c)
             \/ j = i /\ n = Len(sv[i].work) + 1 /\ Carries(t, i, 1, c)
  BY Zenon, <1>5, ReadsWorks
<1>6. ASSUME NEW j, NEW n, NEW c, Works(sv, j, n, c) PROVE n # Len(sv[j].work) + 1
  <2>1. n \in 1 .. Len(sv[j].work)
    BY <1>6 DEF Works
  <2> QED
    BY <2>1
<1>7. ASSUME NEW i2, NEW m, NEW c, Carries(r, i2, m, c) PROVE r.calls[c].at = "sent"
  BY <1>2, <1>4, <1>7 DEF Once
<1>8. ASSUME NEW i2, NEW j, NEW m, NEW n, NEW c, Carries(r, i2, m, c), Carries(r, j, n, c)
      PROVE  i2 = j /\ m = n
  <2>1. /\ Carries(t, i2, was(i2, m), c) /\ m \in Nat
        /\ Carries(t, j, was(j, n), c) /\ n \in Nat
    BY <1>4, <1>8
  <2> HIDE DEF was
  <2>2. i2 = j /\ was(i2, m) = was(j, n)
    BY <2>1 DEF Once
  <2> QED
    BY <2>1, <2>2 DEF was
<1>9. ASSUME NEW j, NEW n, NEW c, Works(sv2, j, n, c) PROVE AtWork(r, n, c)
  BY <1>2, <1>5, <1>9 DEF Once, AtWork
<1>10. ASSUME NEW i2, NEW j, NEW m, NEW n, NEW c, Works(sv2, j, n, c), Carries(r, i2, m, c) PROVE FALSE
  <2>1. Carries(t, i2, was(i2, m), c) /\ m \in Nat /\ (i2 = i => m # 0)
    BY <1>4, <1>10
  <2>2. was(i2, m) # 1 \/ i2 # i
    BY <2>1
  <2> HIDE DEF was
  <2>3. ~ Works(sv, j, n, c)
    BY <2>1 DEF Once
  <2>4. Carries(t, i, 1, c)
    BY <1>5, <1>10, <2>3
  <2> QED
    BY <2>1, <2>2, <2>4 DEF Once
<1>11. ASSUME NEW i2, NEW j, NEW m, NEW n, NEW c, Works(sv2, i2, m, c), Works(sv2, j, n, c)
       PROVE  i2 = j /\ m = n
  BY <1>5, <1>11 DEF Once
<1> QED
  BY <1>7, <1>8, <1>9, <1>10, <1>11 DEF Once

LEMMA PopsWorks ==
    ASSUME NEW k, NEW sv, Sessions(sv, k), NEW i \in Socks, sv[i].work # <<>>, NEW sv2, Pops(sv, i, sv2)
    PROVE  \A j, n, c : Works(sv2, j, n, c) => Works(sv, j, IF j = i THEN n + 1 ELSE n, c) /\ n \in Nat /\ n # 0
<1>1. PICK w, h : w = sv[i].work /\ h = Head(sv[i].work)
  BY Zenon
<1>2. w \in Seq(CallIds) /\ w # <<>>
  BY <1>1 DEF Sessions, SessionType
<1>3. /\ Tail(w) \in Seq(CallIds) /\ h = w[1] /\ 1 \in 1 .. Len(w)
      /\ \A m \in 1 .. Len(Tail(w)) : Tail(w)[m] = w[m + 1] /\ m + 1 \in 1 .. Len(w)
  BY <1>1, <1>2, TailAt
<1> DEFINE was(j, n) == IF j = i THEN n + 1 ELSE n
<1>5. ASSUME NEW j, NEW n, NEW c, Works(sv2, j, n, c)
      PROVE  Works(sv, j, was(j, n), c) /\ n \in Nat /\ n # 0
  <2>1. j \in Socks /\ n \in 1 .. Len(sv2[j].work) /\ sv2[j].work[n] = c
    BY <1>5 DEF Works
  <2>2. n \in Nat /\ n # 0
    BY <2>1
  <2>3. CASE j = i
    <3>1. sv2[j].work = Tail(w)
      BY <1>1, <2>3 DEF Pops
    <3>2. Tail(w)[n] = w[n + 1] /\ n + 1 \in 1 .. Len(w)
      BY <1>3, <2>1, <3>1
    <3>3. Works(sv, i, n + 1, c)
      BY <1>1, <2>1, <2>3, <3>1, <3>2 DEF Works
    <3> QED
      BY <2>2, <2>3, <3>3
  <2>4. CASE j # i
    BY <2>1, <2>2, <2>4 DEF Pops, Works
  <2> QED
    BY <2>3, <2>4
<1> QED
  BY <1>5

\* A frame that is not a call is read, and the running request may have left.
LEMMA ConfirmOnce ==
    ASSUME NEW t, Formed(t), NEW i \in 1 .. Len(t.socks), t.socks[i].up # <<>>, NEW at, NEW timer,
           NEW r, Turns(t, i, at, Tail(t.socks[i].up), timer, r),
           NEW sv, Sessions(sv, Len(t.calls)),
           NEW sv2, sv2 = sv \/ (sv[i].work # <<>> /\ Pops(sv, i, sv2)), Once(t, sv)
    PROVE  Once(r, sv2)
<1> DEFINE was(j, m) == IF j = i THEN m + 1 ELSE m
           old(j, n) == IF sv2 = sv \/ j # i THEN n ELSE n + 1
<1>1. r.calls = t.calls /\ i \in Socks
  BY FormedTypes DEF Turns
<1>2. ASSUME NEW j, NEW m, NEW c, Carries(r, j, m, c)
      PROVE  Carries(t, j, was(j, m), c) /\ m \in Nat
  BY Zenon, <1>2, ReadsCarries
<1>3. ASSUME NEW j, NEW n, NEW c, Works(sv2, j, n, c)
      PROVE  Works(sv, j, old(j, n), c) /\ n \in Nat /\ n # 0
  <2>1. n \in Nat /\ n # 0
    <3>1. n \in 1 .. Len(sv2[j].work)
      BY <1>3 DEF Works
    <3> QED
      BY <3>1
  <2>2. CASE sv2 = sv
    BY <1>3, <2>1, <2>2
  <2>3. CASE sv2 # sv
    <3>1. Works(sv, j, IF j = i THEN n + 1 ELSE n, c)
      BY <1>1, <1>3, <2>3, PopsWorks
    <3> QED
      BY <2>1, <2>3, <3>1
  <2> QED
    BY <2>2, <2>3
<1>4. ASSUME NEW j, NEW n \in Nat, n # 0 PROVE old(j, n) = 1 => n = 1
  BY <1>4
<1>5. ASSUME NEW j, NEW m \in Nat, NEW n \in Nat, was(j, m) = was(j, n) PROVE m = n
  BY <1>5
<1>6. ASSUME NEW j, NEW m \in Nat, NEW n \in Nat, old(j, m) = old(j, n) PROVE m = n
  BY <1>6
<1> HIDE DEF was, old
<1>7. \A j, m, c : Carries(r, j, m, c) => r.calls[c].at = "sent"
  BY <1>1, <1>2 DEF Once
<1>8. ASSUME NEW j, NEW l, NEW m, NEW n, NEW c, Carries(r, j, m, c), Carries(r, l, n, c)
      PROVE  j = l /\ m = n
  <2>1. Carries(t, j, was(j, m), c) /\ Carries(t, l, was(l, n), c) /\ m \in Nat /\ n \in Nat
    BY <1>2, <1>8
  <2>2. j = l /\ was(j, m) = was(l, n)
    BY <2>1 DEF Once
  <2> QED
    BY <1>5, <2>1, <2>2
<1>9. ASSUME NEW j, NEW n, NEW c, Works(sv2, j, n, c) PROVE AtWork(r, n, c)
  <2>1. Works(sv, j, old(j, n), c) /\ n \in Nat /\ n # 0
    BY <1>3, <1>9
  <2>2. AtWork(t, old(j, n), c)
    BY <2>1 DEF Once
  <2>3. old(j, n) = 1 => n = 1
    BY <1>4, <2>1
  <2> QED
    BY <1>1, <2>2, <2>3 DEF AtWork
<1>10. \A j, l, m, n, c : Works(sv2, j, n, c) => ~ Carries(r, l, m, c)
  BY <1>2, <1>3 DEF Once
<1>11. ASSUME NEW j, NEW l, NEW m, NEW n, NEW c, Works(sv2, j, m, c), Works(sv2, l, n, c)
       PROVE  j = l /\ m = n
  <2>1. Works(sv, j, old(j, m), c) /\ Works(sv, l, old(l, n), c) /\ m \in Nat /\ n \in Nat
    BY <1>3, <1>11
  <2>2. j = l /\ old(j, m) = old(l, n)
    BY <2>1 DEF Once
  <2> QED
    BY <1>6, <2>1, <2>2
<1> QED
  BY <1>7, <1>8, <1>9, <1>10, <1>11 DEF Once

\* The message of the call h is dropped.
LEMMA RepliesOnce ==
    ASSUME NEW u, Formed(u), NEW sv, Sessions(sv, Len(u.calls)), NEW i, NEW h \in 1 .. Len(u.calls), Works(sv, i, 1, h),
           NEW r, Replies(u, h, r), Once(u, sv)
    PROVE  Once(r, sv)
<1>1. \A j, m, c : Carries(r, j, m, c) => Carries(u, j, m, c)
  BY DEF Carries, Replies
<1>2. \A j, m, c : Carries(r, j, m, c) => c # h /\ c \in 1 .. Len(u.calls)
  <2>1. \A j, m, c : Carries(r, j, m, c) => c # h
    BY <1>1 DEF Once
  <2>2. \A j, m, c : Carries(u, j, m, c) => c \in 1 .. Len(u.calls)
    BY Zenon, CarriesIs
  <2> QED
    BY <1>1, <2>1, <2>2
<1>3. r.calls[h].at = "answered" /\ \A c \in 1 .. Len(u.calls) : c # h => r.calls[c] = u.calls[c]
  <2>1. u.calls[h] \in CallType
    BY FormedTypes
  <2> QED
    BY Zenon, <2>1 DEF Replies, CallType
<1>4. ASSUME NEW j, NEW n, NEW c, Works(sv, j, n, c) PROVE AtWork(r, n, c)
  <2>1. c \in 1 .. Len(u.calls)
    BY <1>4, WorksIs
  <2>2. CASE c = h
    <3>1. n = 1
      BY <1>4, <2>2 DEF Once
    <3> QED
      BY <1>3, <2>2, <3>1 DEF AtWork
  <2>3. CASE c # h
    BY <1>3, <1>4, <2>1, <2>3 DEF Once, AtWork
  <2> QED
    BY <2>2, <2>3
<1>5. \A j, m, c : Carries(r, j, m, c) => r.calls[c].at = "sent"
  BY <1>1, <1>2, <1>3 DEF Once
<1> QED
  BY <1>1, <1>4, <1>5 DEF Once

\* The work of the session that is moved is found in the new one.
LEMMA RecoversWorks ==
    ASSUME NEW t, Formed(t), NEW sv, NEW i \in 1 .. Len(t.socks),
           t.socks[i].old # i, NEW sv2, Recovers(t, sv, i, sv2), NEW j, NEW n, NEW c, Works(sv2, j, n, c)
    PROVE  LET o == t.socks[i].old IN
           \/ j = i /\ o # 0 /\ sv[o].alive /\ Works(sv, o, n, c)
           \/ j # i /\ (j # o \/ o = 0 \/ ~ sv[o].alive) /\ Works(sv, j, n, c)
<1>1. PICK o : o = t.socks[i].old
  OBVIOUS
<1> DEFINE was == IF j = i THEN o ELSE j
<1>2. Works(sv, was, n, c) /\ (j = i \/ j # o \/ o = 0 \/ ~ sv[o].alive)
  <2>1. j \in Socks /\ n \in 1 .. Len(sv2[j].work) /\ sv2[j].work[n] = c
    BY DEF Works
  <2>2. sv2[j].work # <<>>
    <3> SUFFICES ASSUME sv2[j].work = <<>> PROVE FALSE
      OBVIOUS
    <3>1. Len(sv2[j].work) = 0
      OBVIOUS
    <3> QED
      BY <2>1, <3>1
  <2>3. CASE o # 0 /\ sv[o].alive
    <3>1. o \in Socks
      <4>1. o \in Ids
        BY <1>1, FormedTypes DEF SocketType
      <4> QED
        BY <2>3, <4>1, Numbers DEF Ids, Socks
    <3>2. CASE j = i
      BY <1>1, <2>1, <2>3, <3>1, <3>2 DEF Recovers, Works
    <3>3. CASE j # i
      BY <1>1, <2>1, <2>2, <2>3, <3>3 DEF Recovers, Works
    <3> QED
      BY <3>2, <3>3
  <2>4. CASE ~ (o # 0 /\ sv[o].alive)
    BY <1>1, <2>1, <2>2, <2>4 DEF Recovers, Works
  <2> QED
    BY <2>3, <2>4
<1>3. j = i => o # 0 /\ sv[o].alive
  <2> SUFFICES ASSUME j = i, ~ (o # 0 /\ sv[o].alive) PROVE FALSE
    OBVIOUS
  <2>1. Len(sv2[i].work) = 0
    BY <1>1 DEF Recovers
  <2> QED
    BY <2>1 DEF Works
<1> QED
  BY <1>1, <1>2, <1>3

LEMMA RecoversOnce ==
    ASSUME NEW t, Formed(t), NEW sv, Sessions(sv, Len(t.calls)), NEW i \in 1 .. Len(t.socks),
           t.socks[i].old # i, NEW sv2, Recovers(t, sv, i, sv2), Once(t, sv)
    PROVE  Once(t, sv2)
<1>1. PICK o : o = t.socks[i].old
  OBVIOUS
<1> DEFINE was(j) == IF j = i THEN o ELSE j
<1>2. ASSUME NEW j, NEW n, NEW c, Works(sv2, j, n, c)
      PROVE  /\ Works(sv, was(j), n, c) /\ (j = i \/ j # o \/ o = 0 \/ ~ sv[o].alive)
             /\ j = i => o # 0 /\ sv[o].alive
  BY <1>1, <1>2, RecoversWorks
<1>3. \A j, n, c : Works(sv2, j, n, c) => (j = i => o # 0 /\ sv[o].alive)
  BY <1>2
<1>4. ASSUME NEW j, NEW l, NEW m, NEW n, NEW c, Works(sv2, j, m, c), Works(sv2, l, n, c)
      PROVE  j = l /\ m = n
  <2>1. /\ Works(sv, was(j), m, c) /\ (j = i \/ j # o \/ o = 0 \/ ~ sv[o].alive)
        /\ Works(sv, was(l), n, c) /\ (l = i \/ l # o \/ o = 0 \/ ~ sv[o].alive)
    BY <1>2, <1>4
  <2>2. (j = i => o # 0 /\ sv[o].alive) /\ (l = i => o # 0 /\ sv[o].alive)
    BY <1>3, <1>4
  <2> HIDE DEF was
  <2>3. was(j) = was(l) /\ m = n
    BY <2>1 DEF Once
  <2> QED
    BY <2>1, <2>2, <2>3 DEF was
<1> HIDE DEF was
<1>5. \A j, n, c : Works(sv2, j, n, c) => AtWork(t, n, c) /\ \A l, m : ~ Carries(t, l, m, c)
  BY <1>2 DEF Once
<1> QED
  BY <1>4, <1>5 DEF Once

LEMMA OnceInit ==
    ASSUME CallsInit
    PROVE  Once(tab, server)
<1>1. PICK s : s = Socket(None, 0)
  OBVIOUS
<1>2. s.up = <<>> /\ Len(s.up) = 0
  <2>1. s.up = <<>>
    BY <1>1, NewSocket, Numbers
  <2> QED
    BY <2>1
<1>3. tab.socks = <<s>>
  BY <1>1 DEF CallsInit
<1>4. \A i, m, c : ~ Carries(tab, i, m, c)
  BY <1>2, <1>3 DEF Carries
<1>5. ASSUME NEW j, NEW n, NEW c, Works(server, j, n, c) PROVE FALSE
  <2>1. server[j] = NoSession /\ n \in 1 .. Len(server[j].work)
    BY <1>5 DEF CallsInit, Works, Socks
  <2>2. Len(server[j].work) = 0
    BY <2>1 DEF NoSession
  <2> QED
    BY <2>1, <2>2
<1> QED
  BY <1>4, <1>5 DEF Once

LEMMA RequestingOnce ==
    ASSUME NEW t, NEW u, NEW calls, Requesting(t, u, calls),
           NEW sv, Sessions(sv, Len(t.calls)), Once(t, sv)
    PROVE  Once(u, sv) /\ Once(tab', sv)
<1>1. PICK r : r = tab'
  OBVIOUS
<1>2. /\ Formed(t) /\ Reopens(t, u) /\ Formed(u) /\ Makes(u, calls, r) /\ Formed(r)
      /\ u.calls = t.calls /\ u.waiting = t.waiting /\ Listed(t, calls) /\ calls \in Seq(1 .. Len(t.calls))
  BY <1>1 DEF Requesting
<1>3. Once(u, sv)
  BY <1>2, ReopensMoves, MovesOnce
<1>4. Listed(u, calls) /\ calls \in Seq(1 .. Len(u.calls)) /\ Sessions(sv, Len(u.calls))
  BY <1>2 DEF Listed
<1>5. Once(r, sv)
  BY <1>2, <1>3, <1>4, MakesOnce
<1> QED
  BY <1>1, <1>3, <1>5

LEMMA AddsOnce ==
    ASSUME NEW t, Formed(t), NEW p \in Places, NEW r, Adds(t, p, r), NEW sv, Sessions(sv, Len(t.calls)), Once(t, sv)
    PROVE  Once(r, sv) /\ Sessions(sv, Len(r.calls)) /\ Len(r.calls) = Len(t.calls) + 1
<1>1. PICK k : k = [via |-> p, to |-> t.place[p], at |-> "waiting", session |-> 0]
  BY Zenon
<1>2. k \in CallType
  <2>1. t.place[p] \in Ids /\ 0 \in Ids
    BY FormedTypes, Numbers
  <2> QED
    BY <1>1, <2>1 DEF CallType
<1>3. r.calls = Append(t.calls, k) /\ r.socks = t.socks /\ t.calls \in Seq(CallType)
  BY <1>1, FormedTypes DEF Adds
<1>4. Len(r.calls) = Len(t.calls) + 1 /\ Len(t.calls) \in Nat /\ \A c \in 1 .. Len(t.calls) : r.calls[c] = t.calls[c]
  BY <1>2, <1>3, AppendAt
<1>5. \A i, m, c : Carries(r, i, m, c) => Carries(t, i, m, c)
  BY <1>3 DEF Carries
<1>6. Once(r, sv)
  BY <1>4, <1>5, FewerOnce
<1>7. Sessions(sv, Len(t.calls) + 1)
  BY <1>4, SessionsMore
<1> QED
  BY <1>4, <1>6, <1>7

LEMMA OnceNext ==
    ASSUME Typed, Placed(tab, left), Once(tab, server), [CallsNext]_cvars
    PROVE  Once(tab, server)'
<1>1. /\ Formed(tab) /\ Listed(tab, <<>>) /\ Named(tab) /\ Sessions(server, Len(tab.calls))
  BY DEF Typed
<1>2. PICK r, sv : r = tab' /\ sv = server'
  OBVIOUS
<1> SUFFICES Once(r, sv)
  BY <1>2 DEF Once, Carries, Works
<1>3. ASSUME NEW p \in Places, OpenPlace(p) PROVE Once(r, sv)
  <2>1. Moves(tab, p, 0, 0, r) /\ sv = server
    BY <1>1, <1>2, <1>3, OpenPlaceMoves DEF OpenPlace
  <2> QED
    BY <1>1, <2>1, MovesOnce
<1>4. ASSUME NEW p \in Places, Call(p) PROVE Once(r, sv)
  <2>1. PICK t, u : Adds(tab, p, t) /\ Requesting(t, u, <<Len(tab.calls) + 1>>)
    BY <1>1, <1>4, CallRequests
  <2>2. Once(t, server) /\ Sessions(server, Len(t.calls))
    BY <1>1, <2>1, AddsOnce
  <2>3. sv = server
    BY <1>2, <1>4 DEF Call
  <2>4. PICK calls : calls = <<Len(tab.calls) + 1>>
    BY Zenon
  <2> QED
    BY <1>2, <2>1, <2>2, <2>3, <2>4, RequestingOnce
<1>5. ASSUME NEW i \in Socks, SessionArrives(i) PROVE Once(r, sv)
  <2>1. PICK X : X = Unfinished(i)
    OBVIOUS
  <2>2. PICK t, u : Resumes(tab, X, i, t) /\ Requesting(t, u, tab.waiting)
    BY <1>1, <1>5, <2>1, ArrivalRequests
  <2>3. i \in 1 .. Len(tab.socks)
    BY <1>5 DEF SessionArrives, Is
  <2>4. Once(t, server)
    BY <1>1, <2>2, <2>3, ResumesOnce
  <2>5. Sessions(server, Len(t.calls))
    BY <1>1, <2>2 DEF Resumes
  <2>6. sv = server
    BY <1>2, <1>5 DEF SessionArrives
  <2>7. PICK calls : calls = tab.waiting
    OBVIOUS
  <2> QED
    BY <1>2, <2>2, <2>4, <2>5, <2>6, <2>7, RequestingOnce
<1>6. ASSUME NEW i \in Socks, Timer(i) PROVE Once(r, sv)
  <2>1. PICK p, sid : Moves(tab, p, i, sid, r)
    BY <1>1, <1>2, <1>6, TimerMoves
  <2>2. sv = server
    BY Zenon, <1>2, <1>6 DEF Timer
  <2> QED
    BY <1>1, <2>1, <2>2, MovesOnce
<1>7. ASSUME NEW i \in 1 .. Len(tab.socks), NEW at, NEW up, NEW timer, Turns(tab, i, at, up, timer, r),
             up = tab.socks[i].up \/ up = <<>>, Once(tab, sv), Sessions(sv, Len(tab.calls))
      PROVE  Once(r, sv)
  <2>1. \A j, m, c : Carries(r, j, m, c) => Carries(tab, j, m, c)
    BY <1>1, <1>7, TurnsCarries
  <2>2. r.calls = tab.calls
    BY <1>7 DEF Turns
  <2> QED
    BY <1>1, <1>7, <2>1, <2>2, FewerOnce
<1>8. ASSUME NEW i \in 1 .. Len(tab.socks), server' = Recovered(i)
      PROVE  Once(tab, sv) /\ Sessions(sv, Len(tab.calls))
  <2>1. tab.socks[i].old # i
    <3>1. tab.socks[i].old < i /\ i \in Nat
      BY <1>1 DEF Placed, Older
    <3> QED
      BY <3>1
  <2>2. Recovers(tab, server, i, sv) /\ Sessions(sv, Len(tab.calls))
    BY <1>1, <1>2, <1>8, <2>1, RecoveredDoes
  <2> QED
    BY <1>1, <2>1, <2>2, RecoversOnce
<1>9. ASSUME NEW i \in Socks, Handshake(i) PROVE Once(r, sv)
  <2>1. PICK up, timer : up = tab.socks[i].up /\ timer = tab.socks[i].timer
    BY Zenon
  <2>2. i \in 1 .. Len(tab.socks) /\ Turns(tab, i, "open", up, timer, r)
    BY <1>1, <1>2, <1>9, <2>1, HandshakeTurns
  <2>3. server' = Recovered(i)
    BY <1>9 DEF Handshake
  <2> QED
    BY <1>7, <1>8, <2>1, <2>2, <2>3
<1>10. ASSUME NEW i \in Socks, ReadFrame(i) PROVE Once(r, sv)
  <2>1. PICK up, timer : up = tab.socks[i].up /\ timer = tab.socks[i].timer
    BY Zenon
  <2>2. /\ i \in 1 .. Len(tab.socks) /\ up # <<>>
        /\ Turns(tab, i, "open", Tail(tab.socks[i].up), timer, r)
    BY <1>1, <1>2, <1>10, <2>1, ReadTurns
  <2>3. Reading(server, i, Head(tab.socks[i].up), sv)
    BY <1>1, <1>2, <1>10, ReadsDoes
  <2>4. CASE Reads(server, i, Head(tab.socks[i].up), sv)
    BY Zenon, <1>1, <2>1, <2>2, <2>4, ReadsOnce
  <2>5. CASE sv = server \/ (server[i].work # <<>> /\ Pops(server, i, sv))
    <3>1. PICK at : at = "open"
      OBVIOUS
    <3> QED
      BY <1>1, <2>1, <2>2, <2>5, <3>1, ConfirmOnce
  <2> QED
    BY <2>3, <2>4, <2>5 DEF Reading
<1>11. ASSUME NEW i \in Socks, Answer(i) PROVE Once(r, sv)
  <2>1. PICK h : h = Head(server[i].work)
    OBVIOUS
  <2>2. /\ i \in 1 .. Len(tab.socks) /\ server[i].work \in Seq(1 .. Len(tab.calls)) /\ server[i].work # <<>>
        /\ h \in 1 .. Len(tab.calls) /\ sv = server /\ Len(tab.calls) \in Nat
    BY <1>1, <1>2, <1>11, <2>1, AnswerHas, FormedTypes
  <2>3. PICK u, up, timer : /\ Formed(u) /\ Turns(tab, i, "open", up, timer, u) /\ Confirming(tab, i, up)
                            /\ Replies(u, h, r)
    <3>1. PICK u, up : /\ Formed(u) /\ Turns(tab, i, "open", up, tab.socks[i].timer, u)
                       /\ Confirming(tab, i, up) /\ Replies(u, h, r)
      BY <1>1, <1>2, <1>11, <2>1, AnswerDoes
    <3> QED
      BY <3>1
  <2>4. u.calls = tab.calls
    BY <2>3 DEF Turns
  <2>5. \A j, m, c : Carries(u, j, m, c) => Carries(tab, j, m, c)
    <3>1. PICK at : at = "open"
      OBVIOUS
    <3> QED
      BY <1>1, <2>2, <2>3, <3>1, TurnsCarries
  <2>6. Once(u, server)
    BY <1>1, <2>4, <2>5, FewerOnce
  <2>7. Works(server, i, 1, h)
    BY <2>1, <2>2, HeadWorks
  <2> QED
    BY <1>1, <2>2, <2>3, <2>4, <2>6, <2>7, RepliesOnce
<1>12. ASSUME NEW i \in Socks, Closes(i) PROVE Once(r, sv)
  <2>1. PICK up, timer : up = <<>> /\ timer = ~ tab.socks[i].stay
    OBVIOUS
  <2>2. i \in 1 .. Len(tab.socks) /\ Turns(tab, i, "closed", up, timer, r)
    BY <1>1, <1>2, <1>12, <2>1, ClosesTurns
  <2>3. CASE Loses(server, i, sv)
    <3>1. Sessions(sv, Len(tab.calls))
      BY <1>1, <1>2, <1>12, LosesDoes
    <3>2. \A j, n, c : Works(sv, j, n, c) => Works(server, j, n, c)
      BY <2>3 DEF Works, Loses
    <3>3. Once(tab, sv)
      BY <1>1, <3>2, FewerOnce
    <3> QED
      BY <1>7, <2>1, <2>2, <3>1, <3>3
  <2>4. CASE server' = Recovered(i)
    BY <1>7, <1>8, <2>1, <2>2, <2>4
  <2> QED
    BY <1>1, <1>2, <1>12, <2>3, <2>4, LosesDoes
<1>13. ASSUME NEW i \in Socks, WindowPasses(i) PROVE Once(r, sv)
  <2>1. Passes(server, i, sv)
    BY <1>1, <1>2, <1>13, PassesDoes
  <2>2. r = tab
    BY <1>2, <1>13 DEF WindowPasses
  <2>3. Len(sv[i].work) = 0
    BY <2>1 DEF Passes
  <2>4. \A j, n, c : Works(sv, j, n, c) => Works(server, j, n, c)
    BY <2>1, <2>3 DEF Works, Passes
  <2> QED
    BY <1>1, <2>2, <2>4, FewerOnce
<1>14. CASE UNCHANGED cvars
  BY <1>2, <1>14 DEF cvars
<1>15. CASE CallsNext
  BY <1>3, <1>4, <1>5, <1>6, <1>9, <1>10, <1>11, <1>12, <1>13, <1>15
     DEF CallsNext, Progress, Close, Drop
<1> QED
  BY <1>14, <1>15

-----------------------------------------------------------------------------
(* The CONFIRM of an answer.                                               *)

\* Frame m on its way from websocket i is a CONFIRM.
IsConfirm(t, i, m) == i \in 1 .. Len(t.socks) /\ m \in 1 .. Len(t.socks[i].up) /\ t.socks[i].up[m].kind = "confirm"

\* A session that reads a CONFIRM has lost no answer since it was made.
Confirmed(t, sv) ==
    \A i, m : IsConfirm(t, i, m) =>
        /\ t.socks[i].at # "connecting"
        /\ t.socks[i].at = "open" => ~ sv[i].lost

LEMMA ConfirmRead ==
    ASSUME NEW t, Formed(t), NEW sv, Confirmed(t, sv), NEW i \in 1 .. Len(t.socks), t.socks[i].at = "open",
           t.socks[i].up # <<>>, Head(t.socks[i].up).kind = "confirm"
    PROVE  ~ sv[i].lost
<1>1. t.socks[i].up \in Seq(FrameType)
  BY FormedTypes DEF SocketType
<1>2. IsConfirm(t, i, 1)
  BY <1>1, TailAt DEF IsConfirm
<1> QED
  BY <1>2 DEF Confirmed

\* Another websocket is opened, without frames.
LEMMA MovesConfirmed ==
    ASSUME NEW t, NEW u, NEW p, NEW i, NEW sid, Moves(t, p, i, sid, u), NEW sv, Confirmed(t, sv)
    PROVE  Confirmed(u, sv)
<1>1. ASSUME NEW j, NEW m, IsConfirm(u, j, m)
      PROVE  IsConfirm(t, j, m) /\ (u.socks[j].at = t.socks[j].at \/ u.socks[j].at \in {"closing", "closed"})
  <2>1. /\ Len(u.socks) = Len(t.socks) + 1 /\ Len(t.socks) \in Nat /\ u.socks[Len(t.socks) + 1].up = <<>>
        /\ \A k \in 1 .. Len(t.socks) :
               /\ u.socks[k].up = t.socks[k].up
               /\ u.socks[k].at = t.socks[k].at \/ u.socks[k].at \in {"closing", "closed"}
    BY FormedTypes DEF Moves
  <2>2. j # Len(t.socks) + 1
    <3> SUFFICES ASSUME j = Len(t.socks) + 1 PROVE FALSE
      OBVIOUS
    <3>1. Len(u.socks[j].up) = 0
      BY <2>1
    <3> QED
      BY <1>1, <3>1 DEF IsConfirm
  <2>3. j \in 1 .. Len(t.socks)
    BY <1>1, <2>1, <2>2 DEF IsConfirm
  <2> QED
    BY <1>1, <2>1, <2>3 DEF IsConfirm
<1> QED
  BY <1>1 DEF Confirmed

\* No frames but those of calls are added.
LEMMA MakesConfirmed ==
    ASSUME NEW u, Formed(u), NEW calls \in Seq(1 .. Len(u.calls)), Listed(u, calls),
           NEW r, Formed(r), Makes(u, calls, r), NEW sv, Confirmed(u, sv)
    PROVE  Confirmed(r, sv)
<1>1. ASSUME NEW i, NEW m, IsConfirm(r, i, m) PROVE IsConfirm(u, i, m)
  <2>1. PICK k : k = Kept(calls, {d \in RangeOf(calls) : r.calls[d].at = "sent" /\ r.calls[d].to = i})
    BY Zenon
  <2>2. PICK a, f : a = u.socks[i].up /\ f = Frames("call", k)
    BY Zenon
  <2>3. i \in 1 .. Len(u.socks) /\ r.socks[i].up = a \o f /\ r.socks[i].at = u.socks[i].at
    <3>1. i \in 1 .. Len(u.socks) /\ r.socks[i].at = u.socks[i].at
      BY <1>1, MakesSockets DEF IsConfirm
    <3>2. \A j \in 1 .. Len(u.socks) :
              r.socks[j].up = u.socks[j].up \o Frames("call",
                  Kept(calls, {d \in RangeOf(calls) : r.calls[d].at = "sent" /\ r.calls[d].to = j}))
      BY DEF Makes
    <3> QED
      BY <2>1, <2>2, <3>1, <3>2
  <2>4. k \in Seq(1 .. Len(u.calls)) /\ a \in Seq(FrameType)
    BY <2>1, <2>2, <2>3, KeptProperties, FormedTypes DEF SocketType
  <2>5. /\ f \in Seq(FrameType) /\ Len(f) = Len(k)
        /\ \A n \in 1 .. Len(k) : f[n] = [kind |-> "call", c |-> k[n]]
    BY <2>2, <2>4, FramesAre DEF Formed
  <2>6. m \in 1 .. Len(a \o f) /\ (a \o f)[m].kind = "confirm"
    BY Zenon, <1>1, <2>3 DEF IsConfirm
  <2>7. \/ m \in 1 .. Len(a) /\ (a \o f)[m] = a[m]
        \/ m - Len(a) \in 1 .. Len(f) /\ (a \o f)[m] = f[m - Len(a)]
    BY <2>4, <2>5, <2>6, ConcatAt
  <2>8. ASSUME m - Len(a) \in 1 .. Len(f), (a \o f)[m] = f[m - Len(a)] PROVE FALSE
    <3>1. PICK n : n = m - Len(a)
      OBVIOUS
    <3>2. f[n] = [kind |-> "call", c |-> k[n]] /\ (a \o f)[m] = f[n]
      BY <2>5, <2>8, <3>1
    <3>3. f[n].kind = "call"
      BY <3>2
    <3> QED
      BY <2>6, <3>2, <3>3
  <2> QED
    BY <2>2, <2>3, <2>6, <2>7, <2>8 DEF IsConfirm
<1>2. \A i \in 1 .. Len(u.socks) : r.socks[i].at = u.socks[i].at
  BY MakesSockets
<1>3. \A i, m : IsConfirm(u, i, m) => i \in 1 .. Len(u.socks)
  BY DEF IsConfirm
<1> QED
  BY <1>1, <1>2, <1>3 DEF Confirmed

\* The SEND FROMs of the calls X are added.
LEMMA ResumesConfirmed ==
    ASSUME NEW t, Formed(t), NEW X, NEW i \in 1 .. Len(t.socks), NEW r, Resumes(t, X, i, r),
           NEW sv, Confirmed(t, sv)
    PROVE  Confirmed(r, sv)
<1>1. PICK k : k = Kept(Count(Len(t.calls)), X)
  OBVIOUS
<1>2. PICK a, f : a = t.socks[i].up /\ f = Frames("from", k)
  BY Zenon
<1>3. /\ a \in Seq(FrameType) /\ Len(t.calls) \in Nat /\ Len(t.calls) <= MaxCalls
      /\ t.socks[i] \in SocketType
  BY <1>2, FormedTypes DEF SocketType, Formed
<1>4. k \in Seq(1 .. Len(t.calls))
  <2>1. Count(Len(t.calls)) \in Seq(1 .. Len(t.calls))
    BY <1>3 DEF Count
  <2> QED
    BY <1>1, <2>1, KeptProperties
<1>5. /\ f \in Seq(FrameType) /\ Len(f) = Len(k)
      /\ \A n \in 1 .. Len(k) : f[n] = [kind |-> "from", c |-> k[n]]
  BY <1>2, <1>3, <1>4, FramesAre
<1>6. /\ r.socks[i].up = a \o f /\ Len(r.socks) = Len(t.socks) /\ r.socks[i].at = t.socks[i].at
      /\ \A j \in 1 .. Len(t.socks) \ {i} : r.socks[j] = t.socks[j]
  <2>1. PICK up : up = r.socks[i].up
    OBVIOUS
  <2>2. r.socks[i] = [t.socks[i] EXCEPT !.sid = i, !.up = up]
    BY <2>1 DEF Resumes
  <2>3. r.socks[i].at = t.socks[i].at
    BY <1>3, <2>2 DEF SocketType
  <2> QED
    BY <1>1, <1>2, <2>3 DEF Resumes
<1>7. ASSUME NEW j, NEW m, IsConfirm(r, j, m) PROVE IsConfirm(t, j, m)
  <2>1. CASE j # i
    BY <1>6, <1>7, <2>1 DEF IsConfirm
  <2>2. CASE j = i
    <3>1. m \in 1 .. Len(a \o f) /\ (a \o f)[m].kind = "confirm"
      BY Zenon, <1>6, <1>7, <2>2 DEF IsConfirm
    <3>2. \/ m \in 1 .. Len(a) /\ (a \o f)[m] = a[m]
          \/ m - Len(a) \in 1 .. Len(f) /\ (a \o f)[m] = f[m - Len(a)]
      BY <1>3, <1>5, <3>1, ConcatAt
    <3>3. ASSUME m - Len(a) \in 1 .. Len(f), (a \o f)[m] = f[m - Len(a)] PROVE FALSE
      <4>1. PICK n : n = m - Len(a)
        OBVIOUS
      <4>2. f[n] = [kind |-> "from", c |-> k[n]] /\ (a \o f)[m] = f[n]
        BY <1>5, <3>3, <4>1
      <4>3. f[n].kind = "from"
        BY <4>2
      <4> QED
        BY <3>1, <4>2, <4>3
    <3> QED
      BY <1>2, <2>2, <3>1, <3>2, <3>3 DEF IsConfirm
  <2> QED
    BY <2>1, <2>2
<1>8. \A j \in 1 .. Len(t.socks) : r.socks[j].at = t.socks[j].at
  BY <1>6
<1>9. \A j, m : IsConfirm(t, j, m) => j \in 1 .. Len(t.socks)
  BY DEF IsConfirm
<1> QED
  BY <1>7, <1>8, <1>9 DEF Confirmed

\* Websocket i, and sessions that lose no answers but perhaps those of i.
LEMMA TurnsConfirmed ==
    ASSUME NEW t, Formed(t), NEW i \in 1 .. Len(t.socks), NEW at, at # "connecting", NEW up, NEW timer, NEW r,
           Turns(t, i, at, up, timer, r),
           NEW sv, Confirmed(t, sv), NEW sv2, \A j \in Socks \ {i} : sv2[j].lost => sv[j].lost,
           \A m : IsConfirm(r, i, m) => at # "open" \/ ~ sv2[i].lost
    PROVE  Confirmed(r, sv2)
<1>1. ASSUME NEW j, NEW m, IsConfirm(r, j, m)
      PROVE  /\ r.socks[j].at # "connecting"
             /\ r.socks[j].at = "open" => ~ sv2[j].lost
  <2>1. /\ j \in 1 .. Len(t.socks) /\ j \in Socks
        /\ r.socks[j].at = IF j = i THEN at ELSE t.socks[j].at
        /\ r.socks[j].up = IF j = i THEN up ELSE t.socks[j].up
    BY <1>1, FormedTypes DEF Turns, IsConfirm
  <2>2. CASE j = i
    BY <1>1, <2>1, <2>2
  <2>3. CASE j # i
    <3>1. IsConfirm(t, j, m)
      BY <1>1, <2>1, <2>3 DEF IsConfirm
    <3> QED
      BY <2>1, <2>3, <3>1 DEF Confirmed
  <2> QED
    BY <2>2, <2>3
<1> QED
  BY <1>1 DEF Confirmed

LEMMA ConfirmedInit ==
    ASSUME CallsInit
    PROVE  Confirmed(tab, server)
<1>1. PICK s : s = Socket(None, 0)
  OBVIOUS
<1>2. s.up = <<>> /\ Len(s.up) = 0
  <2>1. s.up = <<>>
    BY <1>1, NewSocket, Numbers
  <2> QED
    BY <2>1
<1>3. tab.socks = <<s>>
  BY <1>1 DEF CallsInit
<1> QED
  BY <1>2, <1>3 DEF Confirmed, IsConfirm

LEMMA RequestingConfirmed ==
    ASSUME NEW t, NEW u, NEW calls, Requesting(t, u, calls), NEW sv, Confirmed(t, sv)
    PROVE  Confirmed(tab', sv)
<1>1. PICK r : r = tab'
  OBVIOUS
<1>2. /\ Formed(t) /\ Reopens(t, u) /\ Formed(u) /\ Makes(u, calls, r) /\ Formed(r)
      /\ u.calls = t.calls /\ u.waiting = t.waiting /\ Listed(t, calls) /\ calls \in Seq(1 .. Len(t.calls))
  BY <1>1 DEF Requesting
<1>3. Confirmed(u, sv)
  BY <1>2, ReopensMoves, MovesConfirmed
<1>4. Listed(u, calls) /\ calls \in Seq(1 .. Len(u.calls))
  BY <1>2 DEF Listed
<1>5. Confirmed(r, sv)
  BY <1>2, <1>3, <1>4, MakesConfirmed
<1> QED
  BY <1>1, <1>5

LEMMA ConfirmedNext ==
    ASSUME Typed, Placed(tab, left), Confirmed(tab, server), [CallsNext]_cvars
    PROVE  Confirmed(tab, server)'
<1>1. /\ Formed(tab) /\ Listed(tab, <<>>) /\ Named(tab) /\ Sessions(server, Len(tab.calls))
      /\ 1 .. Len(tab.socks) \subseteq Socks
  BY FormedTypes DEF Typed
<1>2. PICK r, sv : r = tab' /\ sv = server'
  OBVIOUS
<1> SUFFICES Confirmed(r, sv)
  BY <1>2 DEF Confirmed, IsConfirm
<1>3. ASSUME NEW p \in Places, OpenPlace(p) PROVE Confirmed(r, sv)
  <2>1. Moves(tab, p, 0, 0, r) /\ sv = server
    BY <1>1, <1>2, <1>3, OpenPlaceMoves DEF OpenPlace
  <2> QED
    BY <2>1, MovesConfirmed
<1>4. ASSUME NEW p \in Places, Call(p) PROVE Confirmed(r, sv)
  <2>1. PICK t, u : Adds(tab, p, t) /\ Requesting(t, u, <<Len(tab.calls) + 1>>)
    BY <1>1, <1>4, CallRequests
  <2>2. t.socks = tab.socks
    BY <2>1 DEF Adds
  <2>3. Confirmed(t, server) /\ sv = server
    BY <1>2, <1>4, <2>2 DEF Confirmed, IsConfirm, Call
  <2>4. PICK calls : calls = <<Len(tab.calls) + 1>>
    BY Zenon
  <2> QED
    BY <1>2, <2>1, <2>3, <2>4, RequestingConfirmed
<1>5. ASSUME NEW i \in Socks, SessionArrives(i) PROVE Confirmed(r, sv)
  <2>1. PICK X : X = Unfinished(i)
    OBVIOUS
  <2>2. PICK t, u : Resumes(tab, X, i, t) /\ Requesting(t, u, tab.waiting)
    BY <1>1, <1>5, <2>1, ArrivalRequests
  <2>3. i \in 1 .. Len(tab.socks) /\ sv = server
    BY <1>2, <1>5 DEF SessionArrives, Is
  <2>4. Confirmed(t, server)
    BY <1>1, <2>2, <2>3, ResumesConfirmed
  <2>5. PICK calls : calls = tab.waiting
    OBVIOUS
  <2> QED
    BY <1>2, <2>2, <2>3, <2>4, <2>5, RequestingConfirmed
<1>6. ASSUME NEW i \in Socks, Timer(i) PROVE Confirmed(r, sv)
  <2>1. PICK p, sid : Moves(tab, p, i, sid, r)
    BY <1>1, <1>2, <1>6, TimerMoves
  <2>2. sv = server
    BY Zenon, <1>2, <1>6 DEF Timer
  <2> QED
    BY <2>1, <2>2, MovesConfirmed
<1>7. ASSUME NEW i \in 1 .. Len(tab.socks), server' = Recovered(i)
      PROVE  \A j \in Socks \ {i} : sv[j].lost => server[j].lost
  <2>1. tab.socks[i].old # i
    <3>1. tab.socks[i].old < i /\ i \in Nat
      BY <1>1 DEF Placed, Older
    <3> QED
      BY <3>1
  <2>2. Recovers(tab, server, i, sv)
    BY <1>1, <1>2, <1>7, <2>1, RecoveredDoes
  <2> QED
    BY <2>2 DEF Recovers
<1>8. ASSUME NEW i \in Socks, Handshake(i) PROVE Confirmed(r, sv)
  <2>1. PICK up, timer, at : up = tab.socks[i].up /\ timer = tab.socks[i].timer /\ at = "open"
    BY Zenon
  <2>2. i \in 1 .. Len(tab.socks) /\ tab.socks[i].at = "connecting" /\ Turns(tab, i, at, up, timer, r)
    BY <1>1, <1>2, <1>8, <2>1, HandshakeTurns
  <2>3. server' = Recovered(i)
    BY <1>8 DEF Handshake
  <2>4. \A m : ~ IsConfirm(r, i, m)
    <3>1. \A m : ~ IsConfirm(tab, i, m)
      BY <2>2 DEF Confirmed
    <3>2. r.socks[i].up = tab.socks[i].up
      BY <2>1, <2>2 DEF Turns
    <3> QED
      BY <2>2, <3>1, <3>2 DEF IsConfirm
  <2>5. \A j \in Socks \ {i} : sv[j].lost => server[j].lost
    BY <1>7, <2>2, <2>3
  <2>6. at # "connecting"
    BY <2>1
  <2> QED
    BY <1>1, <2>2, <2>4, <2>5, <2>6, TurnsConfirmed
<1>9. ASSUME NEW i \in Socks, ReadFrame(i) PROVE Confirmed(r, sv)
  <2>1. PICK up, timer, at, a : /\ up = Tail(tab.socks[i].up) /\ timer = tab.socks[i].timer /\ at = "open"
                                /\ a = tab.socks[i].up
    BY Zenon
  <2>2. /\ i \in 1 .. Len(tab.socks) /\ tab.socks[i].at = "open" /\ Turns(tab, i, at, up, timer, r)
        /\ a \in Seq(FrameType) /\ a # <<>>
    BY <1>1, <1>2, <1>9, <2>1, ReadTurns
  <2>3. Reading(server, i, Head(tab.socks[i].up), sv)
    BY <1>1, <1>2, <1>9, ReadsDoes
  <2>4. \A j \in Socks : sv[j].lost => server[j].lost
    BY <2>3 DEF Reading, Reads, Pops
  <2>5. ASSUME NEW m, IsConfirm(r, i, m) PROVE ~ sv[i].lost
    <3>1. r.socks[i].up = Tail(a)
      BY Zenon, <2>1, <2>2 DEF Turns
    <3>2. m \in 1 .. Len(Tail(a)) /\ Tail(a)[m].kind = "confirm"
      BY Zenon, <2>5, <3>1 DEF IsConfirm
    <3>3. Tail(a)[m] = a[m + 1] /\ m + 1 \in 1 .. Len(a)
      BY <2>2, <3>2, TailAt
    <3>4. IsConfirm(tab, i, m + 1)
      BY Zenon, <2>1, <2>2, <3>2, <3>3 DEF IsConfirm
    <3> QED
      BY <2>2, <2>4, <3>4 DEF Confirmed
  <2>6. at # "connecting"
    BY <2>1
  <2> QED
    BY <1>1, <2>2, <2>4, <2>5, <2>6, TurnsConfirmed
<1>10. ASSUME NEW i \in Socks, Answer(i) PROVE Confirmed(r, sv)
  <2>1. i \in 1 .. Len(tab.socks) /\ sv = server /\ ~ server[i].lost
    BY <1>1, <1>2, <1>10, AnswerHas
  <2>2. PICK at : at = "open"
    OBVIOUS
  <2>3. PICK u, up, timer : Turns(tab, i, at, up, timer, u) /\ r.socks = u.socks
    BY <1>1, <1>2, <1>10, <2>2, AnswerDoes DEF Replies
  <2>4. at # "connecting"
    BY <2>2
  <2>5. Confirmed(u, sv)
    BY <1>1, <2>1, <2>3, <2>4, TurnsConfirmed
  <2> QED
    BY <2>3, <2>5 DEF Confirmed, IsConfirm
<1>11. ASSUME NEW i \in Socks, Closes(i) PROVE Confirmed(r, sv)
  <2>1. PICK up, timer, at : up = <<>> /\ timer = ~ tab.socks[i].stay /\ at = "closed"
    OBVIOUS
  <2>2. i \in 1 .. Len(tab.socks) /\ Turns(tab, i, at, up, timer, r)
    BY <1>1, <1>2, <1>11, <2>1, ClosesTurns
  <2>3. \A j \in Socks \ {i} : sv[j].lost => server[j].lost
    BY <1>1, <1>2, <1>7, <1>11, <2>2, LosesDoes DEF Loses
  <2>4. at # "connecting" /\ at # "open"
    BY <2>1
  <2> QED
    BY <1>1, <2>2, <2>3, <2>4, TurnsConfirmed
<1>12. ASSUME NEW i \in Socks, WindowPasses(i) PROVE Confirmed(r, sv)
  <2>1. Passes(server, i, sv) /\ r = tab
    BY <1>1, <1>2, <1>12, PassesDoes DEF WindowPasses
  <2>2. \A j \in Socks : sv[j].lost => server[j].lost
    BY <2>1 DEF Passes
  <2>3. \A j, m : IsConfirm(tab, j, m) => j \in Socks
    BY <1>1 DEF IsConfirm
  <2> QED
    BY <2>1, <2>2, <2>3 DEF Confirmed
<1>13. CASE UNCHANGED cvars
  BY <1>2, <1>13 DEF cvars
<1>14. CASE CallsNext
  BY <1>3, <1>4, <1>5, <1>6, <1>8, <1>9, <1>10, <1>11, <1>12, <1>14
     DEF CallsNext, Progress, Close, Drop
<1> QED
  BY <1>13, <1>14

\* What is needed of the steps, in one.
CallsSound == Typed /\ Placed(tab, left) /\ Once(tab, server) /\ Confirmed(tab, server)

LEMMA CallsSoundAlways == CallsSpec => []CallsSound
<1>1. CallsInit => CallsSound
  BY TypedInit, PlacedInit, OnceInit, ConfirmedInit DEF CallsSound
<1>2. CallsSound /\ [CallsNext]_cvars => CallsSound'
  BY TypedNext, PlacedNext, OnceNext, ConfirmedNext DEF CallsSound
<1> QED
  BY <1>1, <1>2, PTL DEF CallsSpec

\* Every reachable state of the window and of the server has its type: a call
\* waits when it is in arrWaitingCalls, and one that was sent has a session.
THEOREM CallsTypeCorrect == CallsSpec => []CallsTypeOK
<1>1. ASSUME CallsSound PROVE CallsTypeOK
  <2>1. /\ Formed(tab) /\ Listed(tab, <<>>) /\ Sessions(server, Len(tab.calls))
        /\ drops \in 0 .. MaxDrops /\ left \subseteq Places
    BY <1>1 DEF CallsSound, Typed
  <2>2. RangeOf(<<>>) = {}
    BY DEF RangeOf
  <2>3. tab \in WindowType /\ Len(tab.socks) <= MaxSockets /\ Len(tab.calls) <= MaxCalls
    BY <2>1 DEF Formed
  <2>4. server \in [Socks -> SessionType]
    BY <2>1 DEF Sessions
  <2>5. \A c \in 1 .. Len(tab.calls) : /\ tab.calls[c].at = "waiting" <=> c \in RangeOf(tab.waiting)
                                       /\ tab.calls[c].at = "sent" => tab.calls[c].session # 0
    BY <2>1, <2>2 DEF Listed
  <2> QED
    BY <2>1, <2>3, <2>4, <2>5 DEF CallsTypeOK
<1> QED
  BY <1>1, CallsSoundAlways, PTL

\* A call in a session, on its way to one or waiting is there once.
LEMMA SpotIsOne ==
    ASSUME Typed, Once(tab, server), NEW c \in 1 .. Len(tab.calls), NEW x \in Spots(c), NEW y \in Spots(c)
    PROVE  /\ x = y /\ tab.calls[c].at \in {"waiting", "sent", "answered"}
           /\ tab.calls[c].at = "answered" => \E i : Works(server, i, 1, c) /\ x = <<"work", i>>
<1>1. /\ Formed(tab) /\ Listed(tab, <<>>) /\ Sessions(server, Len(tab.calls))
  BY DEF Typed
<1> DEFINE W(z) == \E n \in 1 .. Len(tab.waiting) : tab.waiting[n] = c /\ z = <<"waiting", n>>
           U(z) == \E i, m : Carries(tab, i, m, c) /\ z = <<"up", i>>
           S(z) == \E i, m : Works(server, i, m, c) /\ z = <<"work", i>>
<1>2. ASSUME NEW z \in Spots(c) PROVE W(z) \/ U(z) \/ S(z)
  <2>1. CASE \E n \in {m \in 1 .. Len(tab.waiting) : tab.waiting[m] = c} : z = <<"waiting", n>>
    BY <2>1
  <2>2. CASE \E i \in {j \in 1 .. Len(tab.socks) :
                           [kind |-> "call", c |-> c] \in RangeOf(tab.socks[j].up)} : z = <<"up", i>>
    <3>1. PICK i \in 1 .. Len(tab.socks) : [kind |-> "call", c |-> c] \in RangeOf(tab.socks[i].up) /\ z = <<"up", i>>
      BY <2>2
    <3>2. PICK m \in 1 .. Len(tab.socks[i].up) : tab.socks[i].up[m] = [kind |-> "call", c |-> c]
      BY <3>1 DEF RangeOf
    <3>3. Carries(tab, i, m, c)
      BY <3>2 DEF Carries
    <3> QED
      BY <3>1, <3>3
  <2>3. CASE \E i \in {j \in Socks : c \in RangeOf(server[j].work)} : z = <<"work", i>>
    <3>1. PICK i \in Socks : c \in RangeOf(server[i].work) /\ z = <<"work", i>>
      BY <2>3
    <3>2. PICK m \in 1 .. Len(server[i].work) : server[i].work[m] = c
      BY <3>1 DEF RangeOf
    <3>3. Works(server, i, m, c)
      BY <3>2 DEF Works
    <3> QED
      BY <3>1, <3>3
  <2> QED
    BY <2>1, <2>2, <2>3 DEF Spots
<1>3. ASSUME NEW z, W(z) PROVE tab.calls[c].at = "waiting"
  BY <1>1, <1>3 DEF Listed, RangeOf
<1>4. ASSUME NEW z, U(z) PROVE tab.calls[c].at = "sent"
  BY <1>4 DEF Once
<1>4a. ASSUME NEW z, S(z)
       PROVE  \/ tab.calls[c].at = "sent"
              \/ tab.calls[c].at = "answered" /\ \E i : Works(server, i, 1, c) /\ z = <<"work", i>>
  BY <1>4a DEF Once, AtWork
<1>5. ASSUME W(x), W(y) PROVE x = y
  <2>1. PICK m, n \in 1 .. Len(tab.waiting) :
            tab.waiting[m] = c /\ tab.waiting[n] = c /\ x = <<"waiting", m>> /\ y = <<"waiting", n>>
    BY <1>5
  <2>2. m = n
    BY <1>1, <2>1 DEF Listed, NoTwice
  <2> QED
    BY <2>1, <2>2
<1>6. ASSUME U(x), U(y) PROVE x = y
  BY <1>6 DEF Once
<1>7. ASSUME S(x), S(y) PROVE x = y
  BY <1>7 DEF Once
<1>8. ~ (U(x) /\ S(y)) /\ ~ (S(x) /\ U(y))
  BY DEF Once
<1>9. (W(x) \/ U(x) \/ S(x)) /\ (W(y) \/ U(y) \/ S(y))
  BY <1>2
<1>10. "waiting" # "sent" /\ "waiting" # "answered" /\ "sent" # "answered"
  OBVIOUS
<1> HIDE DEF W, U, S
<1>11. W(x) => tab.calls[c].at = "waiting"
  BY <1>3
<1>12. W(y) => tab.calls[c].at = "waiting"
  BY <1>3
<1>13. U(x) => tab.calls[c].at = "sent"
  BY <1>4
<1>14. U(y) => tab.calls[c].at = "sent"
  BY <1>4
<1>15. S(x) => \/ tab.calls[c].at = "sent"
               \/ tab.calls[c].at = "answered" /\ \E i : Works(server, i, 1, c) /\ x = <<"work", i>>
  BY <1>4a
<1>16. S(y) => tab.calls[c].at \in {"sent", "answered"}
  BY <1>4a
<1> QED
  BY <1>5, <1>6, <1>7, <1>8, <1>9, <1>10, <1>11, <1>12, <1>13, <1>14, <1>15, <1>16

\* However often websockets are opened again, a call is given to one session
\* once, and to none after it has failed; once its callback has run it is at
\* most the request whose CONFIRM its session waits for (socket.onmessage makes
\* the waiting calls again, and marks the sent ones with the new session).
THEOREM CallsAreMadeOnceAlways == CallsSpec => []CallsAreMadeOnce
<1>1. ASSUME CallsSound PROVE CallsAreMadeOnce
  <2>1. Typed /\ Once(tab, server)
    BY <1>1 DEF CallsSound
  <2>2. ASSUME NEW c \in 1 .. Len(tab.calls)
        PROVE  Cardinality(Spots(c)) <= IF tab.calls[c].at = "failed" THEN 0 ELSE 1
    <3>1. CASE Spots(c) = {}
      BY <3>1, FS_EmptySet
    <3>2. CASE Spots(c) # {}
      <4>1. PICK x : x \in Spots(c)
        BY <3>2
      <4>2. \A y \in Spots(c) : y = x
        BY <2>1, <4>1, SpotIsOne
      <4>3. tab.calls[c].at \in {"waiting", "sent", "answered"}
        BY <2>1, <4>1, SpotIsOne
      <4>4. Spots(c) = {x}
        BY <4>1, <4>2
      <4>5. Cardinality(Spots(c)) = 1
        BY Zenon, <4>4, FS_Singleton
      <4> QED
        BY <4>3, <4>5
    <3> QED
      BY <3>1, <3>2
  <2>3. ASSUME NEW i \in Socks, NEW m \in 1 .. Len(server[i].work), NEW n \in 1 .. Len(server[i].work),
               server[i].work[m] = server[i].work[n]
        PROVE  m = n
    <3>1. Works(server, i, m, server[i].work[m]) /\ Works(server, i, n, server[i].work[m])
      BY <2>3 DEF Works
    <3> QED
      BY <2>1, <3>1 DEF Once
  <2>4. ASSUME NEW c \in 1 .. Len(tab.calls), tab.calls[c].at = "answered", NEW x \in Spots(c)
        PROVE  \E i \in Socks : x = <<"work", i>> /\ c = Head(server[i].work)
    <3>1. PICK i : Works(server, i, 1, c) /\ x = <<"work", i>>
      BY <2>1, <2>4, SpotIsOne
    <3>2. i \in Socks /\ c = Head(server[i].work)
      BY <3>1 DEF Works
    <3> QED
      BY <3>1, <3>2
  <2> QED
    BY <2>2, <2>3, <2>4 DEF CallsAreMadeOnce
<1> QED
  BY <1>1, CallsSoundAlways, PTL

-----------------------------------------------------------------------------
(* The sessions of the websockets.                                         *)

\* A session that is not alive does no work.
Idle(sv) ==
    \A i \in Socks :
        /\ sv[i].line = 0 => ~ sv[i].alive
        /\ ~ sv[i].alive => sv[i].work = <<>> /\ ~ sv[i].lost
        /\ sv[i].work = <<>> => ~ sv[i].lost

\* An open websocket has a session; the one it was moved from is not alive.
Reached(t, sv) ==
    /\ \A i \in Socks : i > Len(t.socks) => sv[i].line = 0
    /\ \A i \in 1 .. Len(t.socks) :
           LET s == t.socks[i] IN
           /\ s.at = "connecting" => sv[i].line = 0
           /\ s.at = "open" => sv[i].alive
           /\ s.old # 0 => sv[s.old].line # 0
           /\ s.old # 0 /\ sv[i].line # 0 => ~ sv[s.old].alive
           /\ s.sid = i => sv[i].line # 0

Served(t, sv) == Idle(sv) /\ Reached(t, sv)

\* The session of the websocket of a place was there.
LEMMA SidReached ==
    ASSUME NEW t, Formed(t), NEW l, Placed(t, l), NEW sv, Reached(t, sv), NEW i \in 1 .. Len(t.socks), t.socks[i].sid # 0
    PROVE  /\ t.socks[i].sid \in 1 .. Len(t.socks) /\ sv[t.socks[i].sid].line # 0
           /\ t.socks[i].sid = i \/ t.socks[i].sid = t.socks[i].old
<1>1. /\ t.socks[i].sid \in {i, t.socks[i].old} /\ t.socks[i].old < i /\ t.socks[i].old \in Nat
  BY Zenon, FormedTypes, Numbers DEF Placed, Older, SocketType
<1>2. t.socks[i].sid \in 1 .. Len(t.socks)
  BY <1>1
<1> QED
  BY <1>1, <1>2 DEF Reached

LEMMA MovesServed ==
    ASSUME NEW t, NEW u, NEW p, NEW i, NEW sid, Moves(t, p, i, sid, u), NEW l, Placed(t, l),
           NEW sv, Served(t, sv)
    PROVE  Served(u, sv)
<1>1. /\ Formed(t) /\ Formed(u) /\ p \in Places /\ sid \in Ids /\ Len(u.socks) = Len(t.socks) + 1
      /\ \A j \in 1 .. Len(t.socks) :
             /\ u.socks[j].sid = t.socks[j].sid /\ u.socks[j].old = t.socks[j].old
             /\ u.socks[j].at \in {"closing", "closed"} \/ u.socks[j].at = t.socks[j].at
      /\ LET s == u.socks[Len(t.socks) + 1] IN
         s.at = "connecting" /\ s.sid = sid /\ s.old = sid
      /\ sid # 0 => t.place[p] # 0 /\ sid = t.socks[t.place[p]].sid
  BY DEF Moves
<1>2. Len(t.socks) \in Nat /\ Len(t.socks) + 1 \in Socks
  BY <1>1, FormedTypes DEF Formed, Socks
<1>3. sid # 0 => sid \in 1 .. Len(t.socks) /\ sv[sid].line # 0
  BY <1>1, FormedTypes, SidReached DEF Served
<1>4. ASSUME NEW j \in Socks, j > Len(u.socks) PROVE sv[j].line = 0
  <2>1. j > Len(t.socks)
    BY <1>1, <1>2, <1>4 DEF Socks
  <2> QED
    BY <2>1 DEF Served, Reached
<1>5. ASSUME NEW j \in 1 .. Len(u.socks)
      PROVE  LET s == u.socks[j] IN
             /\ s.at = "connecting" => sv[j].line = 0
             /\ s.at = "open" => sv[j].alive
             /\ s.old # 0 => sv[s.old].line # 0
             /\ s.old # 0 /\ sv[j].line # 0 => ~ sv[s.old].alive
             /\ s.sid = j => sv[j].line # 0
  <2>1. CASE j \in 1 .. Len(t.socks)
    <3>1. LET s == t.socks[j] IN
          /\ s.at = "connecting" => sv[j].line = 0
          /\ s.at = "open" => sv[j].alive
          /\ s.old # 0 => sv[s.old].line # 0
          /\ s.old # 0 /\ sv[j].line # 0 => ~ sv[s.old].alive
          /\ s.sid = j => sv[j].line # 0
      BY <2>1 DEF Served, Reached
    <3>2. /\ u.socks[j].sid = t.socks[j].sid /\ u.socks[j].old = t.socks[j].old
          /\ u.socks[j].at \in {"closing", "closed"} \/ u.socks[j].at = t.socks[j].at
      BY <1>1, <2>1
    <3> QED
      BY <3>1, <3>2
  <2>2. CASE j = Len(t.socks) + 1
    <3>1. sv[j].line = 0
      BY <1>2, <2>2 DEF Served, Reached
    <3>2. sid # j
      BY <1>2, <1>3, <2>2
    <3> QED
      BY <1>1, <1>3, <2>2, <3>1, <3>2
  <2> QED
    BY <1>1, <1>2, <2>1, <2>2
<1> QED
  BY <1>4, <1>5 DEF Served, Reached

LEMMA MakesServed ==
    ASSUME NEW u, Formed(u), NEW calls, NEW r, Makes(u, calls, r), NEW sv, Served(u, sv)
    PROVE  Served(r, sv)
<1>1. /\ Len(r.socks) = Len(u.socks)
      /\ \A j \in 1 .. Len(u.socks) :
             /\ r.socks[j].at = u.socks[j].at /\ r.socks[j].sid = u.socks[j].sid
             /\ r.socks[j].old = u.socks[j].old
  BY MakesSockets
<1> QED
  BY <1>1 DEF Served, Reached

LEMMA ResumesServed ==
    ASSUME NEW t, Formed(t), NEW X, NEW i \in 1 .. Len(t.socks), t.socks[i].at = "open",
           NEW r, Resumes(t, X, i, r), NEW sv, Served(t, sv)
    PROVE  Served(r, sv)
<1>1. /\ Len(r.socks) = Len(t.socks) /\ i \in Socks
      /\ \A j \in 1 .. Len(t.socks) :
             /\ r.socks[j].at = t.socks[j].at /\ r.socks[j].old = t.socks[j].old
             /\ r.socks[j].sid = IF j = i THEN i ELSE t.socks[j].sid
  <2>1. Len(r.socks) = Len(t.socks) /\ i \in Socks
    BY FormedTypes DEF Resumes
  <2>2. Knows(t, i, r)
    BY ResumesSockets
  <2> QED
    BY <2>1, <2>2 DEF Knows
<1>2. sv[i].line # 0
  BY <1>1 DEF Served, Reached, Idle
<1> QED
  BY <1>1, <1>2 DEF Served, Reached

LEMMA TurnsServed ==
    ASSUME NEW t, Formed(t), NEW i \in 1 .. Len(t.socks), NEW at, NEW up, NEW timer, NEW r,
           Turns(t, i, at, up, timer, r), at = "closed" \/ (at = "open" /\ t.socks[i].at = "open"),
           NEW sv, Served(t, sv)
    PROVE  Served(r, sv)
<1>1. /\ Len(r.socks) = Len(t.socks)
      /\ \A j \in 1 .. Len(t.socks) :
             /\ r.socks[j].sid = t.socks[j].sid /\ r.socks[j].old = t.socks[j].old
             /\ r.socks[j].at = IF j = i THEN at ELSE t.socks[j].at
  BY DEF Turns
<1> QED
  BY <1>1 DEF Served, Reached

\* The work of a session changes.
LEMMA WorkServed ==
    ASSUME NEW t, Formed(t), NEW i \in Socks, NEW sv, Served(t, sv), NEW sv2,
           \A j \in Socks \ {i} : sv2[j] = sv[j],
           sv2[i].line = sv[i].line, sv2[i].alive => sv[i].alive,
           ~ sv2[i].alive => sv2[i].work = <<>> /\ ~ sv2[i].lost,
           sv2[i].work = <<>> => ~ sv2[i].lost,
           ~ sv2[i].alive /\ sv[i].alive => i \in 1 .. Len(t.socks) /\ t.socks[i].at # "open"
    PROVE  Served(t, sv2)
<1>1. \A j \in Socks : sv2[j].line = sv[j].line /\ (sv2[j].alive => sv[j].alive)
  OBVIOUS
<1>2. Idle(sv2)
  BY <1>1 DEF Served, Idle
<1>3. ASSUME NEW j \in 1 .. Len(t.socks)
      PROVE  LET s == t.socks[j] IN
             /\ s.at = "connecting" => sv2[j].line = 0
             /\ s.at = "open" => sv2[j].alive
             /\ s.old # 0 => sv2[s.old].line # 0
             /\ s.old # 0 /\ sv2[j].line # 0 => ~ sv2[s.old].alive
             /\ s.sid = j => sv2[j].line # 0
  <2>1. j \in Socks /\ t.socks[j].old \in Ids
    BY Zenon, FormedTypes DEF SocketType
  <2>2. t.socks[j].old # 0 => t.socks[j].old \in Socks
    BY <2>1, Numbers DEF Ids, Socks
  <2>3. LET s == t.socks[j] IN
             /\ s.at = "connecting" => sv[j].line = 0
             /\ s.at = "open" => sv[j].alive
             /\ s.old # 0 => sv[s.old].line # 0
             /\ s.old # 0 /\ sv[j].line # 0 => ~ sv[s.old].alive
             /\ s.sid = j => sv[j].line # 0
    BY DEF Served, Reached
  <2>4. t.socks[j].at = "open" => sv2[j].alive
    BY <2>1, <2>3
  <2> QED
    BY Zenon, <1>1, <2>1, <2>2, <2>3, <2>4
<1> QED
  BY <1>1, <1>2, <1>3 DEF Served, Reached

\* The server has been reached by websocket i, which is open then or lost.
LEMMA RecoversServed ==
    ASSUME NEW t, Formed(t), NEW l, Placed(t, l), NEW i \in 1 .. Len(t.socks),
           NEW sv, Sessions(sv, Len(t.calls)), Served(t, sv), sv[i].line = 0,
           NEW at \in {"open", "closed"}, NEW up, NEW timer, NEW r, Turns(t, i, at, up, timer, r),
           NEW sv2, Recovers(t, sv, i, sv2)
    PROVE  Served(r, sv2)
<1>1. /\ Len(r.socks) = Len(t.socks)
      /\ \A j \in 1 .. Len(t.socks) :
             /\ r.socks[j].sid = t.socks[j].sid /\ r.socks[j].old = t.socks[j].old
             /\ r.socks[j].at = IF j = i THEN at ELSE t.socks[j].at
  BY DEF Turns
<1>2. PICK o : o = t.socks[i].old
  OBVIOUS
<1>3. /\ o \in Nat /\ o < i /\ i \in Socks /\ Len(t.socks) \in Nat /\ i \in Nat /\ i # 0
      /\ 1 .. Len(t.socks) \subseteq Socks
  <2>1. 1 .. Len(t.socks) \subseteq Socks /\ Len(t.socks) \in Nat /\ t.socks[i] \in SocketType
    BY FormedTypes
  <2>2. o \in Nat /\ o < i
    BY Zenon, <1>2, <2>1, Numbers DEF Placed, Older, SocketType
  <2> QED
    BY <2>1, <2>2
<1>4. o # 0 => /\ o \in 1 .. Len(t.socks) /\ o \in Socks /\ t.socks[o].at # "open"
               /\ t.socks[o].at # "connecting" /\ sv[o].line # 0
  <2>1. SUFFICES ASSUME o # 0
                 PROVE  /\ o \in 1 .. Len(t.socks) /\ t.socks[o].at \notin {"open", "connecting"}
                        /\ sv[o].line # 0
    BY <1>3
  <2>2. o \in 1 .. Len(t.socks)
    BY <1>3, <2>1
  <2>3. \A p \in Places : t.place[p] # o
    BY <1>2, <2>1 DEF Placed, OldApart
  <2> QED
    BY <1>2, <2>1, <2>2, <2>3 DEF Placed, AtPlaces, Served, Reached
<1>5. /\ sv2[i].line # 0 /\ sv2[i].alive
      /\ \A j \in Socks \ {i} : sv2[j].line = sv[j].line /\ (sv2[j].alive => sv[j].alive)
      /\ \A j \in Socks \ {i, o} : sv2[j] = sv[j]
      /\ o # 0 => ~ sv2[o].alive
  <2>1. CASE o # 0 /\ sv[o].alive
    BY <1>2, <1>3, <1>4, <2>1 DEF Recovers
  <2>2. CASE ~ (o # 0 /\ sv[o].alive)
    BY <1>2, <1>3, <1>4, <2>2 DEF Recovers
  <2> QED
    BY <2>1, <2>2
<1>6. Idle(sv2)
  <2>1. CASE o # 0 /\ sv[o].alive
    <3>1. /\ sv2[i] = sv[o]
          /\ ~ sv2[o].alive /\ sv2[o].work = <<>> /\ ~ sv2[o].lost
          /\ \A j \in Socks \ {i, o} : sv2[j] = sv[j]
      BY <1>2, <2>1 DEF Recovers
    <3> QED
      BY <1>4, <2>1, <3>1 DEF Served, Idle
  <2>2. CASE ~ (o # 0 /\ sv[o].alive)
    <3>1. /\ sv2[i].alive /\ sv2[i].line = i /\ sv2[i].work = <<>> /\ ~ sv2[i].lost
          /\ \A j \in Socks \ {i} : sv2[j] = sv[j]
      BY <1>2, <2>2 DEF Recovers
    <3> QED
      BY <1>3, <3>1 DEF Served, Idle
  <2> QED
    BY <2>1, <2>2
<1>7. ASSUME NEW j \in 1 .. Len(t.socks)
      PROVE  LET s == r.socks[j] IN
             /\ s.at = "connecting" => sv2[j].line = 0
             /\ s.at = "open" => sv2[j].alive
             /\ s.old # 0 => sv2[s.old].line # 0
             /\ s.old # 0 /\ sv2[j].line # 0 => ~ sv2[s.old].alive
             /\ s.sid = j => sv2[j].line # 0
  <2>1. PICK q : q = t.socks[j].old
    OBVIOUS
  <2>2. q \in Ids /\ (q # 0 => q \in Socks)
    BY SMTT(30), <2>1, FormedTypes, Numbers DEF SocketType, Ids, Socks
  <2>3. /\ t.socks[j].at = "connecting" => sv[j].line = 0
        /\ t.socks[j].at = "open" => sv[j].alive
        /\ q # 0 => sv[q].line # 0
        /\ q # 0 /\ sv[j].line # 0 => ~ sv[q].alive
        /\ t.socks[j].sid = j => sv[j].line # 0
    BY <2>1 DEF Served, Reached
  <2>4. q # i
    BY <1>3, <2>3
  <2>5. q # 0 => sv2[q].line = sv[q].line /\ (sv2[q].alive => sv[q].alive)
    BY <1>5, <2>2, <2>4
  <2>6. CASE j = i
    BY <1>1, <1>2, <1>5, <2>1, <2>3, <2>5, <2>6
  <2>7. CASE j # i
    <3>1. sv2[j].line = sv[j].line /\ j \in Socks
      BY <1>3, <1>5, <2>7
    <3>2. t.socks[j].at = "open" => j # o /\ sv2[j].alive
      BY <1>3, <1>4, <1>5, <2>3, <2>7
    <3> QED
      BY <1>1, <2>1, <2>3, <2>5, <2>7, <3>1, <3>2
  <2> QED
    BY <2>6, <2>7
<1>8. ASSUME NEW j \in Socks, j > Len(r.socks) PROVE sv2[j].line = 0
  <2>1. j # i
    BY <1>1, <1>3, <1>8
  <2> QED
    BY <1>1, <1>5, <1>8, <2>1 DEF Served, Reached
<1> QED
  BY <1>1, <1>6, <1>7, <1>8 DEF Served, Reached

LEMMA RequestingServed ==
    ASSUME NEW t, NEW u, NEW calls, Requesting(t, u, calls), NEW l, Placed(t, l), NEW sv, Served(t, sv)
    PROVE  Served(u, sv) /\ Served(tab', sv)
<1>1. PICK r : r = tab'
  OBVIOUS
<1>2. Formed(t) /\ Reopens(t, u) /\ Formed(u) /\ Makes(u, calls, r)
  BY <1>1 DEF Requesting
<1>3. u = t \/ Moves(t, Env, 0, 0, u)
  BY <1>2, ReopensMoves
<1>4. Served(u, sv)
  BY <1>3, MovesServed
<1>5. Served(r, sv)
  BY <1>2, <1>4, MakesServed
<1> QED
  BY <1>1, <1>4, <1>5

LEMMA ServedInit ==
    ASSUME CallsInit
    PROVE  Served(tab, server)
<1>1. PICK s : s = Socket(None, 0)
  OBVIOUS
<1>2. /\ s.at = "connecting" /\ s.sid = 0 /\ s.old = 0
  BY <1>1, NewSocket, Numbers
<1>3. tab.socks = <<s>>
  BY <1>1 DEF CallsInit
<1>4. /\ Len(tab.socks) = 1 /\ tab.socks[1] = s /\ 1 .. Len(tab.socks) = {1}
  BY <1>3
<1>5. \A i \in Socks : server[i] = NoSession
  BY DEF CallsInit, Socks
<1>6. ~ NoSession.alive /\ NoSession.line = 0 /\ NoSession.work = <<>> /\ ~ NoSession.lost
  BY Zenon, Numbers, NoSessionIs
<1>7. 1 \in Socks
  BY Numbers DEF Socks
<1> QED
  BY <1>2, <1>4, <1>5, <1>6, <1>7 DEF Served, Reached, Idle

LEMMA ServedNext ==
    ASSUME Typed, Placed(tab, left), Confirmed(tab, server), Served(tab, server), [CallsNext]_cvars
    PROVE  Served(tab, server)'
<1>1. /\ Formed(tab) /\ Listed(tab, <<>>) /\ Named(tab) /\ Sessions(server, Len(tab.calls))
      /\ 1 .. Len(tab.socks) \subseteq Socks
  BY FormedTypes DEF Typed
<1>2. PICK r, sv : r = tab' /\ sv = server'
  OBVIOUS
<1> SUFFICES Served(r, sv)
  BY <1>2 DEF Served, Idle, Reached
<1>3. ASSUME NEW p \in Places, OpenPlace(p) PROVE Served(r, sv)
  <2>1. Moves(tab, p, 0, 0, r) /\ sv = server
    BY <1>1, <1>2, <1>3, OpenPlaceMoves DEF OpenPlace
  <2> QED
    BY <2>1, MovesServed
<1>4. ASSUME NEW p \in Places, Call(p) PROVE Served(r, sv)
  <2>1. PICK t, u : Adds(tab, p, t) /\ Requesting(t, u, <<Len(tab.calls) + 1>>)
    BY <1>1, <1>4, CallRequests
  <2>2. t.place = tab.place /\ t.socks = tab.socks
    BY <2>1 DEF Adds
  <2>3. Placed(t, left)
    BY <2>2 DEF Placed, AtPlaces, Older, OldApart, Tended
  <2>4. Served(t, server)
    BY <2>2 DEF Served, Reached
  <2>5. PICK calls : calls = <<Len(tab.calls) + 1>>
    BY Zenon
  <2>6. sv = server
    BY <1>2, <1>4 DEF Call
  <2> QED
    BY <1>2, <2>1, <2>3, <2>4, <2>5, <2>6, RequestingServed
<1>5. ASSUME NEW i \in Socks, SessionArrives(i) PROVE Served(r, sv)
  <2>1. PICK X : X = Unfinished(i)
    OBVIOUS
  <2>2. PICK t, u : Resumes(tab, X, i, t) /\ Requesting(t, u, tab.waiting)
    BY <1>1, <1>5, <2>1, ArrivalRequests
  <2>3. i \in 1 .. Len(tab.socks) /\ tab.socks[i].at = "open"
    BY <1>5 DEF SessionArrives, Is
  <2>4. Placed(t, left)
    BY <1>1, <2>2, <2>3, ResumesPlaced
  <2>5. Served(t, server)
    BY <1>1, <2>2, <2>3, ResumesServed
  <2>6. sv = server
    BY <1>2, <1>5 DEF SessionArrives
  <2>7. PICK calls : calls = tab.waiting
    OBVIOUS
  <2> QED
    BY <1>2, <2>2, <2>4, <2>5, <2>6, <2>7, RequestingServed
<1>6. ASSUME NEW i \in Socks, Timer(i) PROVE Served(r, sv)
  <2>1. PICK p, sid : Moves(tab, p, i, sid, r)
    BY <1>1, <1>2, <1>6, TimerMoves
  <2>2. sv = server
    BY Zenon, <1>2, <1>6 DEF Timer
  <2> QED
    BY <2>1, <2>2, MovesServed
<1>7. ASSUME NEW i \in 1 .. Len(tab.socks), NEW at \in {"open", "closed"}, NEW up, NEW timer,
             Turns(tab, i, at, up, timer, r), server' = Recovered(i), server[i].line = 0
      PROVE  Served(r, sv)
  <2>1. tab.socks[i].old # i
    <3>1. tab.socks[i].old < i /\ i \in Nat
      BY <1>1 DEF Placed, Older
    <3> QED
      BY <3>1
  <2>2. Recovers(tab, server, i, sv)
    BY <1>1, <1>2, <1>7, <2>1, RecoveredDoes
  <2> QED
    BY <1>1, <1>7, <2>2, RecoversServed
<1>8. ASSUME NEW i \in Socks, Handshake(i) PROVE Served(r, sv)
  <2>1. PICK up, timer : up = tab.socks[i].up /\ timer = tab.socks[i].timer
    OBVIOUS
  <2>2. i \in 1 .. Len(tab.socks) /\ tab.socks[i].at = "connecting" /\ Turns(tab, i, "open", up, timer, r)
    BY <1>1, <1>2, <1>8, <2>1, HandshakeTurns
  <2>3. server' = Recovered(i)
    BY <1>8 DEF Handshake
  <2>4. server[i].line = 0
    BY <2>2 DEF Served, Reached
  <2> QED
    BY <1>7, <2>2, <2>3, <2>4
<1>9. ASSUME NEW i \in Socks, ReadFrame(i) PROVE Served(r, sv)
  <2>1. PICK up, timer, f : /\ up = Tail(tab.socks[i].up) /\ timer = tab.socks[i].timer
                            /\ f = Head(tab.socks[i].up)
    BY Zenon
  <2>2. i \in 1 .. Len(tab.socks) /\ tab.socks[i].at = "open" /\ Turns(tab, i, "open", up, timer, r)
        /\ tab.socks[i].up # <<>>
    BY <1>1, <1>2, <1>9, <2>1, ReadTurns
  <2>3. Reading(server, i, f, sv) /\ server[i].alive /\ Sessions(sv, Len(tab.calls))
    BY <1>1, <1>2, <1>9, <2>1, ReadsDoes
  <2>4. server[i].work \in Seq(CallIds) /\ server[i].alive
    BY <1>1, <2>3 DEF Sessions, SessionType
  <2>5. CASE Reads(server, i, f, sv)
    <3>1. f.kind = "call" => sv[i].work # <<>>
      <4>1. ASSUME sv[i].work = Append(server[i].work, f.c) PROVE sv[i].work # <<>>
        BY <2>4, <4>1
      <4> QED
        BY <2>5, <4>1 DEF Reads
    <3>2. sv[i].work = <<>> => ~ sv[i].lost
      BY Zenon, <2>5, <3>1 DEF Reads, Served, Idle
    <3>3. /\ \A j \in Socks \ {i} : sv[j] = server[j]
          /\ sv[i].line = server[i].line /\ sv[i].alive = server[i].alive
      BY <2>5 DEF Reads
    <3>4. sv[i].alive
      BY <2>4, <3>3
    <3>5. /\ sv[i].line = server[i].line
          /\ sv[i].alive => server[i].alive
          /\ ~ sv[i].alive => sv[i].work = <<>> /\ ~ sv[i].lost
          /\ sv[i].work = <<>> => ~ sv[i].lost
          /\ ~ sv[i].alive /\ server[i].alive => i \in 1 .. Len(tab.socks) /\ tab.socks[i].at # "open"
      BY <3>2, <3>3, <3>4
    <3>6. Served(tab, sv)
      BY <1>1, <3>3, <3>5, WorkServed
    <3> QED
      BY <1>1, <2>2, <3>6, TurnsServed
  <2>6. CASE f.kind = "confirm" /\ Pops(server, i, sv)
    <3>1. ~ server[i].lost
      BY <1>1, <2>1, <2>2, <2>6, ConfirmRead
    <3>2. /\ \A j \in Socks \ {i} : sv[j] = server[j]
          /\ sv[i].line = server[i].line /\ sv[i].alive = server[i].alive /\ ~ sv[i].lost
      BY <2>6, <3>1 DEF Pops
    <3>3. /\ sv[i].line = server[i].line
          /\ sv[i].alive => server[i].alive
          /\ ~ sv[i].alive => sv[i].work = <<>> /\ ~ sv[i].lost
          /\ sv[i].work = <<>> => ~ sv[i].lost
          /\ ~ sv[i].alive /\ server[i].alive => i \in 1 .. Len(tab.socks) /\ tab.socks[i].at # "open"
      BY <2>4, <3>2
    <3>4. Served(tab, sv)
      BY <1>1, <3>2, <3>3, WorkServed
    <3> QED
      BY <1>1, <2>2, <3>4, TurnsServed
  <2>7. CASE sv = server
    BY <1>1, <2>2, <2>7, TurnsServed
  <2> QED
    BY <2>3, <2>5, <2>6, <2>7 DEF Reading
<1>10. ASSUME NEW i \in Socks, Answer(i) PROVE Served(r, sv)
  <2>1. i \in 1 .. Len(tab.socks) /\ tab.socks[i].at = "open" /\ sv = server
    BY <1>1, <1>2, <1>10, AnswerHas
  <2>2. PICK u, up, timer : Turns(tab, i, "open", up, timer, u) /\ r.socks = u.socks
    BY <1>1, <1>2, <1>10, AnswerDoes DEF Replies
  <2>3. Served(u, sv)
    BY <1>1, <2>1, <2>2, TurnsServed
  <2> QED
    BY <2>2, <2>3 DEF Served, Reached
<1>11. ASSUME NEW i \in Socks, Closes(i) PROVE Served(r, sv)
  <2>1. PICK up, timer : up = <<>> /\ timer = ~ tab.socks[i].stay
    OBVIOUS
  <2>2. i \in 1 .. Len(tab.socks) /\ Turns(tab, i, "closed", up, timer, r)
    BY <1>1, <1>2, <1>11, <2>1, ClosesTurns
  <2>3. CASE Loses(server, i, sv)
    <3>1. /\ \A j \in Socks \ {i} : sv[j] = server[j]
          /\ sv[i].line = server[i].line /\ sv[i].alive = server[i].alive /\ sv[i].work = server[i].work
          /\ sv[i].work = <<>> => sv[i].lost = server[i].lost
      BY <2>3 DEF Loses
    <3>2. /\ ~ server[i].alive => server[i].work = <<>> /\ ~ server[i].lost
          /\ server[i].work = <<>> => ~ server[i].lost
      BY DEF Served, Idle
    <3>3. Served(tab, sv)
      BY <1>1, <3>1, <3>2, WorkServed
    <3> QED
      BY <1>1, <2>2, <3>3, TurnsServed
  <2>4. CASE server[i].line = 0 /\ server' = Recovered(i)
    BY <1>7, <2>2, <2>4
  <2> QED
    BY <1>1, <1>2, <1>11, <2>3, <2>4, LosesDoes
<1>12. ASSUME NEW i \in Socks, WindowPasses(i) PROVE Served(r, sv)
  <2>1. Passes(server, i, sv) /\ i \in 1 .. Len(tab.socks) /\ tab.socks[i].at = "closed"
    BY <1>1, <1>2, <1>12, PassesDoes
  <2>2. r = tab
    BY <1>2, <1>12 DEF WindowPasses
  <2>3. /\ \A j \in Socks \ {i} : sv[j] = server[j]
        /\ ~ sv[i].alive /\ sv[i].line = server[i].line /\ sv[i].work = <<>> /\ ~ sv[i].lost
    BY <2>1 DEF Passes
  <2>4. tab.socks[i].at # "open"
    BY <2>1
  <2>5. Served(tab, sv)
    BY <1>1, <2>1, <2>3, <2>4, WorkServed
  <2> QED
    BY <2>2, <2>5
<1>13. CASE UNCHANGED cvars
  BY <1>2, <1>13 DEF cvars
<1>14. CASE CallsNext
  BY <1>3, <1>4, <1>5, <1>6, <1>8, <1>9, <1>10, <1>11, <1>12, <1>14
     DEF CallsNext, Progress, Close, Drop
<1> QED
  BY <1>13, <1>14

LEMMA ServedAlways == CallsSpec => [](CallsSound /\ Served(tab, server))
<1>1. CallsInit => Served(tab, server)
  BY ServedInit
<1>2. CallsSound /\ Served(tab, server) /\ [CallsNext]_cvars => Served(tab, server)'
  BY ServedNext DEF CallsSound
<1> QED
  BY <1>1, <1>2, CallsSoundAlways, PTL DEF CallsSpec

\* At rest envSocket is open and has the session that its calls are given to,
\* whichever websockets were lost (the timer of onclose).
THEOREM EnvComesBackAlways == CallsSpec => []EnvComesBack
<1>1. ASSUME CallsSound, Served(tab, server) PROVE EnvComesBack
  <2>1. SUFFICES ASSUME AtRest
                 PROVE  tab.socks[tab.place[Env]].at = "open" /\ server[tab.place[Env]].alive
    BY DEF EnvComesBack
  <2>2. PICK e : e = tab.place[Env]
    OBVIOUS
  <2>3. Formed(tab) /\ Placed(tab, left) /\ Env \in Places
    BY <1>1, Numbers DEF CallsSound, Typed
  <2>4. e \in 1 .. Len(tab.socks) /\ e # 0
    BY <2>2, <2>3, FormedTypes DEF Formed
  <2>5. tab.socks[e].at \in {"open", "closed"} /\ ~ tab.socks[e].timer
    BY <2>1, <2>4 DEF AtRest
  <2>6. tab.socks[e].at # "closed"
    BY <2>2, <2>3, <2>4, <2>5 DEF Placed, Tended
  <2>7. server[e].alive
    BY <1>1, <2>4, <2>5, <2>6 DEF Served, Reached
  <2> QED
    BY <2>2, <2>5, <2>6, <2>7
<1> QED
  BY <1>1, ServedAlways, PTL

-----------------------------------------------------------------------------
(* The session of a place: a line is a session with those it was moved to. *)

\* A call that waits is for the websocket of its place, unless that one was
\* closed.
WaitsAtPlace(t) ==
    \A c \in 1 .. Len(t.calls) :
        LET k == t.calls[c] IN
        k.at = "waiting" => t.place[k.via] = k.to \/ t.socks[k.to].at \in {"closing", "closed"}

\* The calls that were sent from a place are of the line of its websocket.
OfTheLine(t, sv, l) ==
    \A c \in 1 .. Len(t.calls) :
        LET k == t.calls[c]
            s == t.socks[t.place[k.via]].sid IN
        k.at \in {"sent", "answered"} /\ k.via \notin l => s # 0 /\ sv[k.to].line = sv[s].line

\* The session of a websocket is of the line that it asked for.
StaysInLine(t, sv, l) ==
    \A p \in Places :
        LET e == t.place[p]
            o == t.socks[e].old IN
        e # 0 /\ p \notin l /\ t.socks[e].at = "open" /\ o # 0 => sv[e].line = sv[o].line

Lines(t, sv, l) == WaitsAtPlace(t) /\ OfTheLine(t, sv, l) /\ StaysInLine(t, sv, l)

LEMMA LinesLeft ==
    ASSUME NEW t, Formed(t), NEW sv, NEW l, Lines(t, sv, l), NEW l2, l \subseteq l2
    PROVE  Lines(t, sv, l2)
<1>1. OfTheLine(t, sv, l2)
  BY Zenon DEF Lines, OfTheLine
<1>2. StaysInLine(t, sv, l2)
  BY DEF Lines, StaysInLine
<1> QED
  BY <1>1, <1>2 DEF Lines

\* The call c and its place in a window.
LEMMA CallIs ==
    ASSUME NEW t, Formed(t), NEW c \in 1 .. Len(t.calls)
    PROVE  LET k == t.calls[c] IN
           /\ k \in CallType /\ k.via \in Places /\ k.to \in 1 .. Len(t.socks) /\ k.to \in Socks
           /\ t.place[k.via] # 0 /\ t.place[k.via] \in 1 .. Len(t.socks) /\ t.place[k.via] \in Socks
<1>1. t.calls[c] \in CallType /\ t.calls[c].via \in Places /\ 1 .. Len(t.socks) \subseteq Socks
  BY FormedTypes DEF CallType
<1>2. t.calls[c].to \in 1 .. Len(t.socks) /\ t.place[t.calls[c].via] # 0
  BY DEF Formed
<1> QED
  BY <1>1, <1>2, FormedTypes

LEMMA MovesLines ==
    ASSUME NEW t, NEW u, NEW p, NEW i, NEW sid, Moves(t, p, i, sid, u), NEW sv, NEW l, Lines(t, sv, l),
           \/ t.place[p] # 0 /\ sid = t.socks[t.place[p]].sid
           \/ t.place[p] = 0
           \/ p \in l
    PROVE  Lines(u, sv, l)
<1>1. /\ Formed(t) /\ Formed(u) /\ p \in Places /\ Len(u.socks) = Len(t.socks) + 1 /\ u.calls = t.calls
      /\ \A q \in Places : u.place[q] = IF q = p THEN Len(t.socks) + 1 ELSE t.place[q]
      /\ \A j \in 1 .. Len(t.socks) :
             /\ u.socks[j].sid = t.socks[j].sid /\ u.socks[j].old = t.socks[j].old
             /\ u.socks[j].at \in {"closing", "closed"} \/ (j # t.place[p] /\ u.socks[j].at = t.socks[j].at)
      /\ u.socks[Len(t.socks) + 1].at = "connecting" /\ u.socks[Len(t.socks) + 1].sid = sid
  BY DEF Moves
<1>2. WaitsAtPlace(u)
  <2>1. ASSUME NEW c \in 1 .. Len(t.calls), t.calls[c].at = "waiting"
        PROVE  \/ u.place[t.calls[c].via] = t.calls[c].to
               \/ u.socks[t.calls[c].to].at \in {"closing", "closed"}
    <3>1. /\ t.calls[c].via \in Places /\ t.calls[c].to \in 1 .. Len(t.socks)
      BY <1>1, CallIs
    <3>2. \/ t.place[t.calls[c].via] = t.calls[c].to
          \/ t.socks[t.calls[c].to].at \in {"closing", "closed"}
      BY <2>1 DEF Lines, WaitsAtPlace
    <3> QED
      BY Zenon, <1>1, <3>1, <3>2
  <2> QED
    BY <1>1, <2>1 DEF WaitsAtPlace
<1>3. OfTheLine(u, sv, l)
  <2>1. ASSUME NEW c \in 1 .. Len(t.calls), t.calls[c].at \in {"sent", "answered"}, t.calls[c].via \notin l
        PROVE  LET s == u.socks[u.place[t.calls[c].via]].sid IN s # 0 /\ sv[t.calls[c].to].line = sv[s].line
    <3>1. /\ t.calls[c].via \in Places /\ t.place[t.calls[c].via] \in 1 .. Len(t.socks)
          /\ t.place[t.calls[c].via] # 0
      BY <1>1, CallIs
    <3>2. LET s == t.socks[t.place[t.calls[c].via]].sid IN s # 0 /\ sv[t.calls[c].to].line = sv[s].line
      BY Zenon, <2>1 DEF Lines, OfTheLine
    <3>3. u.socks[u.place[t.calls[c].via]].sid = t.socks[t.place[t.calls[c].via]].sid
      BY Zenon, <1>1, <2>1, <3>1
    <3> QED
      BY <3>2, <3>3
  <2> QED
    BY Zenon, <1>1, <2>1 DEF OfTheLine
<1>4. StaysInLine(u, sv, l)
  <2>1. ASSUME NEW q \in Places, u.place[q] # 0, q \notin l, u.socks[u.place[q]].at = "open",
               u.socks[u.place[q]].old # 0
        PROVE  sv[u.place[q]].line = sv[u.socks[u.place[q]].old].line
    <3>1. q # p /\ u.place[q] = t.place[q]
      BY <1>1, <2>1
    <3>2. t.place[q] \in 1 .. Len(t.socks)
      BY <1>1, <2>1, <3>1, FormedTypes
    <3>3. t.socks[t.place[q]].at = "open" /\ t.socks[t.place[q]].old = u.socks[u.place[q]].old
      BY Zenon, <1>1, <2>1, <3>1, <3>2
    <3>4. t.place[q] # 0 /\ t.socks[t.place[q]].old # 0
      BY <2>1, <3>1, <3>3
    <3>5. sv[t.place[q]].line = sv[t.socks[t.place[q]].old].line
      BY <2>1, <3>3, <3>4 DEF Lines, StaysInLine
    <3> QED
      BY <3>1, <3>3, <3>5
  <2> QED
    BY <2>1 DEF StaysInLine
<1> QED
  BY <1>2, <1>3, <1>4 DEF Lines

LEMMA MakesLines ==
    ASSUME NEW u, Formed(u), NEW calls \in Seq(1 .. Len(u.calls)), Listed(u, calls),
           NEW r, Formed(r), Makes(u, calls, r), NEW l, Placed(u, l),
           NEW sv, Lines(u, sv, l)
    PROVE  Lines(r, sv, l)
<1>1. /\ Len(r.socks) = Len(u.socks) /\ r.place = u.place /\ Len(r.calls) = Len(u.calls)
      /\ \A j \in 1 .. Len(u.socks) :
             /\ r.socks[j].at = u.socks[j].at /\ r.socks[j].sid = u.socks[j].sid
             /\ r.socks[j].old = u.socks[j].old
  BY MakesSockets
<1>2. ASSUME NEW c \in 1 .. Len(u.calls), c \notin RangeOf(calls) PROVE r.calls[c] = u.calls[c]
  BY <1>2 DEF Makes
<1>3. ASSUME NEW c \in 1 .. Len(u.calls), c \in RangeOf(calls)
      PROVE  /\ IsMade(u, u.calls[c], r.calls[c]) /\ u.calls[c].at = "waiting"
             /\ r.calls[c].at # "failed" => u.place[r.calls[c].via] = r.calls[c].to
  <2>1. r.calls[c] = Made(u, u.calls[c])
    BY <1>3 DEF Makes
  <2>2. IsMade(u, u.calls[c], r.calls[c])
    BY <2>1, MadeDoes
  <2>3. u.calls[c].at = "waiting"
    BY <1>3 DEF Listed
  <2>4. \/ u.place[u.calls[c].via] = u.calls[c].to
        \/ u.socks[u.calls[c].to].at \in {"closing", "closed"}
    BY <2>3 DEF Lines, WaitsAtPlace
  <2> QED
    BY Zenon, <2>2, <2>3, <2>4 DEF IsMade
<1>4. WaitsAtPlace(r)
  <2>1. ASSUME NEW c \in 1 .. Len(u.calls), r.calls[c].at = "waiting"
        PROVE  \/ r.place[r.calls[c].via] = r.calls[c].to
               \/ r.socks[r.calls[c].to].at \in {"closing", "closed"}
    <3>1. CASE c \in RangeOf(calls)
      BY <1>1, <1>3, <2>1, <3>1
    <3>2. CASE c \notin RangeOf(calls)
      <4>1. u.calls[c].to \in 1 .. Len(u.socks)
        BY CallIs
      <4>2. \/ u.place[u.calls[c].via] = u.calls[c].to
            \/ u.socks[u.calls[c].to].at \in {"closing", "closed"}
        BY <1>2, <2>1, <3>2 DEF Lines, WaitsAtPlace
      <4> QED
        BY Zenon, <1>1, <1>2, <3>2, <4>1, <4>2
    <3> QED
      BY <3>1, <3>2
  <2> QED
    BY <1>1, <2>1 DEF WaitsAtPlace
<1>5. OfTheLine(r, sv, l)
  <2>1. ASSUME NEW c \in 1 .. Len(u.calls), r.calls[c].at \in {"sent", "answered"}, r.calls[c].via \notin l
        PROVE  LET s == r.socks[r.place[r.calls[c].via]].sid IN s # 0 /\ sv[r.calls[c].to].line = sv[s].line
    <3>1. CASE c \in RangeOf(calls)
      <4>1. PICK m, e : m = r.calls[c] /\ e = m.to
        OBVIOUS
      <4>2. /\ e \in 1 .. Len(u.socks) /\ u.socks[e].at = "open" /\ u.socks[e].sid # 0
            /\ u.place[m.via] = e /\ m.via \in Places
        BY <1>1, <1>3, <2>1, <3>1, <4>1, CallIs DEF IsMade
      <4>3. u.socks[e].sid \in {e, u.socks[e].old} /\ e # 0
        BY <4>2 DEF Placed, Older
      <4>4. sv[e].line = sv[u.socks[e].sid].line
        BY Zenon, <2>1, <4>1, <4>2, <4>3 DEF Lines, StaysInLine
      <4> QED
        BY Zenon, <1>1, <4>1, <4>2, <4>4
    <3>2. CASE c \notin RangeOf(calls)
      <4>1. u.place[u.calls[c].via] \in 1 .. Len(u.socks)
        BY CallIs
      <4>2. LET s == u.socks[u.place[u.calls[c].via]].sid IN s # 0 /\ sv[u.calls[c].to].line = sv[s].line
        BY Zenon, <1>2, <2>1, <3>2 DEF Lines, OfTheLine
      <4> QED
        BY Zenon, <1>1, <1>2, <3>2, <4>1, <4>2
    <3> QED
      BY Zenon, <3>1, <3>2
  <2> QED
    BY Zenon, <1>1, <2>1 DEF OfTheLine
<1>6. StaysInLine(r, sv, l)
  <2>1. ASSUME NEW q \in Places, r.place[q] # 0, q \notin l, r.socks[r.place[q]].at = "open",
               r.socks[r.place[q]].old # 0
        PROVE  sv[r.place[q]].line = sv[r.socks[r.place[q]].old].line
    <3>1. r.place[q] = u.place[q] /\ u.place[q] \in 1 .. Len(u.socks)
      BY <1>1, <2>1, FormedTypes
    <3> QED
      BY Zenon, <1>1, <2>1, <3>1 DEF Lines, StaysInLine
  <2> QED
    BY <2>1 DEF StaysInLine
<1> QED
  BY <1>4, <1>5, <1>6 DEF Lines

LEMMA ResumesLines ==
    ASSUME NEW t, Formed(t), NEW l, Placed(t, l), NEW X, NEW i \in 1 .. Len(t.socks), t.socks[i].at = "open",
           NEW r, Resumes(t, X, i, r), NEW sv, Lines(t, sv, l)
    PROVE  Lines(r, sv, l)
<1>1. /\ Len(r.socks) = Len(t.socks) /\ r.place = t.place /\ Len(r.calls) = Len(t.calls)
      /\ \A j \in 1 .. Len(t.socks) :
             /\ r.socks[j].at = t.socks[j].at /\ r.socks[j].old = t.socks[j].old
             /\ r.socks[j].sid = IF j = i THEN i ELSE t.socks[j].sid
  <2>1. Len(r.socks) = Len(t.socks) /\ r.place = t.place /\ Len(r.calls) = Len(t.calls)
    BY DEF Resumes
  <2>2. Knows(t, i, r)
    BY ResumesSockets
  <2> QED
    BY <2>1, <2>2 DEF Knows
<1>2. ASSUME NEW c \in 1 .. Len(t.calls)
      PROVE  /\ r.calls[c].via = t.calls[c].via /\ r.calls[c].to = t.calls[c].to /\ r.calls[c].at = t.calls[c].at
  <2>1. t.calls[c] \in CallType
    BY CallIs
  <2>2. r.calls[c] = t.calls[c] \/ r.calls[c] = [t.calls[c] EXCEPT !.session = i]
    BY Zenon DEF Resumes
  <2> QED
    BY <2>1, <2>2 DEF CallType
<1>3. WaitsAtPlace(r)
  <2>1. ASSUME NEW c \in 1 .. Len(t.calls), t.calls[c].at = "waiting"
        PROVE  \/ r.place[t.calls[c].via] = t.calls[c].to
               \/ r.socks[t.calls[c].to].at \in {"closing", "closed"}
    <3>1. t.calls[c].to \in 1 .. Len(t.socks)
      BY CallIs
    <3> QED
      BY Zenon, <1>1, <2>1, <3>1 DEF Lines, WaitsAtPlace
  <2> QED
    BY Zenon, <1>1, <1>2, <2>1 DEF WaitsAtPlace
<1>4. OfTheLine(r, sv, l)
  <2>1. ASSUME NEW c \in 1 .. Len(t.calls), t.calls[c].at \in {"sent", "answered"}, t.calls[c].via \notin l
        PROVE  LET s == r.socks[r.place[t.calls[c].via]].sid IN s # 0 /\ sv[t.calls[c].to].line = sv[s].line
    <3>1. PICK q, e : q = t.calls[c].via /\ e = t.place[q]
      OBVIOUS
    <3>2. q \in Places /\ e # 0 /\ e \in 1 .. Len(t.socks)
      BY <3>1, CallIs
    <3>3. LET s == t.socks[e].sid IN s # 0 /\ sv[t.calls[c].to].line = sv[s].line
      BY Zenon, <2>1, <3>1 DEF Lines, OfTheLine
    <3>4. CASE e = i
      <4>1. t.socks[e].sid \in {e, t.socks[e].old}
        BY <3>2 DEF Placed, Older
      <4>2. sv[e].line = sv[t.socks[e].sid].line
        BY Zenon, <2>1, <3>1, <3>2, <3>3, <3>4, <4>1 DEF Lines, StaysInLine
      <4> QED
        BY <1>1, <3>1, <3>2, <3>3, <3>4, <4>2
    <3>5. CASE e # i
      BY Zenon, <1>1, <3>1, <3>2, <3>3, <3>5
    <3> QED
      BY Zenon, <3>4, <3>5
  <2> QED
    BY Zenon, <1>1, <1>2, <2>1 DEF OfTheLine
<1>5. StaysInLine(r, sv, l)
  <2>1. ASSUME NEW q \in Places, r.place[q] # 0, q \notin l, r.socks[r.place[q]].at = "open",
               r.socks[r.place[q]].old # 0
        PROVE  sv[r.place[q]].line = sv[r.socks[r.place[q]].old].line
    <3>1. r.place[q] = t.place[q] /\ t.place[q] \in 1 .. Len(t.socks)
      BY <1>1, <2>1, FormedTypes
    <3> QED
      BY <1>1, <2>1, <3>1 DEF Lines, StaysInLine
  <2> QED
    BY <2>1 DEF StaysInLine
<1> QED
  BY <1>3, <1>4, <1>5 DEF Lines

\* The websockets close or stay as they are, and the lines stay.
LEMMA SameLines ==
    ASSUME NEW t, Formed(t), NEW l, Placed(t, l), NEW sv, Served(t, sv), Lines(t, sv, l),
           NEW r, r.place = t.place, Len(r.socks) = Len(t.socks), Len(r.calls) = Len(t.calls),
           \A j \in 1 .. Len(t.socks) :
               /\ r.socks[j].sid = t.socks[j].sid /\ r.socks[j].old = t.socks[j].old
               /\ r.socks[j].at = t.socks[j].at \/ r.socks[j].at = "closed",
           \A c \in 1 .. Len(t.calls) :
               /\ r.calls[c].via = t.calls[c].via /\ r.calls[c].to = t.calls[c].to
               /\ \/ r.calls[c].at = t.calls[c].at
                  \/ r.calls[c].at = "answered" /\ t.calls[c].at = "sent",
           NEW sv2, \A j \in Socks : sv2[j].line = sv[j].line
    PROVE  Lines(r, sv2, l)
<1>1. WaitsAtPlace(r)
  <2>1. ASSUME NEW c \in 1 .. Len(t.calls), r.calls[c].at = "waiting"
        PROVE  \/ r.place[r.calls[c].via] = r.calls[c].to
               \/ r.socks[r.calls[c].to].at \in {"closing", "closed"}
    <3>1. t.calls[c].to \in 1 .. Len(t.socks) /\ t.calls[c].at = "waiting"
      BY Zenon, <2>1, CallIs
    <3>2. t.place[t.calls[c].via] = t.calls[c].to \/ t.socks[t.calls[c].to].at \in {"closing", "closed"}
      BY <3>1 DEF Lines, WaitsAtPlace
    <3>3. r.socks[t.calls[c].to].at = t.socks[t.calls[c].to].at \/ r.socks[t.calls[c].to].at = "closed"
      BY <3>1
    <3>4. r.calls[c].via = t.calls[c].via /\ r.calls[c].to = t.calls[c].to
      OBVIOUS
    <3> QED
      BY <3>2, <3>3, <3>4
  <2> QED
    BY <2>1 DEF WaitsAtPlace
<1>2. OfTheLine(r, sv2, l)
  <2>1. ASSUME NEW c \in 1 .. Len(t.calls), r.calls[c].at \in {"sent", "answered"}, r.calls[c].via \notin l
        PROVE  LET s == r.socks[r.place[r.calls[c].via]].sid IN s # 0 /\ sv2[r.calls[c].to].line = sv2[s].line
    <3>1. r.calls[c].via = t.calls[c].via /\ r.calls[c].to = t.calls[c].to /\ t.calls[c].at \in {"sent", "answered"}
      BY <2>1
    <3>2. PICK q, e, s : q = t.calls[c].via /\ e = t.place[q] /\ s = t.socks[e].sid
      OBVIOUS
    <3>3. q \in Places /\ e \in 1 .. Len(t.socks) /\ t.calls[c].to \in Socks
      BY <3>2, CallIs
    <3>4. s # 0 /\ sv[t.calls[c].to].line = sv[s].line
      BY Zenon, <2>1, <3>1, <3>2 DEF Lines, OfTheLine
    <3>5. s \in 1 .. Len(t.socks) /\ s \in Socks
      BY Zenon, <3>2, <3>3, <3>4, SidReached, FormedTypes DEF Served
    <3>6. r.socks[r.place[r.calls[c].via]].sid = s
      BY SMTT(30), <3>1, <3>2, <3>3
    <3> QED
      BY Zenon, <3>1, <3>3, <3>4, <3>5, <3>6
  <2> QED
    BY Zenon, <2>1 DEF OfTheLine
<1>3. StaysInLine(r, sv2, l)
  <2>1. ASSUME NEW q \in Places, r.place[q] # 0, q \notin l, r.socks[r.place[q]].at = "open",
               r.socks[r.place[q]].old # 0
        PROVE  sv2[r.place[q]].line = sv2[r.socks[r.place[q]].old].line
    <3>1. PICK e, o : e = t.place[q] /\ o = t.socks[e].old
      OBVIOUS
    <3>2. r.place[q] = e /\ e \in 1 .. Len(t.socks) /\ e \in Socks
      BY <2>1, <3>1, FormedTypes
    <3>3. r.socks[e].old = o /\ t.socks[e].at = "open" /\ o # 0 /\ e # 0
      BY <2>1, <3>1, <3>2
    <3>4. o \in Ids
      BY <3>1, <3>2, FormedTypes DEF SocketType
    <3>5. o \in Socks
      BY <3>3, <3>4, Numbers DEF Ids, Socks
    <3>6. sv[e].line = sv[o].line
      BY <2>1, <3>1, <3>3 DEF Lines, StaysInLine
    <3> QED
      BY <3>2, <3>3, <3>5, <3>6
  <2> QED
    BY <2>1 DEF StaysInLine
<1> QED
  BY <1>1, <1>2, <1>3 DEF Lines

LEMMA RecoversLines ==
    ASSUME NEW t, Formed(t), NEW l, Placed(t, l), NEW i \in 1 .. Len(t.socks),
           NEW sv, Served(t, sv), Lines(t, sv, l), sv[i].line = 0,
           NEW at \in {"open", "closed"}, NEW up, NEW timer, NEW r, Turns(t, i, at, up, timer, r),
           at = "open" => t.socks[i].at = "connecting",
           NEW sv2, Recovers(t, sv, i, sv2),
           NEW l2, l \subseteq l2,
           at = "open" /\ t.socks[i].old # 0 /\ ~ sv[t.socks[i].old].alive
               => \A p \in Places : t.place[p] = i => p \in l2
    PROVE  Lines(r, sv2, l2)
<1>1. /\ Len(r.socks) = Len(t.socks) /\ r.place = t.place /\ r.calls = t.calls
      /\ \A j \in 1 .. Len(t.socks) :
             /\ r.socks[j].sid = t.socks[j].sid /\ r.socks[j].old = t.socks[j].old
             /\ r.socks[j].at = IF j = i THEN at ELSE t.socks[j].at
  BY DEF Turns
<1>2. PICK o : o = t.socks[i].old
  OBVIOUS
<1>3. 1 .. Len(t.socks) \subseteq Socks /\ t.socks[i] \in SocketType
  BY FormedTypes
<1>4. o \in Ids /\ (o # 0 => o \in Socks) /\ o < i
  BY <1>2, <1>3, Numbers DEF Placed, Older, SocketType, Ids, Socks
<1>5. /\ \A j \in Socks \ {i} : sv2[j].line = sv[j].line
      /\ o # 0 /\ sv[o].alive => sv2[i].line = sv[o].line
  <2>1. CASE o # 0 /\ sv[o].alive
    BY <1>2, <1>4, <2>1 DEF Recovers
  <2>2. CASE ~ (o # 0 /\ sv[o].alive)
    BY <1>2, <1>4, <2>2 DEF Recovers
  <2> QED
    BY <2>1, <2>2
<1>6. WaitsAtPlace(r)
  <2>1. ASSUME NEW c \in 1 .. Len(t.calls), t.calls[c].at = "waiting"
        PROVE  \/ r.place[t.calls[c].via] = t.calls[c].to
               \/ r.socks[t.calls[c].to].at \in {"closing", "closed"}
    <3>1. t.calls[c].to \in 1 .. Len(t.socks)
      BY CallIs
    <3>2. t.place[t.calls[c].via] = t.calls[c].to \/ t.socks[t.calls[c].to].at \in {"closing", "closed"}
      BY <2>1 DEF Lines, WaitsAtPlace
    <3> QED
      BY Zenon, <1>1, <3>1, <3>2
  <2> QED
    BY <1>1, <2>1 DEF WaitsAtPlace
<1>7. OfTheLine(r, sv2, l2)
  <2>1. ASSUME NEW c \in 1 .. Len(t.calls), t.calls[c].at \in {"sent", "answered"}, t.calls[c].via \notin l2
        PROVE  LET s == r.socks[r.place[t.calls[c].via]].sid IN s # 0 /\ sv2[t.calls[c].to].line = sv2[s].line
    <3>1. PICK q, e, s : q = t.calls[c].via /\ e = t.place[q] /\ s = t.socks[e].sid
      OBVIOUS
    <3>2. q \in Places /\ e \in 1 .. Len(t.socks) /\ t.calls[c].to \in Socks
      BY <3>1, CallIs
    <3>3. s # 0 /\ sv[t.calls[c].to].line = sv[s].line
      BY Zenon, <2>1, <3>1 DEF Lines, OfTheLine
    <3>4. s \in 1 .. Len(t.socks) /\ s \in Socks /\ sv[s].line # 0
      <4>1. Reached(t, sv)
        BY DEF Served
      <4>2. e \in 1 .. Len(t.socks) /\ t.socks[e].sid # 0
        BY Zenon, <3>1, <3>2, <3>3
      <4>3. t.socks[e].sid \in 1 .. Len(t.socks) /\ sv[t.socks[e].sid].line # 0
        BY <4>1, <4>2, SidReached
      <4> QED
        BY Zenon, <1>3, <3>1, <4>3
    <3>5. s # i /\ t.calls[c].to # i
      BY <3>3, <3>4
    <3>6. r.socks[r.place[t.calls[c].via]].sid = s
      BY Zenon, <1>1, <3>1, <3>2
    <3> QED
      BY Zenon, <1>5, <3>2, <3>3, <3>4, <3>5, <3>6
  <2> QED
    BY Zenon, <1>1, <2>1 DEF OfTheLine
<1>8. StaysInLine(r, sv2, l2)
  <2>1. ASSUME NEW q \in Places, r.place[q] # 0, q \notin l2, r.socks[r.place[q]].at = "open",
               r.socks[r.place[q]].old # 0
        PROVE  sv2[r.place[q]].line = sv2[r.socks[r.place[q]].old].line
    <3>1. PICK e, x : e = t.place[q] /\ x = t.socks[e].old
      OBVIOUS
    <3>2. r.place[q] = e /\ e \in 1 .. Len(t.socks) /\ e \in Socks
      BY <1>1, <1>3, <2>1, <3>1, FormedTypes
    <3>3. r.socks[e].old = x /\ x # 0 /\ e # 0
      BY <1>1, <2>1, <3>1, <3>2
    <3>4. x \in Ids
      BY <3>1, <3>2, FormedTypes DEF SocketType
    <3>5. x \in Socks
      BY <3>3, <3>4, Numbers DEF Ids, Socks
    <3>6. sv[x].line # 0
      BY <3>1, <3>2, <3>3 DEF Served, Reached
    <3>7. sv2[x].line = sv[x].line
      BY <1>5, <3>5, <3>6
    <3>8. CASE e = i
      <4>1. at = "open" /\ x = o
        BY <1>1, <1>2, <2>1, <3>1, <3>2, <3>8
      <4>2. sv[o].alive
        BY Zenon, <1>2, <2>1, <3>1, <3>3, <3>8, <4>1
      <4> QED
        BY <1>5, <3>2, <3>3, <3>7, <3>8, <4>1, <4>2
    <3>9. CASE e # i
      <4>1. t.socks[e].at = "open"
        BY <1>1, <2>1, <3>2, <3>9
      <4>2. sv[e].line = sv[x].line
        BY <2>1, <3>1, <3>3, <4>1 DEF Lines, StaysInLine
      <4> QED
        BY <1>5, <3>2, <3>3, <3>7, <3>9, <4>2
    <3> QED
      BY <3>8, <3>9
  <2> QED
    BY <2>1 DEF StaysInLine
<1> QED
  BY <1>6, <1>7, <1>8 DEF Lines

\* The calls of a step that makes them; GS.envSocket may be opened for them.
LEMMA RequestingLines ==
    ASSUME NEW t, NEW u, NEW calls, Requesting(t, u, calls), NEW l, Placed(t, l), NEW sv, Lines(t, sv, l),
           NEW l2, l2 = IF tab'.place[Env] # t.place[Env] THEN l \cup {Env} ELSE l
    PROVE  Lines(tab', sv, l2)
<1>1. PICK r : r = tab'
  OBVIOUS
<1>2. /\ Formed(t) /\ Listed(t, calls) /\ calls \in Seq(1 .. Len(t.calls)) /\ Reopens(t, u) /\ Formed(u)
      /\ u.calls = t.calls /\ u.waiting = t.waiting /\ Makes(u, calls, r) /\ Formed(r)
  BY <1>1 DEF Requesting
<1>3. Listed(u, calls) /\ calls \in Seq(1 .. Len(u.calls))
  BY <1>2 DEF Listed
<1>4. r.place = u.place
  BY <1>2, MakesSockets
<1>5. u = t \/ Moves(t, Env, 0, 0, u)
  BY <1>2, ReopensMoves
<1>6. l \subseteq l2 /\ Placed(u, l2)
  <2>1. l \subseteq l2
    OBVIOUS
  <2>2. Placed(u, l)
    BY <1>2, ReopensPlaced
  <2> QED
    BY <1>2, <2>1, <2>2, SameStays
<1>7. Lines(u, sv, l2)
  <2>1. CASE u = t
    BY <1>2, <1>6, <2>1, LinesLeft
  <2>2. CASE Moves(t, Env, 0, 0, u)
    <3>1. u.place[Env] = Len(t.socks) + 1
      BY <2>2, Numbers DEF Moves
    <3>2. t.place[Env] \in 1 .. Len(t.socks) /\ Len(t.socks) \in Nat
      BY <1>2, FormedTypes
    <3>3. Env \in l2
      BY <1>1, <1>4, <3>1, <3>2
    <3>4. Lines(t, sv, l2)
      BY <1>2, <1>6, LinesLeft
    <3> QED
      BY <2>2, <3>3, <3>4, MovesLines
  <2> QED
    BY <1>5, <2>1, <2>2
<1>8. Lines(r, sv, l2)
  BY <1>2, <1>3, <1>6, <1>7, MakesLines
<1> QED
  BY <1>1, <1>8

LEMMA LinesInit ==
    ASSUME CallsInit
    PROVE  Lines(tab, server, left)
<1>1. PICK s : s = Socket(None, 0)
  OBVIOUS
<1>2. s.at = "connecting"
  BY <1>1, NewSocket, Numbers
<1>3. PICK t, e : t = tab /\ e = <<>>
  OBVIOUS
<1>4. /\ t.socks = <<s>> /\ t.place = [p \in Places |-> IF p = Env THEN 1 ELSE 0] /\ t.calls = e
  BY <1>1, <1>3 DEF CallsInit
<1>5. Len(e) = 0 /\ t.socks[1] = s
  BY <1>3, <1>4
<1>6. \A p \in Places : t.place[p] = 0 \/ t.place[p] = 1
  BY <1>4
<1>7. \A p \in Places : t.place[p] # 0 => t.socks[t.place[p]].at # "open"
  BY <1>2, <1>5, <1>6
<1>8. Lines(t, server, left)
  BY <1>4, <1>5, <1>7 DEF Lines, WaitsAtPlace, OfTheLine, StaysInLine
<1> QED
  BY <1>3, <1>8

LEMMA AddsLines ==
    ASSUME NEW t, Formed(t), NEW p \in Places, NEW r, Adds(t, p, r), NEW sv, NEW l, Lines(t, sv, l)
    PROVE  Lines(r, sv, l)
<1>1. PICK k : k = [via |-> p, to |-> t.place[p], at |-> "waiting", session |-> 0]
  BY Zenon
<1>2. /\ k.via = p /\ k.to = t.place[p] /\ k.at = "waiting"
  BY <1>1
<1>3. r.socks = t.socks /\ r.place = t.place /\ r.calls = Append(t.calls, k)
  BY <1>1 DEF Adds
<1>4. Len(r.calls) = Len(t.calls) + 1 /\ Len(t.calls) \in Nat
  BY <1>3, FormedTypes
<1>5. ASSUME NEW c \in 1 .. Len(r.calls)
      PROVE  r.calls[c] = k \/ (c \in 1 .. Len(t.calls) /\ r.calls[c] = t.calls[c])
  <2>1. t.calls \in Seq(CallType)
    BY FormedTypes
  <2> QED
    BY <1>3, <1>4, <1>5, <2>1
<1>6. WaitsAtPlace(r)
  BY <1>2, <1>3, <1>5 DEF Lines, WaitsAtPlace
<1>7. OfTheLine(r, sv, l)
  BY Zenon, <1>2, <1>3, <1>5 DEF Lines, OfTheLine
<1>8. StaysInLine(r, sv, l)
  BY <1>3 DEF Lines, StaysInLine
<1> QED
  BY <1>6, <1>7, <1>8 DEF Lines

LEMMA LinesNext ==
    ASSUME Typed, Placed(tab, left), Once(tab, server), Served(tab, server), Lines(tab, server, left),
           [CallsNext]_cvars
    PROVE  Lines(tab, server, left)'
<1>1. /\ Formed(tab) /\ Listed(tab, <<>>) /\ Named(tab) /\ Sessions(server, Len(tab.calls))
      /\ 1 .. Len(tab.socks) \subseteq Socks
  BY FormedTypes DEF Typed
<1>2. PICK r, sv, l : r = tab' /\ sv = server' /\ l = left'
  OBVIOUS
<1> SUFFICES Lines(r, sv, l)
  BY Zenon, <1>2 DEF Lines, WaitsAtPlace, OfTheLine, StaysInLine
<1>3. ASSUME NEW p \in Places, OpenPlace(p) PROVE Lines(r, sv, l)
  <2>1. Moves(tab, p, 0, 0, r) /\ sv = server /\ l = left /\ tab.place[p] = 0
    BY <1>1, <1>2, <1>3, OpenPlaceMoves DEF OpenPlace
  <2> QED
    BY <2>1, MovesLines
<1>4. ASSUME NEW p \in Places, Call(p) PROVE Lines(r, sv, l)
  <2>1. PICK t, u : Adds(tab, p, t) /\ Requesting(t, u, <<Len(tab.calls) + 1>>)
    BY <1>1, <1>4, CallRequests
  <2>2. t.place = tab.place /\ t.socks = tab.socks
    BY <2>1 DEF Adds
  <2>3. Placed(t, left)
    BY <2>2 DEF Placed, AtPlaces, Older, OldApart, Tended
  <2>4. Lines(t, server, left)
    BY <1>1, <2>1, AddsLines
  <2>5. PICK calls : calls = <<Len(tab.calls) + 1>>
    BY Zenon
  <2>6. sv = server
    BY <1>2, <1>4 DEF Call
  <2>7. l = IF tab'.place[Env] # t.place[Env] THEN left \cup {Env} ELSE left
    BY <1>2, <1>4, <2>2 DEF Call, LeavesEnv
  <2>8. Lines(tab', server, l)
    BY <2>1, <2>3, <2>4, <2>5, <2>7, RequestingLines
  <2> QED
    BY <1>2, <2>6, <2>8
<1>5. ASSUME NEW i \in Socks, SessionArrives(i) PROVE Lines(r, sv, l)
  <2>1. PICK X : X = Unfinished(i)
    OBVIOUS
  <2>2. PICK t, u : Resumes(tab, X, i, t) /\ Requesting(t, u, tab.waiting)
    BY <1>1, <1>5, <2>1, ArrivalRequests
  <2>3. i \in 1 .. Len(tab.socks) /\ tab.socks[i].at = "open"
    BY <1>5 DEF SessionArrives, Is
  <2>4. Placed(t, left)
    BY <1>1, <2>2, <2>3, ResumesPlaced
  <2>5. Lines(t, server, left)
    BY <1>1, <2>2, <2>3, ResumesLines
  <2>6. sv = server
    BY <1>2, <1>5 DEF SessionArrives
  <2>7. PICK calls : calls = tab.waiting
    OBVIOUS
  <2>8. l = IF tab'.place[Env] # t.place[Env] THEN left \cup {Env} ELSE left
    <3>1. t.place = tab.place
      BY <2>2 DEF Resumes
    <3> QED
      BY <1>2, <1>5, <3>1 DEF SessionArrives, LeavesEnv
  <2>9. Lines(tab', server, l)
    BY <2>2, <2>4, <2>5, <2>7, <2>8, RequestingLines
  <2> QED
    BY <1>2, <2>6, <2>9
<1>6. ASSUME NEW i \in Socks, Timer(i) PROVE Lines(r, sv, l)
  <2>1. PICK p, sid : Moves(tab, p, i, sid, r) /\ tab.place[p] # 0 /\ sid = tab.socks[tab.place[p]].sid
    BY <1>1, <1>2, <1>6, TimerMoves
  <2>2. sv = server /\ l = left
    BY Zenon, <1>2, <1>6 DEF Timer
  <2> QED
    BY <2>1, <2>2, MovesLines
<1>7. ASSUME NEW i \in 1 .. Len(tab.socks), server' = Recovered(i)
      PROVE  Recovers(tab, server, i, sv)
  <2>1. tab.socks[i].old # i
    <3>1. tab.socks[i].old < i /\ i \in Nat
      BY <1>1 DEF Placed, Older
    <3> QED
      BY <3>1
  <2> QED
    BY <1>1, <1>2, <1>7, <2>1, RecoveredDoes
<1>8. ASSUME NEW i \in Socks, Handshake(i) PROVE Lines(r, sv, l)
  <2>1. PICK up, timer : up = tab.socks[i].up /\ timer = tab.socks[i].timer
    BY Zenon
  <2>2. i \in 1 .. Len(tab.socks) /\ tab.socks[i].at = "connecting" /\ Turns(tab, i, "open", up, timer, r)
    BY <1>1, <1>2, <1>8, <2>1, HandshakeTurns
  <2>3. Recovers(tab, server, i, sv) /\ server[i].line = 0
    BY <1>7, <1>8, <2>2 DEF Handshake, Served, Reached
  <2>4. left \subseteq l
    BY <1>2, <1>8 DEF Handshake
  <2>5. tab.socks[i].old # 0 /\ ~ server[tab.socks[i].old].alive
            => \A p \in Places : tab.place[p] = i => p \in l
    BY <1>2, <1>8 DEF Handshake, Stranded
  <2> QED
    BY <1>1, <2>2, <2>3, <2>4, <2>5, RecoversLines
<1>9. ASSUME NEW i \in 1 .. Len(tab.socks), NEW at, NEW up, NEW timer, Turns(tab, i, at, up, timer, r),
             at = "closed" \/ at = tab.socks[i].at, \A j \in Socks : sv[j].line = server[j].line
      PROVE  Lines(r, sv, left)
  <2>1. /\ r.place = tab.place /\ Len(r.socks) = Len(tab.socks) /\ r.calls = tab.calls
        /\ \A j \in 1 .. Len(tab.socks) :
               /\ r.socks[j].sid = tab.socks[j].sid /\ r.socks[j].old = tab.socks[j].old
               /\ r.socks[j].at = tab.socks[j].at \/ r.socks[j].at = "closed"
    BY <1>9 DEF Turns
  <2> QED
    BY <1>1, <1>9, <2>1, SameLines
<1>10. ASSUME NEW i \in Socks, ReadFrame(i) PROVE Lines(r, sv, l)
  <2>1. PICK up, timer, f : /\ up = Tail(tab.socks[i].up) /\ timer = tab.socks[i].timer
                            /\ f = Head(tab.socks[i].up)
    BY Zenon
  <2>2. i \in 1 .. Len(tab.socks) /\ tab.socks[i].at = "open" /\ Turns(tab, i, "open", up, timer, r)
    BY <1>1, <1>2, <1>10, <2>1, ReadTurns
  <2>3. Reading(server, i, f, sv)
    BY <1>1, <1>2, <1>10, <2>1, ReadsDoes
  <2>4. \A j \in Socks : sv[j].line = server[j].line
    BY <2>3 DEF Reading, Reads, Pops
  <2>5. l = left
    BY <1>2, <1>10 DEF ReadFrame
  <2> QED
    BY <1>9, <2>2, <2>4, <2>5
<1>11. ASSUME NEW i \in Socks, Answer(i) PROVE Lines(r, sv, l)
  <2>1. PICK h : h = Head(server[i].work)
    OBVIOUS
  <2>2. h \in 1 .. Len(tab.calls) /\ tab.calls[h].at = "sent" /\ sv = server /\ l = left
    BY <1>1, <1>2, <1>11, <2>1, AnswerHas
  <2>3. PICK u, up, timer : Turns(tab, i, "open", up, timer, u) /\ Replies(u, h, r)
    BY <1>1, <1>2, <1>11, <2>1, AnswerDoes
  <2>4. i \in 1 .. Len(tab.socks) /\ tab.socks[i].at = "open"
    BY <1>1, <1>11, AnswerHas
  <2>5. /\ r.place = tab.place /\ Len(r.socks) = Len(tab.socks) /\ Len(r.calls) = Len(tab.calls)
        /\ \A j \in 1 .. Len(tab.socks) :
               /\ r.socks[j].sid = tab.socks[j].sid /\ r.socks[j].old = tab.socks[j].old
               /\ r.socks[j].at = tab.socks[j].at
        /\ \A c \in 1 .. Len(tab.calls) :
               r.calls[c] = IF c = h THEN [tab.calls[c] EXCEPT !.at = "answered"] ELSE tab.calls[c]
    BY <2>3, <2>4 DEF Turns, Replies
  <2>6. ASSUME NEW c \in 1 .. Len(tab.calls)
        PROVE  /\ r.calls[c].via = tab.calls[c].via /\ r.calls[c].to = tab.calls[c].to
               /\ \/ r.calls[c].at = tab.calls[c].at
                  \/ r.calls[c].at = "answered" /\ tab.calls[c].at = "sent"
    <3>1. tab.calls[c] \in CallType
      BY <1>1, FormedTypes
    <3> QED
      BY Zenon, <2>2, <2>5, <3>1 DEF CallType
  <2>7. \A j \in Socks : sv[j].line = server[j].line
    BY <2>2
  <2> QED
    BY <1>1, <2>2, <2>5, <2>6, <2>7, SameLines
<1>12. ASSUME NEW i \in Socks, Closes(i) PROVE Lines(r, sv, l)
  <2>1. PICK up, timer : up = <<>> /\ timer = ~ tab.socks[i].stay
    OBVIOUS
  <2>2. i \in 1 .. Len(tab.socks) /\ Turns(tab, i, "closed", up, timer, r) /\ Formed(r)
    BY <1>1, <1>2, <1>12, <2>1, ClosesTurns
  <2>3. left \subseteq l
    BY <1>2, <1>12 DEF Closes
  <2>4. CASE Loses(server, i, sv)
    <3>1. \A j \in Socks : sv[j].line = server[j].line
      BY <2>4 DEF Loses
    <3>2. Lines(r, sv, left)
      BY <1>9, <2>2, <3>1
    <3> QED
      BY <2>2, <2>3, <3>2, LinesLeft
  <2>5. CASE server[i].line = 0 /\ server' = Recovered(i)
    <3>1. Recovers(tab, server, i, sv) /\ server[i].line = 0
      BY <1>7, <2>2, <2>5
    <3>2. "closed" # "open"
      OBVIOUS
    <3> QED
      BY <1>1, <2>2, <2>3, <3>1, <3>2, RecoversLines
  <2> QED
    BY <1>1, <1>2, <1>12, <2>4, <2>5, LosesDoes
<1>13. ASSUME NEW i \in Socks, WindowPasses(i) PROVE Lines(r, sv, l)
  <2>1. Passes(server, i, sv)
    BY <1>1, <1>2, <1>13, PassesDoes
  <2>2. r = tab /\ l = left
    BY <1>2, <1>13 DEF WindowPasses
  <2>3. \A j \in Socks : sv[j].line = server[j].line
    BY <2>1 DEF Passes
  <2> QED
    BY <1>1, <2>2, <2>3, SameLines
<1>14. CASE UNCHANGED cvars
  BY <1>2, <1>14 DEF cvars
<1>15. CASE CallsNext
  BY <1>3, <1>4, <1>5, <1>6, <1>8, <1>10, <1>11, <1>12, <1>13, <1>15
     DEF CallsNext, Progress, Close, Drop
<1> QED
  BY <1>14, <1>15

LEMMA LinesAlways == CallsSpec => [](CallsSound /\ Served(tab, server) /\ Lines(tab, server, left))
<1>1. CallsInit => Lines(tab, server, left)
  BY LinesInit
<1>2. CallsSound /\ Served(tab, server) /\ Lines(tab, server, left) /\ [CallsNext]_cvars
          => Lines(tab, server, left)'
  BY LinesNext DEF CallsSound
<1> QED
  BY <1>1, <1>2, ServedAlways, PTL DEF CallsSpec

\* The calls of a place all run in one session, and so in one transaction,
\* until its session is left behind (the transactions of datagrid.js are made
\* of calls of GS.envSocket).
THEOREM OneSessionForAPlaceAlways == CallsSpec => []OneSessionForAPlace
<1>1. Lines(tab, server, left) => OneSessionForAPlace
  BY Zenon DEF Lines, OfTheLine, OneSessionForAPlace
<1> QED
  BY <1>1, LinesAlways, PTL

-----------------------------------------------------------------------------
(* What is left to do is under way.                                        *)

\* Websocket i will have its session id, or the next one will.
Promising(t, i) ==
    LET s == t.socks[i] IN
    s.at = "connecting" \/ s.timer \/ (s.at = "open" /\ s.sid # i)

\* A call waits for a session id.
Hopeful(t) == t.waiting = <<>> \/ \E i \in 1 .. Len(t.socks) : Promising(t, i)

\* A call on its way is on its way from the websocket of its place.
CarriesHome(t) ==
    \A i, m, c :
        Carries(t, i, m, c) /\ t.socks[i].at \in {"connecting", "open"} => t.place[t.calls[c].via] = i

\* The session of a place, and the one it was moved from, work for that place.
WorksHome(t, sv) ==
    \A p \in Places : \A n, c :
        /\ t.place[p] # 0 /\ Works(sv, t.place[p], n, c) => t.calls[c].via = p
        /\ t.place[p] # 0 /\ Works(sv, t.socks[t.place[p]].old, n, c) => t.calls[c].via = p

\* A call that was sent has the session that its place asks for.
SessionIsKept(t, l) ==
    \A c \in 1 .. Len(t.calls) :
        LET k == t.calls[c] IN
        k.at = "sent" /\ k.via \notin l => k.session = t.socks[t.place[k.via]].sid

\* The session that place p asks for was closed; it is left behind once the
\* server has been reached.
Doomed(t, sv, p) ==
    LET s == t.socks[t.place[p]] IN
    s.at \in {"connecting", "closed"} /\ s.sid # 0 /\ ~ sv[s.sid].alive

\* The work for a place is in its session, or in the one it asks for.
WorksThere(t, sv, l) ==
    \A j, n, c :
        LET p == t.calls[c].via IN
        Works(sv, j, n, c) /\ p \notin l
            => j = t.place[p] \/ j = t.socks[t.place[p]].sid \/ Doomed(t, sv, p)

\* Frame m on its way from websocket e is the SEND FROM of the call c.
Asks(t, e, m, c) ==
    m \in 1 .. Len(t.socks[e].up) /\ t.socks[e].up[m] = [kind |-> "from", c |-> c]

\* Where answers were lost, the running request is asked for, unless the tab has
\* its answer.
Claimed(t, sv, e) ==
    (\E m : Asks(t, e, m, Head(sv[e].work))) \/ t.calls[Head(sv[e].work)].at = "answered"

Asked(t, sv, l) ==
    \A p \in Places :
        LET e == t.place[p] IN
        p \notin l /\ e # 0 /\ t.socks[e].at = "open" /\ t.socks[e].sid = e /\ sv[e].lost /\ sv[e].work # <<>>
            => Claimed(t, sv, e)

Resumable(t, sv, l) ==
    /\ Hopeful(t) /\ CarriesHome(t) /\ WorksHome(t, sv)
    /\ SessionIsKept(t, l) /\ WorksThere(t, sv, l) /\ Asked(t, sv, l)

LEMMA ClaimedKept ==
    ASSUME NEW t, Formed(t), NEW sv, Sessions(sv, Len(t.calls)), NEW e \in Socks, sv[e].work # <<>>,
           NEW r, NEW sv2, sv2[e].work = sv[e].work, r.socks[e].up = t.socks[e].up,
           \A c \in 1 .. Len(t.calls) : t.calls[c].at = "answered" => r.calls[c].at = "answered",
           Claimed(t, sv, e)
    PROVE  Claimed(r, sv2, e)
<1>1. PICK w, h : w = sv[e].work /\ h = Head(sv[e].work)
  OBVIOUS
<1>2. h \in 1 .. Len(t.calls)
  <2>1. w \in Seq(CallIds) /\ w # <<>>
    BY <1>1 DEF Sessions, SessionType
  <2>2. w[1] = h /\ 1 \in 1 .. Len(w)
    BY <1>1, <2>1, TailAt
  <2> QED
    BY <1>1, <2>2 DEF Sessions
<1> QED
  BY <1>1, <1>2 DEF Claimed, Asks

LEMMA ResumableLeft ==
    ASSUME NEW t, NEW sv, NEW l, Resumable(t, sv, l), NEW l2, l \subseteq l2
    PROVE  Resumable(t, sv, l2)
<1>1. SessionIsKept(t, l2)
  BY DEF Resumable, SessionIsKept
<1>2. WorksThere(t, sv, l2)
  BY DEF Resumable, WorksThere
<1>3. Asked(t, sv, l2)
  BY DEF Resumable, Asked
<1> QED
  BY <1>1, <1>2, <1>3 DEF Resumable

\* A session that works is alive, and so the one it was moved from is not.
LEMMA WorksAlive ==
    ASSUME NEW t, NEW sv, Served(t, sv), NEW j, NEW n, NEW c, Works(sv, j, n, c)
    PROVE  /\ j \in Socks /\ sv[j].alive /\ sv[j].line # 0
           /\ j \in 1 .. Len(t.socks) /\ t.socks[j].old # 0 => ~ sv[t.socks[j].old].alive
<1>1. j \in Socks /\ n \in 1 .. Len(sv[j].work)
  BY DEF Works
<1>2. Len(<<>>) = 0
  OBVIOUS
<1>3. sv[j].work # <<>>
  BY <1>1, <1>2
<1>4. sv[j].alive /\ sv[j].line # 0
  BY <1>1, <1>3 DEF Served, Idle
<1> QED
  BY <1>1, <1>4 DEF Served, Reached

LEMMA MovesResumable ==
    ASSUME NEW t, NEW u, NEW p, NEW i, NEW sid, Moves(t, p, i, sid, u), NEW sv, NEW l,
           Formed(t), Sessions(sv, Len(t.calls)), Placed(t, l), Once(t, sv), Served(t, sv), Lines(t, sv, l),
           Resumable(t, sv, l),
           \/ t.place[p] # 0 /\ sid = t.socks[t.place[p]].sid
           \/ t.place[p] = 0
           \/ p \in l
    PROVE  Resumable(u, sv, l)
<1>1. PICK x : x = Len(t.socks) + 1
  OBVIOUS
<1>2. /\ Formed(u) /\ p \in Places /\ sid \in Ids /\ Len(u.socks) = x /\ u.calls = t.calls
      /\ \A q \in Places : u.place[q] = IF q = p THEN x ELSE t.place[q]
      /\ \A j \in 1 .. Len(t.socks) :
             /\ u.socks[j].sid = t.socks[j].sid /\ u.socks[j].old = t.socks[j].old /\ u.socks[j].up = t.socks[j].up
             /\ j # t.place[p] => u.socks[j].at = t.socks[j].at
             /\ j = t.place[p] => u.socks[j].at \in {"closing", "closed"}
      /\ u.socks[x].at = "connecting" /\ u.socks[x].sid = sid /\ u.socks[x].old = sid /\ u.socks[x].up = <<>>
      /\ sid # 0 => t.place[p] # 0 /\ sid = t.socks[t.place[p]].sid
  BY <1>1 DEF Moves
<1>3. /\ Len(t.socks) \in Nat /\ x \in 1 .. Len(u.socks) /\ x \notin 1 .. Len(t.socks) /\ x \in Socks
      /\ \A j \in 1 .. Len(u.socks) : j = x \/ j \in 1 .. Len(t.socks)
  BY <1>1, <1>2, FormedTypes DEF Formed, Socks
<1>4. \A q \in Places : q # p /\ t.place[q] # 0 =>
          /\ u.place[q] = t.place[q] /\ t.place[q] \in 1 .. Len(t.socks) /\ t.place[q] # t.place[p]
  BY <1>2, FormedTypes DEF Placed, AtPlaces
<1>5. Hopeful(u)
  BY <1>2, <1>3 DEF Hopeful, Promising
<1>6. ASSUME NEW j, NEW m, NEW c, Carries(u, j, m, c), u.socks[j].at \in {"connecting", "open"}
      PROVE  u.place[u.calls[c].via] = j
  <2>1. j \in 1 .. Len(u.socks) /\ m \in 1 .. Len(u.socks[j].up)
    BY <1>6 DEF Carries
  <2>2. j # x
    <3>1. Len(<<>>) = 0
      OBVIOUS
    <3> QED
      BY <1>2, <2>1, <3>1
  <2>3. j \in 1 .. Len(t.socks)
    BY <1>3, <2>1, <2>2
  <2>4. Carries(t, j, m, c)
    BY Zenon, <1>2, <1>6, <2>3 DEF Carries
  <2>5. t.socks[j].at \in {"connecting", "open"} /\ j # t.place[p]
    BY Zenon, <1>2, <1>6, <2>3
  <2>6. t.place[t.calls[c].via] = j
    BY <2>4, <2>5 DEF Resumable, CarriesHome
  <2>7. c \in 1 .. Len(t.calls)
    BY Zenon, <2>4, CarriesIs
  <2>8. t.calls[c].via \in Places
    BY <2>7, CallIs
  <2> QED
    BY <1>2, <2>5, <2>6, <2>8
<1>7. \A n, c : ~ Works(sv, x, n, c)
  <2>1. sv[x].line = 0
    BY <1>1, <1>3 DEF Served, Reached
  <2> QED
    BY <2>1, WorksAlive
<1>8. ASSUME NEW q \in Places, NEW n, NEW c, u.place[q] # 0,
             Works(sv, u.place[q], n, c) \/ Works(sv, u.socks[u.place[q]].old, n, c)
      PROVE  u.calls[c].via = q
  <2>1. CASE q # p
    <3>1. t.place[q] = u.place[q] /\ t.place[q] # 0
      BY <1>2, <1>8, <2>1
    <3>2. u.socks[t.place[q]].old = t.socks[t.place[q]].old
      BY Zenon, <1>2, <1>4, <2>1, <3>1
    <3>3. Works(sv, t.place[q], n, c) \/ Works(sv, t.socks[t.place[q]].old, n, c)
      BY <1>8, <3>1, <3>2
    <3>4. t.calls[c].via = q
      BY <3>1, <3>3 DEF Resumable, WorksHome
    <3> QED
      BY <1>2, <3>4
  <2>2. CASE q = p
    <3>1. u.place[q] = x /\ u.socks[x].old = sid
      BY <1>2, <2>2
    <3>2. Works(sv, sid, n, c)
      BY <1>7, <1>8, <3>1
    <3>3. sid # 0
      BY <3>2 DEF Works, Socks
    <3>4. t.place[p] # 0 /\ sid = t.socks[t.place[p]].sid /\ t.place[p] \in 1 .. Len(t.socks)
      BY <1>2, <3>3, FormedTypes
    <3>5. sid \in {t.place[p], t.socks[t.place[p]].old}
      BY <3>4 DEF Placed, Older
    <3>6. Works(sv, t.place[p], n, c) \/ Works(sv, t.socks[t.place[p]].old, n, c)
      BY <3>2, <3>5
    <3>7. p \in Places /\ WorksHome(t, sv)
      BY <1>2 DEF Resumable
    <3>8. t.calls[c].via = p
      BY Zenon, <3>4, <3>6, <3>7 DEF WorksHome
    <3> QED
      BY <1>2, <2>2, <3>8
  <2> QED
    BY <2>1, <2>2
<1>9. ASSUME NEW c \in 1 .. Len(t.calls), t.calls[c].via \notin l
      PROVE  LET q == t.calls[c].via IN
             /\ q \in Places /\ t.place[q] # 0 /\ t.place[q] \in 1 .. Len(t.socks)
             /\ u.socks[u.place[q]].sid = t.socks[t.place[q]].sid
             /\ \/ q # p /\ u.place[q] = t.place[q] /\ u.socks[u.place[q]].at = t.socks[t.place[q]].at
                \/ q = p /\ u.place[q] = x /\ u.socks[u.place[q]].at = "connecting"
  <2>1. t.calls[c].via \in Places /\ t.place[t.calls[c].via] # 0 /\ t.place[t.calls[c].via] \in 1 .. Len(t.socks)
    BY CallIs
  <2>2. CASE t.calls[c].via = p
    BY Zenon, <1>2, <1>9, <2>1, <2>2
  <2>3. CASE t.calls[c].via # p
    BY ZenonT(40), <1>2, <1>4, <2>1, <2>3
  <2> QED
    BY Zenon, <2>1, <2>2, <2>3
<1>10. SessionIsKept(u, l)
  <2>1. ASSUME NEW c \in 1 .. Len(t.calls), t.calls[c].at = "sent", t.calls[c].via \notin l
        PROVE  t.calls[c].session = u.socks[u.place[t.calls[c].via]].sid
    <3>1. t.calls[c].session = t.socks[t.place[t.calls[c].via]].sid
      BY <2>1 DEF Resumable, SessionIsKept
    <3>2. u.socks[u.place[t.calls[c].via]].sid = t.socks[t.place[t.calls[c].via]].sid
      BY Zenon, <1>9, <2>1
    <3> QED
      BY <3>1, <3>2
  <2> QED
    BY SMTT(30), <1>2, <2>1 DEF SessionIsKept
<1>11. ASSUME NEW j, NEW n, NEW c, Works(sv, j, n, c), u.calls[c].via \notin l
       PROVE  LET q == u.calls[c].via IN
              j = u.place[q] \/ j = u.socks[u.place[q]].sid \/ Doomed(u, sv, q)
  <2>1. PICK q, e, s : q = t.calls[c].via /\ e = t.place[q] /\ s = t.socks[e].sid
    OBVIOUS
  <2>2. c \in 1 .. Len(t.calls) /\ t.calls[c].at \in {"sent", "answered"}
    BY <1>11, WorksIs DEF Once, AtWork
  <2>3. /\ q \in Places /\ q \notin l /\ e \in 1 .. Len(t.socks) /\ u.socks[u.place[q]].sid = s
        /\ \/ q # p /\ u.place[q] = e /\ u.socks[u.place[q]].at = t.socks[e].at
           \/ q = p /\ u.place[q] = x /\ u.socks[u.place[q]].at = "connecting"
    BY Zenon, <1>2, <1>9, <1>11, <2>1, <2>2
  <2>4. j = e \/ j = s \/ Doomed(t, sv, q)
    BY <1>2, <1>11, <2>1 DEF Resumable, WorksThere
  <2>5. s # 0
    BY Zenon, <1>2, <1>11, <2>1, <2>2 DEF Lines, OfTheLine
  <2>6. CASE j = s
    BY Zenon, <1>2, <2>1, <2>3, <2>6
  <2>7. CASE Doomed(t, sv, q)
    BY ZenonT(40), <1>2, <2>1, <2>3, <2>7 DEF Doomed
  <2>8. CASE j = e /\ q # p
    BY Zenon, <1>2, <2>1, <2>3, <2>8
  <2>9. CASE j = e /\ q = p /\ j # s
    <3>1. s = t.socks[e].old
      BY <2>1, <2>3, <2>9 DEF Placed, Older
    <3>2. ~ sv[s].alive
      BY <1>11, <2>3, <2>5, <2>9, <3>1, WorksAlive
    <3>3. Doomed(u, sv, q)
      BY <2>3, <2>5, <2>9, <3>2 DEF Doomed
    <3> QED
      BY <1>2, <2>1, <3>3
  <2> QED
    BY <2>4, <2>6, <2>7, <2>8, <2>9
<1>12. Asked(u, sv, l)
  <2>1. ASSUME NEW q \in Places, q \notin l, u.place[q] # 0, u.socks[u.place[q]].at = "open",
               u.socks[u.place[q]].sid = u.place[q], sv[u.place[q]].lost, sv[u.place[q]].work # <<>>
        PROVE  Claimed(u, sv, u.place[q])
    <3>1. q # p
      BY <1>2, <2>1
    <3>2. t.place[q] = u.place[q] /\ t.place[q] # 0
      BY <1>2, <2>1, <3>1
    <3>3. t.place[q] \in 1 .. Len(t.socks) /\ t.place[q] # t.place[p]
      BY <1>4, <3>1, <3>2
    <3>4. /\ u.socks[t.place[q]].sid = t.socks[t.place[q]].sid /\ u.socks[t.place[q]].up = t.socks[t.place[q]].up
          /\ u.socks[t.place[q]].at = t.socks[t.place[q]].at
      BY Zenon, <1>2, <3>3
    <3>5. Claimed(t, sv, t.place[q])
      BY Zenon, <2>1, <3>2, <3>4 DEF Resumable, Asked
    <3>6. PICK e, sv2 : e = t.place[q] /\ sv2 = sv
      OBVIOUS
    <3>7. /\ e \in Socks /\ sv[e].work # <<>> /\ sv2[e].work = sv[e].work /\ u.socks[e].up = t.socks[e].up
          /\ Claimed(t, sv, e) /\ u.place[q] = e
          /\ \A c \in 1 .. Len(t.calls) : t.calls[c].at = "answered" => u.calls[c].at = "answered"
      <4>1. e \in Socks
        BY <3>3, <3>6, FormedTypes
      <4> QED
        BY <1>2, <2>1, <3>2, <3>4, <3>5, <3>6, <4>1
    <3>8. Claimed(u, sv2, e)
      BY <3>7, ClaimedKept
    <3> QED
      BY <3>6, <3>7, <3>8
  <2> QED
    BY <2>1 DEF Asked
<1>13. CarriesHome(u) /\ WorksHome(u, sv) /\ WorksThere(u, sv, l)
  BY Zenon, <1>6, <1>8, <1>11 DEF CarriesHome, WorksHome, WorksThere
<1> QED
  BY <1>5, <1>10, <1>12, <1>13 DEF Resumable

LEMMA AddsResumable ==
    ASSUME NEW t, Formed(t), NEW p \in Places, NEW r, Adds(t, p, r), NEW sv, Sessions(sv, Len(t.calls)),
           NEW l, Resumable(t, sv, l)
    PROVE  Resumable(r, sv, l)
<1>1. PICK k : k = [via |-> p, to |-> t.place[p], at |-> "waiting", session |-> 0]
  BY Zenon
<1>2. r.socks = t.socks /\ r.place = t.place /\ r.waiting = t.waiting /\ r.calls = Append(t.calls, k)
  BY <1>1 DEF Adds
<1>3. t.calls \in Seq(CallType) /\ Len(t.calls) \in Nat
  BY FormedTypes
<1>4. Len(r.calls) = Len(t.calls) + 1 /\ \A c \in 1 .. Len(t.calls) : r.calls[c] = t.calls[c]
  BY <1>2, <1>3
<1>5. r.calls[Len(t.calls) + 1].at = "waiting"
  BY <1>1, <1>2, <1>3
<1>6. \A i, m, c : Carries(r, i, m, c) => Carries(t, i, m, c) /\ r.calls[c] = t.calls[c]
  <2>1. \A i, m, c : Carries(r, i, m, c) => Carries(t, i, m, c)
    BY <1>2 DEF Carries
  <2>2. \A i, m, c : Carries(t, i, m, c) => c \in 1 .. Len(t.calls)
    BY Zenon, CarriesIs
  <2> QED
    BY <1>4, <2>1, <2>2
<1>7. \A j, n, c : Works(sv, j, n, c) => r.calls[c] = t.calls[c]
  <2>1. \A j, n, c : Works(sv, j, n, c) => c \in 1 .. Len(t.calls)
    BY WorksIs
  <2> QED
    BY <1>4, <2>1
<1>8. Hopeful(r)
  BY <1>2 DEF Resumable, Hopeful, Promising
<1>9. CarriesHome(r)
  <2>1. CarriesHome(t)
    BY DEF Resumable
  <2> QED
    <3>1. ASSUME NEW i, NEW m, NEW c, Carries(r, i, m, c), r.socks[i].at \in {"connecting", "open"}
          PROVE  r.place[r.calls[c].via] = i
      <4>1. Carries(t, i, m, c) /\ r.calls[c] = t.calls[c] /\ t.socks[i].at \in {"connecting", "open"}
        BY Zenon, <1>2, <1>6, <3>1
      <4>2. t.place[t.calls[c].via] = i
        BY <2>1, <4>1 DEF CarriesHome
      <4> QED
        BY <1>2, <4>1, <4>2
    <3> QED
      BY <3>1 DEF CarriesHome
<1>10. WorksHome(r, sv)
  <2>1. WorksHome(t, sv)
    BY DEF Resumable
  <2> QED
    <3>1. ASSUME NEW q \in Places, NEW n, NEW c, r.place[q] # 0,
                 Works(sv, r.place[q], n, c) \/ Works(sv, r.socks[r.place[q]].old, n, c)
          PROVE  r.calls[c].via = q
      <4>1. r.calls[c] = t.calls[c] /\ r.place[q] = t.place[q] /\ r.socks = t.socks
        BY Zenon, <1>2, <1>7, <3>1
      <4>2. t.calls[c].via = q
        BY Zenon, <2>1, <3>1, <4>1 DEF WorksHome
      <4> QED
        BY <4>1, <4>2
    <3> QED
      BY <3>1 DEF WorksHome
<1>11. SessionIsKept(r, l)
  <2>1. ASSUME NEW c \in 1 .. Len(r.calls), r.calls[c].at = "sent", r.calls[c].via \notin l
        PROVE  r.calls[c].session = r.socks[r.place[r.calls[c].via]].sid
    <3>1. c \in 1 .. Len(t.calls)
      BY <1>3, <1>4, <1>5, <2>1
    <3>2. r.calls[c] = t.calls[c]
      BY <1>4, <3>1
    <3> QED
      BY <1>2, <2>1, <3>1, <3>2 DEF Resumable, SessionIsKept
  <2> QED
    BY <2>1 DEF SessionIsKept
<1>12. WorksThere(r, sv, l)
  <2>1. WorksThere(t, sv, l)
    BY DEF Resumable
  <2> QED
    <3>1. ASSUME NEW j, NEW n, NEW c, Works(sv, j, n, c), r.calls[c].via \notin l
          PROVE  LET q == r.calls[c].via IN
                 j = r.place[q] \/ j = r.socks[r.place[q]].sid \/ Doomed(r, sv, q)
      <4>1. r.calls[c] = t.calls[c] /\ r.place = t.place /\ r.socks = t.socks
        BY Zenon, <1>2, <1>7, <3>1
      <4>2. LET q == t.calls[c].via IN j = t.place[q] \/ j = t.socks[t.place[q]].sid \/ Doomed(t, sv, q)
        BY <2>1, <3>1, <4>1 DEF WorksThere
      <4> QED
        BY Zenon, <4>1, <4>2 DEF Doomed
    <3> QED
      BY <3>1 DEF WorksThere
<1>13. Asked(r, sv, l)
  <2>1. Asked(t, sv, l)
    BY DEF Resumable
  <2>2. ASSUME NEW q \in Places, q \notin l, r.place[q] # 0, r.socks[r.place[q]].at = "open",
               r.socks[r.place[q]].sid = r.place[q], sv[r.place[q]].lost, sv[r.place[q]].work # <<>>
        PROVE  Claimed(r, sv, r.place[q])
    <3>1. PICK e : e = t.place[q]
      OBVIOUS
    <3>2. r.place[q] = e /\ e # 0 /\ e \in Socks /\ Claimed(t, sv, e)
      BY <1>2, <2>1, <2>2, <3>1, FormedTypes DEF Asked
    <3>3. r.socks[e].up = t.socks[e].up /\ \A c \in 1 .. Len(t.calls) : r.calls[c].at = t.calls[c].at
      BY <1>2
    <3> QED
      BY <2>2, <3>2, <3>3, ClaimedKept
  <2> QED
    BY <2>2 DEF Asked
<1> QED
  BY <1>8, <1>9, <1>10, <1>11, <1>12, <1>13 DEF Resumable

\* A call that has been made is on its way from the websocket of its place.
LEMMA MadeAtPlace ==
    ASSUME NEW u, Formed(u), NEW calls, Listed(u, calls), WaitsAtPlace(u), NEW r, Makes(u, calls, r),
           NEW c \in 1 .. Len(u.calls), c \in RangeOf(calls), r.calls[c].at # "failed"
    PROVE  IsMade(u, u.calls[c], r.calls[c]) /\ u.place[r.calls[c].via] = r.calls[c].to
<1>1. r.calls[c] = Made(u, u.calls[c])
  BY DEF Makes
<1>2. IsMade(u, u.calls[c], r.calls[c])
  BY <1>1, MadeDoes
<1>3. u.calls[c].at = "waiting"
  BY DEF Listed
<1>4. u.place[u.calls[c].via] = u.calls[c].to \/ u.socks[u.calls[c].to].at \in {"closing", "closed"}
  BY <1>3 DEF WaitsAtPlace
<1> QED
  BY Zenon, <1>2, <1>4 DEF IsMade

LEMMA MakesResumable ==
    ASSUME NEW u, Formed(u), NEW calls \in Seq(1 .. Len(u.calls)), Listed(u, calls),
           NEW r, Formed(r), Makes(u, calls, r), NEW sv, Sessions(sv, Len(u.calls)), Once(u, sv),
           NEW l, Lines(u, sv, l), Resumable(u, sv, l)
    PROVE  Resumable(r, sv, l)
<1>1. /\ Len(r.socks) = Len(u.socks) /\ r.place = u.place /\ Len(r.calls) = Len(u.calls)
      /\ \A j \in 1 .. Len(u.socks) :
             /\ r.socks[j].at = u.socks[j].at /\ r.socks[j].sid = u.socks[j].sid
             /\ r.socks[j].old = u.socks[j].old /\ r.socks[j].timer = u.socks[j].timer
  BY MakesSockets
<1>2. \A c \in 1 .. Len(u.calls) : c \notin RangeOf(calls) => r.calls[c] = u.calls[c]
  BY DEF Makes
<1>3. \A c \in 1 .. Len(u.calls) : u.calls[c].at \in {"sent", "answered"} => r.calls[c] = u.calls[c]
  BY <1>2 DEF Listed
<1>4. WaitsAtPlace(u)
  BY DEF Lines
<1>5. \A c \in 1 .. Len(u.calls) : c \in RangeOf(calls) /\ r.calls[c].at # "failed" =>
          IsMade(u, u.calls[c], r.calls[c]) /\ u.place[r.calls[c].via] = r.calls[c].to
  BY <1>4, MadeAtPlace
<1>6. Hopeful(r)
  <2>1. CASE u.waiting # <<>>
    <3>1. PICK i \in 1 .. Len(u.socks) : Promising(u, i)
      BY <2>1 DEF Resumable, Hopeful
    <3>2. Promising(r, i)
      BY <1>1, <3>1 DEF Promising
    <3> QED
      BY <1>1, <3>2 DEF Hopeful
  <2>2. CASE \E c \in RangeOf(calls) : r.calls[c].at = "waiting"
    <3>1. PICK c \in RangeOf(calls) : r.calls[c].at = "waiting"
      BY <2>2
    <3>2. c \in 1 .. Len(u.calls)
      BY <3>1 DEF RangeOf
    <3>3. PICK e : e = r.calls[c].to
      OBVIOUS
    <3>4. IsMade(u, u.calls[c], r.calls[c])
      BY <1>5, <3>1, <3>2
    <3>5. /\ e \in 1 .. Len(u.socks)
          /\ u.socks[e].at = "connecting" \/ (u.socks[e].at = "open" /\ u.socks[e].sid = 0)
      BY <3>1, <3>3, <3>4 DEF IsMade
    <3>6. e # 0
      BY <3>5
    <3>7. Promising(r, e)
      BY <1>1, <3>5, <3>6 DEF Promising
    <3> QED
      BY <1>1, <3>5, <3>7 DEF Hopeful
  <2>3. CASE u.waiting = <<>> /\ \A c \in RangeOf(calls) : r.calls[c].at # "waiting"
    <3>1. PICK k : k = Kept(calls, {c \in RangeOf(calls) : r.calls[c].at = "waiting"})
      BY Zenon
    <3>2. k \in Seq(1 .. Len(u.calls))
      BY <3>1, KeptProperties
    <3>3. k = <<>>
      <4>1. \A d : d \in RangeOf(k) <=> d \in RangeOf(calls) /\ d \in {c \in RangeOf(calls) : r.calls[c].at = "waiting"}
        BY <3>1, KeptProperties
      <4>2. RangeOf(k) = {}
        BY <2>3, <4>1
      <4>3. 1 \notin 1 .. Len(k)
        BY Zenon, <4>2 DEF RangeOf
      <4>4. Len(k) = 0
        BY <3>2, <4>3
      <4> QED
        BY <3>2, <4>4
    <3>4. r.waiting = <<>> \o <<>>
      BY <2>3, <3>1, <3>3 DEF Makes
    <3> QED
      BY <3>4 DEF Hopeful
  <2> QED
    BY <2>1, <2>2, <2>3
<1>7. ASSUME NEW i, NEW m, NEW c, Carries(r, i, m, c), r.socks[i].at \in {"connecting", "open"}
      PROVE  r.place[r.calls[c].via] = i
  <2>1. Carries(u, i, m, c) \/ Sends(u, calls, r, i, m, c)
    BY <1>7, MakesCarries
  <2>2. i \in 1 .. Len(u.socks)
    BY <1>1, <1>7 DEF Carries
  <2>3. CASE Carries(u, i, m, c)
    <3>1. c \in 1 .. Len(u.calls) /\ u.calls[c].at = "sent"
      BY Zenon, <2>3, CarriesIs DEF Once
    <3>2. u.socks[i].at \in {"connecting", "open"}
      BY <1>1, <1>7, <2>2
    <3>3. u.place[u.calls[c].via] = i
      BY <2>3, <3>2 DEF Resumable, CarriesHome
    <3> QED
      BY <1>1, <1>3, <3>1, <3>3
  <2>4. CASE Sends(u, calls, r, i, m, c)
    <3>1. c \in RangeOf(calls) /\ c \in 1 .. Len(u.calls) /\ r.calls[c].at = "sent" /\ r.calls[c].to = i
      BY Zenon, <2>4 DEF Sends
    <3> QED
      BY <1>1, <1>5, <3>1
  <2> QED
    BY <2>1, <2>3, <2>4
<1>8. \A j, n, c : Works(sv, j, n, c) => c \in 1 .. Len(u.calls) /\ r.calls[c] = u.calls[c]
  <2>1. \A j, n, c : Works(sv, j, n, c) => c \in 1 .. Len(u.calls)
    BY WorksIs
  <2>2. \A j, n, c : Works(sv, j, n, c) => u.calls[c].at \in {"sent", "answered"}
    BY DEF Once, AtWork
  <2> QED
    BY <1>3, <2>1, <2>2
<1>9. \A q \in Places : u.place[q] # 0 => u.place[q] \in 1 .. Len(u.socks)
  BY FormedTypes
<1>10. WorksHome(r, sv)
  <2>1. WorksHome(u, sv)
    BY DEF Resumable
  <2>2. ASSUME NEW q \in Places, r.place[q] # 0
        PROVE  r.place[q] = u.place[q] /\ u.place[q] # 0 /\ r.socks[r.place[q]].old = u.socks[u.place[q]].old
    BY <1>1, <1>9, <2>2
  <2>3. ASSUME NEW q \in Places, NEW n, NEW c, r.place[q] # 0,
               Works(sv, r.place[q], n, c) \/ Works(sv, r.socks[r.place[q]].old, n, c)
        PROVE  r.calls[c].via = q
    <3>1. r.calls[c] = u.calls[c]
      BY <1>8, <2>3
    <3>2. Works(sv, u.place[q], n, c) \/ Works(sv, u.socks[u.place[q]].old, n, c)
      BY <2>2, <2>3
    <3>3. u.calls[c].via = q
      BY Zenon, <2>1, <2>2, <2>3, <3>2 DEF WorksHome
    <3> QED
      BY <3>1, <3>3
  <2> QED
    BY Zenon, <2>3 DEF WorksHome
<1>11. SessionIsKept(r, l)
  <2>1. ASSUME NEW c \in 1 .. Len(u.calls), r.calls[c].at = "sent", r.calls[c].via \notin l
        PROVE  r.calls[c].session = r.socks[r.place[r.calls[c].via]].sid
    <3>1. CASE c \in RangeOf(calls)
      <4>1. IsMade(u, u.calls[c], r.calls[c]) /\ u.place[r.calls[c].via] = r.calls[c].to
        BY <1>5, <2>1, <3>1
      <4>2. r.calls[c].to \in 1 .. Len(u.socks) /\ r.calls[c].session = u.socks[r.calls[c].to].sid
        BY <2>1, <4>1 DEF IsMade
      <4> QED
        BY <1>1, <4>1, <4>2
    <3>2. CASE c \notin RangeOf(calls)
      <4>1. r.calls[c] = u.calls[c] /\ u.place[u.calls[c].via] \in 1 .. Len(u.socks)
        BY <1>2, <3>2, CallIs
      <4>2. u.calls[c].session = u.socks[u.place[u.calls[c].via]].sid
        BY <2>1, <4>1 DEF Resumable, SessionIsKept
      <4> QED
        BY Zenon, <1>1, <4>1, <4>2
    <3> QED
      BY <3>1, <3>2
  <2> QED
    BY <1>1, <2>1 DEF SessionIsKept
<1>12. ASSUME NEW j, NEW n, NEW c, Works(sv, j, n, c), r.calls[c].via \notin l
       PROVE  LET q == r.calls[c].via IN
              j = r.place[q] \/ j = r.socks[r.place[q]].sid \/ Doomed(r, sv, q)
  <2>1. c \in 1 .. Len(u.calls) /\ r.calls[c] = u.calls[c]
    BY <1>8, <1>12
  <2>2. PICK q : q = u.calls[c].via
    OBVIOUS
  <2>3. u.place[q] \in 1 .. Len(u.socks)
    BY <2>1, <2>2, CallIs
  <2>4. j = u.place[q] \/ j = u.socks[u.place[q]].sid \/ Doomed(u, sv, q)
    BY <1>12, <2>1, <2>2 DEF Resumable, WorksThere
  <2>5. Doomed(u, sv, q) => Doomed(r, sv, q)
    BY Zenon, <1>1, <2>3 DEF Doomed
  <2> QED
    BY Zenon, <1>1, <2>1, <2>2, <2>3, <2>4, <2>5
<1>13. Asked(r, sv, l)
  <2>1. ASSUME NEW q \in Places, q \notin l, r.place[q] # 0, r.socks[r.place[q]].at = "open",
               r.socks[r.place[q]].sid = r.place[q], sv[r.place[q]].lost, sv[r.place[q]].work # <<>>
        PROVE  Claimed(r, sv, r.place[q])
    <3>1. PICK e : e = u.place[q]
      OBVIOUS
    <3>2. r.place[q] = e /\ e # 0 /\ e \in 1 .. Len(u.socks)
      BY <1>1, <1>9, <2>1, <3>1
    <3>3. u.socks[e].at = "open" /\ u.socks[e].sid = e /\ sv[e].lost
      BY <1>1, <2>1, <3>2
    <3>3a. PICK h : h = Head(sv[e].work)
      OBVIOUS
    <3>3b. Claimed(u, sv, e) /\ h \in 1 .. Len(u.calls)
      <4>1. e \in Socks /\ sv[e].work # <<>>
        BY <2>1, <3>2, FormedTypes
      <4>2. sv[e].work \in Seq(CallIds)
        BY <4>1 DEF Sessions, SessionType
      <4>3. h = sv[e].work[1] /\ 1 \in 1 .. Len(sv[e].work)
        BY <3>3a, <4>1, <4>2, TailAt
      <4> QED
        BY <2>1, <3>1, <3>2, <3>3, <4>1, <4>3 DEF Resumable, Asked, Sessions
    <3>3c. ASSUME u.calls[h].at = "answered" PROVE Claimed(r, sv, e)
      BY <1>3, <3>3a, <3>3b, <3>3c DEF Claimed
    <3>3d. SUFFICES ASSUME \E m : Asks(u, e, m, Head(sv[e].work)) PROVE Claimed(r, sv, e)
      BY <3>2, <3>3a, <3>3b, <3>3c DEF Claimed
    <3>4. PICK m : Asks(u, e, m, Head(sv[e].work))
      BY <3>3d
    <3>5. PICK a, k, b : /\ a = u.socks[e].up /\ b = Frames("call", k)
                         /\ k = Kept(calls, {c \in RangeOf(calls) : r.calls[c].at = "sent" /\ r.calls[c].to = e})
      BY Zenon
    <3>6. r.socks[e].up = a \o b
      BY Zenon, <3>2, <3>5 DEF Makes
    <3>7. a \in Seq(FrameType) /\ b \in Seq(FrameType)
      <4>1. Len(u.calls) \in Nat /\ Len(u.calls) <= MaxCalls /\ k \in Seq(1 .. Len(u.calls))
        BY <3>5, FormedTypes, KeptProperties DEF Formed
      <4>2. b \in Seq(FrameType)
        BY <3>5, <4>1, FramesAre
      <4>3. a \in Seq(FrameType)
        BY <3>2, <3>5, FormedTypes DEF SocketType
      <4> QED
        BY <4>2, <4>3
    <3>8. m \in 1 .. Len(a \o b) /\ (a \o b)[m] = a[m]
      BY <3>4, <3>5, <3>7, ConcatAt DEF Asks
    <3>9. Asks(r, e, m, Head(sv[e].work))
      BY <3>4, <3>5, <3>6, <3>8 DEF Asks
    <3> QED
      BY <3>9 DEF Claimed
  <2> QED
    BY <2>1 DEF Asked
<1> QED
  BY <1>6, <1>7, <1>10, <1>11, <1>12, <1>13 DEF Resumable, CarriesHome, WorksThere

\* The unfinished calls of websocket i, in a window t.
UnfinishedIn(t, i) ==
    {c \in 1 .. Len(t.calls) : /\ t.calls[c].at = "sent"
                               /\ t.calls[c].session \in {i, t.socks[i].old} \ {0}}

\* A call that is resumed is asked for.
LEMMA ResumesAsks ==
    ASSUME NEW t, Formed(t), NEW X, NEW i \in 1 .. Len(t.socks), NEW r, Resumes(t, X, i, r),
           NEW c \in 1 .. Len(t.calls), c \in X
    PROVE  \E m : Asks(r, i, m, c)
<1>1. PICK a, f, k : a = t.socks[i].up /\ k = Kept(Count(Len(t.calls)), X) /\ f = Frames("from", k)
  OBVIOUS
<1>2. a \in Seq(FrameType) /\ Len(t.calls) \in Nat /\ Len(t.calls) <= MaxCalls
  BY Zenon, <1>1, FormedTypes DEF SocketType, Formed
<1>3. k \in Seq(1 .. Len(t.calls)) /\ c \in RangeOf(k)
  <2>1. Count(Len(t.calls)) \in Seq(1 .. Len(t.calls)) /\ Len(Count(Len(t.calls))) = Len(t.calls)
    BY <1>2 DEF Count
  <2>2. c \in RangeOf(Count(Len(t.calls)))
    BY <2>1 DEF RangeOf, Count
  <2>3. k \in Seq(1 .. Len(t.calls))
    BY <1>1, <2>1, KeptProperties
  <2>4. \A d : d \in RangeOf(k) <=> d \in RangeOf(Count(Len(t.calls))) /\ d \in X
    BY <1>1, <2>1, KeptProperties
  <2> QED
    BY <2>2, <2>3, <2>4
<1>4. /\ f \in Seq(FrameType) /\ Len(f) = Len(k)
      /\ \A n \in 1 .. Len(k) : f[n] = [kind |-> "from", c |-> k[n]] /\ k[n] \in 1 .. Len(t.calls)
  BY <1>1, <1>2, <1>3, FramesAre
<1>5. r.socks[i].up = a \o f
  BY <1>1 DEF Resumes
<1>6. PICK n \in 1 .. Len(k) : k[n] = c
  BY <1>3 DEF RangeOf
<1>7. n \in 1 .. Len(f) /\ f[n] = [kind |-> "from", c |-> c]
  BY <1>4, <1>6
<1>8. n + Len(a) \in 1 .. Len(a \o f) /\ (a \o f)[n + Len(a)] = f[n]
  BY <1>2, <1>4, <1>7, ConcatAt
<1> QED
  BY Zenon, <1>5, <1>7, <1>8 DEF Asks

LEMMA ResumesResumable ==
    ASSUME NEW t, Formed(t), NEW i \in 1 .. Len(t.socks), t.socks[i].at = "open", t.socks[i].sid # i,
           NEW r, Resumes(t, UnfinishedIn(t, i), i, r), NEW sv, Sessions(sv, Len(t.calls)),
           NEW l, Placed(t, l), Once(t, sv), Served(t, sv), Lines(t, sv, l), Resumable(t, sv, l)
    PROVE  Resumable(r, sv, l)
<1>1. PICK X : X = UnfinishedIn(t, i)
  OBVIOUS
<1>2. PICK o : o = t.socks[i].old
  OBVIOUS
<1>3. /\ Len(r.socks) = Len(t.socks) /\ r.place = t.place /\ Len(r.calls) = Len(t.calls) /\ r.waiting = <<>>
      /\ \A j \in 1 .. Len(t.socks) :
             /\ r.socks[j].at = t.socks[j].at /\ r.socks[j].old = t.socks[j].old
             /\ r.socks[j].sid = IF j = i THEN i ELSE t.socks[j].sid
             /\ j # i => r.socks[j] = t.socks[j]
  <2>1. /\ Len(r.socks) = Len(t.socks) /\ r.place = t.place /\ Len(r.calls) = Len(t.calls) /\ r.waiting = <<>>
        /\ \A j \in 1 .. Len(t.socks) : j # i => r.socks[j] = t.socks[j]
    BY DEF Resumes
  <2>2. Knows(t, i, r)
    BY ResumesSockets
  <2> QED
    BY <2>1, <2>2 DEF Knows
<1>4. ASSUME NEW c \in 1 .. Len(t.calls)
      PROVE  /\ r.calls[c].via = t.calls[c].via /\ r.calls[c].at = t.calls[c].at
             /\ r.calls[c].session = IF c \in X THEN i ELSE t.calls[c].session
  <2>1. t.calls[c] \in CallType
    BY CallIs
  <2>2. r.calls[c] = IF c \in X THEN [t.calls[c] EXCEPT !.session = i] ELSE t.calls[c]
    BY <1>1 DEF Resumes
  <2> QED
    BY <2>1, <2>2 DEF CallType
<1>5. PICK p \in Places : t.place[p] = i
  BY DEF Placed, AtPlaces
<1>6. i # 0 /\ i \in Socks /\ o < i /\ o \in Nat /\ t.socks[i].sid = o /\ sv[i].alive
  <2>1. i \in Socks /\ t.socks[i] \in SocketType
    BY FormedTypes
  <2>2. o < i /\ o \in Nat /\ t.socks[i].sid = o
    BY Zenon, <1>2, <2>1, Numbers DEF Placed, Older, SocketType
  <2> QED
    BY <2>1, <2>2 DEF Served, Reached
<1>7. ~ (\E n, c : Works(sv, o, n, c))
  <2>1. sv[i].line # 0
    BY <1>6 DEF Served, Idle
  <2>2. o # 0 => ~ sv[o].alive
    BY <1>2, <2>1 DEF Served, Reached
  <2>3. ASSUME NEW n, NEW c, Works(sv, o, n, c) PROVE FALSE
    BY <2>2, <2>3, WorksAlive DEF Works, Socks
  <2> QED
    BY <2>3
<1>8. Hopeful(r)
  BY <1>3 DEF Hopeful
<1>9. ASSUME NEW j, NEW m, NEW c, Carries(r, j, m, c), r.socks[j].at \in {"connecting", "open"}
      PROVE  r.place[r.calls[c].via] = j
  <2>1. Carries(t, j, m, c)
    BY <1>9, ResumesCarries
  <2>2. j \in 1 .. Len(t.socks) /\ c \in 1 .. Len(t.calls)
    BY Zenon, <2>1, CarriesIs
  <2>3. t.socks[j].at \in {"connecting", "open"}
    BY <1>3, <1>9, <2>2
  <2>4. t.place[t.calls[c].via] = j
    BY <2>1, <2>3 DEF Resumable, CarriesHome
  <2> QED
    BY <1>3, <1>4, <2>2, <2>4
<1>10. ASSUME NEW q \in Places, NEW n, NEW c, r.place[q] # 0,
              Works(sv, r.place[q], n, c) \/ Works(sv, r.socks[r.place[q]].old, n, c)
       PROVE  r.calls[c].via = q
  <2>1. c \in 1 .. Len(t.calls)
    BY <1>10, WorksIs
  <2>2. t.place[q] # 0 /\ t.place[q] \in 1 .. Len(t.socks)
    BY <1>3, <1>10, FormedTypes
  <2>3. Works(sv, t.place[q], n, c) \/ Works(sv, t.socks[t.place[q]].old, n, c)
    BY <1>3, <1>10, <2>2
  <2>4. WorksHome(t, sv)
    BY DEF Resumable
  <2>5. t.calls[c].via = q
    BY Zenon, <2>2, <2>3, <2>4 DEF WorksHome
  <2> QED
    BY <1>4, <2>1, <2>5
\* the session of a call, and of the websocket at its place
<1>11. ASSUME NEW c \in 1 .. Len(t.calls), t.calls[c].at = "sent", t.calls[c].via \notin l
       PROVE  LET e == t.place[t.calls[c].via] IN
              /\ e \in 1 .. Len(t.socks) /\ t.calls[c].via \in Places /\ e # 0
              /\ t.calls[c].session = t.socks[e].sid /\ t.socks[e].sid # 0
              /\ t.socks[e].sid \in {e, t.socks[e].old}
  <2>1. t.calls[c].via \in Places /\ t.place[t.calls[c].via] \in 1 .. Len(t.socks) /\ t.place[t.calls[c].via] # 0
    BY CallIs
  <2>2. t.calls[c].session = t.socks[t.place[t.calls[c].via]].sid
    BY <1>11 DEF Resumable, SessionIsKept
  <2>3. t.socks[t.place[t.calls[c].via]].sid # 0
    BY <1>11 DEF Lines, OfTheLine
  <2> QED
    BY Zenon, <2>1, <2>2, <2>3 DEF Placed, Older
<1>12. ASSUME NEW c \in 1 .. Len(t.calls), t.calls[c].at = "sent", t.calls[c].via \notin l
       PROVE  c \in X <=> t.place[t.calls[c].via] = i
  <2>1. PICK q, e, s : q = t.calls[c].via /\ e = t.place[q] /\ s = t.socks[e].sid
    OBVIOUS
  <2>2. /\ e \in 1 .. Len(t.socks) /\ q \in Places /\ e # 0 /\ t.calls[c].session = s /\ s # 0
        /\ s \in {e, t.socks[e].old}
    BY Zenon, <1>11, <1>12, <2>1
  <2>3. c \in X <=> s = i \/ s = o
    BY <1>1, <1>2, <1>12, <2>2 DEF UnfinishedIn
  <2>4. CASE e = i
    BY <1>2, <2>1, <2>2, <2>3, <2>4
  <2>5. CASE e # i
    <3>1. t.socks[e].old # i
      BY <1>5, <1>6, <2>2 DEF Placed, OldApart
    <3>2. o # e
      BY Zenon, <1>2, <2>1, <2>2 DEF Placed, OldApart
    <3>3. t.socks[e].old = o => o = 0
      BY Zenon, <1>2, <1>5, <1>6, <2>1, <2>2, <2>5 DEF Placed, OldApart
    <3> QED
      BY Zenon, <2>1, <2>2, <2>3, <2>5, <3>1, <3>2, <3>3
  <2> QED
    BY <2>4, <2>5
<1>13. SessionIsKept(r, l)
  <2>1. ASSUME NEW c \in 1 .. Len(t.calls), t.calls[c].at = "sent", t.calls[c].via \notin l
        PROVE  r.calls[c].session = r.socks[r.place[t.calls[c].via]].sid
    <3>1. PICK e : e = t.place[t.calls[c].via]
      OBVIOUS
    <3>2. e \in 1 .. Len(t.socks) /\ t.calls[c].session = t.socks[e].sid /\ r.place[t.calls[c].via] = e
      BY Zenon, <1>3, <1>11, <2>1, <3>1
    <3>3. c \in X <=> e = i
      BY <1>12, <2>1, <3>1
    <3>4. r.calls[c].session = IF c \in X THEN i ELSE t.calls[c].session
      BY <1>4
    <3>5. r.socks[e].sid = IF e = i THEN i ELSE t.socks[e].sid
      BY <1>3, <3>2
    <3> QED
      BY <3>2, <3>3, <3>4, <3>5
  <2>2. \A c \in 1 .. Len(t.calls) : r.calls[c].via = t.calls[c].via /\ r.calls[c].at = t.calls[c].at
    BY <1>4
  <2> QED
    BY Zenon, <1>3, <2>1, <2>2 DEF SessionIsKept
<1>14. ASSUME NEW j, NEW n, NEW c, Works(sv, j, n, c), r.calls[c].via \notin l
       PROVE  LET q == r.calls[c].via IN
              j = r.place[q] \/ j = r.socks[r.place[q]].sid \/ Doomed(r, sv, q)
  <2>1. c \in 1 .. Len(t.calls) /\ r.calls[c].via = t.calls[c].via
    BY <1>4, <1>14, WorksIs
  <2>2. PICK q, e : q = t.calls[c].via /\ e = t.place[q]
    OBVIOUS
  <2>3. e \in 1 .. Len(t.socks)
    BY <2>1, <2>2, CallIs
  <2>4. j = e \/ j = t.socks[e].sid \/ Doomed(t, sv, q)
    BY <1>14, <2>1, <2>2 DEF Resumable, WorksThere
  <2>5. CASE e = i
    <3>1. j # o
      BY <1>7, <1>14
    <3>2. ~ Doomed(t, sv, q)
      BY <2>2, <2>5 DEF Doomed
    <3> QED
      BY <1>3, <1>6, <2>1, <2>2, <2>4, <2>5, <3>1, <3>2
  <2>6. CASE e # i
    <3>1. r.socks[e] = t.socks[e] /\ r.place[q] = e
      BY <1>3, <2>2, <2>3, <2>6
    <3>2. Doomed(t, sv, q) => Doomed(r, sv, q)
      BY Zenon, <2>2, <3>1 DEF Doomed
    <3> QED
      BY Zenon, <2>1, <2>2, <2>4, <3>1, <3>2
  <2> QED
    BY <2>5, <2>6
<1>15. Asked(r, sv, l)
  <2>1. ASSUME NEW q \in Places, q \notin l, r.place[q] # 0, r.socks[r.place[q]].at = "open",
               r.socks[r.place[q]].sid = r.place[q], sv[r.place[q]].lost, sv[r.place[q]].work # <<>>
        PROVE  Claimed(r, sv, r.place[q])
    <3>1. PICK e : e = t.place[q]
      OBVIOUS
    <3>2. r.place[q] = e /\ e # 0 /\ e \in 1 .. Len(t.socks) /\ e \in Socks
      BY <1>3, <2>1, <3>1, FormedTypes
    <3>3. CASE e # i
      <4>1. r.socks[e] = t.socks[e]
        BY <1>3, <3>2, <3>3
      <4>2. Claimed(t, sv, e)
        BY <2>1, <3>1, <3>2, <4>1 DEF Resumable, Asked
      <4>3. \A c \in 1 .. Len(t.calls) : t.calls[c].at = "answered" => r.calls[c].at = "answered"
        BY <1>4
      <4>4. Claimed(r, sv, e)
        BY <2>1, <3>2, <4>1, <4>2, <4>3, ClaimedKept
      <4> QED
        BY <3>2, <4>4
    <3>4. CASE e = i
      <4>1. PICK h : h = Head(sv[i].work)
        OBVIOUS
      <4>2. sv[i].work # <<>>
        BY <2>1, <3>2, <3>4 DEF Served, Idle
      <4>3. Works(sv, i, 1, h)
        <5>1. sv[i].work \in Seq(CallIds)
          BY <1>6 DEF Sessions, SessionType
        <5> QED
          BY <1>6, <4>1, <4>2, <5>1, TailAt DEF Works
      <4>4. h \in 1 .. Len(t.calls) /\ AtWork(t, 1, h)
        BY <4>3, WorksIs DEF Once
      <4>5. WorksHome(t, sv)
        BY DEF Resumable
      <4>6. t.calls[h].via = q
        BY Zenon, <3>1, <3>2, <3>4, <4>3, <4>5 DEF WorksHome
      <4>7. CASE t.calls[h].at = "sent"
        <5>1. h \in X
          BY Zenon, <1>12, <2>1, <3>1, <3>4, <4>4, <4>6, <4>7
        <5>2. \E m : Asks(r, i, m, h)
          BY <1>1, <4>4, <5>1, ResumesAsks
        <5> QED
          BY <3>2, <3>4, <4>1, <5>2 DEF Claimed
      <4>8. CASE t.calls[h].at = "answered"
        BY <1>4, <3>2, <3>4, <4>1, <4>4, <4>8 DEF Claimed
      <4> QED
        BY <4>4, <4>7, <4>8 DEF AtWork
    <3> QED
      BY <3>3, <3>4
  <2> QED
    BY <2>1 DEF Asked
<1>16. CarriesHome(r) /\ WorksHome(r, sv) /\ WorksThere(r, sv, l)
  BY Zenon, <1>9, <1>10, <1>14 DEF CarriesHome, WorksHome, WorksThere
<1> QED
  BY <1>8, <1>13, <1>15, <1>16 DEF Resumable

\* A frame of websocket i is read.
LEMMA ReadsResumable ==
    ASSUME NEW t, Formed(t), NEW i \in 1 .. Len(t.socks), t.socks[i].at = "open", t.socks[i].up # <<>>,
           NEW timer, timer = t.socks[i].timer,
           NEW r, Turns(t, i, "open", Tail(t.socks[i].up), timer, r),
           NEW sv, Sessions(sv, Len(t.calls)), Served(t, sv),
           NEW sv2, Reads(sv, i, Head(t.socks[i].up), sv2),
           NEW l, Placed(t, l), Resumable(t, sv, l)
    PROVE  Resumable(r, sv2, l)
<1>1. PICK a, f : a = t.socks[i].up /\ f = Head(a)
  OBVIOUS
<1>2. /\ Len(r.socks) = Len(t.socks) /\ r.place = t.place /\ r.calls = t.calls /\ r.waiting = t.waiting
      /\ \A j \in 1 .. Len(t.socks) :
             /\ r.socks[j].at = t.socks[j].at /\ r.socks[j].sid = t.socks[j].sid
             /\ r.socks[j].old = t.socks[j].old /\ r.socks[j].timer = t.socks[j].timer
             /\ r.socks[j].up = IF j = i THEN Tail(a) ELSE t.socks[j].up
  BY <1>1 DEF Turns
<1>3. /\ a \in Seq(FrameType) /\ Tail(a) \in Seq(FrameType) /\ f = a[1] /\ Len(a) \in Nat
      /\ Len(Tail(a)) = Len(a) - 1
      /\ \A m \in 1 .. Len(Tail(a)) : Tail(a)[m] = a[m + 1] /\ m + 1 \in 1 .. Len(a)
  <2>1. a \in Seq(FrameType) /\ a # <<>>
    BY <1>1, FormedTypes DEF SocketType
  <2> QED
    BY <1>1, <2>1, TailAt
<1>4. Hopeful(r)
  BY <1>2 DEF Resumable, Hopeful, Promising
<1>5. CarriesHome(t) /\ WorksHome(t, sv) /\ WorksThere(t, sv, l) /\ Asked(t, sv, l)
  BY DEF Resumable
<1>5a. \A j, m, c : Carries(r, j, m, c) => \E n : Carries(t, j, n, c)
  <2>1. PICK at, x : at = "open" /\ x = timer
    OBVIOUS
  <2>2. Turns(t, i, at, Tail(t.socks[i].up), x, r) /\ t.socks[i].up # <<>> /\ Formed(t) /\ i \in 1 .. Len(t.socks)
    BY <2>1
  <2>3. \A j, m, c : Carries(r, j, m, c) =>
               Carries(t, j, IF j = i THEN m + 1 ELSE m, c) /\ m \in Nat /\ (j = i => m # 0)
    BY Zenon, <2>2, ReadsCarries
  <2> QED
    BY <2>3
<1>6. CarriesHome(r)
  <2>1. ASSUME NEW j, NEW m, NEW c, Carries(r, j, m, c), r.socks[j].at \in {"connecting", "open"}
        PROVE  r.place[r.calls[c].via] = j
    <3>1. PICK n : Carries(t, j, n, c)
      BY <1>5a, <2>1
    <3>2. j \in 1 .. Len(t.socks)
      BY Zenon, <3>1, CarriesIs
    <3>3. t.socks[j].at \in {"connecting", "open"}
      BY <1>2, <2>1, <3>2
    <3>4. t.place[t.calls[c].via] = j
      BY <1>5, <3>1, <3>3 DEF CarriesHome
    <3> QED
      BY <1>2, <3>4
  <2> QED
    BY <2>1 DEF CarriesHome
\* the work of a session was there, or is of the place of websocket i
<1>7. ASSUME NEW j, NEW n, NEW c, Works(sv2, j, n, c)
      PROVE  Works(sv, j, n, c) \/ (j = i /\ c \in 1 .. Len(t.calls) /\ t.place[t.calls[c].via] = i)
  <2>1. Works(sv, j, n, c) \/ (j = i /\ Carries(t, i, 1, c))
    BY Zenon, <1>7, ReadsWorks
  <2>2. CASE Carries(t, i, 1, c)
    <3>1. c \in 1 .. Len(t.calls)
      BY Zenon, <2>2, CarriesIs
    <3>2. t.place[t.calls[c].via] = i
      BY <1>5, <2>2 DEF CarriesHome
    <3> QED
      BY <2>1, <3>1, <3>2
  <2> QED
    BY <2>1, <2>2
<1>8. WorksHome(r, sv2)
  <2>1. ASSUME NEW q \in Places, NEW n, NEW c, r.place[q] # 0,
               Works(sv2, r.place[q], n, c) \/ Works(sv2, r.socks[r.place[q]].old, n, c)
        PROVE  r.calls[c].via = q
    <3>1. PICK e, o : e = t.place[q] /\ o = t.socks[e].old
      OBVIOUS
    <3>2. r.place[q] = e /\ e # 0 /\ e \in 1 .. Len(t.socks) /\ r.socks[e].old = o
      BY <1>2, <2>1, <3>1, FormedTypes
    <3>3. Works(sv, e, n, c) \/ Works(sv, o, n, c) => t.calls[c].via = q
      BY Zenon, <1>5, <3>1, <3>2 DEF WorksHome
    <3>4. CASE c \in 1 .. Len(t.calls) /\ t.place[t.calls[c].via] = i /\ (e = i \/ o = i)
      <4>1. t.calls[c].via \in Places /\ t.place[t.calls[c].via] # 0
        BY <3>4, CallIs
      <4>2. o # i
        BY <3>1, <3>2, <3>4, <4>1 DEF Placed, OldApart
      <4>3. t.calls[c].via = q
        BY <3>1, <3>2, <3>4, <4>1, <4>2 DEF Placed, AtPlaces
      <4> QED
        BY <1>2, <4>3
    <3> QED
      BY <1>2, <1>7, <2>1, <3>2, <3>3, <3>4
  <2> QED
    BY Zenon, <2>1 DEF WorksHome
<1>9. SessionIsKept(r, l)
  <2>1. ASSUME NEW c \in 1 .. Len(t.calls), t.calls[c].at = "sent", t.calls[c].via \notin l
        PROVE  t.calls[c].session = r.socks[t.place[t.calls[c].via]].sid
    <3>1. t.calls[c].session = t.socks[t.place[t.calls[c].via]].sid
      BY <2>1 DEF Resumable, SessionIsKept
    <3>2. t.place[t.calls[c].via] \in 1 .. Len(t.socks)
      BY CallIs
    <3> QED
      BY <1>2, <3>1, <3>2
  <2> QED
    BY <1>2, <2>1 DEF SessionIsKept
<1>10. i \in Socks /\ \A j \in Socks : sv2[j].alive = sv[j].alive
  <2>1. i \in Socks
    BY FormedTypes
  <2> QED
    BY <2>1 DEF Reads
<1>11. WorksThere(r, sv2, l)
  <2>1. ASSUME NEW j, NEW n, NEW c, Works(sv2, j, n, c), r.calls[c].via \notin l
        PROVE  LET q == r.calls[c].via IN
               j = r.place[q] \/ j = r.socks[r.place[q]].sid \/ Doomed(r, sv2, q)
    <3>1. PICK q, e : q = t.calls[c].via /\ e = t.place[q]
      OBVIOUS
    <3>2. CASE j = i /\ e = i
      BY <1>2, <3>1, <3>2
    <3>3. CASE Works(sv, j, n, c)
      <4>1. c \in 1 .. Len(t.calls)
        BY <3>3, WorksIs
      <4>2. e \in 1 .. Len(t.socks)
        BY <3>1, <4>1, CallIs
      <4>3. j = e \/ j = t.socks[e].sid \/ Doomed(t, sv, q)
        BY <1>2, <1>5, <2>1, <3>1, <3>3 DEF WorksThere
      <4>4. Doomed(t, sv, q) => Doomed(r, sv2, q)
        <5>1. t.socks[e].sid \in Ids
          BY Zenon, <4>2, FormedTypes DEF SocketType
        <5>2. t.socks[e].sid # 0 => t.socks[e].sid \in Socks
          BY <5>1, Numbers DEF Ids, Socks
        <5> QED
          BY ZenonT(40), <1>2, <1>10, <3>1, <4>2, <5>2 DEF Doomed
      <4> QED
        BY Zenon, <1>2, <3>1, <4>2, <4>3, <4>4
    <3> QED
      BY <1>7, <2>1, <3>1, <3>2, <3>3
  <2> QED
    BY <2>1 DEF WorksThere
<1>12. Asked(r, sv2, l)
  <2>1. ASSUME NEW q \in Places, q \notin l, r.place[q] # 0, r.socks[r.place[q]].at = "open",
               r.socks[r.place[q]].sid = r.place[q], sv2[r.place[q]].lost, sv2[r.place[q]].work # <<>>
        PROVE  Claimed(r, sv2, r.place[q])
    <3>1. PICK e, h : e = t.place[q] /\ h = Head(sv[e].work)
      OBVIOUS
    <3>2. r.place[q] = e /\ e # 0 /\ e \in 1 .. Len(t.socks) /\ e \in Socks
      BY <1>2, <2>1, <3>1, FormedTypes
    <3>3. t.socks[e].at = "open" /\ t.socks[e].sid = e
      BY <1>2, <2>1, <3>2
    <3>4. sv[e].lost
      BY Zenon, <2>1, <3>2 DEF Reads
    <3>5. sv[e].work # <<>> => Claimed(t, sv, e)
      BY <1>5, <2>1, <3>1, <3>2, <3>3, <3>4 DEF Asked
    <3>6. CASE e # i
      <4>1. sv2[e] = sv[e] /\ r.socks[e].up = t.socks[e].up
        BY <1>2, <3>2, <3>6 DEF Reads
      <4>2. Claimed(r, sv2, e)
        BY <1>2, <2>1, <3>2, <3>5, <4>1, ClaimedKept
      <4> QED
        BY <3>2, <4>2
    <3>7. CASE e = i
      <4>1. PICK w : w = sv[i].work
        OBVIOUS
      <4>2. w # <<>> /\ w \in Seq(CallIds)
        BY <1>10, <3>4, <3>7, <4>1 DEF Served, Idle, Sessions, SessionType
      <4>3. f # [kind |-> "from", c |-> h] /\ Head(sv2[i].work) = h
        <5>1. CASE f.kind = "call" /\ sv2[i].work = Append(w, f.c)
          <6>1. Head(Append(w, f.c)) = Head(w)
            BY <4>2
          <6> QED
            BY <3>1, <3>7, <4>1, <5>1, <6>1
        <5>2. CASE /\ f.kind = "from" /\ sv2[i].work = w
                   /\ sv2[i].lost = (sv[i].lost /\ ~ (w # <<>> /\ f.c = Head(w)))
          <6>1. f.c # h
            BY Zenon, <2>1, <3>1, <3>2, <3>7, <4>1, <4>2, <5>2
          <6> QED
            BY <3>1, <3>7, <4>1, <5>2, <6>1
        <5> QED
          BY <1>1, <4>1, <5>1, <5>2 DEF Reads
      <4>4. CASE t.calls[h].at = "answered"
        BY <1>2, <3>2, <3>7, <4>3, <4>4 DEF Claimed
      <4>5. CASE t.calls[h].at # "answered"
        <5>1. PICK m : Asks(t, e, m, h)
          BY <3>1, <3>5, <3>7, <4>1, <4>2, <4>5 DEF Claimed
        <5>2. m \in 1 .. Len(a) /\ a[m] = [kind |-> "from", c |-> h]
          BY <1>1, <3>7, <5>1 DEF Asks
        <5>3. m # 1
          BY <1>3, <4>3, <5>2
        <5>4. PICK k : k = m - 1
          OBVIOUS
        <5>5. k \in 1 .. Len(Tail(a)) /\ k + 1 = m
          BY <1>3, <5>2, <5>3, <5>4
        <5>6. Tail(a)[k] = a[m]
          BY <1>3, <5>5
        <5>7. r.socks[i].up = Tail(a)
          BY Zenon, <1>2
        <5>8. Asks(r, i, k, h)
          BY <5>2, <5>5, <5>6, <5>7 DEF Asks
        <5> QED
          BY <3>2, <3>7, <4>3, <5>8 DEF Claimed
      <4> QED
        BY <4>4, <4>5
    <3> QED
      BY <3>6, <3>7
  <2> QED
    BY <2>1 DEF Asked
<1> QED
  BY <1>4, <1>6, <1>8, <1>9, <1>11, <1>12 DEF Resumable

\* No websocket opens or closes, and no more is on its way or in a session than
\* before.
LEMMA FewerResumable ==
    ASSUME NEW t, Formed(t), NEW sv, Sessions(sv, Len(t.calls)), NEW l, Resumable(t, sv, l), NEW r, NEW sv2,
           r.place = t.place, r.waiting = t.waiting, Len(r.calls) = Len(t.calls), Len(r.socks) = Len(t.socks),
           \A j \in 1 .. Len(t.socks) :
               /\ r.socks[j].at = t.socks[j].at /\ r.socks[j].sid = t.socks[j].sid
               /\ r.socks[j].old = t.socks[j].old /\ r.socks[j].timer = t.socks[j].timer,
           \A c \in 1 .. Len(t.calls) :
               r.calls[c].via = t.calls[c].via /\ (r.calls[c].at = "sent" => r.calls[c] = t.calls[c]),
           \A j, m, c : Carries(r, j, m, c) => \E n : Carries(t, j, n, c),
           \A j, n, c : Works(sv2, j, n, c) => \E k : Works(sv, j, k, c),
           \A j \in Socks : sv2[j].alive = sv[j].alive,
           Asked(r, sv2, l)
    PROVE  Resumable(r, sv2, l)
<1>1. CarriesHome(t) /\ WorksHome(t, sv) /\ WorksThere(t, sv, l) /\ SessionIsKept(t, l)
  BY DEF Resumable
<1>3. Hopeful(r)
  BY DEF Resumable, Hopeful, Promising
<1>4. CarriesHome(r)
  <2>1. ASSUME NEW j, NEW m, NEW c, Carries(r, j, m, c), r.socks[j].at \in {"connecting", "open"}
        PROVE  r.place[r.calls[c].via] = j
    <3>1. PICK n : Carries(t, j, n, c)
      BY <2>1
    <3>2. c \in 1 .. Len(t.calls) /\ j \in 1 .. Len(t.socks)
      BY Zenon, <3>1, CarriesIs
    <3>3. t.place[t.calls[c].via] = j
      BY <1>1, <2>1, <3>1, <3>2 DEF CarriesHome
    <3> QED
      BY <3>2, <3>3
  <2> QED
    BY <2>1 DEF CarriesHome
<1>5. ASSUME NEW j, NEW n, NEW c, Works(sv2, j, n, c)
      PROVE  (\E k : Works(sv, j, k, c)) /\ c \in 1 .. Len(t.calls)
  <2>1. PICK k : Works(sv, j, k, c)
    BY <1>5
  <2> QED
    BY <2>1, WorksIs
<1>6. WorksHome(r, sv2)
  <2>1. ASSUME NEW q \in Places, NEW n, NEW c, r.place[q] # 0,
               Works(sv2, r.place[q], n, c) \/ Works(sv2, r.socks[r.place[q]].old, n, c)
        PROVE  r.calls[c].via = q
    <3>1. c \in 1 .. Len(t.calls) /\ t.place[q] \in 1 .. Len(t.socks)
      BY <1>5, <2>1, FormedTypes
    <3>2. PICK k : Works(sv, t.place[q], k, c) \/ Works(sv, t.socks[t.place[q]].old, k, c)
      BY <1>5, <2>1, <3>1
    <3>3. q \in Places /\ t.place[q] # 0 /\ WorksHome(t, sv)
      BY <1>1, <2>1
    <3>4. ASSUME Works(sv, t.place[q], k, c) PROVE t.calls[c].via = q
      BY Zenon, <3>3, <3>4 DEF WorksHome
    <3>5. ASSUME Works(sv, t.socks[t.place[q]].old, k, c) PROVE t.calls[c].via = q
      BY Zenon, <3>3, <3>5 DEF WorksHome
    <3> QED
      BY <3>1, <3>2, <3>4, <3>5
  <2> QED
    BY ZenonT(40), <2>1 DEF WorksHome
<1>7. SessionIsKept(r, l)
  <2>1. ASSUME NEW c \in 1 .. Len(t.calls), r.calls[c].at = "sent", r.calls[c].via \notin l
        PROVE  r.calls[c].session = r.socks[r.place[r.calls[c].via]].sid
    <3>1. r.calls[c] = t.calls[c] /\ t.place[t.calls[c].via] \in 1 .. Len(t.socks)
      BY <2>1, CallIs
    <3>2. t.calls[c].session = t.socks[t.place[t.calls[c].via]].sid
      BY <1>1, <2>1, <3>1 DEF SessionIsKept
    <3> QED
      BY <3>1, <3>2
  <2> QED
    BY <2>1 DEF SessionIsKept
<1>8. WorksThere(r, sv2, l)
  <2>1. ASSUME NEW j, NEW n, NEW c, Works(sv2, j, n, c), r.calls[c].via \notin l
        PROVE  LET q == r.calls[c].via IN
               j = r.place[q] \/ j = r.socks[r.place[q]].sid \/ Doomed(r, sv2, q)
    <3>1. PICK k : Works(sv, j, k, c) /\ c \in 1 .. Len(t.calls)
      BY <1>5, <2>1
    <3>2. PICK q, e : q = t.calls[c].via /\ e = t.place[q] /\ r.calls[c].via = q /\ q \notin l
      BY <2>1, <3>1
    <3>3. j = e \/ j = t.socks[e].sid \/ Doomed(t, sv, q)
      BY <1>1, <3>1, <3>2 DEF WorksThere
    <3>4. e \in 1 .. Len(t.socks)
      BY <3>1, <3>2, CallIs
    <3>5. t.socks[e].sid # 0 => t.socks[e].sid \in Socks
      <4>1. t.socks[e].sid \in Ids
        BY <3>4, FormedTypes DEF SocketType
      <4> QED
        BY <4>1, Numbers DEF Ids, Socks
    <3>6. r.place[q] = e /\ r.socks[e].sid = t.socks[e].sid /\ r.socks[e].at = t.socks[e].at
      BY <3>2, <3>4
    <3>7. Doomed(t, sv, q) => Doomed(r, sv2, q)
      <4>1. PICK s : s = t.socks[e].sid
        OBVIOUS
      <4>2. s # 0 => sv2[s].alive = sv[s].alive
        BY <3>5, <4>1
      <4>3. Doomed(t, sv, q) <=> t.socks[e].at \in {"connecting", "closed"} /\ s # 0 /\ ~ sv[s].alive
        BY Zenon, <3>2, <4>1 DEF Doomed
      <4>4. Doomed(r, sv2, q) <=> t.socks[e].at \in {"connecting", "closed"} /\ s # 0 /\ ~ sv2[s].alive
        BY Zenon, <3>6, <4>1 DEF Doomed
      <4> QED
        BY Zenon, <4>2, <4>3, <4>4
    <3> QED
      BY <3>2, <3>3, <3>6, <3>7
  <2> QED
    BY <2>1 DEF WorksThere
<1> QED
  BY <1>3, <1>4, <1>6, <1>7, <1>8 DEF Resumable

\* A CONFIRM is read: it is not read where answers were lost.
LEMMA ConfirmResumable ==
    ASSUME NEW t, Formed(t), NEW i \in 1 .. Len(t.socks), t.socks[i].at = "open", t.socks[i].up # <<>>,
           NEW timer, timer = t.socks[i].timer,
           NEW r, Turns(t, i, "open", Tail(t.socks[i].up), timer, r),
           NEW sv, Sessions(sv, Len(t.calls)), ~ sv[i].lost,
           NEW sv2, sv2 = sv \/ (sv[i].work # <<>> /\ Pops(sv, i, sv2)),
           NEW l, Resumable(t, sv, l)
    PROVE  Resumable(r, sv2, l)
<1>1. i \in Socks
  BY FormedTypes
<1>2. /\ Len(r.socks) = Len(t.socks) /\ r.place = t.place /\ r.calls = t.calls /\ r.waiting = t.waiting
      /\ \A j \in 1 .. Len(t.socks) :
             /\ r.socks[j].at = t.socks[j].at /\ r.socks[j].sid = t.socks[j].sid
             /\ r.socks[j].old = t.socks[j].old /\ r.socks[j].timer = t.socks[j].timer
             /\ j # i => r.socks[j].up = t.socks[j].up
  BY DEF Turns
<1>3. \A j, m, c : Carries(r, j, m, c) => \E n : Carries(t, j, n, c)
  <2>1. PICK at, x : at = "open" /\ x = timer
    OBVIOUS
  <2>2. Turns(t, i, at, Tail(t.socks[i].up), x, r) /\ t.socks[i].up # <<>> /\ Formed(t) /\ i \in 1 .. Len(t.socks)
    BY <2>1
  <2>3. \A j, m, c : Carries(r, j, m, c) =>
               Carries(t, j, IF j = i THEN m + 1 ELSE m, c) /\ m \in Nat /\ (j = i => m # 0)
    BY Zenon, <2>2, ReadsCarries
  <2> QED
    BY <2>3
<1>4. \A j, n, c : Works(sv2, j, n, c) => \E k : Works(sv, j, k, c)
  <2>1. CASE sv2 = sv
    BY <2>1
  <2>2. CASE sv[i].work # <<>> /\ Pops(sv, i, sv2)
    BY <1>1, <2>2, PopsWorks
  <2> QED
    BY <2>1, <2>2
<1>5. /\ \A j \in Socks : sv2[j].alive = sv[j].alive
      /\ ~ sv2[i].lost /\ \A j \in Socks \ {i} : sv2[j] = sv[j]
  <2>1. CASE sv2 = sv
    BY <2>1
  <2>2. CASE Pops(sv, i, sv2)
    BY <2>2 DEF Pops
  <2> QED
    BY <2>1, <2>2
<1>6. Asked(r, sv2, l)
  <2>1. ASSUME NEW q \in Places, q \notin l, r.place[q] # 0, r.socks[r.place[q]].at = "open",
               r.socks[r.place[q]].sid = r.place[q], sv2[r.place[q]].lost, sv2[r.place[q]].work # <<>>
        PROVE  Claimed(r, sv2, r.place[q])
    <3>1. PICK e : e = t.place[q]
      OBVIOUS
    <3>2. r.place[q] = e /\ e # 0 /\ e \in 1 .. Len(t.socks) /\ e \in Socks
      BY <1>2, <2>1, <3>1, FormedTypes
    <3>3. e # i /\ sv2[e] = sv[e] /\ r.socks[e].up = t.socks[e].up
      BY <1>2, <1>5, <2>1, <3>2
    <3>4. Claimed(t, sv, e)
      BY <1>2, <2>1, <3>1, <3>2, <3>3 DEF Resumable, Asked
    <3>5. Claimed(r, sv2, e)
      BY <1>2, <2>1, <3>2, <3>3, <3>4, ClaimedKept
    <3> QED
      BY <3>2, <3>5
  <2> QED
    BY <2>1 DEF Asked
<1> QED
  BY <1>2, <1>3, <1>4, <1>5, <1>6, FewerResumable

\* The answer of the running request of session i arrives: it is confirmed.
LEMMA AnswersResumable ==
    ASSUME NEW t, Formed(t), NEW i \in 1 .. Len(t.socks), t.socks[i].at = "open",
           NEW up, NEW timer, timer = t.socks[i].timer, NEW u, Turns(t, i, "open", up, timer, u),
           Confirming(t, i, up), NEW sv, Sessions(sv, Len(t.calls)), ~ sv[i].lost,
           NEW h \in 1 .. Len(t.calls), NEW r, Replies(u, h, r), NEW l, Resumable(t, sv, l)
    PROVE  Resumable(r, sv, l)
<1>1. /\ Len(r.socks) = Len(t.socks) /\ r.place = t.place /\ Len(r.calls) = Len(t.calls) /\ r.waiting = t.waiting
      /\ r.socks = u.socks
      /\ \A j \in 1 .. Len(t.socks) :
             /\ r.socks[j].at = t.socks[j].at /\ r.socks[j].sid = t.socks[j].sid
             /\ r.socks[j].old = t.socks[j].old /\ r.socks[j].timer = t.socks[j].timer
             /\ j # i => r.socks[j].up = t.socks[j].up
  BY DEF Turns, Replies
<1>2. ASSUME NEW c \in 1 .. Len(t.calls)
      PROVE  /\ r.calls[c].via = t.calls[c].via /\ (r.calls[c].at = "sent" => r.calls[c] = t.calls[c])
             /\ t.calls[c].at = "answered" => r.calls[c].at = "answered"
  <2>1. t.calls[c] \in CallType
    BY CallIs
  <2>2. r.calls[c] = IF c = h THEN [t.calls[c] EXCEPT !.at = "answered"] ELSE t.calls[c]
    BY DEF Turns, Replies
  <2> QED
    BY <2>1, <2>2 DEF CallType
<1>3. \A j, m, c : Carries(r, j, m, c) => \E n : Carries(t, j, n, c)
  <2>1. PICK at : at = "open"
    OBVIOUS
  <2>2. \A j, m, c : Carries(u, j, m, c) => Carries(t, j, m, c)
    BY <2>1, TurnsCarries
  <2>3. \A j, m, c : Carries(r, j, m, c) => Carries(u, j, m, c)
    BY <1>1 DEF Carries
  <2> QED
    BY <2>2, <2>3
<1>4. Asked(r, sv, l)
  <2>1. ASSUME NEW q \in Places, q \notin l, r.place[q] # 0, r.socks[r.place[q]].at = "open",
               r.socks[r.place[q]].sid = r.place[q], sv[r.place[q]].lost, sv[r.place[q]].work # <<>>
        PROVE  Claimed(r, sv, r.place[q])
    <3>1. PICK e : e = t.place[q]
      OBVIOUS
    <3>2. r.place[q] = e /\ e # 0 /\ e \in 1 .. Len(t.socks) /\ e \in Socks
      BY <1>1, <2>1, <3>1, FormedTypes
    <3>3. e # i /\ r.socks[e].up = t.socks[e].up
      BY <1>1, <2>1, <3>2
    <3>4. Claimed(t, sv, e)
      BY <1>1, <2>1, <3>1, <3>2 DEF Resumable, Asked
    <3>5. Claimed(r, sv, e)
      BY <1>2, <2>1, <3>2, <3>3, <3>4, ClaimedKept
    <3> QED
      BY <3>2, <3>5
  <2> QED
    BY <2>1 DEF Asked
<1> QED
  BY <1>1, <1>2, <1>3, <1>4, FewerResumable

\* Websocket i closes, and answers may be lost.
LEMMA LosesResumable ==
    ASSUME NEW t, Formed(t), NEW i \in 1 .. Len(t.socks), t.socks[i].at # "closed",
           NEW up, up = <<>>, NEW timer, timer = ~ t.socks[i].stay, NEW r, Turns(t, i, "closed", up, timer, r),
           NEW sv, Sessions(sv, Len(t.calls)), NEW sv2, Loses(sv, i, sv2),
           NEW l, Placed(t, l), Resumable(t, sv, l)
    PROVE  Resumable(r, sv2, l)
<1>1. /\ Len(r.socks) = Len(t.socks) /\ r.place = t.place /\ r.calls = t.calls /\ r.waiting = t.waiting
      /\ \A j \in 1 .. Len(t.socks) :
             /\ r.socks[j].at = IF j = i THEN "closed" ELSE t.socks[j].at
             /\ r.socks[j].sid = t.socks[j].sid /\ r.socks[j].old = t.socks[j].old
             /\ j # i => r.socks[j].up = t.socks[j].up /\ r.socks[j].timer = t.socks[j].timer
             /\ j = i => r.socks[j].timer = timer
  BY Zenon DEF Turns
<1>2. CarriesHome(t) /\ WorksHome(t, sv) /\ WorksThere(t, sv, l) /\ Asked(t, sv, l) /\ SessionIsKept(t, l)
  BY DEF Resumable
<1>3. i \in Socks /\ \A j \in Socks : sv2[j].alive = sv[j].alive /\ sv2[j].work = sv[j].work
  <2>1. i \in Socks
    BY FormedTypes
  <2> QED
    BY <2>1 DEF Loses
<1>4. \A j, n, c : Works(sv2, j, n, c) => Works(sv, j, n, c)
  BY <1>3 DEF Works
<1>5. Hopeful(r)
  <2>1. ASSUME NEW j \in 1 .. Len(t.socks), Promising(t, j)
        PROVE  Promising(r, j)
    <3>1. CASE j # i
      BY <1>1, <2>1, <3>1 DEF Promising
    <3>2. CASE j = i
      <4>1. ~ t.socks[i].timer
        BY DEF Placed, Older
      <4>2. t.socks[i].at \in {"connecting", "open"}
        BY <2>1, <3>2, <4>1 DEF Promising
      <4>3. PICK p \in Places : t.place[p] = i
        BY <4>2 DEF Placed, AtPlaces
      <4>4. i # 0
        OBVIOUS
      <4>5. ~ t.socks[i].stay
        BY <4>3, <4>4 DEF Placed, Tended
      <4>6. r.socks[i].timer
        BY Zenon, <1>1, <4>5
      <4> QED
        BY <3>2, <4>6 DEF Promising
    <3> QED
      BY <3>1, <3>2
  <2> QED
    BY <1>1, <2>1 DEF Resumable, Hopeful
<1>6. CarriesHome(r)
  <2>1. \A j, m, c : Carries(r, j, m, c) => Carries(t, j, m, c)
    <3>1. PICK at : at = "closed"
      OBVIOUS
    <3>2. Turns(t, i, at, up, timer, r)
      BY <3>1
    <3> QED
      BY <3>2, TurnsCarries
  <2>2. ASSUME NEW j, NEW m, NEW c, Carries(r, j, m, c), r.socks[j].at \in {"connecting", "open"}
        PROVE  r.place[r.calls[c].via] = j
    <3>1. Carries(t, j, m, c)
      BY <2>1, <2>2
    <3>2. j \in 1 .. Len(t.socks)
      BY Zenon, <3>1, CarriesIs
    <3>3. t.socks[j].at \in {"connecting", "open"}
      BY <1>1, <2>2, <3>2
    <3>4. t.place[t.calls[c].via] = j
      BY <1>2, <3>1, <3>3 DEF CarriesHome
    <3> QED
      BY <1>1, <3>4
  <2> QED
    BY <2>2 DEF CarriesHome
<1>7. WorksHome(r, sv2)
  <2>1. ASSUME NEW q \in Places, NEW n, NEW c, r.place[q] # 0,
               Works(sv2, r.place[q], n, c) \/ Works(sv2, r.socks[r.place[q]].old, n, c)
        PROVE  r.calls[c].via = q
    <3>1. t.place[q] # 0 /\ t.place[q] \in 1 .. Len(t.socks)
      BY <1>1, <2>1, FormedTypes
    <3>2. Works(sv, t.place[q], n, c) \/ Works(sv, t.socks[t.place[q]].old, n, c)
      BY <1>1, <1>4, <2>1, <3>1
    <3>3. t.calls[c].via = q
      BY Zenon, <1>2, <3>1, <3>2 DEF WorksHome
    <3> QED
      BY <1>1, <3>3
  <2> QED
    BY Zenon, <2>1 DEF WorksHome
<1>8. SessionIsKept(r, l)
  <2>1. ASSUME NEW c \in 1 .. Len(t.calls), t.calls[c].at = "sent", t.calls[c].via \notin l
        PROVE  t.calls[c].session = r.socks[t.place[t.calls[c].via]].sid
    <3>1. t.calls[c].session = t.socks[t.place[t.calls[c].via]].sid
      BY <1>2, <2>1 DEF SessionIsKept
    <3>2. t.place[t.calls[c].via] \in 1 .. Len(t.socks)
      BY CallIs
    <3> QED
      BY Zenon, <1>1, <3>1, <3>2
  <2> QED
    BY <1>1, <2>1 DEF SessionIsKept
<1>9. WorksThere(r, sv2, l)
  <2>1. ASSUME NEW j, NEW n, NEW c, Works(sv2, j, n, c), r.calls[c].via \notin l
        PROVE  LET q == r.calls[c].via IN
               j = r.place[q] \/ j = r.socks[r.place[q]].sid \/ Doomed(r, sv2, q)
    <3>1. PICK q, e, s : q = t.calls[c].via /\ e = t.place[q] /\ s = t.socks[e].sid
      OBVIOUS
    <3>2. Works(sv, j, n, c) /\ c \in 1 .. Len(t.calls)
      BY <1>4, <2>1, WorksIs
    <3>3. e \in 1 .. Len(t.socks)
      BY <3>1, <3>2, CallIs
    <3>4. j = e \/ j = s \/ Doomed(t, sv, q)
      BY <1>1, <1>2, <2>1, <3>1, <3>2 DEF WorksThere
    <3>5. r.place[q] = e /\ r.socks[e].sid = s /\ r.socks[e].at \in {"closed", t.socks[e].at}
      BY Zenon, <1>1, <3>1, <3>3
    <3>6. Doomed(t, sv, q) => Doomed(r, sv2, q)
      <4>1. s \in Ids
        BY Zenon, <3>1, <3>3, FormedTypes DEF SocketType
      <4>2. s # 0 => s \in Socks
        BY <4>1, Numbers DEF Ids, Socks
      <4> QED
        BY Zenon, <1>3, <3>1, <3>5, <4>2 DEF Doomed
    <3> QED
      BY Zenon, <1>1, <3>1, <3>4, <3>5, <3>6
  <2> QED
    BY <2>1 DEF WorksThere
<1>10. Asked(r, sv2, l)
  <2>1. ASSUME NEW q \in Places, q \notin l, r.place[q] # 0, r.socks[r.place[q]].at = "open",
               r.socks[r.place[q]].sid = r.place[q], sv2[r.place[q]].lost, sv2[r.place[q]].work # <<>>
        PROVE  Claimed(r, sv2, r.place[q])
    <3>1. PICK e : e = t.place[q]
      OBVIOUS
    <3>2. r.place[q] = e /\ e # 0 /\ e \in 1 .. Len(t.socks) /\ e \in Socks
      BY <1>1, <2>1, <3>1, FormedTypes
    <3>3. e # i
      BY <1>1, <2>1, <3>2
    <3>4. t.socks[e].at = "open" /\ t.socks[e].sid = e /\ r.socks[e].up = t.socks[e].up
      BY <1>1, <2>1, <3>2, <3>3
    <3>5. sv2[e] = sv[e]
      BY <3>2, <3>3 DEF Loses
    <3>6. Claimed(t, sv, e)
      BY <1>2, <2>1, <3>1, <3>2, <3>4, <3>5 DEF Asked
    <3>7. Claimed(r, sv2, e)
      BY <1>1, <2>1, <3>2, <3>4, <3>5, <3>6, ClaimedKept
    <3> QED
      BY <3>2, <3>7
  <2> QED
    BY <2>1 DEF Asked
<1> QED
  BY <1>5, <1>6, <1>7, <1>8, <1>9, <1>10 DEF Resumable

\* Session i is closed, whose websocket is not open.
LEMMA PassesResumable ==
    ASSUME NEW t, Formed(t), NEW i \in 1 .. Len(t.socks), t.socks[i].at = "closed",
           NEW sv, Sessions(sv, Len(t.calls)), NEW sv2, Passes(sv, i, sv2), NEW l, Resumable(t, sv, l)
    PROVE  Resumable(t, sv2, l)
<1>1. i \in Socks
  BY FormedTypes
<1>2. \A j \in Socks : sv2[j].alive => sv[j].alive
  BY <1>1 DEF Passes
<1>3. \A j, n, c : Works(sv2, j, n, c) => Works(sv, j, n, c)
  <2>1. ASSUME NEW j, NEW n, NEW c, Works(sv2, j, n, c) PROVE Works(sv, j, n, c)
    <3>1. j # i
      <4>1. Len(<<>>) = 0
        OBVIOUS
      <4> QED
        BY <2>1, <4>1 DEF Works, Passes
    <3> QED
      BY <2>1, <3>1 DEF Works, Passes
  <2> QED
    BY <2>1
<1>4. WorksHome(t, sv) /\ WorksThere(t, sv, l) /\ Asked(t, sv, l)
  BY DEF Resumable
<1>5. WorksHome(t, sv2)
  <2>1. ASSUME NEW q \in Places, NEW n, NEW c, t.place[q] # 0,
               Works(sv2, t.place[q], n, c) \/ Works(sv2, t.socks[t.place[q]].old, n, c)
        PROVE  t.calls[c].via = q
    <3>1. Works(sv, t.place[q], n, c) \/ Works(sv, t.socks[t.place[q]].old, n, c)
      BY <1>3, <2>1
    <3> QED
      BY Zenon, <1>4, <2>1, <3>1 DEF WorksHome
  <2> QED
    BY Zenon, <2>1 DEF WorksHome
<1>6. ASSUME NEW j, NEW n, NEW c, Works(sv2, j, n, c), t.calls[c].via \notin l
      PROVE  LET q == t.calls[c].via IN
             j = t.place[q] \/ j = t.socks[t.place[q]].sid \/ Doomed(t, sv2, q)
  <2>1. PICK q, e, s : q = t.calls[c].via /\ e = t.place[q] /\ s = t.socks[e].sid
    OBVIOUS
  <2>2. Works(sv, j, n, c)
    BY <1>3, <1>6
  <2>3. j = e \/ j = s \/ Doomed(t, sv, q)
    BY <1>4, <1>6, <2>1, <2>2 DEF WorksThere
  <2>4. s # 0 /\ sv2[s].alive => sv[s].alive
    <3>1. e \in 1 .. Len(t.socks)
      BY <2>1, <2>2, WorksIs, CallIs
    <3>2. s \in Ids
      BY Zenon, <2>1, <3>1, FormedTypes DEF SocketType
    <3> QED
      BY <1>2, <3>2, Numbers DEF Ids, Socks
  <2>5. Doomed(t, sv, q) => Doomed(t, sv2, q)
    BY Zenon, <2>1, <2>4 DEF Doomed
  <2> QED
    BY <2>1, <2>3, <2>5
<1>7. Asked(t, sv2, l)
  <2>1. ASSUME NEW q \in Places, q \notin l, t.place[q] # 0, t.socks[t.place[q]].at = "open",
               t.socks[t.place[q]].sid = t.place[q], sv2[t.place[q]].lost, sv2[t.place[q]].work # <<>>
        PROVE  Claimed(t, sv2, t.place[q])
    <3>1. t.place[q] \in Socks \ {i}
      BY <2>1, FormedTypes
    <3>2. sv2[t.place[q]] = sv[t.place[q]]
      BY <3>1 DEF Passes
    <3> QED
      BY <1>4, <2>1, <3>2 DEF Asked, Claimed
  <2> QED
    BY <2>1 DEF Asked
<1> QED
  BY <1>5, <1>6, <1>7 DEF Resumable, WorksThere

\* The server has been reached by websocket i, which is open then or lost.
LEMMA RecoversResumable ==
    ASSUME NEW t, Formed(t), NEW l, Placed(t, l), NEW i \in 1 .. Len(t.socks),
           NEW sv, Sessions(sv, Len(t.calls)), Served(t, sv), Resumable(t, sv, l), sv[i].line = 0, t.socks[i].at # "closed",
           NEW at \in {"open", "closed"}, NEW up, NEW timer, NEW r, Turns(t, i, at, up, timer, r),
           at = "open" => t.socks[i].at = "connecting" /\ up = t.socks[i].up,
           at = "closed" => up = <<>> /\ timer = ~ t.socks[i].stay,
           NEW sv2, Recovers(t, sv, i, sv2),
           NEW l2, l \subseteq l2,
           at = "open" /\ t.socks[i].old # 0 /\ ~ sv[t.socks[i].old].alive
               => \A p \in Places : t.place[p] = i => p \in l2
    PROVE  Resumable(r, sv2, l2)
<1>1. /\ Len(r.socks) = Len(t.socks) /\ r.place = t.place /\ r.calls = t.calls /\ r.waiting = t.waiting
      /\ \A j \in 1 .. Len(t.socks) :
             /\ r.socks[j].at = IF j = i THEN at ELSE t.socks[j].at
             /\ r.socks[j].sid = t.socks[j].sid /\ r.socks[j].old = t.socks[j].old
             /\ j # i => r.socks[j].up = t.socks[j].up /\ r.socks[j].timer = t.socks[j].timer
             /\ j = i => r.socks[j].timer = timer
  BY DEF Turns
<1>2. CarriesHome(t) /\ WorksHome(t, sv) /\ WorksThere(t, sv, l) /\ Asked(t, sv, l) /\ SessionIsKept(t, l)
  BY DEF Resumable
<1>3. PICK o : o = t.socks[i].old
  OBVIOUS
<1>4. i \in Socks /\ i # 0 /\ 1 .. Len(t.socks) \subseteq Socks /\ ~ sv[i].alive
  <2>1. i \in Socks /\ 1 .. Len(t.socks) \subseteq Socks
    BY FormedTypes
  <2> QED
    BY <2>1 DEF Served, Idle
<1>5. /\ t.socks[i].at # "open" /\ t.socks[i].sid = o /\ o # i
      /\ o \in Ids /\ (o # 0 => o \in Socks)
  <2>1. t.socks[i].sid # i /\ t.socks[i].at # "open"
    BY <1>4 DEF Served, Reached
  <2>2. t.socks[i].sid \in {i, o} /\ o < i
    BY <1>3 DEF Placed, Older
  <2>3. o \in Ids
    BY <1>3, FormedTypes DEF SocketType
  <2> QED
    BY <2>1, <2>2, <2>3, Numbers DEF Ids, Socks
\* the session that was asked for is not that of websocket i, nor at a place
<1>6. \A e \in 1 .. Len(t.socks) : t.socks[e].old # i /\ t.socks[e].sid # i
  <2>1. \A e \in 1 .. Len(t.socks) : t.socks[e].old # i
    BY <1>4 DEF Served, Reached
  <2>2. \A e \in 1 .. Len(t.socks) : t.socks[e].sid = e => sv[e].line # 0
    BY DEF Served, Reached
  <2> QED
    BY <2>1, <2>2 DEF Placed, Older
<1>7. /\ \A j \in Socks \ {i} : sv2[j].alive => sv[j].alive
      /\ o # 0 => ~ sv2[o].alive
      /\ \A j \in Socks \ {i, o} : sv2[j] = sv[j]
  <2>1. CASE o # 0 /\ sv[o].alive
    BY <1>3, <1>5, <2>1 DEF Recovers
  <2>2. CASE ~ (o # 0 /\ sv[o].alive)
    <3>1. \A j \in Socks \ {i} : sv2[j] = sv[j]
      BY <1>3, <2>2 DEF Recovers
    <3> QED
      BY <1>5, <2>2, <3>1
  <2> QED
    BY <2>1, <2>2
<1>8. ASSUME NEW j, NEW n, NEW c, Works(sv2, j, n, c)
      PROVE  \/ j = i /\ o # 0 /\ sv[o].alive /\ Works(sv, o, n, c)
             \/ j # i /\ Works(sv, j, n, c)
  <2>1. t.socks[i].old # i
    BY <1>3, <1>5
  <2> QED
    BY Zenon, <1>3, <1>8, <2>1, RecoversWorks
<1>9. Hopeful(r)
  <2>1. ASSUME NEW j \in 1 .. Len(t.socks), Promising(t, j)
        PROVE  Promising(r, j)
    <3>1. CASE j # i
      BY <1>1, <2>1, <3>1 DEF Promising
    <3>2. CASE j = i
      <4>1. t.socks[i].timer => t.socks[i].at = "closed"
        BY DEF Placed, Older
      <4>2. CASE at = "open"
        BY <1>1, <1>5, <3>2, <4>2 DEF Promising
      <4>3. CASE at = "closed" /\ t.socks[i].at = "connecting"
        <5>1. PICK p \in Places : t.place[p] = i
          BY <4>3 DEF Placed, AtPlaces
        <5>2. ~ t.socks[i].stay
          BY <1>4, <5>1 DEF Placed, Tended
        <5>3. timer
          BY Zenon, <4>3, <5>2
        <5>4. r.socks[i].timer
          BY Zenon, <1>1, <5>3
        <5> QED
          BY <3>2, <5>4 DEF Promising
      <4> QED
        BY <1>5, <2>1, <3>2, <4>1, <4>2, <4>3 DEF Promising
    <3> QED
      BY <3>1, <3>2
  <2> QED
    BY <1>1, <2>1 DEF Resumable, Hopeful
<1>10. CarriesHome(r)
  <2>1. \A j, m, c : Carries(r, j, m, c) => Carries(t, j, m, c)
    BY TurnsCarries
  <2>2. ASSUME NEW j, NEW m, NEW c, Carries(r, j, m, c), r.socks[j].at \in {"connecting", "open"}
        PROVE  r.place[r.calls[c].via] = j
    <3>1. Carries(t, j, m, c)
      BY <2>1, <2>2
    <3>2. j \in 1 .. Len(t.socks)
      BY Zenon, <3>1, CarriesIs
    <3>3. t.socks[j].at \in {"connecting", "open"}
      BY <1>1, <2>2, <3>2
    <3>4. t.place[t.calls[c].via] = j
      BY <1>2, <3>1, <3>3 DEF CarriesHome
    <3> QED
      BY <1>1, <3>4
  <2> QED
    BY <2>2 DEF CarriesHome
<1>11. WorksHome(r, sv2)
  <2>1. ASSUME NEW q \in Places, NEW n, NEW c, r.place[q] # 0,
               Works(sv2, r.place[q], n, c) \/ Works(sv2, r.socks[r.place[q]].old, n, c)
        PROVE  r.calls[c].via = q
    <3>1. PICK e, x : e = t.place[q] /\ x = t.socks[e].old
      OBVIOUS
    <3>2. r.place[q] = e /\ e # 0 /\ e \in 1 .. Len(t.socks) /\ r.socks[e].old = x /\ x # i
      BY <1>1, <1>6, <2>1, <3>1, FormedTypes
    <3>3. Works(sv, e, n, c) \/ Works(sv, x, n, c)
      <4>1. CASE Works(sv2, x, n, c)
        BY <1>8, <3>2, <4>1
      <4>2. CASE Works(sv2, e, n, c) /\ e # i
        BY <1>8, <4>2
      <4>3. CASE Works(sv2, e, n, c) /\ e = i
        BY <1>3, <1>8, <3>1, <4>3
      <4> QED
        BY <2>1, <3>2, <4>1, <4>2, <4>3
    <3>4. t.calls[c].via = q
      BY ZenonT(40), <1>2, <3>1, <3>2, <3>3 DEF WorksHome
    <3> QED
      BY <1>1, <3>4
  <2> QED
    BY Zenon, <2>1 DEF WorksHome
<1>12. SessionIsKept(r, l2)
  <2>1. ASSUME NEW c \in 1 .. Len(t.calls), t.calls[c].at = "sent", t.calls[c].via \notin l2
        PROVE  t.calls[c].session = r.socks[t.place[t.calls[c].via]].sid
    <3>1. t.calls[c].session = t.socks[t.place[t.calls[c].via]].sid
      BY <1>2, <2>1 DEF SessionIsKept
    <3>2. t.place[t.calls[c].via] \in 1 .. Len(t.socks)
      BY CallIs
    <3> QED
      BY Zenon, <1>1, <3>1, <3>2
  <2> QED
    BY <1>1, <2>1 DEF SessionIsKept
<1>13. WorksThere(r, sv2, l2)
  <2>1. ASSUME NEW j, NEW n, NEW c, Works(sv2, j, n, c), r.calls[c].via \notin l2
        PROVE  LET q == r.calls[c].via IN
               j = r.place[q] \/ j = r.socks[r.place[q]].sid \/ Doomed(r, sv2, q)
    <3>1. PICK q, e, s : q = t.calls[c].via /\ e = t.place[q] /\ s = t.socks[e].sid
      OBVIOUS
    <3>2. PICK y : Works(sv, y, n, c) /\ ((j = i /\ y = o /\ o # 0 /\ sv[o].alive) \/ (j # i /\ y = j))
      BY <1>8, <2>1
    <3>3. c \in 1 .. Len(t.calls)
      BY <3>2, WorksIs
    <3>4. q \in Places /\ e \in 1 .. Len(t.socks) /\ e # 0 /\ q \notin l2 /\ q \notin l
      BY <1>1, <2>1, <3>1, <3>3, CallIs
    <3>5. y = e \/ y = s \/ Doomed(t, sv, q)
      BY <1>2, <3>1, <3>2, <3>4 DEF WorksThere
    <3>6. /\ r.calls[c].via = q /\ r.place[q] = e /\ r.socks[e].sid = s
          /\ r.socks[e].at = IF e = i THEN at ELSE t.socks[e].at
      BY Zenon, <1>1, <3>1, <3>4
    <3>7. s # i /\ s \in Ids /\ s \in {e, t.socks[e].old}
      <4>1. s # i
        BY <1>6, <3>1, <3>4
      <4>2. s \in Ids
        BY Zenon, <3>1, <3>4, FormedTypes DEF SocketType
      <4>3. s \in {e, t.socks[e].old}
        BY <3>1, <3>4 DEF Placed, Older
      <4> QED
        BY <4>1, <4>2, <4>3
    <3>8. CASE Doomed(t, sv, q)
      <4>1. t.socks[e].at \in {"connecting", "closed"} /\ s # 0 /\ ~ sv[s].alive
        BY Zenon, <3>1, <3>8 DEF Doomed
      <4>2. ~ sv2[s].alive
        <5>1. s \in Socks \ {i}
          BY <3>7, <4>1, Numbers DEF Ids, Socks
        <5> QED
          BY <1>7, <4>1, <5>1
      <4>3. r.socks[e].at \in {"connecting", "closed"}
        <5>1. CASE e # i
          BY <3>6, <4>1, <5>1
        <5>2. CASE e = i
          <6>1. s = o
            BY <1>5, <3>1, <5>2
          <6>2. at # "open"
            BY Zenon, <1>3, <3>1, <3>4, <4>1, <5>2, <6>1
          <6> QED
            BY <3>6, <5>2, <6>2
        <5> QED
          BY <5>1, <5>2
      <4>4. Doomed(r, sv2, q)
        BY <3>6, <4>1, <4>2, <4>3 DEF Doomed
      <4> QED
        BY <3>6, <4>4
    <3>9. CASE j # i /\ (y = e \/ y = s)
      BY <3>2, <3>6, <3>9
    <3>10. CASE j = i /\ (y = e \/ y = s)
      <4>1. y = o /\ o # 0 /\ sv[o].alive
        BY <3>2, <3>10
      <4>2. o # e
        BY <1>3, <3>1, <3>4 DEF Placed, OldApart
      <4>3. s = o /\ t.socks[e].old = o
        BY <3>7, <3>10, <4>1, <4>2
      <4>4. CASE e = i
        BY <3>6, <3>10, <4>4
      <4>5. CASE e # i
        <5>1. t.socks[e].at # "open"
          <6>1. sv[e].line # 0 => ~ sv[o].alive
            BY <3>4, <4>1, <4>3 DEF Served, Reached
          <6>2. ~ sv[e].alive
            BY <1>4, <3>4, <4>1, <6>1 DEF Served, Idle
          <6> QED
            BY <3>4, <6>2 DEF Served, Reached
        <5>2. t.socks[e].at # "closing"
          BY Zenon, <3>1, <3>4 DEF Placed, Tended
        <5>3. t.socks[e].at \in {"connecting", "open", "closing", "closed"}
          BY <3>4, FormedTypes DEF SocketType
        <5>4. Doomed(r, sv2, q)
          BY <1>7, <3>6, <4>1, <4>3, <4>5, <5>1, <5>2, <5>3 DEF Doomed
        <5> QED
          BY <3>6, <5>4
      <4> QED
        BY <4>4, <4>5
    <3> QED
      BY <3>5, <3>8, <3>9, <3>10
  <2> QED
    BY <2>1 DEF WorksThere
<1>14. Asked(r, sv2, l2)
  <2>1. ASSUME NEW q \in Places, q \notin l2, r.place[q] # 0, r.socks[r.place[q]].at = "open",
               r.socks[r.place[q]].sid = r.place[q], sv2[r.place[q]].lost, sv2[r.place[q]].work # <<>>
        PROVE  Claimed(r, sv2, r.place[q])
    <3>1. PICK e : e = t.place[q]
      OBVIOUS
    <3>2. r.place[q] = e /\ e # 0 /\ e \in 1 .. Len(t.socks) /\ e \in Socks
      BY <1>1, <1>4, <2>1, <3>1, FormedTypes
    <3>3. e # i
      BY <1>1, <1>6, <2>1, <3>2
    <3>4. e # o
      BY <1>3, <3>1, <3>2 DEF Placed, OldApart
    <3>5. t.socks[e].at = "open" /\ t.socks[e].sid = e /\ r.socks[e].up = t.socks[e].up
      BY <1>1, <2>1, <3>2, <3>3
    <3>6. sv2[e] = sv[e]
      BY <1>7, <3>2, <3>3, <3>4
    <3>7. Claimed(t, sv, e)
      BY <1>2, <2>1, <3>1, <3>2, <3>5, <3>6 DEF Asked
    <3>8. Claimed(r, sv2, e)
      BY <1>1, <2>1, <3>2, <3>5, <3>6, <3>7, ClaimedKept
    <3> QED
      BY <3>2, <3>8
  <2> QED
    BY <2>1 DEF Asked
<1> QED
  BY <1>9, <1>10, <1>11, <1>12, <1>13, <1>14 DEF Resumable

\* The calls of a step that makes them; GS.envSocket may be opened for them.
LEMMA RequestingResumable ==
    ASSUME NEW t, NEW u, NEW calls, Requesting(t, u, calls), NEW l, Placed(t, l),
           NEW sv, Sessions(sv, Len(t.calls)), Once(t, sv), Served(t, sv), Lines(t, sv, l), Resumable(t, sv, l),
           NEW l2, l2 = IF tab'.place[Env] # t.place[Env] THEN l \cup {Env} ELSE l
    PROVE  Resumable(tab', sv, l2)
<1>1. PICK r : r = tab'
  OBVIOUS
<1>2. /\ Formed(t) /\ Listed(t, calls) /\ calls \in Seq(1 .. Len(t.calls)) /\ Reopens(t, u) /\ Formed(u)
      /\ u.calls = t.calls /\ u.waiting = t.waiting /\ Makes(u, calls, r) /\ Formed(r)
  BY <1>1 DEF Requesting
<1>3. Listed(u, calls) /\ calls \in Seq(1 .. Len(u.calls)) /\ Sessions(sv, Len(u.calls))
  BY <1>2 DEF Listed
<1>4. Once(u, sv)
  BY RequestingOnce
<1>5. l \subseteq l2
  OBVIOUS
<1>6. Placed(t, l2) /\ Lines(t, sv, l2) /\ Resumable(t, sv, l2)
  <2>1. Placed(t, l2)
    BY <1>2, <1>5, SameStays
  <2>2. Lines(t, sv, l2)
    BY <1>2, <1>5, LinesLeft
  <2>3. Resumable(t, sv, l2)
    BY <1>5, ResumableLeft
  <2> QED
    BY <2>1, <2>2, <2>3
<1>7. Lines(u, sv, l2) /\ Resumable(u, sv, l2)
  <2>1. CASE u = t
    BY <1>6, <2>1
  <2>2. CASE Moves(t, Env, 0, 0, u)
    <3>1. u.place[Env] = Len(t.socks) + 1
      BY <2>2, Numbers DEF Moves
    <3>2. t.place[Env] \in 1 .. Len(t.socks) /\ Len(t.socks) \in Nat
      BY <1>2, FormedTypes
    <3>3. r.place = u.place
      BY <1>2, MakesSockets
    <3>4. Env \in l2
      BY <1>1, <3>1, <3>2, <3>3
    <3>5. Lines(u, sv, l2)
      BY <1>6, <2>2, <3>4, MovesLines
    <3>6. Resumable(u, sv, l2)
      BY <1>2, <1>6, <2>2, <3>4, MovesResumable
    <3> QED
      BY <3>5, <3>6
  <2> QED
    BY <1>2, <2>1, <2>2, ReopensMoves
<1>8. Resumable(r, sv, l2)
  BY <1>2, <1>3, <1>4, <1>7, MakesResumable
<1> QED
  BY <1>1, <1>8

LEMMA ResumableInit ==
    ASSUME CallsInit
    PROVE  Resumable(tab, server, left)
<1>1. PICK s : s = Socket(None, 0)
  OBVIOUS
<1>2. s.at = "connecting" /\ s.up = <<>> /\ Len(s.up) = 0
  <2>1. s.at = "connecting" /\ s.up = <<>>
    BY <1>1, NewSocket, Numbers
  <2> QED
    BY <2>1
<1>3. PICK t, e : t = tab /\ e = <<>>
  OBVIOUS
<1>4. /\ t.socks = <<s>> /\ t.place = [p \in Places |-> IF p = Env THEN 1 ELSE 0]
      /\ t.calls = e /\ t.waiting = e
  BY <1>1, <1>3 DEF CallsInit
<1>5. Len(e) = 0 /\ t.socks[1] = s
  BY <1>3, <1>4
<1>6. \A p \in Places : t.place[p] # 0 => t.socks[t.place[p]].at # "open"
  <2>1. \A p \in Places : t.place[p] = 0 \/ t.place[p] = 1
    BY <1>4
  <2> QED
    BY <1>2, <1>5, <2>1
<1>7. \A i, m, c : ~ Carries(t, i, m, c)
  BY <1>2, <1>4 DEF Carries
<1>8. ASSUME NEW j, NEW n, NEW c, Works(server, j, n, c) PROVE FALSE
  <2>1. server[j] = NoSession /\ n \in 1 .. Len(server[j].work)
    BY <1>8 DEF CallsInit, Works, Socks
  <2>2. Len(server[j].work) = 0
    BY <2>1 DEF NoSession
  <2> QED
    BY <2>1, <2>2
<1>9. Hopeful(t)
  BY <1>3, <1>4 DEF Hopeful
<1>10. CarriesHome(t)
  BY <1>7 DEF CarriesHome
<1>11. WorksHome(t, server)
  BY <1>8 DEF WorksHome
<1>12. SessionIsKept(t, left)
  BY <1>4, <1>5 DEF SessionIsKept
<1>13. WorksThere(t, server, left)
  BY <1>8 DEF WorksThere
<1>14. Asked(t, server, left)
  BY <1>6 DEF Asked
<1> QED
  BY <1>3, <1>9, <1>10, <1>11, <1>12, <1>13, <1>14 DEF Resumable

LEMMA ResumableNext ==
    ASSUME Typed, Placed(tab, left), Once(tab, server), Confirmed(tab, server), Served(tab, server),
           Lines(tab, server, left), Resumable(tab, server, left), [CallsNext]_cvars
    PROVE  Resumable(tab, server, left)'
<1>1. /\ Formed(tab) /\ Listed(tab, <<>>) /\ Named(tab) /\ Sessions(server, Len(tab.calls))
      /\ 1 .. Len(tab.socks) \subseteq Socks
  BY FormedTypes DEF Typed
<1>2. PICK r, sv, l : r = tab' /\ sv = server' /\ l = left'
  OBVIOUS
<1> SUFFICES Resumable(r, sv, l)
  <2>1. Hopeful(r) => Hopeful(tab)'
    BY <1>2 DEF Hopeful, Promising
  <2>2. CarriesHome(r) => CarriesHome(tab)'
    BY <1>2 DEF CarriesHome, Carries
  <2>3. WorksHome(r, sv) => WorksHome(tab, server)'
    BY <1>2 DEF WorksHome, Works
  <2>4. SessionIsKept(r, l) => SessionIsKept(tab, left)'
    BY <1>2 DEF SessionIsKept
  <2>5. WorksThere(r, sv, l) => WorksThere(tab, server, left)'
    <3>1. \A p : Doomed(r, sv, p) => Doomed(tab, server, p)'
      BY <1>2 DEF Doomed
    <3>2. \A j, n, c : Works(server, j, n, c)' => Works(sv, j, n, c)
      BY <1>2 DEF Works
    <3> QED
      BY <1>2, <3>1, <3>2 DEF WorksThere
  <2>6. Asked(r, sv, l) => Asked(tab, server, left)'
    BY <1>2 DEF Asked, Claimed, Asks
  <2> QED
    BY <2>1, <2>2, <2>3, <2>4, <2>5, <2>6 DEF Resumable
<1>3. ASSUME NEW p \in Places, OpenPlace(p) PROVE Resumable(r, sv, l)
  <2>1. Moves(tab, p, 0, 0, r) /\ sv = server /\ l = left /\ tab.place[p] = 0
    BY <1>1, <1>2, <1>3, OpenPlaceMoves DEF OpenPlace
  <2> QED
    BY <1>1, <2>1, MovesResumable
<1>4. ASSUME NEW p \in Places, Call(p) PROVE Resumable(r, sv, l)
  <2>1. PICK t, u : Adds(tab, p, t) /\ Requesting(t, u, <<Len(tab.calls) + 1>>)
    BY <1>1, <1>4, CallRequests
  <2>2. t.place = tab.place /\ t.socks = tab.socks
    BY <2>1 DEF Adds
  <2>3. Placed(t, left)
    BY <2>2 DEF Placed, AtPlaces, Older, OldApart, Tended
  <2>4. Served(t, server)
    BY <2>2 DEF Served, Reached
  <2>5. Lines(t, server, left)
    BY <1>1, <2>1, AddsLines
  <2>6. Once(t, server) /\ Sessions(server, Len(t.calls))
    BY <1>1, <2>1, AddsOnce
  <2>7. Resumable(t, server, left)
    BY <1>1, <2>1, AddsResumable
  <2>8. PICK calls : calls = <<Len(tab.calls) + 1>>
    BY Zenon
  <2>9. sv = server
    BY <1>2, <1>4 DEF Call
  <2>10. l = IF tab'.place[Env] # t.place[Env] THEN left \cup {Env} ELSE left
    BY <1>2, <1>4, <2>2 DEF Call, LeavesEnv
  <2>11. Resumable(tab', server, l)
    BY <2>1, <2>3, <2>4, <2>5, <2>6, <2>7, <2>8, <2>10, RequestingResumable
  <2> QED
    BY <1>2, <2>9, <2>11
<1>5. ASSUME NEW i \in Socks, SessionArrives(i) PROVE Resumable(r, sv, l)
  <2>1. PICK X : X = Unfinished(i)
    OBVIOUS
  <2>2. PICK t, u : Resumes(tab, X, i, t) /\ Requesting(t, u, tab.waiting)
    BY <1>1, <1>5, <2>1, ArrivalRequests
  <2>3. i \in 1 .. Len(tab.socks) /\ tab.socks[i].at = "open" /\ tab.socks[i].sid # i
    BY <1>5 DEF SessionArrives, Is
  <2>4. Placed(t, left)
    BY <1>1, <2>2, <2>3, ResumesPlaced
  <2>5. Served(t, server)
    BY <1>1, <2>2, <2>3, ResumesServed
  <2>6. Lines(t, server, left)
    BY <1>1, <2>2, <2>3, ResumesLines
  <2>7. Once(t, server) /\ Sessions(server, Len(t.calls))
    <3>1. Once(t, server)
      BY <1>1, <2>2, <2>3, ResumesOnce
    <3>2. Len(t.calls) = Len(tab.calls)
      BY <2>2 DEF Resumes
    <3> QED
      BY <1>1, <3>1, <3>2
  <2>8. Resumable(t, server, left)
    <3>1. X = UnfinishedIn(tab, i)
      BY <2>1 DEF Unfinished, UnfinishedIn
    <3>2. Resumes(tab, UnfinishedIn(tab, i), i, t)
      BY <2>2, <3>1
    <3> QED
      BY <1>1, <2>3, <3>2, ResumesResumable
  <2>9. PICK calls : calls = tab.waiting
    OBVIOUS
  <2>10. sv = server
    BY <1>2, <1>5 DEF SessionArrives
  <2>11. l = IF tab'.place[Env] # t.place[Env] THEN left \cup {Env} ELSE left
    <3>1. t.place = tab.place
      BY <2>2 DEF Resumes
    <3> QED
      BY <1>2, <1>5, <3>1 DEF SessionArrives, LeavesEnv
  <2>12. Resumable(tab', server, l)
    BY <2>2, <2>4, <2>5, <2>6, <2>7, <2>8, <2>9, <2>11, RequestingResumable
  <2> QED
    BY <1>2, <2>10, <2>12
<1>6. ASSUME NEW i \in Socks, Timer(i) PROVE Resumable(r, sv, l)
  <2>1. PICK p, sid : Moves(tab, p, i, sid, r) /\ tab.place[p] # 0 /\ sid = tab.socks[tab.place[p]].sid
    BY <1>1, <1>2, <1>6, TimerMoves
  <2>2. sv = server /\ l = left
    BY Zenon, <1>2, <1>6 DEF Timer
  <2> QED
    BY <1>1, <2>1, <2>2, MovesResumable
<1>7. ASSUME NEW i \in 1 .. Len(tab.socks), server' = Recovered(i)
      PROVE  Recovers(tab, server, i, sv)
  <2>1. tab.socks[i].old # i
    <3>1. tab.socks[i].old < i /\ i \in Nat
      BY <1>1 DEF Placed, Older
    <3> QED
      BY <3>1
  <2> QED
    BY <1>1, <1>2, <1>7, <2>1, RecoveredDoes
<1>8. ASSUME NEW i \in Socks, Handshake(i) PROVE Resumable(r, sv, l)
  <2>1. PICK at, up, timer : at = "open" /\ up = tab.socks[i].up /\ timer = tab.socks[i].timer
    OBVIOUS
  <2>2. i \in 1 .. Len(tab.socks) /\ tab.socks[i].at = "connecting" /\ Turns(tab, i, at, up, timer, r)
    BY <1>1, <1>2, <1>8, <2>1, HandshakeTurns
  <2>3. Recovers(tab, server, i, sv) /\ server[i].line = 0
    BY <1>7, <1>8, <2>2 DEF Handshake, Served, Reached
  <2>4. left \subseteq l
    BY <1>2, <1>8 DEF Handshake
  <2>5. tab.socks[i].old # 0 /\ ~ server[tab.socks[i].old].alive
            => \A p \in Places : tab.place[p] = i => p \in l
    BY <1>2, <1>8 DEF Handshake, Stranded
  <2>6. at \in {"open", "closed"} /\ at # "closed" /\ tab.socks[i].at # "closed"
    BY <2>1, <2>2
  <2> QED
    BY ZenonT(40), <1>1, <2>1, <2>2, <2>3, <2>4, <2>5, <2>6, RecoversResumable
<1>9. ASSUME NEW i \in Socks, ReadFrame(i) PROVE Resumable(r, sv, l)
  <2>1. PICK up, timer, f : /\ up = Tail(tab.socks[i].up) /\ timer = tab.socks[i].timer
                            /\ f = Head(tab.socks[i].up)
    BY Zenon
  <2>2. /\ i \in 1 .. Len(tab.socks) /\ tab.socks[i].at = "open" /\ tab.socks[i].up # <<>>
        /\ Turns(tab, i, "open", Tail(tab.socks[i].up), timer, r)
    BY <1>1, <1>2, <1>9, <2>1, ReadTurns
  <2>3. Reading(server, i, f, sv)
    BY <1>1, <1>2, <1>9, <2>1, ReadsDoes
  <2>4. l = left
    BY <1>2, <1>9 DEF ReadFrame
  <2>5. CASE Reads(server, i, f, sv)
    BY <1>1, <2>1, <2>2, <2>4, <2>5, ReadsResumable
  <2>6. CASE f.kind = "confirm" /\ (sv = server \/ (server[i].work # <<>> /\ Pops(server, i, sv)))
    <3>1. ~ server[i].lost
      BY <1>1, <2>1, <2>2, <2>6, ConfirmRead
    <3> QED
      BY <1>1, <2>1, <2>2, <2>4, <2>6, <3>1, ConfirmResumable
  <2> QED
    BY <2>3, <2>5, <2>6 DEF Reading
<1>10. ASSUME NEW i \in Socks, Answer(i) PROVE Resumable(r, sv, l)
  <2>1. PICK h : h = Head(server[i].work)
    OBVIOUS
  <2>2. /\ i \in 1 .. Len(tab.socks) /\ tab.socks[i].at = "open" /\ h \in 1 .. Len(tab.calls)
        /\ ~ server[i].lost /\ sv = server /\ l = left
    BY <1>1, <1>2, <1>10, <2>1, AnswerHas
  <2>3. PICK u, up, timer : /\ timer = tab.socks[i].timer /\ Turns(tab, i, "open", up, timer, u)
                            /\ Confirming(tab, i, up) /\ Replies(u, h, r)
    <3>1. PICK u, up : /\ Turns(tab, i, "open", up, tab.socks[i].timer, u)
                       /\ Confirming(tab, i, up) /\ Replies(u, h, r)
      BY <1>1, <1>2, <1>10, <2>1, AnswerDoes
    <3> QED
      BY <3>1
  <2> QED
    BY <1>1, <2>2, <2>3, AnswersResumable
<1>11. ASSUME NEW i \in Socks, Closes(i) PROVE Resumable(r, sv, l)
  <2>1. PICK at, up, timer : at = "closed" /\ up = <<>> /\ timer = ~ tab.socks[i].stay
    OBVIOUS
  <2>2. /\ i \in 1 .. Len(tab.socks) /\ tab.socks[i].at # "closed" /\ Turns(tab, i, "closed", up, timer, r)
    BY <1>1, <1>2, <1>11, <2>1, ClosesTurns
  <2>3. left \subseteq l
    BY <1>2, <1>11 DEF Closes
  <2>4. CASE Loses(server, i, sv)
    <3>1. Resumable(r, sv, left)
      BY <1>1, <2>1, <2>2, <2>4, LosesResumable
    <3> QED
      BY <2>3, <3>1, ResumableLeft
  <2>5. CASE server[i].line = 0 /\ server' = Recovered(i)
    <3>1. Recovers(tab, server, i, sv) /\ server[i].line = 0
      BY <1>7, <2>2, <2>5
    <3>2. Turns(tab, i, at, up, timer, r) /\ at \in {"open", "closed"} /\ at # "open"
      BY <2>1, <2>2
    <3> QED
      BY <1>1, <2>1, <2>2, <2>3, <3>1, <3>2, RecoversResumable
  <2> QED
    BY <1>1, <1>2, <1>11, <2>4, <2>5, LosesDoes
<1>12. ASSUME NEW i \in Socks, WindowPasses(i) PROVE Resumable(r, sv, l)
  <2>1. Passes(server, i, sv) /\ i \in 1 .. Len(tab.socks) /\ tab.socks[i].at = "closed"
    BY <1>1, <1>2, <1>12, PassesDoes
  <2>2. r = tab /\ l = left
    BY <1>2, <1>12 DEF WindowPasses
  <2> QED
    BY <1>1, <2>1, <2>2, PassesResumable
<1>13. CASE UNCHANGED cvars
  BY <1>2, <1>13 DEF cvars
<1>14. CASE CallsNext
  BY <1>3, <1>4, <1>5, <1>6, <1>8, <1>9, <1>10, <1>11, <1>12, <1>14
     DEF CallsNext, Progress, Close, Drop
<1> QED
  BY <1>13, <1>14

LEMMA ResumableAlways ==
    CallsSpec => [](CallsSound /\ Served(tab, server) /\ Lines(tab, server, left) /\ Resumable(tab, server, left))
<1>1. CallsInit => Resumable(tab, server, left)
  BY ResumableInit
<1>2. /\ CallsSound /\ Served(tab, server) /\ Lines(tab, server, left) /\ Resumable(tab, server, left)
      /\ [CallsNext]_cvars
      => Resumable(tab, server, left)'
  BY ResumableNext DEF CallsSound
<1> QED
  BY <1>1, <1>2, LinesAlways, PTL DEF CallsSpec

\* At rest no call waits, and what a session has been given is answered, unless
\* the window has left the session behind, or lost the CONFIRM of an answer of
\* that session with a websocket (socket.onmessage: SEND FROM for the unfinished
\* messages, and then the calls of arrWaitingCalls).
THEOREM CallsAreAnsweredAlways == CallsSpec => []CallsAreAnswered
<1>1. ASSUME CallsSound, Served(tab, server), Resumable(tab, server, left), AtRest
      PROVE  /\ tab.waiting = <<>>
             /\ \A i \in Socks : \A c \in RangeOf(server[i].work) :
                    tab.calls[c].via \in left \/ Unconfirmed(i)
  <2>1. Formed(tab) /\ Placed(tab, left) /\ Sessions(server, Len(tab.calls))
    BY <1>1 DEF CallsSound, Typed
  <2>2. \A i \in 1 .. Len(tab.socks) : ~ Promising(tab, i)
    BY <1>1 DEF AtRest, Promising
  <2>3. tab.waiting = <<>>
    BY <1>1, <2>2 DEF Resumable, Hopeful
  <2>4. ASSUME NEW i \in Socks, NEW c \in RangeOf(server[i].work), tab.calls[c].via \notin left,
               ~ Unconfirmed(i)
        PROVE  FALSE
    <3>1. PICK n : Works(server, i, n, c)
      BY <2>4 DEF RangeOf, Works
    <3>2. c \in 1 .. Len(tab.calls)
      BY <2>1, <3>1, WorksIs
    <3>3. PICK p, e : p = tab.calls[c].via /\ e = tab.place[p]
      OBVIOUS
    <3>4. p \in Places /\ p \notin left /\ e \in 1 .. Len(tab.socks) /\ e # 0
      BY <2>1, <2>4, <3>2, <3>3, CallIs
    <3>5. tab.socks[e].at \in {"open", "closed"} /\ ~ tab.socks[e].timer
      BY <1>1, <3>4 DEF AtRest
    <3>6. tab.socks[e].at = "open"
      BY <2>1, <3>3, <3>4, <3>5 DEF Placed, Tended
    <3>7. /\ tab.socks[e].sid = e /\ (tab.socks[e].up = <<>> \/ ~ server[e].alive)
          /\ ~ Answers(e)
      BY <1>1, <3>4, <3>6 DEF AtRest
    <3>8. i = e
      <4>1. i = e \/ i = tab.socks[e].sid \/ Doomed(tab, server, p)
        BY <1>1, <3>1, <3>3, <3>4 DEF Resumable, WorksThere
      <4> QED
        BY <3>3, <3>6, <3>7, <4>1 DEF Doomed
    <3>9. server[e].alive /\ Len(server[e].work) # 0
      <4>1. server[i].alive
        BY <1>1, <3>1, WorksAlive
      <4>2. n \in 1 .. Len(server[i].work)
        BY <3>1 DEF Works
      <4> QED
        BY <3>8, <4>1, <4>2
    <3>10. Len(<<>>) = 0
      OBVIOUS
    <3>11. tab.socks[e].up = <<>> /\ server[e].work # <<>>
      BY <3>7, <3>9, <3>10
    <3>12. tab.calls[Head(server[e].work)].at = "sent"
      <4>1. PICK h : h = Head(server[e].work)
        OBVIOUS
      <4>2. server[e].work \in Seq(1 .. Len(tab.calls)) /\ Len(tab.calls) \in Nat /\ e \in Socks
        <5>1. /\ server[e].work \in Seq(CallIds) /\ Len(tab.calls) \in Nat /\ e \in Socks
              /\ \A m \in 1 .. Len(server[e].work) : server[e].work[m] \in 1 .. Len(tab.calls)
          BY <2>1, <3>8, FormedTypes DEF Sessions, SessionType
        <5> QED
          BY <5>1, SeqWithin
      <4>3. Works(server, e, 1, h)
        BY <3>11, <4>1, <4>2, HeadWorks
      <4>4. AtWork(tab, 1, h)
        BY <1>1, <4>3 DEF CallsSound, Once
      <4> QED
        BY <2>4, <3>8, <3>11, <4>1, <4>4 DEF AtWork, Unconfirmed
    <3>13. server[e].lost
      BY <3>7, <3>11, <3>12 DEF Answers
    <3>14. PICK m : Asks(tab, e, m, Head(server[e].work))
      BY Zenon, <1>1, <3>3, <3>4, <3>6, <3>7, <3>11, <3>12, <3>13 DEF Resumable, Asked, Claimed
    <3> QED
      BY <3>10, <3>11, <3>14 DEF Asks
  <2> QED
    BY <2>3, <2>4
<1>2. CallsSound /\ Served(tab, server) /\ Resumable(tab, server, left) => CallsAreAnswered
  BY <1>1 DEF CallsAreAnswered
<1> QED
  BY <1>2, ResumableAlways, PTL
=============================================================================
