-------------------------------- MODULE Calls --------------------------------
(***************************************************************************)
(* How the calls of a window reach a session, while its websockets are     *)
(* lost and opened again (the socket code of greyspots.js).                *)
(*                                                                         *)
(* A window holds several websockets: GS.envSocket, and those of the SQL   *)
(* tabs (GS.websockets, by name).  A second after a websocket closes, its  *)
(* onclose opens another one that asks for the old session; that one has   *)
(* no name, and looks after GS.envSocket when it closes (GS.querySocket    *)
(* does from the start).  The server gives every                           *)
(* websocket a session id of its own and moves the work of the old session *)
(* to it; when the new id arrives, the window asks for the answers of its  *)
(* unfinished calls (SEND FROM) and makes the calls that had to wait.      *)
(*                                                                         *)
(* A session id is the number of its websocket; 0 is undefined.            *)
(***************************************************************************)
EXTENDS Naturals, Sequences, FiniteSets, Lists

CONSTANTS
    Env,        \* GS.envSocket
    Tabs,       \* the named websockets, of SQL tabs
    None,       \* no name
    MaxSockets, \* bound on the websockets opened
    MaxCalls,   \* bound on the calls
    MaxDrops    \* bound on the websockets lost

ASSUME CallsAssumption ==
    /\ Env \notin Tabs
    /\ None \notin Tabs
    /\ MaxSockets \in Nat \ {0}
    /\ {MaxCalls, MaxDrops} \subseteq Nat

VARIABLES
    tab,    \* the window: its websockets, places, calls and waiting calls
    server, \* the session of each websocket
    drops,  \* websockets lost
    left    \* history: the places whose session was left behind

cvars == <<tab, server, drops, left>>

Places == {Env} \cup Tabs
Ids == 0 .. MaxSockets
CallIds == 1 .. MaxCalls
FrameType == [kind : {"call", "from", "confirm"}, c : CallIds]
SocketType == [name : Tabs \cup {None}, at : {"connecting", "open", "closing", "closed"},
               stay : BOOLEAN, timer : BOOLEAN, sid : Ids, old : Ids, up : Seq(FrameType)]
CallType == [via : Places, to : Ids, at : {"waiting", "sent", "failed", "answered"}, session : Ids]
WindowType == [socks : Seq(SocketType), place : [Places -> Ids],
               calls : Seq(CallType), waiting : Seq(CallIds)]
SessionType == [alive : BOOLEAN, line : Ids, work : Seq(CallIds), lost : BOOLEAN]

Socket(name, sid) ==
    [name |-> name, at |-> "connecting", stay |-> FALSE, timer |-> FALSE, sid |-> sid,
     old |-> sid, up |-> <<>>]
NoSession == [alive |-> FALSE, line |-> 0, work |-> <<>>, lost |-> FALSE]

CallsInit ==
    /\ tab = [socks |-> <<Socket(None, 0)>>, place |-> [p \in Places |-> IF p = Env THEN 1 ELSE 0],
              calls |-> <<>>, waiting |-> <<>>]
    /\ server = [i \in 1 .. MaxSockets |-> NoSession]
    /\ drops = 0
    /\ left = {}

Is(i, at) == i \in 1 .. Len(tab.socks) /\ tab.socks[i].at = at
Room == Len(tab'.socks) <= MaxSockets

-----------------------------------------------------------------------------
(* The window: t is its state before, the result its state after.          *)

\* GS.openSocket: a websocket that asks for the session sid.
Opened(t, p, name, sid) ==
    [t EXCEPT !.socks = Append(@, Socket(name, sid)), !.place[p] = Len(t.socks) + 1]

\* GS.closeSocket
Closing(t, i) ==
    [t EXCEPT !.socks[i] = [t.socks[i] EXCEPT !.stay = TRUE,
                                              !.at = IF @ = "closed" THEN @ ELSE "closing"]]

\* A call of a closed websocket goes to GS.envSocket, which is opened for it
\* if need be, without a session to ask for.
Revived(t, calls) ==
    IF t.socks[t.place[Env]].at = "closed" /\ \E c \in calls : t.socks[t.calls[c].to].at = "closed"
    THEN Opened(t, Env, None, 0) ELSE t

Fate(s) ==
    CASE s.at = "open" /\ s.sid # 0 -> "sent"
      [] s.at = "connecting" \/ (s.at = "open" /\ s.sid = 0) -> "waiting"
      [] OTHER -> "failed"

Made(t, call) ==
    LET g == IF t.socks[call.to].at = "closed"
             THEN [call EXCEPT !.to = t.place[Env], !.via = Env] ELSE call
        s == t.socks[g.to] IN
    [g EXCEPT !.at = Fate(s), !.session = IF Fate(s) = "sent" THEN s.sid ELSE 0]

Frames(kind, calls) == [n \in 1 .. Len(calls) |-> [kind |-> kind, c |-> calls[n]]]

\* GS.requestFromSocket, for calls that are made one after the other.
Requested(t, calls) ==
    LET u == Revived(t, RangeOf(calls))
        done == [c \in 1 .. Len(u.calls) |->
                    IF c \in RangeOf(calls) THEN Made(u, u.calls[c]) ELSE u.calls[c]] IN
    [u EXCEPT !.calls = done,
              !.waiting = @ \o Kept(calls, {c \in RangeOf(calls) : done[c].at = "waiting"}),
              !.socks = [i \in 1 .. Len(u.socks) |->
                  [u.socks[i] EXCEPT !.up = @ \o Frames("call",
                      Kept(calls, {c \in RangeOf(calls) : done[c].at = "sent" /\ done[c].to = i}))]]]

\* A faulty variant: the id that was asked for is not looked at.
UnfinishedHere(i) ==
    {c \in 1 .. Len(tab.calls) : tab.calls[c].at = "sent" /\ tab.calls[c].session = i}

\* The unfinished calls of a session, when the id i of the next one arrives.
Unfinished(i) ==
    {c \in 1 .. Len(tab.calls) : /\ tab.calls[c].at = "sent"
                                 /\ tab.calls[c].session \in {i, tab.socks[i].old} \ {0}}

\* They are given the new id, and a SEND FROM each, in the order of the calls.
Resumed(i) ==
    [tab EXCEPT !.calls = [c \in 1 .. Len(tab.calls) |->
                               IF c \in Unfinished(i) THEN [tab.calls[c] EXCEPT !.session = i]
                               ELSE tab.calls[c]],
                !.socks[i] = [tab.socks[i] EXCEPT !.sid = i,
                    !.up = @ \o Frames("from", Kept([c \in 1 .. Len(tab.calls) |-> c], Unfinished(i)))]]

\* A session is left behind when its window opens another one for the place.
LeavesEnv == left' = IF tab'.place[Env] # tab.place[Env] THEN left \cup {Env} ELSE left

OpenPlace(p) ==
    /\ tab.place[p] = 0
    /\ tab' = Opened(tab, p, p, 0)
    /\ Room
    /\ UNCHANGED <<server, drops, left>>

Call(p) ==
    /\ tab.place[p] # 0
    /\ Len(tab.calls) < MaxCalls
    /\ tab' = Requested([tab EXCEPT !.calls = Append(@, [via |-> p, to |-> tab.place[p],
                                                         at |-> "waiting", session |-> 0])],
                        <<Len(tab.calls) + 1>>)
    /\ Room
    /\ LeavesEnv
    /\ UNCHANGED <<server, drops>>

\* A faulty variant: the waiting calls are dropped.
SessionArrivesOnly(i) ==
    /\ Is(i, "open")
    /\ tab.socks[i].sid # i
    /\ tab' = [Resumed(i) EXCEPT !.waiting = <<>>]
    /\ UNCHANGED <<server, drops, left>>

\* A faulty variant: the calls made stay in the list.
SessionArrivesAgain(i) ==
    /\ Is(i, "open")
    /\ tab.socks[i].sid # i
    /\ tab' = [Requested(Resumed(i), tab.waiting) EXCEPT !.waiting = tab.waiting]
    /\ Room
    /\ LeavesEnv
    /\ UNCHANGED <<server, drops>>

\* socket.onmessage: the session id.
SessionArrives(i) ==
    /\ Is(i, "open")
    /\ tab.socks[i].sid # i
    /\ tab' = Requested([Resumed(i) EXCEPT !.waiting = <<>>], tab.waiting)
    /\ Room
    /\ LeavesEnv
    /\ UNCHANGED <<server, drops>>

\* A faulty variant: the new websocket does not ask for the old session.
TimerFresh(i) ==
    LET p == IF tab.socks[i].name = None THEN Env ELSE tab.socks[i].name
        closed == [Closing(tab, tab.place[p]) EXCEPT !.socks[i].timer = FALSE] IN
    /\ i \in 1 .. Len(tab.socks)
    /\ tab.socks[i].timer
    /\ tab' = Opened(closed, p, None, 0)
    /\ Room
    /\ UNCHANGED <<server, drops, left>>

\* The timer that onclose has set.  Only a websocket that was opened by name
\* looks after its own place.
Timer(i) ==
    LET p == IF tab.socks[i].name = None THEN Env ELSE tab.socks[i].name
        closed == [Closing(tab, tab.place[p]) EXCEPT !.socks[i].timer = FALSE] IN
    /\ i \in 1 .. Len(tab.socks)
    /\ tab.socks[i].timer
    /\ tab' = Opened(closed, p, None, tab.socks[tab.place[p]].sid)
    /\ Room
    /\ UNCHANGED <<server, drops, left>>

-----------------------------------------------------------------------------
(* The server.                                                             *)

\* The places of websocket i, if its session is not the one it asked for.
Stranded(i) ==
    LET old == tab.socks[i].old IN
    {p \in Places : tab.place[p] = i /\ old # 0 /\ ~ server[old].alive}

\* client_cb: the session that is asked for is moved to a new id.
Recovered(i) ==
    LET old == tab.socks[i].old IN
    IF old # 0 /\ server[old].alive
    THEN [server EXCEPT ![i] = server[old], ![old] = [NoSession EXCEPT !.line = server[old].line]]
    ELSE [server EXCEPT ![i] = [NoSession EXCEPT !.alive = TRUE, !.line = i]]

Handshake(i) ==
    /\ Is(i, "connecting")
    /\ server' = Recovered(i)
    /\ tab' = [tab EXCEPT !.socks[i].at = "open"]
    /\ left' = left \cup Stranded(i)
    /\ UNCHANGED drops

\* What a frame does to its session.  A request is queued; a SEND FROM counts
\* for the running request only; CONFIRM of a last answer ends the running
\* request, whatever message it names.
Taken(session, frame) ==
    CASE frame.kind = "call" -> [session EXCEPT !.work = Append(@, frame.c)]
      [] frame.kind = "from" /\ session.work # <<>> /\ frame.c = Head(session.work) ->
             [session EXCEPT !.lost = FALSE]
      [] frame.kind = "confirm" /\ session.work # <<>> -> [session EXCEPT !.work = Tail(@)]
      [] OTHER -> session

ReadFrame(i) ==
    /\ Is(i, "open")
    /\ server[i].alive
    /\ tab.socks[i].up # <<>>
    /\ tab' = [tab EXCEPT !.socks[i].up = Tail(@)]
    /\ server' = [server EXCEPT ![i] = Taken(@, Head(tab.socks[i].up))]
    /\ UNCHANGED <<drops, left>>

\* The session has the last answer of a request that the tab waits for.
Answers(i) ==
    /\ server[i].work # <<>>
    /\ ~ server[i].lost
    /\ tab.calls[Head(server[i].work)].at = "sent"

\* The last answer of the running request arrives, after the session id: the
\* tab drops the message and confirms.  The request runs until that is read.
Answer(i) ==
    LET c == Head(server[i].work) IN
    /\ Is(i, "open")
    /\ tab.socks[i].sid = i
    /\ Answers(i)
    /\ tab' = [tab EXCEPT !.calls[c].at = "answered",
                          !.socks[i].up = Append(@, [kind |-> "confirm", c |-> c])]
    /\ UNCHANGED <<server, drops, left>>

\* A faulty variant: a connection that failed is not tried again.
ClosesUnlessOpen(i) ==
    /\ i \in 1 .. Len(tab.socks)
    /\ tab.socks[i].at # "closed"
    /\ tab' = [tab EXCEPT !.socks[i] = [tab.socks[i] EXCEPT !.at = "closed", !.up = <<>>,
                                                            !.timer = Is(i, "open")]]
    /\ \/ server[i].line = 0 /\ server' = Recovered(i)
       \/ UNCHANGED server
    /\ UNCHANGED left

\* A websocket closes: what was under way is lost, and answers may have been;
\* a handshake may have got as far as the server.  socket.onclose.
Closes(i) ==
    /\ i \in 1 .. Len(tab.socks)
    /\ tab.socks[i].at # "closed"
    /\ tab' = [tab EXCEPT !.socks[i] = [tab.socks[i] EXCEPT !.at = "closed", !.up = <<>>,
                                                            !.timer = ~ tab.socks[i].stay]]
    /\ \/ /\ server[i].alive
          /\ \E lost \in BOOLEAN :
                 server' = [server EXCEPT ![i].lost = @ \/ (lost /\ server[i].work # <<>>)]
       \/ server[i].line = 0 /\ server' = Recovered(i)
       \/ ~ server[i].alive /\ UNCHANGED server
    \* no timer looks after the place of such a websocket
    /\ left' = left \cup {p \in Tabs : tab.place[p] = i /\ tab.socks[i].name = None}

Close(i) == Is(i, "closing") /\ Closes(i) /\ UNCHANGED drops
Drop(i) == drops < MaxDrops /\ ~ Is(i, "closing") /\ Closes(i) /\ drops' = drops + 1

\* client_close_timeout_prepare_cb
WindowPasses(i) ==
    /\ Is(i, "closed")
    /\ server[i].alive
    /\ server' = [server EXCEPT ![i] = [NoSession EXCEPT !.line = server[i].line]]
    /\ UNCHANGED <<tab, drops, left>>

-----------------------------------------------------------------------------
Socks == 1 .. MaxSockets

\* Timers fire, handshakes and frames that are not lost arrive, and the server
\* answers.
Progress(i) ==
    \/ SessionArrives(i) \/ Timer(i) \/ Handshake(i) \/ ReadFrame(i) \/ Answer(i) \/ Close(i)

CallsNext ==
    \/ \E p \in Places : OpenPlace(p) \/ Call(p)
    \/ \E i \in Socks : Progress(i) \/ Drop(i) \/ WindowPasses(i)

CallsSpec == CallsInit /\ [][CallsNext]_cvars

\* Every behaviour comes to rest, because calls and losses are bounded: what
\* must happen in the end must have happened when no Progress is possible.
AtRest ==
    \A i \in 1 .. Len(tab.socks) :
        LET s == tab.socks[i] IN
        /\ s.at \in {"open", "closed"}
        /\ ~ s.timer
        /\ s.at = "open" => /\ s.sid = i
                            /\ s.up = <<>> \/ ~ server[i].alive
                            /\ ~ Answers(i)

-----------------------------------------------------------------------------
CallsTypeOK ==
    /\ tab \in WindowType /\ Len(tab.socks) <= MaxSockets /\ Len(tab.calls) <= MaxCalls
    /\ server \in [Socks -> SessionType]
    /\ drops \in 0 .. MaxDrops
    /\ left \subseteq Places
    \* a call that waits is in arrWaitingCalls, one that was sent has a session
    /\ \A c \in 1 .. Len(tab.calls) :
           /\ tab.calls[c].at = "waiting" <=> c \in RangeOf(tab.waiting)
           /\ tab.calls[c].at = "sent" => tab.calls[c].session # 0

\* Where a call is: waiting, on its way, or in a session.
Spots(c) ==
    {<<"waiting", n>> : n \in {m \in 1 .. Len(tab.waiting) : tab.waiting[m] = c}}
        \cup {<<"up", i>> : i \in {j \in 1 .. Len(tab.socks) :
                                       [kind |-> "call", c |-> c] \in RangeOf(tab.socks[j].up)}}
        \cup {<<"work", i>> : i \in {j \in Socks : c \in RangeOf(server[j].work)}}

\* However often websockets are opened again, a call is given to one session
\* once, and to none after it has failed; once its callback has run it is at
\* most the request whose CONFIRM its session waits for (socket.onmessage makes
\* the waiting calls again, and marks the sent ones with the new session).
CallsAreMadeOnce ==
    /\ \A c \in 1 .. Len(tab.calls) :
           /\ Cardinality(Spots(c)) <= IF tab.calls[c].at = "failed" THEN 0 ELSE 1
           /\ tab.calls[c].at = "answered" =>
                  \A spot \in Spots(c) :
                      \E i \in Socks : spot = <<"work", i>> /\ c = Head(server[i].work)
    /\ \A i \in Socks : \A m, n \in 1 .. Len(server[i].work) :
           server[i].work[m] = server[i].work[n] => m = n

\* The calls of a place all run in one session, and so in one transaction,
\* until its session is left behind (the transactions of datagrid.js are made
\* of calls of GS.envSocket).
OneSessionForAPlace ==
    \A c, d \in {e \in 1 .. Len(tab.calls) : /\ tab.calls[e].at \in {"sent", "answered"}
                                             /\ tab.calls[e].via \notin left} :
        tab.calls[c].via = tab.calls[d].via
            => server[tab.calls[c].to].line = server[tab.calls[d].to].line

\* The tab has the last answer of the running request, and the CONFIRM is not
\* read: once it is lost nobody sends it again, and the session starts nothing.
Unconfirmed(i) == server[i].work # <<>> /\ tab.calls[Head(server[i].work)].at = "answered"

\* At rest no call waits, and what a session has been given is answered, unless
\* the window has left the session behind, or lost the CONFIRM of an answer of
\* that session with a websocket (socket.onmessage: SEND FROM for the unfinished
\* messages, and then the calls of arrWaitingCalls).
CallsAreAnswered ==
    AtRest => /\ tab.waiting = <<>>
              /\ \A i \in Socks : \A c \in RangeOf(server[i].work) :
                     tab.calls[c].via \in left \/ Unconfirmed(i)

\* At rest envSocket is open and has the session that its calls are given to,
\* whichever websockets were lost (the timer of onclose).
EnvComesBack ==
    AtRest => LET e == tab.place[Env] IN
              tab.socks[e].at = "open" /\ server[e].alive
===============================================================================
