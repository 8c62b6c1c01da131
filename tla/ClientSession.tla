---------------------------- MODULE ClientSession ----------------------------
(***************************************************************************)
(* The life of a browser session inside the pgManage server.               *)
(*                                                                         *)
(* A session is a PostgreSQL connection together with the requests sent    *)
(* over it.  It is held by a client, the structure the server allocates    *)
(* for one websocket.  When the websocket drops, the client lingers for    *)
(* Window ticks; a new websocket that names the old session id in its      *)
(* handshake takes the connection and the requests over (client_cb), asks  *)
(* for the answers it missed (SEND FROM) and the work that was paused for  *)
(* want of a reader goes on.                                               *)
(*                                                                         *)
(* The server is a single libev loop, so every callback is one atomic      *)
(* action.  The loop runs its check callbacks only when an iteration       *)
(* happens: when some file descriptor is ready, or when the idle counter   *)
(* keeps it from sleeping.  "awake" stands for the former.                 *)
(***************************************************************************)
EXTENDS Naturals, Sequences, FiniteSets

CONSTANTS
    Clients,          \* client structures, each used for one websocket
    Requests,         \* request structures, each used for one message
    None,             \* the NULL pointer
    Window,           \* ticks a closed session waits to be recovered
    LoginTimer,       \* TRUE when login_timeout arms a periodic timer
    HandshakeMayFail, \* TRUE when writing a handshake response may fail
    UsersLogOut       \* TRUE when auth?action=logout is ever requested

ASSUME NoneAssumption == None \notin Clients /\ None \notin Requests /\ None \notin Nat
ASSUME WindowAssumption == Window \in Nat \ {0}
ASSUME FlagsAssumption == {LoginTimer, HandshakeMayFail, UsersLogOut} \subseteq BOOLEAN

VARIABLES
    client,   \* struct sock_ev_client, one record for each of Clients
    conn,     \* DB_conn, named after the client that opened it
    req,      \* struct sock_ev_client_request
    idle,     \* int_idle_count
    awake,    \* the loop has an iteration to run even if idle = 0
    crashed   \* freed memory was dereferenced: TRUE stops the system

vars == <<client, conn, req, idle, awake, crashed>>

Stages == {"query", "rows", "exec", "copy"}

\* The stages whose watcher stops when the browser is found gone; an
\* exec stage (db_query_cb) runs on whoever is listening.
Pausable == {"query", "rows", "copy"}

\* The stages driven by an ev_check watcher, which needs the loop to turn.
Polled == {"rows", "copy"}

ClientType ==
    [st        : {"none", "listed", "freed"},
     gone      : BOOLEAN,                     \* the browser left this socket
     open      : BOOLEAN,                     \* bol_is_open
     connected : BOOLEAN,                     \* bol_connected
     conn      : Clients \cup {None},
     cur       : Requests \cup {None},        \* cur_request
     que       : Seq(Requests),               \* que_request, oldest first
     busy      : BOOLEAN,                     \* bol_request_in_progress
     age       : (0 .. Window) \cup {None},   \* client_timeout_prepare
     paused    : Requests \cup {None},        \* client_paused_request
     sendFrom  : Requests \cup {None},        \* client_copy_check
     asks      : BOOLEAN]                     \* a SEND FROM is on its way

ConnType ==
    [phase  : {"none", "connecting", "up", "bad", "finished"},
     target : Clients \cup {None}]            \* cb_data, then notice arg

RequestType ==
    [st     : {"none", "queued", "current", "freed"},
     parent : Clients \cup {None},
     stage  : Stages,
     work   : {"none", "active", "paused", "done"},
     linked : BOOLEAN,                        \* cb_data /= NULL
     sentTo : Clients \cup {None}]            \* who was sent the last answer

TypeOK ==
    /\ client \in [Clients -> ClientType]
    /\ conn \in [Clients -> ConnType]
    /\ req \in [Requests -> RequestType]
    /\ idle \in Nat
    /\ awake \in BOOLEAN
    /\ crashed \in BOOLEAN

NewClient ==
    [st |-> "none", gone |-> FALSE, open |-> FALSE, connected |-> FALSE,
     conn |-> None, cur |-> None, que |-> <<>>, busy |-> FALSE, age |-> None,
     paused |-> None, sendFrom |-> None, asks |-> FALSE]

\* Freeing a client closes its socket, which the browser notices.
FreedClient == [NewClient EXCEPT !.st = "freed", !.gone = TRUE]

NewRequest ==
    [st |-> "none", parent |-> None, stage |-> "exec", work |-> "none",
     linked |-> FALSE, sentTo |-> None]

Init ==
    /\ client = [c \in Clients |-> NewClient]
    /\ conn = [c \in Clients |-> [phase |-> "none", target |-> None]]
    /\ req = [r \in Requests |-> NewRequest]
    /\ idle = 0
    /\ awake = TRUE
    /\ crashed = FALSE

-----------------------------------------------------------------------------
(* Helpers *)

Listed(c) == client[c].st = "listed"

Alive == ~crashed

LoopRuns == Alive /\ (idle > 0 \/ awake)

\* _decrement_idle refuses to go below zero.
Minus(i, n) == IF n > i THEN 0 ELSE i - n

RangeOf(s) == {s[i] : i \in 1 .. Len(s)}

Holds(c, r) == client[c].cur = r \/ r \in RangeOf(client[c].que)

\* client_request_queue_cb has a request to start for c.
CanStart(c) ==
    /\ Listed(c)
    /\ client[c].age = None
    /\ client[c].connected
    /\ ~client[c].busy
    /\ client[c].que # <<>>

\* client_cb reads a frame of c, and the queue callback that runs between
\* two reads of one socket has nothing left to start.
Reads(c) ==
    /\ Alive
    /\ Listed(c)
    /\ client[c].age = None
    /\ client[c].connected \/ ~client[c].open
    /\ ~CanStart(c)

\* A faulty variant: any work on the current request is given back.
IdleHeldByAnyWork(cl, rq) ==
    (IF cl.sendFrom # None THEN 1 ELSE 0)
    + Len(cl.que)
    + (IF cl.cur # None /\ rq[cl.cur].work \in {"active", "paused"} THEN 1 ELSE 0)

\* What the counter gives back when client_close_immediate frees client cl
\* in the state where the requests are rq.
IdleHeld(cl, rq) ==
    LET cur == cl.cur IN
    (IF cl.sendFrom # None THEN 1 ELSE 0)
    + Len(cl.que)
    + (IF cur = None THEN 0
       ELSE IF rq[cur].work = "active" /\ rq[cur].stage \in Polled THEN 1
       ELSE IF rq[cur].work = "paused" /\ rq[cur].stage = "rows" THEN 1
       ELSE 0)

\* _client_request_free: only a watcher that cb_data still names is stopped.
FreedRequest(q) ==
    [NewRequest EXCEPT !.st = "freed",
                       !.work = IF q.work = "active" /\ q.stage = "query" /\ ~q.linked
                                THEN "active" ELSE "none"]

\* client_close_immediate, called with the clients as in cl, the requests as
\* in rq and the counter at i.
CloseImmediate(c, cl, rq, i) ==
    /\ client' = [cl EXCEPT ![c] = FreedClient]
    /\ conn' = [k \in Clients |->
                  IF k = cl[c].conn THEN [phase |-> "finished", target |-> None]
                  ELSE conn[k]]
    /\ req' = [r \in Requests |->
                  IF r = cl[c].cur \/ r \in RangeOf(cl[c].que)
                  THEN FreedRequest(rq[r]) ELSE rq[r]]
    /\ idle' = Minus(i, IdleHeld(cl[c], rq))

Authorized(c, cl) == cl[c].conn # None /\ conn[cl[c].conn].phase # "bad"

\* A client whose recovery window has started; it starts only once.
Lingering(cl) ==
    [cl EXCEPT !.open = FALSE, !.age = IF cl.age = None THEN 0 ELSE cl.age]

\* A faulty variant: the queue is asked for, not the current request.
CloseUnlessQueued(c, cl, rq, i) ==
    IF ~Authorized(c, cl) \/ cl[c].que = <<>>
    THEN CloseImmediate(c, cl, rq, i)
    ELSE /\ client' = [cl EXCEPT ![c] = Lingering(cl[c])]
         /\ req' = rq
         /\ idle' = i
         /\ UNCHANGED conn

\* client_close of a websocket: free it at once when nothing runs for it,
\* else start the recovery window.
Close(c, cl, rq, i) ==
    IF ~Authorized(c, cl) \/ cl[c].cur = None
    THEN CloseImmediate(c, cl, rq, i)
    ELSE /\ client' = [cl EXCEPT ![c] = Lingering(cl[c])]
         /\ req' = rq
         /\ idle' = i
         /\ UNCHANGED conn

-----------------------------------------------------------------------------
(* The websocket handshake: client_cb and set_cnxn.                        *)

\* The tab that held the websocket old offers its session id, and client_cb
\* accepts it: the cookies agree and the window has not passed.
Recoverable(old, sameCookie) ==
    /\ old # None
    /\ Listed(old)
    /\ sameCookie
    /\ client[old].age \in {None} \cup 0 .. Window - 1

\* A client structure that has just been accepted and upgraded; loggedIn
\* says whether set_cnxn finds the login it needs.
Upgraded(old, loggedIn) ==
    [NewClient EXCEPT !.st = "listed", !.open = loggedIn, !.asks = old # None]

\* Faulty variants: the paused work stays behind; the new client thinks
\* that nothing runs.
MovedWithoutPaused(new, old) ==
    [new EXCEPT !.cur = client[old].cur, !.que = client[old].que,
                !.busy = client[old].busy, !.conn = client[old].conn,
                !.connected = client[old].conn # None]

MovedWithoutBusy(new, old) ==
    [new EXCEPT !.cur = client[old].cur, !.que = client[old].que,
                !.paused = client[old].paused, !.conn = client[old].conn,
                !.connected = client[old].conn # None]

\* What moves from the old client to the new one ...
Moved(new, old) ==
    [new EXCEPT !.cur = client[old].cur, !.que = client[old].que,
                !.busy = client[old].busy, !.paused = client[old].paused,
                !.conn = client[old].conn,
                !.connected = client[old].conn # None]

\* A faulty variant: the connection is freed with the old client.
EmptiedButConn(old) ==
    [client[old] EXCEPT !.cur = None, !.que = <<>>, !.paused = None]

\* ... and what is left for client_close_immediate to free in the old one.
Emptied(old) ==
    [client[old] EXCEPT !.cur = None, !.que = <<>>, !.paused = None, !.conn = None]

\* A faulty variant: the queue keeps its old parent.
AdoptedCurrent(c, old) ==
    [r \in Requests |-> IF r = client[old].cur THEN [req[r] EXCEPT !.parent = c] ELSE req[r]]

\* The requests after they were given the new parent.
Adopted(c, old) ==
    [r \in Requests |-> IF Holds(old, r) THEN [req[r] EXCEPT !.parent = c] ELSE req[r]]

\* The session ids a tab may offer: none, or that of a websocket it has lost.
Offers == {None} \cup {old \in Clients : client[old].st # "none" /\ client[old].gone}

\* A websocket that opens a session of its own and starts connecting to the
\* database, unless set_cnxn fails.
OpenSession(c, old, sameCookie, loggedIn) ==
    /\ Alive
    /\ client[c].st = "none"
    /\ old \in Offers
    /\ ~Recoverable(old, sameCookie)
    /\ client' = [client EXCEPT ![c] =
                    [Upgraded(old, loggedIn) EXCEPT !.conn = IF loggedIn THEN c ELSE None]]
    /\ conn' = IF loggedIn
                THEN [conn EXCEPT ![c] = [phase |-> "connecting", target |-> c]]
                ELSE conn
    /\ awake' = TRUE
    /\ UNCHANGED <<req, idle, crashed>>

\* A websocket that takes over the session of old.
RecoverSession(c, old, loggedIn) ==
    /\ Alive
    /\ client[c].st = "none"
    /\ old \in Offers
    /\ Recoverable(old, TRUE)
    /\ CloseImmediate(old,
                      [client EXCEPT ![c] = Moved(Upgraded(old, loggedIn), old),
                                     ![old] = Emptied(old)],
                      Adopted(c, old), idle)
    /\ awake' = TRUE
    /\ UNCHANGED crashed

\* The same, but the handshake response cannot be written: the new client is
\* closed before bol_handshake is set, with all it has just taken over.
RecoverThenFail(c, old) ==
    /\ HandshakeMayFail
    /\ Alive
    /\ client[c].st = "none"
    /\ old \in Offers
    /\ Recoverable(old, TRUE)
    /\ LET new == [Moved(Upgraded(old, TRUE), old) EXCEPT !.gone = TRUE] IN
       CloseImmediate(c,
                      [client EXCEPT ![c] = new,
                                     ![old] = FreedClient],
                      Adopted(c, old),
                      Minus(idle, IF client[old].sendFrom = None THEN 0 ELSE 1))
    /\ awake' = TRUE
    /\ UNCHANGED crashed

\* The connection attempt of k ends: db_cnxn_cb calls cnxn_cb on the client
\* that DB_connect was given, wherever the connection is now.
Connected(k, phase) ==
    LET c == conn[k].target IN
    /\ Alive
    /\ conn[k].phase = "connecting"
    /\ Listed(c)
    /\ conn' = [conn EXCEPT ![k].phase = phase]
    /\ client' = [client EXCEPT ![c].conn = k,
                                ![c].connected = @ \/ phase = "up",
                                ![c].open = @ /\ phase = "up"]
    /\ awake' = TRUE
    /\ UNCHANGED <<req, idle, crashed>>

ConnectedToFreed(k) ==
    /\ Alive
    /\ conn[k].phase = "connecting"
    /\ ~Listed(conn[k].target)
    /\ crashed' = TRUE
    /\ UNCHANGED <<client, conn, req, idle, awake>>

-----------------------------------------------------------------------------
(* Frames from the browser: client_frame_cb.                               *)

\* A faulty variant: a request that could not be created is queued.
FrameRequestUnchecked(c, r) ==
    /\ Reads(c)
    /\ req[r].st = "none"
    /\ client' = [client EXCEPT ![c].que = Append(@, None)]
    /\ idle' = idle + 1
    /\ awake' = TRUE
    /\ UNCHANGED <<conn, req, crashed>>

\* A request is queued and the loop is kept from sleeping until it starts.
FrameRequest(c, r) ==
    /\ Reads(c)
    /\ req[r].st = "none"
    /\ client' = [client EXCEPT ![c].que = Append(@, r)]
    /\ req' = [req EXCEPT ![r].st = "queued", ![r].parent = c]
    /\ idle' = idle + 1
    /\ awake' = TRUE
    /\ UNCHANGED <<conn, crashed>>

\* CONFIRM of the last answer to the current request frees it.
FrameConfirmLast(c) ==
    LET r == client[c].cur IN
    /\ Reads(c)
    /\ r # None
    /\ req[r].work = "done"
    /\ req[r].sentTo = c
    /\ client' = [client EXCEPT ![c].cur = None, ![c].busy = FALSE]
    /\ req' = [req EXCEPT ![r] = FreedRequest(@)]
    /\ awake' = TRUE
    /\ UNCHANGED <<conn, idle, crashed>>

\* SEND FROM: a check watcher will send the saved answers again.
FrameSendFrom(c) ==
    LET start == client[c].cur # None /\ client[c].sendFrom = None IN
    /\ Reads(c)
    /\ client[c].asks
    /\ client' = [client EXCEPT ![c].asks = FALSE,
                                ![c].sendFrom = IF start THEN client[c].cur ELSE @]
    /\ idle' = IF start THEN idle + 1 ELSE idle
    /\ awake' = TRUE
    /\ UNCHANGED <<conn, req, crashed>>

\* A close frame: the first one is answered, another one closes the client.
FrameClose(c) ==
    /\ Reads(c)
    /\ awake' = TRUE
    /\ UNCHANGED crashed
    /\ IF client[c].open
       THEN /\ client' = [client EXCEPT ![c].open = FALSE]
            /\ UNCHANGED <<conn, req, idle>>
       ELSE Close(c, client, req, idle)

\* The read fails because the browser is gone.
ReadFails(c) ==
    /\ Reads(c)
    /\ client[c].gone
    /\ Close(c, client, req, idle)
    /\ awake' = TRUE
    /\ UNCHANGED crashed

-----------------------------------------------------------------------------
(* The work on a request.                                                  *)

\* client_request_queue_cb: the oldest request becomes the current one and
\* its first step runs, which either waits for the database or fails and
\* sends the one answer there will be.
StartRequest(c) ==
    LET r == Head(client[c].que) IN
    /\ CanStart(c)
    /\ LoopRuns
    /\ client' = [client EXCEPT ![c].cur = r, ![c].que = Tail(@), ![c].busy = TRUE]
    /\ \/ /\ conn[client[c].conn].phase = "up"
          /\ \E s \in {"query", "exec"} :
             req' = [req EXCEPT ![r] =
                        [@ EXCEPT !.st = "current", !.work = "active",
                                  !.stage = s, !.linked = (s = "query")]]
       \/ req' = [req EXCEPT ![r] =
                        [@ EXCEPT !.st = "current", !.work = "done",
                                  !.sentTo = IF client[c].open THEN c ELSE None]]
    /\ idle' = Minus(idle, 1)
    /\ UNCHANGED <<conn, awake, crashed>>

\* The watcher of r fires: always possible for the ones on the database
\* socket, once an iteration for the others.
Fires(r) ==
    /\ Alive
    /\ req[r].st = "current"
    /\ req[r].work = "active"
    /\ req[r].stage \in Polled => LoopRuns

\* An io event is an iteration of its own, a check callback only part of one.
WakesFor(r) == awake' = (awake \/ req[r].stage \notin Polled)

\* close_client_if_needed finds the browser there, or is not asked: a COPY
\* asks after each row but not after its end.
Proceeds(r) ==
    /\ Fires(r)
    /\ req[r].stage \in {"query", "rows"} => client[req[r].parent].open

\* The stages that may follow a stage: a RAW query returns rows or not, a
\* SELECT or its kin runs statements and then copies the result out.
NextStages(s) ==
    CASE s = "query" -> {"query", "rows"}
      [] s = "rows"  -> {"query"}
      [] s = "exec"  -> {"exec", "copy"}
      [] s = "copy"  -> {}

PolledCount(s) == IF s \in Polled THEN 1 ELSE 0

\* One stage of r ends and another one starts.
Advance(r, s) ==
    /\ Proceeds(r)
    /\ s \in NextStages(req[r].stage)
    /\ req' = [req EXCEPT ![r].stage = s, ![r].linked = (s = "query")]
    /\ idle' = Minus(idle + PolledCount(s), PolledCount(req[r].stage))
    /\ WakesFor(r)
    /\ UNCHANGED <<client, conn, crashed>>

\* The last answer of r is saved, and sent if the client is open.
Finish(r) ==
    LET c == req[r].parent IN
    /\ Proceeds(r)
    /\ req' = [req EXCEPT ![r].work = "done",
                          ![r].linked = FALSE,
                          ![r].sentTo = IF client[c].open THEN c ELSE None]
    /\ idle' = Minus(idle, PolledCount(req[r].stage))
    /\ WakesFor(r)
    /\ UNCHANGED <<client, conn, crashed>>

\* close_client_if_needed finds the browser gone: the watcher is stopped and
\* kept for whoever recovers the session, and the client is closed.  Only
\* the COPY path gives its idle count back (bol_increment_watcher); only the
\* query path forgets the watcher (cb_data = NULL).
Pause(r) ==
    LET c == req[r].parent IN
    /\ Fires(r)
    /\ req[r].stage \in Pausable
    /\ ~client[c].open \/ client[c].gone
    /\ Close(c,
             [client EXCEPT ![c].paused = r],
             [req EXCEPT ![r].work = "paused", ![r].linked = FALSE],
             IF req[r].stage = "copy" THEN Minus(idle, 1) ELSE idle)
    /\ WakesFor(r)
    /\ UNCHANGED crashed

\* client_send_from_cb runs once an iteration until it has sent the answers
\* that were saved when it started; then it resumes the paused work.  No
\* frame can be read between its last send and its end, so one step stands
\* for both.
SendFromEnds(c) ==
    LET f == client[c].sendFrom
        p == client[c].paused IN
    /\ Listed(c)
    /\ f # None
    /\ LoopRuns
    /\ req[f].st = "current"
    /\ client' = [client EXCEPT ![c].sendFrom = None, ![c].paused = None]
    /\ req' = [r \in Requests |->
                  IF r = p THEN [req[r] EXCEPT !.work = "active"]
                  ELSE IF r = f /\ req[r].work = "done" /\ client[c].open
                       THEN [req[r] EXCEPT !.sentTo = c]
                  ELSE req[r]]
    /\ idle' = Minus(idle + (IF p = None THEN 0 ELSE PolledCount(req[p].stage)), 1)
    /\ UNCHANGED <<conn, awake, crashed>>

\* The same callback, for a request that CONFIRM has freed meanwhile.
SendFromFreed(c) ==
    /\ Listed(c)
    /\ client[c].sendFrom # None
    /\ LoopRuns
    /\ req[client[c].sendFrom].st = "freed"
    /\ crashed' = TRUE
    /\ UNCHANGED <<client, conn, req, idle, awake>>

-----------------------------------------------------------------------------
(* Time, the loop, and the browser's end of the socket.                    *)

Expired(c) == Listed(c) /\ client[c].age = Window

\* A faulty variant: a client whose request runs is left alone.
CloseTimeoutWhenDone(c) ==
    /\ Expired(c)
    /\ LoopRuns
    /\ client[c].cur = None \/ req[client[c].cur].work # "active"
    /\ CloseImmediate(c, client, req, idle)
    /\ UNCHANGED <<awake, crashed>>

\* client_close_timeout_prepare_cb, at the start of an iteration.
CloseTimeout(c) ==
    /\ Expired(c)
    /\ LoopRuns
    /\ CloseImmediate(c, client, req, idle)
    /\ UNCHANGED <<awake, crashed>>

\* free_last_activity closes a client whose login has expired, unless a
\* request of it runs.
LoginExpires(c) ==
    /\ Alive
    /\ LoginTimer
    /\ Listed(c)
    /\ ~client[c].busy
    /\ CloseImmediate(c, client, req, idle)
    /\ awake' = TRUE
    /\ UNCHANGED crashed

\* auth?action=logout closes the clients that hold the cookie, whatever they
\* are doing, one after another.
Logout(c) ==
    /\ Alive
    /\ UsersLogOut
    /\ Listed(c)
    /\ client[c].conn # None
    /\ CloseImmediate(c, client, req, idle)
    /\ awake' = TRUE
    /\ UNCHANGED crashed

\* The next iteration starts, its prepare callbacks have run, and poll blocks.
Sleep ==
    /\ Alive
    /\ awake
    /\ idle = 0
    /\ \A c \in Clients : ~Expired(c)
    /\ awake' = FALSE
    /\ UNCHANGED <<client, conn, req, idle, crashed>>

\* The periodic timer of free_last_activity makes poll return.
Wake ==
    /\ Alive
    /\ LoginTimer
    /\ ~awake
    /\ awake' = TRUE
    /\ UNCHANGED <<client, conn, req, idle, crashed>>

\* A tick of the clock; ages are only compared with Window.
Tick ==
    /\ Alive
    /\ \E c \in Clients : client[c].age \in 0 .. Window - 1
    /\ client' = [c \in Clients |->
                    IF client[c].age \in 0 .. Window - 1
                    THEN [client[c] EXCEPT !.age = @ + 1] ELSE client[c]]
    /\ UNCHANGED <<conn, req, idle, awake, crashed>>

\* The tab or the network drops the websocket.
BrowserLeaves(c) ==
    /\ Alive
    /\ Listed(c)
    /\ ~client[c].gone
    /\ client' = [client EXCEPT ![c].gone = TRUE]
    /\ UNCHANGED <<conn, req, idle, awake, crashed>>

-----------------------------------------------------------------------------
(* The specification.                                                      *)

Handshake(c, old) ==
    \/ \E sameCookie, loggedIn \in BOOLEAN : OpenSession(c, old, sameCookie, loggedIn)
    \/ \E loggedIn \in BOOLEAN : RecoverSession(c, old, loggedIn)
    \/ RecoverThenFail(c, old)

ConnectionEvent(k) ==
    \/ \E phase \in {"up", "bad"} : Connected(k, phase)
    \/ ConnectedToFreed(k)

Frame(c) ==
    \/ \E r \in Requests : FrameRequest(c, r)
    \/ FrameConfirmLast(c)
    \/ FrameSendFrom(c)
    \/ FrameClose(c)
    \/ ReadFails(c)

Callback(c) ==
    \/ StartRequest(c)
    \/ SendFromEnds(c)
    \/ SendFromFreed(c)
    \/ CloseTimeout(c)
    \/ LoginExpires(c)
    \/ Logout(c)

Work(r) ==
    \/ \E s \in Stages : Advance(r, s)
    \/ Finish(r)
    \/ Pause(r)

Next ==
    \/ \E c \in Clients, old \in Clients \cup {None} : Handshake(c, old)
    \/ \E c \in Clients :
          ConnectionEvent(c) \/ Frame(c) \/ Callback(c) \/ BrowserLeaves(c)
    \/ \E r \in Requests : Work(r)
    \/ Sleep
    \/ Wake
    \/ Tick

Spec == Init /\ [][Next]_vars

\* Time passes, the timer of free_last_activity fires, and an iteration runs
\* its prepare callbacks before it sleeps.
Fairness ==
    /\ WF_vars(Tick)
    /\ WF_vars(Wake)
    /\ \A c \in Clients : WF_vars(CloseTimeout(c))

FairSpec == Spec /\ Fairness

-----------------------------------------------------------------------------
(* What must hold.                                                         *)

Live(k) == conn[k].phase \in {"connecting", "up", "bad"}

\* A database connection is held by exactly one client from DB_connect to
\* DB_finish: the recovery in client_cb neither leaks nor shares it, and no
\* client keeps a pointer to a finished connection.
ConnectionHasOneHolder ==
    /\ \A k \in Clients : Live(k) => \E c \in Clients : Listed(c) /\ client[c].conn = k
    /\ \A c \in Clients : client[c].conn # None => Listed(c) /\ Live(client[c].conn)
    /\ \A c, d \in Clients : client[c].conn # None /\ client[c].conn = client[d].conn => c = d

\* A request is in the hands of exactly one client, its parent, from
\* create_request to client_request_free: as its current request or in its
\* queue, never in both and never twice.
RequestHasOneHolder ==
    /\ \A r \in Requests : req[r].st \in {"queued", "current"} =>
          /\ req[r].parent \in Clients
          /\ Holds(req[r].parent, r)
    /\ \A c \in Clients :
          /\ \A i \in 1 .. Len(client[c].que) :
                /\ req[client[c].que[i]].st = "queued"
                /\ req[client[c].que[i]].parent = c
          /\ \A i, j \in 1 .. Len(client[c].que) :
                client[c].que[i] = client[c].que[j] => i = j
          /\ client[c].cur # None =>
                /\ req[client[c].cur].st = "current"
                /\ req[client[c].cur].parent = c

\* Work that was paused for want of a browser is always where the next SEND
\* FROM will look for it, and belongs to the current request of that client.
PausedWorkIsResumable ==
    /\ \A r \in Requests : req[r].work = "paused" =>
          req[r].parent \in Clients /\ client[req[r].parent].paused = r
    /\ \A c \in Clients : client[c].paused # None =>
          client[c].paused = client[c].cur /\ req[client[c].cur].work = "paused"

\* The check callbacks that wait for the loop to turn.
Waiting ==
    {<<"start", r>> : r \in {q \in Requests : req[q].st = "queued"}}
    \cup {<<"work", r>> : r \in {q \in Requests :
            req[q].st = "current" /\ req[q].work = "active" /\ req[q].stage \in Polled}}
    \cup {<<"send", c>> : c \in {d \in Clients : client[d].sendFrom # None}}

\* The idle counter covers every one of them, through every close, recovery,
\* pause and resume: the loop never blocks in poll with work to do.
IdleCoversWaiting == idle >= Cardinality(Waiting)

\* As long as nobody logs out, a request that runs is only taken away from its
\* session by the CONFIRM of its last answer or when the window of recovery
\* has passed (client_close: "start a timer ... to call
\* client_close_immediate").
RunningRequestIsKept ==
    [][\A r \in Requests :
         req[r].st = "current" /\ req'[r].st = "freed" =>
            \/ req[r].work = "done" /\ client[req[r].parent].age = None
            \/ client[req[r].parent].age = Window]_vars

\* A session that nobody recovers is freed in the end.
EverySessionEnds ==
    \A c \in Clients :
        (Listed(c) /\ client[c].age # None) ~> (crashed \/ client[c].st = "freed")

\* With login_timeout set, a session that nobody recovers is freed in the end
\* (client_close_timeout_prepare_cb): its window is only seen to end when the
\* loop turns, and with every session closed nothing but the periodic timer of
\* free_last_activity turns it.  That timer is armed only if login_timeout > 0
\* (common_main.c:256); without it, as is the default, a session may linger for
\* ever.
ClosedSessionEnds == LoginTimer => EverySessionEnds

\* The callback of a connection attempt, and then of its notices, goes to the
\* client that holds the connection.
CallbackFollowsConnection ==
    \A c \in Clients :
        client[c].conn # None => conn[client[c].conn].target = c
=============================================================================
