------------------------------ MODULE Delivery ------------------------------
(***************************************************************************)
(* How the answers of a session reach its browser tab.                     *)
(*                                                                         *)
(* The server numbers the answers of a request and saves each of them in   *)
(* arr_response until the tab confirms it.  A tab that has lost its        *)
(* websocket opens another one, and asks with SEND FROM for the answers    *)
(* from the first number it misses.  The last answer (TRANSACTION          *)
(* COMPLETED, OK or FATAL) ends the message in the tab, and its CONFIRM    *)
(* ends the request in the server.                                         *)
(*                                                                         *)
(* One tab and one session.  Both halves are modelled: common_client.c and *)
(* the socket code of greyspots.js.  Where the client structures of the    *)
(* session are and who holds what is in ClientSession.                     *)
(***************************************************************************)
EXTENDS Naturals, Sequences, Lists

CONSTANTS
    Requests,   \* message ids
    Copies,     \* the requests that copy rows out, which ask after an answer
    None,       \* NULL
    Answers,    \* answers of a request; the last one has this number
    MaxCuts     \* how often the websocket is lost

ASSUME CopiesAssumption == Copies \subseteq Requests
ASSUME NoRequestAssumption == None \notin Requests
ASSUME NoResendAssumption == None \notin [i : Nat \ {0}, upto : 0 .. Answers]
ASSUME AnswersAssumption == Answers \in Nat \ {0}
ASSUME MaxCutsAssumption == MaxCuts \in Nat

VARIABLES
    \* the tab
    asked,      \* the messages sent, oldest first
    waiting,    \* those that have an entry in jsnMessages
    got,        \* arrResponseNumbers of each
    \* the websocket
    up, down,   \* frames on their way to the server and to the tab
    linked,     \* the websocket carries frames
    cuts,       \* websockets lost so far
    \* the server
    open,       \* bol_is_open
    que, cur,   \* que_request, cur_request
    made,       \* how many answers of each request were saved
    confirmed,  \* the answers whose entry of arr_response is NULL again
    work,       \* what the current request does
    resend,     \* client_copy_check, or None
    over,       \* FALSE, or TRUE when the client was freed or is in use after free
    stale,      \* the session has another id than the tab knows
    left        \* history: the requests of sessions that the tab lost

tab == <<asked, waiting, got>>
request == <<que, cur, made, confirmed, work>>
ids == <<stale, left>>
dvars == <<tab, up, down, linked, cuts, open, request, resend, over, ids>>

Numbers == 1 .. Answers

UpType == [kind : {"request", "confirm", "from"}, r : Requests, n : 1 .. Answers + 1]
DownType == [kind : {"session", "answer"}, r : Requests \cup {None}, n : 0 .. Answers]

DeliveryTypeOK ==
    /\ asked \in Seq(Requests)
    /\ waiting \subseteq Requests
    /\ got \in [Requests -> Seq(Numbers)]
    /\ up \in Seq(UpType)
    /\ down \in Seq(DownType)
    /\ {linked, open, over, stale} \subseteq BOOLEAN
    /\ left \subseteq Requests
    /\ cuts \in 0 .. MaxCuts
    /\ que \in Seq(Requests)
    /\ cur \in Requests \cup {None}
    /\ made \in [Requests -> 0 .. Answers]
    /\ confirmed \in [Requests -> SUBSET Numbers]
    /\ work \in {"none", "active", "paused", "done"}
    /\ resend \in [i : Nat \ {0}, upto : 0 .. Answers] \cup {None}

DeliveryInit ==
    /\ asked = <<>>
    /\ waiting = {}
    /\ got = [r \in Requests |-> <<>>]
    /\ up = <<>>
    /\ down = <<>>
    /\ linked = TRUE
    /\ cuts = 0
    /\ open = TRUE
    /\ que = <<>>
    /\ cur = None
    /\ made = [r \in Requests |-> 0]
    /\ confirmed = [r \in Requests |-> {}]
    /\ work = "none"
    /\ resend = None
    /\ over = FALSE
    /\ stale = FALSE
    /\ left = {}

-----------------------------------------------------------------------------
(* The tab: GS.requestFromSocket and the handlers of GS.openSocket.        *)

\* A new message, with a callback of its own.
TabRequests(r) ==
    /\ linked
    /\ r \notin RangeOf(asked)
    /\ asked' = Append(asked, r)
    /\ waiting' = waiting \cup {r}
    /\ up' = Append(up, [kind |-> "request", r |-> r, n |-> 1])
    /\ UNCHANGED <<got, down, linked, cuts, open, request, resend, over, ids>>

\* A faulty variant: the number after the first missing one.
StartFromNext(s) ==
    1 + CHOOSE n \in 1 .. Len(s) + 1 :
           /\ \A i \in 1 .. n - 1 : s[i] = i
           /\ n = Len(s) + 1 \/ s[n] # n

\* The first answer the tab has not received in its place.
StartFrom(s) ==
    CHOOSE n \in 1 .. Len(s) + 1 :
        /\ \A i \in 1 .. n - 1 : s[i] = i
        /\ n = Len(s) + 1 \/ s[n] # n

\* The session id arrives: every message that still waits asks for the rest.
TabResumes ==
    LET S == Kept(asked, waiting) IN
    /\ down # <<>>
    /\ Head(down).kind = "session"
    /\ down' = Tail(down)
    /\ up' = up \o [i \in 1 .. Len(S) |->
                       [kind |-> "from", r |-> S[i], n |-> StartFrom(got[S[i]])]]
    /\ stale' = FALSE
    /\ UNCHANGED <<tab, linked, cuts, open, request, resend, over, left>>

\* An answer arrives: it is confirmed and given to the callback, and the last
\* one ends the message.  Answers to a message that has ended are ignored.
TabReceives ==
    LET r == Head(down).r
        n == Head(down).n IN
    /\ down # <<>>
    /\ Head(down).kind = "answer"
    /\ down' = Tail(down)
    /\ IF r \in waiting
       THEN /\ got' = [got EXCEPT ![r] = Append(@, n)]
            /\ up' = Append(up, [kind |-> "confirm", r |-> r, n |-> n])
            /\ waiting' = IF n = Answers THEN waiting \ {r} ELSE waiting
       ELSE UNCHANGED <<got, up, waiting>>
    /\ UNCHANGED <<asked, linked, cuts, open, request, resend, over, ids>>

\* The websocket is lost, with what was on its way to the tab and with all
\* but a first part of what was on its way to the server.
Cut ==
    /\ linked
    /\ cuts < MaxCuts
    /\ linked' = FALSE
    /\ cuts' = cuts + 1
    /\ down' = <<>>
    /\ \E n \in 0 .. Len(up) : up' = SubSeq(up, 1, n)
    /\ UNCHANGED <<tab, open, request, resend, over, ids>>

\* What the server does for the id that the tab asks for (client_cb).  It moves
\* the session into the new websocket; a SEND FROM under way goes with the old
\* client.  When the last id was lost with its websocket, the id is gone that
\* the tab asks for, and it gets another session: the old one stays behind.
Recovers ==
    \/ ~stale /\ UNCHANGED <<request, left>>
    \/ /\ stale
       /\ que' = <<>>
       /\ cur' = None
       /\ work' = "none"
       /\ left' = left \cup RangeOf(que) \cup ({cur} \ {None})
       /\ UNCHANGED <<made, confirmed>>

\* The tab opens another websocket with the session id it knows; the session
\* has a new id from now on.
Reconnect ==
    /\ ~linked
    /\ ~over
    /\ linked' = TRUE
    /\ open' = TRUE
    /\ up' = <<>>
    /\ down' = <<[kind |-> "session", r |-> None, n |-> 0]>>
    /\ resend' = None
    /\ stale' = TRUE
    /\ Recovers
    /\ UNCHANGED <<tab, cuts, over>>

-----------------------------------------------------------------------------
(* The server.                                                             *)

Sends(r, n) ==
    down' = IF open /\ linked
            THEN Append(down, [kind |-> "answer", r |-> r, n |-> n]) ELSE down

CanStart == cur = None /\ que # <<>>

\* A frame is read; the queue callback has nothing left to start by then.
ReadsFrame(kind) ==
    /\ ~over
    /\ ~CanStart
    /\ up # <<>>
    /\ Head(up).kind = kind
    /\ up' = Tail(up)

ReadRequest ==
    /\ ReadsFrame("request")
    /\ que' = Append(que, Head(up).r)
    /\ UNCHANGED <<tab, down, linked, cuts, open, cur, made, confirmed, work, resend, over, ids>>

\* A faulty variant: the entry after the confirmed one is freed.
ReadConfirmNext ==
    LET n == Head(up).n + 1 IN
    /\ ReadsFrame("confirm")
    /\ confirmed' = IF cur # None /\ n \in 1 .. made[cur]
                    THEN [confirmed EXCEPT ![cur] = @ \cup {n}] ELSE confirmed
    /\ UNCHANGED <<tab, down, linked, cuts, open, que, cur, made, work, resend, over, ids>>

\* CONFIRM frees an answer of the current request, whatever message it names;
\* the last answer frees the request, even under a SEND FROM that reads it.
ReadConfirm ==
    LET n == Head(up).n
        known == cur # None /\ n \in 1 .. made[cur] /\ n \notin confirmed[cur]
        last == known /\ n = Answers IN
    /\ ReadsFrame("confirm")
    /\ confirmed' = IF known THEN [confirmed EXCEPT ![cur] = @ \cup {n}] ELSE confirmed
    /\ cur' = IF last THEN None ELSE cur
    /\ work' = IF last THEN "none" ELSE work
    /\ over' = (last /\ resend # None)
    /\ UNCHANGED <<tab, down, linked, cuts, open, que, made, resend, ids>>

\* A faulty variant: the last answer that was saved is left out.
ReadFromShort ==
    LET n == Head(up).n IN
    /\ ReadsFrame("from")
    /\ resend' = IF Head(up).r = cur /\ resend = None /\ made[cur] > 0
                 THEN [i |-> n, upto |-> made[cur] - 1] ELSE resend
    /\ UNCHANGED <<tab, down, linked, cuts, open, request, over, ids>>

\* SEND FROM for the current request: what is saved by now is sent again.
ReadFrom ==
    LET n == Head(up).n IN
    /\ ReadsFrame("from")
    /\ resend' = IF Head(up).r = cur /\ resend = None
                 THEN [i |-> n, upto |-> made[cur]] ELSE resend
    /\ UNCHANGED <<tab, down, linked, cuts, open, request, over, ids>>

\* client_request_queue_cb.
Start ==
    /\ ~over
    /\ CanStart
    /\ cur' = Head(que)
    /\ que' = Tail(que)
    /\ work' = "active"
    /\ UNCHANGED <<tab, up, down, linked, cuts, open, made, confirmed, resend, over, ids>>

\* A faulty variant: the last answer does not end the work.
AnswerOn ==
    LET n == made[cur] + 1 IN
    /\ ~over
    /\ cur # None
    /\ work = "active"
    /\ open \/ cur \in Copies
    /\ made' = [made EXCEPT ![cur] = n]
    /\ Sends(cur, n)
    /\ work' = IF open THEN "active" ELSE "paused"
    /\ UNCHANGED <<tab, up, linked, cuts, open, que, cur, confirmed, resend, over, ids>>

\* The next answer of the current request is saved and sent.  A RAW query asks
\* first whether the browser is there, a copy afterwards unless that was all.
Answer ==
    LET n == made[cur] + 1 IN
    /\ ~over
    /\ cur # None
    /\ work = "active"
    /\ open \/ cur \in Copies
    /\ made' = [made EXCEPT ![cur] = n]
    /\ Sends(cur, n)
    /\ work' = IF n = Answers THEN "done" ELSE IF open THEN "active" ELSE "paused"
    /\ UNCHANGED <<tab, up, linked, cuts, open, que, cur, confirmed, resend, over, ids>>

\* close_client_if_needed finds the browser gone: the work waits for a SEND
\* FROM, and the client is closed but stays for a while.
Pause ==
    /\ ~over
    /\ work = "active"
    /\ ~open \/ ~linked
    /\ work' = "paused"
    /\ open' = FALSE
    /\ UNCHANGED <<tab, up, down, linked, cuts, que, cur, made, confirmed, resend, over, ids>>

\* A read fails: a client without a current request is freed at once.
ServerNotices ==
    /\ ~over
    /\ ~linked
    /\ open
    /\ up = <<>>
    /\ open' = FALSE
    /\ over' = (cur = None)
    /\ UNCHANGED <<tab, up, down, linked, cuts, request, resend, ids>>

\* The window of the closed client has passed.
WindowPasses ==
    /\ ~over
    /\ ~linked
    /\ ~open
    /\ over' = TRUE
    /\ UNCHANGED <<tab, up, down, linked, cuts, open, request, resend, ids>>

\* client_send_from_cb sends one saved answer, if it is still there ...
ResendOne ==
    /\ ~over
    /\ resend # None
    /\ resend.i < resend.upto
    /\ IF resend.i \in confirmed[cur] THEN UNCHANGED down ELSE Sends(cur, resend.i)
    /\ resend' = [resend EXCEPT !.i = @ + 1]
    /\ UNCHANGED <<tab, up, linked, cuts, open, request, over, ids>>

\* A faulty variant: the paused work is forgotten.
ResendEndsOnly ==
    /\ ~over
    /\ resend # None
    /\ resend.i >= resend.upto
    /\ IF resend.i > resend.upto \/ resend.i \in confirmed[cur]
       THEN UNCHANGED down ELSE Sends(cur, resend.i)
    /\ resend' = None
    /\ UNCHANGED <<tab, up, linked, cuts, open, request, over, ids>>

\* ... and after the last one it lets the paused work go on.  No frame is read
\* between the two, so one step stands for both.
ResendEnds ==
    /\ ~over
    /\ resend # None
    /\ resend.i >= resend.upto
    /\ IF resend.i > resend.upto \/ resend.i \in confirmed[cur]
       THEN UNCHANGED down ELSE Sends(cur, resend.i)
    /\ resend' = None
    /\ work' = IF work = "paused" THEN "active" ELSE work
    /\ UNCHANGED <<tab, up, linked, cuts, open, que, cur, made, confirmed, over, ids>>

-----------------------------------------------------------------------------
DeliveryNext ==
    \/ \E r \in Requests : TabRequests(r)
    \/ TabResumes
    \/ TabReceives
    \/ Cut
    \/ Reconnect
    \/ ReadRequest
    \/ ReadConfirm
    \/ ReadFrom
    \/ Start
    \/ Answer
    \/ Pause
    \/ ServerNotices
    \/ WindowPasses
    \/ ResendOne
    \/ ResendEnds

DeliverySpec == DeliveryInit /\ [][DeliveryNext]_dvars

\* Frames arrive or the websocket is lost, the tab opens another one (after a
\* second, in GS.openSocket), the loop runs its callbacks, and the database
\* answers.  The websocket is lost MaxCuts times at most.
FairDelivery ==
    /\ DeliverySpec
    /\ WF_dvars(TabResumes) /\ WF_dvars(TabReceives) /\ WF_dvars(Reconnect)
    /\ WF_dvars(ReadRequest) /\ WF_dvars(ReadConfirm) /\ WF_dvars(ReadFrom)
    /\ WF_dvars(Start) /\ WF_dvars(Answer)
    /\ WF_dvars(ResendOne) /\ WF_dvars(ResendEnds)

-----------------------------------------------------------------------------
(* What must hold.                                                         *)

\* The server only throws away what the tab has: an answer whose entry is NULL
\* was received, although CONFIRM does not look at the message it names.
ConfirmedIsReceived ==
    \A r \in Requests : confirmed[r] \subseteq RangeOf(got[r])

\* When nothing is under way on a working websocket, a tab that waits for the
\* current request has every answer of it so far.
QuiescentTabHasAll ==
    ~over /\ linked /\ up = <<>> /\ down = <<>> /\ resend = None /\ cur \in waiting
        => 1 .. made[cur] \subseteq RangeOf(got[cur])

\* And work that nobody will resume is not left behind.
QuiescentWorkGoesOn ==
    ~over /\ linked /\ up = <<>> /\ down = <<>> /\ resend = None /\ cur \in waiting
        => work = "active"

\* A message whose request runs is answered to the end, however often its
\* websocket is lost (client_send_from_cb), unless the session is: with its
\* client, or because a websocket was lost before the new id of the session
\* had arrived (socket.GSSessionID).
RunningIsAnswered ==
    \A r \in Requests : (cur = r /\ r \in waiting) ~> (r \notin waiting \/ over \/ r \in left)

\* A message that ends in the tab has had all of its answers ("the client tells
\* us what the first message they didn't get was, and we send from that point",
\* common_client.h on client_send_from_cb).
EndedHasAll ==
    \A r \in RangeOf(asked) \ waiting : RangeOf(got[r]) = Numbers

\* A queued request is started ("if we are ready to handle another request, and
\* if we can", common_client.h on client_request_queue_cb).
QueuedIsStarted ==
    \A r \in Requests : (r \in RangeOf(que)) ~> (cur = r \/ over \/ r \in left)
=============================================================================
