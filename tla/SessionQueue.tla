---------------------------- MODULE SessionQueue ----------------------------
(***************************************************************************)
(* What the server promises a browser tab: a session runs the requests it  *)
(* was sent one at a time and in order, each at most once, until it ends.  *)
(* Which websocket carries the session, how often that websocket is lost   *)
(* and recovered, and what memory is freed meanwhile cannot be seen here.  *)
(***************************************************************************)
EXTENDS Naturals, Sequences

CONSTANTS Sessions, Requests, None

VARIABLES
    queue,    \* the requests each session was sent and has not begun
    running,  \* the request each session runs, or None
    over      \* the requests that are over, finished or not

qvars == <<queue, running, over>>

QueueTypeOK ==
    /\ queue \in [Sessions -> Seq(Requests)]
    /\ running \in [Sessions -> Requests \cup {None}]
    /\ over \subseteq Requests

QueueInit ==
    /\ queue = [s \in Sessions |-> <<>>]
    /\ running = [s \in Sessions |-> None]
    /\ over = {}

Pending(s) == {queue[s][i] : i \in 1 .. Len(queue[s])} \cup ({running[s]} \ {None})

Fresh == Requests \ (over \cup UNION {Pending(s) : s \in Sessions})

Submit(s, r) ==
    /\ r \in Fresh
    /\ queue' = [queue EXCEPT ![s] = Append(@, r)]
    /\ UNCHANGED <<running, over>>

Begin(s) ==
    /\ running[s] = None
    /\ queue[s] # <<>>
    /\ running' = [running EXCEPT ![s] = Head(queue[s])]
    /\ queue' = [queue EXCEPT ![s] = Tail(@)]
    /\ UNCHANGED over

Complete(s) ==
    /\ running[s] # None
    /\ over' = over \cup {running[s]}
    /\ running' = [running EXCEPT ![s] = None]
    /\ UNCHANGED queue

\* The session ends with all it still had to do.
End(s) ==
    /\ over' = over \cup Pending(s)
    /\ queue' = [queue EXCEPT ![s] = <<>>]
    /\ running' = [running EXCEPT ![s] = None]

\* Requests that were sent to no session at all.
Refuse(R) ==
    /\ R \subseteq Fresh
    /\ over' = over \cup R
    /\ UNCHANGED <<queue, running>>

QueueNext ==
    \/ \E s \in Sessions :
          \/ \E r \in Requests : Submit(s, r)
          \/ Begin(s)
          \/ Complete(s)
          \/ End(s)
    \/ \E R \in SUBSET Requests : Refuse(R)

QueueSpec == QueueInit /\ [][QueueNext]_qvars
=============================================================================
