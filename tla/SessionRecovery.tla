--------------------------- MODULE SessionRecovery ---------------------------
(***************************************************************************)
(* ClientSession implements SessionQueue.  A session is the database       *)
(* connection: it is what survives a recovery.  Its queue and its running  *)
(* request are those of the client that holds the connection, so the       *)
(* recovery in client_cb has to be a stuttering step.                      *)
(***************************************************************************)
EXTENDS ClientSession

Holders(k) == {c \in Clients : client[c].conn = k}

Holder(k) == CHOOSE c \in Holders(k) : TRUE

Queues == [k \in Clients |-> IF Holders(k) = {} THEN <<>> ELSE client[Holder(k)].que]

Running == [k \in Clients |-> IF Holders(k) = {} THEN None ELSE client[Holder(k)].cur]

Over == {r \in Requests : req[r].st = "freed"}

Queue == INSTANCE SessionQueue
            WITH Sessions <- Clients, queue <- Queues, running <- Running, over <- Over

\* One request of a session at a time, in the order they came, and none
\* twice, whatever websockets come and go (client_request_queue_cb and the
\* move in client_cb).
RecoveryIsInvisible == Queue!QueueSpec
=============================================================================
