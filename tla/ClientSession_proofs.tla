------------------------ MODULE ClientSession_proofs -------------------------
(***************************************************************************)
(* Proofs about ClientSession, for any number of clients and requests, any *)
(* window and either value of the flags, and that it implements            *)
(* SessionQueue.                                                           *)
(*                                                                         *)
(* Every close and every recovery goes through CloseImmediate, called with *)
(* clients and requests that no state ever shows: the recovery hands over  *)
(* first and frees the old client then.  The invariants are therefore      *)
(* stated of any functions cl and rq in the place of client and req, kept  *)
(* by the handing over and by the freeing separately.                      *)
(***************************************************************************)
EXTENDS SessionRecovery, FiniteSetTheorems, TLAPS

ClientsType == [Clients -> ClientType]
ConnsType == [Clients -> ConnType]
RequestsType == [Requests -> RequestType]

\* RequestHasOneHolder, and what makes it inductive: a client with a current
\* request is busy, so no other one starts, and only a listed client holds
\* anything, so a new websocket overwrites nothing.
Held(cl, rq) ==
    /\ \A r \in Requests : rq[r].st \in {"queued", "current"} =>
          /\ rq[r].parent \in Clients
          /\ cl[rq[r].parent].cur = r \/ r \in RangeOf(cl[rq[r].parent].que)
    /\ \A c \in Clients : \A i \in 1 .. Len(cl[c].que) :
          rq[cl[c].que[i]].st = "queued" /\ rq[cl[c].que[i]].parent = c
    /\ \A c \in Clients : \A i, j \in 1 .. Len(cl[c].que) :
          cl[c].que[i] = cl[c].que[j] => i = j
    /\ \A c \in Clients : cl[c].cur # None =>
          rq[cl[c].cur].st = "current" /\ rq[cl[c].cur].parent = c /\ cl[c].busy
    /\ \A c \in Clients : cl[c].st # "listed" => cl[c].cur = None /\ cl[c].que = <<>>

HeldInv == TypeOK /\ Held(client, req)

-----------------------------------------------------------------------------
(* What the helpers return.                                                *)

LEMMA NewTypes == NewClient \in ClientType /\ FreedClient \in ClientType
                  /\ NewRequest \in RequestType
  <1>1. NewClient \in ClientType
    BY DEF NewClient, ClientType
  <1>2. FreedClient \in ClientType
    BY <1>1 DEF FreedClient, ClientType
  <1>3. NewRequest \in RequestType
    BY DEF NewRequest, RequestType, Stages
  <1> QED BY <1>1, <1>2, <1>3

LEMMA FreedRequestType ==
  ASSUME NEW q \in RequestType
  PROVE  FreedRequest(q) \in RequestType /\ FreedRequest(q).st = "freed"
  BY NewTypes DEF FreedRequest, NewRequest, RequestType

LEMMA IdleHeldType ==
  ASSUME NEW cl \in ClientType, NEW rq \in RequestsType
  PROVE  IdleHeld(cl, rq) \in Nat
  <1>1. Len(cl.que) \in Nat
    BY DEF ClientType
  <1> DEFINE n == IF cl.sendFrom # None THEN 1 ELSE 0
             m == IF cl.cur = None THEN 0
                  ELSE IF rq[cl.cur].work = "active" /\ rq[cl.cur].stage \in Polled THEN 1
                  ELSE IF rq[cl.cur].work = "paused" /\ rq[cl.cur].stage = "rows" THEN 1
                  ELSE 0
  <1>2. n \in Nat /\ m \in Nat
    OBVIOUS
  <1>3. IdleHeld(cl, rq) = n + Len(cl.que) + m
    BY DEF IdleHeld
  <1> HIDE DEF n, m
  <1> QED BY <1>1, <1>2, <1>3

LEMMA MinusType ==
  ASSUME NEW i \in Nat, NEW n \in Nat
  PROVE  Minus(i, n) \in Nat
  BY DEF Minus

LEMMA CloseImmediateType ==
  ASSUME NEW c \in Clients, NEW cl \in ClientsType, NEW rq \in RequestsType,
         NEW i \in Nat, conn \in ConnsType, CloseImmediate(c, cl, rq, i)
  PROVE  /\ client' \in ClientsType /\ conn' \in ConnsType
         /\ req' \in RequestsType /\ idle' \in Nat
  <1>1. client' \in ClientsType
    BY NewTypes DEF CloseImmediate, ClientsType
  <1>2. conn' \in ConnsType
    BY DEF CloseImmediate, ConnsType, ConnType
  <1>3. req' \in RequestsType
    BY FreedRequestType DEF CloseImmediate, RequestsType
  <1>4. idle' \in Nat
    BY IdleHeldType, MinusType DEF CloseImmediate, ClientsType
  <1> QED BY <1>1, <1>2, <1>3, <1>4

LEMMA LingeringType ==
  ASSUME NEW cl \in ClientType
  PROVE  Lingering(cl) \in ClientType
  <1> DEFINE a == IF cl.age = None THEN 0 ELSE cl.age
  <1>1. 0 \in 0 .. Window
    BY WindowAssumption
  <1>2. a \in (0 .. Window) \cup {None}
    BY <1>1 DEF ClientType
  <1>3. Lingering(cl) = [cl EXCEPT !.open = FALSE, !.age = a]
    BY DEF Lingering
  <1> HIDE DEF a
  <1> QED BY <1>2, <1>3 DEF ClientType

LEMMA CloseType ==
  ASSUME NEW c \in Clients, NEW cl \in ClientsType, NEW rq \in RequestsType,
         NEW i \in Nat, conn \in ConnsType, Close(c, cl, rq, i)
  PROVE  /\ client' \in ClientsType /\ conn' \in ConnsType
         /\ req' \in RequestsType /\ idle' \in Nat
  <1>1. CASE ~Authorized(c, cl) \/ cl[c].cur = None
    BY <1>1, CloseImmediateType DEF Close
  <1>2. CASE ~(~Authorized(c, cl) \/ cl[c].cur = None)
    <2>1. client' = [cl EXCEPT ![c] = Lingering(cl[c])]
      BY <1>2 DEF Close
    <2>2. Lingering(cl[c]) \in ClientType
      BY LingeringType DEF ClientsType
    <2>3. client' \in ClientsType
      BY <2>1, <2>2 DEF ClientsType
    <2> QED BY <1>2, <2>3 DEF Close
  <1> QED BY <1>1, <1>2

LEMMA CloseImmediateHeld ==
  ASSUME NEW c \in Clients, NEW cl \in ClientsType, NEW rq \in RequestsType,
         NEW i, CloseImmediate(c, cl, rq, i), Held(cl, rq)
  PROVE  Held(client', req')
  <1>1. client' = [cl EXCEPT ![c] = FreedClient]
    BY DEF CloseImmediate
  <1>2. req' = [r \in Requests |->
                  IF r = cl[c].cur \/ r \in RangeOf(cl[c].que)
                  THEN FreedRequest(rq[r]) ELSE rq[r]]
    BY DEF CloseImmediate
  <1>3. /\ client'[c].cur = None /\ client'[c].que = <<>> 
        /\ \A d \in Clients \ {c} : client'[d] = cl[d]
    BY <1>1 DEF FreedClient, NewClient, ClientsType
  <1>4. \A r \in Requests :
          IF r = cl[c].cur \/ r \in RangeOf(cl[c].que)
          THEN req'[r].st = "freed" ELSE req'[r] = rq[r]
    BY <1>2, FreedRequestType DEF RequestsType
  <1>a. \A r \in Requests : r = cl[c].cur \/ r \in RangeOf(cl[c].que) => rq[r].parent = c
    BY NoneAssumption DEF Held, RangeOf
  <1>5. ASSUME NEW d \in Clients \ {c}
        PROVE  /\ cl[d].cur # None => req'[cl[d].cur] = rq[cl[d].cur]
               /\ \A k \in 1 .. Len(cl[d].que) : req'[cl[d].que[k]] = rq[cl[d].que[k]]
    <2>1. /\ cl[d].cur \in Requests \cup {None}
          /\ \A k \in 1 .. Len(cl[d].que) : cl[d].que[k] \in Requests
      BY DEF ClientsType, ClientType
    <2>2. /\ cl[d].cur # None => rq[cl[d].cur].parent = d
          /\ \A k \in 1 .. Len(cl[d].que) : rq[cl[d].que[k]].parent = d
      BY DEF Held
    <2> QED BY <1>4, <1>a, <2>1, <2>2
  <1>6. \A r \in Requests : req'[r].st \in {"queued", "current"} =>
          req'[r] = rq[r] /\ rq[r].parent \in Clients \ {c}
    BY <1>4 DEF Held
  <1> QED BY <1>3, <1>5, <1>6 DEF Held, RangeOf

LEMMA CloseHeld ==
  ASSUME NEW c \in Clients, NEW cl \in ClientsType, NEW rq \in RequestsType,
         NEW i, Close(c, cl, rq, i), Held(cl, rq)
  PROVE  Held(client', req')
  <1>1. CASE ~Authorized(c, cl) \/ cl[c].cur = None
    BY <1>1, CloseImmediateHeld DEF Close
  <1>2. CASE ~(~Authorized(c, cl) \/ cl[c].cur = None)
    <2>1. client' = [cl EXCEPT ![c] = Lingering(cl[c])] /\ req' = rq
      BY <1>2 DEF Close
    <2>2. \A d \in Clients :
            /\ client'[d].cur = cl[d].cur /\ client'[d].que = cl[d].que
            /\ client'[d].busy = cl[d].busy /\ client'[d].st = cl[d].st
      BY <2>1 DEF Lingering, ClientsType, ClientType
    <2> QED BY <2>1, <2>2 DEF Held
  <1> QED BY <1>1, <1>2

\* Steps that touch no holding.
LEMMA UntouchedHeld ==
  ASSUME NEW cl1 \in ClientsType, NEW cl2, NEW rq1, NEW rq2, Held(cl1, rq1),
         \A c \in Clients : /\ cl2[c].cur = cl1[c].cur /\ cl2[c].que = cl1[c].que
                            /\ cl2[c].busy = cl1[c].busy /\ cl2[c].st = cl1[c].st,
         \A r \in Requests : rq2[r].st = rq1[r].st /\ rq2[r].parent = rq1[r].parent
  PROVE  Held(cl2, rq2)
  <1>1. \A c \in Clients :
          /\ cl1[c].cur # None => cl1[c].cur \in Requests
          /\ \A i \in 1 .. Len(cl1[c].que) : cl1[c].que[i] \in Requests
    BY DEF ClientsType, ClientType
  <1> QED BY SMTT(30), <1>1 DEF Held, RangeOf

\* The hand-over of a recovery, before anything is freed.
LEMMA AdoptedHeld ==
  ASSUME TypeOK, Held(client, req),
         NEW c \in Clients, NEW old \in Clients, ~Listed(c), Listed(old),
         NEW cl,
         /\ cl[c].cur = client[old].cur /\ cl[c].que = client[old].que
         /\ cl[c].busy = client[old].busy /\ cl[c].st = "listed"
         /\ cl[old].cur = None /\ cl[old].que = <<>>
         /\ \A d \in Clients \ {c, old} : cl[d] = client[d]
  PROVE  Held(cl, Adopted(c, old))
  <1> DEFINE rq == Adopted(c, old)
  <1>1. c # old
    OBVIOUS
  <1>2. \A r \in Requests : /\ rq[r].st = req[r].st
                            /\ rq[r].parent = IF Holds(old, r) THEN c ELSE req[r].parent
    BY DEF Adopted, TypeOK, RequestType
  <1>3. \A d \in Clients :
          /\ client[d].cur # None => client[d].cur \in Requests
          /\ \A i \in 1 .. Len(client[d].que) : client[d].que[i] \in Requests
    BY DEF TypeOK, ClientType
  <1>4. \A r \in Requests : Holds(old, r) => req[r].parent = old
    BY NoneAssumption DEF Held, Holds, RangeOf
  <1>5. ASSUME NEW d \in Clients \ {c, old}
        PROVE  /\ client[d].cur # None => rq[client[d].cur] = req[client[d].cur]
               /\ \A i \in 1 .. Len(client[d].que) : rq[client[d].que[i]] = req[client[d].que[i]]
    <2>1. /\ client[d].cur # None => ~Holds(old, client[d].cur)
          /\ \A i \in 1 .. Len(client[d].que) : ~Holds(old, client[d].que[i])
      BY <1>3, <1>4 DEF Held
    <2> QED BY <1>3, <2>1 DEF Adopted
  <1>6. ASSUME NEW r \in Requests, rq[r].st \in {"queued", "current"}
        PROVE  rq[r].parent \in Clients
               /\ (cl[rq[r].parent].cur = r \/ r \in RangeOf(cl[rq[r].parent].que))
    <2>1. CASE Holds(old, r)
      BY <1>2, <2>1 DEF Holds
    <2>2. CASE ~Holds(old, r)
      <3>1. /\ req[r].parent \in Clients /\ Holds(req[r].parent, r)
            /\ rq[r].parent = req[r].parent
        BY <1>2, <1>6, <2>2 DEF Held, Holds
      <3>2. req[r].parent # c
        <4>1. client[c].cur = None /\ client[c].que = <<>>
          BY DEF Held, Listed
        <4> QED BY <3>1, <4>1, NoneAssumption DEF Holds, RangeOf
      <3> QED BY <2>2, <3>1, <3>2 DEF Holds
    <2> QED BY <2>1, <2>2
  <1>7. \A i \in 1 .. Len(client[old].que) : Holds(old, client[old].que[i])
    BY DEF Holds, RangeOf
  <1>8. ASSUME NEW d \in Clients
        PROVE  /\ \A i \in 1 .. Len(cl[d].que) :
                     rq[cl[d].que[i]].st = "queued" /\ rq[cl[d].que[i]].parent = d
               /\ \A i, j \in 1 .. Len(cl[d].que) : cl[d].que[i] = cl[d].que[j] => i = j
               /\ cl[d].cur # None => /\ rq[cl[d].cur].st = "current"
                                      /\ rq[cl[d].cur].parent = d /\ cl[d].busy
               /\ cl[d].st # "listed" => cl[d].cur = None /\ cl[d].que = <<>>
    <2>1. CASE d = c
      BY <1>2, <1>3, <1>7, <2>1 DEF Held, Holds
    <2>2. CASE d = old
      BY <1>1, <2>2
    <2>3. CASE d # c /\ d # old
      BY <1>5, <2>3 DEF Held
    <2> QED BY <2>1, <2>2, <2>3
  <1> QED BY <1>6, <1>8 DEF Held

-----------------------------------------------------------------------------
(* One lemma per group of actions.                                         *)

LEMMA InitHeld == Init => HeldInv
  <1> SUFFICES ASSUME Init PROVE HeldInv
    OBVIOUS
  <1>1. TypeOK
    BY NewTypes DEF Init, TypeOK, ConnType
  <1>2. Held(client, req)
    BY DEF Init, Held, NewClient, NewRequest, RangeOf
  <1> QED BY <1>1, <1>2 DEF HeldInv

LEMMA UpgradedType ==
  ASSUME NEW old, NEW loggedIn \in BOOLEAN
  PROVE  /\ Upgraded(old, loggedIn) \in ClientType
         /\ Upgraded(old, loggedIn).st = "listed"
         /\ Upgraded(old, loggedIn).cur = None /\ Upgraded(old, loggedIn).que = <<>>
         /\ Upgraded(old, loggedIn).conn = None /\ Upgraded(old, loggedIn).paused = None
  <1> DEFINE b == old # None
  <1>1. b \in BOOLEAN
    OBVIOUS
  <1>2. Upgraded(old, loggedIn) =
          [NewClient EXCEPT !.st = "listed", !.open = loggedIn, !.asks = b]
    BY DEF Upgraded
  <1> HIDE DEF b
  <1>3. Upgraded(old, loggedIn) \in ClientType /\ Upgraded(old, loggedIn).st = "listed"
    BY <1>1, <1>2, NewTypes DEF ClientType
  <1> QED BY <1>2, <1>3, NewTypes DEF NewClient

LEMMA MovedType ==
  ASSUME TypeOK, NEW new \in ClientType, NEW old \in Clients
  PROVE  /\ Moved(new, old) \in ClientType
         /\ Moved(new, old).st = new.st
         /\ Moved(new, old).cur = client[old].cur
         /\ Moved(new, old).que = client[old].que
         /\ Moved(new, old).busy = client[old].busy
         /\ Moved(new, old).conn = client[old].conn
         /\ Moved(new, old).paused = client[old].paused
  BY DEF Moved, TypeOK, ClientType

LEMMA EmptiedType ==
  ASSUME TypeOK, NEW old \in Clients
  PROVE  /\ Emptied(old) \in ClientType
         /\ Emptied(old).cur = None /\ Emptied(old).que = <<>>
         /\ Emptied(old).paused = None /\ Emptied(old).conn = None
  <1>1. client[old] \in ClientType
    BY DEF TypeOK
  <1>2. <<>> \in Seq(Requests)
    OBVIOUS
  <1>3. Emptied(old) \in ClientType
    BY <1>1, <1>2 DEF Emptied, ClientType
  <1>4. /\ Emptied(old).cur = None /\ Emptied(old).que = <<>>
        /\ Emptied(old).paused = None /\ Emptied(old).conn = None
    BY <1>1 DEF Emptied, ClientType
  <1> QED BY <1>3, <1>4

LEMMA AdoptedType ==
  ASSUME TypeOK, NEW c \in Clients, NEW old
  PROVE  Adopted(c, old) \in RequestsType
  BY DEF Adopted, TypeOK, RequestsType, RequestType

LEMMA OpenSessionHeld ==
  ASSUME HeldInv, NEW c \in Clients, NEW old, NEW sameCookie \in BOOLEAN,
         NEW loggedIn \in BOOLEAN, OpenSession(c, old, sameCookie, loggedIn)
  PROVE  HeldInv'
  <1> DEFINE new == [Upgraded(old, loggedIn) EXCEPT !.conn = IF loggedIn THEN c ELSE None]
  <1>1. /\ client' = [client EXCEPT ![c] = new]
        /\ client[c].st = "none" /\ UNCHANGED <<req, idle, crashed>> /\ awake' = TRUE
        /\ conn' = IF loggedIn
                   THEN [conn EXCEPT ![c] = [phase |-> "connecting", target |-> c]]
                   ELSE conn
    BY DEF OpenSession
  <1>2. /\ new \in ClientType /\ new.st = "listed" /\ new.cur = None /\ new.que = <<>>
    BY UpgradedType DEF ClientType
  <1> HIDE DEF new
  <1>3. TypeOK'
    BY <1>1, <1>2 DEF HeldInv, TypeOK, ConnType
  <1>4. client[c].cur = None /\ client[c].que = <<>>
    BY <1>1 DEF HeldInv, Held
  <1>5. /\ client'[c] = new
        /\ \A d \in Clients \ {c} : client'[d] = client[d]
    BY <1>1 DEF HeldInv, TypeOK
  <1>6. \A r \in Requests : req[r].st \in {"queued", "current"} => req[r].parent # c
    BY <1>4, NoneAssumption DEF HeldInv, Held, RangeOf
  <1>7. Held(client', req')
    BY <1>1, <1>2, <1>5, <1>6 DEF HeldInv, Held, RangeOf
  <1> QED BY <1>3, <1>7 DEF HeldInv

LEMMA RecoverSessionHeld ==
  ASSUME HeldInv, NEW c \in Clients, NEW old \in Clients, NEW loggedIn \in BOOLEAN,
         RecoverSession(c, old, loggedIn)
  PROVE  HeldInv'
  <1> DEFINE new == Moved(Upgraded(old, loggedIn), old)
             cl == [client EXCEPT ![c] = new, ![old] = Emptied(old)]
             rq == Adopted(c, old)
  <1>1. /\ client[c].st = "none" /\ Listed(old) /\ c # old
        /\ CloseImmediate(old, cl, rq, idle)
        /\ awake' = TRUE /\ UNCHANGED crashed
    BY DEF RecoverSession, Recoverable, Listed
  <1>2. TypeOK /\ Held(client, req)
    BY DEF HeldInv
  <1>3. new \in ClientType /\ Emptied(old) \in ClientType
    BY <1>2, UpgradedType, MovedType, EmptiedType
  <1>4. cl \in ClientsType /\ rq \in RequestsType
    BY <1>2, <1>3, AdoptedType DEF TypeOK, ClientsType
  <1>5. cl[c] = new /\ cl[old] = Emptied(old) /\ \A d \in Clients \ {c, old} : cl[d] = client[d]
    BY <1>1, <1>2 DEF TypeOK
  <1>6. /\ new.cur = client[old].cur /\ new.que = client[old].que
        /\ new.busy = client[old].busy /\ new.st = "listed"
    BY <1>2, UpgradedType, MovedType
  <1>7. /\ Emptied(old).cur = None /\ Emptied(old).que = <<>>
    BY <1>2, EmptiedType
  <1> HIDE DEF new, cl
  <1>8. Held(cl, rq)
    BY <1>1, <1>2, <1>5, <1>6, <1>7, AdoptedHeld DEF Listed
  <1>9. Held(client', req')
    BY <1>1, <1>4, <1>8, CloseImmediateHeld
  <1>10. TypeOK'
    BY <1>1, <1>2, <1>4, CloseImmediateType DEF TypeOK, ClientsType, ConnsType, RequestsType
  <1> QED BY <1>9, <1>10 DEF HeldInv

LEMMA RecoverThenFailHeld ==
  ASSUME HeldInv, NEW c \in Clients, NEW old \in Clients, RecoverThenFail(c, old)
  PROVE  HeldInv'
  <1> DEFINE moved == Moved(Upgraded(old, TRUE), old)
             new == [moved EXCEPT !.gone = TRUE]
             cl == [client EXCEPT ![c] = new, ![old] = FreedClient]
             rq == Adopted(c, old)
             i == Minus(idle, IF client[old].sendFrom = None THEN 0 ELSE 1)
  <1>1. /\ client[c].st = "none" /\ Listed(old) /\ c # old
        /\ CloseImmediate(c, cl, rq, i)
        /\ awake' = TRUE /\ UNCHANGED crashed
    BY DEF RecoverThenFail, Recoverable, Listed
  <1>2. TypeOK /\ Held(client, req)
    BY DEF HeldInv
  <1>3. moved \in ClientType /\ moved.st = "listed" /\ moved.cur = client[old].cur
        /\ moved.que = client[old].que /\ moved.busy = client[old].busy
    <2> DEFINE up == Upgraded(old, TRUE)
    <2>1. up \in ClientType /\ up.st = "listed"
      BY UpgradedType
    <2> HIDE DEF up
    <2>2. moved = Moved(up, old)
      BY DEF up
    <2> HIDE DEF moved
    <2> QED BY <1>2, <2>1, <2>2, MovedType
  <1> HIDE DEF moved
  <1>4. /\ new \in ClientType /\ new.st = "listed" /\ new.cur = client[old].cur
        /\ new.que = client[old].que /\ new.busy = client[old].busy
    BY <1>3 DEF ClientType
  <1> HIDE DEF new
  <1>5. cl \in ClientsType /\ rq \in RequestsType
    BY <1>2, <1>4, NewTypes, AdoptedType DEF TypeOK, ClientsType
  <1>6. i \in Nat
    BY <1>2, MinusType DEF TypeOK
  <1>7. cl[c] = new /\ cl[old] = FreedClient /\ \A d \in Clients \ {c, old} : cl[d] = client[d]
    BY <1>1, <1>2 DEF TypeOK
  <1>8. FreedClient.cur = None /\ FreedClient.que = <<>>
    BY DEF FreedClient, NewClient
  <1> HIDE DEF cl, i
  <1>9. Held(cl, rq)
    BY <1>1, <1>2, <1>4, <1>7, <1>8, AdoptedHeld DEF Listed
  <1>10. Held(client', req')
    BY <1>1, <1>5, <1>9, CloseImmediateHeld
  <1>11. TypeOK'
    BY <1>1, <1>2, <1>5, <1>6, CloseImmediateType DEF TypeOK, ClientsType, ConnsType, RequestsType
  <1> QED BY <1>10, <1>11 DEF HeldInv

LEMMA ConnectionEventHeld ==
  ASSUME HeldInv, NEW k \in Clients, ConnectionEvent(k)
  PROVE  HeldInv'
  <1>1. CASE \E phase \in {"up", "bad"} : Connected(k, phase)
    <2> PICK phase \in {"up", "bad"} : Connected(k, phase)
      BY <1>1
    <2> DEFINE c == conn[k].target
               now == client[c].connected \/ phase = "up"
               still == client[c].open /\ phase = "up"
    <2>1. /\ client' = [client EXCEPT ![c] =
                           [client[c] EXCEPT !.conn = k, !.connected = now, !.open = still]]
          /\ conn' = [conn EXCEPT ![k].phase = phase]
          /\ awake' = TRUE /\ UNCHANGED <<req, idle, crashed>>
      BY DEF Connected
    <2>2. now \in BOOLEAN /\ still \in BOOLEAN
      OBVIOUS
    <2>3. TypeOK
      BY DEF HeldInv
    <2> HIDE DEF c, now, still
    <2> DEFINE new == [client[c] EXCEPT !.conn = k, !.connected = now, !.open = still]
    <2>4. c \in Clients => /\ new \in ClientType
                          /\ new.cur = client[c].cur /\ new.que = client[c].que
                          /\ new.busy = client[c].busy /\ new.st = client[c].st
      BY ZenonT(40), <2>2, <2>3 DEF TypeOK, ClientType
    <2>5. client' = [client EXCEPT ![c] = new]
      BY <2>1
    <2> HIDE DEF new
    <2>6. client' \in ClientsType
      BY <2>3, <2>4, <2>5 DEF TypeOK, ClientsType
    <2>7. TypeOK'
      BY <2>1, <2>3, <2>6 DEF TypeOK, ClientsType, ConnType
    <2>8. \A d \in Clients :
            /\ client'[d].cur = client[d].cur /\ client'[d].que = client[d].que
            /\ client'[d].busy = client[d].busy /\ client'[d].st = client[d].st
      BY <2>3, <2>4, <2>5 DEF TypeOK
    <2>9. client \in ClientsType /\ Held(client, req) /\ req' = req
      BY <2>1, <2>3 DEF HeldInv, TypeOK, ClientsType
    <2>10. Held(client', req')
      BY <2>8, <2>9, UntouchedHeld
    <2> QED BY <2>7, <2>10 DEF HeldInv
  <1>2. CASE ConnectedToFreed(k)
    BY <1>2 DEF ConnectedToFreed, HeldInv, TypeOK, Held
  <1> QED BY <1>1, <1>2 DEF ConnectionEvent

LEMMA AppendMembers ==
  ASSUME NEW s \in Seq(Requests), NEW r \in Requests
  PROVE  /\ Append(s, r) \in Seq(Requests)
         /\ Len(Append(s, r)) = Len(s) + 1
         /\ \A i \in 1 .. Len(s) : Append(s, r)[i] = s[i]
         /\ Append(s, r)[Len(s) + 1] = r
         /\ Len(s) \in Nat
  OBVIOUS

LEMMA FrameRequestHeld ==
  ASSUME HeldInv, NEW c \in Clients, NEW r \in Requests, FrameRequest(c, r)
  PROVE  HeldInv'
  <1>1. /\ client' = [client EXCEPT ![c].que = Append(@, r)]
        /\ req' = [req EXCEPT ![r].st = "queued", ![r].parent = c]
        /\ Listed(c) /\ req[r].st = "none"
        /\ idle' = idle + 1 /\ awake' = TRUE /\ UNCHANGED <<conn, crashed>>
    BY DEF FrameRequest, Reads
  <1>2. TypeOK
    BY DEF HeldInv
  <1> DEFINE q == client[c].que
  <1>3. q \in Seq(Requests)
    BY <1>2 DEF TypeOK, ClientType
  <1>4. /\ \A d \in Clients :
               /\ client'[d].cur = client[d].cur /\ client'[d].busy = client[d].busy
               /\ client'[d].st = client[d].st
               /\ d # c => client'[d].que = client[d].que
        /\ client'[c].que = Append(q, r)
    BY <1>1, <1>2 DEF TypeOK, ClientType
  <1>5. /\ req'[r].st = "queued" /\ req'[r].parent = c
        /\ \A s \in Requests \ {r} : req'[s] = req[s]
    BY <1>1, <1>2 DEF TypeOK, RequestType
  <1>6. TypeOK'
    <2> DEFINE a == Append(q, r)
    <2>1. a \in Seq(Requests)
      BY <1>3, AppendMembers
    <2>2. client' = [client EXCEPT ![c] = [client[c] EXCEPT !.que = a]]
      BY <1>1
    <2> HIDE DEF a
    <2>3. [client[c] EXCEPT !.que = a] \in ClientType
      BY ZenonT(40), <1>2, <2>1 DEF TypeOK, ClientType
    <2>4. client' \in ClientsType
      BY <1>2, <2>2, <2>3 DEF TypeOK, ClientsType
    <2>5. req' \in RequestsType
      BY ZenonT(40), <1>1, <1>2 DEF TypeOK, RequestsType, RequestType
    <2> QED BY <1>1, <1>2, <2>4, <2>5 DEF TypeOK, ClientsType, RequestsType
  <1> HIDE DEF q
  <1>7. \A d \in Clients :
          /\ client[d].cur # None => client[d].cur \in Requests \ {r}
          /\ \A i \in 1 .. Len(client[d].que) : client[d].que[i] \in Requests \ {r}
    BY <1>1, <1>2 DEF HeldInv, Held, TypeOK, ClientType
  <1>8. /\ Len(client'[c].que) = Len(q) + 1 /\ client'[c].que[Len(q) + 1] = r
        /\ \A i \in 1 .. Len(q) : client'[c].que[i] = q[i] /\ q[i] # r
        /\ Len(q) \in Nat
    BY <1>3, <1>4, <1>7, AppendMembers DEF q
  <1>9. RangeOf(client'[c].que) = RangeOf(q) \cup {r}
    BY <1>8 DEF RangeOf
  <1>10. ASSUME NEW s \in Requests, req'[s].st \in {"queued", "current"}
         PROVE  /\ req'[s].parent \in Clients
                /\ \/ client'[req'[s].parent].cur = s
                   \/ s \in RangeOf(client'[req'[s].parent].que)
    <2>1. CASE s = r
      BY <1>4, <1>5, <1>9, <2>1
    <2>2. CASE s # r
      <3>1. req'[s] = req[s]
        BY <1>5, <2>2
      <3>2. /\ req[s].parent \in Clients
            /\ \/ client[req[s].parent].cur = s
               \/ s \in RangeOf(client[req[s].parent].que)
        BY <1>10, <3>1 DEF HeldInv, Held
      <3> QED BY <1>4, <1>9, <3>1, <3>2 DEF q
    <2> QED BY <2>1, <2>2
  <1>11. ASSUME NEW d \in Clients
         PROVE  /\ \A i \in 1 .. Len(client'[d].que) :
                      req'[client'[d].que[i]].st = "queued" /\ req'[client'[d].que[i]].parent = d
                /\ \A i, j \in 1 .. Len(client'[d].que) :
                      client'[d].que[i] = client'[d].que[j] => i = j
                /\ client'[d].cur # None => /\ req'[client'[d].cur].st = "current"
                                           /\ req'[client'[d].cur].parent = d
                                           /\ client'[d].busy
                /\ client'[d].st # "listed" => client'[d].cur = None /\ client'[d].que = <<>>
    <2>1. CASE d # c
      BY <1>4, <1>5, <1>7, <2>1 DEF HeldInv, Held
    <2>2. CASE d = c
      <3>1. \A i \in 1 .. Len(q) : req'[q[i]].st = "queued" /\ req'[q[i]].parent = c
        BY <1>5, <1>7 DEF HeldInv, Held, q
      <3>2. \A i, j \in 1 .. Len(q) : q[i] = q[j] => i = j
        BY DEF HeldInv, Held, q
      <3>3. /\ client[c].cur # None => /\ req[client[c].cur].st = "current"
                                     /\ req[client[c].cur].parent = c /\ client[c].busy
            /\ client[c].st = "listed"
        BY <1>1 DEF HeldInv, Held, Listed
      <3>4. \A i \in 1 .. Len(q) + 1 : i \in 1 .. Len(q) \/ i = Len(q) + 1
        BY <1>8
      <3>5. \A i \in 1 .. Len(client'[c].que) :
              req'[client'[c].que[i]].st = "queued" /\ req'[client'[c].que[i]].parent = c
        BY <1>5, <1>8, <3>1, <3>4
      <3>6. \A i, j \in 1 .. Len(client'[c].que) :
              client'[c].que[i] = client'[c].que[j] => i = j
        BY <1>8, <3>2, <3>4
      <3> QED BY <1>4, <1>5, <1>7, <2>2, <3>3, <3>5, <3>6
    <2> QED BY <2>1, <2>2
  <1> QED BY <1>6, <1>10, <1>11 DEF HeldInv, Held

LEMMA FrameConfirmLastHeld ==
  ASSUME HeldInv, NEW c \in Clients, FrameConfirmLast(c)
  PROVE  HeldInv'
  <1> DEFINE r == client[c].cur
  <1>1. /\ client' = [client EXCEPT ![c].cur = None, ![c].busy = FALSE]
        /\ req' = [req EXCEPT ![r] = FreedRequest(req[r])]
        /\ r # None /\ Listed(c)
        /\ awake' = TRUE /\ UNCHANGED <<conn, idle, crashed>>
    BY DEF FrameConfirmLast, Reads
  <1>2. TypeOK
    BY DEF HeldInv
  <1>3. r \in Requests
    BY <1>1, <1>2 DEF TypeOK, ClientType
  <1>4. /\ req'[r].st = "freed"
        /\ \A s \in Requests \ {r} : req'[s] = req[s]
    BY <1>1, <1>2, <1>3, FreedRequestType DEF TypeOK
  <1>5. /\ client'[c].cur = None /\ client'[c].que = client[c].que
        /\ client'[c].st = client[c].st
        /\ \A d \in Clients \ {c} : client'[d] = client[d]
    BY <1>1, <1>2 DEF TypeOK, ClientType
  <1>6. TypeOK'
    <2> DEFINE new == [client[c] EXCEPT !.cur = None, !.busy = FALSE]
    <2>a. client' = [client EXCEPT ![c] = new]
      BY <1>1
    <2>b. new \in ClientType
      BY ZenonT(40), <1>2 DEF TypeOK, ClientType
    <2> HIDE DEF new
    <2>1. client' \in ClientsType
      BY <1>2, <2>a, <2>b DEF TypeOK, ClientsType
    <2>2. req' \in RequestsType
      BY <1>1, <1>2, <1>3, FreedRequestType DEF TypeOK, RequestsType
    <2> QED BY <1>1, <1>2, <2>1, <2>2 DEF TypeOK, ClientsType, RequestsType
  <1>7. req[r].st = "current" /\ req[r].parent = c
    BY <1>1 DEF HeldInv, Held
  <1>8. \A d \in Clients :
          /\ client[d].cur # None /\ d # c => client[d].cur \in Requests \ {r}
          /\ \A i \in 1 .. Len(client[d].que) : client[d].que[i] \in Requests \ {r}
    BY SMTT(30), <1>2, <1>7 DEF HeldInv, Held, TypeOK, ClientType
  <1>9. ASSUME NEW s \in Requests, req'[s].st \in {"queued", "current"}
        PROVE  /\ req'[s].parent \in Clients
               /\ \/ client'[req'[s].parent].cur = s
                  \/ s \in RangeOf(client'[req'[s].parent].que)
    <2>1. s # r /\ req'[s] = req[s]
      BY <1>4, <1>9
    <2>2. /\ req[s].parent \in Clients
          /\ \/ client[req[s].parent].cur = s
             \/ s \in RangeOf(client[req[s].parent].que)
      BY <1>9, <2>1 DEF HeldInv, Held
    <2> QED BY <1>5, <2>1, <2>2
  <1>10. ASSUME NEW d \in Clients
         PROVE  /\ \A i \in 1 .. Len(client'[d].que) :
                      req'[client'[d].que[i]].st = "queued" /\ req'[client'[d].que[i]].parent = d
                /\ \A i, j \in 1 .. Len(client'[d].que) :
                      client'[d].que[i] = client'[d].que[j] => i = j
                /\ client'[d].cur # None => /\ req'[client'[d].cur].st = "current"
                                           /\ req'[client'[d].cur].parent = d
                                           /\ client'[d].busy
                /\ client'[d].st # "listed" => client'[d].cur = None /\ client'[d].que = <<>>
    <2>1. client'[d].que = client[d].que /\ client'[d].st = client[d].st
      BY <1>5
    <2>2. \A i \in 1 .. Len(client[d].que) : req'[client[d].que[i]] = req[client[d].que[i]]
      BY <1>4, <1>8
    <2>3. CASE d = c
      <3>1. client'[d].cur = None /\ client'[d].st = "listed"
        BY <1>1, <1>5, <2>3 DEF Listed
      <3>2. /\ \A i \in 1 .. Len(client[d].que) :
                   req[client[d].que[i]].st = "queued" /\ req[client[d].que[i]].parent = d
            /\ \A i, j \in 1 .. Len(client[d].que) :
                   client[d].que[i] = client[d].que[j] => i = j
        BY DEF HeldInv, Held
      <3> QED BY <2>1, <2>2, <3>1, <3>2
    <2>4. CASE d # c
      BY <1>4, <1>5, <1>8, <2>1, <2>2, <2>4 DEF HeldInv, Held
    <2> QED BY <2>3, <2>4
  <1>11. Held(client', req')
    BY <1>9, <1>10 DEF Held
  <1> QED BY <1>6, <1>11 DEF HeldInv

LEMMA SendFromRequested ==
  ASSUME HeldInv, NEW c \in Clients, FrameSendFrom(c)
  PROVE  HeldInv'
  <1> DEFINE start == client[c].cur # None /\ client[c].sendFrom = None
             f == IF start THEN client[c].cur ELSE client[c].sendFrom
             new == [client[c] EXCEPT !.asks = FALSE, !.sendFrom = f]
  <1>1. TypeOK
    BY DEF HeldInv
  <1>2. /\ client' = [client EXCEPT ![c] = new]
        /\ idle' = IF start THEN idle + 1 ELSE idle
        /\ awake' = TRUE /\ UNCHANGED <<conn, req, crashed>>
    BY DEF FrameSendFrom
  <1>3. f \in Requests \cup {None}
    BY <1>1 DEF TypeOK, ClientType
  <1> HIDE DEF f
  <1>4. /\ new \in ClientType /\ new.cur = client[c].cur /\ new.que = client[c].que
        /\ new.busy = client[c].busy /\ new.st = client[c].st
    BY ZenonT(40), <1>1, <1>3 DEF TypeOK, ClientType
  <1> HIDE DEF new
  <1>5. idle' \in Nat
    BY <1>1, <1>2 DEF TypeOK
  <1>6. TypeOK'
    BY <1>1, <1>2, <1>4, <1>5 DEF TypeOK
  <1>7. \A d \in Clients :
          /\ client'[d].cur = client[d].cur /\ client'[d].que = client[d].que
          /\ client'[d].busy = client[d].busy /\ client'[d].st = client[d].st
    BY <1>1, <1>2, <1>4 DEF TypeOK
  <1>8. client \in ClientsType /\ Held(client, req) /\ req' = req
    BY <1>1, <1>2 DEF HeldInv, TypeOK, ClientsType
  <1>9. Held(client', req')
    BY <1>7, <1>8, UntouchedHeld
  <1> QED BY <1>6, <1>9 DEF HeldInv

LEMMA FrameCloseHeld ==
  ASSUME HeldInv, NEW c \in Clients, FrameClose(c) \/ ReadFails(c)
  PROVE  HeldInv'
  <1>1. TypeOK /\ Held(client, req) /\ client \in ClientsType /\ req \in RequestsType
        /\ conn \in ConnsType /\ idle \in Nat
    BY DEF HeldInv, TypeOK, ClientsType, ConnsType, RequestsType
  <1>2. CASE Close(c, client, req, idle) /\ awake' = TRUE /\ UNCHANGED crashed
    <2>1. Held(client', req')
      BY <1>1, <1>2, CloseHeld
    <2>2. TypeOK'
      BY <1>1, <1>2, CloseType DEF TypeOK, ClientsType, ConnsType, RequestsType
    <2> QED BY <2>1, <2>2 DEF HeldInv
  <1>3. CASE /\ client' = [client EXCEPT ![c].open = FALSE]
             /\ awake' = TRUE /\ UNCHANGED <<conn, req, idle, crashed>>
    <2>1. \A d \in Clients :
            /\ client'[d].cur = client[d].cur /\ client'[d].que = client[d].que
            /\ client'[d].busy = client[d].busy /\ client'[d].st = client[d].st
      BY <1>1, <1>3 DEF TypeOK, ClientType
    <2>2. client' \in ClientsType
      BY ZenonT(40), <1>1, <1>3 DEF ClientsType, ClientType
    <2>3. TypeOK'
      BY <1>1, <1>3, <2>2 DEF TypeOK, ClientsType
    <2>4. client \in ClientsType /\ Held(client, req) /\ req' = req
      BY <1>1, <1>3
    <2>5. Held(client', req')
      BY <2>1, <2>4, UntouchedHeld
    <2> QED BY <2>3, <2>5 DEF HeldInv
  <1> QED BY <1>2, <1>3 DEF FrameClose, ReadFails

LEMMA TailMembers ==
  ASSUME NEW s \in Seq(Requests), s # <<>>
  PROVE  /\ Head(s) \in Requests /\ Head(s) = s[1]
         /\ Tail(s) \in Seq(Requests)
         /\ Len(s) \in Nat \ {0} /\ Len(Tail(s)) = Len(s) - 1
         /\ \A i \in 1 .. Len(Tail(s)) : Tail(s)[i] = s[i + 1]
  OBVIOUS

LEMMA StartRequestHeld ==
  ASSUME HeldInv, NEW c \in Clients, StartRequest(c)
  PROVE  HeldInv'
  <1> DEFINE q == client[c].que
             r == Head(q)
             new == [client[c] EXCEPT !.cur = r, !.que = Tail(q), !.busy = TRUE]
  <1>1. TypeOK /\ Held(client, req)
    BY DEF HeldInv
  <1>2. /\ Listed(c) /\ ~client[c].busy /\ q # <<>> /\ q \in Seq(Requests)
        /\ client' = [client EXCEPT ![c] = new]
        /\ idle' = Minus(idle, 1) /\ UNCHANGED <<conn, awake, crashed>>
    BY <1>1 DEF StartRequest, CanStart, TypeOK, ClientType
  <1>3. \E x \in RequestType : /\ req' = [req EXCEPT ![r] = x]
                               /\ x.st = "current" /\ x.parent = req[r].parent
    <2>1. r \in Requests /\ req[r] \in RequestType
      BY <1>1, <1>2, TailMembers DEF TypeOK
    <2> HIDE DEF r
    <2>2. CASE \E s \in {"query", "exec"} :
                 req' = [req EXCEPT ![r] =
                           [req[r] EXCEPT !.st = "current", !.work = "active",
                                          !.stage = s, !.linked = (s = "query")]]
      <3> PICK s \in {"query", "exec"} :
                 req' = [req EXCEPT ![r] =
                           [req[r] EXCEPT !.st = "current", !.work = "active",
                                          !.stage = s, !.linked = (s = "query")]]
        BY <2>2
      <3> DEFINE b == s = "query"
                 x == [req[r] EXCEPT !.st = "current", !.work = "active",
                                     !.stage = s, !.linked = b]
      <3>1. b \in BOOLEAN
        OBVIOUS
      <3>2. req' = [req EXCEPT ![r] = x]
        OBVIOUS
      <3> HIDE DEF b
      <3>3. x \in RequestType /\ x.st = "current" /\ x.parent = req[r].parent
        BY <2>1, <3>1 DEF RequestType, Stages
      <3> QED BY <3>2, <3>3
    <2>3. CASE req' = [req EXCEPT ![r] =
                         [req[r] EXCEPT !.st = "current", !.work = "done",
                                        !.sentTo = IF client[c].open THEN c ELSE None]]
      <3> DEFINE to == IF client[c].open THEN c ELSE None
                 x == [req[r] EXCEPT !.st = "current", !.work = "done", !.sentTo = to]
      <3>1. to \in Clients \cup {None}
        OBVIOUS
      <3>2. req' = [req EXCEPT ![r] = x]
        BY <2>3
      <3> HIDE DEF to
      <3>3. x \in RequestType /\ x.st = "current" /\ x.parent = req[r].parent
        BY <2>1, <3>1 DEF RequestType
      <3> QED BY <3>2, <3>3
    <2> QED BY <2>2, <2>3 DEF StartRequest, r
  <1>4. PICK x \in RequestType : /\ req' = [req EXCEPT ![r] = x]
                                /\ x.st = "current" /\ x.parent = req[r].parent
    BY <1>3
  <1>5. /\ new \in ClientType /\ new.cur = r /\ new.que = Tail(q) /\ new.busy
        /\ new.st = client[c].st
    <2>1. r \in Requests /\ Tail(q) \in Seq(Requests)
      BY <1>2, TailMembers
    <2> HIDE DEF r, q
    <2> QED BY ZenonT(40), <1>1, <2>1 DEF TypeOK, ClientType
  <1> HIDE DEF new
  <1>6. /\ client'[c] = new /\ client[c].st = "listed"
        /\ \A d \in Clients \ {c} : client'[d] = client[d]
    BY <1>1, <1>2 DEF TypeOK, Listed
  <1>7. /\ r \in Requests /\ r = q[1]
        /\ Len(q) \in Nat \ {0} /\ Len(Tail(q)) = Len(q) - 1
        /\ \A i \in 1 .. Len(Tail(q)) : Tail(q)[i] = q[i + 1]
    BY <1>2, TailMembers
  <1>8. /\ client[c].cur = None
        /\ \A i \in 1 .. Len(q) : req[q[i]].st = "queued" /\ req[q[i]].parent = c
        /\ \A i, j \in 1 .. Len(q) : q[i] = q[j] => i = j
    BY <1>1, <1>2 DEF Held
  <1>9. \A d \in Clients :
          /\ client[d].cur # None => client[d].cur \in Requests
          /\ \A i \in 1 .. Len(client[d].que) : client[d].que[i] \in Requests
    BY <1>1 DEF TypeOK, ClientType
  <1> HIDE DEF r, q
  <1>10. req[r].st = "queued" /\ req[r].parent = c
    BY <1>7, <1>8
  <1>11. /\ req'[r].st = "current" /\ req'[r].parent = c
         /\ \A s \in Requests \ {r} : req'[s] = req[s]
    BY <1>1, <1>4, <1>7, <1>10 DEF TypeOK
  <1>12. \A i \in 1 .. Len(Tail(q)) : Tail(q)[i] # r /\ Tail(q)[i] = q[i + 1]
    BY <1>7, <1>8
  <1>13. \A s : s \in RangeOf(q) => s = r \/ s \in RangeOf(Tail(q))
    <2> SUFFICES ASSUME NEW i \in 1 .. Len(q), q[i] # r
                 PROVE  \E j \in 1 .. Len(Tail(q)) : Tail(q)[j] = q[i]
      BY DEF RangeOf
    <2>1. i # 1 /\ i - 1 \in 1 .. Len(Tail(q))
      BY <1>7
    <2> QED BY <1>7, <2>1
  <1>14. TypeOK'
    <2>1. client' \in ClientsType
      BY <1>1, <1>2, <1>5 DEF TypeOK, ClientsType
    <2>2. req' \in RequestsType
      BY <1>1, <1>4, <1>7 DEF TypeOK, RequestsType
    <2>3. idle' \in Nat
      BY <1>1, <1>2, MinusType DEF TypeOK
    <2> QED BY <1>1, <1>2, <2>1, <2>2, <2>3 DEF TypeOK, ClientsType, RequestsType
  <1>15. ASSUME NEW s \in Requests, req'[s].st \in {"queued", "current"}
         PROVE  /\ req'[s].parent \in Clients
                /\ \/ client'[req'[s].parent].cur = s
                   \/ s \in RangeOf(client'[req'[s].parent].que)
    <2>1. CASE s = r
      BY <1>5, <1>6, <1>11, <2>1
    <2>2. CASE s # r
      <3>1. /\ req'[s] = req[s] /\ req[s].parent \in Clients
            /\ \/ client[req[s].parent].cur = s
               \/ s \in RangeOf(client[req[s].parent].que)
        BY <1>1, <1>11, <1>15, <2>2 DEF Held
      <3>2. CASE req[s].parent = c
        BY <1>5, <1>6, <1>8, <1>13, <2>2, <3>1, <3>2, NoneAssumption DEF q
      <3>3. CASE req[s].parent # c
        BY <1>6, <3>1, <3>3
      <3> QED BY <3>2, <3>3
    <2> QED BY <2>1, <2>2
  <1>16. ASSUME NEW d \in Clients
         PROVE  /\ \A i \in 1 .. Len(client'[d].que) :
                      req'[client'[d].que[i]].st = "queued" /\ req'[client'[d].que[i]].parent = d
                /\ \A i, j \in 1 .. Len(client'[d].que) :
                      client'[d].que[i] = client'[d].que[j] => i = j
                /\ client'[d].cur # None => /\ req'[client'[d].cur].st = "current"
                                           /\ req'[client'[d].cur].parent = d
                                           /\ client'[d].busy
                /\ client'[d].st # "listed" => client'[d].cur = None /\ client'[d].que = <<>>
    <2>1. CASE d = c
      <3>1. \A i \in 1 .. Len(Tail(q)) : i + 1 \in 1 .. Len(q)
        BY <1>7
      <3>2. \A i \in 1 .. Len(Tail(q)) :
              req'[Tail(q)[i]].st = "queued" /\ req'[Tail(q)[i]].parent = c
        BY <1>8, <1>9, <1>11, <1>12, <3>1 DEF q
      <3>3. \A i, j \in 1 .. Len(Tail(q)) : Tail(q)[i] = Tail(q)[j] => i = j
        BY <1>7, <1>8, <1>12, <3>1
      <3>4. client'[d].que = Tail(q) /\ client'[d].cur = r /\ client'[d].busy
            /\ client'[d].st = "listed"
        BY <1>5, <1>6, <2>1
      <3> QED BY <1>11, <2>1, <3>2, <3>3, <3>4
    <2>2. CASE d # c
      <3>1. /\ client[d].cur # None => client[d].cur # r
            /\ \A i \in 1 .. Len(client[d].que) : client[d].que[i] # r
        BY <1>1, <1>10, <2>2 DEF Held
      <3> QED BY <1>1, <1>6, <1>9, <1>11, <2>2, <3>1 DEF Held
    <2> QED BY <2>1, <2>2
  <1>17. Held(client', req')
    BY <1>15, <1>16 DEF Held
  <1> QED BY <1>14, <1>17 DEF HeldInv

\* A change of a request that leaves its holding alone.
LEMMA RequestTouched ==
  ASSUME HeldInv, NEW r \in Requests, NEW x \in RequestType,
         x.st = req[r].st, x.parent = req[r].parent
  PROVE  /\ [req EXCEPT ![r] = x] \in RequestsType
         /\ Held(client, [req EXCEPT ![r] = x])
  <1> DEFINE rq == [req EXCEPT ![r] = x]
  <1>1. client \in ClientsType /\ req \in RequestsType /\ Held(client, req)
    BY DEF HeldInv, TypeOK, ClientsType, RequestsType
  <1>2. rq \in RequestsType
    BY <1>1 DEF RequestsType
  <1>3. \A s \in Requests : rq[s].st = req[s].st /\ rq[s].parent = req[s].parent
    BY <1>1 DEF RequestsType
  <1> HIDE DEF rq
  <1>4. Held(client, rq)
    BY <1>1, <1>3, UntouchedHeld
  <1> QED BY <1>2, <1>4 DEF rq

LEMMA AdvanceHeld ==
  ASSUME HeldInv, NEW r \in Requests, NEW s \in Stages, Advance(r, s)
  PROVE  HeldInv'
  <1> DEFINE b == s = "query"
             x == [req[r] EXCEPT !.stage = s, !.linked = b]
  <1>1. TypeOK
    BY DEF HeldInv
  <1>2. /\ req' = [req EXCEPT ![r] = x]
        /\ idle' = Minus(idle + PolledCount(s), PolledCount(req[r].stage))
        /\ WakesFor(r) /\ UNCHANGED <<client, conn, crashed>>
    BY DEF Advance
  <1>3. b \in BOOLEAN
    OBVIOUS
  <1> HIDE DEF b
  <1>4. x \in RequestType /\ x.st = req[r].st /\ x.parent = req[r].parent
    BY <1>1, <1>3 DEF TypeOK, RequestType
  <1>5. req' \in RequestsType /\ Held(client', req')
    BY <1>2, <1>4, RequestTouched
  <1>6. idle' \in Nat
    BY <1>1, <1>2, MinusType DEF TypeOK, PolledCount
  <1>7. awake' \in BOOLEAN
    BY <1>1, <1>2 DEF TypeOK, WakesFor
  <1>8. TypeOK'
    BY <1>1, <1>2, <1>5, <1>6, <1>7 DEF TypeOK, RequestsType
  <1> QED BY <1>5, <1>8 DEF HeldInv

LEMMA FinishHeld ==
  ASSUME HeldInv, NEW r \in Requests, Finish(r)
  PROVE  HeldInv'
  <1> DEFINE to == IF client[req[r].parent].open THEN req[r].parent ELSE None
             x == [req[r] EXCEPT !.work = "done", !.linked = FALSE, !.sentTo = to]
  <1>1. TypeOK
    BY DEF HeldInv
  <1>2. /\ req' = [req EXCEPT ![r] = x]
        /\ idle' = Minus(idle, PolledCount(req[r].stage))
        /\ WakesFor(r) /\ UNCHANGED <<client, conn, crashed>>
    BY DEF Finish
  <1>3. to \in Clients \cup {None}
    BY <1>1 DEF TypeOK, RequestType
  <1> HIDE DEF to
  <1>4. x \in RequestType /\ x.st = req[r].st /\ x.parent = req[r].parent
    BY <1>1, <1>3 DEF TypeOK, RequestType
  <1>5. req' \in RequestsType /\ Held(client', req')
    BY <1>2, <1>4, RequestTouched
  <1>6. idle' \in Nat
    BY <1>1, <1>2, MinusType DEF TypeOK, PolledCount
  <1>7. awake' \in BOOLEAN
    BY <1>1, <1>2 DEF TypeOK, WakesFor
  <1>8. TypeOK'
    BY <1>1, <1>2, <1>5, <1>6, <1>7 DEF TypeOK, RequestsType
  <1> QED BY <1>5, <1>8 DEF HeldInv

LEMMA PauseHeld ==
  ASSUME HeldInv, NEW r \in Requests, Pause(r)
  PROVE  HeldInv'
  <1> DEFINE c == req[r].parent
             new == [client[c] EXCEPT !.paused = r]
             cl == [client EXCEPT ![c] = new]
             x == [req[r] EXCEPT !.work = "paused", !.linked = FALSE]
             rq == [req EXCEPT ![r] = x]
             i == IF req[r].stage = "copy" THEN Minus(idle, 1) ELSE idle
  <1>1. TypeOK /\ Held(client, req) /\ client \in ClientsType /\ req \in RequestsType
        /\ conn \in ConnsType
    BY DEF HeldInv, TypeOK, ClientsType, RequestsType, ConnsType
  <1>2. /\ req[r].st = "current" /\ Close(c, cl, rq, i)
        /\ WakesFor(r) /\ UNCHANGED crashed
    BY DEF Pause, Fires
  <1>3. c \in Clients
    BY <1>1, <1>2 DEF Held
  <1>4. /\ new \in ClientType /\ new.cur = client[c].cur /\ new.que = client[c].que
        /\ new.busy = client[c].busy /\ new.st = client[c].st
    <2> HIDE DEF c
    <2>1. client[c] \in ClientType
      BY <1>1, <1>3 DEF TypeOK
    <2> QED BY <2>1 DEF ClientType
  <1>5. x \in RequestType /\ x.st = req[r].st /\ x.parent = req[r].parent
    BY <1>1 DEF TypeOK, RequestType
  <1>6. i \in Nat
    BY <1>1, MinusType DEF TypeOK
  <1> HIDE DEF new, x, i
  <1>7. cl \in ClientsType /\ rq \in RequestsType
    BY <1>1, <1>4, <1>5 DEF ClientsType, RequestsType
  <1>8. /\ \A d \in Clients : /\ cl[d].cur = client[d].cur /\ cl[d].que = client[d].que
                              /\ cl[d].busy = client[d].busy /\ cl[d].st = client[d].st
        /\ \A s \in Requests : rq[s].st = req[s].st /\ rq[s].parent = req[s].parent
    BY <1>1, <1>4, <1>5 DEF ClientsType, RequestsType
  <1> HIDE DEF c, cl, rq
  <1>9. Held(cl, rq)
    BY <1>1, <1>8, UntouchedHeld
  <1>10. Held(client', req')
    BY <1>2, <1>3, <1>7, <1>9, CloseHeld
  <1>11. /\ client' \in ClientsType /\ conn' \in ConnsType
         /\ req' \in RequestsType /\ idle' \in Nat
    BY <1>1, <1>2, <1>3, <1>6, <1>7, CloseType
  <1>12. awake' \in BOOLEAN
    BY <1>1, <1>2 DEF TypeOK, WakesFor
  <1>13. TypeOK'
    BY <1>1, <1>2, <1>11, <1>12 DEF TypeOK, ClientsType, ConnsType, RequestsType
  <1> QED BY <1>10, <1>13 DEF HeldInv

LEMMA SendFromEndsHeld ==
  ASSUME HeldInv, NEW c \in Clients, SendFromEnds(c)
  PROVE  HeldInv'
  <1> DEFINE f == client[c].sendFrom
             p == client[c].paused
             new == [client[c] EXCEPT !.sendFrom = None, !.paused = None]
  <1>1. TypeOK /\ Held(client, req) /\ client \in ClientsType /\ req \in RequestsType
    BY DEF HeldInv, TypeOK, ClientsType, RequestsType
  <1>2. /\ client' = [client EXCEPT ![c] = new]
        /\ req' = [r \in Requests |->
                     IF r = p THEN [req[r] EXCEPT !.work = "active"]
                     ELSE IF r = f /\ req[r].work = "done" /\ client[c].open
                          THEN [req[r] EXCEPT !.sentTo = c]
                     ELSE req[r]]
        /\ idle' = Minus(idle + (IF p = None THEN 0 ELSE PolledCount(req[p].stage)), 1)
        /\ UNCHANGED <<conn, awake, crashed>>
    BY DEF SendFromEnds
  <1>3. /\ new \in ClientType /\ new.cur = client[c].cur /\ new.que = client[c].que
        /\ new.busy = client[c].busy /\ new.st = client[c].st
    BY ZenonT(40), <1>1 DEF TypeOK, ClientType
  <1>4. \A r \in Requests : /\ req'[r] \in RequestType
                            /\ req'[r].st = req[r].st /\ req'[r].parent = req[r].parent
    BY <1>1, <1>2 DEF RequestsType, RequestType
  <1>5. req' \in RequestsType
    BY <1>2, <1>4 DEF RequestsType
  <1>6. idle' \in Nat
    <2> DEFINE n == IF p = None THEN 0 ELSE PolledCount(req[p].stage)
    <2>1. n \in Nat /\ idle' = Minus(idle + n, 1)
      BY <1>2 DEF PolledCount
    <2> HIDE DEF n
    <2>2. idle + n \in Nat
      BY <1>1, <2>1 DEF TypeOK
    <2> QED BY <2>1, <2>2, MinusType
  <1> HIDE DEF new
  <1>7. TypeOK'
    BY <1>1, <1>2, <1>3, <1>5, <1>6 DEF TypeOK, RequestsType
  <1>8. \A d \in Clients :
          /\ client'[d].cur = client[d].cur /\ client'[d].que = client[d].que
          /\ client'[d].busy = client[d].busy /\ client'[d].st = client[d].st
    BY <1>1, <1>2, <1>3 DEF ClientsType
  <1>9. Held(client', req')
    BY <1>1, <1>4, <1>8, UntouchedHeld
  <1> QED BY <1>7, <1>9 DEF HeldInv

\* The three ways to end a client at once.
LEMMA ClosedAtOnceHeld ==
  ASSUME HeldInv, NEW c \in Clients, CloseTimeout(c) \/ LoginExpires(c) \/ Logout(c)
  PROVE  HeldInv'
  <1>1. TypeOK /\ Held(client, req) /\ client \in ClientsType /\ req \in RequestsType
        /\ conn \in ConnsType /\ idle \in Nat
    BY DEF HeldInv, TypeOK, ClientsType, ConnsType, RequestsType
  <1>2. /\ CloseImmediate(c, client, req, idle)
        /\ awake' \in {awake, TRUE} /\ UNCHANGED crashed
    BY DEF CloseTimeout, LoginExpires, Logout
  <1>3. Held(client', req')
    BY <1>1, <1>2, CloseImmediateHeld
  <1>4. TypeOK'
    BY <1>1, <1>2, CloseImmediateType DEF TypeOK, ClientsType, ConnsType, RequestsType
  <1> QED BY <1>3, <1>4 DEF HeldInv

\* Steps of the clock and of the browser.
LEMMA OutsideHeld ==
  ASSUME HeldInv, Tick \/ \E c \in Clients : BrowserLeaves(c)
  PROVE  HeldInv'
  <1>1. TypeOK /\ Held(client, req) /\ client \in ClientsType
    BY DEF HeldInv, TypeOK, ClientsType
  <1>2. UNCHANGED <<conn, req, idle, awake, crashed>>
    BY DEF Tick, BrowserLeaves
  <1>3. /\ client' \in ClientsType
        /\ \A d \in Clients :
              /\ client'[d].cur = client[d].cur /\ client'[d].que = client[d].que
              /\ client'[d].busy = client[d].busy /\ client'[d].st = client[d].st
    <2>1. CASE Tick
      <3>1. ASSUME NEW c \in Clients
            PROVE  /\ client'[c] \in ClientType
                   /\ client'[c].cur = client[c].cur /\ client'[c].que = client[c].que
                   /\ client'[c].busy = client[c].busy /\ client'[c].st = client[c].st
        <4>1. CASE client[c].age \in 0 .. Window - 1
          <5> DEFINE a == client[c].age + 1
          <5>1. client'[c] = [client[c] EXCEPT !.age = a]
            BY <1>1, <2>1, <4>1 DEF Tick
          <5>2. a \in 0 .. Window
            BY <4>1, WindowAssumption
          <5> HIDE DEF a
          <5> QED BY <1>1, <5>1, <5>2 DEF ClientsType, ClientType
        <4>2. CASE client[c].age \notin 0 .. Window - 1
          BY <1>1, <2>1, <4>2 DEF Tick, ClientsType
        <4> QED BY <4>1, <4>2
      <3> QED BY <2>1, <3>1 DEF Tick, ClientsType
    <2>2. CASE \E c \in Clients : BrowserLeaves(c)
      <3> PICK c \in Clients : client' = [client EXCEPT ![c].gone = TRUE]
        BY <2>2 DEF BrowserLeaves
      <3> DEFINE new == [client[c] EXCEPT !.gone = TRUE]
      <3>1. /\ new \in ClientType /\ new.cur = client[c].cur /\ new.que = client[c].que
            /\ new.busy = client[c].busy /\ new.st = client[c].st
        BY <1>1 DEF ClientsType, ClientType
      <3>2. client' = [client EXCEPT ![c] = new]
        OBVIOUS
      <3> HIDE DEF new
      <3> QED BY <1>1, <3>1, <3>2 DEF ClientsType
    <2> QED BY <2>1, <2>2
  <1>4. TypeOK'
    BY <1>1, <1>2, <1>3 DEF TypeOK, ClientsType
  <1>5. Held(client', req')
    BY <1>1, <1>2, <1>3, UntouchedHeld
  <1> QED BY <1>4, <1>5 DEF HeldInv

LEMMA StutterHeld ==
  ASSUME HeldInv, UNCHANGED <<client, conn, req>>, idle' \in Nat,
         awake' \in BOOLEAN, crashed' \in BOOLEAN
  PROVE  HeldInv'
  BY DEF HeldInv, TypeOK, Held

LEMMA NextHeld == HeldInv /\ [Next]_vars => HeldInv'
  <1> SUFFICES ASSUME HeldInv, [Next]_vars PROVE HeldInv'
    OBVIOUS
  <1>1. idle \in Nat /\ awake \in BOOLEAN /\ crashed \in BOOLEAN
    BY DEF HeldInv, TypeOK
  <1>2. ASSUME NEW c \in Clients, NEW old \in Clients \cup {None}, Handshake(c, old)
        PROVE  HeldInv'
    <2>1. CASE \E sameCookie, loggedIn \in BOOLEAN : OpenSession(c, old, sameCookie, loggedIn)
      BY <2>1, OpenSessionHeld
    <2>2. CASE \E loggedIn \in BOOLEAN : RecoverSession(c, old, loggedIn)
      <3>1. old \in Clients
        BY <2>2 DEF RecoverSession, Recoverable
      <3> QED BY <2>2, <3>1, RecoverSessionHeld
    <2>3. CASE RecoverThenFail(c, old)
      <3>1. old \in Clients
        BY <2>3 DEF RecoverThenFail, Recoverable
      <3> QED BY <2>3, <3>1, RecoverThenFailHeld
    <2> QED BY <1>2, <2>1, <2>2, <2>3 DEF Handshake
  <1>3. ASSUME NEW c \in Clients, Frame(c)
        PROVE  HeldInv'
    BY <1>3, FrameRequestHeld, FrameConfirmLastHeld, SendFromRequested, FrameCloseHeld
       DEF Frame
  <1>4. ASSUME NEW c \in Clients, Callback(c)
        PROVE  HeldInv'
    <2>1. CASE SendFromFreed(c)
      BY <1>1, <2>1, StutterHeld DEF SendFromFreed
    <2> QED BY <1>4, <2>1, StartRequestHeld, SendFromEndsHeld, ClosedAtOnceHeld DEF Callback
  <1>5. ASSUME NEW r \in Requests, Work(r)
        PROVE  HeldInv'
    BY <1>5, AdvanceHeld, FinishHeld, PauseHeld DEF Work
  <1>6. CASE Sleep \/ Wake \/ UNCHANGED vars
    BY <1>1, <1>6, StutterHeld DEF Sleep, Wake, vars
  <1> QED BY <1>2, <1>3, <1>4, <1>5, <1>6, ConnectionEventHeld, OutsideHeld DEF Next

\* Every client, connection and request stays well-formed, through every
\* close, recovery, pause and resume.
THEOREM TypeCorrect == Spec => []TypeOK
  <1>1. HeldInv => TypeOK
    BY DEF HeldInv
  <1> QED BY InitHeld, NextHeld, <1>1, PTL DEF Spec

\* A request is in the hands of exactly one client, its parent, from
\* create_request to client_request_free.
THEOREM OneHolder == Spec => []RequestHasOneHolder
  <1>1. HeldInv => RequestHasOneHolder
    BY DEF HeldInv, Held, RequestHasOneHolder, Holds
  <1> QED BY InitHeld, NextHeld, <1>1, PTL DEF Spec

-----------------------------------------------------------------------------
(***************************************************************************)
(* More invariants of ClientSession, on top of TypeCorrect and OneHolder:  *)
(* the database connection and the paused work of a session are never      *)
(* lost, shared or left with a freed client.                               *)
(***************************************************************************)

-----------------------------------------------------------------------------
(* Paused work.                                                            *)

\* PausedWorkIsResumable, of any clients and requests.
Resumable(cl, rq) ==
    /\ \A r \in Requests : rq[r].work = "paused" =>
          rq[r].parent \in Clients /\ cl[rq[r].parent].paused = r
    /\ \A c \in Clients : cl[c].paused # None =>
          cl[c].paused = cl[c].cur /\ rq[cl[c].cur].work = "paused"

PausedInv == HeldInv /\ Resumable(client, req)

LEMMA FreedNotPaused ==
  ASSUME NEW q \in RequestType
  PROVE  FreedRequest(q).work # "paused"
  BY DEF FreedRequest, NewRequest, RequestType

LEMMA CloseImmediateResumable ==
  ASSUME NEW c \in Clients, NEW cl \in ClientsType, NEW rq \in RequestsType,
         NEW i, CloseImmediate(c, cl, rq, i), Held(cl, rq), Resumable(cl, rq)
  PROVE  Resumable(client', req')
  <1>1. /\ client' = [cl EXCEPT ![c] = FreedClient]
        /\ req' = [r \in Requests |->
                     IF r = cl[c].cur \/ r \in RangeOf(cl[c].que)
                     THEN FreedRequest(rq[r]) ELSE rq[r]]
    BY DEF CloseImmediate
  <1>2. /\ client'[c].paused = None
        /\ \A d \in Clients \ {c} : client'[d] = cl[d]
    BY <1>1 DEF FreedClient, NewClient, ClientsType
  <1>3. ASSUME NEW r \in Requests, req'[r].work = "paused"
        PROVE  req'[r].parent \in Clients /\ client'[req'[r].parent].paused = r
    <2>1. r # cl[c].cur /\ req'[r] = rq[r]
      BY <1>1, <1>3, FreedNotPaused DEF RequestsType
    <2>2. rq[r].parent \in Clients /\ cl[rq[r].parent].paused = r
      BY <1>3, <2>1 DEF Resumable
    <2>3. rq[r].parent # c
      BY <2>1, <2>2, NoneAssumption DEF Resumable
    <2> QED BY <1>2, <2>1, <2>2, <2>3
  <1>4. ASSUME NEW d \in Clients, client'[d].paused # None
        PROVE  client'[d].paused = client'[d].cur /\ req'[client'[d].cur].work = "paused"
    <2>1. d # c /\ client'[d] = cl[d]
      BY <1>2, <1>4
    <2>2. cl[d].paused = cl[d].cur /\ rq[cl[d].cur].work = "paused" /\ cl[d].cur # None
      BY <1>4, <2>1 DEF Resumable
    <2>3. cl[d].cur \in Requests /\ rq[cl[d].cur].parent = d
      BY <2>2 DEF Held, ClientsType, ClientType
    <2>4. \A r \in Requests : r = cl[c].cur \/ r \in RangeOf(cl[c].que) => rq[r].parent = c
      BY NoneAssumption DEF Held, RangeOf
    <2>5. req'[cl[d].cur] = rq[cl[d].cur]
      BY <1>1, <2>1, <2>3, <2>4
    <2> QED BY <2>1, <2>2, <2>5
  <1> QED BY <1>3, <1>4 DEF Resumable

LEMMA CloseResumable ==
  ASSUME NEW c \in Clients, NEW cl \in ClientsType, NEW rq \in RequestsType,
         NEW i, Close(c, cl, rq, i), Held(cl, rq), Resumable(cl, rq)
  PROVE  Resumable(client', req')
  <1>1. CASE ~Authorized(c, cl) \/ cl[c].cur = None
    BY <1>1, CloseImmediateResumable DEF Close
  <1>2. CASE ~(~Authorized(c, cl) \/ cl[c].cur = None)
    <2>1. client' = [cl EXCEPT ![c] = Lingering(cl[c])] /\ req' = rq
      BY <1>2 DEF Close
    <2>2. \A d \in Clients :
            client'[d].cur = cl[d].cur /\ client'[d].paused = cl[d].paused
      BY <2>1 DEF Lingering, ClientsType, ClientType
    <2> QED BY <2>1, <2>2 DEF Resumable
  <1> QED BY <1>1, <1>2

\* The hand-over of a recovery, before anything is freed.
LEMMA AdoptedResumable ==
  ASSUME PausedInv, NEW c \in Clients, NEW old \in Clients, ~Listed(c), Listed(old),
         NEW cl,
         /\ cl[c].cur = client[old].cur /\ cl[c].paused = client[old].paused
         /\ cl[old].paused = None
         /\ \A d \in Clients \ {c, old} : cl[d] = client[d]
  PROVE  Resumable(cl, Adopted(c, old))
  <1> DEFINE rq == Adopted(c, old)
  <1>1. TypeOK /\ Held(client, req) /\ Resumable(client, req) /\ c # old
    BY DEF PausedInv, HeldInv
  <1>2. \A r \in Requests : /\ rq[r].work = req[r].work
                            /\ rq[r].parent = IF Holds(old, r) THEN c ELSE req[r].parent
    BY <1>1 DEF Adopted, TypeOK, RequestType
  <1>3. client[c].cur = None
    BY <1>1 DEF Held, Listed
  <1>4. \A d \in Clients : client[d].cur \in Requests \cup {None}
    BY <1>1 DEF TypeOK, ClientType
  <1> HIDE DEF rq
  <1>5. ASSUME NEW r \in Requests, rq[r].work = "paused"
        PROVE  rq[r].parent \in Clients /\ cl[rq[r].parent].paused = r
    <2>1. /\ req[r].parent \in Clients /\ client[req[r].parent].paused = r
          /\ client[req[r].parent].cur = r
      BY <1>1, <1>2, <1>5, NoneAssumption DEF Resumable
    <2>2. req[r].parent # c
      BY <1>3, <2>1, NoneAssumption
    <2>3. CASE req[r].parent = old
      BY <1>2, <2>1, <2>3 DEF Holds
    <2>4. CASE req[r].parent # old
      <3>1. ~Holds(old, r)
        BY <1>1, <2>4, NoneAssumption DEF Holds, Held, RangeOf
      <3> QED BY <1>2, <2>1, <2>2, <2>4, <3>1
    <2> QED BY <2>3, <2>4
  <1>6. ASSUME NEW d \in Clients, cl[d].paused # None
        PROVE  cl[d].paused = cl[d].cur /\ rq[cl[d].cur].work = "paused"
    BY <1>1, <1>2, <1>4, <1>6 DEF Resumable
  <1> QED BY <1>5, <1>6 DEF Resumable, rq

\* Steps that touch no paused work.
LEMMA UntouchedResumable ==
  ASSUME HeldInv, Resumable(client, req), NEW cl, NEW rq,
         \A c \in Clients : cl[c].paused # None =>
             cl[c].paused = client[c].paused /\ cl[c].cur = client[c].cur,
         \A c \in Clients : client[c].paused # None => cl[c].paused = client[c].paused,
         \A r \in Requests : (rq[r].work = "paused") <=> (req[r].work = "paused"),
         \A r \in Requests : req[r].work = "paused" => rq[r].parent = req[r].parent
  PROVE  Resumable(cl, rq)
  <1>1. \A c \in Clients : client[c].cur \in Requests \cup {None}
    BY DEF HeldInv, TypeOK, ClientType
  <1> QED BY <1>1, NoneAssumption DEF Resumable

LEMMA NotPausedBefore ==
  ASSUME PausedInv, NEW c \in Clients,
         client[c].cur = None \/ req[client[c].cur].work # "paused"
  PROVE  client[c].paused = None
  BY DEF PausedInv, Resumable

LEMMA InitPaused == Init => PausedInv
  <1> SUFFICES ASSUME Init PROVE PausedInv
    OBVIOUS
  <1>1. Resumable(client, req)
    BY DEF Init, Resumable, NewClient, NewRequest
  <1> QED BY <1>1, InitHeld DEF PausedInv

LEMMA HandshakePaused ==
  ASSUME PausedInv, NEW c \in Clients, NEW old \in Clients \cup {None}, Handshake(c, old)
  PROVE  Resumable(client', req')
  <1>1. HeldInv /\ TypeOK /\ Held(client, req) /\ Resumable(client, req)
    BY DEF PausedInv, HeldInv
  <1>2. CASE \E sameCookie, loggedIn \in BOOLEAN : OpenSession(c, old, sameCookie, loggedIn)
    <2> PICK sameCookie \in BOOLEAN, loggedIn \in BOOLEAN :
               OpenSession(c, old, sameCookie, loggedIn)
      BY <1>2
    <2> DEFINE new == [Upgraded(old, loggedIn) EXCEPT !.conn = IF loggedIn THEN c ELSE None]
    <2>1. /\ client' = [client EXCEPT ![c] = new] /\ req' = req
          /\ client[c].st = "none"
      BY DEF OpenSession
    <2>2. new.paused = None
      BY UpgradedType DEF ClientType
    <2> HIDE DEF new
    <2>3. client[c].paused = None
      BY <1>1, <2>1, NotPausedBefore DEF Held
    <2>4. client'[c].paused = None /\ \A d \in Clients \ {c} : client'[d] = client[d]
      BY <1>1, <2>1, <2>2 DEF TypeOK
    <2> QED BY ZenonT(40), <1>1, <2>1, <2>3, <2>4, UntouchedResumable
  <1>3. CASE \E loggedIn \in BOOLEAN : RecoverSession(c, old, loggedIn)
    <2> PICK loggedIn \in BOOLEAN : RecoverSession(c, old, loggedIn)
      BY <1>3
    <2> DEFINE new == Moved(Upgraded(old, loggedIn), old)
               cl == [client EXCEPT ![c] = new, ![old] = Emptied(old)]
    <2>1. /\ client[c].st = "none" /\ Listed(old) /\ c # old /\ old \in Clients
          /\ CloseImmediate(old, cl, Adopted(c, old), idle)
      BY DEF RecoverSession, Recoverable, Listed
    <2>2. /\ new \in ClientType /\ new.cur = client[old].cur /\ new.que = client[old].que
          /\ new.busy = client[old].busy /\ new.st = "listed"
          /\ new.paused = client[old].paused
      BY <1>1, <2>1, UpgradedType, MovedType
    <2>3. /\ Emptied(old) \in ClientType /\ Emptied(old).cur = None
          /\ Emptied(old).que = <<>> /\ Emptied(old).paused = None
      BY <1>1, <2>1, EmptiedType
    <2> HIDE DEF new
    <2>4. /\ cl \in ClientsType /\ Adopted(c, old) \in RequestsType
          /\ cl[c] = new /\ cl[old] = Emptied(old)
          /\ \A d \in Clients \ {c, old} : cl[d] = client[d]
      BY <1>1, <2>1, <2>2, <2>3, AdoptedType DEF TypeOK, ClientsType
    <2> HIDE DEF cl
    <2>5. Held(cl, Adopted(c, old))
      BY <1>1, <2>1, <2>2, <2>3, <2>4, AdoptedHeld DEF Listed
    <2>6. Resumable(cl, Adopted(c, old))
      BY <2>1, <2>2, <2>3, <2>4, AdoptedResumable DEF Listed
    <2> QED BY <2>1, <2>4, <2>5, <2>6, CloseImmediateResumable
  <1>4. CASE RecoverThenFail(c, old)
    <2> DEFINE up == Upgraded(old, TRUE)
               moved == Moved(up, old)
               new == [moved EXCEPT !.gone = TRUE]
               cl == [client EXCEPT ![c] = new, ![old] = FreedClient]
               i == Minus(idle, IF client[old].sendFrom = None THEN 0 ELSE 1)
    <2>1. /\ client[c].st = "none" /\ Listed(old) /\ c # old /\ old \in Clients
          /\ CloseImmediate(c, cl, Adopted(c, old), i)
      BY <1>4 DEF RecoverThenFail, Recoverable, Listed
    <2>2. up \in ClientType /\ up.st = "listed"
      BY UpgradedType
    <2> HIDE DEF up
    <2>3. /\ moved \in ClientType /\ moved.cur = client[old].cur /\ moved.que = client[old].que
          /\ moved.busy = client[old].busy /\ moved.st = "listed"
          /\ moved.paused = client[old].paused
      BY <1>1, <2>1, <2>2, MovedType
    <2> HIDE DEF moved
    <2>4. /\ new \in ClientType /\ new.cur = client[old].cur /\ new.que = client[old].que
          /\ new.busy = client[old].busy /\ new.st = "listed"
          /\ new.paused = client[old].paused
      BY <2>3 DEF ClientType
    <2>5. FreedClient.cur = None /\ FreedClient.que = <<>> /\ FreedClient.paused = None
      BY DEF FreedClient, NewClient
    <2> HIDE DEF new
    <2>6. /\ cl \in ClientsType /\ Adopted(c, old) \in RequestsType
          /\ cl[c] = new /\ cl[old] = FreedClient
          /\ \A d \in Clients \ {c, old} : cl[d] = client[d]
      BY <1>1, <2>1, <2>4, NewTypes, AdoptedType DEF TypeOK, ClientsType
    <2> HIDE DEF cl, i
    <2>7. Held(cl, Adopted(c, old))
      BY <1>1, <2>1, <2>4, <2>5, <2>6, AdoptedHeld DEF Listed
    <2>8. Resumable(cl, Adopted(c, old))
      BY <2>1, <2>4, <2>5, <2>6, AdoptedResumable DEF Listed
    <2> QED BY <2>1, <2>6, <2>7, <2>8, CloseImmediateResumable
  <1> QED BY <1>2, <1>3, <1>4 DEF Handshake

LEMMA ConnectionEventPaused ==
  ASSUME PausedInv, NEW k \in Clients, ConnectionEvent(k)
  PROVE  Resumable(client', req')
  <1>1. HeldInv /\ TypeOK /\ Resumable(client, req)
    BY DEF PausedInv, HeldInv
  <1>2. CASE \E phase \in {"up", "bad"} : Connected(k, phase)
    <2>1. req' = req
      BY <1>2 DEF Connected
    <2>2. \A d \in Clients :
            client'[d].cur = client[d].cur /\ client'[d].paused = client[d].paused
      BY <1>1, <1>2 DEF Connected, TypeOK, ClientType
    <2> QED BY <1>1, <2>1, <2>2, UntouchedResumable
  <1>3. CASE ConnectedToFreed(k)
    BY <1>1, <1>3 DEF ConnectedToFreed
  <1> QED BY <1>2, <1>3 DEF ConnectionEvent

LEMMA FramePaused ==
  ASSUME PausedInv, NEW c \in Clients, Frame(c)
  PROVE  Resumable(client', req')
  <1>1. HeldInv /\ TypeOK /\ Held(client, req) /\ Resumable(client, req)
        /\ client \in ClientsType /\ req \in RequestsType
    BY DEF PausedInv, HeldInv, TypeOK, ClientsType, RequestsType
  <1>2. CASE \E r \in Requests : FrameRequest(c, r)
    <2> PICK r \in Requests : FrameRequest(c, r)
      BY <1>2
    <2>1. \A d \in Clients :
            client'[d].cur = client[d].cur /\ client'[d].paused = client[d].paused
      BY <1>1 DEF FrameRequest, TypeOK, ClientType
    <2>2. /\ req[r].st = "none" /\ req'[r].work = req[r].work
          /\ \A s \in Requests \ {r} : req'[s] = req[s]
      BY <1>1 DEF FrameRequest, TypeOK, RequestType
    <2>3. req[r].work # "paused"
      BY <1>1, <2>2, NoneAssumption DEF Resumable, Held
    <2> QED BY <1>1, <2>1, <2>2, <2>3, UntouchedResumable
  <1>3. CASE FrameConfirmLast(c)
    <2> DEFINE r == client[c].cur
    <2>1. /\ r \in Requests /\ req[r].work = "done"
          /\ req' = [req EXCEPT ![r] = FreedRequest(req[r])]
          /\ client' = [client EXCEPT ![c].cur = None, ![c].busy = FALSE]
      BY <1>1, <1>3 DEF FrameConfirmLast, TypeOK, ClientType
    <2>2. client[c].paused = None
      BY <2>1, NotPausedBefore
    <2>3. /\ client'[c].paused = None
          /\ \A d \in Clients \ {c} : client'[d] = client[d]
      BY <1>1, <2>1, <2>2 DEF TypeOK, ClientType
    <2>4. /\ req'[r].work # "paused"
          /\ \A s \in Requests \ {r} : req'[s] = req[s]
      BY <1>1, <2>1, FreedNotPaused DEF RequestsType
    <2>5. req[r].work # "paused"
      BY <2>1
    <2> HIDE DEF r
    <2>6. /\ \A d \in Clients : client'[d].paused # None =>
               client'[d].paused = client[d].paused /\ client'[d].cur = client[d].cur
          /\ \A d \in Clients : client[d].paused # None => client'[d].paused = client[d].paused
      BY <2>2, <2>3
    <2>7. \A s \in Requests :
            /\ (req'[s].work = "paused") <=> (req[s].work = "paused")
            /\ req[s].work = "paused" => req'[s].parent = req[s].parent
      BY <2>4, <2>5
    <2> QED BY <1>1, <2>6, <2>7, UntouchedResumable
  <1>4. CASE FrameSendFrom(c)
    <2>1. req' = req
      BY <1>4 DEF FrameSendFrom
    <2>2. \A d \in Clients :
            client'[d].cur = client[d].cur /\ client'[d].paused = client[d].paused
      BY <1>1, <1>4 DEF FrameSendFrom, TypeOK, ClientType
    <2> QED BY <1>1, <2>1, <2>2, UntouchedResumable
  <1>5. CASE Close(c, client, req, idle)
    BY <1>1, <1>5, CloseResumable
  <1>6. CASE client' = [client EXCEPT ![c].open = FALSE] /\ UNCHANGED <<conn, req, idle>>
    <2>1. \A d \in Clients :
            client'[d].cur = client[d].cur /\ client'[d].paused = client[d].paused
      BY <1>1, <1>6 DEF TypeOK, ClientType
    <2>2. req' = req
      BY <1>6
    <2> QED BY <1>1, <2>1, <2>2, UntouchedResumable
  <1> QED BY <1>2, <1>3, <1>4, <1>5, <1>6 DEF Frame, FrameClose, ReadFails

LEMMA CallbackPaused ==
  ASSUME PausedInv, NEW c \in Clients, Callback(c)
  PROVE  Resumable(client', req')
  <1>1. HeldInv /\ TypeOK /\ Held(client, req) /\ Resumable(client, req)
        /\ client \in ClientsType /\ req \in RequestsType
    BY DEF PausedInv, HeldInv, TypeOK, ClientsType, RequestsType
  <1>2. CASE StartRequest(c)
    <2> DEFINE r == Head(client[c].que)
    <2>1. /\ client[c].que \in Seq(Requests) /\ client[c].que # <<>> /\ ~client[c].busy
          /\ client' = [client EXCEPT ![c].cur = r, ![c].que = Tail(@), ![c].busy = TRUE]
      BY <1>1, <1>2 DEF StartRequest, CanStart, TypeOK, ClientType
    <2>2. /\ r \in Requests /\ r = client[c].que[1] /\ 1 \in 1 .. Len(client[c].que)
      BY <2>1, TailMembers
    <2>3. client[c].cur = None /\ req[r].st = "queued"
      BY <1>1, <2>1, <2>2 DEF Held
    <2>4. client[c].paused = None
      BY <2>3, NotPausedBefore
    <2>5. req[r].work # "paused"
      <3>1. \A d \in Clients : client[d].cur # None => req[client[d].cur].st = "current"
        BY <1>1 DEF Held
      <3> QED BY <1>1, <2>2, <2>3, <3>1, NoneAssumption DEF Resumable
    <2>6. /\ client'[c].paused = None
          /\ \A d \in Clients \ {c} : client'[d] = client[d]
      BY <1>1, <2>1, <2>4 DEF TypeOK, ClientType
    <2>7. /\ req'[r].work # "paused"
          /\ \A s \in Requests \ {r} : req'[s] = req[s]
      <3>1. PICK x : req' = [req EXCEPT ![r] = x] /\ x.work \in {"active", "done"}
        <4>1. req[r] \in RequestType
          BY <1>1, <2>2 DEF TypeOK
        <4> HIDE DEF r
        <4>2. CASE \E s \in {"query", "exec"} :
                     req' = [req EXCEPT ![r] =
                               [req[r] EXCEPT !.st = "current", !.work = "active",
                                              !.stage = s, !.linked = (s = "query")]]
          <5> PICK s \in {"query", "exec"} :
                     req' = [req EXCEPT ![r] =
                               [req[r] EXCEPT !.st = "current", !.work = "active",
                                              !.stage = s, !.linked = (s = "query")]]
            BY <4>2
          <5> WITNESS [req[r] EXCEPT !.st = "current", !.work = "active",
                                     !.stage = s, !.linked = (s = "query")]
          <5> QED BY <4>1 DEF RequestType
        <4>3. CASE req' = [req EXCEPT ![r] =
                             [req[r] EXCEPT !.st = "current", !.work = "done",
                                            !.sentTo = IF client[c].open THEN c ELSE None]]
          <5> WITNESS [req[r] EXCEPT !.st = "current", !.work = "done",
                                     !.sentTo = IF client[c].open THEN c ELSE None]
          <5> QED BY <4>1, <4>3 DEF RequestType
        <4> QED BY <1>2, <4>2, <4>3 DEF StartRequest, r
      <3> QED BY <1>1, <2>2, <3>1 DEF TypeOK
    <2> QED BY <1>1, <2>4, <2>5, <2>6, <2>7, UntouchedResumable
  <1>3. CASE SendFromEnds(c)
    <2> DEFINE p == client[c].paused
    <2>1. /\ client'[c].paused = None /\ client'[c].cur = client[c].cur
          /\ \A d \in Clients \ {c} : client'[d] = client[d]
      BY <1>1, <1>3 DEF SendFromEnds, TypeOK, ClientType
    <2>2. \A r \in Requests :
            /\ req'[r].work = IF r = p THEN "active" ELSE req[r].work
            /\ req'[r].parent = req[r].parent
      BY <1>1, <1>3 DEF SendFromEnds, TypeOK, RequestType
    <2>3. ASSUME NEW r \in Requests, req'[r].work = "paused"
          PROVE  req'[r].parent \in Clients /\ client'[req'[r].parent].paused = r
      BY <1>1, <2>1, <2>2, <2>3 DEF Resumable
    <2>4. ASSUME NEW d \in Clients, client'[d].paused # None
          PROVE  client'[d].paused = client'[d].cur /\ req'[client'[d].cur].work = "paused"
      <3>1. d # c /\ client'[d] = client[d]
        BY <2>1, <2>4
      <3>2. client[d].paused = client[d].cur /\ req[client[d].cur].work = "paused"
            /\ client[d].cur \in Requests /\ req[client[d].cur].parent = d
        BY <1>1, <2>4, <3>1 DEF Resumable, Held, TypeOK, ClientType
      <3>3. client[d].cur # p
        BY <1>1, <3>1, <3>2, NoneAssumption DEF Resumable, Held
      <3> QED BY <2>2, <3>1, <3>2, <3>3
    <2> QED BY <2>3, <2>4 DEF Resumable
  <1>4. CASE SendFromFreed(c)
    BY <1>1, <1>4 DEF SendFromFreed
  <1>5. CASE CloseTimeout(c) \/ LoginExpires(c) \/ Logout(c)
    BY <1>1, <1>5, CloseImmediateResumable DEF CloseTimeout, LoginExpires, Logout
  <1> QED BY <1>2, <1>3, <1>4, <1>5 DEF Callback

LEMMA WorkPaused ==
  ASSUME PausedInv, NEW r \in Requests, Work(r)
  PROVE  Resumable(client', req')
  <1>1. HeldInv /\ TypeOK /\ Held(client, req) /\ Resumable(client, req)
        /\ client \in ClientsType /\ req \in RequestsType
    BY DEF PausedInv, HeldInv, TypeOK, ClientsType, RequestsType
  <1>2. ASSUME UNCHANGED client, req[r].work = "active", req'[r].work # "paused",
               \A s \in Requests \ {r} : req'[s] = req[s]
        PROVE  Resumable(client', req')
    <2>1. \A s \in Requests :
            /\ (req'[s].work = "paused") <=> (req[s].work = "paused")
            /\ req[s].work = "paused" => req'[s].parent = req[s].parent
      BY <1>2
    <2>2. \A d \in Clients :
            client'[d].cur = client[d].cur /\ client'[d].paused = client[d].paused
      BY <1>2
    <2> QED BY <1>1, <2>1, <2>2, UntouchedResumable
  <1>3. CASE \E s \in Stages : Advance(r, s)
    <2>1. /\ UNCHANGED client /\ req[r].work = "active" /\ req'[r].work # "paused"
          /\ \A s \in Requests \ {r} : req'[s] = req[s]
      BY <1>1, <1>3 DEF Advance, Proceeds, Fires, RequestsType, RequestType
    <2> QED BY <1>2, <2>1
  <1>4. CASE Finish(r)
    <2>1. /\ UNCHANGED client /\ req[r].work = "active" /\ req'[r].work # "paused"
          /\ \A s \in Requests \ {r} : req'[s] = req[s]
      BY <1>1, <1>4 DEF Finish, Proceeds, Fires, RequestsType, RequestType
    <2> QED BY <1>2, <2>1
  <1>5. CASE Pause(r)
    <2> DEFINE c == req[r].parent
               new == [client[c] EXCEPT !.paused = r]
               cl == [client EXCEPT ![c] = new]
               x == [req[r] EXCEPT !.work = "paused", !.linked = FALSE]
               rq == [req EXCEPT ![r] = x]
               i == IF req[r].stage = "copy" THEN Minus(idle, 1) ELSE idle
    <2>1. /\ req[r].st = "current" /\ req[r].work = "active" /\ Close(c, cl, rq, i)
      BY <1>5 DEF Pause, Fires
    <2>2. c \in Clients /\ client[c].cur = r
      BY <1>1, <2>1 DEF Held, RangeOf
    <2>3. client[c].paused = None
      BY <2>1, <2>2, NotPausedBefore
    <2> HIDE DEF c, i
    <2>4. /\ new \in ClientType /\ new.cur = r /\ new.que = client[c].que
          /\ new.busy = client[c].busy /\ new.st = client[c].st /\ new.paused = r
      <3>1. client[c] \in ClientType
        BY <1>1, <2>2 DEF ClientsType
      <3> QED BY <2>2, <3>1 DEF ClientType
    <2>5. /\ x \in RequestType /\ x.st = req[r].st /\ x.parent = c /\ x.work = "paused"
      BY <1>1 DEF RequestsType, RequestType, c
    <2> HIDE DEF new, x
    <2>6. /\ cl \in ClientsType /\ rq \in RequestsType
          /\ cl[c] = new /\ \A d \in Clients \ {c} : cl[d] = client[d]
          /\ rq[r] = x /\ \A s \in Requests \ {r} : rq[s] = req[s]
      BY <1>1, <2>2, <2>4, <2>5 DEF ClientsType, RequestsType
    <2> HIDE DEF cl, rq
    <2>7. /\ \A d \in Clients : /\ cl[d].cur = client[d].cur /\ cl[d].que = client[d].que
                                /\ cl[d].busy = client[d].busy /\ cl[d].st = client[d].st
          /\ \A s \in Requests : rq[s].st = req[s].st /\ rq[s].parent = req[s].parent
      BY <2>2, <2>4, <2>5, <2>6 DEF c
    <2>8. Held(cl, rq)
      BY <1>1, <2>7, UntouchedHeld
    <2>9. ASSUME NEW s \in Requests, rq[s].work = "paused"
          PROVE  rq[s].parent \in Clients /\ cl[rq[s].parent].paused = s
      BY <1>1, <2>2, <2>3, <2>4, <2>5, <2>6, <2>9, NoneAssumption DEF Resumable
    <2>10. ASSUME NEW d \in Clients, cl[d].paused # None
           PROVE  cl[d].paused = cl[d].cur /\ rq[cl[d].cur].work = "paused"
      <3>1. CASE d = c
        BY <2>4, <2>5, <2>6, <3>1
      <3>2. CASE d # c
        <4>1. /\ client[d].paused = client[d].cur /\ req[client[d].cur].work = "paused"
              /\ client[d].cur \in Requests
          BY <1>1, <2>6, <2>10, <3>2 DEF Resumable, ClientsType, ClientType
        <4> QED BY <2>1, <2>6, <3>2, <4>1
      <3> QED BY <3>1, <3>2
    <2>11. Resumable(cl, rq)
      BY <2>9, <2>10 DEF Resumable
    <2> QED BY <2>1, <2>2, <2>6, <2>8, <2>11, CloseResumable
  <1> QED BY <1>3, <1>4, <1>5 DEF Work

LEMMA OutsidePaused ==
  ASSUME PausedInv, Tick \/ \E c \in Clients : BrowserLeaves(c)
  PROVE  Resumable(client', req')
  <1>1. HeldInv /\ TypeOK /\ Resumable(client, req)
    BY DEF PausedInv, HeldInv
  <1>2. \A d \in Clients :
          client'[d].cur = client[d].cur /\ client'[d].paused = client[d].paused
    <2>1. CASE Tick
      BY <1>1, <2>1 DEF Tick, TypeOK, ClientType
    <2>2. CASE \E c \in Clients : BrowserLeaves(c)
      BY <1>1, <2>2 DEF BrowserLeaves, TypeOK, ClientType
    <2> QED BY <2>1, <2>2
  <1>3. req' = req
    BY DEF Tick, BrowserLeaves
  <1> QED BY <1>1, <1>2, <1>3, UntouchedResumable

LEMMA NextPaused == PausedInv /\ [Next]_vars => PausedInv'
  <1> SUFFICES ASSUME PausedInv, [Next]_vars PROVE PausedInv'
    OBVIOUS
  <1>1. HeldInv'
    BY NextHeld DEF PausedInv
  <1> SUFFICES Resumable(client', req')
    BY <1>1 DEF PausedInv
  <1>2. CASE Sleep \/ Wake \/ UNCHANGED vars
    BY <1>2 DEF Sleep, Wake, vars, PausedInv, Resumable
  <1>3. CASE Tick \/ \E c \in Clients : BrowserLeaves(c)
    BY <1>3, OutsidePaused
  <1>4. CASE Next /\ ~(Sleep \/ Wake \/ Tick \/ \E c \in Clients : BrowserLeaves(c))
    BY <1>4, HandshakePaused, ConnectionEventPaused, FramePaused, CallbackPaused, WorkPaused
       DEF Next
  <1> QED BY <1>2, <1>3, <1>4

\* Work that was paused for want of a browser stays where the next SEND FROM
\* looks for it (client_paused_request), through every close and recovery.
THEOREM WorkIsResumable == Spec => []PausedWorkIsResumable
  <1>1. PausedInv => PausedWorkIsResumable
    BY DEF PausedInv, Resumable, PausedWorkIsResumable
  <1> QED BY InitPaused, NextPaused, <1>1, PTL DEF Spec

-----------------------------------------------------------------------------
(* Database connections.                                                   *)

LivePhase(k, cn) == cn[k].phase \in {"connecting", "up", "bad"}

\* ConnectionHasOneHolder, of any clients and connections, and what makes it
\* inductive: a connection is named after the client that opened it.
Connection(cl, cn) ==
    /\ \A k \in Clients : LivePhase(k, cn) =>
          \E c \in Clients : cl[c].st = "listed" /\ cl[c].conn = k
    /\ \A c \in Clients : cl[c].conn # None =>
          cl[c].st = "listed" /\ LivePhase(cl[c].conn, cn)
    /\ \A c, d \in Clients : cl[c].conn # None /\ cl[c].conn = cl[d].conn => c = d
    /\ \A k \in Clients : cn[k].phase = "connecting" => cn[k].target = k
    /\ \A k \in Clients : cl[k].st = "none" => cn[k].phase = "none"

\* The client that waits for its connection attempt still has the connection,
\* or is gone.
Waits(k, cl, cn) ==
    cn[k].phase = "connecting" /\ cl[k].st = "listed" => cl[k].conn = k

ConnInv ==
    /\ HeldInv
    /\ Connection(client, conn)
    /\ \A k \in Clients : Waits(k, client, conn)

LEMMA CloseImmediateConn ==
  ASSUME NEW c \in Clients, NEW cl \in ClientsType, NEW rq, NEW i,
         conn \in ConnsType, CloseImmediate(c, cl, rq, i),
         Connection(cl, conn), \A k \in Clients \ {c} : Waits(k, cl, conn)
  PROVE  Connection(client', conn') /\ \A k \in Clients : Waits(k, client', conn')
  <1>1. /\ client' = [cl EXCEPT ![c] = FreedClient]
        /\ conn' = [k \in Clients |->
                      IF k = cl[c].conn THEN [phase |-> "finished", target |-> None]
                      ELSE conn[k]]
    BY DEF CloseImmediate
  <1>2. /\ client'[c].st = "freed" /\ client'[c].conn = None
        /\ \A d \in Clients \ {c} : client'[d] = cl[d]
    BY <1>1 DEF FreedClient, NewClient, ClientsType
  <1>3. \A k \in Clients :
          IF k = cl[c].conn THEN conn'[k].phase = "finished" ELSE conn'[k] = conn[k]
    BY <1>1
  <1>4. \A d \in Clients : cl[d].conn \in Clients \cup {None}
    BY DEF ClientsType, ClientType
  <1>5. ASSUME NEW k \in Clients, LivePhase(k, conn')
        PROVE  \E d \in Clients : client'[d].st = "listed" /\ client'[d].conn = k
    <2>1. k # cl[c].conn /\ LivePhase(k, conn)
      BY <1>3, <1>5 DEF LivePhase
    <2> QED BY <1>2, <2>1 DEF Connection
  <1>6. ASSUME NEW d \in Clients, client'[d].conn # None
        PROVE  client'[d].st = "listed" /\ LivePhase(client'[d].conn, conn')
    <2>1. d # c /\ client'[d] = cl[d]
      BY <1>2, <1>6
    <2>2. /\ cl[d].st = "listed" /\ LivePhase(cl[d].conn, conn)
          /\ cl[d].conn # cl[c].conn /\ cl[d].conn \in Clients
      BY <1>4, <1>6, <2>1 DEF Connection
    <2> QED BY <1>3, <2>1, <2>2 DEF LivePhase
  <1>7. \A d, e \in Clients :
          client'[d].conn # None /\ client'[d].conn = client'[e].conn => d = e
    BY <1>2 DEF Connection
  <1>8. /\ \A k \in Clients : conn'[k].phase = "connecting" => conn'[k].target = k
        /\ \A k \in Clients : client'[k].st = "none" => conn'[k].phase = "none"
    <2>1. \A k \in Clients : k = cl[c].conn => cl[k].st # "none"
      <3> SUFFICES ASSUME cl[c].conn \in Clients, cl[cl[c].conn].st = "none" PROVE FALSE
        OBVIOUS
      <3>1. LivePhase(cl[c].conn, conn)
        BY NoneAssumption DEF Connection
      <3>2. conn[cl[c].conn].phase = "none"
        BY DEF Connection
      <3> QED BY <3>1, <3>2 DEF LivePhase
    <2> QED BY <1>2, <1>3, <2>1 DEF Connection
  <1>9. \A k \in Clients : Waits(k, client', conn')
    BY <1>2, <1>3 DEF Waits
  <1> QED BY <1>5, <1>6, <1>7, <1>8, <1>9 DEF Connection

\* Steps that touch no connection.
LEMMA UntouchedConn ==
  ASSUME NEW cl, NEW cn, Connection(client, conn), \A k \in Clients : Waits(k, client, conn),
         \A d \in Clients : cl[d].st = client[d].st /\ cl[d].conn = client[d].conn,
         cn = conn
  PROVE  Connection(cl, cn) /\ \A k \in Clients : Waits(k, cl, cn)
  BY DEF Connection, Waits

LEMMA CloseConn ==
  ASSUME NEW c \in Clients, NEW cl \in ClientsType, NEW rq, NEW i,
         conn \in ConnsType, Close(c, cl, rq, i),
         Connection(cl, conn), \A k \in Clients : Waits(k, cl, conn)
  PROVE  Connection(client', conn') /\ \A k \in Clients : Waits(k, client', conn')
  <1>1. CASE ~Authorized(c, cl) \/ cl[c].cur = None
    BY <1>1, CloseImmediateConn DEF Close
  <1>2. CASE ~(~Authorized(c, cl) \/ cl[c].cur = None)
    <2>1. client' = [cl EXCEPT ![c] = Lingering(cl[c])] /\ conn' = conn
      BY <1>2 DEF Close
    <2>2. \A d \in Clients : client'[d].st = cl[d].st /\ client'[d].conn = cl[d].conn
      BY <2>1 DEF Lingering, ClientsType, ClientType
    <2> QED BY <2>1, <2>2 DEF Connection, Waits
  <1> QED BY <1>1, <1>2

LEMMA InitConn == Init => ConnInv
  <1> SUFFICES ASSUME Init PROVE ConnInv
    OBVIOUS
  <1>1. Connection(client, conn) /\ \A k \in Clients : Waits(k, client, conn)
    BY DEF Init, Connection, Waits, LivePhase, NewClient
  <1> QED BY <1>1, InitHeld DEF ConnInv

\* The hand-over of a recovery, before anything is freed.
LEMMA AdoptedConn ==
  ASSUME ConnInv, NEW c \in Clients, NEW old \in Clients, client[c].st = "none", Listed(old),
         NEW cl,
         cl[c].conn = client[old].conn, cl[c].st = "listed",
         cl[old].conn = None, cl[old].st \in {"listed", "freed"},
         \A d \in Clients \ {c, old} : cl[d] = client[d]
  PROVE  Connection(cl, conn) /\ \A k \in Clients \ {old} : Waits(k, cl, conn)
  <1>1. Connection(client, conn) /\ \A k \in Clients : Waits(k, client, conn) /\ c # old
    BY DEF ConnInv, Listed
  <1>2. client[c].conn = None /\ conn[c].phase = "none"
    BY <1>1 DEF Connection
  <1>3. ASSUME NEW k \in Clients, LivePhase(k, conn)
        PROVE  \E d \in Clients : cl[d].st = "listed" /\ cl[d].conn = k
    BY <1>1, <1>2, <1>3, NoneAssumption DEF Connection
  <1>4. ASSUME NEW d \in Clients, cl[d].conn # None
        PROVE  cl[d].st = "listed" /\ LivePhase(cl[d].conn, conn)
    BY <1>1, <1>4 DEF Connection
  <1>5. \A d, e \in Clients : cl[d].conn # None /\ cl[d].conn = cl[e].conn => d = e
    BY <1>1 DEF Connection
  <1>6. /\ \A k \in Clients : conn[k].phase = "connecting" => conn[k].target = k
        /\ \A k \in Clients : cl[k].st = "none" => conn[k].phase = "none"
    BY <1>1 DEF Connection
  <1>7. \A k \in Clients \ {old} : Waits(k, cl, conn)
    BY <1>1, <1>2 DEF Waits
  <1> QED BY <1>3, <1>4, <1>5, <1>6, <1>7 DEF Connection

LEMMA HandshakeConn ==
  ASSUME ConnInv, NEW c \in Clients, NEW old \in Clients \cup {None}, Handshake(c, old)
  PROVE  Connection(client', conn') /\ \A k \in Clients : Waits(k, client', conn')
  <1>1. /\ TypeOK /\ Connection(client, conn) /\ conn \in ConnsType
        /\ \A k \in Clients : Waits(k, client, conn)
    BY DEF ConnInv, HeldInv, TypeOK, ConnsType
  <1>2. CASE \E sameCookie, loggedIn \in BOOLEAN : OpenSession(c, old, sameCookie, loggedIn)
    <2> PICK sameCookie \in BOOLEAN, loggedIn \in BOOLEAN :
               OpenSession(c, old, sameCookie, loggedIn)
      BY <1>2
    <2> DEFINE new == [Upgraded(old, loggedIn) EXCEPT !.conn = IF loggedIn THEN c ELSE None]
    <2>1. /\ client' = [client EXCEPT ![c] = new] /\ client[c].st = "none"
          /\ conn' = IF loggedIn
                     THEN [conn EXCEPT ![c] = [phase |-> "connecting", target |-> c]]
                     ELSE conn
      BY DEF OpenSession
    <2>2. new.st = "listed" /\ new.conn = IF loggedIn THEN c ELSE None
      BY UpgradedType DEF ClientType
    <2> HIDE DEF new
    <2>3. client'[c] = new /\ \A d \in Clients \ {c} : client'[d] = client[d]
      BY <1>1, <2>1 DEF TypeOK
    <2>4. client[c].conn = None /\ conn[c].phase = "none"
      BY <1>1, <2>1 DEF Connection
    <2>5. \A d \in Clients : client[d].conn # c
      BY <1>1, <2>4, NoneAssumption DEF Connection, LivePhase
    <2>6. CASE loggedIn
      <3>1. /\ conn'[c].phase = "connecting" /\ conn'[c].target = c
            /\ \A k \in Clients \ {c} : conn'[k] = conn[k]
        BY <1>1, <2>1, <2>6 DEF ConnsType
      <3>2. \A d \in Clients : client[d].conn # None => client[d].conn \in Clients \ {c}
        BY <1>1, <2>5 DEF TypeOK, ClientType
      <3>3. ASSUME NEW k \in Clients, LivePhase(k, conn')
            PROVE  \E d \in Clients : client'[d].st = "listed" /\ client'[d].conn = k
        BY <1>1, <2>1, <2>2, <2>3, <2>6, <3>1, <3>3 DEF Connection, LivePhase
      <3>4. ASSUME NEW d \in Clients, client'[d].conn # None
            PROVE  client'[d].st = "listed" /\ LivePhase(client'[d].conn, conn')
        BY <1>1, <2>2, <2>3, <2>6, <3>1, <3>2, <3>4 DEF Connection, LivePhase
      <3>5. \A d, e \in Clients :
              client'[d].conn # None /\ client'[d].conn = client'[e].conn => d = e
        BY <1>1, <2>2, <2>3, <2>5, <2>6 DEF Connection
      <3>6. /\ \A k \in Clients : conn'[k].phase = "connecting" => conn'[k].target = k
            /\ \A k \in Clients : client'[k].st = "none" => conn'[k].phase = "none"
            /\ \A k \in Clients : Waits(k, client', conn')
        BY <1>1, <2>2, <2>3, <2>6, <3>1 DEF Connection, Waits
      <3> QED BY <3>3, <3>4, <3>5, <3>6 DEF Connection
    <2>7. CASE ~loggedIn
      <3>1. conn' = conn /\ new.conn = None
        BY <2>1, <2>2, <2>7
      <3> QED BY <1>1, <2>2, <2>3, <2>4, <3>1 DEF Connection, Waits
    <2> QED BY <2>6, <2>7
  <1>3. CASE \E loggedIn \in BOOLEAN : RecoverSession(c, old, loggedIn)
    <2> PICK loggedIn \in BOOLEAN : RecoverSession(c, old, loggedIn)
      BY <1>3
    <2> DEFINE new == Moved(Upgraded(old, loggedIn), old)
               cl == [client EXCEPT ![c] = new, ![old] = Emptied(old)]
    <2>1. /\ client[c].st = "none" /\ Listed(old) /\ c # old /\ old \in Clients
          /\ CloseImmediate(old, cl, Adopted(c, old), idle)
      BY DEF RecoverSession, Recoverable, Listed
    <2>2. new \in ClientType /\ new.conn = client[old].conn /\ new.st = "listed"
      BY <1>1, <2>1, UpgradedType, MovedType
    <2>3. /\ Emptied(old) \in ClientType /\ Emptied(old).conn = None
          /\ Emptied(old).st = "listed"
      BY <1>1, <2>1, EmptiedType DEF Emptied, Listed, TypeOK, ClientType
    <2> HIDE DEF new
    <2>4. /\ cl \in ClientsType /\ cl[c] = new /\ cl[old] = Emptied(old)
          /\ \A d \in Clients \ {c, old} : cl[d] = client[d]
      BY <1>1, <2>1, <2>2, <2>3 DEF TypeOK, ClientsType
    <2> HIDE DEF cl
    <2>5. Connection(cl, conn) /\ \A k \in Clients \ {old} : Waits(k, cl, conn)
      BY <2>1, <2>2, <2>3, <2>4, AdoptedConn
    <2> QED BY <1>1, <2>1, <2>4, <2>5, CloseImmediateConn
  <1>4. CASE RecoverThenFail(c, old)
    <2> DEFINE up == Upgraded(old, TRUE)
               moved == Moved(up, old)
               new == [moved EXCEPT !.gone = TRUE]
               cl == [client EXCEPT ![c] = new, ![old] = FreedClient]
               i == Minus(idle, IF client[old].sendFrom = None THEN 0 ELSE 1)
    <2>1. /\ client[c].st = "none" /\ Listed(old) /\ c # old /\ old \in Clients
          /\ CloseImmediate(c, cl, Adopted(c, old), i)
      BY <1>4 DEF RecoverThenFail, Recoverable, Listed
    <2>2. up \in ClientType /\ up.st = "listed"
      BY UpgradedType
    <2> HIDE DEF up
    <2>3. moved \in ClientType /\ moved.conn = client[old].conn /\ moved.st = "listed"
      BY <1>1, <2>1, <2>2, MovedType
    <2> HIDE DEF moved
    <2>4. new \in ClientType /\ new.conn = client[old].conn /\ new.st = "listed"
      BY <2>3 DEF ClientType
    <2>5. FreedClient.conn = None /\ FreedClient.st = "freed"
      BY DEF FreedClient, NewClient
    <2> HIDE DEF new
    <2>6. /\ cl \in ClientsType /\ cl[c] = new /\ cl[old] = FreedClient
          /\ \A d \in Clients \ {c, old} : cl[d] = client[d]
      BY <1>1, <2>1, <2>4, NewTypes DEF TypeOK, ClientsType
    <2> HIDE DEF cl, i
    <2>7. Connection(cl, conn) /\ \A k \in Clients \ {old} : Waits(k, cl, conn)
      BY <2>1, <2>4, <2>5, <2>6, AdoptedConn
    <2>8. Waits(old, cl, conn)
      BY <2>5, <2>6 DEF Waits
    <2> QED BY <1>1, <2>1, <2>6, <2>7, <2>8, CloseImmediateConn
  <1> QED BY <1>2, <1>3, <1>4 DEF Handshake

LEMMA ConnectionEventConn ==
  ASSUME ConnInv, NEW k \in Clients, ConnectionEvent(k)
  PROVE  Connection(client', conn') /\ \A j \in Clients : Waits(j, client', conn')
  <1>1. /\ TypeOK /\ Connection(client, conn) /\ conn \in ConnsType
        /\ \A j \in Clients : Waits(j, client, conn)
    BY DEF ConnInv, HeldInv, TypeOK, ConnsType
  <1>2. CASE \E phase \in {"up", "bad"} : Connected(k, phase)
    <2> PICK phase \in {"up", "bad"} : Connected(k, phase)
      BY <1>2
    <2>1. conn[k].phase = "connecting" /\ conn[k].target = k /\ Listed(k) /\ client[k].conn = k
      BY <1>1 DEF Connected, Connection, Waits, Listed
    <2>2. \A d \in Clients : client'[d].st = client[d].st /\ client'[d].conn = client[d].conn
      BY <1>1, <2>1 DEF Connected, TypeOK, ClientType
    <2>3. /\ conn'[k].phase \in {"up", "bad"}
          /\ \A j \in Clients \ {k} : conn'[j] = conn[j]
      BY <1>1 DEF Connected, ConnsType, ConnType
    <2>4. \A j \in Clients : LivePhase(j, conn') <=> LivePhase(j, conn)
      BY <2>1, <2>3 DEF LivePhase
    <2>5. \A d \in Clients : client[d].conn \in Clients \cup {None}
      BY <1>1 DEF TypeOK, ClientType
    <2>6. /\ \A j \in Clients : conn'[j].phase = "connecting" => conn'[j].target = j
          /\ \A j \in Clients : client'[j].st = "none" => conn'[j].phase = "none"
          /\ \A j \in Clients : Waits(j, client', conn')
      BY <1>1, <2>1, <2>2, <2>3 DEF Connection, Waits, Listed
    <2>7. /\ \A j \in Clients : LivePhase(j, conn') =>
               \E d \in Clients : client'[d].st = "listed" /\ client'[d].conn = j
          /\ \A d \in Clients : client'[d].conn # None =>
               client'[d].st = "listed" /\ LivePhase(client'[d].conn, conn')
          /\ \A d, e \in Clients :
               client'[d].conn # None /\ client'[d].conn = client'[e].conn => d = e
      BY <1>1, <2>2, <2>4, <2>5 DEF Connection
    <2> QED BY <2>6, <2>7 DEF Connection
  <1>3. CASE ConnectedToFreed(k)
    BY <1>1, <1>3 DEF ConnectedToFreed
  <1> QED BY <1>2, <1>3 DEF ConnectionEvent

LEMMA ClientConn ==
  ASSUME ConnInv, NEW c \in Clients, Frame(c) \/ Callback(c) \/ BrowserLeaves(c)
  PROVE  Connection(client', conn') /\ \A k \in Clients : Waits(k, client', conn')
  <1>1. /\ TypeOK /\ Connection(client, conn) /\ conn \in ConnsType
        /\ \A k \in Clients : Waits(k, client, conn)
        /\ client \in ClientsType /\ req \in RequestsType
    BY DEF ConnInv, HeldInv, TypeOK, ConnsType, ClientsType, RequestsType
  <1>2. ASSUME conn' = conn,
               \A d \in Clients : client'[d].st = client[d].st /\ client'[d].conn = client[d].conn
        PROVE  Connection(client', conn') /\ \A k \in Clients : Waits(k, client', conn')
    BY <1>1, <1>2, UntouchedConn
  <1>3. CASE Close(c, client, req, idle)
    BY <1>1, <1>3, CloseConn
  <1>4. CASE client' = [client EXCEPT ![c].open = FALSE] /\ UNCHANGED <<conn, req, idle>>
    BY <1>1, <1>2, <1>4 DEF TypeOK, ClientType
  <1>5. CASE \E r \in Requests : FrameRequest(c, r)
    <2> PICK r \in Requests : FrameRequest(c, r)
      BY <1>5
    <2>1. client' = [client EXCEPT ![c].que = Append(@, r)] /\ conn' = conn
      BY DEF FrameRequest
    <2>2. \A d \in Clients : client'[d].st = client[d].st /\ client'[d].conn = client[d].conn
      BY <1>1, <2>1 DEF ClientsType, ClientType
    <2> QED BY <1>2, <2>1, <2>2
  <1>6. CASE FrameConfirmLast(c)
    BY ZenonT(40), <1>1, <1>2, <1>6 DEF FrameConfirmLast, TypeOK, ClientType
  <1>7. CASE FrameSendFrom(c)
    BY <1>1, <1>2, <1>7 DEF FrameSendFrom, TypeOK, ClientType
  <1>8. CASE StartRequest(c)
    <2>1. /\ client' = [client EXCEPT ![c].cur = Head(client[c].que), ![c].que = Tail(@),
                                     ![c].busy = TRUE]
          /\ conn' = conn
      BY <1>8 DEF StartRequest
    <2>2. \A d \in Clients : client'[d].st = client[d].st /\ client'[d].conn = client[d].conn
      BY <1>1, <2>1 DEF ClientsType, ClientType
    <2> QED BY <1>2, <2>1, <2>2
  <1>9. CASE SendFromEnds(c)
    <2>1. client' = [client EXCEPT ![c].sendFrom = None, ![c].paused = None] /\ conn' = conn
      BY <1>9 DEF SendFromEnds
    <2>2. \A d \in Clients : client'[d].st = client[d].st /\ client'[d].conn = client[d].conn
      BY <1>1, <2>1 DEF ClientsType, ClientType
    <2> QED BY <1>2, <2>1, <2>2
  <1>10. CASE SendFromFreed(c)
    BY <1>1, <1>2, <1>10 DEF SendFromFreed
  <1>11. CASE CloseTimeout(c) \/ LoginExpires(c) \/ Logout(c)
    BY <1>1, <1>11, CloseImmediateConn DEF CloseTimeout, LoginExpires, Logout
  <1>12. CASE BrowserLeaves(c)
    BY <1>1, <1>2, <1>12 DEF BrowserLeaves, TypeOK, ClientType
  <1> QED BY <1>3, <1>4, <1>5, <1>6, <1>7, <1>8, <1>9, <1>10, <1>11, <1>12
          DEF Frame, FrameClose, ReadFails, Callback

LEMMA WorkConn ==
  ASSUME ConnInv, NEW r \in Requests, Work(r)
  PROVE  Connection(client', conn') /\ \A k \in Clients : Waits(k, client', conn')
  <1>1. /\ TypeOK /\ Held(client, req) /\ Connection(client, conn) /\ conn \in ConnsType
        /\ \A k \in Clients : Waits(k, client, conn)
        /\ client \in ClientsType /\ req \in RequestsType
    BY DEF ConnInv, HeldInv, TypeOK, ConnsType, ClientsType, RequestsType
  <1>2. CASE UNCHANGED <<client, conn>>
    BY <1>1, <1>2
  <1>3. CASE Pause(r)
    <2> DEFINE c == req[r].parent
               new == [client[c] EXCEPT !.paused = r]
               cl == [client EXCEPT ![c] = new]
               rq == [req EXCEPT ![r].work = "paused", ![r].linked = FALSE]
               i == IF req[r].stage = "copy" THEN Minus(idle, 1) ELSE idle
    <2>1. req[r].st = "current" /\ Close(c, cl, rq, i)
      BY <1>3 DEF Pause, Fires
    <2>2. c \in Clients
      BY <1>1, <2>1 DEF Held
    <2> HIDE DEF c, rq, i
    <2>3. new \in ClientType /\ new.st = client[c].st /\ new.conn = client[c].conn
      <3>1. client[c] \in ClientType
        BY <1>1, <2>2 DEF ClientsType
      <3> QED BY <3>1 DEF ClientType
    <2> HIDE DEF new
    <2>4. /\ cl \in ClientsType
          /\ \A d \in Clients : cl[d].st = client[d].st /\ cl[d].conn = client[d].conn
      BY <1>1, <2>2, <2>3 DEF ClientsType
    <2> HIDE DEF cl
    <2>5. Connection(cl, conn) /\ \A k \in Clients : Waits(k, cl, conn)
      BY <1>1, <2>4, UntouchedConn
    <2>6. rq \in RequestsType
      BY ZenonT(40), <1>1 DEF rq, RequestsType, RequestType
    <2> QED BY <1>1, <2>1, <2>2, <2>4, <2>5, <2>6, CloseConn
  <1> QED BY <1>2, <1>3 DEF Work, Advance, Finish

LEMMA NextConn == ConnInv /\ [Next]_vars => ConnInv'
  <1> SUFFICES ASSUME ConnInv, [Next]_vars PROVE ConnInv'
    OBVIOUS
  <1>1. HeldInv'
    BY NextHeld DEF ConnInv
  <1> SUFFICES Connection(client', conn') /\ \A k \in Clients : Waits(k, client', conn')
    BY <1>1 DEF ConnInv
  <1>2. CASE Sleep \/ Wake \/ UNCHANGED vars
    BY <1>2 DEF Sleep, Wake, vars, ConnInv
  <1>3. CASE Tick
    <2>1. \A d \in Clients : client'[d].st = client[d].st /\ client'[d].conn = client[d].conn
      BY <1>3 DEF Tick, ConnInv, HeldInv, TypeOK, ClientType
    <2> QED BY <1>3, <2>1, UntouchedConn DEF Tick, ConnInv
  <1>4. CASE Next /\ ~(Sleep \/ Wake \/ Tick)
    BY <1>4, HandshakeConn, ConnectionEventConn, ClientConn, WorkConn DEF Next
  <1> QED BY <1>2, <1>3, <1>4

\* A database connection is held by exactly one client from DB_connect to
\* DB_finish: the recovery in client_cb neither leaks nor shares it.
THEOREM OneConnectionHolder == Spec => []ConnectionHasOneHolder
  <1>1. ConnInv => ConnectionHasOneHolder
    BY DEF ConnInv, Connection, LivePhase, Live, Listed, ConnectionHasOneHolder
  <1> QED BY InitConn, NextConn, <1>1, PTL DEF Spec

-----------------------------------------------------------------------------
(***************************************************************************)
(* A running request is never taken away before its time, for any number   *)
(* of clients and requests and any window, as long as nobody logs out and  *)
(* handshake responses can be written; with either the code does take it   *)
(* away.                                                                   *)
(*                                                                         *)
(* client_close frees a client at once when it finds its connection bad or *)
(* missing, whatever runs.  What keeps running requests is that work only  *)
(* goes on over a connection that is up, and a connection that is up stays *)
(* so until its holder is freed.                                           *)
(***************************************************************************)

\* What client c runs, unless it has sent its last answer, it runs over a
\* connection that is up.  A client that calls itself connected has a
\* connection; it may be a bad one, if it took it over.
Served(c, cl, rq, cn) ==
    /\ cl[c].cur # None /\ rq[cl[c].cur].work # "done" =>
          cl[c].conn # None /\ cn[cl[c].conn].phase = "up"
    /\ cl[c].connected => cl[c].conn # None

ServedInv ==
    /\ PausedInv
    /\ ConnInv
    /\ \A c \in Clients : Served(c, client, req, conn)

OneHolderOf(cl) ==
    \A c, d \in Clients : cl[c].conn # None /\ cl[c].conn = cl[d].conn => c = d

-----------------------------------------------------------------------------
(* The helpers.                                                            *)

LEMMA ServedFacts ==
  ASSUME ServedInv
  PROVE  /\ client \in ClientsType /\ req \in RequestsType /\ conn \in ConnsType
         /\ TypeOK /\ Held(client, req) /\ Resumable(client, req)
         /\ Connection(client, conn) /\ OneHolderOf(client)
  BY DEF ServedInv, PausedInv, ConnInv, HeldInv, TypeOK, ClientsType, RequestsType,
         ConnsType, Connection, OneHolderOf

LEMMA CloseImmediateServed ==
  ASSUME NEW c \in Clients, NEW cl \in ClientsType, NEW rq \in RequestsType, NEW i,
         CloseImmediate(c, cl, rq, i), Held(cl, rq), OneHolderOf(cl),
         \A d \in Clients \ {c} : Served(d, cl, rq, conn)
  PROVE  \A d \in Clients : Served(d, client', req', conn')
  <1>1. /\ client' = [cl EXCEPT ![c] = FreedClient]
        /\ req' = [r \in Requests |->
                     IF r = cl[c].cur \/ r \in RangeOf(cl[c].que)
                     THEN FreedRequest(rq[r]) ELSE rq[r]]
        /\ conn' = [k \in Clients |->
                      IF k = cl[c].conn THEN [phase |-> "finished", target |-> None]
                      ELSE conn[k]]
    BY DEF CloseImmediate
  <1>2. /\ client'[c].cur = None /\ client'[c].connected = FALSE
        /\ \A d \in Clients \ {c} : client'[d] = cl[d]
    BY <1>1 DEF FreedClient, NewClient, ClientsType
  <1>3. Served(c, client', req', conn')
    BY <1>2 DEF Served
  <1>4. ASSUME NEW d \in Clients \ {c}
        PROVE  Served(d, client', req', conn')
    <2>1. \A r \in Requests : r = cl[c].cur \/ r \in RangeOf(cl[c].que) => rq[r].parent = c
      BY NoneAssumption DEF Held, RangeOf
    <2>2. cl[d].cur # None => req'[cl[d].cur] = rq[cl[d].cur]
      <3>1. cl[d].cur # None => cl[d].cur \in Requests /\ rq[cl[d].cur].parent = d
        BY DEF Held, ClientsType, ClientType
      <3> QED BY <1>1, <2>1, <3>1
    <2>3. cl[d].conn # None => conn'[cl[d].conn] = conn[cl[d].conn]
      <3>1. cl[d].conn # None => cl[d].conn \in Clients /\ cl[d].conn # cl[c].conn
        BY DEF OneHolderOf, ClientsType, ClientType
      <3> QED BY <1>1, <3>1
    <2> QED BY <1>2, <2>2, <2>3 DEF Served
  <1> QED BY <1>3, <1>4

\* Steps that leave connections, current requests and their ends alone.
LEMMA UntouchedServed ==
  ASSUME ServedInv, NEW cl, NEW rq, NEW cn, cn = conn,
         \A d \in Clients : /\ cl[d].conn = client[d].conn /\ cl[d].cur = client[d].cur
                            /\ cl[d].connected = client[d].connected,
         \A r \in Requests : rq[r].work # "done" => req[r].work # "done"
  PROVE  \A d \in Clients : Served(d, cl, rq, cn)
  <1>1. \A d \in Clients : /\ Served(d, client, req, conn)
                           /\ client[d].cur \in Requests \cup {None}
    BY ServedFacts DEF ServedInv, ClientsType, ClientType
  <1>2. ASSUME NEW d \in Clients PROVE Served(d, cl, rq, cn)
    <2>1. cl[d].connected => cl[d].conn # None
      BY <1>1 DEF Served
    <2>2. cl[d].cur # None /\ rq[cl[d].cur].work # "done" =>
             cl[d].conn # None /\ cn[cl[d].conn].phase = "up"
      BY <1>1 DEF Served
    <2> QED BY <2>1, <2>2 DEF Served
  <1> QED BY <1>2

LEMMA CloseServed ==
  ASSUME NEW c \in Clients, NEW cl \in ClientsType, NEW rq \in RequestsType, NEW i,
         Close(c, cl, rq, i), Held(cl, rq), OneHolderOf(cl),
         \A d \in Clients : Served(d, cl, rq, conn)
  PROVE  \A d \in Clients : Served(d, client', req', conn')
  <1>1. CASE ~Authorized(c, cl) \/ cl[c].cur = None
    BY <1>1, CloseImmediateServed DEF Close
  <1>2. CASE ~(~Authorized(c, cl) \/ cl[c].cur = None)
    <2>1. client' = [cl EXCEPT ![c] = Lingering(cl[c])] /\ req' = rq /\ conn' = conn
      BY <1>2 DEF Close
    <2>2. \A d \in Clients :
            /\ client'[d].conn = cl[d].conn /\ client'[d].cur = cl[d].cur
            /\ client'[d].connected = cl[d].connected
      BY <2>1 DEF Lingering, ClientsType, ClientType
    <2> QED BY <2>1, <2>2 DEF Served
  <1> QED BY <1>1, <1>2

LEMMA InitServed == Init => ServedInv
  <1> SUFFICES ASSUME Init PROVE ServedInv
    OBVIOUS
  <1>1. \A c \in Clients : Served(c, client, req, conn)
    BY DEF Init, NewClient, Served
  <1> QED BY <1>1, InitPaused, InitConn DEF ServedInv

\* The hand-over of a recovery, before anything is freed.
LEMMA AdoptedServed ==
  ASSUME ServedInv, NEW c \in Clients, NEW old \in Clients, client[c].st = "none", c # old,
         NEW cl,
         /\ cl[c].conn = client[old].conn /\ cl[c].cur = client[old].cur
         /\ cl[c].connected => cl[c].conn # None
         /\ cl[old].conn = None /\ cl[old].cur = None
         /\ \A d \in Clients \ {c, old} : cl[d] = client[d]
  PROVE  /\ \A d \in Clients \ {old} : Served(d, cl, Adopted(c, old), conn)
         /\ OneHolderOf(cl)
  <1>1. /\ \A d \in Clients : Served(d, client, req, conn)
        /\ \A d \in Clients : client[d].cur \in Requests \cup {None}
        /\ client[c].conn = None
    BY ServedFacts DEF ServedInv, ClientsType, ClientType, Connection
  <1>2. \A r \in Requests : Adopted(c, old)[r].work = req[r].work
    BY ServedFacts DEF Adopted, RequestsType, RequestType
  <1>3. \A d \in Clients \ {old} : Served(d, cl, Adopted(c, old), conn)
    BY <1>1, <1>2 DEF Served
  <1>4. OneHolderOf(cl)
    BY <1>1, ServedFacts DEF OneHolderOf
  <1> QED BY <1>3, <1>4
-----------------------------------------------------------------------------
(* One lemma per group of actions.                                         *)

LEMMA MovedConnected ==
  ASSUME NEW new \in ClientType, NEW old
  PROVE  Moved(new, old).connected <=> Moved(new, old).conn # None
  BY DEF Moved, ClientType

LEMMA HandshakeServed ==
  ASSUME ServedInv, NEW c \in Clients, NEW old \in Clients \cup {None}, Handshake(c, old)
  PROVE  \A d \in Clients : Served(d, client', req', conn')
  <1>1. /\ TypeOK /\ Held(client, req) /\ Connection(client, conn) /\ conn \in ConnsType
        /\ \A d \in Clients : Served(d, client, req, conn)
    BY ServedFacts DEF ServedInv
  <1>2. CASE \E sameCookie, loggedIn \in BOOLEAN : OpenSession(c, old, sameCookie, loggedIn)
    <2> PICK sameCookie \in BOOLEAN, loggedIn \in BOOLEAN :
               OpenSession(c, old, sameCookie, loggedIn)
      BY <1>2
    <2> DEFINE new == [Upgraded(old, loggedIn) EXCEPT !.conn = IF loggedIn THEN c ELSE None]
    <2>1. /\ client' = [client EXCEPT ![c] = new] /\ client[c].st = "none" /\ req' = req
          /\ conn' = IF loggedIn
                     THEN [conn EXCEPT ![c] = [phase |-> "connecting", target |-> c]]
                     ELSE conn
      BY DEF OpenSession
    <2>2. new.cur = None /\ new.connected = FALSE
      <3>1. Upgraded(old, loggedIn).connected = FALSE
        BY DEF Upgraded, NewClient
      <3> QED BY <3>1, UpgradedType DEF ClientType
    <2> HIDE DEF new
    <2>3. client'[c] = new /\ \A d \in Clients \ {c} : client'[d] = client[d]
      BY <1>1, <2>1 DEF TypeOK
    <2>4. \A d \in Clients : client[d].conn # c
      BY <1>1, <2>1, NoneAssumption DEF Connection, LivePhase
    <2>5. \A d \in Clients : client[d].conn # None => conn'[client[d].conn] = conn[client[d].conn]
      BY <1>1, <2>1, <2>4 DEF TypeOK, ClientType, ConnsType
    <2> QED BY <1>1, <2>1, <2>2, <2>3, <2>5 DEF Served
  <1>3. CASE \E loggedIn \in BOOLEAN : RecoverSession(c, old, loggedIn)
    <2> PICK loggedIn \in BOOLEAN : RecoverSession(c, old, loggedIn)
      BY <1>3
    <2> DEFINE new == Moved(Upgraded(old, loggedIn), old)
               cl == [client EXCEPT ![c] = new, ![old] = Emptied(old)]
    <2>1. /\ client[c].st = "none" /\ Listed(old) /\ c # old /\ old \in Clients
          /\ CloseImmediate(old, cl, Adopted(c, old), idle)
      BY DEF RecoverSession, Recoverable, Listed
    <2>2. /\ new \in ClientType /\ new.cur = client[old].cur /\ new.que = client[old].que
          /\ new.busy = client[old].busy /\ new.st = "listed" /\ new.conn = client[old].conn
          /\ new.connected => new.conn # None
      BY <1>1, <2>1, UpgradedType, MovedType, MovedConnected
    <2>3. /\ Emptied(old) \in ClientType /\ Emptied(old).cur = None
          /\ Emptied(old).que = <<>> /\ Emptied(old).conn = None
      BY <1>1, <2>1, EmptiedType
    <2> HIDE DEF new
    <2>4. /\ cl \in ClientsType /\ Adopted(c, old) \in RequestsType
          /\ cl[c] = new /\ cl[old] = Emptied(old)
          /\ \A d \in Clients \ {c, old} : cl[d] = client[d]
      BY <1>1, <2>1, <2>2, <2>3, AdoptedType DEF TypeOK, ClientsType
    <2> HIDE DEF cl
    <2>5. Held(cl, Adopted(c, old))
      BY <1>1, <2>1, <2>2, <2>3, <2>4, AdoptedHeld DEF Listed
    <2>6. /\ \A d \in Clients \ {old} : Served(d, cl, Adopted(c, old), conn)
          /\ OneHolderOf(cl)
      BY <2>1, <2>2, <2>3, <2>4, AdoptedServed
    <2> QED BY <2>1, <2>4, <2>5, <2>6, CloseImmediateServed
  <1>4. CASE RecoverThenFail(c, old)
    <2> DEFINE up == Upgraded(old, TRUE)
               moved == Moved(up, old)
               new == [moved EXCEPT !.gone = TRUE]
               cl == [client EXCEPT ![c] = new, ![old] = FreedClient]
               i == Minus(idle, IF client[old].sendFrom = None THEN 0 ELSE 1)
    <2>1. /\ client[c].st = "none" /\ Listed(old) /\ c # old /\ old \in Clients
          /\ CloseImmediate(c, cl, Adopted(c, old), i)
      BY <1>4 DEF RecoverThenFail, Recoverable, Listed
    <2>2. up \in ClientType /\ up.st = "listed"
      BY UpgradedType
    <2> HIDE DEF up
    <2>3. /\ moved \in ClientType /\ moved.cur = client[old].cur /\ moved.que = client[old].que
          /\ moved.busy = client[old].busy /\ moved.st = "listed"
          /\ moved.conn = client[old].conn
          /\ moved.connected => moved.conn # None
      BY <1>1, <2>1, <2>2, MovedType, MovedConnected
    <2> HIDE DEF moved
    <2>4. /\ new \in ClientType /\ new.cur = client[old].cur /\ new.que = client[old].que
          /\ new.busy = client[old].busy /\ new.st = "listed" /\ new.conn = client[old].conn
          /\ new.connected => new.conn # None
      BY <2>3 DEF ClientType
    <2>5. FreedClient.cur = None /\ FreedClient.que = <<>> /\ FreedClient.conn = None
          /\ FreedClient.connected = FALSE
      BY DEF FreedClient, NewClient
    <2> HIDE DEF new
    <2>6. /\ cl \in ClientsType /\ Adopted(c, old) \in RequestsType
          /\ cl[c] = new /\ cl[old] = FreedClient
          /\ \A d \in Clients \ {c, old} : cl[d] = client[d]
      BY <1>1, <2>1, <2>4, NewTypes, AdoptedType DEF TypeOK, ClientsType
    <2> HIDE DEF cl, i
    <2>7. Held(cl, Adopted(c, old))
      BY <1>1, <2>1, <2>4, <2>5, <2>6, AdoptedHeld DEF Listed
    <2>8. /\ \A d \in Clients \ {old} : Served(d, cl, Adopted(c, old), conn)
          /\ OneHolderOf(cl)
      BY <2>1, <2>4, <2>5, <2>6, AdoptedServed
    <2>9. Served(old, cl, Adopted(c, old), conn)
      BY <2>5, <2>6 DEF Served
    <2> QED BY <2>1, <2>6, <2>7, <2>8, <2>9, CloseImmediateServed
  <1> QED BY <1>2, <1>3, <1>4 DEF Handshake

LEMMA ConnectionEventServed ==
  ASSUME ServedInv, NEW k \in Clients, ConnectionEvent(k)
  PROVE  \A d \in Clients : Served(d, client', req', conn')
  <1>1. \A d \in Clients : Served(d, client, req, conn)
    BY DEF ServedInv
  <1>2. CASE \E phase \in {"up", "bad"} : Connected(k, phase)
    <2> PICK phase \in {"up", "bad"} : Connected(k, phase)
      BY <1>2
    <2>1. /\ conn[k].phase = "connecting" /\ conn[k].target = k /\ client[k].conn = k
          /\ req' = req
      BY DEF Connected, ServedInv, ConnInv, Connection, Waits, Listed
    <2>2. /\ \A d \in Clients : client'[d].conn = client[d].conn /\ client'[d].cur = client[d].cur
          /\ \A d \in Clients \ {k} : client'[d] = client[d]
      BY <2>1, ServedFacts DEF Connected, ClientsType, ClientType
    <2>3. \A j \in Clients \ {k} : conn'[j] = conn[j]
      BY ServedFacts DEF Connected, ConnsType
    <2>4. \A d \in Clients : client[d].conn \in Clients \cup {None}
      BY ServedFacts DEF ClientsType, ClientType
    <2>5. ASSUME NEW d \in Clients PROVE Served(d, client', req', conn')
      <3>1. client'[d].connected => client'[d].conn # None
        BY <1>1, <2>1, <2>2, NoneAssumption DEF Served
      <3>2. ASSUME client'[d].cur # None, req'[client'[d].cur].work # "done"
            PROVE  client'[d].conn # None /\ conn'[client'[d].conn].phase = "up"
        <4>1. client[d].conn # None /\ conn[client[d].conn].phase = "up"
          BY <1>1, <2>1, <2>2, <3>2 DEF Served
        <4>2. client[d].conn \in Clients \ {k}
          BY <2>1, <2>4, <4>1
        <4> QED BY <2>2, <2>3, <4>1, <4>2
      <3> QED BY <3>1, <3>2 DEF Served
    <2> QED BY <2>5
  <1>3. CASE ConnectedToFreed(k)
    BY <1>1, <1>3 DEF ConnectedToFreed
  <1> QED BY <1>2, <1>3 DEF ConnectionEvent

LEMMA FrameServed ==
  ASSUME ServedInv, NEW c \in Clients, Frame(c)
  PROVE  \A d \in Clients : Served(d, client', req', conn')
  <1>1. \A d \in Clients : /\ Served(d, client, req, conn)
                           /\ client[d].cur \in Requests \cup {None}
    BY ServedFacts DEF ServedInv, ClientsType, ClientType
  <1>2. CASE \E r \in Requests : FrameRequest(c, r)
    <2> PICK r \in Requests : FrameRequest(c, r)
      BY <1>2
    <2>1. client' = [client EXCEPT ![c].que = Append(client[c].que, r)] /\ conn' = conn
      BY DEF FrameRequest
    <2>2. \A d \in Clients :
            /\ client'[d].conn = client[d].conn /\ client'[d].cur = client[d].cur
            /\ client'[d].connected = client[d].connected
      BY <2>1, ServedFacts DEF ClientsType, ClientType
    <2>3. \A q \in Requests : req'[q].work = req[q].work
      BY ServedFacts DEF FrameRequest, RequestsType, RequestType
    <2> QED BY <2>1, <2>2, <2>3, UntouchedServed
  <1>3. CASE FrameConfirmLast(c)
    <2> DEFINE r == client[c].cur
    <2>1. /\ r \in Requests /\ req' = [req EXCEPT ![r] = FreedRequest(req[r])]
          /\ client' = [client EXCEPT ![c].cur = None, ![c].busy = FALSE] /\ conn' = conn
      BY <1>1, <1>3 DEF FrameConfirmLast
    <2>2. /\ client'[c].cur = None /\ client'[c].conn = client[c].conn
          /\ client'[c].connected = client[c].connected
          /\ \A d \in Clients \ {c} : client'[d] = client[d]
      BY <2>1, ServedFacts DEF ClientsType, ClientType
    <2>3. \A q \in Requests \ {r} : req'[q] = req[q]
      BY <2>1, ServedFacts DEF RequestsType
    <2>4. \A d \in Clients \ {c} : client[d].cur # None => client[d].cur # r
      BY <2>1, ServedFacts, NoneAssumption DEF Held
    <2> HIDE DEF r
    <2>5. Served(c, client', req', conn')
      BY <1>1, <2>1, <2>2 DEF Served
    <2>6. ASSUME NEW d \in Clients \ {c} PROVE Served(d, client', req', conn')
      <3>1. client[d].cur # None => req'[client[d].cur] = req[client[d].cur]
        BY <1>1, <2>3, <2>4
      <3> QED BY <1>1, <2>1, <2>2, <3>1 DEF Served
    <2> QED BY <2>5, <2>6
  <1>4. CASE FrameSendFrom(c)
    <2>1. \A d \in Clients :
            /\ client'[d].conn = client[d].conn /\ client'[d].cur = client[d].cur
            /\ client'[d].connected = client[d].connected
      BY <1>4, ServedFacts DEF FrameSendFrom, ClientsType, ClientType
    <2>2. req' = req /\ conn' = conn
      BY <1>4 DEF FrameSendFrom
    <2> QED BY <2>1, <2>2, UntouchedServed
  <1>5. CASE Close(c, client, req, idle)
    BY <1>1, <1>5, ServedFacts, CloseServed
  <1>6. CASE client' = [client EXCEPT ![c].open = FALSE] /\ UNCHANGED <<conn, req, idle>>
    <2>1. \A d \in Clients :
            /\ client'[d].conn = client[d].conn /\ client'[d].cur = client[d].cur
            /\ client'[d].connected = client[d].connected
      BY <1>6, ServedFacts DEF ClientsType, ClientType
    <2> QED BY <1>6, <2>1, UntouchedServed
  <1> QED BY <1>2, <1>3, <1>4, <1>5, <1>6 DEF Frame, FrameClose, ReadFails
LEMMA CallbackServed ==
  ASSUME ServedInv, NEW c \in Clients, Callback(c)
  PROVE  \A d \in Clients : Served(d, client', req', conn')
  <1>1. \A d \in Clients : /\ Served(d, client, req, conn)
                           /\ client[d].cur \in Requests \cup {None}
    BY ServedFacts DEF ServedInv, ClientsType, ClientType
  <1>2. CASE StartRequest(c)
    <2> DEFINE r == Head(client[c].que)
    <2>1. /\ client[c].que \in Seq(Requests) /\ client[c].que # <<>> /\ client[c].connected
          /\ client' = [client EXCEPT ![c].cur = r, ![c].que = Tail(@), ![c].busy = TRUE]
          /\ conn' = conn
      BY <1>2, ServedFacts DEF StartRequest, CanStart, ClientsType, ClientType
    <2>2. /\ r \in Requests /\ r = client[c].que[1] /\ 1 \in 1 .. Len(client[c].que)
      BY <2>1, TailMembers
    <2>3. req[r].st = "queued"
      BY <2>2, ServedFacts DEF Held
    <2>4. /\ req'[r].work # "done" => conn[client[c].conn].phase = "up"
          /\ \A q \in Requests \ {r} : req'[q] = req[q]
      <3>1. CASE conn[client[c].conn].phase = "up"
        BY <1>2, <2>2, <3>1, ServedFacts DEF StartRequest, RequestsType
      <3>2. CASE conn[client[c].conn].phase # "up"
        <4> DEFINE x == [req[r] EXCEPT !.st = "current", !.work = "done",
                                       !.sentTo = IF client[c].open THEN c ELSE None]
        <4>1. req' = [req EXCEPT ![r] = x]
          BY <1>2, <3>2 DEF StartRequest
        <4>2. x.work = "done"
          BY <2>2, ServedFacts DEF RequestsType, RequestType
        <4> HIDE DEF x
        <4> QED BY <2>2, <4>1, <4>2, ServedFacts DEF RequestsType
      <3> QED BY <3>1, <3>2
    <2>5. /\ client'[c].cur = r /\ client'[c].conn = client[c].conn
          /\ client'[c].connected = client[c].connected
          /\ \A d \in Clients \ {c} : client'[d] = client[d]
      BY <2>1, ServedFacts DEF ClientsType, ClientType
    <2> HIDE DEF r
    <2>6. Served(c, client', req', conn')
      BY <1>1, <2>1, <2>4, <2>5 DEF Served
    <2>7. conn' = conn
      BY <1>2 DEF StartRequest
    <2>8. ASSUME NEW d \in Clients \ {c} PROVE Served(d, client', req', conn')
      <3>1. client[d].cur # None => client[d].cur \in Requests \ {r}
        BY <1>1, <2>3, ServedFacts DEF Held
      <3>2. client[d].cur # None => req'[client[d].cur] = req[client[d].cur]
        BY <2>4, <3>1
      <3> QED BY <1>1, <2>5, <2>7, <3>2 DEF Served
    <2> QED BY <2>6, <2>8
  <1>3. CASE SendFromEnds(c)
    <2> DEFINE p == client[c].paused
    <2>1. \A d \in Clients :
            /\ client'[d].conn = client[d].conn /\ client'[d].cur = client[d].cur
            /\ client'[d].connected = client[d].connected
      BY <1>3, ServedFacts DEF SendFromEnds, ClientsType, ClientType
    <2>2. \A r \in Requests : req'[r].work = IF r = p THEN "active" ELSE req[r].work
      BY <1>3, ServedFacts DEF SendFromEnds, RequestsType, RequestType
    <2>3. p # None => req[p].work = "paused"
      BY ServedFacts DEF Resumable
    <2>4. \A r \in Requests : req'[r].work # "done" => req[r].work # "done"
      BY <2>2, <2>3, NoneAssumption
    <2>5. conn' = conn
      BY <1>3 DEF SendFromEnds
    <2> QED BY <2>1, <2>4, <2>5, UntouchedServed
  <1>4. CASE SendFromFreed(c)
    BY <1>1, <1>4 DEF SendFromFreed
  <1>5. CASE CloseTimeout(c) \/ LoginExpires(c) \/ Logout(c)
    BY <1>1, <1>5, ServedFacts, CloseImmediateServed DEF CloseTimeout, LoginExpires, Logout
  <1> QED BY <1>2, <1>3, <1>4, <1>5 DEF Callback

\* The clients and requests that Pause(r) gives to client_close.
LEMMA PauseCloses ==
  ASSUME ServedInv, NEW r \in Requests, Pause(r)
  PROVE  LET c == req[r].parent IN
         /\ c \in Clients /\ client[c].cur = r
         /\ req[r].st = "current" /\ req[r].work = "active"
         /\ \E cl \in ClientsType, rq \in RequestsType, i \in Nat :
               /\ Close(c, cl, rq, i)
               /\ \A d \in Clients :
                     /\ cl[d].st = client[d].st /\ cl[d].conn = client[d].conn
                     /\ cl[d].cur = client[d].cur /\ cl[d].que = client[d].que
                     /\ cl[d].busy = client[d].busy /\ cl[d].connected = client[d].connected
               /\ \A q \in Requests :
                     /\ rq[q].st = req[q].st /\ rq[q].parent = req[q].parent
                     /\ rq[q].work # "done" => req[q].work # "done"
  <1> DEFINE c == req[r].parent
             new == [client[c] EXCEPT !.paused = r]
             cl == [client EXCEPT ![c] = new]
             x == [req[r] EXCEPT !.work = "paused", !.linked = FALSE]
             rq == [req EXCEPT ![r] = x]
             i == IF req[r].stage = "copy" THEN Minus(idle, 1) ELSE idle
  <1>1. /\ req[r].st = "current" /\ req[r].work = "active" /\ Close(c, cl, rq, i)
    BY DEF Pause, Fires
  <1>2. c \in Clients /\ client[c].cur = r
    BY <1>1, ServedFacts DEF Held, RangeOf
  <1>3. /\ x \in RequestType /\ x.st = req[r].st /\ x.parent = req[r].parent
    BY ServedFacts DEF RequestsType, RequestType
  <1> HIDE DEF x
  <1>4. /\ rq \in RequestsType
        /\ \A q \in Requests : /\ rq[q].st = req[q].st /\ rq[q].parent = req[q].parent
                               /\ rq[q].work # "done" => req[q].work # "done"
    BY <1>1, <1>3, ServedFacts DEF RequestsType
  <1>n. i \in Nat
    BY ServedFacts, MinusType DEF TypeOK
  <1> HIDE DEF c, rq, i
  <1>5. /\ new \in ClientType /\ new.st = client[c].st /\ new.conn = client[c].conn
        /\ new.cur = client[c].cur /\ new.que = client[c].que /\ new.busy = client[c].busy
        /\ new.connected = client[c].connected
    <2>1. client[c] \in ClientType
      BY <1>2, ServedFacts DEF ClientsType
    <2> QED BY <2>1 DEF ClientType
  <1> HIDE DEF new
  <1>6. /\ cl \in ClientsType
        /\ \A d \in Clients :
              /\ cl[d].st = client[d].st /\ cl[d].conn = client[d].conn
              /\ cl[d].cur = client[d].cur /\ cl[d].que = client[d].que
              /\ cl[d].busy = client[d].busy /\ cl[d].connected = client[d].connected
    BY <1>2, <1>5, ServedFacts DEF ClientsType
  <1> HIDE DEF cl
  <1> QED BY <1>1, <1>2, <1>4, <1>6, <1>n DEF c

LEMMA WorkServed ==
  ASSUME ServedInv, NEW r \in Requests, Work(r)
  PROVE  \A d \in Clients : Served(d, client', req', conn')
  <1>1. ASSUME client' = client, conn' = conn, req[r].work # "done",
               \A q \in Requests \ {r} : req'[q] = req[q]
        PROVE  \A d \in Clients : Served(d, client', req', conn')
    <2>1. \A q \in Requests : req'[q].work # "done" => req[q].work # "done"
      BY <1>1
    <2> QED BY <1>1, <2>1, UntouchedServed
  <1>2. CASE \E s \in Stages : Advance(r, s)
    BY <1>1, <1>2, ServedFacts DEF Advance, Proceeds, Fires, RequestsType
  <1>3. CASE Finish(r)
    BY <1>1, <1>3, ServedFacts DEF Finish, Proceeds, Fires, RequestsType
  <1>4. CASE Pause(r)
    <2> DEFINE c == req[r].parent
    <2>1. c \in Clients
      BY <1>4, PauseCloses
    <2>2. PICK cl \in ClientsType, rq \in RequestsType, i \in Nat :
             /\ Close(c, cl, rq, i)
             /\ \A d \in Clients :
                   /\ cl[d].st = client[d].st /\ cl[d].conn = client[d].conn
                   /\ cl[d].cur = client[d].cur /\ cl[d].que = client[d].que
                   /\ cl[d].busy = client[d].busy /\ cl[d].connected = client[d].connected
             /\ \A q \in Requests :
                   /\ rq[q].st = req[q].st /\ rq[q].parent = req[q].parent
                   /\ rq[q].work # "done" => req[q].work # "done"
      BY <1>4, PauseCloses
    <2> HIDE DEF c
    <2>3. Held(cl, rq)
      BY <2>2, ServedFacts, UntouchedHeld
    <2>4. OneHolderOf(cl)
      BY <2>2, ServedFacts DEF OneHolderOf
    <2>5. \A d \in Clients : Served(d, cl, rq, conn)
      BY <2>2, UntouchedServed
    <2> QED BY <2>1, <2>2, <2>3, <2>4, <2>5, CloseServed
  <1> QED BY <1>2, <1>3, <1>4 DEF Work

LEMMA NextServed == ServedInv /\ [Next]_vars => ServedInv'
  <1> SUFFICES ASSUME ServedInv, [Next]_vars PROVE ServedInv'
    OBVIOUS
  <1>1. PausedInv' /\ ConnInv'
    BY NextPaused, NextConn DEF ServedInv
  <1> SUFFICES \A d \in Clients : Served(d, client', req', conn')
    BY <1>1 DEF ServedInv
  <1>2. CASE Sleep \/ Wake \/ UNCHANGED vars
    BY <1>2 DEF Sleep, Wake, vars, ServedInv
  <1>3. CASE Tick \/ \E c \in Clients : BrowserLeaves(c)
    <2>1. \A d \in Clients :
            /\ client'[d].conn = client[d].conn /\ client'[d].cur = client[d].cur
            /\ client'[d].connected = client[d].connected
      <3>1. CASE Tick
        BY <3>1, ServedFacts DEF Tick, ClientsType, ClientType
      <3>2. CASE \E c \in Clients : BrowserLeaves(c)
        BY <3>2, ServedFacts DEF BrowserLeaves, ClientsType, ClientType
      <3> QED BY <1>3, <3>1, <3>2
    <2>2. req' = req /\ conn' = conn
      BY <1>3 DEF Tick, BrowserLeaves
    <2> QED BY <2>1, <2>2, UntouchedServed
  <1>4. CASE Next /\ ~(Sleep \/ Wake \/ Tick \/ \E c \in Clients : BrowserLeaves(c))
    BY <1>4, HandshakeServed, ConnectionEventServed, FrameServed, CallbackServed, WorkServed
       DEF Next
  <1> QED BY <1>2, <1>3, <1>4
-----------------------------------------------------------------------------
(* What a step may free.                                                   *)

\* A current request that is freed with client c is the one c runs.
LEMMA CloseImmediateFrees ==
  ASSUME NEW c \in Clients, NEW cl \in ClientsType, NEW rq \in RequestsType, NEW i,
         CloseImmediate(c, cl, rq, i), Held(cl, rq),
         NEW r \in Requests, rq[r].st = "current", req'[r].st = "freed"
  PROVE  r = cl[c].cur /\ rq[r].parent = c
  <1>1. r = cl[c].cur \/ r \in RangeOf(cl[c].que)
    BY DEF CloseImmediate
  <1>2. r \notin RangeOf(cl[c].que)
    BY DEF Held, RangeOf
  <1> QED BY <1>1, <1>2, NoneAssumption DEF Held

\* client_close frees a running request only over a connection that is not
\* there or bad.
LEMMA CloseFrees ==
  ASSUME NEW c \in Clients, NEW cl \in ClientsType, NEW rq \in RequestsType, NEW i,
         Close(c, cl, rq, i), Held(cl, rq), Served(c, cl, rq, conn),
         NEW r \in Requests, rq[r].st = "current", req'[r].st = "freed"
  PROVE  rq[r].work = "done" /\ rq[r].parent = c
  <1>1. /\ CloseImmediate(c, cl, rq, i)
        /\ ~Authorized(c, cl) \/ cl[c].cur = None
    BY DEF Close
  <1>2. r = cl[c].cur /\ rq[r].parent = c
    BY <1>1, CloseImmediateFrees
  <1> QED BY <1>1, <1>2, NoneAssumption DEF Authorized, Served

LEMMA FrameKeeps ==
  ASSUME ServedInv, NEW c \in Clients, Frame(c),
         NEW r \in Requests, req[r].st = "current", req'[r].st = "freed"
  PROVE  req[r].work = "done" /\ client[req[r].parent].age = None
  <1>1. CASE \E q \in Requests : FrameRequest(c, q)
    <2> PICK q \in Requests : FrameRequest(c, q)
      BY <1>1
    <2>1. req'[q].st = "queued" /\ \A s \in Requests \ {q} : req'[s] = req[s]
      BY ServedFacts DEF FrameRequest, RequestsType, RequestType
    <2> QED BY <2>1
  <1>2. CASE FrameConfirmLast(c)
    <2>1. r = client[c].cur /\ req[r].work = "done" /\ client[c].age = None
      BY <1>2, ServedFacts DEF FrameConfirmLast, Reads, RequestsType
    <2> QED BY <2>1, ServedFacts, NoneAssumption DEF Held
  <1>3. CASE Close(c, client, req, idle)
    <2>1. req[r].work = "done" /\ req[r].parent = c
      BY <1>3, ServedFacts, CloseFrees DEF ServedInv
    <2>2. client[c].age = None
      BY DEF Frame, FrameRequest, FrameConfirmLast, FrameSendFrom, FrameClose, ReadFails, Reads
    <2> QED BY <2>1, <2>2
  <1>4. CASE req' = req
    BY <1>4
  <1> QED BY <1>1, <1>2, <1>3, <1>4 DEF Frame, FrameSendFrom, FrameClose, ReadFails

LEMMA CallbackKeeps ==
  ASSUME ServedInv, ~UsersLogOut, NEW c \in Clients, Callback(c),
         NEW r \in Requests, req[r].st = "current", req'[r].st = "freed"
  PROVE  client[req[r].parent].age = Window
  <1>1. CASE CloseTimeout(c)
    <2>1. req[r].parent = c
      BY <1>1, ServedFacts, CloseImmediateFrees DEF CloseTimeout
    <2> QED BY <1>1, <2>1 DEF CloseTimeout, Expired
  <1>2. CASE LoginExpires(c)
    <2>1. r = client[c].cur
      BY <1>2, ServedFacts, CloseImmediateFrees DEF LoginExpires
    <2>2. ~client[c].busy
      BY <1>2 DEF LoginExpires
    <2> QED BY <2>1, <2>2, ServedFacts, NoneAssumption DEF Held
  <1>3. CASE StartRequest(c)
    <2> DEFINE q == Head(client[c].que)
    <2>1. client[c].que \in Seq(Requests) /\ client[c].que # <<>>
      BY <1>3, ServedFacts DEF StartRequest, CanStart, ClientsType, ClientType
    <2>2. q \in Requests
      BY <2>1, TailMembers
    <2>3. req'[q].st = "current" /\ \A s \in Requests \ {q} : req'[s] = req[s]
      BY <1>3, <2>2, ServedFacts DEF StartRequest, RequestsType, RequestType
    <2> QED BY <2>3
  <1>4. CASE SendFromEnds(c)
    <2> DEFINE a == [req[r] EXCEPT !.work = "active"]
               b == [req[r] EXCEPT !.sentTo = c]
    <2>1. a.st = req[r].st /\ b.st = req[r].st
      BY ServedFacts DEF RequestsType, RequestType
    <2>2. req'[r] \in {a, b, req[r]}
      BY <1>4 DEF SendFromEnds
    <2> QED BY <2>1, <2>2
  <1>5. CASE SendFromFreed(c)
    BY <1>5 DEF SendFromFreed
  <1>6. ~Logout(c)
    BY DEF Logout
  <1> QED BY <1>1, <1>2, <1>3, <1>4, <1>5, <1>6 DEF Callback

LEMMA WorkKeeps ==
  ASSUME ServedInv, NEW q \in Requests, Work(q), NEW r \in Requests, req[r].st = "current"
  PROVE  req'[r].st # "freed"
  <1>1. CASE \E s \in Stages : Advance(q, s)
    BY <1>1, ServedFacts DEF Advance, RequestsType, RequestType
  <1>2. CASE Finish(q)
    BY <1>2, ServedFacts DEF Finish, RequestsType, RequestType
  <1>3. CASE Pause(q)
    <2> SUFFICES ASSUME req'[r].st = "freed" PROVE FALSE
      OBVIOUS
    <2> DEFINE c == req[q].parent
    <2>1. c \in Clients /\ client[c].cur = q /\ req[q].work = "active"
      BY <1>3, PauseCloses
    <2>2. PICK cl \in ClientsType, rq \in RequestsType, i \in Nat :
             /\ Close(c, cl, rq, i)
             /\ \A d \in Clients :
                   /\ cl[d].st = client[d].st /\ cl[d].conn = client[d].conn
                   /\ cl[d].cur = client[d].cur /\ cl[d].que = client[d].que
                   /\ cl[d].busy = client[d].busy /\ cl[d].connected = client[d].connected
             /\ \A s \in Requests :
                   /\ rq[s].st = req[s].st /\ rq[s].parent = req[s].parent
                   /\ rq[s].work # "done" => req[s].work # "done"
      BY <1>3, PauseCloses
    <2> HIDE DEF c
    <2>3. Held(cl, rq)
      BY <2>2, ServedFacts, UntouchedHeld
    <2>4. ~(~Authorized(c, client) \/ client[c].cur = None)
      <3>1. Served(c, client, req, conn)
        BY <2>1 DEF ServedInv
      <3> QED BY <2>1, <3>1, NoneAssumption DEF Served, Authorized
    <2>5. ~(~Authorized(c, cl) \/ cl[c].cur = None)
      BY <2>1, <2>2, <2>4 DEF Authorized
    <2>6. req' = rq
      BY <2>2, <2>5 DEF Close
    <2> QED BY <2>2, <2>6
  <1> QED BY <1>1, <1>2, <1>3 DEF Work

LEMMA HandshakeKeeps ==
  ASSUME ServedInv, ~HandshakeMayFail, NEW c \in Clients, NEW old \in Clients \cup {None},
         Handshake(c, old), NEW r \in Requests, req[r].st = "current"
  PROVE  req'[r].st # "freed"
  <1>1. CASE \E sameCookie, loggedIn \in BOOLEAN : OpenSession(c, old, sameCookie, loggedIn)
    BY <1>1 DEF OpenSession
  <1>2. CASE \E loggedIn \in BOOLEAN : RecoverSession(c, old, loggedIn)
    <2> PICK loggedIn \in BOOLEAN : RecoverSession(c, old, loggedIn)
      BY <1>2
    <2> DEFINE new == Moved(Upgraded(old, loggedIn), old)
               cl == [client EXCEPT ![c] = new, ![old] = Emptied(old)]
    <2>1. /\ c # old /\ old \in Clients /\ CloseImmediate(old, cl, Adopted(c, old), idle)
      BY DEF RecoverSession, Recoverable, Listed
    <2>2. Emptied(old).cur = None /\ Emptied(old).que = <<>>
      BY <2>1, ServedFacts, EmptiedType
    <2> HIDE DEF new
    <2>3. cl[old] = Emptied(old)
      BY <2>1, ServedFacts DEF ClientsType
    <2> HIDE DEF cl
    <2>4. req'[r] = Adopted(c, old)[r]
      BY <2>1, <2>2, <2>3, NoneAssumption DEF CloseImmediate, RangeOf
    <2>5. Adopted(c, old)[r].st = req[r].st
      BY ServedFacts DEF Adopted, RequestsType, RequestType
    <2> QED BY <2>4, <2>5
  <1>3. ~RecoverThenFail(c, old)
    BY DEF RecoverThenFail
  <1> QED BY <1>1, <1>2, <1>3 DEF Handshake

LEMMA NextKeeps ==
  ASSUME ServedInv, ~UsersLogOut, ~HandshakeMayFail, [Next]_vars,
         NEW r \in Requests, req[r].st = "current", req'[r].st = "freed"
  PROVE  \/ req[r].work = "done" /\ client[req[r].parent].age = None
         \/ client[req[r].parent].age = Window
  <1>1. CASE req' = req
    BY <1>1
  <1>2. CASE req' # req
    BY <1>2, HandshakeKeeps, FrameKeeps, CallbackKeeps, WorkKeeps
       DEF Next, ConnectionEvent, Connected, ConnectedToFreed, BrowserLeaves,
           Sleep, Wake, Tick, vars
  <1> QED BY <1>1, <1>2

\* As long as nobody logs out and handshake responses can be written, a
\* request that runs is only taken away by the CONFIRM of its last answer, by
\* a close after that answer, or when the window of recovery has passed
\* (client_close, client_close_immediate).
THEOREM RunningIsKept ==
  ~UsersLogOut /\ ~HandshakeMayFail => (Spec => RunningRequestIsKept)
  <1> SUFFICES ASSUME ~UsersLogOut, ~HandshakeMayFail
               PROVE  Spec => RunningRequestIsKept
    OBVIOUS
  <1> DEFINE Kept == \A r \in Requests :
                        req[r].st = "current" /\ req'[r].st = "freed" =>
                           \/ req[r].work = "done" /\ client[req[r].parent].age = None
                           \/ client[req[r].parent].age = Window
  <1>1. ServedInv /\ [Next]_vars => [Kept]_vars
    BY NextKeeps
  <1>2. RunningRequestIsKept <=> [][Kept]_vars
    BY DEF RunningRequestIsKept
  <1> HIDE DEF Kept
  <1> QED BY <1>1, <1>2, InitServed, NextServed, PTL DEF Spec

-----------------------------------------------------------------------------
(***************************************************************************)
(* The idle counter covers every callback that waits for the loop to turn, *)
(* for any number of clients and requests: the loop never blocks in poll   *)
(* with work to do.                                                        *)
(*                                                                         *)
(* The counter is adjusted by hand wherever a check callback starts or     *)
(* stops, and by client_close_immediate for all a client has at once.  It  *)
(* also counts the rows of a RAW query that are paused, whose callback     *)
(* does not wait: what client_close_immediate gives back for them must not *)
(* be taken from somebody else.  The invariant therefore counts them too.  *)
(***************************************************************************)

Starts(rq) == {r \in Requests : rq[r].st = "queued"}

Counts(q) ==
    /\ q.st = "current"
    /\ \/ q.work = "active" /\ q.stage \in Polled
       \/ q.work = "paused" /\ q.stage = "rows"

Works(rq) == {r \in Requests : Counts(rq[r])}

Sends(cl) == {c \in Clients : cl[c].sendFrom # None}

\* Few sets of few elements in all, at most n.
Within(S, T, U, n) ==
    /\ IsFiniteSet(S) /\ IsFiniteSet(T) /\ IsFiniteSet(U)
    /\ n >= Cardinality(S) + Cardinality(T) + Cardinality(U)

Covers(n, cl, rq) == Within(Starts(rq), Works(rq), Sends(cl), n)

IdleInv == HeldInv /\ Covers(idle, client, req)

-----------------------------------------------------------------------------
(* Counting.                                                               *)

LEMMA CardNat ==
  ASSUME NEW S, IsFiniteSet(S)
  PROVE  Cardinality(S) \in Nat
  BY FS_CardinalityType

\* Nothing more to count.
LEMMA WithinSubsets ==
  ASSUME NEW S, NEW T, NEW U, NEW n \in Nat, Within(S, T, U, n),
         NEW S1 \in SUBSET S, NEW T1 \in SUBSET T, NEW U1 \in SUBSET U
  PROVE  Within(S1, T1, U1, n)
  <1>1. IsFiniteSet(S) /\ IsFiniteSet(T) /\ IsFiniteSet(U)
    BY DEF Within
  <1>2. /\ IsFiniteSet(S1) /\ Cardinality(S1) <= Cardinality(S)
        /\ IsFiniteSet(T1) /\ Cardinality(T1) <= Cardinality(T)
        /\ IsFiniteSet(U1) /\ Cardinality(U1) <= Cardinality(U)
    BY <1>1, FS_Subset
  <1>3. /\ Cardinality(S) \in Nat /\ Cardinality(T) \in Nat /\ Cardinality(U) \in Nat
        /\ Cardinality(S1) \in Nat /\ Cardinality(T1) \in Nat /\ Cardinality(U1) \in Nat
    BY <1>1, <1>2, CardNat
  <1> QED BY <1>2, <1>3 DEF Within

\* One more is counted at most, in one of the sets.
LEMMA OneMore ==
  ASSUME NEW S, IsFiniteSet(S), NEW x, NEW S1 \in SUBSET (S \cup {x})
  PROVE  IsFiniteSet(S1) /\ Cardinality(S1) <= Cardinality(S) + 1
  <1>1. IsFiniteSet(S \cup {x}) /\ Cardinality(S \cup {x}) <= Cardinality(S) + 1
    BY FS_AddElement, CardNat
  <1>2. IsFiniteSet(S1) /\ Cardinality(S1) <= Cardinality(S \cup {x})
    BY <1>1, FS_Subset
  <1> QED BY <1>1, <1>2, CardNat

\* An element that was counted is not any more.
LEMMA OneLess ==
  ASSUME NEW S, IsFiniteSet(S), NEW x \in S, NEW S1 \in SUBSET (S \ {x})
  PROVE  IsFiniteSet(S1) /\ Cardinality(S1) + 1 <= Cardinality(S)
  <1>1. IsFiniteSet(S \ {x}) /\ Cardinality(S \ {x}) = Cardinality(S) - 1
    BY FS_RemoveElement
  <1>2. IsFiniteSet(S1) /\ Cardinality(S1) <= Cardinality(S \ {x})
    BY <1>1, FS_Subset
  <1> QED BY <1>1, <1>2, CardNat

\* A queue without a repetition has as many requests as it is long.
LEMMA QueueSize ==
  ASSUME NEW que \in Seq(Requests),
         \A i, j \in 1 .. Len(que) : que[i] = que[j] => i = j
  PROVE  IsFiniteSet(RangeOf(que)) /\ Cardinality(RangeOf(que)) = Len(que)
  <1> DEFINE f == [i \in 1 .. Len(que) |-> que[i]]
  <1>1. Len(que) \in Nat
    OBVIOUS
  <1>2. f \in Bijection(1 .. Len(que), RangeOf(que))
    BY DEF Bijection, Injection, Surjection, IsInjective, RangeOf
  <1>3. ExistsBijection(1 .. Len(que), RangeOf(que))
    BY <1>2 DEF ExistsBijection
  <1>4. IsFiniteSet(1 .. Len(que))
    BY <1>1, FS_Interval
  <1> QED BY <1>1, <1>3, <1>4, FS_Bijection, FS_CountingElements

\* What a queue counted is not counted any more.
LEMMA QueueLess ==
  ASSUME NEW S, IsFiniteSet(S), NEW que \in Seq(Requests),
         \A i, j \in 1 .. Len(que) : que[i] = que[j] => i = j,
         RangeOf(que) \subseteq S, NEW S1 \in SUBSET (S \ RangeOf(que))
  PROVE  IsFiniteSet(S1) /\ Cardinality(S1) + Len(que) <= Cardinality(S)
  <1> DEFINE Q == RangeOf(que)
  <1>1. Cardinality(Q) = Len(que) /\ Len(que) \in Nat
    BY QueueSize
  <1>2. S \cap Q = Q
    OBVIOUS
  <1> HIDE DEF Q
  <1>3. IsFiniteSet(S \ Q) /\ Cardinality(S \ Q) = Cardinality(S) - Cardinality(S \cap Q)
    BY FS_Difference
  <1>4. IsFiniteSet(S1) /\ Cardinality(S1) <= Cardinality(S \ Q)
    BY <1>3, FS_Subset DEF Q
  <1>5. Cardinality(S) \in Nat /\ Cardinality(S1) \in Nat /\ Cardinality(S \ Q) \in Nat
    BY <1>3, <1>4, CardNat
  <1>6. Cardinality(S \cap Q) = Len(que)
    BY <1>1, <1>2
  <1>7. Cardinality(S1) + Len(que) <= Cardinality(S)
    BY <1>1, <1>3, <1>4, <1>5, <1>6
  <1> QED BY <1>4, <1>7
\* The counter may go down by what is not counted any more.
LEMMA WithinLess ==
  ASSUME NEW S, NEW T, NEW U, NEW n \in Nat, Within(S, T, U, n),
         NEW S1, NEW T1, NEW U1, NEW a \in Int, NEW b \in Int, NEW d \in Int,
         IsFiniteSet(S1) /\ Cardinality(S1) + a <= Cardinality(S),
         IsFiniteSet(T1) /\ Cardinality(T1) + b <= Cardinality(T),
         IsFiniteSet(U1) /\ Cardinality(U1) + d <= Cardinality(U),
         NEW m \in Nat, m + a + b + d >= n
  PROVE  Within(S1, T1, U1, m)
  <1>1. IsFiniteSet(S) /\ IsFiniteSet(T) /\ IsFiniteSet(U)
    BY DEF Within
  <1>2. /\ Cardinality(S) \in Nat /\ Cardinality(T) \in Nat /\ Cardinality(U) \in Nat
        /\ Cardinality(S1) \in Nat /\ Cardinality(T1) \in Nat /\ Cardinality(U1) \in Nat
    BY <1>1, CardNat
  <1>3. m >= Cardinality(S1) + Cardinality(T1) + Cardinality(U1)
    BY <1>2 DEF Within
  <1> QED BY <1>3 DEF Within

LEMMA SameOrFewer ==
  ASSUME NEW S, IsFiniteSet(S), NEW S1 \in SUBSET S
  PROVE  IsFiniteSet(S1) /\ Cardinality(S1) + 0 <= Cardinality(S)
  BY FS_Subset, CardNat

LEMMA MinusPlus ==
  ASSUME NEW i \in Nat, NEW n \in Nat
  PROVE  Minus(i, n) \in Nat /\ Minus(i, n) + n >= i
  BY DEF Minus

LEMMA IdleFacts ==
  ASSUME IdleInv
  PROVE  /\ client \in ClientsType /\ req \in RequestsType /\ idle \in Nat
         /\ TypeOK /\ Held(client, req) /\ Covers(idle, client, req)
         /\ IsFiniteSet(Starts(req)) /\ IsFiniteSet(Works(req)) /\ IsFiniteSet(Sends(client))
  BY DEF IdleInv, HeldInv, TypeOK, ClientsType, RequestsType, Covers, Within

\* client_close_immediate gives back what it counted for the client it frees,
\* and nothing else.
LEMMA CloseImmediateCovers ==
  ASSUME NEW c \in Clients, NEW cl \in ClientsType, NEW rq \in RequestsType, NEW i \in Nat,
         CloseImmediate(c, cl, rq, i), Held(cl, rq), Covers(i, cl, rq)
  PROVE  Covers(idle', client', req')
  <1> DEFINE que == cl[c].que
             cur == cl[c].cur
             s == IF cl[c].sendFrom # None THEN 1 ELSE 0
             w == IF cur # None /\ Counts(rq[cur]) THEN 1 ELSE 0
  <1>1. /\ client' = [cl EXCEPT ![c] = FreedClient]
        /\ req' = [r \in Requests |->
                     IF r = cur \/ r \in RangeOf(que) THEN FreedRequest(rq[r]) ELSE rq[r]]
        /\ idle' = Minus(i, IdleHeld(cl[c], rq))
    BY DEF CloseImmediate
  <1>2. que \in Seq(Requests) /\ Len(que) \in Nat /\ cur \in Requests \cup {None}
    BY DEF ClientsType, ClientType
  <1>3. IsFiniteSet(Starts(rq)) /\ IsFiniteSet(Works(rq)) /\ IsFiniteSet(Sends(cl))
    BY DEF Covers, Within
  <1>4. \A r \in Requests : IF r = cur \/ r \in RangeOf(que)
                            THEN req'[r].st = "freed" ELSE req'[r] = rq[r]
    BY <1>1, FreedRequestType DEF RequestsType
  <1>5. IsFiniteSet(Starts(req')) /\ Cardinality(Starts(req')) + Len(que) <= Cardinality(Starts(rq))
    <2>1. RangeOf(que) \subseteq Starts(rq)
      BY <1>2 DEF Held, RangeOf, Starts
    <2>2. Starts(req') \subseteq Starts(rq) \ RangeOf(que)
      BY <1>4 DEF Starts
    <2>3. \A j, k \in 1 .. Len(que) : que[j] = que[k] => j = k
      BY DEF Held
    <2> QED BY <1>2, <1>3, <2>1, <2>2, <2>3, QueueLess
  <1>6. IsFiniteSet(Works(req')) /\ Cardinality(Works(req')) + w <= Cardinality(Works(rq))
    <2>1. Works(req') \subseteq Works(rq) \ {cur}
      BY <1>4 DEF Works, Counts
    <2>2. CASE cur # None /\ Counts(rq[cur])
      <3>1. cur \in Works(rq)
        BY <1>2, <2>2 DEF Works
      <3> QED BY <1>3, <2>1, <2>2, <3>1, OneLess
    <2>3. CASE ~(cur # None /\ Counts(rq[cur]))
      BY <1>3, <2>1, <2>3, SameOrFewer
    <2> QED BY <2>2, <2>3
  <1>7. IsFiniteSet(Sends(client')) /\ Cardinality(Sends(client')) + s <= Cardinality(Sends(cl))
    <2>1. client'[c].sendFrom = None /\ \A d \in Clients \ {c} : client'[d] = cl[d]
      BY <1>1 DEF FreedClient, NewClient, ClientsType
    <2>2. Sends(client') \subseteq Sends(cl) \ {c}
      BY <2>1 DEF Sends
    <2>3. CASE cl[c].sendFrom # None
      <3>1. c \in Sends(cl)
        BY <2>3 DEF Sends
      <3> QED BY <1>3, <2>2, <2>3, <3>1, OneLess
    <2>4. CASE cl[c].sendFrom = None
      BY <1>3, <2>2, <2>4, SameOrFewer
    <2> QED BY <2>3, <2>4
  <1>8. IdleHeld(cl[c], rq) = s + Len(que) + w
    <2>1. cur # None => rq[cur].st = "current"
      BY DEF Held
    <2> DEFINE v == IF cur = None THEN 0
                    ELSE IF rq[cur].work = "active" /\ rq[cur].stage \in Polled THEN 1
                    ELSE IF rq[cur].work = "paused" /\ rq[cur].stage = "rows" THEN 1
                    ELSE 0
    <2>2. v = w
      BY <2>1 DEF Counts
    <2>3. IdleHeld(cl[c], rq) = s + Len(que) + v
      BY DEF IdleHeld
    <2> QED BY <2>2, <2>3
  <1>9. s \in Nat /\ w \in Nat
    OBVIOUS
  <1> HIDE DEF que, cur, s, w
  <1>10. idle' \in Nat /\ idle' + Len(que) + w + s >= i
    BY <1>1, <1>2, <1>8, <1>9, MinusPlus
  <1>11. Within(Starts(rq), Works(rq), Sends(cl), i)
    BY DEF Covers
  <1> QED BY <1>2, <1>5, <1>6, <1>7, <1>9, <1>10, <1>11, WithinLess DEF Covers

LEMMA CloseCovers ==
  ASSUME NEW c \in Clients, NEW cl \in ClientsType, NEW rq \in RequestsType, NEW i \in Nat,
         Close(c, cl, rq, i), Held(cl, rq), Covers(i, cl, rq)
  PROVE  Covers(idle', client', req')
  <1>1. CASE ~Authorized(c, cl) \/ cl[c].cur = None
    BY <1>1, CloseImmediateCovers DEF Close
  <1>2. CASE ~(~Authorized(c, cl) \/ cl[c].cur = None)
    <2>1. client' = [cl EXCEPT ![c] = Lingering(cl[c])] /\ req' = rq /\ idle' = i
      BY <1>2 DEF Close
    <2>2. \A d \in Clients : client'[d].sendFrom = cl[d].sendFrom
      BY <2>1 DEF Lingering, ClientsType, ClientType
    <2>3. Sends(client') = Sends(cl)
      BY <2>2 DEF Sends
    <2> QED BY <2>1, <2>3 DEF Covers
  <1> QED BY <1>1, <1>2
-----------------------------------------------------------------------------
(* One lemma per group of actions.                                         *)

\* Steps that start nothing to wait for.
LEMMA NothingMore ==
  ASSUME IdleInv, NEW cl, NEW rq,
         \A r \in Requests : /\ rq[r].st = "queued" => req[r].st = "queued"
                             /\ Counts(rq[r]) => Counts(req[r]),
         \A d \in Clients : cl[d].sendFrom # None => client[d].sendFrom # None
  PROVE  Covers(idle, cl, rq)
  <1>1. /\ Starts(rq) \in SUBSET Starts(req) /\ Works(rq) \in SUBSET Works(req)
        /\ Sends(cl) \in SUBSET Sends(client)
    BY DEF Starts, Works, Sends
  <1> QED BY <1>1, IdleFacts, WithinSubsets DEF Covers

\* One request goes from one stage of its work to another.
LEMMA OneWork ==
  ASSUME IdleInv, NEW r \in Requests, NEW rq,
         \A q \in Requests \ {r} : Counts(rq[q]) => Counts(req[q])
  PROVE  /\ IsFiniteSet(Works(rq))
         /\ Cardinality(Works(rq)) + ((IF Counts(req[r]) THEN 1 ELSE 0)
                                      - (IF Counts(rq[r]) THEN 1 ELSE 0))
               <= Cardinality(Works(req))
  <1>1. IsFiniteSet(Works(req))
    BY IdleFacts
  <1>2. CASE Counts(rq[r]) /\ ~Counts(req[r])
    <2>1. Works(rq) \in SUBSET (Works(req) \cup {r})
      BY DEF Works
    <2>2. IsFiniteSet(Works(rq)) /\ Cardinality(Works(rq)) <= Cardinality(Works(req)) + 1
      BY <1>1, <2>1, OneMore
    <2> QED BY <1>1, <1>2, <2>2, CardNat
  <1>3. CASE ~Counts(rq[r]) /\ Counts(req[r])
    <2>1. r \in Works(req) /\ Works(rq) \in SUBSET (Works(req) \ {r})
      BY <1>3 DEF Works
    <2>2. IsFiniteSet(Works(rq)) /\ Cardinality(Works(rq)) + 1 <= Cardinality(Works(req))
      BY <1>1, <2>1, OneLess
    <2> QED BY <1>1, <1>3, <2>2, CardNat
  <1>4. CASE Counts(rq[r]) <=> Counts(req[r])
    <2>1. Works(rq) \in SUBSET Works(req)
      BY <1>4 DEF Works
    <2>2. IsFiniteSet(Works(rq)) /\ Cardinality(Works(rq)) + 0 <= Cardinality(Works(req))
      BY <1>1, <2>1, SameOrFewer
    <2> QED BY <1>1, <1>4, <2>2, CardNat
  <1> QED BY <1>2, <1>3, <1>4

LEMMA AdoptedCounts ==
  ASSUME IdleInv, NEW c, NEW old
  PROVE  \A r \in Requests : /\ Adopted(c, old)[r].st = req[r].st
                             /\ Counts(Adopted(c, old)[r]) <=> Counts(req[r])
  BY IdleFacts DEF Adopted, RequestsType, RequestType, Counts

LEMMA HandshakeCovers ==
  ASSUME IdleInv, NEW c \in Clients, NEW old \in Clients \cup {None}, Handshake(c, old)
  PROVE  Covers(idle', client', req')
  <1>1. TypeOK /\ Held(client, req)
    BY IdleFacts
  <1>2. CASE \E sameCookie, loggedIn \in BOOLEAN : OpenSession(c, old, sameCookie, loggedIn)
    <2> PICK sameCookie \in BOOLEAN, loggedIn \in BOOLEAN :
               OpenSession(c, old, sameCookie, loggedIn)
      BY <1>2
    <2> DEFINE new == [Upgraded(old, loggedIn) EXCEPT !.conn = IF loggedIn THEN c ELSE None]
    <2>1. client' = [client EXCEPT ![c] = new] /\ req' = req /\ idle' = idle
      BY DEF OpenSession
    <2>2. new.sendFrom = None
      <3>1. Upgraded(old, loggedIn).sendFrom = None
        BY DEF Upgraded, NewClient
      <3> QED BY <3>1, UpgradedType DEF ClientType
    <2> HIDE DEF new
    <2>3. \A d \in Clients : client'[d].sendFrom # None => client[d].sendFrom # None
      BY <1>1, <2>1, <2>2 DEF TypeOK
    <2>4. Covers(idle, client', req)
      BY <2>3, NothingMore
    <2> QED BY <2>1, <2>4
  <1>3. CASE \E loggedIn \in BOOLEAN : RecoverSession(c, old, loggedIn)
    <2> PICK loggedIn \in BOOLEAN : RecoverSession(c, old, loggedIn)
      BY <1>3
    <2> DEFINE new == Moved(Upgraded(old, loggedIn), old)
               cl == [client EXCEPT ![c] = new, ![old] = Emptied(old)]
    <2>1. /\ client[c].st = "none" /\ Listed(old) /\ c # old /\ old \in Clients
          /\ CloseImmediate(old, cl, Adopted(c, old), idle)
      BY DEF RecoverSession, Recoverable, Listed
    <2>2. /\ new \in ClientType /\ new.cur = client[old].cur /\ new.que = client[old].que
          /\ new.busy = client[old].busy /\ new.st = "listed" /\ new.sendFrom = None
      <3>1. Upgraded(old, loggedIn).sendFrom = None
        BY DEF Upgraded, NewClient
      <3>2. new.sendFrom = None
        BY <3>1, UpgradedType DEF Moved, ClientType
      <3> QED BY <1>1, <2>1, <3>2, UpgradedType, MovedType
    <2>3. /\ Emptied(old) \in ClientType /\ Emptied(old).cur = None
          /\ Emptied(old).que = <<>> /\ Emptied(old).sendFrom = client[old].sendFrom
      BY <1>1, <2>1, EmptiedType DEF Emptied, TypeOK, ClientType
    <2> HIDE DEF new
    <2>4. /\ cl \in ClientsType /\ Adopted(c, old) \in RequestsType
          /\ cl[c] = new /\ cl[old] = Emptied(old)
          /\ \A d \in Clients \ {c, old} : cl[d] = client[d]
      BY <1>1, <2>1, <2>2, <2>3, AdoptedType DEF TypeOK, ClientsType
    <2> HIDE DEF cl
    <2>5. Held(cl, Adopted(c, old))
      BY <1>1, <2>1, <2>2, <2>3, <2>4, AdoptedHeld DEF Listed
    <2>6. \A d \in Clients : cl[d].sendFrom # None => client[d].sendFrom # None
      BY <2>2, <2>3, <2>4
    <2>7. Covers(idle, cl, Adopted(c, old))
      BY <2>6, AdoptedCounts, NothingMore
    <2> QED BY <2>1, <2>4, <2>5, <2>7, IdleFacts, CloseImmediateCovers
  <1>4. CASE RecoverThenFail(c, old)
    <2> DEFINE up == Upgraded(old, TRUE)
               moved == Moved(up, old)
               new == [moved EXCEPT !.gone = TRUE]
               cl == [client EXCEPT ![c] = new, ![old] = FreedClient]
               n == IF client[old].sendFrom = None THEN 0 ELSE 1
               i == Minus(idle, n)
    <2>1. /\ client[c].st = "none" /\ Listed(old) /\ c # old /\ old \in Clients
          /\ CloseImmediate(c, cl, Adopted(c, old), i)
      BY <1>4 DEF RecoverThenFail, Recoverable, Listed
    <2>2. up \in ClientType /\ up.st = "listed" /\ up.sendFrom = None
      BY UpgradedType DEF Upgraded, NewClient
    <2> HIDE DEF up
    <2>3. /\ moved \in ClientType /\ moved.cur = client[old].cur /\ moved.que = client[old].que
          /\ moved.busy = client[old].busy /\ moved.st = "listed" /\ moved.sendFrom = None
      <3>1. moved.sendFrom = None
        BY <2>2 DEF Moved, ClientType
      <3> QED BY <1>1, <2>1, <2>2, <3>1, MovedType
    <2> HIDE DEF moved
    <2>4. /\ new \in ClientType /\ new.cur = client[old].cur /\ new.que = client[old].que
          /\ new.busy = client[old].busy /\ new.st = "listed" /\ new.sendFrom = None
      BY <2>3 DEF ClientType
    <2>5. FreedClient.cur = None /\ FreedClient.que = <<>> /\ FreedClient.sendFrom = None
      BY DEF FreedClient, NewClient
    <2> HIDE DEF new
    <2>6. /\ cl \in ClientsType /\ Adopted(c, old) \in RequestsType
          /\ cl[c] = new /\ cl[old] = FreedClient
          /\ \A d \in Clients \ {c, old} : cl[d] = client[d]
      BY <1>1, <2>1, <2>4, NewTypes, AdoptedType DEF TypeOK, ClientsType
    <2> HIDE DEF cl
    <2>7. Held(cl, Adopted(c, old))
      BY <1>1, <2>1, <2>4, <2>5, <2>6, AdoptedHeld DEF Listed
    <2>8. n \in Nat
      OBVIOUS
    <2>9. IsFiniteSet(Sends(cl)) /\ Cardinality(Sends(cl)) + n <= Cardinality(Sends(client))
      <3>1. Sends(cl) \in SUBSET (Sends(client) \ {old})
        BY <2>4, <2>5, <2>6 DEF Sends
      <3>2. CASE client[old].sendFrom # None
        <4>1. old \in Sends(client)
          BY <2>1, <3>2 DEF Sends
        <4> QED BY <3>1, <3>2, <4>1, IdleFacts, OneLess
      <3>3. CASE client[old].sendFrom = None
        BY <3>1, <3>3, IdleFacts, SameOrFewer
      <3> QED BY <3>2, <3>3
    <2> HIDE DEF n
    <2>10. i \in Nat /\ i + n >= idle
      BY <2>8, IdleFacts, MinusPlus
    <2> HIDE DEF i
    <2>11. Starts(Adopted(c, old)) = Starts(req) /\ Works(Adopted(c, old)) = Works(req)
      BY AdoptedCounts DEF Starts, Works
    <2>12. /\ IsFiniteSet(Starts(req)) /\ Cardinality(Starts(req)) + 0 <= Cardinality(Starts(req))
           /\ IsFiniteSet(Works(req)) /\ Cardinality(Works(req)) + 0 <= Cardinality(Works(req))
      BY IdleFacts, SameOrFewer
    <2>13. Within(Starts(req), Works(req), Sends(client), idle)
      BY IdleFacts DEF Covers
    <2>14. i + 0 + 0 + n >= idle
      BY <2>8, <2>10
    <2>15. Within(Starts(req), Works(req), Sends(cl), i)
      BY <2>8, <2>9, <2>10, <2>12, <2>13, <2>14, IdleFacts, WithinLess
    <2>16. Covers(i, cl, Adopted(c, old))
      BY <2>11, <2>15 DEF Covers
    <2> QED BY <2>1, <2>6, <2>7, <2>10, <2>16, CloseImmediateCovers
  <1> QED BY <1>2, <1>3, <1>4 DEF Handshake

\* The counter goes up by what is counted, and down by no more than what is
\* not counted any more.
LEMMA CoversStep ==
  ASSUME IdleInv, NEW cl, NEW rq, NEW a \in Int, NEW b \in Int, NEW d \in Int,
         IsFiniteSet(Starts(rq)) /\ Cardinality(Starts(rq)) + a <= Cardinality(Starts(req)),
         IsFiniteSet(Works(rq)) /\ Cardinality(Works(rq)) + b <= Cardinality(Works(req)),
         IsFiniteSet(Sends(cl)) /\ Cardinality(Sends(cl)) + d <= Cardinality(Sends(client)),
         NEW m \in Nat, m + a + b + d >= idle
  PROVE  Covers(m, cl, rq)
  <1>1. Within(Starts(req), Works(req), Sends(client), idle) /\ idle \in Nat
    BY IdleFacts DEF Covers
  <1> QED BY <1>1, WithinLess DEF Covers

LEMMA InitIdle == Init => IdleInv
  <1> SUFFICES ASSUME Init PROVE IdleInv
    OBVIOUS
  <1>1. HeldInv
    BY InitHeld
  <1>2. Starts(req) = {} /\ Works(req) = {} /\ Sends(client) = {}
    BY DEF Init, Starts, Works, Counts, Sends, NewClient, NewRequest
  <1>3. idle = 0
    BY DEF Init
  <1>4. Covers(idle, client, req)
    BY <1>2, <1>3, FS_EmptySet DEF Covers, Within
  <1> QED BY <1>1, <1>4 DEF IdleInv

LEMMA ConnectionEventCovers ==
  ASSUME IdleInv, NEW k \in Clients, ConnectionEvent(k)
  PROVE  Covers(idle', client', req')
  <1>1. CASE \E phase \in {"up", "bad"} : Connected(k, phase)
    <2> PICK phase \in {"up", "bad"} : Connected(k, phase)
      BY <1>1
    <2> DEFINE c == conn[k].target
               t == client[c].connected \/ phase = "up"
               o == client[c].open /\ phase = "up"
    <2>1. /\ client' = [client EXCEPT ![c].conn = k, ![c].connected = t, ![c].open = o]
          /\ req' = req /\ idle' = idle
      BY DEF Connected
    <2> HIDE DEF c, t, o
    <2>2. \A d \in Clients : client'[d].sendFrom = client[d].sendFrom
      BY <2>1, IdleFacts DEF ClientsType, ClientType
    <2>3. Covers(idle, client', req)
      BY <2>2, NothingMore
    <2> QED BY <2>1, <2>3
  <1>2. CASE ConnectedToFreed(k)
    BY <1>2, IdleFacts DEF ConnectedToFreed
  <1> QED BY <1>1, <1>2 DEF ConnectionEvent

LEMMA FrameRequestCovers ==
  ASSUME IdleInv, NEW c \in Clients, NEW r \in Requests, FrameRequest(c, r)
  PROVE  Covers(idle', client', req')
  <1> DEFINE q == Append(client[c].que, r)
  <1>1. /\ client' = [client EXCEPT ![c].que = q]
        /\ req' = [req EXCEPT ![r].st = "queued", ![r].parent = c]
        /\ idle' = idle + 1
    BY DEF FrameRequest
  <1> HIDE DEF q
  <1>2. \A d \in Clients : client'[d].sendFrom = client[d].sendFrom
    BY <1>1, IdleFacts DEF ClientsType, ClientType
  <1>3. req'[r].st = "queued" /\ \A s \in Requests \ {r} : req'[s] = req[s]
    BY <1>1, IdleFacts DEF RequestsType, RequestType
  <1>4. /\ Starts(req') \in SUBSET (Starts(req) \cup {r})
        /\ Works(req') \in SUBSET Works(req) /\ Sends(client') \in SUBSET Sends(client)
    BY <1>2, <1>3 DEF Starts, Works, Counts, Sends
  <1>5. IsFiniteSet(Starts(req')) /\ Cardinality(Starts(req')) <= Cardinality(Starts(req)) + 1
    BY <1>4, IdleFacts, OneMore
  <1>6. IsFiniteSet(Starts(req')) /\ Cardinality(Starts(req')) + (-1) <= Cardinality(Starts(req))
    BY <1>5, IdleFacts, CardNat
  <1>7. /\ IsFiniteSet(Works(req')) /\ Cardinality(Works(req')) + 0 <= Cardinality(Works(req))
        /\ IsFiniteSet(Sends(client'))
        /\ Cardinality(Sends(client')) + 0 <= Cardinality(Sends(client))
    BY <1>4, IdleFacts, SameOrFewer
  <1>8. idle' \in Nat /\ idle' + (-1) + 0 + 0 >= idle
    BY <1>1, IdleFacts
  <1> QED BY <1>6, <1>7, <1>8, CoversStep

LEMMA FrameConfirmLastCovers ==
  ASSUME IdleInv, NEW c \in Clients, FrameConfirmLast(c)
  PROVE  Covers(idle', client', req')
  <1> DEFINE r == client[c].cur
  <1>1. /\ client' = [client EXCEPT ![c].cur = None, ![c].busy = FALSE]
        /\ req' = [req EXCEPT ![r] = FreedRequest(req[r])]
        /\ r # None /\ idle' = idle
    BY DEF FrameConfirmLast
  <1>2. r \in Requests
    BY <1>1, IdleFacts DEF ClientsType, ClientType
  <1> HIDE DEF r
  <1>3. req'[r].st = "freed" /\ \A s \in Requests \ {r} : req'[s] = req[s]
    BY <1>1, <1>2, IdleFacts, FreedRequestType DEF RequestsType
  <1>4. \A d \in Clients : client'[d].sendFrom = client[d].sendFrom
    BY <1>1, IdleFacts DEF ClientsType, ClientType
  <1>5. Covers(idle, client', req')
    BY <1>3, <1>4, NothingMore DEF Counts
  <1> QED BY <1>1, <1>5

LEMMA FrameSendFromCovers ==
  ASSUME IdleInv, NEW c \in Clients, FrameSendFrom(c)
  PROVE  Covers(idle', client', req')
  <1> DEFINE start == client[c].cur # None /\ client[c].sendFrom = None
             f == IF start THEN client[c].cur ELSE client[c].sendFrom
  <1>1. /\ client' = [client EXCEPT ![c].asks = FALSE, ![c].sendFrom = f]
        /\ idle' = IF start THEN idle + 1 ELSE idle
        /\ req' = req
    BY DEF FrameSendFrom
  <1>2. /\ client'[c].sendFrom = f
        /\ \A d \in Clients \ {c} : client'[d].sendFrom = client[d].sendFrom
    <2> HIDE DEF f
    <2> QED BY <1>1, IdleFacts DEF ClientsType, ClientType
  <1>3. CASE ~start
    <2>1. Covers(idle, client', req)
      BY <1>2, <1>3, NothingMore
    <2> QED BY <1>1, <1>3, <2>1
  <1>4. CASE start
    <2>1. Sends(client') \in SUBSET (Sends(client) \cup {c})
      BY <1>2 DEF Sends
    <2>2. IsFiniteSet(Sends(client')) /\ Cardinality(Sends(client')) <= Cardinality(Sends(client)) + 1
      BY <2>1, IdleFacts, OneMore
    <2>3. /\ IsFiniteSet(Sends(client'))
          /\ Cardinality(Sends(client')) + (-1) <= Cardinality(Sends(client))
      BY <2>2, IdleFacts, CardNat
    <2>4. /\ IsFiniteSet(Starts(req)) /\ Cardinality(Starts(req)) + 0 <= Cardinality(Starts(req))
          /\ IsFiniteSet(Works(req)) /\ Cardinality(Works(req)) + 0 <= Cardinality(Works(req))
      BY IdleFacts, SameOrFewer
    <2>5. idle' \in Nat /\ idle' + 0 + 0 + (-1) >= idle
      BY <1>1, <1>4, IdleFacts
    <2>6. Covers(idle', client', req)
      BY <2>3, <2>4, <2>5, CoversStep
    <2> QED BY <1>1, <2>6
  <1> QED BY <1>3, <1>4

LEMMA FrameCovers ==
  ASSUME IdleInv, NEW c \in Clients, Frame(c)
  PROVE  Covers(idle', client', req')
  <1>1. CASE FrameClose(c) /\ client[c].open
    <2>1. client' = [client EXCEPT ![c].open = FALSE] /\ req' = req /\ idle' = idle
      BY <1>1 DEF FrameClose
    <2>2. \A d \in Clients : client'[d].sendFrom = client[d].sendFrom
      BY <2>1, IdleFacts DEF ClientsType, ClientType
    <2>3. Covers(idle, client', req)
      BY <2>2, NothingMore
    <2> QED BY <2>1, <2>3
  <1>2. CASE (FrameClose(c) /\ ~client[c].open) \/ ReadFails(c)
    <2>1. Close(c, client, req, idle)
      BY <1>2 DEF FrameClose, ReadFails
    <2> QED BY <2>1, IdleFacts, CloseCovers
  <1> QED BY <1>1, <1>2, FrameRequestCovers, FrameConfirmLastCovers, FrameSendFromCovers
          DEF Frame

LEMMA StartRequestCovers ==
  ASSUME IdleInv, NEW c \in Clients, StartRequest(c)
  PROVE  Covers(idle', client', req')
  <1> DEFINE q == client[c].que
             r == Head(q)
             t == Tail(q)
  <1>1. /\ client' = [client EXCEPT ![c].cur = r, ![c].que = t, ![c].busy = TRUE]
        /\ q # <<>> /\ idle' = Minus(idle, 1)
        /\ \/ \E s \in {"query", "exec"} :
                 req' = [req EXCEPT ![r] = [req[r] EXCEPT !.st = "current", !.work = "active",
                                                          !.stage = s, !.linked = (s = "query")]]
           \/ \E to \in {c, None} :
                 req' = [req EXCEPT ![r] = [req[r] EXCEPT !.st = "current", !.work = "done",
                                                          !.sentTo = to]]
    BY DEF StartRequest, CanStart
  <1>2. q \in Seq(Requests)
    BY IdleFacts DEF ClientsType, ClientType
  <1>3. r \in Requests /\ r = q[1] /\ 1 \in 1 .. Len(q)
    BY <1>1, <1>2
  <1>4. req[r].st = "queued"
    BY <1>3, IdleFacts DEF Held
  <1> HIDE DEF q, r, t
  <1>5. \A d \in Clients : client'[d].sendFrom = client[d].sendFrom
    BY <1>1, IdleFacts DEF ClientsType, ClientType
  <1>6. /\ req'[r].st = "current" /\ ~Counts(req'[r])
        /\ \A s \in Requests \ {r} : req'[s] = req[s]
    <2>1. ASSUME NEW x, x.st = "current", ~Counts(x), req' = [req EXCEPT ![r] = x]
          PROVE  /\ req'[r].st = "current" /\ ~Counts(req'[r])
                 /\ \A s \in Requests \ {r} : req'[s] = req[s]
      BY <1>3, <2>1, IdleFacts DEF RequestsType
    <2>2. ASSUME NEW s \in {"query", "exec"},
                 req' = [req EXCEPT ![r] = [req[r] EXCEPT !.st = "current", !.work = "active",
                                                          !.stage = s, !.linked = (s = "query")]]
          PROVE  /\ req'[r].st = "current" /\ ~Counts(req'[r])
                 /\ \A p \in Requests \ {r} : req'[p] = req[p]
      <3> DEFINE l == s = "query"
                 x == [req[r] EXCEPT !.st = "current", !.work = "active",
                                     !.stage = s, !.linked = l]
      <3>1. req' = [req EXCEPT ![r] = x]
        BY <2>2
      <3> HIDE DEF l
      <3>2. x.st = "current" /\ ~Counts(x)
        BY <1>3, IdleFacts DEF RequestsType, RequestType, Counts, Polled
      <3> HIDE DEF x
      <3> QED BY <2>1, <3>1, <3>2
    <2>3. ASSUME NEW to \in {c, None},
                 req' = [req EXCEPT ![r] = [req[r] EXCEPT !.st = "current", !.work = "done",
                                                          !.sentTo = to]]
          PROVE  /\ req'[r].st = "current" /\ ~Counts(req'[r])
                 /\ \A s \in Requests \ {r} : req'[s] = req[s]
      <3> DEFINE x == [req[r] EXCEPT !.st = "current", !.work = "done", !.sentTo = to]
      <3>1. x.st = "current" /\ ~Counts(x)
        BY <1>3, IdleFacts DEF RequestsType, RequestType, Counts
      <3> QED BY <2>1, <2>3, <3>1
    <2> QED BY <1>1, <2>2, <2>3
  <1>7. /\ r \in Starts(req) /\ Starts(req') \in SUBSET (Starts(req) \ {r})
        /\ Works(req') \in SUBSET Works(req) /\ Sends(client') \in SUBSET Sends(client)
    BY <1>3, <1>4, <1>5, <1>6 DEF Starts, Works, Sends
  <1>8. IsFiniteSet(Starts(req')) /\ Cardinality(Starts(req')) + 1 <= Cardinality(Starts(req))
    BY <1>7, IdleFacts, OneLess
  <1>9. /\ IsFiniteSet(Works(req')) /\ Cardinality(Works(req')) + 0 <= Cardinality(Works(req))
        /\ IsFiniteSet(Sends(client'))
        /\ Cardinality(Sends(client')) + 0 <= Cardinality(Sends(client))
    BY <1>7, IdleFacts, SameOrFewer
  <1>10. idle' \in Nat /\ idle' + 1 + 0 + 0 >= idle
    BY <1>1, IdleFacts, MinusPlus
  <1> QED BY <1>8, <1>9, <1>10, CoversStep

\* The paused rows that go on were counted all the time, and are counted
\* once more.
LEMMA SendFromEndsCovers ==
  ASSUME IdleInv, NEW c \in Clients, SendFromEnds(c)
  PROVE  Covers(idle', client', req')
  <1> DEFINE f == client[c].sendFrom
             p == client[c].paused
             n == IF p = None THEN 0 ELSE PolledCount(req[p].stage)
             b == IF p = None THEN 0
                  ELSE (IF Counts(req[p]) THEN 1 ELSE 0) - (IF Counts(req'[p]) THEN 1 ELSE 0)
             o == client[c].open
  <1>1. /\ client' = [client EXCEPT ![c].sendFrom = None, ![c].paused = None]
        /\ f # None
        /\ req' = [r \in Requests |->
                     IF r = p THEN [req[r] EXCEPT !.work = "active"]
                     ELSE IF r = f /\ req[r].work = "done" /\ o
                          THEN [req[r] EXCEPT !.sentTo = c]
                     ELSE req[r]]
        /\ idle' = Minus(idle + n, 1)
    BY DEF SendFromEnds
  <1>2. p \in Requests \cup {None}
    BY IdleFacts DEF ClientsType, ClientType
  <1> HIDE DEF o
  <1>3. /\ client'[c].sendFrom = None
        /\ \A d \in Clients \ {c} : client'[d].sendFrom = client[d].sendFrom
    BY <1>1, IdleFacts DEF ClientsType, ClientType
  <1>4. /\ \A r \in Requests : req'[r].st = req[r].st /\ req'[r].stage = req[r].stage
        /\ \A r \in Requests \ {p} : req'[r].work = req[r].work
    BY <1>1, IdleFacts DEF RequestsType, RequestType
  <1>5. c \in Sends(client) /\ Sends(client') \in SUBSET (Sends(client) \ {c})
        /\ Starts(req') \in SUBSET Starts(req)
    BY <1>1, <1>3, <1>4 DEF Sends, Starts
  <1>6. p # None => req'[p].work = "active"
    BY <1>1, <1>2, IdleFacts DEF RequestsType, RequestType
  <1> HIDE DEF f, p
  <1>7. \A r \in Requests \ {p} : Counts(req'[r]) <=> Counts(req[r])
    BY <1>4 DEF Counts
  <1>8. n \in Nat /\ b \in Int /\ b + n >= 0
    <2>1. CASE p = None
      BY <2>1
    <2>2. CASE p # None
      <3>1. Counts(req'[p]) => PolledCount(req[p].stage) = 1
        BY <1>2, <1>4, <1>6, <2>2 DEF Counts, PolledCount
      <3> QED BY <2>2, <3>1 DEF PolledCount
    <2> QED BY <2>1, <2>2
  <1>9. IsFiniteSet(Works(req')) /\ Cardinality(Works(req')) + b <= Cardinality(Works(req))
    <2>1. CASE p = None
      <3>1. Works(req') \in SUBSET Works(req)
        BY <1>7, <2>1, NoneAssumption DEF Works
      <3> QED BY <2>1, <3>1, IdleFacts, SameOrFewer
    <2>2. CASE p # None
      <3>1. p \in Requests
        BY <1>2, <2>2
      <3>2. /\ IsFiniteSet(Works(req'))
            /\ Cardinality(Works(req')) + ((IF Counts(req[p]) THEN 1 ELSE 0)
                                           - (IF Counts(req'[p]) THEN 1 ELSE 0))
                 <= Cardinality(Works(req))
        BY <1>7, <3>1, OneWork
      <3> QED BY <2>2, <3>2
    <2> QED BY <2>1, <2>2
  <1> HIDE DEF n, b
  <1>10. IsFiniteSet(Sends(client')) /\ Cardinality(Sends(client')) + 1 <= Cardinality(Sends(client))
    BY <1>5, IdleFacts, OneLess
  <1>11. IsFiniteSet(Starts(req')) /\ Cardinality(Starts(req')) + 0 <= Cardinality(Starts(req))
    BY <1>5, IdleFacts, SameOrFewer
  <1>12. idle' \in Nat /\ idle' + 1 >= idle + n
    <2>1. idle + n \in Nat
      BY <1>8, IdleFacts
    <2> QED BY <1>1, <2>1, MinusPlus
  <1>13. idle' + 0 + b + 1 >= idle
    BY <1>8, <1>12, IdleFacts
  <1> QED BY <1>8, <1>9, <1>10, <1>11, <1>12, <1>13, CoversStep

LEMMA CallbackCovers ==
  ASSUME IdleInv, NEW c \in Clients, Callback(c)
  PROVE  Covers(idle', client', req')
  <1>1. CASE SendFromFreed(c)
    BY <1>1, IdleFacts DEF SendFromFreed
  <1>2. CASE CloseTimeout(c) \/ LoginExpires(c) \/ Logout(c)
    <2>1. CloseImmediate(c, client, req, idle)
      BY <1>2 DEF CloseTimeout, LoginExpires, Logout
    <2> QED BY <2>1, IdleFacts, CloseImmediateCovers
  <1> QED BY <1>1, <1>2, StartRequestCovers, SendFromEndsCovers DEF Callback

\* One request r goes on as x, and the counter as m.
LEMMA WorkStep ==
  ASSUME IdleInv, NEW r \in Requests, NEW x, x.st = "current", req[r].st = "current",
         NEW m \in Nat,
         m + ((IF Counts(req[r]) THEN 1 ELSE 0) - (IF Counts(x) THEN 1 ELSE 0)) >= idle,
         NEW cl, \A d \in Clients : cl[d].sendFrom = client[d].sendFrom
  PROVE  Covers(m, cl, [req EXCEPT ![r] = x])
  <1> DEFINE rq == [req EXCEPT ![r] = x]
             b == (IF Counts(req[r]) THEN 1 ELSE 0) - (IF Counts(x) THEN 1 ELSE 0)
  <1>1. rq[r] = x /\ \A s \in Requests \ {r} : rq[s] = req[s]
    BY IdleFacts DEF RequestsType
  <1> HIDE DEF rq
  <1>2. IsFiniteSet(Works(rq)) /\ Cardinality(Works(rq)) + b <= Cardinality(Works(req))
    <2>1. /\ IsFiniteSet(Works(rq))
          /\ Cardinality(Works(rq)) + ((IF Counts(req[r]) THEN 1 ELSE 0)
                                       - (IF Counts(rq[r]) THEN 1 ELSE 0))
               <= Cardinality(Works(req))
      BY <1>1, OneWork
    <2> QED BY <1>1, <2>1
  <1>3. Starts(rq) \in SUBSET Starts(req) /\ Sends(cl) \in SUBSET Sends(client)
    BY <1>1 DEF Starts, Sends
  <1>4. /\ IsFiniteSet(Starts(rq)) /\ Cardinality(Starts(rq)) + 0 <= Cardinality(Starts(req))
        /\ IsFiniteSet(Sends(cl)) /\ Cardinality(Sends(cl)) + 0 <= Cardinality(Sends(client))
    BY <1>3, IdleFacts, SameOrFewer
  <1>5. b \in Int /\ m + 0 + b + 0 >= idle
    OBVIOUS
  <1> HIDE DEF b
  <1>6. Covers(m, cl, rq)
    BY <1>2, <1>4, <1>5, CoversStep
  <1> QED BY <1>6 DEF rq

LEMMA AdvanceCovers ==
  ASSUME IdleInv, NEW r \in Requests, NEW s \in Stages, Advance(r, s)
  PROVE  Covers(idle', client', req')
  <1> DEFINE l == s = "query"
             x == [req[r] EXCEPT !.stage = s, !.linked = l]
             n == PolledCount(req[r].stage)
             k == PolledCount(s)
  <1>1. /\ req' = [req EXCEPT ![r] = x] /\ client' = client
        /\ idle' = Minus(idle + k, n)
        /\ req[r].st = "current" /\ req[r].work = "active"
    BY DEF Advance, Proceeds, Fires
  <1> HIDE DEF l
  <1>2. /\ x.st = "current"
        /\ (IF Counts(req[r]) THEN 1 ELSE 0) = n /\ (IF Counts(x) THEN 1 ELSE 0) = k
        /\ n \in Nat /\ k \in Nat
    BY <1>1, IdleFacts DEF RequestsType, RequestType, Counts, PolledCount
  <1> HIDE DEF x, n, k
  <1>3. idle' \in Nat /\ idle' + n >= idle + k
    <2>1. idle + k \in Nat
      BY <1>2, IdleFacts
    <2> QED BY <1>1, <1>2, <2>1, MinusPlus
  <1>4. idle' + ((IF Counts(req[r]) THEN 1 ELSE 0) - (IF Counts(x) THEN 1 ELSE 0)) >= idle
    BY <1>2, <1>3, IdleFacts
  <1> QED BY <1>1, <1>2, <1>3, <1>4, WorkStep

LEMMA FinishCovers ==
  ASSUME IdleInv, NEW r \in Requests, Finish(r)
  PROVE  Covers(idle', client', req')
  <1> DEFINE to == IF client[req[r].parent].open THEN req[r].parent ELSE None
             x == [req[r] EXCEPT !.work = "done", !.linked = FALSE, !.sentTo = to]
             n == PolledCount(req[r].stage)
  <1>1. /\ req' = [req EXCEPT ![r] = x] /\ client' = client
        /\ idle' = Minus(idle, n)
        /\ req[r].st = "current" /\ req[r].work = "active"
    BY DEF Finish, Proceeds, Fires
  <1> HIDE DEF to
  <1>2. /\ x.st = "current"
        /\ (IF Counts(req[r]) THEN 1 ELSE 0) = n /\ (IF Counts(x) THEN 1 ELSE 0) = 0
        /\ n \in Nat
    BY <1>1, IdleFacts DEF RequestsType, RequestType, Counts, PolledCount
  <1> HIDE DEF x, n
  <1>3. idle' \in Nat /\ idle' + n >= idle
    BY <1>1, <1>2, IdleFacts, MinusPlus
  <1>4. idle' + ((IF Counts(req[r]) THEN 1 ELSE 0) - (IF Counts(x) THEN 1 ELSE 0)) >= idle
    BY <1>2, <1>3, IdleFacts
  <1> QED BY <1>1, <1>2, <1>3, <1>4, WorkStep

\* A COPY gives its count back when it is paused; rows keep theirs.
LEMMA PauseCovers ==
  ASSUME IdleInv, NEW r \in Requests, Pause(r)
  PROVE  Covers(idle', client', req')
  <1> DEFINE c == req[r].parent
             new == [client[c] EXCEPT !.paused = r]
             cl == [client EXCEPT ![c] = new]
             x == [req[r] EXCEPT !.work = "paused", !.linked = FALSE]
             rq == [req EXCEPT ![r] = x]
             i == IF req[r].stage = "copy" THEN Minus(idle, 1) ELSE idle
  <1>1. /\ req[r].st = "current" /\ req[r].work = "active" /\ req[r].stage \in Pausable
        /\ Close(c, cl, rq, i)
    BY DEF Pause, Fires
  <1>2. c \in Clients
    BY <1>1, IdleFacts DEF Held
  <1>3. /\ new \in ClientType /\ new.cur = client[c].cur /\ new.que = client[c].que
        /\ new.busy = client[c].busy /\ new.st = client[c].st
        /\ new.sendFrom = client[c].sendFrom
    <2> HIDE DEF c
    <2>1. client[c] \in ClientType
      BY <1>2, IdleFacts DEF ClientsType
    <2> QED BY <2>1 DEF ClientType
  <1>4. x \in RequestType /\ x.st = req[r].st /\ x.parent = req[r].parent
    BY IdleFacts DEF RequestsType, RequestType
  <1>5. i \in Nat /\ i + ((IF Counts(req[r]) THEN 1 ELSE 0) - (IF Counts(x) THEN 1 ELSE 0)) >= idle
    <2>1. x.work = "paused" /\ x.stage = req[r].stage
      BY IdleFacts DEF RequestsType, RequestType
    <2>2. CASE req[r].stage = "copy"
      <3>1. Counts(req[r]) /\ ~Counts(x)
        BY <1>1, <2>1, <2>2 DEF Counts, Polled
      <3>2. i = Minus(idle, 1)
        BY <2>2
      <3>3. i \in Nat /\ i + 1 >= idle
        BY <3>2, IdleFacts, MinusPlus
      <3> HIDE DEF i
      <3> QED BY <3>1, <3>3
    <2>3. CASE req[r].stage # "copy"
      <3>1. Counts(req[r]) <=> Counts(x)
        BY <1>1, <1>4, <2>1, <2>3 DEF Counts, Polled, Pausable
      <3> QED BY <2>3, <3>1, IdleFacts
    <2> QED BY <2>2, <2>3
  <1> HIDE DEF new, x, i
  <1>6. cl \in ClientsType /\ rq \in RequestsType
    BY <1>3, <1>4, IdleFacts DEF ClientsType, RequestsType
  <1>7. \A d \in Clients :
          /\ cl[d].cur = client[d].cur /\ cl[d].que = client[d].que
          /\ cl[d].busy = client[d].busy /\ cl[d].st = client[d].st
          /\ cl[d].sendFrom = client[d].sendFrom
    BY <1>3, IdleFacts DEF ClientsType
  <1>8. \A s \in Requests : rq[s].st = req[s].st /\ rq[s].parent = req[s].parent
    BY <1>4, IdleFacts DEF RequestsType
  <1> HIDE DEF c, cl
  <1>9. Covers(i, cl, rq)
    BY <1>1, <1>4, <1>5, <1>7, WorkStep
  <1> HIDE DEF rq
  <1>10. Held(cl, rq)
    BY <1>7, <1>8, IdleFacts, UntouchedHeld
  <1> QED BY <1>1, <1>2, <1>5, <1>6, <1>9, <1>10, CloseCovers

LEMMA WorkCovers ==
  ASSUME IdleInv, NEW r \in Requests, Work(r)
  PROVE  Covers(idle', client', req')
  BY AdvanceCovers, FinishCovers, PauseCovers DEF Work

\* Steps of the clock, of poll and of the browser.
LEMMA OutsideCovers ==
  ASSUME IdleInv, Tick \/ Sleep \/ Wake \/ UNCHANGED vars \/ \E c \in Clients : BrowserLeaves(c)
  PROVE  Covers(idle', client', req')
  <1>1. idle' = idle /\ req' = req
    BY DEF Tick, Sleep, Wake, vars, BrowserLeaves
  <1>2. \A d \in Clients : client'[d].sendFrom = client[d].sendFrom
    <2>1. CASE Tick
      BY <2>1, IdleFacts DEF Tick, ClientsType, ClientType
    <2>2. CASE Sleep \/ Wake \/ UNCHANGED vars
      BY <2>2 DEF Sleep, Wake, vars
    <2>3. ASSUME NEW c \in Clients, BrowserLeaves(c)
          PROVE  \A d \in Clients : client'[d].sendFrom = client[d].sendFrom
      BY <2>3, IdleFacts DEF BrowserLeaves, ClientsType, ClientType
    <2> QED BY <2>1, <2>2, <2>3
  <1>3. Covers(idle, client', req)
    BY <1>2, NothingMore
  <1> QED BY <1>1, <1>3

LEMMA NextIdle == IdleInv /\ [Next]_vars => IdleInv'
  <1> SUFFICES ASSUME IdleInv, [Next]_vars PROVE IdleInv'
    OBVIOUS
  <1>1. HeldInv'
    BY NextHeld DEF IdleInv
  <1>2. Covers(idle', client', req')
    BY HandshakeCovers, ConnectionEventCovers, FrameCovers, CallbackCovers, WorkCovers,
       OutsideCovers DEF Next
  <1> QED BY <1>1, <1>2 DEF IdleInv

\* A set of pairs with the same first element is no larger than the set of
\* the second ones.
LEMMA Tagged ==
  ASSUME NEW tag, NEW S, IsFiniteSet(S), NEW T, T = {<<tag, x>> : x \in S}
  PROVE  IsFiniteSet(T) /\ Cardinality(T) <= Cardinality(S)
  <1> DEFINE f == [x \in S |-> <<tag, x>>]
  <1>1. f \in Surjection(S, T)
    BY DEF Surjection
  <1> HIDE DEF f
  <1> QED BY <1>1, FS_Surjection

LEMMA UnionSize ==
  ASSUME NEW S, IsFiniteSet(S), NEW T, IsFiniteSet(T)
  PROVE  IsFiniteSet(S \cup T) /\ Cardinality(S \cup T) <= Cardinality(S) + Cardinality(T)
  <1>1. /\ IsFiniteSet(S \cup T)
        /\ Cardinality(S \cup T) = Cardinality(S) + Cardinality(T) - Cardinality(S \cap T)
    BY FS_Union
  <1>2. IsFiniteSet(S \cap T)
    BY FS_Subset
  <1>3. Cardinality(S \cap T) \in Nat /\ Cardinality(S) \in Nat /\ Cardinality(T) \in Nat
    BY <1>2, CardNat
  <1> QED BY <1>1, <1>3

LEMMA WaitingCovered == IdleInv => IdleCoversWaiting
  <1> SUFFICES ASSUME IdleInv PROVE IdleCoversWaiting
    OBVIOUS
  <1> DEFINE P == {r \in Requests : /\ req[r].st = "current" /\ req[r].work = "active"
                                    /\ req[r].stage \in Polled}
             A == {<<"start", r>> : r \in Starts(req)}
             B == {<<"work", r>> : r \in P}
             C == {<<"send", c>> : c \in Sends(client)}
  <1>1. Waiting = A \cup B \cup C
    BY DEF Waiting, Starts, Sends
  <1>2. P \in SUBSET Works(req)
    BY DEF Works, Counts
  <1>3. IsFiniteSet(P) /\ Cardinality(P) <= Cardinality(Works(req))
    BY <1>2, IdleFacts, FS_Subset
  <1>4. IsFiniteSet(A) /\ Cardinality(A) <= Cardinality(Starts(req))
    BY IdleFacts, Tagged
  <1>5. IsFiniteSet(B) /\ Cardinality(B) <= Cardinality(P)
    BY <1>3, Tagged
  <1>6. IsFiniteSet(C) /\ Cardinality(C) <= Cardinality(Sends(client))
    BY IdleFacts, Tagged
  <1> HIDE DEF P, A, B, C
  <1>7. IsFiniteSet(A \cup B) /\ Cardinality(A \cup B) <= Cardinality(A) + Cardinality(B)
    BY <1>4, <1>5, UnionSize
  <1>8. /\ IsFiniteSet(A \cup B \cup C)
        /\ Cardinality(A \cup B \cup C) <= Cardinality(A \cup B) + Cardinality(C)
    BY <1>6, <1>7, UnionSize
  <1>9. idle >= Cardinality(Starts(req)) + Cardinality(Works(req)) + Cardinality(Sends(client))
    BY IdleFacts DEF Covers, Within
  <1>10. /\ Cardinality(A) \in Nat /\ Cardinality(B) \in Nat /\ Cardinality(C) \in Nat
         /\ Cardinality(P) \in Nat /\ Cardinality(A \cup B) \in Nat
         /\ Cardinality(A \cup B \cup C) \in Nat
         /\ Cardinality(Starts(req)) \in Nat /\ Cardinality(Works(req)) \in Nat
         /\ Cardinality(Sends(client)) \in Nat
    BY <1>3, <1>4, <1>5, <1>6, <1>7, <1>8, IdleFacts, CardNat
  <1>11. idle >= Cardinality(A \cup B \cup C)
    BY <1>3, <1>4, <1>5, <1>6, <1>7, <1>8, <1>9, <1>10, IdleFacts
  <1> QED BY <1>1, <1>11 DEF IdleCoversWaiting

\* The idle counter covers every check callback that waits for the loop to
\* turn, through every close, recovery, pause and resume: the loop never
\* blocks in poll with work to do.
THEOREM IdleIsCovered == Spec => []IdleCoversWaiting
  BY InitIdle, NextIdle, WaitingCovered, PTL DEF Spec

-----------------------------------------------------------------------------
(* ClientSession implements SessionQueue.  The queue of a session is that  *)
(* of the client that holds its connection, chosen among all clients.  The *)
(* proof never looks at the choice: ConnInv leaves one holder at most, so  *)
(* the abstract state is the only pair of functions that Shows what the    *)
(* clients hold, and a step is simulated when the functions the abstract   *)
(* step yields show the new clients.                                       *)

QueuesType == [Clients -> Seq(Requests)]
RunningType == [Clients -> Requests \cup {None}]

\* The functions queues and running are what the clients cl hold for their
\* connections; a connection that nobody holds has nothing to do.
Shows(queues, running, cl) ==
    /\ \A c \in Clients : cl[c].conn # None =>
          queues[cl[c].conn] = cl[c].que /\ running[cl[c].conn] = cl[c].cur
    /\ \A k \in Clients : (\A c \in Clients : cl[c].conn # k) =>
          queues[k] = <<>> /\ running[k] = None

QueuesShow ==
    /\ Queues \in QueuesType
    /\ Running \in RunningType
    /\ Shows(Queues, Running, client)

Freed(rq) == {r \in Requests : rq[r].st = "freed"}

-----------------------------------------------------------------------------
(* The refinement mapping.                                                 *)

LEMMA MappingShows == ConnInv => QueuesShow
  <1> SUFFICES ASSUME ConnInv PROVE QueuesShow
    OBVIOUS
  <1>1. client \in ClientsType /\ Connection(client, conn)
    BY DEF ConnInv, HeldInv, TypeOK, ClientsType
  <1>2. \A c \in Clients : /\ client[c].conn \in Clients \cup {None}
                           /\ client[c].que \in Seq(Requests)
                           /\ client[c].cur \in Requests \cup {None}
    BY <1>1 DEF ClientsType, ClientType
  <1>3. ASSUME NEW k \in Clients, Holders(k) # {}
        PROVE  /\ Holder(k) \in Clients /\ client[Holder(k)].conn = k
               /\ Queues[k] = client[Holder(k)].que
               /\ Running[k] = client[Holder(k)].cur
    <2>1. Holder(k) \in Holders(k)
      BY <1>3 DEF Holder
    <2> QED BY <1>3, <2>1 DEF Holders, Queues, Running
  <1>4. ASSUME NEW k \in Clients, Holders(k) = {}
        PROVE  Queues[k] = <<>> /\ Running[k] = None
    BY <1>4 DEF Queues, Running
  <1>5. Queues \in QueuesType
    <2>1. <<>> \in Seq(Requests)
      OBVIOUS
    <2>2. ASSUME NEW k \in Clients PROVE Queues[k] \in Seq(Requests)
      <3>1. CASE Holders(k) = {}
        BY <1>4, <2>1, <3>1
      <3>2. CASE Holders(k) # {}
        BY <1>2, <1>3, <3>2
      <3> QED BY <3>1, <3>2
    <2> QED BY <2>2 DEF QueuesType, Queues
  <1>6. Running \in RunningType
    <2>1. \A k \in Clients : Running[k] \in Requests \cup {None}
      BY <1>2, <1>3, <1>4
    <2> QED BY <2>1 DEF RunningType, Running
  <1>7. ASSUME NEW c \in Clients, client[c].conn # None
        PROVE  Queues[client[c].conn] = client[c].que /\ Running[client[c].conn] = client[c].cur
    <2> DEFINE k == client[c].conn
    <2>1. k \in Clients /\ c \in Holders(k)
      BY <1>2, <1>7 DEF Holders
    <2>2. Holder(k) = c
      BY <1>1, <1>3, <1>7, <2>1 DEF Connection
    <2> QED BY <1>3, <2>1, <2>2
  <1>8. ASSUME NEW k \in Clients, \A c \in Clients : client[c].conn # k
        PROVE  Queues[k] = <<>> /\ Running[k] = None
    BY <1>4, <1>8 DEF Holders
  <1> QED BY <1>5, <1>6, <1>7, <1>8 DEF QueuesShow, Shows

LEMMA MappingShowsNext == ConnInv' => QueuesShow'
  BY MappingShows, PTL

\* Only one pair of functions shows what the clients of a state hold.
LEMMA OneMapping ==
  ASSUME ConnInv', NEW queues \in QueuesType, NEW running \in RunningType,
         Shows(queues, running, client')
  PROVE  Queues' = queues /\ Running' = running
  <1>1. /\ Queues' \in QueuesType /\ Running' \in RunningType
        /\ Shows(Queues', Running', client')
    BY MappingShowsNext DEF QueuesShow, Shows, QueuesType, RunningType
  <1>2. ASSUME NEW k \in Clients
        PROVE  Queues'[k] = queues[k] /\ Running'[k] = running[k]
    <2>1. CASE \E c \in Clients : client'[c].conn = k
      BY <1>1, <2>1, NoneAssumption DEF Shows
    <2>2. CASE ~\E c \in Clients : client'[c].conn = k
      BY <1>1, <2>2 DEF Shows
    <2> QED BY <2>1, <2>2
  <1> QED BY <1>1, <1>2 DEF QueuesType, RunningType

LEMMA OverNext == Over = Freed(req) /\ Over' = Freed(req')
  BY DEF Over, Freed
-----------------------------------------------------------------------------
(* What a session has still to do.                                         *)

Doing(c, cl) == RangeOf(cl[c].que) \cup ({cl[c].cur} \ {None})

LEMMA PendingIsDoing ==
  ASSUME NEW cl, Shows(Queues, Running, cl)
  PROVE  /\ \A c \in Clients : cl[c].conn # None => Queue!Pending(cl[c].conn) = Doing(c, cl)
         /\ \A k \in Clients : (\A c \in Clients : cl[c].conn # k) => Queue!Pending(k) = {}
  BY DEF Shows, Queue!Pending, Doing, RangeOf

LEMMA DoingIsHeld ==
  ASSUME NEW cl \in ClientsType, NEW rq, Held(cl, rq), NEW c \in Clients
  PROVE  \A r \in Doing(c, cl) : /\ r \in Requests /\ rq[r].parent = c
                                 /\ rq[r].st \in {"queued", "current"}
  <1>1. /\ cl[c].cur \in Requests \cup {None}
        /\ \A j \in 1 .. Len(cl[c].que) : cl[c].que[j] \in Requests
    BY DEF ClientsType, ClientType
  <1> QED BY <1>1 DEF Held, Doing, RangeOf

\* A request is new to the sessions when it is not freed and no client that
\* has a session does it.
LEMMA IsFresh ==
  ASSUME NEW cl, NEW rq, Shows(Queues, Running, cl), Freed(rq) = Freed(req),
         NEW r \in Requests, rq[r].st # "freed",
         \A c \in Clients : cl[c].conn # None => r \notin Doing(c, cl)
  PROVE  r \in Queue!Fresh
  <1>1. r \notin Over
    BY OverNext DEF Freed
  <1>2. ASSUME NEW k \in Clients PROVE r \notin Queue!Pending(k)
    <2>1. CASE \E c \in Clients : cl[c].conn = k
      BY <2>1, PendingIsDoing, NoneAssumption
    <2>2. CASE ~\E c \in Clients : cl[c].conn = k
      BY <2>2, PendingIsDoing
    <2> QED BY <2>1, <2>2
  <1> QED BY <1>1, <1>2 DEF Queue!Fresh

-----------------------------------------------------------------------------
(* One lemma per kind of step.                                             *)

\* A step that hands sessions over, or does not touch them, is not seen.
LEMMA Unseen ==
  ASSUME ConnInv, ConnInv', Shows(Queues, Running, client'), Freed(req') = Freed(req)
  PROVE  UNCHANGED Queue!qvars
  BY MappingShows, OneMapping, OverNext DEF QueuesShow, Queue!qvars

LEMMA SameShown ==
  ASSUME NEW cl1, NEW cl2, Shows(Queues, Running, cl1),
         \A c \in Clients : /\ cl2[c].conn = cl1[c].conn /\ cl2[c].que = cl1[c].que
                            /\ cl2[c].cur = cl1[c].cur
  PROVE  Shows(Queues, Running, cl2)
  BY DEF Shows

\* Freeing a client ends its session, and drops what it held without one.
LEMMA CloseImmediateEnds ==
  ASSUME ConnInv, ConnInv', NEW c \in Clients, NEW cl \in ClientsType,
         NEW rq \in RequestsType, NEW i, CloseImmediate(c, cl, rq, i), Held(cl, rq),
         Shows(Queues, Running, cl), Freed(rq) = Freed(req),
         \A d, e \in Clients : cl[d].conn # None /\ cl[d].conn = cl[e].conn => d = e
  PROVE  Queue!QueueNext
  <1>1. /\ client' = [cl EXCEPT ![c] = FreedClient]
        /\ req' = [r \in Requests |->
                     IF r = cl[c].cur \/ r \in RangeOf(cl[c].que)
                     THEN FreedRequest(rq[r]) ELSE rq[r]]
    BY DEF CloseImmediate
  <1>2. /\ client'[c].conn = None
        /\ \A d \in Clients \ {c} : client'[d] = cl[d]
    BY <1>1 DEF FreedClient, NewClient, ClientsType
  <1>3. Over' = Over \cup Doing(c, cl)
    <2>1. \A r \in Requests : (r = cl[c].cur \/ r \in RangeOf(cl[c].que)) <=> r \in Doing(c, cl)
      BY NoneAssumption DEF Doing
    <2>2. \A r \in Requests : IF r \in Doing(c, cl) THEN req'[r].st = "freed"
                                                    ELSE req'[r] = rq[r]
      BY <1>1, <2>1, FreedRequestType DEF RequestsType
    <2>3. Doing(c, cl) \subseteq Requests
      BY DoingIsHeld
    <2>4. Freed(req') = Freed(rq) \cup Doing(c, cl)
      BY <2>2, <2>3 DEF Freed
    <2> QED BY <2>4, OverNext
  <1>4. Queues \in QueuesType /\ Running \in RunningType
    BY MappingShows DEF QueuesShow
  <1>5. CASE cl[c].conn = None
    <2>1. Shows(Queues, Running, client')
      BY <1>2, <1>5, NoneAssumption DEF Shows
    <2>2. Queues' = Queues /\ Running' = Running
      BY <1>4, <2>1, OneMapping
    <2>3. Doing(c, cl) \in SUBSET Requests
      BY DoingIsHeld
    <2>4. ASSUME NEW r \in Doing(c, cl) PROVE r \in Queue!Fresh
      <3>1. /\ r \in Requests /\ rq[r].parent = c /\ rq[r].st # "freed"
        BY DoingIsHeld
      <3>2. \A d \in Clients : cl[d].conn # None => r \notin Doing(d, cl)
        BY <1>5, <3>1, DoingIsHeld
      <3> QED BY <3>1, <3>2, IsFresh
    <2>5. Queue!Refuse(Doing(c, cl))
      BY <1>3, <2>2, <2>4 DEF Queue!Refuse
    <2> QED BY <2>3, <2>5 DEF Queue!QueueNext
  <1>6. CASE cl[c].conn # None
    <2> DEFINE k == cl[c].conn
               queues == [Queues EXCEPT ![k] = <<>>]
               running == [Running EXCEPT ![k] = None]
    <2>1. k \in Clients
      BY <1>6 DEF ClientsType, ClientType
    <2>2. queues \in QueuesType /\ running \in RunningType
      <3>1. <<>> \in Seq(Requests)
        OBVIOUS
      <3> QED BY <1>4, <2>1, <3>1 DEF QueuesType, RunningType
    <2>3. \A d \in Clients \ {c} : cl[d].conn # k
      BY <1>6
    <2>4. /\ queues[k] = <<>> /\ running[k] = None
          /\ \A j \in Clients \ {k} : queues[j] = Queues[j] /\ running[j] = Running[j]
      BY <1>4, <2>1 DEF QueuesType, RunningType
    <2> HIDE DEF queues, running
    <2>5. \A d \in Clients : cl[d].conn \in Clients \cup {None}
      BY DEF ClientsType, ClientType
    <2>6. ASSUME NEW d \in Clients, client'[d].conn # None
          PROVE  /\ queues[client'[d].conn] = client'[d].que
                 /\ running[client'[d].conn] = client'[d].cur
      BY <1>2, <2>3, <2>4, <2>5, <2>6 DEF Shows
    <2>7. ASSUME NEW j \in Clients, \A d \in Clients : client'[d].conn # j
          PROVE  queues[j] = <<>> /\ running[j] = None
      BY <1>2, <2>4, <2>7 DEF Shows
    <2>8. Queues' = queues /\ Running' = running
      BY <2>2, <2>6, <2>7, OneMapping DEF Shows
    <2>9. Over' = Over \cup Queue!Pending(k)
      BY <1>3, <1>6, PendingIsDoing
    <2>10. Queue!End(k)
      BY <2>8, <2>9 DEF Queue!End, queues, running
    <2> QED BY <2>1, <2>10 DEF Queue!QueueNext
  <1> QED BY <1>5, <1>6

LEMMA CloseEnds ==
  ASSUME ConnInv, ConnInv', NEW c \in Clients, NEW cl \in ClientsType,
         NEW rq \in RequestsType, NEW i, Close(c, cl, rq, i), Held(cl, rq),
         Shows(Queues, Running, cl), Freed(rq) = Freed(req),
         \A d, e \in Clients : cl[d].conn # None /\ cl[d].conn = cl[e].conn => d = e
  PROVE  [Queue!QueueNext]_Queue!qvars
  <1>1. CASE ~Authorized(c, cl) \/ cl[c].cur = None
    BY <1>1, CloseImmediateEnds DEF Close
  <1>2. CASE ~(~Authorized(c, cl) \/ cl[c].cur = None)
    <2>1. client' = [cl EXCEPT ![c] = Lingering(cl[c])] /\ req' = rq
      BY <1>2 DEF Close
    <2>2. \A d \in Clients :
            /\ client'[d].conn = cl[d].conn /\ client'[d].que = cl[d].que
            /\ client'[d].cur = cl[d].cur
      BY <2>1 DEF Lingering, ClientsType, ClientType
    <2> QED BY <2>1, <2>2, SameShown, Unseen
  <1> QED BY <1>1, <1>2
\* A step on the requests of c alone, which the session of c takes too.
LEMMA HolderSteps ==
  ASSUME ConnInv, ConnInv', NEW c \in Clients, client[c].conn # None,
         \A d \in Clients : client'[d].conn = client[d].conn,
         \A d \in Clients \ {c} : client'[d].que = client[d].que /\ client'[d].cur = client[d].cur
  PROVE  LET k == client[c].conn IN
         /\ k \in Clients
         /\ Queues[k] = client[c].que /\ Running[k] = client[c].cur
         /\ Queues' = [Queues EXCEPT ![k] = client'[c].que]
         /\ Running' = [Running EXCEPT ![k] = client'[c].cur]
  <1> DEFINE k == client[c].conn
             queues == [Queues EXCEPT ![k] = client'[c].que]
             running == [Running EXCEPT ![k] = client'[c].cur]
  <1>1. /\ Queues \in QueuesType /\ Running \in RunningType
        /\ Shows(Queues, Running, client)
    BY MappingShows DEF QueuesShow
  <1>2. /\ client \in ClientsType /\ client' \in ClientsType
        /\ \A d, e \in Clients : client[d].conn # None /\ client[d].conn = client[e].conn => d = e
    BY DEF ConnInv, HeldInv, TypeOK, ClientsType, Connection
  <1>3. /\ \A d \in Clients : client[d].conn \in Clients \cup {None}
        /\ client'[c].que \in Seq(Requests) /\ client'[c].cur \in Requests \cup {None}
    BY <1>2 DEF ClientsType, ClientType
  <1>4. /\ queues \in QueuesType /\ running \in RunningType
        /\ queues[k] = client'[c].que /\ running[k] = client'[c].cur
        /\ \A j \in Clients \ {k} : queues[j] = Queues[j] /\ running[j] = Running[j]
    BY <1>1, <1>3 DEF QueuesType, RunningType
  <1> HIDE DEF queues, running
  <1>5. ASSUME NEW d \in Clients, client'[d].conn # None
        PROVE  queues[client'[d].conn] = client'[d].que /\ running[client'[d].conn] = client'[d].cur
    <2>1. CASE d = c
      BY <1>4, <2>1
    <2>2. CASE d # c
      BY <1>1, <1>2, <1>3, <1>4, <1>5, <2>2 DEF Shows
    <2> QED BY <2>1, <2>2
  <1>6. ASSUME NEW j \in Clients, \A d \in Clients : client'[d].conn # j
        PROVE  queues[j] = <<>> /\ running[j] = None
    BY <1>1, <1>4, <1>6 DEF Shows
  <1>7. Queues' = queues /\ Running' = running
    BY <1>4, <1>5, <1>6, OneMapping DEF Shows
  <1> QED BY <1>1, <1>3, <1>7 DEF Shows, queues, running

\* The same of a client without a session, which is not seen.
LEMMA NoSessionSteps ==
  ASSUME ConnInv, ConnInv', NEW c \in Clients, client[c].conn = None,
         \A d \in Clients : client'[d].conn = client[d].conn,
         \A d \in Clients \ {c} : client'[d].que = client[d].que /\ client'[d].cur = client[d].cur
  PROVE  Queues' = Queues /\ Running' = Running
  <1>1. /\ Queues \in QueuesType /\ Running \in RunningType
        /\ Shows(Queues, Running, client)
    BY MappingShows DEF QueuesShow
  <1>2. Shows(Queues, Running, client')
    BY <1>1 DEF Shows
  <1> QED BY <1>1, <1>2, OneMapping

\* The hand-over of a recovery: the sessions stay as they are, whoever holds
\* them.
LEMMA HandedOver ==
  ASSUME ConnInv, NEW c \in Clients, NEW old \in Clients, client[c].st = "none", c # old,
         NEW cl,
         /\ cl[c].conn = client[old].conn /\ cl[c].que = client[old].que
         /\ cl[c].cur = client[old].cur /\ cl[old].conn = None
         /\ \A d \in Clients \ {c, old} : cl[d] = client[d]
  PROVE  /\ Shows(Queues, Running, cl) /\ Freed(Adopted(c, old)) = Freed(req)
         /\ \A d, e \in Clients : cl[d].conn # None /\ cl[d].conn = cl[e].conn => d = e
  <1>1. /\ Connection(client, conn) /\ client[c].conn = None
        /\ Shows(Queues, Running, client)
    BY MappingShows DEF ConnInv, Connection, QueuesShow
  <1>2. Shows(Queues, Running, cl)
    <2>1. \A d \in Clients : cl[d].conn # None =>
            Queues[cl[d].conn] = cl[d].que /\ Running[cl[d].conn] = cl[d].cur
      BY <1>1 DEF Shows
    <2>2. ASSUME NEW k \in Clients, \A d \in Clients : cl[d].conn # k
          PROVE  \A d \in Clients : client[d].conn # k
      BY <1>1, <2>2, NoneAssumption
    <2> QED BY <1>1, <2>1, <2>2 DEF Shows
  <1>3. \A r \in Requests : Adopted(c, old)[r].st = req[r].st
    BY DEF Adopted, ConnInv, HeldInv, TypeOK, RequestType
  <1>4. Freed(Adopted(c, old)) = Freed(req)
    BY <1>3 DEF Freed
  <1> QED BY <1>1, <1>2, <1>4 DEF Connection

LEMMA HandshakeHidden ==
  ASSUME ConnInv, ConnInv', NEW c \in Clients, NEW old \in Clients \cup {None}, Handshake(c, old)
  PROVE  [Queue!QueueNext]_Queue!qvars
  <1>1. /\ TypeOK /\ Held(client, req) /\ Connection(client, conn)
        /\ Queues \in QueuesType /\ Running \in RunningType
        /\ Shows(Queues, Running, client)
    BY MappingShows DEF ConnInv, HeldInv, QueuesShow
  <1>2. CASE \E sameCookie, loggedIn \in BOOLEAN : OpenSession(c, old, sameCookie, loggedIn)
    <2> PICK sameCookie \in BOOLEAN, loggedIn \in BOOLEAN :
               OpenSession(c, old, sameCookie, loggedIn)
      BY <1>2
    <2> DEFINE new == [Upgraded(old, loggedIn) EXCEPT !.conn = IF loggedIn THEN c ELSE None]
    <2>1. /\ client' = [client EXCEPT ![c] = new] /\ client[c].st = "none" /\ req' = req
      BY DEF OpenSession
    <2>2. new.conn \in {c, None} /\ new.que = <<>> /\ new.cur = None
      BY UpgradedType DEF ClientType
    <2> HIDE DEF new
    <2>3. client'[c] = new /\ \A d \in Clients \ {c} : client'[d] = client[d]
      BY <1>1, <2>1 DEF TypeOK
    <2>4. client[c].conn = None /\ conn[c].phase = "none"
      BY <1>1, <2>1 DEF Connection
    <2>5. \A d \in Clients : client[d].conn # c
      BY <1>1, <2>4, NoneAssumption DEF Connection, LivePhase
    <2>6. Queues[c] = <<>> /\ Running[c] = None
      BY <1>1, <2>5 DEF Shows
    <2>7. Shows(Queues, Running, client')
      BY <1>1, <2>2, <2>3, <2>4, <2>6, NoneAssumption DEF Shows
    <2> QED BY <2>1, <2>7, Unseen
  <1>3. CASE \E loggedIn \in BOOLEAN : RecoverSession(c, old, loggedIn)
    <2> PICK loggedIn \in BOOLEAN : RecoverSession(c, old, loggedIn)
      BY <1>3
    <2> DEFINE new == Moved(Upgraded(old, loggedIn), old)
               cl == [client EXCEPT ![c] = new, ![old] = Emptied(old)]
    <2>1. /\ client[c].st = "none" /\ Listed(old) /\ c # old /\ old \in Clients
          /\ CloseImmediate(old, cl, Adopted(c, old), idle)
      BY DEF RecoverSession, Recoverable, Listed
    <2>2. /\ new \in ClientType /\ new.cur = client[old].cur /\ new.que = client[old].que
          /\ new.busy = client[old].busy /\ new.st = "listed" /\ new.conn = client[old].conn
      BY <1>1, <2>1, UpgradedType, MovedType
    <2>3. /\ Emptied(old) \in ClientType /\ Emptied(old).cur = None
          /\ Emptied(old).que = <<>> /\ Emptied(old).conn = None
      BY <1>1, <2>1, EmptiedType
    <2> HIDE DEF new
    <2>4. /\ cl \in ClientsType /\ Adopted(c, old) \in RequestsType
          /\ cl[c] = new /\ cl[old] = Emptied(old)
          /\ \A d \in Clients \ {c, old} : cl[d] = client[d]
      BY <1>1, <2>1, <2>2, <2>3, AdoptedType DEF TypeOK, ClientsType
    <2> HIDE DEF cl
    <2>5. Held(cl, Adopted(c, old))
      BY <1>1, <2>1, <2>2, <2>3, <2>4, AdoptedHeld DEF Listed
    <2>6. /\ Shows(Queues, Running, cl) /\ Freed(Adopted(c, old)) = Freed(req)
          /\ \A d, e \in Clients : cl[d].conn # None /\ cl[d].conn = cl[e].conn => d = e
      BY <1>1, <2>1, <2>2, <2>3, <2>4, HandedOver
    <2> QED BY <2>1, <2>4, <2>5, <2>6, CloseImmediateEnds
  <1>4. CASE RecoverThenFail(c, old)
    <2> DEFINE up == Upgraded(old, TRUE)
               moved == Moved(up, old)
               new == [moved EXCEPT !.gone = TRUE]
               cl == [client EXCEPT ![c] = new, ![old] = FreedClient]
               i == Minus(idle, IF client[old].sendFrom = None THEN 0 ELSE 1)
    <2>1. /\ client[c].st = "none" /\ Listed(old) /\ c # old /\ old \in Clients
          /\ CloseImmediate(c, cl, Adopted(c, old), i)
      BY <1>4 DEF RecoverThenFail, Recoverable, Listed
    <2>2. up \in ClientType /\ up.st = "listed"
      BY UpgradedType
    <2> HIDE DEF up
    <2>3. /\ moved \in ClientType /\ moved.cur = client[old].cur /\ moved.que = client[old].que
          /\ moved.busy = client[old].busy /\ moved.st = "listed"
          /\ moved.conn = client[old].conn
      BY <1>1, <2>1, <2>2, MovedType
    <2> HIDE DEF moved
    <2>4. /\ new \in ClientType /\ new.cur = client[old].cur /\ new.que = client[old].que
          /\ new.busy = client[old].busy /\ new.st = "listed" /\ new.conn = client[old].conn
      BY <2>3 DEF ClientType
    <2>5. FreedClient.cur = None /\ FreedClient.que = <<>> /\ FreedClient.conn = None
      BY DEF FreedClient, NewClient
    <2> HIDE DEF new
    <2>6. /\ cl \in ClientsType /\ Adopted(c, old) \in RequestsType
          /\ cl[c] = new /\ cl[old] = FreedClient
          /\ \A d \in Clients \ {c, old} : cl[d] = client[d]
      BY <1>1, <2>1, <2>4, NewTypes, AdoptedType DEF TypeOK, ClientsType
    <2> HIDE DEF cl, i
    <2>7. Held(cl, Adopted(c, old))
      BY <1>1, <2>1, <2>4, <2>5, <2>6, AdoptedHeld DEF Listed
    <2>8. /\ Shows(Queues, Running, cl) /\ Freed(Adopted(c, old)) = Freed(req)
          /\ \A d, e \in Clients : cl[d].conn # None /\ cl[d].conn = cl[e].conn => d = e
      BY <1>1, <2>1, <2>4, <2>5, <2>6, HandedOver
    <2> QED BY <2>1, <2>6, <2>7, <2>8, CloseImmediateEnds
  <1> QED BY <1>2, <1>3, <1>4 DEF Handshake
\* What every lemma below starts from.
LEMMA Facts ==
  ASSUME ConnInv
  PROVE  /\ client \in ClientsType /\ req \in RequestsType /\ Held(client, req)
         /\ Queues \in QueuesType /\ Running \in RunningType
         /\ Shows(Queues, Running, client)
         /\ \A d, e \in Clients :
               client[d].conn # None /\ client[d].conn = client[e].conn => d = e
  BY MappingShows
     DEF ConnInv, HeldInv, TypeOK, ClientsType, RequestsType, Connection, QueuesShow

\* Steps that hold and free nothing new.
LEMMA Untouched ==
  ASSUME ConnInv, ConnInv',
         \A d \in Clients : /\ client'[d].conn = client[d].conn /\ client'[d].que = client[d].que
                            /\ client'[d].cur = client[d].cur,
         \A r \in Requests : req'[r].st = req[r].st
  PROVE  UNCHANGED Queue!qvars
  <1>1. Shows(Queues, Running, client')
    BY Facts, SameShown
  <1>2. Freed(req') = Freed(req)
    BY DEF Freed
  <1> QED BY <1>1, <1>2, Unseen

LEMMA ConnectionEventHidden ==
  ASSUME ConnInv, ConnInv', NEW k \in Clients, ConnectionEvent(k)
  PROVE  UNCHANGED Queue!qvars
  <1>1. CASE \E phase \in {"up", "bad"} : Connected(k, phase)
    <2> PICK phase \in {"up", "bad"} : Connected(k, phase)
      BY <1>1
    <2>1. conn[k].phase = "connecting" /\ conn[k].target = k /\ client[k].conn = k
      <3>1. conn[k].phase = "connecting" /\ client[conn[k].target].st = "listed"
        BY DEF Connected, Listed
      <3>2. conn[k].target = k
        BY <3>1 DEF ConnInv, Connection
      <3>3. Waits(k, client, conn)
        BY DEF ConnInv
      <3> QED BY <3>1, <3>2, <3>3 DEF Waits
    <2>2. \A d \in Clients :
            /\ client'[d].conn = client[d].conn /\ client'[d].que = client[d].que
            /\ client'[d].cur = client[d].cur
      BY <2>1, Facts DEF Connected, ClientsType, ClientType
    <2> QED BY <2>2, Untouched DEF Connected
  <1>2. CASE ConnectedToFreed(k)
    BY <1>2, Untouched DEF ConnectedToFreed
  <1> QED BY <1>1, <1>2 DEF ConnectionEvent

\* A frame with a request is a Submit of the session.
LEMMA FrameRequestSubmits ==
  ASSUME ConnInv, ConnInv', NEW c \in Clients, NEW r \in Requests, FrameRequest(c, r)
  PROVE  [Queue!QueueNext]_Queue!qvars
  <1>1. /\ req[r].st = "none"
        /\ client' = [client EXCEPT ![c].que = Append(client[c].que, r)]
        /\ req' = [req EXCEPT ![r].st = "queued", ![r].parent = c]
    BY DEF FrameRequest
  <1>2. /\ \A d \in Clients : client'[d].conn = client[d].conn /\ client'[d].cur = client[d].cur
        /\ \A d \in Clients \ {c} : client'[d].que = client[d].que
        /\ client'[c].que = Append(client[c].que, r)
    BY <1>1, Facts DEF ClientsType, ClientType
  <1>3. Freed(req') = Freed(req)
    <2>1. req'[r].st = "queued" /\ \A q \in Requests \ {r} : req'[q] = req[q]
      BY <1>1, Facts DEF RequestsType, RequestType
    <2> QED BY <1>1, <2>1 DEF Freed
  <1>4. CASE client[c].conn = None
    BY <1>2, <1>3, <1>4, NoSessionSteps, OverNext DEF Queue!qvars
  <1>5. CASE client[c].conn # None
    <2> DEFINE k == client[c].conn
    <2>1. /\ k \in Clients
          /\ Queues[k] = client[c].que /\ Running[k] = client[c].cur
          /\ Queues' = [Queues EXCEPT ![k] = client'[c].que]
          /\ Running' = [Running EXCEPT ![k] = client'[c].cur]
      BY <1>2, <1>5, HolderSteps
    <2>2. \A d \in Clients : r \notin Doing(d, client)
      BY <1>1, Facts, DoingIsHeld
    <2>3. r \in Queue!Fresh
      BY <1>1, <2>2, Facts, IsFresh
    <2> HIDE DEF k
    <2>4. Queues' = [Queues EXCEPT ![k] = Append(Queues[k], r)]
      BY <1>2, <2>1
    <2>5. Running' = Running
      BY <1>2, <2>1, Facts DEF RunningType
    <2>6. Queue!Submit(k, r)
      BY <1>3, <2>3, <2>4, <2>5, OverNext DEF Queue!Submit
    <2> QED BY <2>1, <2>6 DEF Queue!QueueNext
  <1> QED BY <1>4, <1>5

\* CONFIRM of the last answer is a Complete of the session.
LEMMA FrameConfirmLastCompletes ==
  ASSUME ConnInv, ConnInv', NEW c \in Clients, FrameConfirmLast(c)
  PROVE  [Queue!QueueNext]_Queue!qvars
  <1> DEFINE r == client[c].cur
  <1>1. /\ r # None /\ r \in Requests
        /\ client' = [client EXCEPT ![c].cur = None, ![c].busy = FALSE]
        /\ req' = [req EXCEPT ![r] = FreedRequest(req[r])]
    BY Facts DEF FrameConfirmLast, ClientsType, ClientType
  <1>2. /\ \A d \in Clients : client'[d].conn = client[d].conn /\ client'[d].que = client[d].que
        /\ \A d \in Clients \ {c} : client'[d].cur = client[d].cur
        /\ client'[c].cur = None
    BY <1>1, Facts DEF ClientsType, ClientType
  <1>3. Freed(req') = Freed(req) \cup {r}
    <2>1. req'[r].st = "freed" /\ \A q \in Requests \ {r} : req'[q] = req[q]
      BY <1>1, Facts, FreedRequestType DEF RequestsType
    <2> QED BY <1>1, <2>1 DEF Freed
  <1>4. r \in Doing(c, client)
    BY <1>1 DEF Doing
  <1> HIDE DEF r
  <1>5. CASE client[c].conn = None
    <2>1. Queues' = Queues /\ Running' = Running
      BY <1>2, <1>5, NoSessionSteps
    <2>2. req[r].parent = c /\ req[r].st # "freed"
      BY <1>4, Facts, DoingIsHeld
    <2>3. \A d \in Clients : client[d].conn # None => r \notin Doing(d, client)
      BY <1>5, <2>2, Facts, DoingIsHeld
    <2>4. r \in Queue!Fresh
      BY <1>1, <2>2, <2>3, Facts, IsFresh
    <2>5. Queue!Refuse({r})
      BY <1>3, <2>1, <2>4, OverNext DEF Queue!Refuse
    <2> QED BY <1>1, <2>5 DEF Queue!QueueNext
  <1>6. CASE client[c].conn # None
    <2> DEFINE k == client[c].conn
    <2>1. /\ k \in Clients
          /\ Queues[k] = client[c].que /\ Running[k] = r
          /\ Queues' = [Queues EXCEPT ![k] = client'[c].que]
          /\ Running' = [Running EXCEPT ![k] = client'[c].cur]
      BY <1>2, <1>6, HolderSteps DEF r
    <2> HIDE DEF k
    <2>2. Queues' = Queues
      BY <1>2, <2>1, Facts DEF QueuesType
    <2>3. Queue!Complete(k)
      BY <1>1, <1>2, <1>3, <2>1, <2>2, OverNext DEF Queue!Complete
    <2> QED BY <2>1, <2>3 DEF Queue!QueueNext
  <1> QED BY <1>5, <1>6

\* client_request_queue_cb is a Begin of the session.
LEMMA StartRequestBegins ==
  ASSUME ConnInv, ConnInv', NEW c \in Clients, StartRequest(c)
  PROVE  [Queue!QueueNext]_Queue!qvars
  <1> DEFINE r == Head(client[c].que)
  <1>1. /\ client[c].que # <<>> /\ ~client[c].busy
        /\ client' = [client EXCEPT ![c].cur = r, ![c].que = Tail(client[c].que),
                                    ![c].busy = TRUE]
    BY DEF StartRequest, CanStart
  <1>2. client[c].cur = None
    BY <1>1, Facts DEF Held
  <1>3. r \in Requests /\ req[r].st = "queued"
    <2>1. client[c].que \in Seq(Requests)
      BY Facts DEF ClientsType, ClientType
    <2>2. r = client[c].que[1] /\ 1 \in 1 .. Len(client[c].que)
      BY <1>1, <2>1
    <2> QED BY <2>1, <2>2, Facts DEF Held
  <1>4. Freed(req') = Freed(req)
    <2>1. /\ req'[r].st = "current"
          /\ \A q \in Requests \ {r} : req'[q] = req[q]
      BY ZenonT(40), <1>3, Facts DEF StartRequest, RequestsType, RequestType
    <2> QED BY <1>3, <2>1 DEF Freed
  <1> HIDE DEF r
  <1>5. /\ \A d \in Clients : client'[d].conn = client[d].conn
        /\ \A d \in Clients \ {c} : client'[d].cur = client[d].cur /\ client'[d].que = client[d].que
        /\ client'[c].cur = r /\ client'[c].que = Tail(client[c].que)
    BY <1>1, Facts DEF ClientsType, ClientType
  <1>6. CASE client[c].conn = None
    BY <1>4, <1>5, <1>6, NoSessionSteps, OverNext DEF Queue!qvars
  <1>7. CASE client[c].conn # None
    <2> DEFINE k == client[c].conn
    <2>1. /\ k \in Clients
          /\ Queues[k] = client[c].que /\ Running[k] = client[c].cur
          /\ Queues' = [Queues EXCEPT ![k] = client'[c].que]
          /\ Running' = [Running EXCEPT ![k] = client'[c].cur]
      BY <1>5, <1>7, HolderSteps
    <2> HIDE DEF k
    <2>2. Queue!Begin(k)
      BY <1>1, <1>2, <1>4, <1>5, <2>1, OverNext DEF Queue!Begin, r
    <2> QED BY <2>1, <2>2 DEF Queue!QueueNext
  <1> QED BY <1>6, <1>7
LEMMA ClientHidden ==
  ASSUME ConnInv, ConnInv', NEW c \in Clients, Frame(c) \/ Callback(c) \/ BrowserLeaves(c)
  PROVE  [Queue!QueueNext]_Queue!qvars
  <1>1. CASE \E r \in Requests : FrameRequest(c, r)
    BY <1>1, FrameRequestSubmits
  <1>2. CASE FrameConfirmLast(c)
    BY <1>2, FrameConfirmLastCompletes
  <1>3. CASE FrameSendFrom(c)
    <2>1. \A d \in Clients : /\ client'[d].conn = client[d].conn /\ client'[d].que = client[d].que
                             /\ client'[d].cur = client[d].cur
      BY <1>3, Facts DEF FrameSendFrom, ClientsType, ClientType
    <2> QED BY <1>3, <2>1, Untouched DEF FrameSendFrom
  <1>4. CASE Close(c, client, req, idle)
    BY <1>4, Facts, CloseEnds
  <1>5. CASE client' = [client EXCEPT ![c].open = FALSE] /\ UNCHANGED <<conn, req, idle>>
    <2>1. \A d \in Clients : /\ client'[d].conn = client[d].conn /\ client'[d].que = client[d].que
                             /\ client'[d].cur = client[d].cur
      BY <1>5, Facts DEF ClientsType, ClientType
    <2> QED BY <1>5, <2>1, Untouched
  <1>6. CASE StartRequest(c)
    BY <1>6, StartRequestBegins
  <1>7. CASE SendFromEnds(c)
    <2>1. \A d \in Clients : /\ client'[d].conn = client[d].conn /\ client'[d].que = client[d].que
                             /\ client'[d].cur = client[d].cur
      BY <1>7, Facts DEF SendFromEnds, ClientsType, ClientType
    <2>2. ASSUME NEW r \in Requests PROVE req'[r].st = req[r].st
      <3> DEFINE a == [req[r] EXCEPT !.work = "active"]
                 b == [req[r] EXCEPT !.sentTo = c]
      <3>1. a.st = req[r].st /\ b.st = req[r].st
        BY Facts DEF RequestsType, RequestType
      <3>2. req'[r] \in {a, b, req[r]}
        BY <1>7 DEF SendFromEnds
      <3> QED BY <3>1, <3>2
    <2> QED BY <2>1, <2>2, Untouched
  <1>8. CASE SendFromFreed(c)
    BY <1>8, Untouched DEF SendFromFreed
  <1>9. CASE CloseTimeout(c) \/ LoginExpires(c) \/ Logout(c)
    BY <1>9, Facts, CloseImmediateEnds DEF CloseTimeout, LoginExpires, Logout
  <1>10. CASE BrowserLeaves(c)
    <2>1. \A d \in Clients : /\ client'[d].conn = client[d].conn /\ client'[d].que = client[d].que
                             /\ client'[d].cur = client[d].cur
      BY <1>10, Facts DEF BrowserLeaves, ClientsType, ClientType
    <2> QED BY <1>10, <2>1, Untouched DEF BrowserLeaves
  <1> QED BY <1>1, <1>2, <1>3, <1>4, <1>5, <1>6, <1>7, <1>8, <1>9, <1>10
          DEF Frame, FrameClose, ReadFails, Callback

LEMMA WorkHidden ==
  ASSUME ConnInv, ConnInv', NEW r \in Requests, Work(r)
  PROVE  [Queue!QueueNext]_Queue!qvars
  <1>1. CASE \E s \in Stages : Advance(r, s)
    <2>1. client' = client /\ \A q \in Requests : req'[q].st = req[q].st
      BY <1>1, Facts DEF Advance, RequestsType, RequestType
    <2> QED BY <2>1, Untouched
  <1>2. CASE Finish(r)
    <2>1. client' = client /\ \A q \in Requests : req'[q].st = req[q].st
      BY <1>2, Facts DEF Finish, RequestsType, RequestType
    <2> QED BY <2>1, Untouched
  <1>3. CASE Pause(r)
    <2> DEFINE c == req[r].parent
               new == [client[c] EXCEPT !.paused = r]
               cl == [client EXCEPT ![c] = new]
               rq == [req EXCEPT ![r].work = "paused", ![r].linked = FALSE]
               i == IF req[r].stage = "copy" THEN Minus(idle, 1) ELSE idle
    <2>1. req[r].st = "current" /\ Close(c, cl, rq, i)
      BY <1>3 DEF Pause, Fires
    <2>2. c \in Clients
      BY <2>1, Facts DEF Held
    <2>3. /\ rq \in RequestsType
          /\ \A q \in Requests : rq[q].st = req[q].st /\ rq[q].parent = req[q].parent
      BY ZenonT(40), Facts DEF RequestsType, RequestType
    <2> HIDE DEF c, rq, i
    <2>4. /\ new \in ClientType /\ new.st = client[c].st /\ new.conn = client[c].conn
          /\ new.cur = client[c].cur /\ new.que = client[c].que /\ new.busy = client[c].busy
      <3>1. client[c] \in ClientType
        BY <2>2, Facts DEF ClientsType
      <3> QED BY <3>1 DEF ClientType
    <2> HIDE DEF new
    <2>5. /\ cl \in ClientsType
          /\ \A d \in Clients :
                /\ cl[d].st = client[d].st /\ cl[d].conn = client[d].conn
                /\ cl[d].cur = client[d].cur /\ cl[d].que = client[d].que
                /\ cl[d].busy = client[d].busy
      BY <2>2, <2>4, Facts DEF ClientsType
    <2> HIDE DEF cl
    <2>6. Held(cl, rq)
      BY <2>3, <2>5, Facts, UntouchedHeld
    <2>7. Shows(Queues, Running, cl)
      BY <2>5, Facts, SameShown
    <2>8. Freed(rq) = Freed(req)
      BY <2>3 DEF Freed
    <2>9. \A d, e \in Clients : cl[d].conn # None /\ cl[d].conn = cl[e].conn => d = e
      BY <2>5, Facts
    <2> QED BY <2>1, <2>2, <2>3, <2>5, <2>6, <2>7, <2>8, <2>9, CloseEnds
  <1> QED BY <1>1, <1>2, <1>3 DEF Work

LEMMA NextHidden == ConnInv /\ ConnInv' /\ [Next]_vars => [Queue!QueueNext]_Queue!qvars
  <1> SUFFICES ASSUME ConnInv, ConnInv', [Next]_vars PROVE [Queue!QueueNext]_Queue!qvars
    OBVIOUS
  <1>1. CASE Sleep \/ Wake \/ UNCHANGED vars
    BY <1>1, Untouched DEF Sleep, Wake, vars
  <1>2. CASE Tick
    <2>1. \A d \in Clients : /\ client'[d].conn = client[d].conn /\ client'[d].que = client[d].que
                             /\ client'[d].cur = client[d].cur
      BY <1>2, Facts DEF Tick, ClientsType, ClientType
    <2> QED BY <1>2, <2>1, Untouched DEF Tick
  <1>3. CASE Next /\ ~(Sleep \/ Wake \/ Tick)
    BY <1>3, HandshakeHidden, ConnectionEventHidden, ClientHidden, WorkHidden DEF Next
  <1> QED BY <1>1, <1>2, <1>3

LEMMA InitHidden == Init => Queue!QueueInit
  <1> SUFFICES ASSUME Init PROVE Queue!QueueInit
    OBVIOUS
  <1>1. Queues \in QueuesType /\ Running \in RunningType /\ Shows(Queues, Running, client)
    BY InitConn, MappingShows DEF QueuesShow
  <1>2. \A c \in Clients : client[c].conn = None
    BY DEF Init, NewClient
  <1>3. \A k \in Clients : Queues[k] = <<>> /\ Running[k] = None
    BY <1>1, <1>2, NoneAssumption DEF Shows
  <1>4. Over = {}
    BY DEF Init, NewRequest, Over
  <1> QED BY <1>1, <1>3, <1>4 DEF Queue!QueueInit, QueuesType, RunningType

\* A session runs its requests one at a time, in the order they came and each
\* at most once until it ends, whatever websockets are lost and recovered,
\* whatever handshake fails and whatever memory is freed: every callback is
\* one step of SessionQueue or none (client_request_queue_cb and the move in
\* client_cb).
THEOREM SessionImplementsQueue == Spec => RecoveryIsInvisible
  BY InitConn, NextConn, InitHidden, NextHidden, PTL
  DEF Spec, RecoveryIsInvisible, Queue!QueueSpec
=============================================================================
