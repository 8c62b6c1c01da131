---------------------------- MODULE LastActivity ----------------------------
(***************************************************************************)
(* login_timeout: which logins are still in use.                           *)
(*                                                                         *)
(* arr_client_last_activity holds one entry per login, an IP address and a *)
(* cookie, with the time of its last activity.  A client knows its login   *)
(* only by the index of the entry.  free_last_activity, a periodic timer,  *)
(* drops the entries that are too old, closes their idle clients and moves *)
(* the indices of the others down.                                         *)
(*                                                                         *)
(* Indices count from 0 as in the code: entry i is log[i + 1].             *)
(***************************************************************************)
EXTENDS Naturals, Sequences, Lists

CONSTANTS
    Clients,   \* client structures, each used for one socket
    Logins,    \* pairs of an address and a cookie
    None,      \* NULL, and -1 for an index
    Timeout    \* ticks after which a login expires (login_timeout)

ASSUME TimeoutAssumption == Timeout \in Nat \ {0}
ASSUME NoneAssumption == None \notin Nat \cup Logins \cup [login : Logins, age : 0 .. Timeout]

VARIABLES
    client,    \* struct sock_ev_client, one record for each of Clients
    list,      \* list_client, oldest first
    log,       \* arr_client_last_activity
    issued     \* logins whose cookie was ever given to a browser

lvars == <<client, list, log, issued>>

LogClientType ==
    [used   : BOOLEAN,
     kind   : {"socket", "login"},
     login  : Logins \cup {None},
     index  : Nat \cup {None},      \* int_last_activity_i
     open   : BOOLEAN,              \* client_close was not called yet
     conn   : BOOLEAN,              \* conn /= NULL
     busy   : BOOLEAN]              \* bol_request_in_progress

EntryType == [login : Logins, age : 0 .. Timeout]

LogTypeOK ==
    /\ client \in [Clients -> LogClientType]
    /\ list \in Seq(Clients)
    /\ log \in Seq(EntryType)
    /\ issued \subseteq Logins

LogInit ==
    /\ client = [c \in Clients |->
                   [used |-> FALSE, kind |-> "socket", login |-> None,
                    index |-> None, open |-> FALSE, conn |-> FALSE, busy |-> FALSE]]
    /\ list = <<>>
    /\ log = <<>>
    /\ issued = {}

-----------------------------------------------------------------------------
(* Helpers *)

InList(c) == c \in RangeOf(list)

Without(s, c) == Kept(s, Clients \ {c})

Positions(l) == {n \in 1 .. Len(log) : log[n].login = l}

\* A faulty variant: the first entry is skipped.
FoundAfterFirst(l) ==
    LET P == Positions(l) \ {1} IN
    IF P = {} THEN None ELSE (CHOOSE n \in P : \A m \in P : n <= m) - 1

\* The index of the entry of login l.
Found(l) ==
    LET P == Positions(l) IN
    IF P = {} THEN None ELSE (CHOOSE n \in P : \A m \in P : n <= m) - 1

\* The log when the entry at index i, if there is one, was used just now.
Used(lg, i) == [n \in 1 .. Len(lg) |-> IF n - 1 = i THEN [lg[n] EXCEPT !.age = 0] ELSE lg[n]]

\* DArray_push returns the end of the array after the push: the index past
\* the new element.
PushedIndex == Len(log) + 1

Expired(e) == e.age = Timeout

-----------------------------------------------------------------------------
(* Sockets and their logins.                                               *)

\* set_cnxn lets a client in whose entry has not expired, or whose index is
\* also that of a connected client (the first other one in the list).
LetIn(i) ==
    LET same == Kept(list, {d \in Clients : client[d].index = i}) IN
    \/ same # <<>> /\ client[Head(same)].conn
    \/ i # None /\ ~Expired(log[i + 1])

\* A websocket is accepted, and looks up the login of its cookie.  A cookie
\* stays readable after its entry was dropped.
Join(c, l) ==
    /\ ~client[c].used
    /\ l \in issued
    /\ client' = [client EXCEPT ![c] =
                    [used |-> TRUE, kind |-> "socket", login |-> l, index |-> Found(l),
                     open |-> TRUE, conn |-> LetIn(Found(l)), busy |-> FALSE]]
    /\ list' = Append(list, c)
    /\ UNCHANGED <<log, issued>>

\* An auth?action=login request is accepted, and tries the database.
LoginStarts(c, l) ==
    /\ ~client[c].used
    /\ client' = [client EXCEPT ![c] =
                    [used |-> TRUE, kind |-> "login", login |-> l, index |-> None,
                     open |-> TRUE, conn |-> TRUE, busy |-> FALSE]]
    /\ list' = Append(list, c)
    /\ UNCHANGED <<log, issued>>

\* http_auth_login_step3: the login is found in the log or added to it.
LoginSucceeds(c) ==
    LET l == client[c].login
        known == Found(l) # None IN
    /\ InList(c)
    /\ client[c].kind = "login"
    /\ client[c].index = None
    /\ log' = IF known THEN log ELSE Append(log, [login |-> l, age |-> 0])
    /\ client' = [client EXCEPT ![c].index = IF known THEN Found(l) ELSE PushedIndex]
    /\ issued' = issued \cup {l}
    /\ UNCHANGED list

\* A frame is read or has been written: WS_readFrame_step2, WS_sendFrame_step2.
Activity(c) ==
    /\ InList(c)
    /\ client[c].kind = "socket"
    /\ client[c].index # None
    /\ log' = Used(log, client[c].index)
    /\ UNCHANGED <<client, list, issued>>

\* A request of the websocket starts (client_request_queue_cb) or ends.
StartsOrEnds(c) ==
    /\ InList(c)
    /\ client[c].kind = "socket"
    /\ client[c].conn
    /\ client' = [client EXCEPT ![c].busy = ~@]
    /\ UNCHANGED <<list, log, issued>>

\* client_close.  A websocket that was let in without a login gets one now;
\* its time is never set.  A busy client stays in the list until its window
\* has passed.
Close(c) ==
    LET l == client[c].login
        i == client[c].index
        adds == client[c].conn /\ i = None /\ client[c].kind = "socket" /\ Found(l) = None
        at == IF i # None \/ client[c].kind = "login" THEN i
              ELSE IF adds THEN PushedIndex ELSE Found(l)
        full == IF adds THEN Append(log, [login |-> l, age |-> Timeout]) ELSE log IN
    /\ InList(c)
    /\ log' = IF client[c].conn /\ at # None THEN Used(full, at) ELSE log
    /\ client' = [client EXCEPT ![c].index = IF client[c].conn THEN at ELSE @, ![c].open = FALSE]
    /\ list' = IF client[c].busy THEN list ELSE Without(list, c)
    /\ UNCHANGED issued

\* client_close_immediate: the window has passed, or the user logs out.
CloseImmediate(c) ==
    /\ InList(c)
    /\ list' = Without(list, c)
    /\ UNCHANGED <<client, log, issued>>

-----------------------------------------------------------------------------
(* free_last_activity.                                                     *)

\* The clients whose index is i, and all the indices when those above i have
\* moved down.
UsersOf(s, i) == {c \in RangeOf(s.list) : s.index[c] = i}

MovedDown(s, i) ==
    [c \in Clients |-> IF s.index[c] # None /\ s.index[c] > i THEN s.index[c] - 1 ELSE s.index[c]]

\* Faulty variants: busy clients are closed with the others; the age of an
\* entry is not looked at.
SweepEntryCloseAll(s, i) ==
    IF ~Expired(s.log[i + 1]) THEN s
    ELSE IF UsersOf(s, i) = {}
         THEN [s EXCEPT !.index = MovedDown(s, i), !.log[i + 1] = None]
         ELSE [s EXCEPT !.index = MovedDown(s, i),
                        !.list = Kept(@, {c \in Clients : MovedDown(s, i)[c] # i})]

SweepEntryOfAnyAge(s, i) ==
    IF \E c \in UsersOf(s, i) : client[c].busy THEN s
    ELSE IF UsersOf(s, i) = {}
         THEN [s EXCEPT !.index = MovedDown(s, i), !.log[i + 1] = None]
         ELSE [s EXCEPT !.index = MovedDown(s, i),
                        !.list = Kept(@, {c \in Clients : MovedDown(s, i)[c] # i \/ client[c].busy})]

\* The passes over the list of clients for the entry at index i: an expired
\* entry whose clients are all idle loses them, and one without clients is
\* dropped.  The indices above it move down in both cases, and before the
\* idle clients are closed.  In s, log has None for a dropped entry.
SweepEntry(s, i) ==
    IF ~Expired(s.log[i + 1]) \/ \E c \in UsersOf(s, i) : client[c].busy THEN s
    ELSE IF UsersOf(s, i) = {}
         THEN [s EXCEPT !.index = MovedDown(s, i), !.log[i + 1] = None]
         ELSE [s EXCEPT !.index = MovedDown(s, i),
                        !.list = Kept(@, {c \in Clients : MovedDown(s, i)[c] # i \/ client[c].busy})]

\* What is left after the entries at indices below i were looked at.
Swept ==
    LET step[i \in 0 .. Len(log)] ==
          IF i = 0 THEN [index |-> [c \in Clients |-> client[c].index],
                         list |-> list, log |-> log]
          ELSE SweepEntry(step[i - 1], i - 1)
    IN step[Len(log)]

\* A faulty variant: the dropped entries stay in the array.
SweepWithoutCompaction ==
    /\ list' = Swept.list
    /\ client' = [c \in Clients |-> [client[c] EXCEPT !.index = Swept.index[c]]]
    /\ log' = Swept.log
    /\ UNCHANGED issued

Sweep ==
    /\ \E n \in 1 .. Len(log) : Expired(log[n])
    /\ list' = Swept.list
    /\ client' = [c \in Clients |-> [client[c] EXCEPT !.index = Swept.index[c]]]
    /\ log' = Kept(Swept.log, EntryType)
    /\ UNCHANGED issued

\* A tick of the clock; ages are only compared with Timeout.
Tick ==
    /\ \E n \in 1 .. Len(log) : ~Expired(log[n])
    /\ log' = [n \in 1 .. Len(log) |->
                 IF Expired(log[n]) THEN log[n] ELSE [log[n] EXCEPT !.age = @ + 1]]
    /\ UNCHANGED <<client, list, issued>>

LogNext ==
    \/ \E c \in Clients :
          \/ \E l \in Logins : Join(c, l) \/ LoginStarts(c, l)
          \/ LoginSucceeds(c)
          \/ Activity(c)
          \/ StartsOrEnds(c)
          \/ Close(c)
          \/ CloseImmediate(c)
    \/ Sweep
    \/ Tick

LogSpec == LogInit /\ [][LogNext]_lvars

-----------------------------------------------------------------------------
(* What must hold.                                                         *)

\* A login has one entry, whoever added it: http_auth and client_close search
\* before they push, and the sweep copies each entry at most once.
EntriesUnique ==
    \A m, n \in 1 .. Len(log) : log[m].login = log[n].login => m = n

\* An index can be read: it is at most one past the end of the array (an array
\* that is not empty has room for more), as the check in DArray_get wants it.
IndexInArray ==
    \A c \in Clients : InList(c) /\ client[c].index # None => client[c].index <= Len(log)

\* Nobody is logged out before login_timeout: the sweep keeps every entry that
\* has not expired, whatever it drops around it.
FreshLoginsStay ==
    [][Sweep => \A n \in 1 .. Len(log) :
         ~Expired(log[n]) => log[n] \in RangeOf(log')]_lvars

\* The timer never closes a client whose request is in progress, whatever the
\* indices were moved to meanwhile.
SweepSparesBusy ==
    [][Sweep => \A c \in Clients :
         InList(c) /\ client[c].busy => InList(c)']_lvars

\* The timer closes a connected websocket only when its login has seen no
\* activity for login_timeout.
ActiveSocketIsKept ==
    [][Sweep => \A c \in Clients :
         /\ InList(c) /\ client[c].kind = "socket" /\ client[c].open
         /\ ~InList(c)'
         => \A n \in Positions(client[c].login) : Expired(log[n])]_lvars
=============================================================================
