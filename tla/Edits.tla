-------------------------------- MODULE Edits --------------------------------
(***************************************************************************)
(* How the records of a table are changed from the grids of a window.      *)
(*                                                                         *)
(* An edit of a grid (insertRecords, updateRecords, deleteSelection of     *)
(* datagrid.js) is a transaction of three requests, each sent by the       *)
(* callback of the one before it: BEGIN, the INSERT, UPDATE or DELETE, and *)
(* COMMIT or ROLLBACK, perhaps after the user was asked.  All the grids of *)
(* a window share GS.envSocket, that is one session and one connection;    *)
(* the transaction id that the requests carry is empty and nobody compares *)
(* it.  Against edits of other sessions an UPDATE or DELETE first compares *)
(* the record with what the grid showed (the hash), in a statement of its  *)
(* own, and then changes it by its key, at the isolation level of          *)
(* PostgreSQL, read committed.                                             *)
(*                                                                         *)
(* A version of a record is the number of the edit that made it.           *)
(***************************************************************************)
EXTENDS Naturals, Sequences, FiniteSets

CONSTANTS
    Sessions, Grids, Records, None,
    SessionOf,  \* the session of each grid's window
    Missing,    \* the records that are not in the table at the start
    MaxEdits,   \* bound on the edits
    MaxLost,    \* bound on the sessions lost
    MaxErrors   \* bound on the statements that fail in the database

ASSUME EditsAssumption ==
    /\ SessionOf \in [Grids -> Sessions]
    /\ Missing \subseteq Records
    /\ {MaxEdits, MaxLost, MaxErrors} \subseteq Nat
    /\ None \notin Nat

VARIABLES
    \* the browser
    edits,     \* the edits made so far
    shown,     \* the version of each record that a grid shows, or None
    \* what is under way: the requests of a session, and the answer to its last
    toServer, toTab,
    \* the server and the database
    checked,   \* the statement at the head has compared the hash
    tx,        \* the transaction of a session's connection: none, open, aborted
    own,       \* the uncommitted version of each record, or None
    rows,      \* the committed version of each record, or None
    written,   \* history: the edits whose version was ever committed
    lost,      \* how often each session was lost
    errors     \* how many statements have failed in the database

evars == <<edits, shown, toServer, toTab, checked, tx, own, rows, written, lost, errors>>

Versions == 0 .. MaxEdits
Kinds == {"insert", "update", "delete"}
Phases == {"begin", "edit", "ask", "commit", "rollback", "committed", "rolled back", "failed"}
EditType == [grid : Grids, kind : Kinds, rec : Records, seen : Versions \cup {None},
             asks : BOOLEAN, loader : BOOLEAN, phase : Phases]
RequestType == [op : {"begin", "edit", "commit", "rollback"}, of : Versions]
                  \cup [op : {"select"}, of : Grids]
AnswerType == [of : RequestType, ok : BOOLEAN, rows : [Records -> Versions \cup {None}]]

ASSUME NoAnswerAssumption == None \notin AnswerType

EditsTypeOK ==
    /\ edits \in Seq(EditType) /\ Len(edits) <= MaxEdits
    /\ shown \in [Grids -> [Records -> Versions \cup {None}]]
    /\ toServer \in [Sessions -> Seq(RequestType)]
    /\ toTab \in [Sessions -> AnswerType \cup {None}]
    /\ checked \in [Sessions -> BOOLEAN]
    /\ tx \in [Sessions -> {"none", "open", "aborted"}]
    /\ own \in [Sessions -> [Records -> Versions \cup {None}]]
    /\ rows \in [Records -> Versions \cup {None}]
    /\ written \subseteq Versions
    /\ lost \in [Sessions -> 0 .. MaxLost]
    /\ errors \in 0 .. MaxErrors
    \* between comparing and changing, the statement is at the head and its
    \* transaction open; two sessions never hold the same record
    /\ \A s \in Sessions :
           checked[s] => toServer[s] # <<>> /\ Head(toServer[s]).op = "edit" /\ tx[s] = "open"
    /\ \A r \in Records : Cardinality({s \in Sessions : own[s][r] # None}) <= 1

Nothing == [r \in Records |-> None]

EditsInit ==
    /\ edits = <<>>
    /\ rows = [r \in Records |-> IF r \in Missing THEN None ELSE 0]
    /\ shown = [g \in Grids |-> rows]
    /\ toServer = [s \in Sessions |-> <<>>]
    /\ toTab = [s \in Sessions |-> None]
    /\ checked = [s \in Sessions |-> FALSE]
    /\ tx = [s \in Sessions |-> "none"]
    /\ own = [s \in Sessions |-> Nothing]
    /\ written = {}
    /\ lost = [s \in Sessions |-> 0]
    /\ errors = 0

-----------------------------------------------------------------------------
(* The grids.                                                              *)

EditsOf(s) == {v \in 1 .. Len(edits) : SessionOf[edits[v].grid] = s}
Gone(v) == v = None \/ (v # 0 /\ edits[v].kind = "delete")

Sends(s, requests) == toServer' = [toServer EXCEPT ![s] = @ \o requests]
Becomes(v, phase, loader) ==
    edits' = [edits EXCEPT ![v].phase = phase, ![v].loader = loader]

\* A faulty variant: no loader covers the grid.
EditUncovered(g, kind, r, asks) ==
    LET s == SessionOf[g]
        v == Len(edits) + 1 IN
    /\ v <= MaxEdits
    /\ \A u \in EditsOf(s) : edits[u].phase # "ask"
    /\ kind = "insert" \/ ~ Gone(shown[g][r])
    /\ kind = "delete" => asks
    /\ edits' = Append(edits, [grid |-> g, kind |-> kind, rec |-> r, seen |-> shown[g][r],
                               asks |-> asks, loader |-> TRUE, phase |-> "begin"])
    /\ Sends(s, <<[op |-> "begin", of |-> v]>>)
    /\ UNCHANGED <<shown, toTab, checked, tx, own, rows, written, lost, errors>>

\* The user changes a cell, pastes, or deletes the selection.  A loader covers
\* the grid while the statement and the answer to the dialog are under way,
\* and the dialog covers the window.  Deletes ask.
Edit(g, kind, r, asks) ==
    LET s == SessionOf[g]
        v == Len(edits) + 1 IN
    /\ v <= MaxEdits
    /\ \A u \in EditsOf(s) : /\ edits[u].phase # "ask"
                             /\ edits[u].grid = g => ~ edits[u].loader
    /\ kind = "insert" \/ ~ Gone(shown[g][r])
    /\ kind = "delete" => asks
    /\ edits' = Append(edits, [grid |-> g, kind |-> kind, rec |-> r, seen |-> shown[g][r],
                               asks |-> asks, loader |-> TRUE, phase |-> "begin"])
    /\ Sends(s, <<[op |-> "begin", of |-> v]>>)
    /\ UNCHANGED <<shown, toTab, checked, tx, own, rows, written, lost, errors>>

\* A faulty variant: No commits, too.
DecideCommits(v) ==
    /\ edits[v].phase = "ask"
    /\ \E op \in {"commit", "rollback"} : Becomes(v, op, TRUE)
    /\ Sends(SessionOf[edits[v].grid], <<[op |-> "commit", of |-> v]>>)
    /\ UNCHANGED <<shown, toTab, checked, tx, own, rows, written, lost, errors>>

\* A faulty variant: No only closes the dialog.
DecideForgets(v) ==
    /\ edits[v].phase = "ask"
    /\ \/ /\ Becomes(v, "commit", TRUE)
          /\ Sends(SessionOf[edits[v].grid], <<[op |-> "commit", of |-> v]>>)
       \/ Becomes(v, "rolled back", FALSE) /\ UNCHANGED toServer
    /\ UNCHANGED <<shown, toTab, checked, tx, own, rows, written, lost, errors>>

\* The answer to the dialog.
Decide(v) ==
    LET s == SessionOf[edits[v].grid] IN
    /\ edits[v].phase = "ask"
    /\ \E op \in {"commit", "rollback"} :
           /\ Becomes(v, op, TRUE)
           /\ Sends(s, <<[op |-> op, of |-> v]>>)
    /\ UNCHANGED <<shown, toTab, checked, tx, own, rows, written, lost, errors>>

\* getData, when an edit of a grid has failed.  Inserts only remove their rows.
Reloads(v) ==
    IF edits[v].kind = "insert" THEN <<>> ELSE <<[op |-> "select", of |-> edits[v].grid]>>

\* The callbacks of requestBegin, of the statement, and of requestCommit and
\* requestRollback.
BeginAnswered(s, v, ok) ==
    /\ IF ok THEN Becomes(v, "edit", TRUE) ELSE Becomes(v, "failed", FALSE)
    /\ Sends(s, IF ok THEN <<[op |-> "edit", of |-> v]>> ELSE Reloads(v))
    /\ UNCHANGED shown

\* A faulty variant: no ROLLBACK is sent after an error.
StatementAnsweredLate(s, v, ok) ==
    LET e == edits[v] IN
    /\ shown' = IF ok /\ e.kind = "update" THEN [shown EXCEPT ![e.grid][e.rec] = v] ELSE shown
    /\ IF ok /\ e.asks
       THEN Becomes(v, "ask", FALSE) /\ UNCHANGED toServer
       ELSE /\ Becomes(v, IF ok THEN "commit" ELSE "rollback", FALSE)
            /\ Sends(s, IF ok THEN <<[op |-> "commit", of |-> v]>> ELSE Reloads(v))

StatementAnswered(s, v, ok) ==
    LET e == edits[v]
        op == IF ok THEN "commit" ELSE "rollback" IN
    /\ shown' = IF ok /\ e.kind = "update" THEN [shown EXCEPT ![e.grid][e.rec] = v] ELSE shown
    /\ IF ok /\ e.asks
       THEN Becomes(v, "ask", FALSE) /\ UNCHANGED toServer
       ELSE /\ Becomes(v, op, FALSE)
            /\ Sends(s, <<[op |-> op, of |-> v]>> \o IF ok THEN <<>> ELSE Reloads(v))

EndAnswered(s, v, op, ok) ==
    LET e == edits[v] IN
    /\ Becomes(v, IF ~ ok THEN "failed" ELSE IF op = "commit" THEN "committed" ELSE "rolled back",
               FALSE)
    /\ shown' = IF ok /\ op = "commit" THEN [shown EXCEPT ![e.grid][e.rec] = v] ELSE shown
    /\ Sends(s, IF ~ ok \/ (op = "rollback" /\ e.kind = "update") THEN Reloads(v) ELSE <<>>)

Receive(s) ==
    LET a == toTab[s] IN
    /\ a # None
    /\ toTab' = [toTab EXCEPT ![s] = None]
    /\ \/ a.of.op = "begin" /\ BeginAnswered(s, a.of.of, a.ok)
       \/ a.of.op = "edit" /\ StatementAnswered(s, a.of.of, a.ok)
       \/ a.of.op \in {"commit", "rollback"} /\ EndAnswered(s, a.of.of, a.of.op, a.ok)
       \/ /\ a.of.op = "select"
          /\ shown' = IF a.ok THEN [shown EXCEPT ![a.of.of] = a.rows] ELSE shown
          /\ UNCHANGED <<edits, toServer>>
    /\ UNCHANGED <<checked, tx, own, rows, written, lost, errors>>

-----------------------------------------------------------------------------
(* The server.  The next request of a session is started when the tab has  *)
(* confirmed the last answer, so there is one answer at a time; the rows   *)
(* of a statement and its TRANSACTION COMPLETED are one answer here.       *)

Visible(s, r) == IF own[s][r] # None THEN own[s][r] ELSE rows[r]
Answer(s, ok) ==
    toTab' = [toTab EXCEPT ![s] = [of |-> Head(toServer[s]), ok |-> ok,
                                   rows |-> [r \in Records |-> Visible(s, r)]]]
Serves(s, op) ==
    /\ toServer[s] # <<>>
    /\ Head(toServer[s]).op = op
    /\ toTab[s] = None
Done(s) == toServer' = [toServer EXCEPT ![s] = Tail(@)]

\* The connection's own rules: a failed statement aborts the transaction.
Aborted(s) == IF tx[s] = "open" THEN "aborted" ELSE tx[s]

ServeBegin(s) ==
    /\ Serves(s, "begin")
    /\ Answer(s, tx[s] # "aborted") /\ Done(s)
    /\ tx' = [tx EXCEPT ![s] = IF @ = "none" THEN "open" ELSE @]
    /\ UNCHANGED <<edits, shown, checked, own, rows, written, lost, errors>>

ServeSelect(s) ==
    /\ Serves(s, "select")
    /\ Answer(s, tx[s] # "aborted") /\ Done(s)
    /\ UNCHANGED <<edits, shown, checked, tx, own, rows, written, lost, errors>>

\* ws_update_step5, ws_delete_step5: the record is there, and as it was shown.
Compares(s, e) ==
    \/ e.kind = "insert"
    \/ ~ Gone(Visible(s, e.rec)) /\ Visible(s, e.rec) = e.seen

\* Up to the comparison, in the transaction of the session.  Without one the
\* temporary table is dropped before the COPY into it; ws_delete_step4 sends no
\* answer to that, and nothing follows it either.
ServeCompare(s) ==
    LET e == edits[Head(toServer[s]).of] IN
    /\ Serves(s, "edit")
    /\ ~ checked[s]
    /\ tx[s] = "none" => e.kind # "delete"
    /\ IF tx[s] = "open" /\ Compares(s, e)
       THEN /\ checked' = [checked EXCEPT ![s] = TRUE]
            /\ UNCHANGED <<toServer, toTab>>
       ELSE Answer(s, FALSE) /\ Done(s) /\ UNCHANGED checked
    /\ UNCHANGED <<edits, shown, tx, own, rows, written, lost, errors>>

\* The statement itself: it waits for a session that has changed the record,
\* and finds it by its key alone.
ServeStatement(s) ==
    LET v == Head(toServer[s]).of
        e == edits[v] IN
    /\ Serves(s, "edit")
    /\ checked[s]
    /\ \A other \in Sessions \ {s} : own[other][e.rec] = None
    /\ checked' = [checked EXCEPT ![s] = FALSE]
    /\ Done(s)
    /\ \/ /\ (e.kind = "insert") = Gone(Visible(s, e.rec))
          /\ own' = [own EXCEPT ![s][e.rec] = v]
          /\ Answer(s, TRUE)
          /\ UNCHANGED <<tx, errors>>
       \/ /\ e.kind # "insert" /\ Gone(Visible(s, e.rec))   \* no row is found
          /\ Answer(s, TRUE)
          /\ UNCHANGED <<own, tx, errors>>
       \/ /\ e.kind = "insert" /\ ~ Gone(Visible(s, e.rec)) \* duplicate key
          /\ Answer(s, FALSE)
          /\ tx' = [tx EXCEPT ![s] = Aborted(s)]
          /\ UNCHANGED <<own, errors>>
       \/ /\ errors < MaxErrors                             \* another constraint
          /\ errors' = errors + 1
          /\ Answer(s, FALSE)
          /\ tx' = [tx EXCEPT ![s] = Aborted(s)]
          /\ UNCHANGED own
    /\ UNCHANGED <<edits, shown, rows, written, lost>>

\* COMMIT of an open transaction.
Commit(s) ==
    /\ rows' = [r \in Records |-> Visible(s, r)]
    /\ written' = written \cup ({own[s][r] : r \in Records} \ {None})
    /\ tx' = [tx EXCEPT ![s] = "none"]
    /\ own' = [own EXCEPT ![s] = Nothing]

RollBack(s) ==
    /\ tx' = [tx EXCEPT ![s] = "none"]
    /\ own' = [own EXCEPT ![s] = Nothing]
    /\ UNCHANGED <<rows, written>>

\* client_cmd_cb: COMMIT is also OK in an aborted transaction, which it rolls
\* back, and, like ROLLBACK, without any transaction.
ServeEnd(s) ==
    /\ Serves(s, "commit") \/ Serves(s, "rollback")
    /\ Answer(s, TRUE) /\ Done(s)
    /\ IF Head(toServer[s]).op = "commit" /\ tx[s] = "open" THEN Commit(s) ELSE RollBack(s)
    /\ UNCHANGED <<edits, shown, checked, lost, errors>>

\* A deferred constraint fails: COMMIT is answered with its error.
CommitFails(s) ==
    /\ Serves(s, "commit")
    /\ tx[s] = "open"
    /\ errors < MaxErrors
    /\ errors' = errors + 1
    /\ Answer(s, FALSE) /\ Done(s)
    /\ RollBack(s)
    /\ UNCHANGED <<edits, shown, checked, lost>>

\* A faulty variant: the comparison of a lost session stays.
SessionLostChecked(s) ==
    /\ lost[s] < MaxLost
    /\ lost' = [lost EXCEPT ![s] = @ + 1]
    /\ toServer' = [toServer EXCEPT ![s] = <<>>]
    /\ toTab' = [toTab EXCEPT ![s] = None]
    /\ RollBack(s)
    /\ UNCHANGED <<edits, shown, checked, errors>>

\* The window of a closed session passes, and with its connection goes the
\* transaction.  The tab goes on in a new session; the callbacks of what was
\* under way never run.
SessionLost(s) ==
    /\ lost[s] < MaxLost
    /\ lost' = [lost EXCEPT ![s] = @ + 1]
    /\ toServer' = [toServer EXCEPT ![s] = <<>>]
    /\ toTab' = [toTab EXCEPT ![s] = None]
    /\ checked' = [checked EXCEPT ![s] = FALSE]
    /\ RollBack(s)
    /\ UNCHANGED <<edits, shown, errors>>

-----------------------------------------------------------------------------
Serve(s) ==
    \/ ServeBegin(s) \/ ServeSelect(s) \/ ServeCompare(s) \/ ServeStatement(s)
    \/ ServeEnd(s) \/ CommitFails(s)

EditsNext ==
    \/ \E g \in Grids, kind \in Kinds, r \in Records, asks \in BOOLEAN : Edit(g, kind, r, asks)
    \/ \E v \in 1 .. Len(edits) : Decide(v)
    \/ \E s \in Sessions : Receive(s) \/ Serve(s) \/ SessionLost(s)

EditsSpec == EditsInit /\ [][EditsNext]_evars

\* The loops of the server and of the windows run, and users answer dialogs.
FairEdits ==
    /\ EditsSpec
    /\ \A s \in Sessions : WF_evars(Receive(s)) /\ WF_evars(Serve(s))
    /\ \A v \in 1 .. MaxEdits : WF_evars(v <= Len(edits) /\ Decide(v))

-----------------------------------------------------------------------------
Refused == {v \in 1 .. Len(edits) : edits[v].phase \in {"rollback", "rolled back", "failed"}}

\* What the user refused, and what was reported as failed, is never in the
\* database (the dialog of deleteSelection: Are you sure you want to delete).
RefusedStaysOut == Refused \cap written = {}

\* What was reported as committed was committed, in a session that was not
\* lost, unless another edit had deleted the record.
ReportedIsCommitted ==
    \A v \in 1 .. Len(edits) :
        /\ edits[v].phase = "committed"
        /\ lost[SessionOf[edits[v].grid]] = 0
        => \/ v \in written
           \/ \E u \in written : edits[u].kind = "delete" /\ edits[u].rec = edits[v].rec

\* The changes a connection holds, and with them its locks, belong to one edit
\* that is still going to be committed or rolled back.
LocksHaveAnOwner ==
    \A s \in Sessions : \A r \in Records :
        own[s][r] # None =>
            /\ \A q \in Records : own[s][q] \in {None, own[s][r]}
            /\ edits[own[s][r]].phase \in {"edit", "ask", "commit", "rollback"}

\* An edit never replaces a version that its user did not see
\* (ws_update_step5: Someone updated this record before you).
NoLostUpdate ==
    [][\A r \in Records :
           rows'[r] # rows[r] => \/ edits[rows'[r]].kind = "insert"
                                 \/ edits[rows'[r]].seen = rows[r]]_evars

Ended(v) ==
    /\ v <= Len(edits)
    /\ \/ edits[v].phase \in {"committed", "rolled back", "failed"}
       \/ lost[SessionOf[edits[v].grid]] > 0

\* Every edit ends, unless its session is lost: with one grid in a window
\* nothing waits for ever, not even for the dialog of another user.
EveryEditEnds ==
    \A v \in 1 .. MaxEdits : (v <= Len(edits)) ~> Ended(v)
===============================================================================
