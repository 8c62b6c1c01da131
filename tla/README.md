# pgManage: a verification development in TLA+

pgManage is a web server in C, built on libev and libpq, that gives a browser
access to PostgreSQL. A tab opens a websocket, the server opens a database
connection for it and runs its requests one after another. When the websocket
drops, the tab opens a new one and takes the old session over, with its
connection, its transaction and its unanswered requests. This directory holds
the models of that program, the TLC configurations that check them, and proofs
for TLAPS.

To run: `tlc -config MCSessionSafety.cfg MCClientSession`, likewise for every
other configuration listed below, and `tlapm ClientSession_proofs.tla`, likewise
for every other module whose name ends in `_proofs`.

## The system

One process, one thread, one libev loop. Every callback runs to its end before
another one starts, so a callback is one atomic action; all the concurrency is
in the order in which callbacks of several clients, several requests, the
database and the browser come. No session is persisted: a restart forgets all
of them; what lasts is the database and the files of the script tabs. A window
of the browser is a second sequential program, with callbacks and timers of its
own, and there may be several windows. Paths below are under `src/` of the
repository.

| Component | State | Operations | Who it talks to |
|---|---|---|---|
| Client session, `src/common_client.c` | `struct sock_ev_client`: connection, current request, queue, paused work, recovery window, SEND FROM progress | handshake and recovery, frames, request queue, pause, close, window | database framework, request modules, login activity |
| Idle counter, `src/util_idle.c` | `int_idle_count` | increment, decrement | every check callback: the loop sleeps in poll when it is 0 |
| RAW queries, `src/pgmanage_callback.c`, `src/ws_raw.c` | a watcher on the database socket, a check watcher over the rows | query, rows, next query, end | client session (pause), libpq |
| SQL requests, `src/ws_select.c`, `ws_insert.c`, `ws_update.c`, `ws_delete.c` | the step of each request | a chain of statements, then a COPY | database framework |
| Edits of records, `app/frames/datagrid.js` of the web root, `greyspots.js` | per edit a transaction, a loader over the grid, a dialog | begin, change, ask, commit or roll back, reload | SQL requests, over `GS.envSocket` |
| Tab files, `src/ws_tab.c`, `app/resources/ws-tab-functions.js` | files with their change stamps; per tab the path, the stamp, the state of its save | load, type, save, retry, rename, close | requests over `GS.envSocket` |
| Splitting SQL, `src/util_sql_split.c` | pointers and counters over a text | split a text into queries | RAW queries |
| COPY OUT, `src/common_util_sql.c` | answers under construction | row, last answer, error, pause | client session |
| Database framework, `db_framework_pq/` | `DB_conn` with its connection poll, result poll, copy check | connect, exec, copy, cancel, finish | libpq; calls back into whoever asked |
| Login activity, `src/common_main.c`, `src/common_auth.c`, `src/http_auth.c` | one entry per login with the time of its last activity; an index in every client | look up, add, touch, expire, compact | client session |
| Websocket framing, `src/common_websocket.c` | a frame being read, a queue of frames being written | read, write, continue | client session, login activity |
| HTTP requests, `src/http_*.c` | one per connection | login, logout, files, upload, export, events | database framework, login activity |
| Browser half, `src/web_root/pgmanage/js/greyspots.js` | the websockets of the window with their session ids and timers; per message the answers received; calls that wait | request, CONFIRM, SEND FROM, reconnect | client session |
| Pure helpers, `src/util_*.c` | none | paths, cookies, encodings | all |
| Electron shell, configuration, logging | start-up only | | |

What makes each hard to get right:

- **Session**: a recovery moves six pieces of state between two clients while
  the request runs, waits or is paused, and then frees the old client. What must
  hold: nothing is lost, shared or left behind; paused work can be resumed;
  requests keep their order; a running request survives its window; a session
  nobody takes over ends.
- **Idle counter**: kept by hand in some thirty places. What must hold: it never
  falls below the number of check callbacks that wait.
- **RAW, COPY**: their watchers are stopped, remembered and restarted by the
  session. What must hold: a freed request leaves no watcher; no row is lost or
  sent twice.
- **Login activity**: clients know their login by an array index that every
  sweep changes. What must hold: the index is of the client's own login, no
  client with a running request is closed, no active login expires.
- **Database connection**: may be lost and reset while the websocket is lost and
  recovered. What must hold: one holder, callbacks reach it.
- **Framing**: partial reads and writes in the middle of a header or payload.
- **Delivery**: numbered answers are saved until confirmed, and sent again from
  the number the tab asks for. What must hold: the tab's callback sees every
  answer once and in order, and a request ends at both sides.
- **Calls**: a window has several websockets, each with an `onclose` that opens
  another one a second later, and every recovery gives the session a new id.
  What must hold: a call is made once, the calls of one place share a session
  and so a transaction, and nobody waits for a websocket that nobody opens.
- **Tab files**: a text is written 300 ms after its last change, one save at a
  time, against a stamp, with timeouts, retries and a second window on the same
  file. What must hold: no change is forgotten, a tab marked saved is not
  behind its own text, and a locked editor has a way out.
- **Edits**: BEGIN, the change, a dialog and COMMIT are separate requests on a
  connection that a window shares. What must hold: what was refused stays out
  of the database, what was reported is in it, and no lock outlives its edit.
- **Splitting**: two loops with five counters kept by hand. What must hold: the
  queries are the text, cut where the notes say.

`PROJECT.json` lists every component, with what is left out, and every hazard
with the line where it bites.

## The modules

| Module | What it is |
|---|---|
| `ClientSession` | The session: clients, connections, requests, the idle counter, and whether the loop has an iteration to run |
| `SessionQueue` | The abstract promise: a session runs its requests one at a time, in order, each at most once, until it ends |
| `SessionRecovery` | The refinement mapping from `ClientSession` to `SessionQueue` |
| `LastActivity` | `arr_client_last_activity` and its periodic sweep |
| `Delivery` | One tab and one session: numbered answers, CONFIRM, SEND FROM, lost websockets |
| `Calls` | The websockets of a window and the calls made over them |
| `TabSave` | Script tabs in several windows and their files on the server |
| `Edits` | Edits of records in several windows, and the database |
| `SqlSplit` | `DArray_sql_split`, and the notes it is to follow |
| `MC...` | Small instances of the module of the name: maps, symmetry sets, texts |
| `Lists` | What the program does with lists and arrays, in a form that can be reasoned about |
| `Lists_proofs` | Facts about sequences, and what `Kept` yields for every sequence |
| `ClientSession_proofs` | Types; the holder of each request and connection; paused work, running requests, the idle counter; `ClientSession` implements `SessionQueue` |
| `Delivery_proofs` | Every answer reaches the tab, and what is quiet is complete |
| `LastActivity_proofs` | The log of activity, through every sweep |
| `Calls_proofs` | A call is made once, in the session of its place, and answered; `GS.envSocket` comes back |
| `Edits_proofs` | The types of `Edits`; what was refused stays out, what was reported is in, locks have an owner |
| `TabSave_proofs` | The types of `TabSave`; a locked editor has a way out, a change is not forgotten |
| `SqlSplit_proofs` | The splitter's counters, the text it splits, and where it splits it |

The modules are layers of one system, each seeing what the one below promises.
`ClientSession` says where requests and connections are, `Delivery` takes one
session and follows each answer into the tab, `Calls` takes the sessions of a
whole window, `TabSave` and `Edits` take requests that are answered in order,
one at a time, unless the session is lost.

### ClientSession

`client[c]` is one `struct sock_ev_client`, used for one websocket; a
reconnecting tab uses another one. `conn[c]` is the `DB_conn` opened for client
`c`, whoever holds it now; its `target` is the client its callbacks name.
`req[r]` is one request with the stage its work has reached and what became of
its watcher. Each action is one callback:

| Action | Code |
|---|---|
| `OpenSession`, `RecoverSession`, `RecoverThenFail` | the handshake in `client_cb`, with `set_cnxn` |
| `Connected`, `ConnectedToFreed` | `db_cnxn_cb` calling `cnxn_cb` |
| `FrameRequest`, `FrameConfirmLast`, `FrameSendFrom`, `FrameClose`, `ReadFails` | `client_frame_cb`, `WS_readFrame_step2` |
| `StartRequest` | `client_request_queue_cb` |
| `Advance`, `Finish`, `Pause` | the callbacks of a running request, with `close_client_if_needed` |
| `SendFromEnds`, `SendFromFreed` | `client_send_from_cb` |
| `CloseTimeout` | `client_close_timeout_prepare_cb` |
| `LoginExpires`, `Logout` | `free_last_activity`, `auth?action=logout` |
| `Sleep`, `Wake`, `Tick`, `BrowserLeaves` | the loop, its timer, the clock, the other end |

`Close` and `CloseImmediate` are operators on the three pieces of state a close
changes, because a pause or a frame closes the client in the middle of its own
callback, with some of them already changed.

The stages of a request are what the session can tell apart: `query` (a RAW
query waits on the database socket), `rows` (its rows are sent by a check
watcher), `exec` (a statement through the framework, which never asks whether
the browser is there) and `copy` (the framework's check watcher over a COPY).

`awake` says whether the loop has an iteration to run even though the idle
counter is 0. Check and prepare callbacks need `LoopRuns`; io callbacks make it
true.

Abstractions, and why they keep the behaviour:

- Accepting a socket and upgrading it are one step: between the two a client has
  neither a session id nor a connection, and no other client can find it. A
  listed client has therefore done its handshake; `RecoverThenFail` is the one
  path on which `bol_handshake` is still false when something is at stake.
- An attempt to connect that fails at once (`db_conn_error_cb`) is one that
  fails later.
- Ages saturate at `Window` in place of absolute times, which are only ever
  compared with the window.
- The answers of a request are not told apart, only whether the last one was
  saved and to whom it was sent. A last answer can be confirmed by the client it
  was sent to.
- `SendFromEnds` is the last iteration of the resending: the iterations before it
  change nothing but the answers sent.
- The queue callback runs after the callbacks of an iteration, so no second
  frame of a client is read while it has a request to start (`Reads`).
- `Logout` closes one client a step; the loop in the code closes them all, in
  list order, which the model reaches by repeating the step.
- Frames that were already received are still read after the browser left.
- `LoginExpires` may happen at any time; `LastActivity` says when.

Not in the module: CANCEL, ping, fragmented messages, and the loss and reset of
the database connection.

`crashed` records that a callback used a freed structure; nothing is said of
what happens after it.

### LastActivity

A client here is its login, its index, whether it was let in, whether a request
runs. `Join` and `LoginSucceeds` are the two look-ups (`set_cnxn`,
`http_auth_login_step3`), `Close` the third one (`client_close`), `Sweep` is
`free_last_activity` as a fold over the entries: for each expired entry, who uses
it, the indices moved down, the idle clients closed, the entry dropped if nobody
used it, and the array compacted at the end. Until then the entries keep their
places and the indices do not (`MCIndexPast`). Indices count from 0, and
`DArray_push` returns one more than the index of what it pushed. A cookie is
known to a browser once a login gave it out (`issued`). Requests other than
login and websockets never keep an index across two callbacks that matter here
and are left out.

### Delivery

The same protocol from the other side. `ClientSession` says where requests and
connections are and does not tell answers apart; `Delivery` has one session,
wherever its client structure is, and follows each answer from the server into
the tab. `asked`, `waiting` and `got` are the tab's `jsnMessages` and their
`arrResponseNumbers`; `made` and `confirmed` are `arr_response` of a request, of
which confirmed entries are NULL; `resend` is `client_copy_check`; `work` is what
the current request does, `paused` being `client_paused_request`.

| Action | Code |
|---|---|
| `TabRequests`, `TabResumes`, `TabReceives` | `GS.requestFromSocket`, and the two halves of `onmessage` in `GS.openSocket` |
| `Cut`, `Reconnect` with `Recovers` | the websocket is lost; `onclose`, and the recovery in `client_cb`, or the new session |
| `ReadRequest`, `ReadConfirm`, `ReadFrom` | `client_frame_cb` |
| `Start` | `client_request_queue_cb` |
| `Answer`, `Pause` | the callbacks of the running request, `close_client_if_needed` |
| `ResendOne`, `ResendEnds` | `client_send_from_cb` |
| `ServerNotices`, `WindowPasses` | `client_close`, `client_close_timeout_prepare_cb` |

What it keeps of the code and is easy to get wrong: CONFIRM acts on the current
request whatever message it names; SEND FROM counts the answers saved when it
starts, while new answers go out directly; a RAW query asks whether the browser
is there before an answer, a copy after it; the tab ignores answers to a message
that has ended. A websocket that is lost takes along everything on its way to
the tab and any last part of what was on its way to the server. Every recovery
gives the session a new id (`common_client.c:655`): from then until the tab has
read it, the session is `stale`. If the websocket is lost in between, the tab
asks for the id before, which is gone (`greyspots.js:6227`, `6411`), and gets a
session with nothing in it; the requests of the old one are in `left`, and
nobody will answer them.

Abstractions: every request has `Answers` answers, and the last of them is the
one that ends it (TRANSACTION COMPLETED, OK and FATAL alike). SEND FROM compares
message ids whole, where the code compares a prefix. The last step of the
resending and its end are one action, since no frame is read between them. A tab
asks for something new only on a working websocket; calls kept in
`arrWaitingCalls` are calls made later. `over` ends the behaviour when the
session is freed, or used after being freed.

### Calls

A window of the browser with all its websockets. `tab.socks[i]` is a websocket
with its `readyState` (`at`), the flag that tells `onclose` to leave it alone
(`stay`), its timer, the session id it knows (`sid`) and the one it asked for
(`old`), and the frames under way; `tab.place` is `GS.envSocket` and
`GS.websockets`; `tab.calls` are the messages with the socket and the session
they were given to; `tab.waiting` is `arrWaitingCalls`. On the server a session
is what the others see of it: whether it lives, from which first session it was
recovered (`line`), the requests it has in their order (`work`), of which the
first one runs until its CONFIRM is read, and whether answers to that one were
lost. A session id is the number of the websocket that got it.

| Action | Code |
|---|---|
| `OpenPlace`, `Call` | `GS.openSocket`, `GS.requestFromSocket` |
| `SessionArrives` | the first frame of a websocket in `socket.onmessage`: SEND FROM for the unfinished calls, then the waiting ones |
| `Timer` | the timer of `onclose`, with `GS.closeSocket` and `GS.openSocket` |
| `Closes`, as `Close` and `Drop` | `socket.onclose`, asked for or not |
| `Handshake`, `WindowPasses` | `client_cb`, `client_close_timeout_prepare_cb` |
| `ReadFrame` with `Taken` | `client_frame_cb`: a request, SEND FROM, the CONFIRM of a last answer |
| `Answer` | the last answer of the running request arrives, and the tab confirms it (`greyspots.js:6287`-`6357`) |

Four things of the code that the model keeps. The tab drops a message when its
last answer has arrived and sends CONFIRM; only when the server reads that does
the request end (`common_client.c:1081`). If the CONFIRM is lost with the
websocket, nobody sends it again, and the session starts no later request
(`Unconfirmed`). A recovered session has a new id
(`common_client.c:655`), so a websocket that is lost before the tab has read
that id leaves its session behind. A websocket that `onclose` opened has no
name (`greyspots.js:6411`), so its own timer looks after `GS.envSocket`, and the
place of the tab stays closed; calls of that tab then go to `GS.envSocket`. And
a call made in the second before the timer opens a session of its own, which
the timer then asks for. `left` is the set of places that have lost their
session in one of the last three ways; `CallsAreAnswered` says that these and the
lost CONFIRM are the only ways in which a call in a session stays unanswered.

Abstractions: an answer is the last one, since `Delivery` follows the others.
A frame with a call that is lost is never sent again: the call then stays
`sent`. The error dialog's button to reconnect is left out, so is
`GS.querySocket`, which is never opened a second time.

### TabSave

A script tab, its file, and every window that has the file open. A text is a
version number. `tab[t]` is the tab element: path, stamp, `currentlySaving`,
`saveWaiting`, `saveState` and the name in its rename control; `saveTimeout[t]`
is the save whose 30 seconds run; `warnings[t]` the elements that try a save
again; `timer[w]` is the one `intSaveTimerID` of a window. `serving[w]` is the
request between its two turns of the loop. `names` and `disk` are a directory
and its inodes, because a rename between the two turns separates the name from
what was opened.

| Action | Code |
|---|---|
| `NewTab`, `LoadTab`, `Edit` | `newTab`, `setFrame`, the change handler of the editor |
| `TimerFires`, with `SaveScript`, `SaveFile` | `saveScript`, `saveFile` |
| `SaveTakesTooLong`, `ClickWarning` | the 30 seconds, and CLICK HERE TO TRY AGAIN |
| `Rename`, `CloseTab` | the rename control, `closeFile` |
| `ServerStarts` (`StartWrite`, `StartRead`, `StartMove`) | `ws_tab_write_step2`, `ws_tab_read_step2`, `ws_tab_step1` |
| `ServerFinishes` (`FinishWrite`, `FinishRead`, `FinishMove`) | the check callbacks of the second turn |
| `Receive` (`Saved`, `SaveDone`, `SaveFails`, and those of READ and MOVE) | the callbacks of `saveFile`, `setFrame`, the rename and `closeFile` |
| `SocketCloses`, `SocketOpens`, `Tick` | the websocket, and the clock of the file system |

Kept of the code: a stamp is compared by its seconds; the file is truncated when
it is opened and written in the next turn; the stamp in the answer is of
whatever has the name then; the stamp of a READ is older than its text; the
callback of a save starts the next one and marks the tab saved after that; a
rename takes the name the control has when the answer arrives, and replaces a
file of that name; closing a tab during a save lets the save make the file
again.

Abstractions: what two writes of different length leave in a file is one of
them or `Mixed`. The rare events (a save later than 30 seconds, a click on a
warning, a rename, a close, a lost websocket, a failed system call) are each
possible at any moment, `MaxRare` of them in a behaviour. `Losses` says what may
be lost with a websocket: nothing; any last part of the frames to the server;
the CONFIRM of the answer before, after which the session starts nothing
(`stuck`); or the session with all its requests and answers. No WRITE is ever
sent again by itself. `slips` is history, and what the properties except: `lost`
marks a tab whose WRITE was lost while its 30 seconds run, `unnoticed` one whose
30 seconds had been ended by the answer of an earlier save, or were ended by it
later, `timer` one whose save timer another tab of the window took, and `retry`
one whose older text was sent again by a click on a warning.

### Edits

`edits[v]` is one call of `insertRecords`, `updateRecords` or `deleteSelection`
for one record, and `v` is also the version of the record it makes. `phase` is
the request it waits for, `loader` whether a loader covers its grid, `asks`
whether a dialog asks before the COMMIT. `shown[g]` is what a grid shows.
Per session there are the requests under way, the one answer under way, and the
connection's transaction: `tx` and the uncommitted versions `own`, which are
also its row locks. `rows` is the committed table.

| Action | Code |
|---|---|
| `Edit` | the three functions of `datagrid.js`, up to BEGIN |
| `Receive` | the callbacks of `requestBegin`, of the change, of `requestCommit`, `requestRollback`, and `getData` |
| `Decide` | the answer to the dialog |
| `ServeBegin`, `ServeEnd`, `CommitFails` | `client_cmd_cb` with PostgreSQL's COMMIT and ROLLBACK |
| `ServeCompare` | `ws_insert`, `ws_update`, `ws_delete` up to the comparison of the hash |
| `ServeStatement` | their last statement, which waits for a lock |
| `ServeSelect` | `ws_select`, as far as it is about the rows |
| `SessionLost` | `client_close_immediate` of the session, with its connection |

Kept of the code: the comparison and the change are two statements, and the
change finds the record by its key; without a transaction the temporary table is
gone before the COPY into it, and `ws_delete_step4` answers nothing to that; an
UPDATE that finds no row is answered like one that does; COMMIT is OK in an
aborted transaction; the transaction id is empty, so a COMMIT ends whatever the
connection has open. PostgreSQL is taken at read committed: a statement sees
what was committed when it began, locks are held to the end of the transaction.

Abstractions: one record an edit; the rows of a statement and its end are one
answer; a session that is lost loses the callbacks of what was under way.

### SqlSplit

`DArray_sql_split` with its own variables, one iteration of its two loops a
step; a character is an element of `Chars`. The second part of the module is a
lexer written from the notes at the top of the file, to which the first part is
compared: `Token` is the lexer after one more token, `Read` the lexer before each
of them, `Cuts` the places after the semicolons that nothing covers, and
`QueryEnds` these and, unless only blanks and comments follow the last one
(`Empty`), the end of the text. `CharsAssumption` says what the code has from
`isalnum` and `isspace`: none of the characters that mean something to the
splitter is a letter, a blank or a newline. The notes and the code differ for three
kinds of text, which `Regular` sets apart: `/*/` is a whole comment for the
code, after `*/` the slash is looked at again (so `*/*` opens another comment),
and the end of an empty dollar quote (`$$$$`) is passed over. A backslash or a dollar tag
at the very end takes one character more than there is and the unsigned rest
wraps: the phase is then `over`, and nothing is said of it. The character before
the text is read when a text begins with a quote: the model allows either
outcome.

## What TLC checks

Structures are used once and the rare events are counted, so every instance ends
when they run out: this is why deadlock is not checked. Fairness is stated only
where liveness is checked.

| Run | Bounds | Shows |
|---|---|---|
| `MCSessionSafety` | 3 clients, 2 requests, window 1; 1.2 million states up to symmetry | `TypeOK`, `ConnectionHasOneHolder`, `RequestHasOneHolder`, `PausedWorkIsResumable`, `IdleCoversWaiting` |
| `MCSessionKept` | 3 clients, 1 request, window 2, handshakes are written, nobody logs out, `login_timeout` is set, `FairSpec`; 884,315 states | `RunningRequestIsKept`, `ClosedSessionEnds` |
| `MCSessionQueue` | 2 clients, 3 requests, window 1 | `RecoveryIsInvisible`: `ClientSession` implements `SessionQueue` |
| `MCDelivery` | 2 requests, a copy and a RAW query, of 3 answers, 2 lost websockets, `FairDelivery`; 113,227 states | `DeliveryTypeOK`, `ConfirmedIsReceived`, `QuiescentTabHasAll`, `QuiescentWorkGoesOn`, `RunningIsAnswered` |
| `MCLogins` | 4 clients, 3 logins, timeout 2; 399,245 states | `LogTypeOK`, `EntriesUnique`, `SweepSparesBusy`, `FreshLoginsStay` |
| `MCCalls` | `GS.envSocket` and one SQL tab, 6 websockets, 2 calls, 2 of the websockets lost; 4.5 million states | `CallsTypeOK`, `CallsAreMadeOnce`, `OneSessionForAPlace`, `CallsAreAnswered`, `EnvComesBack` |
| `MCTabSave` | a tab in each of 2 windows on one file, 3 versions, 2 seconds, 2 rare events, everything may be lost with a websocket; 4.3 million states | `TabTypeOK`, `UnsavedIsUnderWay`, `SavedIsNotStale`, `LockedHasAWayOut` |
| `MCTabStored` | 1 new tab, 3 versions, 2 seconds, 3 rare events, no frame is lost with a websocket, `FairTabs`; 436,910 states | `EditsAreStored` |
| `MCEdits` | a grid in each of 2 windows, 2 records of which one is missing, 2 edits, 1 lost session, 1 failed statement, `FairEdits`; 214,582 states | `EditsTypeOK`, `RefusedStaysOut`, `ReportedIsCommitted`, `LocksHaveAnOwner`, `EveryEditEnds` |
| `MCSqlSplit` | all texts of 4 words out of 20; 1.4 million states | `SplitTypeOK`, `QueriesTileTheText`, `SplitsAsNoted` |

Why the bounds are enough for the cases to happen:

- Three clients let a session be recovered by a client that is itself lost and
  recovered; two let the old and the new one meet. Two requests are one that
  runs and one that waits; three in one session put two into the queue, so that
  their order can be wrong. A window of one tick has a before and an after, a
  window of two also a middle, in which a recovery leaves part of it over.
- Four sockets on three logins let two or three entries expire in one sweep,
  with clients on any of them and one entry with two. With two logins the first
  expired entry is never followed by another two, and the indices go wrong only
  then.
- Three answers are one the tab has, one it misses and the last one; a second
  lost websocket interrupts the resending that followed the first; the second
  request is there to be hit by a late CONFIRM of the first.
- Two lost websockets are enough for a websocket to be lost before its session
  id arrives, for the nameless second websocket of a tab to be lost, and for a
  timer to meet a call that was made before it; they open at most six.
- Three versions are the file at the start, a change, and a change during its
  save. Two seconds put two writes into one second or into two. Two rare events
  let a late answer meet a retry, or a rename meet a lost websocket. One lost
  websocket is enough to lose the WRITE of a second save after or before the
  answer of the first one has ended its 30 seconds, so the exceptions of the
  three invariants are met (`MCTabLost`), and so is what they promise beside
  them. The other two exceptions need more than the bounds: the shared timer
  two tabs in a window, the click on an older warning four rare events or five.
- Two edits of two windows conflict on a record, or one waits for the other's
  lock; an error puts one of them into an aborted transaction, a lost session
  takes one away in the middle.
- Four words put a quote into a comment, a comment into parentheses, a tag into
  a string, and a semicolon after each.

What the bounds leave out is said here rather than in a property:

- With one grid in a window, `MCEdits` cannot have two edits in one transaction;
  `MCEditsShared` has. That the UPDATE of a record overwrites another session's
  change is in no property of `MCEdits`, only in `NoLostUpdate`
  (`MCLostUpdate`).
- `RunningRequestIsKept` is checked with handshake responses that are written
  (`MCHandshakeLost` has the other case), `ClosedSessionEnds` with
  `login_timeout` set (`MCSessionLingers`), and `EditsAreStored` with no frame
  lost with a websocket.

Each property has a faulty variant of the code beside the operator it replaces
(`MovedWithoutPaused`, `SaveScriptOnce`, `SemicolonCountsOn` and so on), under
which TLC finds it violated.

### Where the code disagrees with what it says

Two runs end in a counterexample:

| Run | Property | What happens |
|---|---|---|
| `MCEditsShared` | `RefusedStaysOut` | two grids of a window share a transaction: the COMMIT of one commits what the user is being asked about in the other's dialog, and then refuses |
| `MCActiveKept` | `ActiveSocketIsKept` | the sweep closes clients of the entry after the expired one |

`PROJECT.json` quotes the line that promises otherwise. Further configurations,
kept beside the runs, end in a counterexample, too; each asks of a module what
the runs above leave out, by a constant or in a property:

| Configuration | Property | What happens |
|---|---|---|
| `MCSessionLingers`, of `MCClientSession` | `EverySessionEnds` | without `login_timeout`, which is the default, nothing wakes the loop, and the window of a closed session is never seen to end |
| `MCHandshakeLost`, of `MCClientSession` | `RunningRequestIsKept` | a recovery whose handshake response cannot be written frees the running request |
| `MCCallbackMoves`, of `MCClientSession` | `CallbackFollowsConnection` | a recovered connection still calls back to the freed client |
| `MCEarlyEnd`, of `MCDelivery` | `EndedHasAll` | the last answer overtakes the resent ones and ends the message in the tab |
| `MCConfirmLost`, of `MCDelivery` | `QueuedIsStarted` | the CONFIRM of a last answer is lost, and the session starts no request any more (`common_client.h:97`) |
| `MCTabTimer`, of `MCTabSave` | `LeavingWarns` | one `intSaveTimerID` serves all tabs of a window: a change in one tab cancels the save of another, whose change is neither written nor asked about when the window is left (`app/index.html:235`) |
| `MCTabLost`, of `MCTabSave` | `NothingLocked` | the WRITE of a second save is lost with its websocket after the answer of the first one has cleared the one `saveTimeout`: the tab saves for ever, no WRITE is under way, and no warning will come (`ws-tab-functions.js:2189`) |
| `MCOldWarning`, of `MCTabSave` | `NothingForgotten` | two warnings stand, of an older and a newer text; a click on the older one removes both, and the newer text is in no file, in no warning and not under way (`ws-tab-functions.js:2133`) |
| `MCOldRetry`, of `MCTabSave` | `NothingStale` | a save is late and fails, and its warning stands beside a newer save that succeeds; a click on it writes the older text over the newer one, and the tab is marked saved |
| `MCIndexPast`, of `MCLastActivity` | `IndexInArray` | three entries expire in one sweep, and a client is left with an index past the new array; its next frame fails the check of `DArray_get` (`util_darray.c:170`), whose comment says that this happens occasionally |
| `MCLostUpdate`, of `MCEdits` | `NoLostUpdate` | the record changes between the comparison of the hash and the UPDATE, and is overwritten without "Someone updated this record before you." (`ws_update.c:497`) |

### Fairness

`FairSpec` assumes that time passes (`WF(Tick)`), that the periodic timer, when
armed, makes poll return (`WF(Wake)`), and that the prepare callback of a client
whose window has passed runs when iterations happen (`WF(CloseTimeout(c))`;
libev runs every prepare callback in every iteration). Nothing is assumed of
browsers, users, the database or requests: `ClosedSessionEnds` may not depend on
them. The timer is the one of `free_last_activity`, which is armed only when
`login_timeout` is set (`common_main.c:256`), and this is the condition of
`ClosedSessionEnds`.

`FairDelivery` assumes that frames arrive unless the websocket is lost, that the
tab opens another websocket (`onclose` does so after a second), that the loop
runs its callbacks and that the database answers. The websocket is lost at most
`MaxCuts` times, and a session that is freed before the tab is back has lost its
messages, and so has one of which the tab did not get the new id: both are in
the property (`over`, `left`), the losses in the bound.

`FairTabs` assumes that the browser's save timer fires, that websockets are
opened again, that the server's loop runs and that answers arrive. Nobody has to
type, click or be late. `FairEdits` assumes the same of edits, and that users
answer the dialogs they see: a dialog holds locks, so `EveryEditEnds` would be
false without it, and that is how the program works.

`Calls` needs no fairness. Calls and losses are bounded, so that every behaviour
comes to a state in which nothing of `Progress` is left to do (`AtRest`), and
what must have happened in the end is an invariant of those states.

## What is proved

### The session

For every set of clients and requests, every window and every setting of the
flags (the named assumptions `NoneAssumption`, `WindowAssumption`,
`FlagsAssumption` of `ClientSession`):

| Theorem | Statement |
|---|---|
| `TypeCorrect` | `Spec => []TypeOK` |
| `OneHolder` | `Spec => []RequestHasOneHolder` |
| `WorkIsResumable` | `Spec => []PausedWorkIsResumable` |
| `OneConnectionHolder` | `Spec => []ConnectionHasOneHolder` |
| `IdleIsCovered` | `Spec => []IdleCoversWaiting` |
| `SessionImplementsQueue` | `Spec => RecoveryIsInvisible` |
| `RunningIsKept` | `~UsersLogOut /\ ~HandshakeMayFail => (Spec => RunningRequestIsKept)` |

`TypeOK` is not inductive: freeing the current request looks at
`req[client[c].cur]`, and starting one takes the head of a queue that has to
hold requests. The invariant of `ClientSession_proofs` is `HeldInv`: the types
together with `Held`, which says that what a client holds knows it, that a
queued or current request is held by its parent, and that no queue holds a
request twice. The recovery is the step that needs all of it: the moved
requests are exactly those whose parent changes, and what is left of the old
client holds none. Lemmas about `CloseImmediate`, `Close` and the sequence
operators carry the other actions.

`Held` also says that a client with a current request is busy, and that an
unlisted client holds nothing. Two invariants are added on
top. `PausedInv` is `HeldInv` with the statement of `PausedWorkIsResumable`: a
pause puts the work of its parent's current request aside, and the recovery
moves request and paused work together. `ConnInv` is `HeldInv` with two more
parts. `Connection` says that a live connection is held, that what is held is
live, that no two clients hold the same one, that a connecting connection calls
back to its namesake, and that the connection of an unused client was not opened
yet, which is what `OpenSession` needs. `Waits` says that a connecting
connection whose opener is still listed is held by it, which is what `Connected`
needs.

`IdleInv` is `HeldInv` and a count: the queued requests,
the work of current requests that counts, and the clients that send saved
answers again are finite sets, and no more in all than `idle`. Counting only
what waits would not be inductive: the rows of a RAW query keep their count
while they are paused, and a close gives it back, which must not be somebody
else's. That is why `CloseImmediate` is the step to look at. It subtracts for
one client the length of its queue, and `Held` is what makes that the number of
requests that stop waiting: no queue holds one twice, and no two queues share
one. A resume adds one for rows that were counted already, so the counter may be
too high, as in the code; it is never too low.

The refinement comes last in the module. The queue of a connection is that
of the client that holds it, which the mapping picks with CHOOSE. `ConnInv`
leaves no choice: one client at most holds a connection, so the abstract queues
are the only functions that show what the clients hold (`Shows`), and a callback
is simulated as soon as the queues that `SessionQueue` yields show the new
clients. A hand-over shows the same queues before and after, which is why the
recovery is invisible; a request frame is a Submit, `StartRequest` a Begin,
CONFIRM a Complete, and every close an End or nothing.

`ServedInv` is `PausedInv`, `ConnInv` and `Served`:
what a client runs, unless it has sent its last answer, it runs over a
connection that is up, and a connected client has a connection. `client_close`
frees at once when the connection is bad or missing, whatever runs; `Served`
says that then nothing runs. The two hypotheses are needed: `MCHandshakeLost`
shows the request lost when a handshake response cannot be written, and a logout
closes whatever runs.

### The splitter

For every alphabet and every set of texts of one character or more
(`TextsAssumption`): `SplitTypeCorrect` is `SplitSpec => []SplitTypeOK`, and
`SplitLosesNothing` is `SplitSpec => []QueriesTileTheText`. The invariant
`SplitInv` relates the pointers of the scan, the characters it counts down, and
the queries that were cut off; all that the dozen kinds of tokens have to do with
it is that each of them moves by a number of characters (`ScanMoves`).

With `CharsAssumption`, `SplitsAsNotedAlways` is `SplitSpec => []SplitsAsNoted`:
every regular text is split where the lexer of the notes cuts it, and the last
query is dropped just when it is blanks and comments. Its invariant `LexInv`
(with `SplitInv`) sets the two loops beside the lexer:

- In the scan (`ScanMatches`) the mode, the level of parentheses, the tag and the
  escapes are those of the lexer before one of its tokens, and the queries end at
  the cuts of the tokens before that one. The pointer is where the token begins,
  or one character before it (`Half`): the code takes the first character of a
  comment mark, changes its mode, and takes the second one as a character of the
  comment, or of what follows it. A text is regular if that does no harm, and
  then the second character is taken by `Other` and by nothing else
  (`ScanEndsMark`). A dollar tag is taken together with the next character, which
  is two tokens (`ScanTags`).
- In the trim (`TrimMatches`) the pointer follows the lexer in the same way,
  begun again at a cut, where the lexer is in no quotes (`LexerAtCut`), and every
  token between the start of the last query and the pointer is one to be skipped.
  The lexer cuts at the ends of all the queries, or of all but the last: the
  queries alone do not tell whether the text ended with a semicolon. If it did,
  the trim cannot reach the end, since that semicolon is not to be skipped
  (`CutToken`).
- What the memory holds before the text (`before`) is chosen when the first
  character is read; until then every choice matches.

That `Read` is what its recursion says, that each token takes a character at
least, and that its pieces are in the text, is shown for every text by looking
for the first place at which it would fail (`AllNumbers`). An empty text is never
split, and of a scan that ran past the end nothing is said.

### The edits

For any sessions, grids and records and any bounds (`EditsAssumption`, and
`NoAnswerAssumption`, which says that `None` is not an answer):

| Theorem | Statement |
|---|---|
| `EditsTypeCorrect` | `EditsSpec => []EditsTypeOK` |
| `WhatIsRefusedStaysOut` | `GridsAlone => (EditsSpec => []RefusedStaysOut)` |
| `LocksAreOwned` | `GridsAlone => (EditsSpec => []LocksHaveAnOwner)` |
| `ReportsAreTrue` | `GridsAlone => (EditsSpec => []ReportedIsCommitted)` |

`GridsAlone` says that no two grids share a session. It is needed:
`MCEditsShared` shows `RefusedStaysOut` violated by two grids of one window,
whose edits share a transaction.

The argument follows the requests of a session, which are answered in the order
in which they were sent. The ones under way form a line: the request of the
answer that the tab has not read yet, at place 0, and then the requests that wait
in the server. `EditsInv` says of the line that an edit has one request in it at
most, that of its phase; that an edit ends before the next one begins; that no
COMMIT or ROLLBACK is under way while a dialog asks; and, of the database, that
what a connection holds uncommitted is of one edit, whose statement was just
answered, or which is asked about, or whose end is in the line. A COMMIT that is
served therefore commits the edit it is of and nothing else. `CommittedInv` adds
the way back, from a report to the database: from the answer to its statement on,
an edit's transaction is open and holds its change until its COMMIT is served,
or the record was deleted by another edit.

### The answers

For any requests, any number of answers a request has and any number of lost
websockets (`AnswersAssumption` and the other named assumptions of `Delivery`):

| Theorem | Statement |
|---|---|
| `DeliveryTypeCorrect` | `DeliverySpec => []DeliveryTypeOK` |
| `ConfirmedIsReceivedAlways` | `DeliverySpec => []ConfirmedIsReceived` |
| `QuiescentTabHasAllAlways` | `DeliverySpec => []QuiescentTabHasAll` |
| `QuiescentWorkGoesOnAlways` | `DeliverySpec => []QuiescentWorkGoesOn` |

Each property is about a moment at which nothing is under way, and so about what
*would have been* under way otherwise: the invariant, `DeliveryInv`, is of the
frames, in layers. `PlacedInv` says where a request is (on its way, in the queue,
current, in this order and once each) and how far its work has come. `ConfirmInv`
adds what the frames name: CONFIRM acts on the current request whatever message
it carries, so the proof needs that a CONFIRM under way is for the current
request, of an answer that the tab has, and that nothing follows the CONFIRM of
a last answer. A session that is left behind takes its requests out of the
queue: what the tab still asks for then is no request of the new session
(`Reconnects`). An answer under way for anything but the current request is one
the tab ignores. `Resuming` says what follows a new websocket: the
session id first, then one SEND FROM for each unfinished message, from a number
up to which the tab has the answers, and only then is anything sent again.
`Coming` closes the argument: on a working websocket, every answer that was made
for the running message was received, is on its way, is among those being sent
again, or will be asked for by a SEND FROM or a session id still to come, and
paused work will be resumed by one of the same. The steps that need all of it are
the arrival of the session id, which turns one promise into several frames, and
the end of the resending, after which only what is on its way is left. The
proofs go layer by layer, with a lemma for each callback.

### The log of activity

For any clients and logins and any `login_timeout` of a tick or more:

| Theorem | Statement |
|---|---|
| `LogTypeCorrect` | `LogSpec => []LogTypeOK` |
| `EntriesUniqueAlways` | `LogSpec => []EntriesUnique` |
| `SweepSparesBusyAlways` | `LogSpec => SweepSparesBusy` |
| `FreshLoginsStayAlways` | `LogSpec => FreshLoginsStay` |

The sweep and its compaction are recursive functions over the array. That the
functions exist, and what they yield for an array of any length, is shown
without an induction theorem: the places at which a statement fails are a set of
numbers, a set of numbers that is not empty has a least member (`LeastNumber`),
and there the step from the place before fails (`AllNumbers`). `Lists_proofs`
does this once for `Kept`: it loses nothing that is wanted, adds nothing, and
takes its elements from increasing places. `SweptFrom` is what every pass of the
sweep keeps: an entry is where it was or was dropped, only an expired one is
dropped, nobody joins the list, and busy clients stay in it. `LogInv` is
`LogTypeOK` and `EntriesUnique` with a third part, that a listed client has a
login, which `client_close` needs when it adds one.

What cannot be proved is that an index stays in the array: it does not. The
attempt to find an inductive invariant for `IndexInArray` is what led to
`MCIndexPast`; with two logins TLC finds nothing.

### The calls

For any named websockets, any number of calls and losses and at least one
websocket (`CallsAssumption`):

| Theorem | Statement |
|---|---|
| `CallsTypeCorrect` | `CallsSpec => []CallsTypeOK` |
| `CallsAreMadeOnceAlways` | `CallsSpec => []CallsAreMadeOnce` |
| `OneSessionForAPlaceAlways` | `CallsSpec => []OneSessionForAPlace` |
| `CallsAreAnsweredAlways` | `CallsSpec => []CallsAreAnswered` |
| `EnvComesBackAlways` | `CallsSpec => []EnvComesBack` |

A step of the window is several calls of its functions: the arrival of a session
id marks the unfinished calls, may open `GS.envSocket` again, and then makes the
waiting calls. The invariants are therefore stated of any window `t` and any
sessions `sv` in the place of `tab` and `server`. What a function returns is
described once (`Opens`, `Makes`, `Resumes`, `Alters`, `Recovers` and so on),
every invariant is kept by each of them, and a step puts them together.

- *The types and the places*, `CallsSound`. `Typed` are the types, and what the
  functions look up is there: a call has a websocket, and `arrWaitingCalls` is
  the calls that wait, each once. `Placed` says which websockets can matter: one
  at a time is at a place, and one that is connecting or open is at a place; the
  session it asks for is of an earlier websocket, which is at no place, and which
  no other place asks for; and a closed websocket of a place has a timer, unless
  the place was left.
- *Once* (`Once`). A call that is on its way or in a session is nowhere else,
  and one that was answered is the first request of its session, whose CONFIRM
  is not read. `Confirmed` says of a CONFIRM on its way that its session has lost
  no answer, so that it ends the request it was sent for.
  The step to look at is the recovery in the handshake: it moves the requests of
  the session that is asked for, and because no other place asks for that session
  and the websocket that had it is not open, nobody else has them or gets them.
- *Comes back.* `Served` adds that an open websocket has a session that lives,
  that a session that ended does no work, and that the session that was asked for
  ended when the handshake succeeded. With the timers of `Placed` this
  gives `EnvComesBack`.
- *One session.* `Lines` follows a session through its ids: the session id that
  a place asks for, that of its websocket and those of its calls are of one line.
  Its steps need that a place which lost its session to the window of the server
  is in `left` from the handshake on, and not before: until then the calls still
  are of the line that is asked for.
- *Answered.* `Resumable` is what holds until the window is at rest: a call that
  waits has a websocket that will have its session id, or a timer; the work for a
  place is in the session of its websocket or in the one that this asks for
  (unless that one has ended, and the place is about to be left); a call that was
  sent has the session id that its place asks for, so that the next id finds it
  among the unfinished; and a session whose answers were lost has a SEND FROM for
  its running request under way as soon as the window has the id. The arrival of
  the id needs all of it.

The websockets that the places of `left` have lost are excepted in
`OneSessionForAPlace` and `CallsAreAnswered`, in the latter also the sessions that
wait for a CONFIRM (`Unconfirmed`), for every number of losses as on the bounds of
`MCCalls`; that nothing else is excepted is what the theorems add.

### The tab files

For any windows, tabs and names, any number of seconds, versions and rare events,
and any of the files stored at the start (`TabsAssumption`, and `NoneAssumption`,
which says that `None` is nothing else):

| Theorem | Statement |
|---|---|
| `TabTypeCorrect` | `TabSpec => []TabTypeOK` |
| `LockedHasAWayOutAlways` | `TabSpec => []LockedHasAWayOut` |
| `UnsavedIsUnderWayAlways` | `TabSpec => []UnsavedIsUnderWay` |

There is no further hypothesis: frames, a CONFIRM and the session may be lost
with every websocket, any number of tabs share the timer of their window, and
warnings may be clicked. What then goes wrong is in the properties, as the
history `slips` of the tab, and TLC shows that each exception is needed: a WRITE
is lost unnoticed (`MCTabLost`), another tab took the timer (`MCTabTimer`), an
older warning was clicked (`MCOldWarning`, `MCOldRetry`).

The argument is about what is on its way. `Pending(t, c)` says that the WRITE of
the text `c`, or its verdict, waits in the server, is served, or is in the answers
that the browser has not read. `Moves(t)` says once, of every step, what it may do
to the saves of a tab: it leaves them (`Steady`), starts one (`Starts`), or ends
one (`Ends`); in each case a pending write stays pending until its answer is
read, unless it is lost, and then the tab is `Told`: a warning stands, the 30
seconds run (`Timed` keeps the history honest here: `lost` is in `slips` only
while they do), or the loss was noted as unnoticed. From this:

- *A way out.* `HasAWayOut` says that a tab that saves or is locked has a write
  pending, or is told of one that is lost. The step to look at is the answer to
  a write, which ends the save, or starts the one that waited, or is that of an
  older save.
- *Nothing forgotten.* `StoredIsRead` says that what files and answers hold was
  written once, or is two texts mixed; a text that never was stored is therefore
  not what an answer confirms. `Held` says where such a text is: the timer, the
  save that waits, a pending write, a warning, or in what `slips` notes.

### Only checked by TLC

The liveness properties (`ClosedSessionEnds`, `RunningIsAnswered`,
`EditsAreStored`, `EveryEditEnds`), which are out of the prover's reach, and
`SavedIsNotStale`. Every other invariant and every action property of the passing
runs is a theorem.

## What is left

In the order of what it would add:

1. CANCEL and the prefix comparison of SEND FROM in `Delivery`.
2. Loss and reset of the database connection with the timer of ten seconds,
   against a recovery of the session.
3. The steps of `ws_raw.c`: savepoints, COPY IN, and the failure of
   `PQconsumeInput`.
4. Reading and writing frames in pieces, as a refinement of a channel of whole
   frames.
5. Proofs: `SavedIsNotStale`, and that `Calls` implements one queue of calls for
   each place.

## Not modelled

- Of the session: CANCEL, the reset of a lost connection, fragmented messages
  and frames read or written in pieces, and what a RAW query does inside its two
  stages.
- Requests over plain HTTP (upload, export, files, `change_pw`,
  `change_database`): one request a connection, answered and closed, with no
  state that two of them share but the login activity, which is modelled.
- TAB LIST and SEARCH, the autosave copies of tabs, the `ACTION` requests and
  notifications, and the error dialog's button to reconnect.
- Most lines of the repository keep no state that a property could be about, and
  this is why the models stand for a small share of them: `d3.js` and the other
  vendored scripts, libev, libpq and tre; the templates of catalog queries
  (`pg-9.2-*.js`), which are text; the widgets of `greyspots.js` and the dialogs,
  which draw; the object tree and autocompletion, which read the catalog and
  show it.
- Encryption, encodings and cookies: values that the properties only compare.
- Configuration, TLS, logging and the Electron shell: read once, or I/O without
  protocol state. Running out of memory: every allocation succeeds. Windows
  builds differ in socket handling only and are left aside.
