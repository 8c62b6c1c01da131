------------------------------- MODULE TabSave -------------------------------
(***************************************************************************)
(* How the text of a script tab gets into its file on the server.          *)
(*                                                                         *)
(* A window of the browser saves a tab 300 ms after its last change, one   *)
(* save at a time (saveScript, saveFile of ws-tab-functions.js): a change  *)
(* during a save asks for another one, a save that is not answered within  *)
(* 30 seconds or that fails makes the editor read-only and shows a warning *)
(* that sends the same save again when it is clicked.  The server          *)
(* (ws_tab.c) answers TAB READ, WRITE and MOVE, each in two turns of its   *)
(* loop, so the requests of two windows interleave; a WRITE carries the    *)
(* change stamp of the file as the tab knows it, and is refused when the   *)
(* file has another one.  Stamps are compared by their seconds only        *)
(* (the fraction is appended to the wrong string, and never looked at),    *)
(* so a stamp is a second here and 0 is no stamp.                          *)
(*                                                                         *)
(* A text is a version number: every change makes a new one.  The requests *)
(* of one window are answered one at a time and in order (ClientSession,   *)
(* Delivery).  With a websocket the last frames to the server can be lost, *)
(* or the CONFIRM of the answer before, after which the session starts     *)
(* nothing, or the session with all its requests; no WRITE is sent again.  *)
(***************************************************************************)
EXTENDS Naturals, Sequences, FiniteSets, Lists

CONSTANTS
    Windows, Tabs, Names,
    WindowOf,    \* the window of each tab
    FileOf,      \* the name of the file of each tab when it is opened
    Stored,      \* the names that have a file at the start
    None,
    LastSecond,  \* bound on the clock
    MaxVersion,  \* bound on the changes
    Rare,        \* the rare events that may happen: late, click, rename,
                 \* close, lost, broken
    MaxRare,     \* bound on the rare events
    Losses       \* what may be lost with a websocket: nothing, frames, confirm,
                 \* session

ASSUME TabsAssumption ==
    /\ WindowOf \in [Tabs -> Windows]
    /\ FileOf \in [Tabs -> Names]
    /\ Stored \subseteq Names
    /\ IsFiniteSet(Names) /\ IsFiniteSet(Windows)
    /\ Losses \subseteq {"nothing", "frames", "confirm", "session"}
    /\ Rare \subseteq {"late", "click", "rename", "close", "lost", "broken"}
    /\ MaxRare \in Nat
    /\ {LastSecond, MaxVersion} \subseteq Nat \ {0}

VARIABLES
    now,        \* the second
    version,    \* the last version made
    rare,       \* how many rare events have happened, and of which kinds
    \* the browser
    phase,      \* of a tab: listed, loading, open, closed
    text,       \* the editor's value
    tab,        \* filePath, changeStamp, currentlySaving, saveWaiting, saveState, name
    saveTimeout,\* the save whose 30 seconds run, or None
    warnings,   \* the saves that a warning element sends again
    readOnly,
    timer,      \* intSaveTimerID of a window: the tab it will save, or None
    socket,     \* readyState of GS.envSocket
    \* the websocket
    toServer, toTab,
    \* the server
    serving,    \* of a window: the request between its two turns, or None
    stuck,      \* the session of a window waits for a CONFIRM that is lost
    names,      \* directory: the inode of each name, or None
    disk,       \* content and modification time of each inode
    \* history
    stored,     \* every version that a WRITE wrote
    typed,      \* the versions made in each tab
    slips       \* what went wrong with the saves of each tab:
                \* lost: the 30 seconds run for a WRITE that is lost,
                \* unnoticed: one was lost, and nobody will be told,
                \* timer: another tab of the window took the timer,
                \* retry: an older text was sent again

browser == <<phase, text, tab, saveTimeout, warnings, readOnly, timer, socket>>
server == <<serving, stuck, names, disk, stored>>
tvars == <<now, version, rare, browser, toServer, toTab, server, typed, slips>>

Blank == 0
Template == 1
Mixed == MaxVersion + 1
Versions == Blank .. MaxVersion
Seconds == 0 .. LastSecond
\* Each name and each window's write under way has an inode.
Inodes == 1 .. Cardinality(Names) + Cardinality(Windows)

TabType == [path : Names, name : Names, stamp : Seconds, saving : BOOLEAN, waiting : BOOLEAN,
            state : {"none", "saving", "saved", "error"}]
SaveType == [path : Names, stamp : Seconds, content : Versions \cup {Mixed}]
RequestType ==
    [op : {"write"}, tab : Tabs, save : SaveType]
        \cup [op : {"read"}, tab : Tabs, path : Names]
        \cup [op : {"rename"}, tab : Tabs, path : Names, to : Names]
        \cup [op : {"close"}, tab : Tabs, path : Names]
FileType == [content : Versions \cup {Mixed}, mtime : Seconds]
ServingType == [request : RequestType, inode : Inodes, content : Versions \cup {Mixed}, mtime : Seconds]
AnswerType ==
    [kind : {"data", "done", "error"}, op : {"write"}, tab : Tabs, stamp : Seconds,
     content : {Blank}, save : SaveType]
        \cup [kind : {"data", "done", "error"}, op : {"read", "rename", "close"}, tab : Tabs,
              stamp : Seconds, content : Versions \cup {Mixed}, save : {None}]

ASSUME NoneAssumption == None \notin Nat \cup Tabs \cup Names \cup SaveType \cup ServingType

TabTypeOK ==
    /\ now \in 1 .. LastSecond
    /\ version \in Versions
    /\ rare \in [count : 0 .. MaxRare, kinds : SUBSET Rare]
    /\ phase \in [Tabs -> {"listed", "loading", "open", "closed"}]
    /\ text \in [Tabs -> Versions \cup {Mixed}]
    /\ tab \in [Tabs -> TabType]
    /\ saveTimeout \in [Tabs -> SaveType \cup {None}]
    /\ warnings \in [Tabs -> SUBSET SaveType]
    /\ readOnly \in [Tabs -> BOOLEAN]
    /\ timer \in [Windows -> Tabs \cup {None}]
    /\ socket \in [Windows -> {"open", "connecting", "closed"}]
    /\ toServer \in [Windows -> Seq(RequestType)]
    /\ toTab \in [Windows -> Seq(AnswerType)]
    /\ serving \in [Windows -> ServingType \cup {None}]
    /\ stuck \in [Windows -> BOOLEAN]
    /\ names \in [Names -> Inodes \cup {None}]
    /\ \A m, n \in Names : names[m] = names[n] /\ m # n => names[m] = None
    /\ disk \in [Inodes -> FileType]
    /\ stored \subseteq Versions \cup {Mixed}
    /\ typed \in [Tabs -> SUBSET Versions]
    /\ slips \in [Tabs -> SUBSET {"lost", "unnoticed", "timer", "retry"}]

TabInit ==
    /\ now = 1
    /\ version = Template
    /\ rare = [count |-> 0, kinds |-> {}]
    /\ phase = [t \in Tabs |-> "listed"]
    /\ text = [t \in Tabs |-> Blank]
    /\ tab = [t \in Tabs |-> [path |-> FileOf[t], name |-> FileOf[t], stamp |-> 0,
                              saving |-> FALSE, waiting |-> FALSE, state |-> "none"]]
    /\ saveTimeout = [t \in Tabs |-> None]
    /\ warnings = [t \in Tabs |-> {}]
    /\ readOnly = [t \in Tabs |-> FALSE]
    /\ timer = [w \in Windows |-> None]
    /\ socket = [w \in Windows |-> "open"]
    /\ toServer = [w \in Windows |-> <<>>]
    /\ toTab = [w \in Windows |-> <<>>]
    /\ serving = [w \in Windows |-> None]
    /\ stuck = [w \in Windows |-> FALSE]
    /\ names = LET inode == CHOOSE f \in [Stored -> Inodes] :
                                \A m, n \in Stored : f[m] = f[n] => m = n
               IN [n \in Names |-> IF n \in Stored THEN inode[n] ELSE None]
    /\ disk = [i \in Inodes |-> [content |-> Template, mtime |-> 1]]
    /\ stored = {Blank, Template}
    /\ typed = [t \in Tabs |-> {}]
    /\ slips = [t \in Tabs |-> {}]

Happens(event) ==
    /\ event \in Rare
    /\ rare.count < MaxRare
    /\ rare' = [count |-> rare.count + 1, kinds |-> rare.kinds \cup {event}]

\* What is on its way from window w when it sends a request: a session that
\* is stuck never starts it.
Sent(queues, w, request) ==
    IF stuck[w] THEN queues ELSE [queues EXCEPT ![w] = Append(@, request)]

\* GS.requestFromSocket: a call on a closed websocket opens another one, and
\* waits with the others until it is connected.
Request(w, request) ==
    /\ toServer' = Sent(toServer, w, request)
    /\ socket' = [socket EXCEPT ![w] = IF @ = "closed" THEN "connecting" ELSE @]

-----------------------------------------------------------------------------
(* The browser.  A save is the path, the stamp and the text it was started *)
(* with: the closures of saveFile keep them for the timeout and the        *)
(* warnings.                                                               *)

SaveOf(t) == [path |-> tab[t].path, stamp |-> tab[t].stamp, content |-> text[t]]

WriteOf(t, save) == [op |-> "write", tab |-> t, save |-> save]

\* History: the tab has a new save, whose WRITE may be lost from the start.
Slips(t) ==
    (slips[t] \ {"lost"})
        \cup IF stuck[WindowOf[t]] /\ socket[WindowOf[t]] # "closed" THEN {"lost"} ELSE {}

\* History: the tab is marked saved, and no warning will tell of a lost WRITE.
Silenced(kinds) == IF "lost" \in kinds THEN (kinds \ {"lost"}) \cup {"unnoticed"} ELSE kinds

\* A faulty variant: nothing happens on a closed websocket.
SaveFileUnlessClosed(t, save, b, waitingSends) ==
    LET w == WindowOf[t]
        sends == socket[w] # "closed" IN
    /\ tab' = [tab EXCEPT ![t] = IF sends THEN [b EXCEPT !.state = "saving"] ELSE b]
    /\ warnings' = [warnings EXCEPT ![t] = {}]
    /\ UNCHANGED readOnly
    /\ saveTimeout' = [saveTimeout EXCEPT ![t] = IF sends THEN save ELSE None]
    /\ toServer' = IF sends THEN Sent(waitingSends, w, WriteOf(t, save)) ELSE waitingSends

\* saveFile, with the tab record (b) it leaves: on a closed websocket no
\* request is made and neither callback runs.
SaveFile(t, save, b, waitingSends) ==
    LET w == WindowOf[t] IN
    IF socket[w] = "closed"
    THEN /\ tab' = [tab EXCEPT ![t] = [b EXCEPT !.state = "error"]]
         /\ warnings' = [warnings EXCEPT ![t] = {save}]
         /\ readOnly' = [readOnly EXCEPT ![t] = TRUE]
         /\ saveTimeout' = [saveTimeout EXCEPT ![t] = None]
         /\ toServer' = waitingSends
    ELSE /\ tab' = [tab EXCEPT ![t] = [b EXCEPT !.state = "saving"]]
         /\ warnings' = [warnings EXCEPT ![t] = {}]
         /\ UNCHANGED readOnly
         /\ saveTimeout' = [saveTimeout EXCEPT ![t] = save]
         /\ toServer' = Sent(waitingSends, w, WriteOf(t, save))

\* A faulty variant: a change during a save is not noted.
SaveScriptOnce(t) ==
    IF tab[t].saving
    THEN UNCHANGED <<tab, warnings, readOnly, saveTimeout, toServer, slips>>
    ELSE /\ slips' = [slips EXCEPT ![t] = Slips(t)]
         /\ SaveFile(t, SaveOf(t), [tab[t] EXCEPT !.saving = TRUE, !.waiting = FALSE], toServer)

\* saveScript.
SaveScript(t) ==
    IF tab[t].saving
    THEN /\ tab' = [tab EXCEPT ![t].waiting = TRUE]
         /\ UNCHANGED <<warnings, readOnly, saveTimeout, toServer, slips>>
    ELSE /\ slips' = [slips EXCEPT ![t] = Slips(t)]
         /\ SaveFile(t, SaveOf(t), [tab[t] EXCEPT !.saving = TRUE, !.waiting = FALSE], toServer)

\* newTab with a tab that has no file yet.
NewTab(t) ==
    /\ phase[t] = "listed"
    /\ FileOf[t] \notin Stored
    /\ phase' = [phase EXCEPT ![t] = "open"]
    /\ text' = [text EXCEPT ![t] = Template]
    /\ SaveFile(t, [path |-> FileOf[t], stamp |-> 0, content |-> Template],
                [tab[t] EXCEPT !.saving = TRUE], toServer)
    /\ slips' = [slips EXCEPT ![t] = Slips(t)]
    /\ UNCHANGED <<now, version, rare, timer, socket, toTab, server, typed>>

\* setFrame, the first time a tab of the server's list is selected.
LoadTab(t) ==
    /\ phase[t] = "listed"
    /\ FileOf[t] \in Stored
    /\ phase' = [phase EXCEPT ![t] = "loading"]
    /\ Request(WindowOf[t], [op |-> "read", tab |-> t, path |-> tab[t].path])
    /\ UNCHANGED <<now, version, rare, text, tab, saveTimeout, warnings, readOnly,
                   timer, toTab, server, typed, slips>>

\* The text of the tab will be saved after all its saves that are under way.
WillSave(t) == timer[WindowOf[t]] = t \/ (tab[t].saving /\ tab[t].waiting)

\* History: the windows have one timer each, which was not yet due for u.
Overtaken(u, t) ==
    /\ u # t /\ WindowOf[u] = WindowOf[t] /\ timer[WindowOf[u]] = u
    /\ ~ (tab[u].saving /\ tab[u].waiting)

\* The user types: the change handler of the editor.
Edit(t) ==
    /\ phase[t] = "open"
    /\ ~ readOnly[t]
    /\ version < MaxVersion
    /\ version' = version + 1
    /\ text' = [text EXCEPT ![t] = version + 1]
    /\ typed' = [typed EXCEPT ![t] = @ \cup {version + 1}]
    /\ timer' = [timer EXCEPT ![WindowOf[t]] = t]
    /\ slips' = [u \in Tabs |-> IF u = t THEN slips[t] \ {"timer", "retry"}
                                ELSE slips[u] \cup IF Overtaken(u, t) THEN {"timer"} ELSE {}]
    /\ UNCHANGED <<now, rare, phase, tab, saveTimeout, warnings, readOnly,
                   socket, toServer, toTab, server>>

\* 300 ms later.
TimerFires(w) ==
    /\ timer[w] # None
    /\ SaveScript(timer[w])
    /\ timer' = [timer EXCEPT ![w] = None]
    /\ UNCHANGED <<now, version, rare, phase, text, socket, toTab, server, typed>>

\* 30 seconds after a save was started.  saveTimeout keeps the number of a
\* timeout that has fired; clearing it then does nothing.
SaveTakesTooLong(t) ==
    /\ saveTimeout[t] # None
    /\ Happens("late")
    /\ saveTimeout' = [saveTimeout EXCEPT ![t] = None]
    /\ IF tab[t].state = "saved"
       THEN /\ slips' = [slips EXCEPT ![t] = Silenced(@)]
            /\ UNCHANGED <<tab, warnings, readOnly>>
       ELSE /\ tab' = [tab EXCEPT ![t].state = "error"]
            /\ warnings' = [warnings EXCEPT ![t] = @ \cup {saveTimeout[t]}]
            /\ readOnly' = [readOnly EXCEPT ![t] = TRUE]
            /\ slips' = [slips EXCEPT ![t] = @ \ {"lost"}]
    /\ UNCHANGED <<now, version, phase, text, timer, socket, toServer, toTab, server, typed>>

\* CLICK HERE TO TRY AGAIN.
ClickWarning(t) ==
    /\ phase[t] = "open"
    /\ Happens("click")
    /\ \E save \in warnings[t] :
           /\ SaveFile(t, save, tab[t], toServer)
           /\ slips' = [slips EXCEPT ![t] = Slips(t) \cup
                  IF save.content # text[t] /\ ~ WillSave(t) THEN {"retry"} ELSE {}]
    /\ UNCHANGED <<now, version, phase, text, timer, socket, toTab, server, typed>>

\* The rename control of a tab; the name must be new in this window.
Rename(t, to) ==
    /\ phase[t] = "open"
    /\ Happens("rename")
    /\ \A u \in Tabs : WindowOf[u] = WindowOf[t] => tab[u].path # to
    /\ tab' = [tab EXCEPT ![t].name = to]
    /\ Request(WindowOf[t], [op |-> "rename", tab |-> t, path |-> tab[t].path, to |-> to])
    /\ UNCHANGED <<now, version, phase, text, saveTimeout, warnings, readOnly,
                   timer, toTab, server, typed, slips>>

\* The delete button of a tab: closeFile moves its file into /closed/.
CloseTab(t) ==
    /\ phase[t] = "open"
    /\ Happens("close")
    /\ Request(WindowOf[t], [op |-> "close", tab |-> t, path |-> tab[t].path])
    /\ UNCHANGED <<now, version, phase, text, tab, saveTimeout, warnings, readOnly,
                   timer, toTab, server, typed, slips>>

-----------------------------------------------------------------------------
(* The websocket.                                                          *)

\* History: a WRITE of the tab is lost, of which a warning tells or the timeout
\* will.
SlipsWithout(t) ==
    slips[t] \cup CASE warnings[t] # {} -> {}
                    [] warnings[t] = {} /\ saveTimeout[t] # None /\ tab[t].state # "saved" -> {"lost"}
                    [] OTHER -> {"unnoticed"}

IsWrite(t, m) == m.op = "write" /\ m.tab = t

\* Of the frames to the server all but the first n are lost, or all that come
\* after a CONFIRM that is lost, or the session is, with all its requests.
\* What is under way otherwise is answered after the recovery of the session.
SocketCloses(w) ==
    /\ socket[w] = "open"
    /\ Happens("lost")
    /\ socket' = [socket EXCEPT ![w] = "closed"]
    /\ \E loss \in Losses, n \in 0 .. Len(toServer[w]) :
           /\ loss = "nothing" => n = Len(toServer[w])
           /\ loss = "confirm" => n = 0 /\ serving[w] = None /\ toTab[w] = <<>>
           /\ loss = "session" => n = 0
           /\ toServer' = [toServer EXCEPT ![w] = SubSeq(@, 1, n)]
           /\ toTab' = IF loss = "session" THEN [toTab EXCEPT ![w] = <<>>] ELSE toTab
           /\ serving' = IF loss = "session" THEN [serving EXCEPT ![w] = None] ELSE serving
           /\ stuck' = [stuck EXCEPT ![w] = loss = "confirm" \/ (@ /\ loss # "session")]
           /\ slips' = [t \in Tabs |->
                  IF \/ \E i \in n + 1 .. Len(toServer[w]) : IsWrite(t, toServer[w][i])
                     \/ /\ loss = "session"
                        /\ \/ serving[w] # None /\ IsWrite(t, serving[w].request)
                           \/ \E i \in 1 .. Len(toTab[w]) :
                                  IsWrite(t, toTab[w][i]) /\ toTab[w][i].kind # "done"
                  THEN SlipsWithout(t) ELSE slips[t]]
    /\ UNCHANGED <<now, version, phase, text, tab, saveTimeout, warnings, readOnly,
                   timer, names, disk, stored, typed>>

SocketOpens(w) ==
    /\ \/ socket[w] = "closed" /\ socket' = [socket EXCEPT ![w] = "connecting"]
       \/ socket[w] = "connecting" /\ socket' = [socket EXCEPT ![w] = "open"]
    /\ UNCHANGED <<now, version, rare, phase, text, tab, saveTimeout, warnings, readOnly,
                   timer, toServer, toTab, server, typed, slips>>

-----------------------------------------------------------------------------
(* The server.  A request is started when the one before it was answered   *)
(* (client_request_queue_cb), and finished by a check callback.            *)

AnswerTo(request, kind, stamp, content) ==
    [kind |-> kind, op |-> request.op, tab |-> request.tab, stamp |-> stamp, content |-> content,
     save |-> IF request.op = "write" THEN request.save ELSE None]

Answers(w, answers) == toTab' = [toTab EXCEPT ![w] = @ \o answers]

\* The answer that carries something, and TRANSACTION COMPLETED.
Completed(request, stamp, content) ==
    <<AnswerTo(request, "data", stamp, content), AnswerTo(request, "done", 0, Blank)>>

Refuses(w, request) ==
    /\ Answers(w, <<AnswerTo(request, "error", 0, Blank)>>)
    /\ UNCHANGED <<serving, names, disk, stored>>

FreeInode ==
    CHOOSE i \in Inodes : /\ \A n \in Names : names[n] # i
                          /\ \A w \in Windows : serving[w] = None \/ serving[w].inode # i

\* No stamp, no file, or the file was last changed in the second of the stamp.
StampFits(save) ==
    \/ save.stamp = 0
    \/ names[save.path] = None
    \/ disk[names[save.path]].mtime = save.stamp

\* ws_tab_write_step2: check the stamp, open and truncate.
StartWrite(w, request) ==
    LET save == request.save
        i == IF names[save.path] = None THEN FreeInode ELSE names[save.path] IN
    IF StampFits(save)
    THEN /\ names' = [names EXCEPT ![save.path] = i]
         /\ disk' = [disk EXCEPT ![i] = [content |-> Blank, mtime |-> now]]
         /\ serving' = [serving EXCEPT ![w] = [request |-> request, inode |-> i,
                                               content |-> Blank, mtime |-> now]]
         /\ UNCHANGED <<toTab, stored>>
    ELSE Refuses(w, request)

\* ws_tab_read_step2: open, take the length and the stamp.
StartRead(w, request) ==
    LET i == names[request.path] IN
    IF i # None
    THEN /\ serving' = [serving EXCEPT ![w] = [request |-> request, inode |-> i,
                                               content |-> disk[i].content,
                                               mtime |-> disk[i].mtime]]
         /\ UNCHANGED <<toTab, names, disk, stored>>
    ELSE Refuses(w, request)

\* A faulty variant: the file keeps its old name, too.
StartMoveLinking(w, request) ==
    LET i == names[request.path] IN
    IF i # None
    THEN /\ names' = IF request.op = "close" THEN names ELSE [names EXCEPT ![request.to] = i]
         /\ serving' = [serving EXCEPT ![w] = [request |-> request, inode |-> i,
                                               content |-> Blank, mtime |-> now]]
         /\ UNCHANGED <<toTab, disk, stored>>
    ELSE Refuses(w, request)

\* The MOVE of ws_tab_step1: rename, which replaces a file of the new name.
\* The names of /closed/ are nobody else's, and not kept here.
StartMove(w, request) ==
    LET i == names[request.path] IN
    IF i # None
    THEN /\ names' = IF request.op = "close" THEN [names EXCEPT ![request.path] = None]
                     ELSE [names EXCEPT ![request.path] = None, ![request.to] = i]
         /\ serving' = [serving EXCEPT ![w] = [request |-> request, inode |-> i,
                                               content |-> Blank, mtime |-> now]]
         /\ UNCHANGED <<toTab, disk, stored>>
    ELSE Refuses(w, request)

ServerStarts(w) ==
    LET request == Head(toServer[w]) IN
    /\ socket[w] = "open"
    /\ toServer[w] # <<>>
    /\ serving[w] = None
    /\ toServer' = [toServer EXCEPT ![w] = Tail(@)]
    /\ \/ request.op = "write" /\ StartWrite(w, request) /\ UNCHANGED rare
       \/ request.op = "read" /\ StartRead(w, request) /\ UNCHANGED rare
       \/ request.op \in {"rename", "close"} /\ StartMove(w, request) /\ UNCHANGED rare
       \/ Happens("broken") /\ Refuses(w, request)     \* open or rename fails
    /\ UNCHANGED <<now, version, browser, stuck, typed, slips>>

\* What is in a file when v is written from its start over what others wrote.
Overlaid(old, v) ==
    IF old = Blank THEN {v} ELSE IF v = Blank THEN {old} ELSE {v, Mixed}

\* ws_tab_write_step3 and step4: write, and answer the stamp of whatever
\* file has the name now.
FinishWrite(w, s) ==
    LET i == names[s.request.save.path] IN
    /\ \E content \in Overlaid(disk[s.inode].content, s.request.save.content) :
           disk' = [disk EXCEPT ![s.inode] = [content |-> content, mtime |-> now]]
    /\ stored' = stored \cup {s.request.save.content}
    /\ Answers(w, IF i = None THEN <<AnswerTo(s.request, "error", 0, Blank)>>
                  ELSE Completed(s.request, disk'[i].mtime, Blank))

\* ws_tab_read_step3 and step4: the stamp is that of the first step, the text
\* is what the file has now of the length it had then.
FinishRead(w, s) ==
    /\ \E content \in IF s.content \in {Blank, disk[s.inode].content} THEN {s.content}
                      ELSE {disk[s.inode].content, Mixed} :
           Answers(w, Completed(s.request, s.mtime, content))
    /\ UNCHANGED <<disk, stored>>

\* ws_tab_move_step2: the stamp of the file that has the new name.
FinishMove(w, s) ==
    LET i == IF s.request.op = "close" THEN s.inode ELSE names[s.request.to] IN
    /\ Answers(w, IF i = None THEN <<AnswerTo(s.request, "error", 0, Blank)>>
                  ELSE Completed(s.request, disk[i].mtime, Blank))
    /\ UNCHANGED <<disk, stored>>

ServerFinishes(w) ==
    LET s == serving[w] IN
    /\ s # None
    /\ serving' = [serving EXCEPT ![w] = None]
    /\ \/ s.request.op = "write" /\ FinishWrite(w, s) /\ UNCHANGED rare
       \/ s.request.op = "read" /\ FinishRead(w, s) /\ UNCHANGED rare
       \/ s.request.op \in {"rename", "close"} /\ FinishMove(w, s) /\ UNCHANGED rare
       \/ /\ s.request.op = "write"                  \* write fails
          /\ Happens("broken")
          /\ Answers(w, <<AnswerTo(s.request, "error", 0, Blank)>>)
          /\ UNCHANGED <<disk, stored>>
    /\ UNCHANGED <<now, version, browser, toServer, stuck, names, typed, slips>>

Tick ==
    /\ now < LastSecond
    /\ now' = now + 1
    /\ UNCHANGED <<version, rare, browser, toServer, toTab, server, typed, slips>>

-----------------------------------------------------------------------------
(* The callbacks of the browser.                                           *)

\* A faulty variant: the change made during the save is forgotten.
SavedAndDone(t, stamp) ==
    /\ tab' = [tab EXCEPT ![t].stamp = stamp, ![t].saving = FALSE, ![t].state = "saved"]
    /\ saveTimeout' = [saveTimeout EXCEPT ![t] = None]
    /\ readOnly' = [readOnly EXCEPT ![t] = FALSE]
    /\ slips' = [slips EXCEPT ![t] = Silenced(@)]
    /\ UNCHANGED <<warnings, toServer>>

\* The stamp of a save: callbackSuccess saves again if the text was changed
\* meanwhile; after it the tab is marked saved and editable in any case.
Saved(t, stamp) ==
    LET b == [tab[t] EXCEPT !.stamp = stamp, !.saving = FALSE]
        next == [path |-> b.path, stamp |-> stamp, content |-> text[t]]
        w == WindowOf[t]
        again == tab[t].waiting IN
    /\ tab' = [tab EXCEPT ![t] = [b EXCEPT !.state = "saved", !.saving = again, !.waiting = FALSE]]
    /\ readOnly' = [readOnly EXCEPT ![t] = FALSE]
    /\ saveTimeout' = [saveTimeout EXCEPT ![t] =
                          IF again /\ socket[w] # "closed" THEN next ELSE None]
    /\ warnings' = [warnings EXCEPT ![t] =
                       IF ~ again THEN @ ELSE IF socket[w] = "closed" THEN {next} ELSE {}]
    /\ toServer' = IF again /\ socket[w] # "closed"
                   THEN Sent(toServer, w, WriteOf(t, next)) ELSE toServer
    /\ slips' = [slips EXCEPT ![t] = Silenced(IF again THEN Slips(t) ELSE @)]

\* TRANSACTION COMPLETED of a save.
SaveDone(t) ==
    /\ tab' = [tab EXCEPT ![t].state = "saved"]
    /\ readOnly' = [readOnly EXCEPT ![t] = FALSE]
    /\ saveTimeout' = [saveTimeout EXCEPT ![t] = None]
    /\ slips' = [slips EXCEPT ![t] = Silenced(@)]
    /\ UNCHANGED <<warnings, toServer>>

\* A faulty variant: the editor is locked without a warning to click.
SaveFailsSilently(t, save) ==
    /\ tab' = [tab EXCEPT ![t].state = "error"]
    /\ readOnly' = [readOnly EXCEPT ![t] = TRUE]
    /\ saveTimeout' = [saveTimeout EXCEPT ![t] = None]
    /\ slips' = [slips EXCEPT ![t] = @ \ {"lost"}]
    /\ UNCHANGED <<warnings, toServer>>

\* An error of a save.
SaveFails(t, save) ==
    /\ tab' = [tab EXCEPT ![t].state = "error"]
    /\ readOnly' = [readOnly EXCEPT ![t] = TRUE]
    /\ saveTimeout' = [saveTimeout EXCEPT ![t] = None]
    /\ warnings' = [warnings EXCEPT ![t] = @ \cup {save}]
    /\ slips' = [slips EXCEPT ![t] = @ \ {"lost"}]
    /\ UNCHANGED toServer

ReceiveOfSave(a) ==
    /\ a.op = "write"
    /\ \/ a.kind = "data" /\ Saved(a.tab, a.stamp)
       \/ a.kind = "done" /\ SaveDone(a.tab)
       \/ a.kind = "error" /\ SaveFails(a.tab, a.save)
    /\ UNCHANGED <<phase, text>>

\* setFrame: after an error the tab stays, empty and without a stamp.
ReceiveOfRead(a) ==
    /\ a.op = "read"
    /\ a.kind # "done"
    /\ phase' = [phase EXCEPT ![a.tab] = "open"]
    /\ IF a.kind = "data"
       THEN /\ text' = [text EXCEPT ![a.tab] = a.content]
            /\ tab' = [tab EXCEPT ![a.tab].stamp = a.stamp]
       ELSE UNCHANGED <<text, tab>>
    /\ UNCHANGED <<saveTimeout, warnings, readOnly, toServer, slips>>

\* The rename takes the name the control has by now.
ReceiveOfMove(a) ==
    /\ a.op \in {"rename", "close"}
    /\ a.kind = "data"
    /\ IF a.op = "rename"
       THEN /\ tab' = [tab EXCEPT ![a.tab].stamp = a.stamp, ![a.tab].path = tab[a.tab].name]
            /\ UNCHANGED phase
       ELSE /\ phase' = [phase EXCEPT ![a.tab] = "closed"]
            /\ UNCHANGED tab
    /\ UNCHANGED <<text, saveTimeout, warnings, readOnly, toServer, slips>>

\* Nothing but a dialog follows the last answer of a read or a move, or the
\* error of a move.
ReceiveOnly(a) ==
    /\ \/ a.op = "read" /\ a.kind = "done"
       \/ a.op \in {"rename", "close"} /\ a.kind # "data"
    /\ UNCHANGED <<phase, text, tab, saveTimeout, warnings, readOnly, toServer, slips>>

Receive(w) ==
    LET a == Head(toTab[w]) IN
    /\ socket[w] = "open"
    /\ toTab[w] # <<>>
    /\ toTab' = [toTab EXCEPT ![w] = Tail(@)]
    /\ ReceiveOfSave(a) \/ ReceiveOfRead(a) \/ ReceiveOfMove(a) \/ ReceiveOnly(a)
    /\ UNCHANGED <<now, version, rare, timer, socket, server, typed>>

-----------------------------------------------------------------------------
TabNext ==
    \/ \E t \in Tabs :
           \/ NewTab(t) \/ LoadTab(t) \/ Edit(t) \/ SaveTakesTooLong(t) \/ ClickWarning(t)
           \/ CloseTab(t) \/ \E to \in Names : Rename(t, to)
    \/ \E w \in Windows :
           \/ TimerFires(w) \/ SocketCloses(w) \/ SocketOpens(w)
           \/ ServerStarts(w) \/ ServerFinishes(w) \/ Receive(w)
    \/ Tick

TabSpec == TabInit /\ [][TabNext]_tvars

\* The browser's timeout fires, the loop of the server runs, websockets are
\* opened again and answers arrive; nobody has to type, click or wait.
FairTabs ==
    /\ TabSpec
    /\ \A w \in Windows : /\ WF_tvars(TimerFires(w))
                          /\ WF_tvars(SocketOpens(w))
                          /\ WF_tvars(ServerStarts(w))
                          /\ WF_tvars(ServerFinishes(w))
                          /\ WF_tvars(Receive(w))

-----------------------------------------------------------------------------
InFlight(t) ==
    LET w == WindowOf[t] IN
    \/ \E i \in 1 .. Len(toServer[w]) : toServer[w][i].tab = t
    \/ \E i \in 1 .. Len(toTab[w]) : toTab[w][i].tab = t
    \/ serving[w] # None /\ serving[w].request.tab = t

\* The saves of a tab whose WRITE, or the answer that says what became of it,
\* is on its way.
UnderWay(t) ==
    LET w == WindowOf[t] IN
    {r.save : r \in {m \in RangeOf(toServer[w]) : IsWrite(t, m)}}
        \cup {a.save : a \in {m \in RangeOf(toTab[w]) : IsWrite(t, m) /\ m.kind # "done"}}
        \cup (IF serving[w] # None /\ IsWrite(t, serving[w].request)
              THEN {serving[w].request.save} ELSE {})

\* The 30 seconds run, and will end in a warning.
WillBeTold(t) == saveTimeout[t] # None /\ tab[t].state # "saved"

\* The tab's text was never written, nothing is going to write it, and the user
\* is not told.
Forgotten(t) ==
    /\ phase[t] = "open"
    /\ text[t] \in Versions \ stored
    /\ ~ WillSave(t)
    /\ \A save \in UnderWay(t) : save.content # text[t]
    /\ warnings[t] = {} /\ ~ WillBeTold(t)

\* Through every order of changes, saves, answers, timeouts and retries a change
\* is forgotten in three ways only: its WRITE was lost with the websocket when
\* its 30 seconds had been ended by the answer of an earlier save (saveFile has
\* one saveTimeout), another tab of the window took the timer (intSaveTimerID),
\* or a warning of an older text was clicked.
UnsavedIsUnderWay ==
    \A t \in Tabs : Forgotten(t) => slips[t] \cap {"unnoticed", "timer", "retry"} # {}

Content(n) == disk[names[n]].content

\* The tab saves or its editor is locked, but no WRITE or answer to it is on its
\* way, and there is no warning to click and will be none.
Locked(t) ==
    /\ phase[t] = "open" /\ (tab[t].saving \/ readOnly[t])
    /\ UnderWay(t) = {} /\ warnings[t] = {} /\ ~ WillBeTold(t)

\* Every path through saveFile, its callbacks and its timeout leaves a way out,
\* but for one: a WRITE is lost with its websocket, and the answer of an earlier
\* save ends its 30 seconds, before or after that.
LockedHasAWayOut == \A t \in Tabs : Locked(t) => "unnoticed" \in slips[t]

Quiet(t) == ~ InFlight(t) /\ timer[WindowOf[t]] # t

\* Everything is quiet, the tab is marked saved and shows no warning, but its
\* file has an older text of the tab.
Stale(t) ==
    /\ phase[t] = "open" /\ tab[t].state = "saved" /\ warnings[t] = {} /\ Quiet(t)
    /\ names[FileOf[t]] # None /\ Content(FileOf[t]) \in typed[t] \ {text[t]}

\* As long as no tab was renamed, a tab is marked saved over an older text of its
\* own only after a WRITE was lost unnoticed, another tab took the timer, or a
\* warning of an older text was clicked: saves of one tab overtake each other in
\* no other way (a text that another window wrote is not the tab's own).
SavedIsNotStale ==
    "rename" \notin rare.kinds =>
        \A t \in Tabs : Stale(t) => slips[t] \cap {"unnoticed", "timer", "retry"} # {}

\* What the three do not say: each exception happens.
NothingForgotten == \A t \in Tabs : ~ Forgotten(t)
NothingLocked == \A t \in Tabs : ~ Locked(t)
NothingStale == \A t \in Tabs : ~ Stale(t)

\* A tab whose file has another text than its editor, with nothing under way
\* in its window, makes the window ask before it is left.
LeavingWarns ==
    \A t \in Tabs :
        /\ phase[t] = "open" /\ timer[WindowOf[t]] = None /\ ~ InFlight(t)
        /\ text[t] \in typed[t]
        /\ names[tab[t].path] = None \/ Content(tab[t].path) # text[t]
        => tab[t].state \in {"saving", "error"}

\* Every text is in a file in the end, or the user is told.
EditsAreStored ==
    \A t \in Tabs, v \in Versions :
        phase[t] = "open" /\ text[t] = v
            ~> v \in stored \/ text[t] # v \/ tab[t].state = "error" \/ warnings[t] # {}
=============================================================================
