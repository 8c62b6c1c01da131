---------------------------- MODULE TabSave_proofs ----------------------------
(***************************************************************************)
(* Proofs about TabSave, for any windows, tabs and names and any bounds.   *)
(***************************************************************************)
EXTENDS TabSave, Lists_proofs, FiniteSetTheorems

-----------------------------------------------------------------------------
(* The constants and the inodes.                                           *)

LEMMA Bounds ==
    /\ 0 \in Seconds /\ 1 \in Seconds /\ 1 \in 1 .. LastSecond
    /\ \A n \in 1 .. LastSecond : n \in Seconds
    /\ Blank \in Versions /\ Template \in Versions /\ Mixed \notin Versions
    /\ Versions \subseteq Nat
BY TabsAssumption DEF Seconds, Versions, Blank, Template, Mixed

LEMMA Distinct ==
    /\ \A x \in Inodes : x # None
    /\ \A x \in Tabs : x # None
    /\ \A x \in ServingType : x # None
BY NoneAssumption DEF Inodes

LEMMA ImageSmall ==
    ASSUME NEW S, IsFiniteSet(S), NEW f
    PROVE  /\ IsFiniteSet({f[x] : x \in S})
           /\ Cardinality({f[x] : x \in S}) <= Cardinality(S)
<1> DEFINE g == [x \in S |-> f[x]]
           T == {f[x] : x \in S}
<1>1. g \in Surjection(S, T)
  BY DEF Surjection
<1> QED
  BY <1>1, FS_Surjection

\* There are enough inodes: one for each name, and one for each window's write.
LEMMA FreeInodeIsFree ==
    ASSUME TabTypeOK, NEW w \in Windows, serving[w] = None, NEW p \in Names, names[p] = None
    PROVE  /\ FreeInode \in Inodes
           /\ \A n \in Names : names[n] # FreeInode
           /\ \A v \in Windows : serving[v] = None \/ serving[v].inode # FreeInode
<1> DEFINE served == [v \in Windows |-> serving[v].inode]
           named == {names[n] : n \in Names \ {p}}
           open == {served[v] : v \in Windows \ {w}}
           a == Cardinality(Names)
           b == Cardinality(Windows)
<1>1. IsFiniteSet(Names) /\ IsFiniteSet(Windows) /\ a \in Nat /\ b \in Nat
  BY TabsAssumption, FS_CardinalityType
<1>2. /\ IsFiniteSet(Names \ {p}) /\ Cardinality(Names \ {p}) = a - 1
      /\ IsFiniteSet(Windows \ {w}) /\ Cardinality(Windows \ {w}) = b - 1
  BY <1>1, FS_RemoveElement
<1>3. IsFiniteSet(named) /\ Cardinality(named) <= a - 1 /\ Cardinality(named) \in Nat
  BY <1>2, ImageSmall, FS_CardinalityType
<1>4. IsFiniteSet(open) /\ Cardinality(open) <= b - 1 /\ Cardinality(open) \in Nat
  <2> HIDE DEF served
  <2> QED
    BY <1>2, ImageSmall, FS_CardinalityType
<1> HIDE DEF named, open
<1>5. IsFiniteSet(named \cup open) /\ Cardinality(named \cup open) < a + b
  <2>1. IsFiniteSet(named \cap open) /\ Cardinality(named \cap open) \in Nat
    BY <1>3, FS_Intersection, FS_CardinalityType
  <2>2. Cardinality(named \cup open) = Cardinality(named) + Cardinality(open) - Cardinality(named \cap open)
    BY <1>3, <1>4, FS_Union
  <2> QED
    BY <1>1, <1>3, <1>4, <2>1, <2>2, FS_Union
<1>6. Cardinality(Inodes) = a + b
  <2>1. 1 \in Int /\ a + b \in Int
    BY <1>1
  <2> QED
    BY <1>1, <2>1, FS_Interval DEF Inodes
<1>7. ~ Inodes \subseteq named \cup open
  <2>1. ASSUME Inodes \subseteq named \cup open PROVE FALSE
    <3>1. Cardinality(Inodes) <= Cardinality(named \cup open)
      BY <1>5, <2>1, FS_Subset
    <3>2. Cardinality(named \cup open) \in Nat
      BY <1>5, FS_CardinalityType
    <3> QED
      BY <1>1, <1>5, <1>6, <3>1, <3>2
  <2> QED
    BY <2>1
<1>8. PICK i \in Inodes : i \notin named /\ i \notin open
  BY <1>7
<1>9. \A n \in Names : names[n] # i
  BY <1>8, Distinct DEF named
<1>10. \A v \in Windows : serving[v] = None \/ serving[v].inode # i
  BY <1>8 DEF open
<1> QED
  BY <1>9, <1>10 DEF FreeInode

LEMMA FilesAtStart ==
    \E f \in [Stored -> Inodes] : \A m, n \in Stored : f[m] = f[n] => m = n
<1> DEFINE k == Cardinality(Stored)
<1>1. /\ IsFiniteSet(Stored) /\ k <= Cardinality(Names) /\ k \in Nat
      /\ Cardinality(Names) \in Nat /\ Cardinality(Windows) \in Nat
  BY TabsAssumption, FS_Subset, FS_CardinalityType
<1>2. PICK g : g \in Bijection(1 .. k, Stored)
  BY <1>1, FS_CardinalityType DEF ExistsBijection
<1>3. g \in [1 .. k -> Stored] /\ \A n \in Stored : \E i \in 1 .. k : g[i] = n
  BY <1>2 DEF Bijection, Surjection
<1> DEFINE f == [n \in Stored |-> CHOOSE i \in 1 .. k : g[i] = n]
<1>4. \A n \in Stored : f[n] \in 1 .. k /\ g[f[n]] = n
  BY <1>3
<1>5. 1 .. k \subseteq Inodes
  BY <1>1 DEF Inodes
<1>6. f \in [Stored -> Inodes]
  BY <1>4, <1>5
<1> HIDE DEF f
<1> QED
  BY <1>4, <1>6

-----------------------------------------------------------------------------
(* Types.                                                                  *)

Kinds == {"lost", "unnoticed", "timer", "retry"}

LEMMA SlipsTyped ==
    ASSUME TabTypeOK, NEW t \in Tabs
    PROVE  /\ slips[t] \in SUBSET Kinds /\ Slips(t) \in SUBSET Kinds
           /\ SlipsWithout(t) \in SUBSET Kinds
           /\ Silenced(slips[t]) \in SUBSET Kinds /\ Silenced(Slips(t)) \in SUBSET Kinds
           /\ \A x \in SUBSET Kinds : [slips EXCEPT ![t] = x] \in [Tabs -> SUBSET Kinds]
<1>1. slips \in [Tabs -> SUBSET Kinds] /\ slips[t] \in SUBSET Kinds
  BY DEF TabTypeOK, Kinds
<1>2. Slips(t) \in SUBSET Kinds
  BY <1>1 DEF Slips, Kinds
<1>3. Silenced(slips[t]) \in SUBSET Kinds /\ Silenced(Slips(t)) \in SUBSET Kinds
  BY <1>1, <1>2 DEF Silenced, Kinds
<1>4. SlipsWithout(t) \in SUBSET Kinds
  BY <1>1 DEF SlipsWithout, Kinds
<1>5. \A x \in SUBSET Kinds : [slips EXCEPT ![t] = x] \in [Tabs -> SUBSET Kinds]
  BY <1>1
<1> QED
  BY <1>1, <1>2, <1>3, <1>4, <1>5

LEMMA InitTyped ==
    ASSUME TabInit
    PROVE  TabTypeOK
<1> DEFINE inode == CHOOSE f \in [Stored -> Inodes] : \A m, n \in Stored : f[m] = f[n] => m = n
<1>1. inode \in [Stored -> Inodes] /\ \A m, n \in Stored : inode[m] = inode[n] => m = n
  BY FilesAtStart
<1>2. names = [n \in Names |-> IF n \in Stored THEN inode[n] ELSE None]
  BY DEF TabInit
<1> HIDE DEF inode
<1>3. \A n \in Stored : inode[n] \in Inodes /\ inode[n] # None
  BY <1>1, Distinct
<1>4. /\ names \in [Names -> Inodes \cup {None}]
      /\ \A m, n \in Names : names[m] = names[n] /\ m # n => names[m] = None
  BY <1>1, <1>2, <1>3
<1>5. /\ tab \in [Tabs -> TabType]
      /\ toServer \in [Windows -> Seq(RequestType)]
      /\ toTab \in [Windows -> Seq(AnswerType)]
      /\ disk \in [Inodes -> FileType]
  BY TabsAssumption, Bounds DEF TabInit, TabType, FileType
<1>6. rare \in [count : 0 .. MaxRare, kinds : SUBSET Rare]
  BY TabsAssumption DEF TabInit
<1>7. slips \in [Tabs -> SUBSET Kinds] /\ stuck \in [Windows -> BOOLEAN]
  BY DEF TabInit
<1> QED
  BY <1>4, <1>5, <1>6, <1>7, Bounds DEF TabInit, TabTypeOK, Kinds

LEMMA HappensTyped ==
    ASSUME TabTypeOK, NEW event, Happens(event)
    PROVE  rare' \in [count : 0 .. MaxRare, kinds : SUBSET Rare]
BY TabsAssumption DEF TabTypeOK, Happens

LEMMA RequestTyped ==
    ASSUME TabTypeOK, NEW w \in Windows, NEW r \in RequestType, Request(w, r)
    PROVE  /\ toServer' \in [Windows -> Seq(RequestType)]
           /\ socket' \in [Windows -> {"open", "connecting", "closed"}]
<1>1. Append(toServer[w], r) \in Seq(RequestType)
  BY DEF TabTypeOK
<1> QED
  BY <1>1 DEF TabTypeOK, Request, Sent

LEMMA SaveOfTyped ==
    ASSUME TabTypeOK, NEW t \in Tabs
    PROVE  /\ SaveOf(t) \in SaveType
           /\ \A save \in SaveType : [op |-> "write", tab |-> t, save |-> save] \in RequestType
BY DEF TabTypeOK, TabType, SaveOf, SaveType, RequestType

LEMMA SaveFileTyped ==
    ASSUME TabTypeOK, NEW t \in Tabs, NEW save \in SaveType, NEW b \in TabType,
           SaveFile(t, save, b, toServer)
    PROVE  /\ tab' \in [Tabs -> TabType]
           /\ warnings' \in [Tabs -> SUBSET SaveType]
           /\ readOnly' \in [Tabs -> BOOLEAN]
           /\ saveTimeout' \in [Tabs -> SaveType \cup {None}]
           /\ toServer' \in [Windows -> Seq(RequestType)]
<1> DEFINE w == WindowOf[t]
           r == [op |-> "write", tab |-> t, save |-> save]
<1>1. w \in Windows /\ r \in RequestType
  BY TabsAssumption, SaveOfTyped
<1>2. [b EXCEPT !.state = "error"] \in TabType /\ [b EXCEPT !.state = "saving"] \in TabType
  BY DEF TabType
<1>3. b.state \in {"none", "saving", "saved", "error"} /\ {save} \in SUBSET SaveType /\ {} \in SUBSET SaveType
  BY DEF TabType
<1> DEFINE e == [b EXCEPT !.state = "error"]
           s == [b EXCEPT !.state = "saving"]
<1> HIDE DEF e, s
<1>4. tab' = [tab EXCEPT ![t] = e] \/ tab' = [tab EXCEPT ![t] = s]
  BY DEF SaveFile, e, s
<1>5. tab' \in [Tabs -> TabType]
  BY <1>2, <1>4 DEF TabTypeOK, e, s
<1>6. warnings' = [warnings EXCEPT ![t] = {save}] \/ warnings' = [warnings EXCEPT ![t] = {}]
  BY DEF SaveFile
<1>7. warnings' \in [Tabs -> SUBSET SaveType]
  BY <1>3, <1>6 DEF TabTypeOK
<1>8. readOnly' \in [Tabs -> BOOLEAN] /\ saveTimeout' \in [Tabs -> SaveType \cup {None}]
  <2>1. readOnly' = readOnly \/ readOnly' = [readOnly EXCEPT ![t] = TRUE]
    BY DEF SaveFile
  <2>2. saveTimeout' = [saveTimeout EXCEPT ![t] = None] \/ saveTimeout' = [saveTimeout EXCEPT ![t] = save]
    BY DEF SaveFile
  <2>3. readOnly \in [Tabs -> BOOLEAN] /\ saveTimeout \in [Tabs -> SaveType \cup {None}]
    BY DEF TabTypeOK
  <2>4. readOnly' \in [Tabs -> BOOLEAN]
    BY <2>1, <2>3
  <2>5. saveTimeout' \in [Tabs -> SaveType \cup {None}]
    BY <2>2, <2>3
  <2> QED
    BY <2>4, <2>5
<1>9. toServer' = toServer \/ toServer' = [toServer EXCEPT ![w] = Append(@, r)]
  BY DEF SaveFile, Sent, WriteOf
<1> HIDE DEF r
<1>10. toServer' \in [Windows -> Seq(RequestType)]
  <2>1. toServer \in [Windows -> Seq(RequestType)] /\ toServer[w] \in Seq(RequestType)
    BY <1>1 DEF TabTypeOK
  <2>2. Append(toServer[w], r) \in Seq(RequestType)
    BY <1>1, <2>1, AppendProperties
  <2> QED
    BY <1>9, <2>1, <2>2
<1> QED
  BY <1>5, <1>7, <1>8, <1>10

LEMMA SaveScriptTyped ==
    ASSUME TabTypeOK, NEW t \in Tabs, SaveScript(t)
    PROVE  /\ tab' \in [Tabs -> TabType]
           /\ warnings' \in [Tabs -> SUBSET SaveType]
           /\ readOnly' \in [Tabs -> BOOLEAN]
           /\ saveTimeout' \in [Tabs -> SaveType \cup {None}]
           /\ toServer' \in [Windows -> Seq(RequestType)]
           /\ slips' \in [Tabs -> SUBSET Kinds]
<1>1. tab[t] \in TabType
  BY DEF TabTypeOK
<1>2. CASE tab[t].saving
  <2>1. [tab[t] EXCEPT !.waiting = TRUE] \in TabType
    BY <1>1 DEF TabType
  <2>2. tab' = [tab EXCEPT ![t] = [tab[t] EXCEPT !.waiting = TRUE]]
    BY <1>2 DEF SaveScript
  <2> QED
    BY <1>2, <2>1, <2>2 DEF SaveScript, TabTypeOK, Kinds
<1>3. CASE ~ tab[t].saving
  <2>1. [tab[t] EXCEPT !.saving = TRUE, !.waiting = FALSE] \in TabType
    BY <1>1 DEF TabType
  <2> QED
    BY <1>3, <2>1, SaveOfTyped, SaveFileTyped, SlipsTyped DEF SaveScript
<1> QED
  BY <1>2, <1>3

LEMMA NewTabTyped ==
    ASSUME TabTypeOK, NEW t \in Tabs, NewTab(t)
    PROVE  TabTypeOK'
<1> DEFINE save == [path |-> FileOf[t], stamp |-> 0, content |-> Template]
           b == [tab[t] EXCEPT !.saving = TRUE]
<1>1. save \in SaveType
  BY TabsAssumption, Bounds DEF SaveType
<1>2. b \in TabType
  <2>1. tab[t] \in TabType
    BY DEF TabTypeOK
  <2> QED
    BY <2>1 DEF TabType
<1>3. /\ tab' \in [Tabs -> TabType]
      /\ warnings' \in [Tabs -> SUBSET SaveType]
      /\ readOnly' \in [Tabs -> BOOLEAN]
      /\ saveTimeout' \in [Tabs -> SaveType \cup {None}]
      /\ toServer' \in [Windows -> Seq(RequestType)]
  BY <1>1, <1>2, SaveFileTyped DEF NewTab
<1> HIDE DEF save, b
<1>4. /\ phase' \in [Tabs -> {"listed", "loading", "open", "closed"}]
      /\ text' \in [Tabs -> Versions \cup {Mixed}]
  BY Bounds DEF NewTab, TabTypeOK
<1>5. slips' \in [Tabs -> SUBSET Kinds]
  BY SlipsTyped DEF NewTab
<1> QED
  BY <1>3, <1>4, <1>5 DEF NewTab, TabTypeOK, server, Kinds

LEMMA LoadTabTyped ==
    ASSUME TabTypeOK, NEW t \in Tabs, LoadTab(t)
    PROVE  TabTypeOK'
<1> DEFINE r == [op |-> "read", tab |-> t, path |-> tab[t].path]
<1>1. r \in RequestType /\ WindowOf[t] \in Windows
  BY TabsAssumption DEF TabTypeOK, TabType, RequestType
<1>2. /\ toServer' \in [Windows -> Seq(RequestType)]
      /\ socket' \in [Windows -> {"open", "connecting", "closed"}]
  BY <1>1, RequestTyped DEF LoadTab
<1> QED
  BY <1>2 DEF LoadTab, TabTypeOK, server

LEMMA EditTyped ==
    ASSUME TabTypeOK, NEW t \in Tabs, Edit(t)
    PROVE  TabTypeOK'
<1>1. version + 1 \in Versions /\ WindowOf[t] \in Windows
  <2>1. version \in 0 .. MaxVersion /\ version < MaxVersion /\ MaxVersion \in Nat
    BY TabsAssumption DEF Edit, TabTypeOK, Versions, Blank
  <2>2. version + 1 \in 0 .. MaxVersion
    BY <2>1
  <2> QED
    BY <2>2, TabsAssumption DEF Versions, Blank
<1>2. /\ version' = version + 1 /\ text' = [text EXCEPT ![t] = version + 1]
      /\ typed' = [typed EXCEPT ![t] = @ \cup {version + 1}]
      /\ timer' = [timer EXCEPT ![WindowOf[t]] = t]
      /\ UNCHANGED <<now, rare, phase, tab, saveTimeout, warnings, readOnly,
                     socket, toServer, toTab, server>>
  BY DEF Edit
<1>3. slips' \in [Tabs -> SUBSET Kinds]
  <2> DEFINE more == [u \in Tabs |-> IF Overtaken(u, t) THEN {"timer"} ELSE {}]
             rest == slips[t] \ {"timer", "retry"}
  <2>1. more \in [Tabs -> SUBSET Kinds] /\ rest \in SUBSET Kinds
    BY SlipsTyped DEF Kinds
  <2>2. slips' = [u \in Tabs |-> IF u = t THEN rest ELSE slips[u] \cup more[u]]
    BY DEF Edit
  <2> HIDE DEF more, rest
  <2>3. \A u \in Tabs : slips[u] \cup more[u] \in SUBSET Kinds
    BY <2>1, SlipsTyped
  <2> QED
    BY <2>1, <2>2, <2>3
<1>4. /\ text' \in [Tabs -> Versions \cup {Mixed}] /\ typed' \in [Tabs -> SUBSET Versions]
      /\ timer' \in [Windows -> Tabs \cup {None}]
  <2> DEFINE v == version + 1
  <2> HIDE DEF v
  <2>1. v \in Versions /\ text' = [text EXCEPT ![t] = v] /\ typed' = [typed EXCEPT ![t] = @ \cup {v}]
    BY <1>1, <1>2 DEF v
  <2>2. typed \in [Tabs -> SUBSET Versions] /\ typed[t] \cup {v} \in SUBSET Versions
    BY <2>1 DEF TabTypeOK
  <2>3. typed' \in [Tabs -> SUBSET Versions]
    BY <2>1, <2>2
  <2>4. text \in [Tabs -> Versions \cup {Mixed}] /\ timer \in [Windows -> Tabs \cup {None}]
    BY DEF TabTypeOK
  <2>5. text' \in [Tabs -> Versions \cup {Mixed}]
    BY <2>1, <2>4
  <2>6. timer' \in [Windows -> Tabs \cup {None}]
    BY <1>2, <2>4
  <2> QED
    BY <2>3, <2>5, <2>6
<1> QED
  BY <1>1, <1>2, <1>3, <1>4 DEF TabTypeOK, server, Kinds

LEMMA TimerTyped ==
    ASSUME TabTypeOK, NEW w \in Windows, TimerFires(w)
    PROVE  TabTypeOK'
<1>1. timer[w] \in Tabs
  BY DEF TabTypeOK, TimerFires
<1>2. /\ tab' \in [Tabs -> TabType]
      /\ warnings' \in [Tabs -> SUBSET SaveType]
      /\ readOnly' \in [Tabs -> BOOLEAN]
      /\ saveTimeout' \in [Tabs -> SaveType \cup {None}]
      /\ toServer' \in [Windows -> Seq(RequestType)]
      /\ slips' \in [Tabs -> SUBSET Kinds]
  BY <1>1, SaveScriptTyped DEF TimerFires
<1> QED
  BY <1>2 DEF TimerFires, TabTypeOK, server, Kinds

LEMMA LateTyped ==
    ASSUME TabTypeOK, NEW t \in Tabs, SaveTakesTooLong(t)
    PROVE  TabTypeOK'
<1>1. saveTimeout[t] \in SaveType /\ tab[t] \in TabType
  BY DEF TabTypeOK, SaveTakesTooLong
<1>2. [tab[t] EXCEPT !.state = "error"] \in TabType
  BY <1>1 DEF TabType
<1>3. tab' \in [Tabs -> TabType]
  BY <1>2 DEF TabTypeOK, SaveTakesTooLong
<1>4. warnings' \in [Tabs -> SUBSET SaveType] /\ readOnly' \in [Tabs -> BOOLEAN]
  <2>1. warnings[t] \cup {saveTimeout[t]} \in SUBSET SaveType
    BY <1>1 DEF TabTypeOK
  <2>2. /\ warnings' = warnings \/ warnings' = [warnings EXCEPT ![t] = warnings[t] \cup {saveTimeout[t]}]
        /\ readOnly' = readOnly \/ readOnly' = [readOnly EXCEPT ![t] = TRUE]
    BY DEF SaveTakesTooLong
  <2>3. warnings \in [Tabs -> SUBSET SaveType] /\ readOnly \in [Tabs -> BOOLEAN]
    BY DEF TabTypeOK
  <2>4. warnings' \in [Tabs -> SUBSET SaveType]
    BY <2>1, <2>2, <2>3
  <2>5. readOnly' \in [Tabs -> BOOLEAN]
    BY <2>2, <2>3
  <2> QED
    BY <2>4, <2>5
<1>5. rare' \in [count : 0 .. MaxRare, kinds : SUBSET Rare]
  BY HappensTyped DEF SaveTakesTooLong
<1>6. slips' \in [Tabs -> SUBSET Kinds]
  <2>1. slips[t] \ {"lost"} \in SUBSET Kinds
    BY SlipsTyped
  <2>2. \/ slips' = [slips EXCEPT ![t] = Silenced(slips[t])]
        \/ slips' = [slips EXCEPT ![t] = slips[t] \ {"lost"}]
    BY DEF SaveTakesTooLong
  <2> QED
    BY <2>1, <2>2, SlipsTyped
<1> QED
  BY <1>3, <1>4, <1>5, <1>6 DEF SaveTakesTooLong, TabTypeOK, server, Kinds

LEMMA ClickTyped ==
    ASSUME TabTypeOK, NEW t \in Tabs, ClickWarning(t)
    PROVE  TabTypeOK'
<1>1. PICK save \in warnings[t] : SaveFile(t, save, tab[t], toServer)
  BY DEF ClickWarning
<1>2. save \in SaveType /\ tab[t] \in TabType
  BY DEF TabTypeOK
<1>3. /\ tab' \in [Tabs -> TabType]
      /\ warnings' \in [Tabs -> SUBSET SaveType]
      /\ readOnly' \in [Tabs -> BOOLEAN]
      /\ saveTimeout' \in [Tabs -> SaveType \cup {None}]
      /\ toServer' \in [Windows -> Seq(RequestType)]
  BY <1>1, <1>2, SaveFileTyped
<1>4. rare' \in [count : 0 .. MaxRare, kinds : SUBSET Rare]
  BY HappensTyped DEF ClickWarning
<1>5. slips' \in [Tabs -> SUBSET Kinds]
  <2>1. PICK more : more \in SUBSET {"retry"} /\ slips' = [slips EXCEPT ![t] = Slips(t) \cup more]
    BY DEF ClickWarning
  <2>2. Slips(t) \cup more \in SUBSET Kinds
    BY <2>1, SlipsTyped DEF Kinds
  <2> QED
    BY <2>1, <2>2, SlipsTyped
<1> QED
  BY <1>3, <1>4, <1>5 DEF ClickWarning, TabTypeOK, server, Kinds

LEMMA RenameTyped ==
    ASSUME TabTypeOK, NEW t \in Tabs, NEW to \in Names, Rename(t, to)
    PROVE  TabTypeOK'
<1> DEFINE r == [op |-> "rename", tab |-> t, path |-> tab[t].path, to |-> to]
<1>1. r \in RequestType /\ WindowOf[t] \in Windows /\ tab[t] \in TabType
  BY TabsAssumption DEF TabTypeOK, TabType, RequestType
<1>2. /\ toServer' \in [Windows -> Seq(RequestType)]
      /\ socket' \in [Windows -> {"open", "connecting", "closed"}]
  BY <1>1, RequestTyped DEF Rename
<1>3. [tab[t] EXCEPT !.name = to] \in TabType
  BY <1>1 DEF TabType
<1>4. tab' \in [Tabs -> TabType]
  BY <1>3 DEF TabTypeOK, Rename
<1>5. rare' \in [count : 0 .. MaxRare, kinds : SUBSET Rare]
  BY HappensTyped DEF Rename
<1> QED
  BY <1>2, <1>4, <1>5 DEF Rename, TabTypeOK, server

LEMMA CloseTabTyped ==
    ASSUME TabTypeOK, NEW t \in Tabs, CloseTab(t)
    PROVE  TabTypeOK'
<1> DEFINE r == [op |-> "close", tab |-> t, path |-> tab[t].path]
<1>1. r \in RequestType /\ WindowOf[t] \in Windows
  BY TabsAssumption DEF TabTypeOK, TabType, RequestType
<1>2. /\ toServer' \in [Windows -> Seq(RequestType)]
      /\ socket' \in [Windows -> {"open", "connecting", "closed"}]
  BY <1>1, RequestTyped DEF CloseTab
<1>3. rare' \in [count : 0 .. MaxRare, kinds : SUBSET Rare]
  BY HappensTyped DEF CloseTab
<1> QED
  BY <1>2, <1>3 DEF CloseTab, TabTypeOK, server

LEMMA SocketClosesTyped ==
    ASSUME TabTypeOK, NEW w \in Windows, SocketCloses(w)
    PROVE  TabTypeOK'
<1>1. rare' \in [count : 0 .. MaxRare, kinds : SUBSET Rare]
  BY HappensTyped DEF SocketCloses
<1>2. /\ toServer' \in [Windows -> Seq(RequestType)]
      /\ toTab' \in [Windows -> Seq(AnswerType)]
      /\ serving' \in [Windows -> ServingType \cup {None}]
  <2>1. toServer \in [Windows -> Seq(RequestType)] /\ toServer[w] \in Seq(RequestType)
    BY DEF TabTypeOK
  <2>2. PICK loss \in Losses, n \in 0 .. Len(toServer[w]) :
            /\ toServer' = [toServer EXCEPT ![w] = SubSeq(@, 1, n)]
            /\ toTab' = IF loss = "session" THEN [toTab EXCEPT ![w] = <<>>] ELSE toTab
            /\ serving' = IF loss = "session" THEN [serving EXCEPT ![w] = None] ELSE serving
    BY DEF SocketCloses
  <2>3. SubSeq(toServer[w], 1, n) \in Seq(RequestType)
    BY <2>1, <2>2, PrefixAt
  <2>4. toServer' \in [Windows -> Seq(RequestType)]
    BY <2>1, <2>2, <2>3
  <2>5. <<>> \in Seq(AnswerType)
    OBVIOUS
  <2>6. toTab' \in [Windows -> Seq(AnswerType)] /\ serving' \in [Windows -> ServingType \cup {None}]
    BY <2>2, <2>5 DEF TabTypeOK
  <2> QED
    BY <2>4, <2>6
<1>3. slips' \in [Tabs -> SUBSET Kinds]
  <2>1. PICK lost \in [Tabs -> BOOLEAN] :
            slips' = [t \in Tabs |-> IF lost[t] THEN SlipsWithout(t) ELSE slips[t]]
    <3>1. PICK loss \in Losses, n \in 0 .. Len(toServer[w]) :
              slips' = [t \in Tabs |->
                  IF \/ \E i \in n + 1 .. Len(toServer[w]) : IsWrite(t, toServer[w][i])
                     \/ /\ loss = "session"
                        /\ \/ serving[w] # None /\ IsWrite(t, serving[w].request)
                           \/ \E i \in 1 .. Len(toTab[w]) :
                                  IsWrite(t, toTab[w][i]) /\ toTab[w][i].kind # "done"
                  THEN SlipsWithout(t) ELSE slips[t]]
      BY DEF SocketCloses
    <3> DEFINE lost == [t \in Tabs |->
                     \/ \E i \in n + 1 .. Len(toServer[w]) : IsWrite(t, toServer[w][i])
                     \/ /\ loss = "session"
                        /\ \/ serving[w] # None /\ IsWrite(t, serving[w].request)
                           \/ \E i \in 1 .. Len(toTab[w]) :
                                  IsWrite(t, toTab[w][i]) /\ toTab[w][i].kind # "done"]
    <3>2. lost \in [Tabs -> BOOLEAN]
      OBVIOUS
    <3>3. slips' = [t \in Tabs |-> IF lost[t] THEN SlipsWithout(t) ELSE slips[t]]
      BY <3>1
    <3> QED
      BY <3>2, <3>3
  <2> QED
    BY <2>1, SlipsTyped
<1>4. stuck' \in [Windows -> BOOLEAN]
  BY DEF SocketCloses, TabTypeOK
<1> QED
  BY <1>1, <1>2, <1>3, <1>4 DEF SocketCloses, TabTypeOK, Kinds

LEMMA SocketOpensTyped ==
    ASSUME TabTypeOK, NEW w \in Windows, SocketOpens(w)
    PROVE  TabTypeOK'
BY DEF SocketOpens, TabTypeOK, server

LEMMA TickTyped ==
    ASSUME TabTypeOK, Tick
    PROVE  TabTypeOK'
<1>1. now' \in 1 .. LastSecond
  BY TabsAssumption DEF Tick, TabTypeOK
<1> QED
  BY <1>1 DEF Tick, TabTypeOK, server, browser

\* What the steps of the server leave alone.
ServerTyped ==
    /\ toTab' \in [Windows -> Seq(AnswerType)]
    /\ serving' \in [Windows -> ServingType \cup {None}]
    /\ names' \in [Names -> Inodes \cup {None}]
    /\ \A m, n \in Names : names'[m] = names'[n] /\ m # n => names'[m] = None
    /\ disk' \in [Inodes -> FileType]
    /\ stored' \subseteq Versions \cup {Mixed}

\* A request is served from now on, or refused.
Takes(w, r) ==
    \/ /\ \E s \in ServingType : s.request = r /\ serving' = [serving EXCEPT ![w] = s]
       /\ UNCHANGED toTab
    \/ Refuses(w, r)

LEMMA RequestKinds ==
    ASSUME NEW r \in RequestType
    PROVE  /\ r.op \in {"write", "read", "rename", "close"} /\ r.tab \in Tabs
           /\ r.op = "write" => r \in [op : {"write"}, tab : Tabs, save : SaveType]
           /\ r.op = "write" => r.save \in SaveType /\ r.save.path \in Names
                                /\ r.save.content \in Versions \cup {Mixed}
           /\ r.op # "write" => r.path \in Names
           /\ r.op = "rename" => r.to \in Names
<1>1. r.op = "write" => r.save \in SaveType
  BY DEF RequestType
<1>2. \A save \in SaveType : save.path \in Names /\ save.content \in Versions \cup {Mixed}
  BY DEF SaveType
<1> QED
  BY <1>1, <1>2 DEF RequestType

LEMMA AnswerToTyped ==
    ASSUME NEW r \in RequestType, NEW kind \in {"data", "done", "error"}, NEW stamp \in Seconds,
           NEW content \in Versions \cup {Mixed}, r.op = "write" => content = Blank
    PROVE  AnswerTo(r, kind, stamp, content) \in AnswerType
<1>1. CASE r.op = "write"
  BY <1>1, RequestKinds DEF AnswerTo, AnswerType
<1>2. CASE r.op # "write"
  BY <1>2, RequestKinds DEF AnswerTo, AnswerType
<1> QED
  BY <1>1, <1>2

LEMMA AnswersTyped ==
    ASSUME TabTypeOK, NEW w \in Windows, NEW answers \in Seq(AnswerType), Answers(w, answers)
    PROVE  toTab' \in [Windows -> Seq(AnswerType)]
<1>1. toTab \in [Windows -> Seq(AnswerType)] /\ toTab[w] \in Seq(AnswerType)
  BY DEF TabTypeOK
<1>2. toTab[w] \o answers \in Seq(AnswerType)
  BY <1>1, ConcatProperties
<1> QED
  BY <1>1, <1>2 DEF Answers

LEMMA CompletedTyped ==
    ASSUME NEW r \in RequestType, NEW stamp \in Seconds,
           NEW content \in Versions \cup {Mixed}, r.op = "write" => content = Blank
    PROVE  /\ Completed(r, stamp, content) \in Seq(AnswerType)
           /\ <<AnswerTo(r, "error", 0, Blank)>> \in Seq(AnswerType)
<1>1. /\ AnswerTo(r, "data", stamp, content) \in AnswerType
      /\ AnswerTo(r, "done", 0, Blank) \in AnswerType
      /\ AnswerTo(r, "error", 0, Blank) \in AnswerType
  BY AnswerToTyped, Bounds
<1> QED
  BY <1>1 DEF Completed

LEMMA RefusesTyped ==
    ASSUME TabTypeOK, NEW w \in Windows, NEW r \in RequestType, Refuses(w, r)
    PROVE  ServerTyped
<1>1. <<AnswerTo(r, "error", 0, Blank)>> \in Seq(AnswerType)
  BY CompletedTyped, Bounds
<1>2. toTab' \in [Windows -> Seq(AnswerType)]
  BY <1>1, AnswersTyped DEF Refuses
<1> QED
  BY <1>2 DEF Refuses, ServerTyped, TabTypeOK

LEMMA StartWriteTyped ==
    ASSUME TabTypeOK, NEW w \in Windows, NEW r \in RequestType, r.op = "write", serving[w] = None,
           StartWrite(w, r)
    PROVE  ServerTyped /\ Takes(w, r)
<1> DEFINE p == r.save.path
           i == IF names[p] = None THEN FreeInode ELSE names[p]
           file == [content |-> Blank, mtime |-> now]
           s == [request |-> r, inode |-> i, content |-> Blank, mtime |-> now]
<1>1. CASE StampFits(r.save)
  <2>1. /\ names' = [names EXCEPT ![p] = i]
        /\ disk' = [disk EXCEPT ![i] = file]
        /\ serving' = [serving EXCEPT ![w] = s]
        /\ UNCHANGED <<toTab, stored>>
    BY <1>1 DEF StartWrite
  <2>2. p \in Names
    BY RequestKinds
  <2>3. i \in Inodes /\ \A n \in Names : n # p => names[n] # i
    <3>1. CASE names[p] = None
      BY <2>2, <3>1, FreeInodeIsFree
    <3>2. CASE names[p] # None
      BY <2>2, <3>2 DEF TabTypeOK
    <3> QED
      BY <3>1, <3>2
  <2> HIDE DEF i, p
  <2>4. file \in FileType /\ s \in ServingType /\ s.request = r
    BY <2>3, Bounds DEF FileType, ServingType, TabTypeOK
  <2> HIDE DEF file, s
  <2>5. names' \in [Names -> Inodes \cup {None}]
    BY <2>1, <2>3 DEF TabTypeOK
  <2>6. \A m, n \in Names : names'[m] = names'[n] /\ m # n => names'[m] = None
    BY <2>1, <2>2, <2>3 DEF TabTypeOK
  <2>7. disk' \in [Inodes -> FileType] /\ serving' \in [Windows -> ServingType \cup {None}]
    BY <2>1, <2>4 DEF TabTypeOK
  <2>8. Takes(w, r)
    BY <2>1, <2>4 DEF Takes
  <2> QED
    BY <2>1, <2>5, <2>6, <2>7, <2>8 DEF ServerTyped, TabTypeOK
<1>2. CASE ~ StampFits(r.save)
  BY <1>2, RefusesTyped DEF StartWrite, Takes
<1> QED
  BY <1>1, <1>2

LEMMA StartReadTyped ==
    ASSUME TabTypeOK, NEW w \in Windows, NEW r \in RequestType, r.op = "read", StartRead(w, r)
    PROVE  ServerTyped /\ Takes(w, r)
<1> DEFINE i == names[r.path]
           s == [request |-> r, inode |-> i, content |-> disk[i].content, mtime |-> disk[i].mtime]
<1>1. CASE i # None
  <2>1. serving' = [serving EXCEPT ![w] = s] /\ UNCHANGED <<toTab, names, disk, stored>>
    BY <1>1 DEF StartRead
  <2>2. i \in Inodes
    BY <1>1, RequestKinds DEF TabTypeOK
  <2> HIDE DEF i
  <2>3. disk[i] \in FileType
    BY <2>2 DEF TabTypeOK
  <2>4. s \in ServingType /\ s.request = r
    BY <2>2, <2>3 DEF FileType, ServingType
  <2> HIDE DEF s
  <2>5. serving' \in [Windows -> ServingType \cup {None}]
    BY <2>1, <2>4 DEF TabTypeOK
  <2>6. Takes(w, r)
    BY <2>1, <2>4 DEF Takes
  <2> QED
    BY <2>1, <2>5, <2>6 DEF ServerTyped, TabTypeOK
<1>2. CASE i = None
  BY <1>2, RefusesTyped DEF StartRead, Takes
<1> QED
  BY <1>1, <1>2

LEMMA StartMoveTyped ==
    ASSUME TabTypeOK, NEW w \in Windows, NEW r \in RequestType, r.op \in {"rename", "close"},
           StartMove(w, r)
    PROVE  ServerTyped /\ Takes(w, r)
<1> DEFINE i == names[r.path]
           s == [request |-> r, inode |-> i, content |-> Blank, mtime |-> now]
<1>1. CASE i # None
  <2>1. /\ serving' = [serving EXCEPT ![w] = s] /\ UNCHANGED <<toTab, disk, stored>>
        /\ \/ r.op = "close" /\ names' = [names EXCEPT ![r.path] = None]
           \/ r.op = "rename" /\ names' = [names EXCEPT ![r.path] = None, ![r.to] = i]
    BY <1>1 DEF StartMove
  <2>2. i \in Inodes /\ r.path \in Names
    BY <1>1, RequestKinds DEF TabTypeOK
  <2>3. \A n \in Names : n # r.path => names[n] # i
    BY <1>1, <2>2 DEF TabTypeOK
  <2> HIDE DEF i
  <2>4. s \in ServingType /\ s.request = r
    BY <2>2, Bounds DEF TabTypeOK, ServingType
  <2> HIDE DEF s
  <2>5. serving' \in [Windows -> ServingType \cup {None}]
    BY <2>1, <2>4 DEF TabTypeOK
  <2>8. Takes(w, r)
    BY <2>1, <2>4 DEF Takes
  <2>6. CASE r.op = "close"
    <3>1. names' = [names EXCEPT ![r.path] = None]
      BY <2>1, <2>6
    <3> QED
      BY <2>1, <2>5, <2>8, <3>1 DEF ServerTyped, TabTypeOK
  <2>7. CASE r.op = "rename"
    <3>1. names' = [names EXCEPT ![r.path] = None, ![r.to] = i] /\ r.to \in Names
      BY <2>1, <2>7, RequestKinds
    <3>2. names' \in [Names -> Inodes \cup {None}]
      BY <2>2, <3>1 DEF TabTypeOK
    <3>3. \A n \in Names : names'[n] = IF n = r.to THEN i ELSE IF n = r.path THEN None ELSE names[n]
      BY <2>2, <3>1 DEF TabTypeOK
    <3>4. \A m, n \in Names : names'[m] = names'[n] /\ m # n => names'[m] = None
      BY ZenonT(40), <2>2, <2>3, <3>1, <3>3, Distinct DEF TabTypeOK
    <3> QED
      BY <2>1, <2>5, <2>8, <3>2, <3>4 DEF ServerTyped, TabTypeOK
  <2> QED
    BY <2>6, <2>7
<1>2. CASE i = None
  BY <1>2, RefusesTyped DEF StartMove, Takes
<1> QED
  BY <1>1, <1>2

LEMMA ServerStartsTyped ==
    ASSUME TabTypeOK, NEW w \in Windows, ServerStarts(w)
    PROVE  TabTypeOK' /\ Takes(w, Head(toServer[w]))
<1> DEFINE r == Head(toServer[w])
<1>1. toServer[w] \in Seq(RequestType) /\ toServer[w] # <<>> /\ serving[w] = None
  BY DEF TabTypeOK, ServerStarts
<1>2. r \in RequestType /\ Tail(toServer[w]) \in Seq(RequestType)
  BY <1>1, TailAt
<1>3. toServer' \in [Windows -> Seq(RequestType)]
  BY <1>2 DEF TabTypeOK, ServerStarts
<1>4. /\ \/ r.op = "write" /\ StartWrite(w, r) /\ UNCHANGED rare
         \/ r.op = "read" /\ StartRead(w, r) /\ UNCHANGED rare
         \/ r.op \in {"rename", "close"} /\ StartMove(w, r) /\ UNCHANGED rare
         \/ Happens("broken") /\ Refuses(w, r)
      /\ UNCHANGED <<now, version, browser, stuck, typed, slips>>
  BY DEF ServerStarts
<1> HIDE DEF r
<1>5. ServerTyped /\ Takes(w, r)
  BY <1>1, <1>2, <1>4, StartWriteTyped, StartReadTyped, StartMoveTyped, RefusesTyped
     DEF Takes
<1>6. rare' \in [count : 0 .. MaxRare, kinds : SUBSET Rare]
  BY <1>4, HappensTyped DEF TabTypeOK
<1> QED
  BY <1>3, <1>4, <1>5, <1>6 DEF ServerTyped, TabTypeOK, browser, r

LEMMA ServedTyped ==
    ASSUME TabTypeOK, NEW w \in Windows, serving[w] # None
    PROVE  /\ serving[w] \in ServingType /\ serving[w].request \in RequestType
           /\ serving[w].inode \in Inodes /\ serving[w].mtime \in Seconds
           /\ serving[w].content \in Versions \cup {Mixed}
           /\ disk[serving[w].inode] \in FileType
           /\ disk[serving[w].inode].content \in Versions \cup {Mixed}
<1>1. serving[w] \in ServingType
  BY DEF TabTypeOK
<1>2. serving[w].inode \in Inodes
  BY <1>1 DEF ServingType
<1>3. disk[serving[w].inode] \in FileType
  BY <1>2 DEF TabTypeOK
<1> QED
  BY <1>1, <1>2, <1>3 DEF ServingType, FileType

LEMMA FinishWriteTyped ==
    ASSUME TabTypeOK, NEW w \in Windows, serving[w] # None, serving[w].request.op = "write",
           FinishWrite(w, serving[w])
    PROVE  /\ disk' \in [Inodes -> FileType] /\ stored' \subseteq Versions \cup {Mixed}
           /\ toTab' \in [Windows -> Seq(AnswerType)]
<1> DEFINE s == serving[w]
           r == s.request
           i == names[r.save.path]
<1>1. PICK content \in Overlaid(disk[s.inode].content, r.save.content) :
          disk' = [disk EXCEPT ![s.inode] = [content |-> content, mtime |-> now]]
  BY DEF FinishWrite
<1>2. r \in RequestType /\ s.inode \in Inodes
  BY ServedTyped
<1>3. r.save.content \in Versions \cup {Mixed} /\ r.save.path \in Names
  BY <1>2, RequestKinds
<1>4. content \in Versions \cup {Mixed}
  BY <1>1, <1>3, ServedTyped DEF Overlaid
<1>5. [content |-> content, mtime |-> now] \in FileType
  BY <1>4, Bounds DEF TabTypeOK, FileType
<1>6. disk' \in [Inodes -> FileType]
  BY <1>1, <1>2, <1>5 DEF TabTypeOK
<1>7. stored' \subseteq Versions \cup {Mixed}
  BY <1>3 DEF FinishWrite, TabTypeOK
<1>8. i # None => disk'[i].mtime \in Seconds
  <2>1. i # None => i \in Inodes
    BY <1>3 DEF TabTypeOK
  <2> QED
    BY <1>6, <2>1 DEF FileType
<1>9. Answers(w, IF i = None THEN <<AnswerTo(r, "error", 0, Blank)>> ELSE Completed(r, disk'[i].mtime, Blank))
  BY DEF FinishWrite
<1> HIDE DEF i
<1>10. /\ <<AnswerTo(r, "error", 0, Blank)>> \in Seq(AnswerType)
       /\ i # None => Completed(r, disk'[i].mtime, Blank) \in Seq(AnswerType)
  BY <1>2, <1>8, CompletedTyped, Bounds
<1>11. toTab' \in [Windows -> Seq(AnswerType)]
  BY <1>9, <1>10, AnswersTyped
<1> QED
  BY <1>6, <1>7, <1>11

LEMMA FinishReadTyped ==
    ASSUME TabTypeOK, NEW w \in Windows, serving[w] # None, serving[w].request.op = "read",
           FinishRead(w, serving[w])
    PROVE  toTab' \in [Windows -> Seq(AnswerType)]
<1> DEFINE s == serving[w]
           r == s.request
<1>1. PICK content \in IF s.content \in {Blank, disk[s.inode].content} THEN {s.content}
                       ELSE {disk[s.inode].content, Mixed} :
          Answers(w, Completed(r, s.mtime, content))
  BY DEF FinishRead
<1>2. content \in Versions \cup {Mixed}
  BY <1>1, ServedTyped
<1>3. Completed(r, s.mtime, content) \in Seq(AnswerType)
  BY <1>2, ServedTyped, CompletedTyped
<1> QED
  BY <1>1, <1>3, AnswersTyped

LEMMA FinishMoveTyped ==
    ASSUME TabTypeOK, NEW w \in Windows, serving[w] # None,
           serving[w].request.op \in {"rename", "close"}, FinishMove(w, serving[w])
    PROVE  toTab' \in [Windows -> Seq(AnswerType)]
<1> DEFINE s == serving[w]
           r == s.request
           i == IF r.op = "close" THEN s.inode ELSE names[r.to]
<1>1. Answers(w, IF i = None THEN <<AnswerTo(r, "error", 0, Blank)>> ELSE Completed(r, disk[i].mtime, Blank))
  BY DEF FinishMove
<1>2. r \in RequestType /\ s.inode \in Inodes
  BY ServedTyped
<1>3. i # None => i \in Inodes
  BY <1>2, RequestKinds DEF TabTypeOK
<1> HIDE DEF i
<1>4. i # None => disk[i].mtime \in Seconds
  BY <1>3 DEF TabTypeOK, FileType
<1>5. /\ <<AnswerTo(r, "error", 0, Blank)>> \in Seq(AnswerType)
      /\ i # None => Completed(r, disk[i].mtime, Blank) \in Seq(AnswerType)
  BY <1>2, <1>4, CompletedTyped, Bounds
<1> QED
  BY <1>1, <1>5, AnswersTyped

LEMMA ServerFinishesTyped ==
    ASSUME TabTypeOK, NEW w \in Windows, ServerFinishes(w)
    PROVE  TabTypeOK'
<1> DEFINE s == serving[w]
<1>1. /\ s # None /\ serving' = [serving EXCEPT ![w] = None]
      /\ \/ s.request.op = "write" /\ FinishWrite(w, s) /\ UNCHANGED rare
         \/ s.request.op = "read" /\ FinishRead(w, s) /\ UNCHANGED rare
         \/ s.request.op \in {"rename", "close"} /\ FinishMove(w, s) /\ UNCHANGED rare
         \/ /\ s.request.op = "write"
            /\ Happens("broken")
            /\ Answers(w, <<AnswerTo(s.request, "error", 0, Blank)>>)
            /\ UNCHANGED <<disk, stored>>
      /\ UNCHANGED <<now, version, browser, toServer, stuck, names, typed, slips>>
  BY DEF ServerFinishes
<1>2. /\ disk \in [Inodes -> FileType] /\ stored \subseteq Versions \cup {Mixed}
      /\ rare \in [count : 0 .. MaxRare, kinds : SUBSET Rare]
  BY DEF TabTypeOK
<1>3. /\ disk' \in [Inodes -> FileType] /\ stored' \subseteq Versions \cup {Mixed}
      /\ toTab' \in [Windows -> Seq(AnswerType)]
      /\ rare' \in [count : 0 .. MaxRare, kinds : SUBSET Rare]
  <2>1. CASE s.request.op = "write" /\ FinishWrite(w, s) /\ UNCHANGED rare
    BY <1>1, <1>2, <2>1, FinishWriteTyped
  <2>2. CASE s.request.op = "read" /\ FinishRead(w, s) /\ UNCHANGED rare
    <3>1. UNCHANGED <<disk, stored>>
      BY <2>2 DEF FinishRead
    <3> QED
      BY <1>1, <1>2, <2>2, <3>1, FinishReadTyped
  <2>3. CASE s.request.op \in {"rename", "close"} /\ FinishMove(w, s) /\ UNCHANGED rare
    <3>1. UNCHANGED <<disk, stored>>
      BY <2>3 DEF FinishMove
    <3> QED
      BY <1>1, <1>2, <2>3, <3>1, FinishMoveTyped
  <2>4. CASE /\ Happens("broken") /\ UNCHANGED <<disk, stored>>
             /\ Answers(w, <<AnswerTo(s.request, "error", 0, Blank)>>)
    <3>1. <<AnswerTo(s.request, "error", 0, Blank)>> \in Seq(AnswerType)
      BY <1>1, CompletedTyped, ServedTyped, Bounds
    <3> QED
      BY <1>2, <2>4, <3>1, AnswersTyped, HappensTyped
  <2> QED
    BY <1>1, <2>1, <2>2, <2>3, <2>4
<1>4. serving' \in [Windows -> ServingType \cup {None}]
  BY <1>1 DEF TabTypeOK
<1> QED
  BY <1>1, <1>3, <1>4 DEF TabTypeOK, browser

LEMMA AnswerKinds ==
    ASSUME NEW a \in AnswerType
    PROVE  /\ a.kind \in {"data", "done", "error"} /\ a.op \in {"write", "read", "rename", "close"}
           /\ a.tab \in Tabs /\ a.stamp \in Seconds /\ a.content \in Versions \cup {Mixed}
           /\ a.op = "write" => a.save \in SaveType
BY Bounds DEF AnswerType

\* What the callbacks of the browser change.
CallbacksTyped ==
    /\ phase' \in [Tabs -> {"listed", "loading", "open", "closed"}]
    /\ text' \in [Tabs -> Versions \cup {Mixed}]
    /\ tab' \in [Tabs -> TabType]
    /\ saveTimeout' \in [Tabs -> SaveType \cup {None}]
    /\ warnings' \in [Tabs -> SUBSET SaveType]
    /\ readOnly' \in [Tabs -> BOOLEAN]
    /\ toServer' \in [Windows -> Seq(RequestType)]
    /\ slips' \in [Tabs -> SUBSET Kinds]

LEMMA SavedTyped ==
    ASSUME TabTypeOK, NEW t \in Tabs, NEW stamp \in Seconds, Saved(t, stamp), UNCHANGED <<phase, text>>
    PROVE  CallbacksTyped
<1> DEFINE next == [path |-> tab[t].path, stamp |-> stamp, content |-> text[t]]
           w == WindowOf[t]
           again == tab[t].waiting
           r == [op |-> "write", tab |-> t, save |-> next]
           b == [[tab[t] EXCEPT !.stamp = stamp, !.saving = FALSE] EXCEPT
                     !.state = "saved", !.saving = again, !.waiting = FALSE]
<1>1. tab[t] \in TabType /\ w \in Windows /\ text[t] \in Versions \cup {Mixed}
  BY TabsAssumption DEF TabTypeOK
<1>2. next \in SaveType /\ b \in TabType
  BY <1>1 DEF SaveType, TabType
<1>3. r \in RequestType
  BY <1>2, SaveOfTyped
<1>4. /\ tab' = [tab EXCEPT ![t] = b]
      /\ readOnly' = [readOnly EXCEPT ![t] = FALSE]
      /\ \/ saveTimeout' = [saveTimeout EXCEPT ![t] = next]
         \/ saveTimeout' = [saveTimeout EXCEPT ![t] = None]
      /\ \/ warnings' = [warnings EXCEPT ![t] = warnings[t]]
         \/ warnings' = [warnings EXCEPT ![t] = {next}]
         \/ warnings' = [warnings EXCEPT ![t] = {}]
      /\ toServer' = toServer \/ toServer' = [toServer EXCEPT ![w] = Append(toServer[w], r)]
  <2>1. tab' = [tab EXCEPT ![t] = b] /\ readOnly' = [readOnly EXCEPT ![t] = FALSE]
    BY DEF Saved
  <2>4. toServer' = toServer \/ toServer' = [toServer EXCEPT ![w] = Append(toServer[w], r)]
    BY DEF Saved, Sent, WriteOf
  <2> DEFINE same == [path |-> [tab[t] EXCEPT !.stamp = stamp, !.saving = FALSE].path,
                       stamp |-> stamp, content |-> text[t]]
  <2>5. same = next
    BY <1>1 DEF TabType
  <2>6. /\ saveTimeout' = [saveTimeout EXCEPT ![t] = IF again /\ socket[w] # "closed" THEN same ELSE None]
        /\ warnings' = [warnings EXCEPT ![t] =
                          IF ~ again THEN @ ELSE IF socket[w] = "closed" THEN {same} ELSE {}]
    BY DEF Saved
  <2> HIDE DEF same, next, again, w
  <2>2. \/ saveTimeout' = [saveTimeout EXCEPT ![t] = next]
        \/ saveTimeout' = [saveTimeout EXCEPT ![t] = None]
    BY <2>5, <2>6
  <2>3. \/ warnings' = [warnings EXCEPT ![t] = warnings[t]]
        \/ warnings' = [warnings EXCEPT ![t] = {next}]
        \/ warnings' = [warnings EXCEPT ![t] = {}]
    BY <2>5, <2>6
  <2> QED
    BY <2>1, <2>2, <2>3, <2>4
<1> HIDE DEF next, b, r, w
<1>5. tab' \in [Tabs -> TabType] /\ readOnly' \in [Tabs -> BOOLEAN]
  BY <1>2, <1>4 DEF TabTypeOK
<1>6. saveTimeout' \in [Tabs -> SaveType \cup {None}]
  <2>1. saveTimeout \in [Tabs -> SaveType \cup {None}]
    BY DEF TabTypeOK
  <2> QED
    BY <1>2, <1>4, <2>1
<1>7. warnings' \in [Tabs -> SUBSET SaveType]
  <2>1. warnings \in [Tabs -> SUBSET SaveType] /\ {next} \in SUBSET SaveType
    BY <1>2 DEF TabTypeOK
  <2> QED
    BY <1>4, <2>1
<1>8. toServer' \in [Windows -> Seq(RequestType)]
  <2>1. toServer \in [Windows -> Seq(RequestType)] /\ toServer[w] \in Seq(RequestType)
    BY <1>1 DEF TabTypeOK
  <2>2. Append(toServer[w], r) \in Seq(RequestType)
    BY <1>3, <2>1, AppendProperties
  <2> QED
    BY <1>4, <2>1, <2>2
<1>9. slips' \in [Tabs -> SUBSET Kinds]
  BY SlipsTyped DEF Saved
<1> QED
  BY <1>5, <1>6, <1>7, <1>8, <1>9 DEF CallbacksTyped, TabTypeOK

LEMMA SaveDoneTyped ==
    ASSUME TabTypeOK, NEW t \in Tabs, SaveDone(t), UNCHANGED <<phase, text>>
    PROVE  CallbacksTyped
<1>1. [tab[t] EXCEPT !.state = "saved"] \in TabType
  <2>1. tab[t] \in TabType
    BY DEF TabTypeOK
  <2> QED
    BY <2>1 DEF TabType
<1>2. tab' \in [Tabs -> TabType]
  BY <1>1 DEF TabTypeOK, SaveDone
<1>3. slips' \in [Tabs -> SUBSET Kinds]
  BY SlipsTyped DEF SaveDone
<1> QED
  BY <1>2, <1>3 DEF CallbacksTyped, TabTypeOK, SaveDone

LEMMA SaveFailsTyped ==
    ASSUME TabTypeOK, NEW t \in Tabs, NEW save \in SaveType, SaveFails(t, save), UNCHANGED <<phase, text>>
    PROVE  CallbacksTyped
<1>1. [tab[t] EXCEPT !.state = "error"] \in TabType
  <2>1. tab[t] \in TabType
    BY DEF TabTypeOK
  <2> QED
    BY <2>1 DEF TabType
<1>2. tab' \in [Tabs -> TabType]
  BY <1>1 DEF TabTypeOK, SaveFails
<1>3. warnings' \in [Tabs -> SUBSET SaveType]
  <2>1. warnings \in [Tabs -> SUBSET SaveType] /\ warnings[t] \cup {save} \in SUBSET SaveType
    BY DEF TabTypeOK
  <2> QED
    BY <2>1 DEF SaveFails
<1>4. slips' \in [Tabs -> SUBSET Kinds]
  <2>1. slips[t] \ {"lost"} \in SUBSET Kinds
    BY SlipsTyped
  <2> QED
    BY <2>1, SlipsTyped DEF SaveFails
<1> QED
  BY <1>2, <1>3, <1>4 DEF CallbacksTyped, TabTypeOK, SaveFails

LEMMA ReceiveTyped ==
    ASSUME TabTypeOK, NEW w \in Windows, Receive(w)
    PROVE  TabTypeOK'
<1> DEFINE a == Head(toTab[w])
<1>1. toTab[w] \in Seq(AnswerType) /\ toTab[w] # <<>>
  BY DEF TabTypeOK, Receive
<1>2. a \in AnswerType /\ Tail(toTab[w]) \in Seq(AnswerType)
  BY <1>1, TailAt
<1>3. toTab' \in [Windows -> Seq(AnswerType)]
  BY <1>2 DEF TabTypeOK, Receive
<1>4. /\ ReceiveOfSave(a) \/ ReceiveOfRead(a) \/ ReceiveOfMove(a) \/ ReceiveOnly(a)
      /\ UNCHANGED <<now, version, rare, timer, socket, server, typed>>
  BY DEF Receive
<1> HIDE DEF a
<1>5. a.tab \in Tabs /\ a.stamp \in Seconds /\ a.content \in Versions \cup {Mixed}
  BY <1>2, AnswerKinds
<1>6. tab[a.tab] \in TabType
  BY <1>5 DEF TabTypeOK
<1>7. CallbacksTyped
  <2>1. CASE ReceiveOfSave(a)
    BY <1>2, <1>5, <2>1, AnswerKinds, SavedTyped, SaveDoneTyped, SaveFailsTyped DEF ReceiveOfSave
  <2>2. CASE ReceiveOfRead(a)
    <3>1. [tab[a.tab] EXCEPT !.stamp = a.stamp] \in TabType
      BY <1>5, <1>6 DEF TabType
    <3>2. tab' \in [Tabs -> TabType]
      BY <2>2, <3>1 DEF ReceiveOfRead, TabTypeOK
    <3>3. text' \in [Tabs -> Versions \cup {Mixed}]
      BY <1>5, <2>2 DEF ReceiveOfRead, TabTypeOK
    <3> QED
      BY <2>2, <3>2, <3>3 DEF ReceiveOfRead, CallbacksTyped, TabTypeOK, Kinds
  <2>3. CASE ReceiveOfMove(a)
    <3>1. [tab[a.tab] EXCEPT !.stamp = a.stamp, !.path = tab[a.tab].name] \in TabType
      BY <1>5, <1>6 DEF TabType
    <3>2. tab' = tab \/ tab' = [tab EXCEPT ![a.tab] = [tab[a.tab] EXCEPT !.stamp = a.stamp, !.path = tab[a.tab].name]]
      BY <1>5, <2>3 DEF ReceiveOfMove, TabTypeOK
    <3>3. tab' \in [Tabs -> TabType]
      BY <3>1, <3>2 DEF TabTypeOK
    <3> QED
      BY <2>3, <3>3 DEF ReceiveOfMove, CallbacksTyped, TabTypeOK, Kinds
  <2>4. CASE ReceiveOnly(a)
    BY <2>4 DEF ReceiveOnly, CallbacksTyped, TabTypeOK, Kinds
  <2> QED
    BY <1>4, <2>1, <2>2, <2>3, <2>4
<1> QED
  BY <1>3, <1>4, <1>7 DEF CallbacksTyped, TabTypeOK, server, Kinds

LEMMA StepTyped ==
    ASSUME TabTypeOK, [TabNext]_tvars
    PROVE  TabTypeOK'
<1>1. ASSUME NEW t \in Tabs,
             \/ NewTab(t) \/ LoadTab(t) \/ Edit(t) \/ SaveTakesTooLong(t) \/ ClickWarning(t)
             \/ CloseTab(t) \/ \E to \in Names : Rename(t, to)
      PROVE  TabTypeOK'
  BY <1>1, NewTabTyped, LoadTabTyped, EditTyped, LateTyped, ClickTyped, CloseTabTyped, RenameTyped
<1>2. ASSUME NEW w \in Windows,
             \/ TimerFires(w) \/ SocketCloses(w) \/ SocketOpens(w)
             \/ ServerStarts(w) \/ ServerFinishes(w) \/ Receive(w)
      PROVE  TabTypeOK'
  BY <1>2, TimerTyped, SocketClosesTyped, SocketOpensTyped, ServerStartsTyped, ServerFinishesTyped,
     ReceiveTyped
<1>3. CASE UNCHANGED tvars
  BY <1>3 DEF TabTypeOK, tvars, browser, server
<1> QED
  BY <1>1, <1>2, <1>3, TickTyped DEF TabNext

\* The tabs, the two channels and the files always have their types, and no
\* two names share a file.
THEOREM TabTypeCorrect == TabSpec => []TabTypeOK
<1>1. TabInit => TabTypeOK
  BY InitTyped
<1>2. TabTypeOK /\ [TabNext]_tvars => TabTypeOK'
  BY StepTyped
<1> QED
  BY <1>1, <1>2, PTL DEF TabSpec

-----------------------------------------------------------------------------
(* What is on its way.                                                     *)

Contents == Versions \cup {Mixed}

Carries(m, t, c) == m.op = "write" /\ m.tab = t /\ m.save.content = c

\* The WRITE of a text of the tab, or the verdict on it, is on its way.
Pending(t, c) ==
    LET w == WindowOf[t] IN
    \/ \E r \in RangeOf(toServer[w]) : Carries(r, t, c)
    \/ serving[w] # None /\ Carries(serving[w].request, t, c)
    \/ \E a \in RangeOf(toTab[w]) : Carries(a, t, c) /\ a.kind # "done"

LEMMA RangeShort ==
    ASSUME NEW a, NEW b
    PROVE  RangeOf(<<a>>) = {a} /\ RangeOf(<<a, b>>) = {a, b} /\ RangeOf(<<>>) = {}
<1>1. /\ 1 .. Len(<<a>>) = {1} /\ 1 .. Len(<<a, b>>) = {1, 2} /\ 1 .. Len(<<>>) = {}
      /\ <<a>>[1] = a /\ <<a, b>>[1] = a /\ <<a, b>>[2] = b
  OBVIOUS
<1> QED
  BY <1>1 DEF RangeOf

LEMMA RangeTyped ==
    ASSUME NEW S, NEW s \in Seq(S)
    PROVE  RangeOf(s) \subseteq S
BY DEF RangeOf

LEMMA AnswersArrive ==
    ASSUME TabTypeOK, NEW w \in Windows, NEW answers \in Seq(AnswerType), Answers(w, answers)
    PROVE  /\ RangeOf(toTab'[w]) = RangeOf(toTab[w]) \cup RangeOf(answers)
           /\ \A v \in Windows \ {w} : toTab'[v] = toTab[v]
<1>1. toTab[w] \in Seq(AnswerType) /\ toTab'[w] = toTab[w] \o answers
  BY DEF TabTypeOK, Answers
<1>2. \A v \in Windows \ {w} : toTab'[v] = toTab[v]
  BY DEF TabTypeOK, Answers
<1> QED
  BY <1>1, <1>2, RangeConcat

LEMMA RequestLeaves ==
    ASSUME TabTypeOK, NEW w \in Windows, toServer[w] # <<>>,
           toServer' = [toServer EXCEPT ![w] = Tail(@)]
    PROVE  /\ RangeOf(toServer[w]) = {Head(toServer[w])} \cup RangeOf(toServer'[w])
           /\ Head(toServer[w]) \in RequestType
           /\ \A v \in Windows \ {w} : toServer'[v] = toServer[v]
<1>1. toServer[w] \in Seq(RequestType) /\ toServer'[w] = Tail(toServer[w])
  BY DEF TabTypeOK
<1>2. \A v \in Windows \ {w} : toServer'[v] = toServer[v]
  BY DEF TabTypeOK
<1>3. Head(toServer[w]) \in RequestType
  BY <1>1, TailAt
<1> QED
  BY <1>1, <1>2, <1>3, RangeTail

LEMMA AnswerLeaves ==
    ASSUME TabTypeOK, NEW w \in Windows, toTab[w] # <<>>, toTab' = [toTab EXCEPT ![w] = Tail(@)]
    PROVE  /\ RangeOf(toTab[w]) = {Head(toTab[w])} \cup RangeOf(toTab'[w])
           /\ Head(toTab[w]) \in AnswerType /\ Head(toTab[w]) \in RangeOf(toTab[w])
           /\ \A v \in Windows \ {w} : toTab'[v] = toTab[v]
<1>1. toTab[w] \in Seq(AnswerType) /\ toTab'[w] = Tail(toTab[w])
  BY DEF TabTypeOK
<1>2. \A v \in Windows \ {w} : toTab'[v] = toTab[v]
  BY DEF TabTypeOK
<1>3. Head(toTab[w]) \in AnswerType
  BY <1>1, TailAt
<1> QED
  BY <1>1, <1>2, <1>3, RangeTail

\* A request that is sent is on its way, and so is all that was.
LEMMA SentIsPending ==
    ASSUME TabTypeOK, NEW u \in Tabs, NEW r \in RequestType, UNCHANGED <<serving, toTab>>,
           toServer' = [toServer EXCEPT ![WindowOf[u]] = Append(@, r)]
    PROVE  /\ \A t \in Tabs, c \in Contents : Pending(t, c) => Pending(t, c)'
           /\ \A c \in Contents : Carries(r, u, c) => Pending(u, c)'
<1> DEFINE w == WindowOf[u]
<1>1. w \in Windows /\ toServer[w] \in Seq(RequestType) /\ toServer'[w] = Append(toServer[w], r)
  BY TabsAssumption DEF TabTypeOK
<1>2. RangeOf(toServer'[w]) = RangeOf(toServer[w]) \cup {r}
  BY <1>1, RangeAppend
<1>3. \A v \in Windows \ {w} : toServer'[v] = toServer[v]
  BY DEF TabTypeOK
<1>4. ASSUME NEW t \in Tabs, NEW c \in Contents, Pending(t, c)
      PROVE  Pending(t, c)'
  <2>1. WindowOf[t] \in Windows
    BY TabsAssumption
  <2>2. RangeOf(toServer[WindowOf[t]]) \subseteq RangeOf(toServer'[WindowOf[t]])
    BY <1>2, <1>3, <2>1
  <2> QED
    BY <1>4, <2>2 DEF Pending
<1>5. ASSUME NEW c \in Contents, Carries(r, u, c)
      PROVE  Pending(u, c)'
  BY <1>2, <1>5 DEF Pending
<1> QED
  BY <1>4, <1>5

LEMMA StartedIsPending ==
    ASSUME TabTypeOK, NEW w \in Windows, ServerStarts(w), NEW t \in Tabs, NEW c \in Contents, Pending(t, c)
    PROVE  Pending(t, c)'
<1> DEFINE r == Head(toServer[w])
           v == WindowOf[t]
<1>1. /\ toServer[w] # <<>> /\ serving[w] = None
      /\ toServer' = [toServer EXCEPT ![w] = Tail(@)]
  BY DEF ServerStarts
<1>2. /\ RangeOf(toServer[w]) = {r} \cup RangeOf(toServer'[w])
      /\ r \in RequestType
      /\ \A x \in Windows \ {w} : toServer'[x] = toServer[x]
  BY <1>1, RequestLeaves
<1>3. Takes(w, r) /\ v \in Windows
  BY ServerStartsTyped, TabsAssumption
<1> HIDE DEF r, v
<1>4. CASE \E s \in ServingType : s.request = r /\ serving' = [serving EXCEPT ![w] = s] /\ UNCHANGED toTab
  <2>1. PICK s \in ServingType : s.request = r /\ serving' = [serving EXCEPT ![w] = s] /\ UNCHANGED toTab
    BY <1>4
  <2>2. serving'[w] = s /\ s # None /\ \A x \in Windows \ {w} : serving'[x] = serving[x]
    BY <2>1, Distinct DEF TabTypeOK
  <2> QED
    BY <1>1, <1>2, <1>3, <2>1, <2>2 DEF Pending, v
<1>5. CASE Refuses(w, r)
  <2> DEFINE e == AnswerTo(r, "error", 0, Blank)
  <2>1. Answers(w, <<e>>) /\ UNCHANGED serving
    BY <1>5 DEF Refuses
  <2>2. <<e>> \in Seq(AnswerType)
    BY <1>2, CompletedTyped, Bounds
  <2>3. Carries(r, t, c) => Carries(e, t, c) /\ e.kind # "done"
    BY DEF Carries, AnswerTo
  <2> HIDE DEF e
  <2>4. /\ RangeOf(toTab'[w]) = RangeOf(toTab[w]) \cup {e}
        /\ \A x \in Windows \ {w} : toTab'[x] = toTab[x]
    BY <2>1, <2>2, AnswersArrive, RangeShort
  <2> QED
    BY <1>1, <1>2, <1>3, <2>1, <2>3, <2>4 DEF Pending, v
<1> QED
  BY <1>3, <1>4, <1>5 DEF Takes

\* The answers to the request of a window: an error, or a stamp or a text
\* and the completion.
Verdict(s, answers) ==
    \/ answers = <<AnswerTo(s.request, "error", 0, Blank)>>
    \/ \E stamp \in Seconds, content \in Contents :
           /\ s.request.op = "write" => content = Blank /\ s.request.save.content \in stored'
           /\ s.request.op = "read" => content \in {s.content, disk[s.inode].content, Mixed}
           /\ answers = Completed(s.request, stamp, content)

LEMMA FinishIsVerdict ==
    ASSUME TabTypeOK, NEW w \in Windows, ServerFinishes(w)
    PROVE  \E answers \in Seq(AnswerType) :
               Answers(w, answers) /\ Verdict(serving[w], answers)
<1> DEFINE s == serving[w]
           r == s.request
<1>1. s # None /\ r \in RequestType /\ s.inode \in Inodes
  BY ServedTyped DEF ServerFinishes
<1>2. disk' \in [Inodes -> FileType] /\ names \in [Names -> Inodes \cup {None}]
  BY ServerFinishesTyped DEF TabTypeOK, ServerFinishes
<1>3. <<AnswerTo(r, "error", 0, Blank)>> \in Seq(AnswerType)
  BY <1>1, CompletedTyped, Bounds
<1>4. CASE r.op = "write" /\ FinishWrite(w, s)
  <2> DEFINE i == names[r.save.path]
             answers == IF i = None THEN <<AnswerTo(r, "error", 0, Blank)>>
                        ELSE Completed(r, disk'[i].mtime, Blank)
  <2>1. Answers(w, answers) /\ r.save.content \in stored'
    BY <1>4 DEF FinishWrite
  <2>2. CASE i = None
    BY <1>3, <2>1, <2>2 DEF Verdict
  <2>3. CASE i # None
    <3>1. i \in Inodes
      BY <1>1, <1>2, <1>4, <2>3, RequestKinds
    <3>2. disk'[i].mtime \in Seconds
      BY <1>2, <3>1 DEF FileType
    <3>3. Completed(r, disk'[i].mtime, Blank) \in Seq(AnswerType)
      BY <1>1, <3>2, CompletedTyped, Bounds
    <3>4. answers = Completed(r, disk'[i].mtime, Blank) /\ Blank \in Contents
      BY <2>3, Bounds DEF Contents
    <3> HIDE DEF answers
    <3>5. Verdict(s, answers)
      BY <1>4, <2>1, <3>2, <3>4 DEF Verdict
    <3> QED
      BY <2>1, <3>3, <3>4, <3>5
  <2> QED
    BY <2>2, <2>3
<1>5. CASE r.op = "read" /\ FinishRead(w, s)
  <2>1. PICK content \in IF s.content \in {Blank, disk[s.inode].content} THEN {s.content}
                         ELSE {disk[s.inode].content, Mixed} :
            Answers(w, Completed(r, s.mtime, content))
    BY <1>5 DEF FinishRead
  <2>2. content \in Contents /\ s.mtime \in Seconds
    BY <1>1, <2>1, ServedTyped DEF Contents
  <2>3. Completed(r, s.mtime, content) \in Seq(AnswerType)
    BY <1>1, <1>5, <2>2, CompletedTyped DEF Contents
  <2> QED
    BY <1>5, <2>1, <2>2, <2>3 DEF Verdict
<1>6. CASE r.op \in {"rename", "close"} /\ FinishMove(w, s)
  <2> DEFINE i == IF r.op = "close" THEN s.inode ELSE names[r.to]
             answers == IF i = None THEN <<AnswerTo(r, "error", 0, Blank)>>
                        ELSE Completed(r, disk[i].mtime, Blank)
  <2>1. Answers(w, answers)
    BY <1>6 DEF FinishMove
  <2>2. i # None => i \in Inodes
    BY <1>1, <1>2, <1>6, RequestKinds
  <2> HIDE DEF i
  <2>3. CASE i = None
    BY <1>3, <2>1, <2>3 DEF Verdict
  <2>4. CASE i # None
    <3>1. disk[i].mtime \in Seconds
      BY <2>2, <2>4 DEF FileType, TabTypeOK
    <3>2. Completed(r, disk[i].mtime, Blank) \in Seq(AnswerType)
      BY <1>1, <1>6, <3>1, CompletedTyped, Bounds
    <3> QED
      BY <1>6, <2>1, <2>4, <3>1, <3>2, Bounds DEF Verdict, Contents
  <2> QED
    BY <2>3, <2>4
<1>7. CASE Answers(w, <<AnswerTo(r, "error", 0, Blank)>>)
  BY <1>3, <1>7 DEF Verdict
<1>8. \/ r.op = "write" /\ FinishWrite(w, s)
      \/ r.op = "read" /\ FinishRead(w, s)
      \/ r.op \in {"rename", "close"} /\ FinishMove(w, s)
      \/ Answers(w, <<AnswerTo(r, "error", 0, Blank)>>)
  BY DEF ServerFinishes
<1> QED
  BY <1>4, <1>5, <1>6, <1>7, <1>8

LEMMA FinishedIsPending ==
    ASSUME TabTypeOK, NEW w \in Windows, ServerFinishes(w), NEW t \in Tabs, NEW c \in Contents, Pending(t, c)
    PROVE  Pending(t, c)'
<1> DEFINE r == serving[w].request
           v == WindowOf[t]
<1>1. PICK answers \in Seq(AnswerType) : Answers(w, answers) /\ Verdict(serving[w], answers)
  BY FinishIsVerdict
<1>2. UNCHANGED toServer /\ v \in Windows /\ \A x \in Windows \ {w} : serving'[x] = serving[x]
  BY TabsAssumption DEF ServerFinishes, TabTypeOK
<1>3. /\ RangeOf(toTab'[w]) = RangeOf(toTab[w]) \cup RangeOf(answers)
      /\ \A x \in Windows \ {w} : toTab'[x] = toTab[x]
  BY <1>1, AnswersArrive
<1>4. Carries(r, t, c) => \E a \in RangeOf(answers) : Carries(a, t, c) /\ a.kind # "done"
  <2>1. \A kind, stamp, content : Carries(r, t, c) => Carries(AnswerTo(r, kind, stamp, content), t, c)
    BY DEF Carries, AnswerTo
  <2>2. \A kind, stamp, content : AnswerTo(r, kind, stamp, content).kind = kind
    BY DEF AnswerTo
  <2> HIDE DEF r
  <2>3. CASE answers = <<AnswerTo(r, "error", 0, Blank)>>
    <3>1. RangeOf(answers) = {AnswerTo(r, "error", 0, Blank)}
      BY <2>3, RangeShort
    <3> QED
      BY <2>1, <2>2, <3>1
  <2>4. CASE \E stamp, content : answers = Completed(r, stamp, content)
    <3>1. PICK stamp, content : answers = Completed(r, stamp, content)
      BY <2>4
    <3>2. RangeOf(answers) = {AnswerTo(r, "data", stamp, content), AnswerTo(r, "done", 0, Blank)}
      BY <3>1, RangeShort DEF Completed
    <3> QED
      BY <2>1, <2>2, <3>2
  <2> QED
    BY <1>1, <2>3, <2>4 DEF Verdict, r
<1> HIDE DEF r, v
<1> QED
  BY <1>2, <1>3, <1>4 DEF Pending, r, v

\* What callbackSuccess and saveScript after it do.
LEMMA SavedCases ==
    ASSUME TabTypeOK, NEW t \in Tabs, NEW stamp \in Seconds, Saved(t, stamp)
    PROVE  LET next == [path |-> tab[t].path, stamp |-> stamp, content |-> text[t]]
               r == [op |-> "write", tab |-> t, save |-> next]
           IN /\ next \in SaveType /\ r \in RequestType /\ ~ readOnly'[t]
              /\ \A u \in Tabs \ {t} : /\ tab'[u] = tab[u] /\ warnings'[u] = warnings[u]
                                       /\ readOnly'[u] = readOnly[u] /\ slips'[u] = slips[u]
                                       /\ saveTimeout'[u] = saveTimeout[u]
              /\ tab'[t].path = tab[t].path /\ ~ tab'[t].waiting /\ tab'[t].saving = tab[t].waiting
              /\ tab'[t].state = "saved" /\ tab[t].waiting \in BOOLEAN
              /\ slips'[t] = Silenced(IF tab[t].waiting THEN Slips(t) ELSE slips[t])
              /\ \/ /\ ~ tab[t].waiting /\ ~ tab'[t].saving
                    /\ warnings'[t] = warnings[t] /\ UNCHANGED toServer
                 \/ tab[t].waiting /\ warnings'[t] = {next} /\ UNCHANGED toServer
                 \/ tab[t].waiting /\ toServer' = [toServer EXCEPT ![WindowOf[t]] = Append(@, r)]
                 \/ tab[t].waiting /\ "lost" \in Slips(t) /\ UNCHANGED toServer
<1> DEFINE next == [path |-> tab[t].path, stamp |-> stamp, content |-> text[t]]
           w == WindowOf[t]
           again == tab[t].waiting
           r == [op |-> "write", tab |-> t, save |-> next]
           same == [path |-> [tab[t] EXCEPT !.stamp = stamp, !.saving = FALSE].path,
                    stamp |-> stamp, content |-> text[t]]
<1>1. tab[t] \in TabType /\ text[t] \in Versions \cup {Mixed}
  BY DEF TabTypeOK
<1>2. next \in SaveType /\ same = next
  BY <1>1 DEF SaveType, TabType
<1>3. r \in RequestType
  BY <1>2, SaveOfTyped
<1>4. /\ warnings' = [warnings EXCEPT ![t] =
                          IF ~ again THEN @ ELSE IF socket[w] = "closed" THEN {same} ELSE {}]
      /\ saveTimeout' = [saveTimeout EXCEPT ![t] =
                            IF again /\ socket[w] # "closed" THEN same ELSE None]
      /\ toServer' = IF again /\ socket[w] # "closed" /\ ~ stuck[w]
                     THEN [toServer EXCEPT ![w] =
                              Append(@, [op |-> "write", tab |-> t, save |-> same])]
                     ELSE toServer
      /\ slips' = [slips EXCEPT ![t] = Silenced(IF again THEN Slips(t) ELSE slips[t])]
  BY DEF Saved, Sent, WriteOf
<1>5. /\ \A u \in Tabs \ {t} : tab'[u] = tab[u] /\ readOnly'[u] = readOnly[u]
      /\ tab'[t].saving = again /\ ~ tab'[t].waiting /\ tab'[t].path = tab[t].path /\ ~ readOnly'[t]
      /\ tab'[t].state = "saved"
  BY <1>1 DEF Saved, TabTypeOK, TabType
<1>10. stuck[w] /\ socket[w] # "closed" => "lost" \in Slips(t)
  BY DEF Slips
<1> HIDE DEF same, next, again
<1>6. /\ warnings'[t] = IF ~ again THEN warnings[t] ELSE IF socket[w] = "closed" THEN {next} ELSE {}
      /\ \A u \in Tabs \ {t} : warnings'[u] = warnings[u]
  BY <1>2, <1>4 DEF TabTypeOK
<1>7. again => \/ warnings'[t] = {next} /\ UNCHANGED toServer
               \/ toServer' = [toServer EXCEPT ![w] = Append(@, r)]
               \/ "lost" \in Slips(t) /\ UNCHANGED toServer
  BY <1>2, <1>4, <1>6, <1>10
<1>8. ~ again => ~ tab'[t].saving /\ warnings'[t] = warnings[t] /\ UNCHANGED toServer
  BY <1>4, <1>5, <1>6
<1>9. again \in BOOLEAN
  BY <1>1 DEF TabType, again
<1>11. /\ \A u \in Tabs \ {t} : slips'[u] = slips[u] /\ saveTimeout'[u] = saveTimeout[u]
       /\ slips'[t] = Silenced(IF again THEN Slips(t) ELSE slips[t])
  BY <1>4 DEF TabTypeOK
<1> QED
  BY <1>2, <1>3, <1>5, <1>6, <1>7, <1>8, <1>9, <1>11 DEF next, again

LEMMA ReceiveSends ==
    ASSUME TabTypeOK, NEW w \in Windows, Receive(w)
    PROVE  \A x \in Windows : RangeOf(toServer[x]) \subseteq RangeOf(toServer'[x])
<1> DEFINE a == Head(toTab[w])
<1>1. a \in AnswerType
  BY AnswerLeaves DEF Receive
<1>2. a.tab \in Tabs /\ a.stamp \in Seconds
  BY <1>1, AnswerKinds
<1>3. ReceiveOfSave(a) \/ ReceiveOfRead(a) \/ ReceiveOfMove(a) \/ ReceiveOnly(a)
  BY DEF Receive
<1> HIDE DEF a
<1>4. CASE UNCHANGED toServer
  BY <1>4
<1>5. CASE Saved(a.tab, a.stamp)
  <2>1. CASE UNCHANGED toServer
    BY <2>1
  <2>2. CASE \E r \in RequestType : toServer' = [toServer EXCEPT ![WindowOf[a.tab]] = Append(@, r)]
    <3>1. PICK r \in RequestType : toServer' = [toServer EXCEPT ![WindowOf[a.tab]] = Append(@, r)]
      BY <2>2
    <3> DEFINE v == WindowOf[a.tab]
    <3>2. v \in Windows /\ toServer[v] \in Seq(RequestType) /\ toServer'[v] = Append(toServer[v], r)
      BY <1>2, <3>1, TabsAssumption DEF TabTypeOK
    <3>3. RangeOf(toServer'[v]) = RangeOf(toServer[v]) \cup {r}
      BY <3>2, RangeAppend
    <3>4. \A x \in Windows \ {v} : toServer'[x] = toServer[x]
      BY <3>1 DEF TabTypeOK
    <3> QED
      BY <3>3, <3>4
  <2> QED
    BY ZenonT(40), <1>2, <1>5, <2>1, <2>2, SavedCases
<1> QED
  BY <1>3, <1>4, <1>5 DEF ReceiveOfSave, ReceiveOfRead, ReceiveOfMove, ReceiveOnly, SaveDone, SaveFails

\* An answer that is received is no longer on its way; the others are.
LEMMA ReceivedOthersPending ==
    ASSUME TabTypeOK, NEW w \in Windows, Receive(w), NEW t \in Tabs, NEW c \in Contents, Pending(t, c),
           LET a == Head(toTab[w]) IN ~ (Carries(a, t, c) /\ a.kind # "done")
    PROVE  Pending(t, c)'
<1> DEFINE a == Head(toTab[w])
           v == WindowOf[t]
<1>1. /\ RangeOf(toTab[w]) = {a} \cup RangeOf(toTab'[w]) /\ a \in AnswerType
      /\ \A x \in Windows \ {w} : toTab'[x] = toTab[x]
  BY AnswerLeaves DEF Receive
<1>2. v \in Windows /\ UNCHANGED serving
  BY TabsAssumption DEF Receive, server
<1>3. \A x \in Windows : RangeOf(toServer[x]) \subseteq RangeOf(toServer'[x])
  BY ReceiveSends
<1> HIDE DEF a, v
<1> QED
  BY <1>1, <1>2, <1>3 DEF Pending, v, a

\* A save is sent, or a warning stands for it, or it is lost and timed.
LEMMA SaveFileSends ==
    ASSUME TabTypeOK, NEW t \in Tabs, NEW save \in SaveType, NEW b \in TabType,
           SaveFile(t, save, b, toServer), UNCHANGED <<serving, toTab>>
    PROVE  /\ warnings'[t] = {save} \/ Pending(t, save.content)' \/ "lost" \in Slips(t)
           /\ "lost" \in Slips(t) => saveTimeout'[t] # None /\ tab'[t].state # "saved"
           /\ tab'[t].saving = b.saving /\ tab'[t].waiting = b.waiting
           /\ \A u \in Tabs \ {t} : /\ tab'[u] = tab[u] /\ warnings'[u] = warnings[u]
                                    /\ readOnly'[u] = readOnly[u] /\ saveTimeout'[u] = saveTimeout[u]
           /\ \A u \in Tabs, c \in Contents : Pending(u, c) => Pending(u, c)'
<1> DEFINE r == [op |-> "write", tab |-> t, save |-> save]
           w == WindowOf[t]
<1>1. r \in RequestType /\ save # None
  BY SaveOfTyped, NoneAssumption
<1>2. Carries(r, t, save.content) /\ save.content \in Contents
  BY DEF Carries, SaveType, Contents
<1>3. \A u \in Tabs \ {t} : /\ tab'[u] = tab[u] /\ warnings'[u] = warnings[u]
                            /\ readOnly'[u] = readOnly[u] /\ saveTimeout'[u] = saveTimeout[u]
  BY DEF SaveFile, TabTypeOK
<1>6. tab'[t].saving = b.saving /\ tab'[t].waiting = b.waiting
  <2> DEFINE e == [b EXCEPT !.state = "error"]
             s == [b EXCEPT !.state = "saving"]
  <2>1. e.saving = b.saving /\ e.waiting = b.waiting /\ s.saving = b.saving /\ s.waiting = b.waiting
    BY DEF TabType
  <2>2. tab' = [tab EXCEPT ![t] = e] \/ tab' = [tab EXCEPT ![t] = s]
    BY DEF SaveFile
  <2> HIDE DEF e, s
  <2>3. tab'[t] = e \/ tab'[t] = s
    BY <2>2 DEF TabTypeOK
  <2> QED
    BY <2>1, <2>3
<1>4. CASE socket[w] = "closed"
  <2>1. warnings'[t] = {save} /\ UNCHANGED toServer
    BY <1>4 DEF SaveFile, TabTypeOK
  <2>2. \A u \in Tabs, c \in Contents : Pending(u, c) => Pending(u, c)'
    BY <2>1 DEF Pending
  <2>3. "lost" \notin Slips(t)
    BY <1>4 DEF Slips
  <2> QED
    BY <1>3, <1>6, <2>1, <2>2, <2>3
<1>5. CASE socket[w] # "closed"
  <2>1. toServer' = IF stuck[w] THEN toServer ELSE [toServer EXCEPT ![w] = Append(@, r)]
    BY <1>5 DEF SaveFile, Sent, WriteOf
  <2>2. saveTimeout'[t] = save /\ tab'[t].state = "saving"
    <3>1. saveTimeout' = [saveTimeout EXCEPT ![t] = save] /\ tab' = [tab EXCEPT ![t] = [b EXCEPT !.state = "saving"]]
      BY <1>5 DEF SaveFile
    <3> QED
      BY <3>1 DEF TabTypeOK, TabType
  <2> HIDE DEF r
  <2>3. CASE stuck[w]
    <3>1. UNCHANGED toServer /\ "lost" \in Slips(t)
      BY <1>5, <2>1, <2>3 DEF Slips
    <3>2. \A u \in Tabs, c \in Contents : Pending(u, c) => Pending(u, c)'
      BY <3>1 DEF Pending
    <3> QED
      BY <1>1, <1>3, <1>6, <2>2, <3>1, <3>2
  <2>4. CASE ~ stuck[w]
    <3>1. toServer' = [toServer EXCEPT ![w] = Append(@, r)]
      BY <2>1, <2>4
    <3> QED
      BY <1>1, <1>2, <1>3, <1>6, <2>2, <3>1, SentIsPending
  <2> QED
    BY <2>3, <2>4
<1> QED
  BY <1>4, <1>5

LEMMA RequestSends ==
    ASSUME TabTypeOK, NEW t \in Tabs, NEW r \in RequestType, Request(WindowOf[t], r),
           UNCHANGED <<serving, toTab>>, NEW u \in Tabs, NEW c \in Contents, Pending(u, c)
    PROVE  Pending(u, c)'
<1>1. CASE UNCHANGED toServer
  BY <1>1 DEF Pending
<1>2. CASE toServer' = [toServer EXCEPT ![WindowOf[t]] = Append(@, r)]
  BY <1>2, SentIsPending
<1> QED
  BY <1>1, <1>2 DEF Request, Sent

\* What files and answers hold was written once.
StoredIsRead ==
    /\ {Blank, Template} \subseteq stored
    /\ \A i \in Inodes : disk[i].content \in stored \cup {Mixed}
    /\ \A w \in Windows :
           serving[w] # None /\ serving[w].request.op = "read" => serving[w].content \in stored \cup {Mixed}
    /\ \A w \in Windows : \A a \in RangeOf(toTab[w]) :
           a.kind = "data" => /\ a.op = "read" => a.content \in stored \cup {Mixed}
                              /\ a.op = "write" => a.save.content \in stored

LEMMA StoredAtStart ==
    ASSUME TabInit
    PROVE  StoredIsRead
<1>1. \A w \in Windows : RangeOf(toTab[w]) = {}
  BY RangeShort DEF TabInit
<1> QED
  BY <1>1 DEF TabInit, StoredIsRead

LEMMA StoredAfterStart ==
    ASSUME TabTypeOK, StoredIsRead, NEW w \in Windows, ServerStarts(w)
    PROVE  StoredIsRead'
<1> DEFINE r == Head(toServer[w])
           e == AnswerTo(r, "error", 0, Blank)
<1>1. /\ toServer[w] # <<>> /\ toServer' = [toServer EXCEPT ![w] = Tail(@)] /\ serving[w] = None
      /\ \/ r.op = "write" /\ StartWrite(w, r)
         \/ r.op = "read" /\ StartRead(w, r)
         \/ r.op \in {"rename", "close"} /\ StartMove(w, r)
         \/ Refuses(w, r)
  BY DEF ServerStarts
<1>2. r \in RequestType
  BY <1>1, RequestLeaves
<1>3. serving' \in [Windows -> ServingType \cup {None}] /\ disk' \in [Inodes -> FileType]
  BY ServerStartsTyped DEF TabTypeOK
<1> HIDE DEF r
<1>4. UNCHANGED stored /\ (UNCHANGED toTab \/ Refuses(w, r))
  BY <1>1 DEF StartWrite, StartRead, StartMove, Refuses
<1>5. \A i \in Inodes : disk'[i].content \in stored \cup {Mixed}
  <2>1. UNCHANGED disk \/ \E i : disk' = [disk EXCEPT ![i] = [content |-> Blank, mtime |-> now]]
    BY <1>1 DEF StartWrite, StartRead, StartMove, Refuses
  <2>2. ASSUME NEW j, disk' = [disk EXCEPT ![j] = [content |-> Blank, mtime |-> now]], NEW i \in Inodes
        PROVE  disk'[i].content \in stored \cup {Mixed}
    <3>1. disk'[i] = disk[i] \/ disk'[i] = [content |-> Blank, mtime |-> now]
      BY <2>2 DEF TabTypeOK
    <3> QED
      BY <3>1 DEF StoredIsRead
  <2> QED
    BY <2>1, <2>2 DEF StoredIsRead
<1>6. \A v \in Windows : serving'[v] # None /\ serving'[v].request.op = "read"
                            => serving'[v].content \in stored \cup {Mixed}
  <2>1. CASE Refuses(w, r)
    BY <2>1 DEF Refuses, StoredIsRead
  <2>2. CASE r.op = "read" /\ StartRead(w, r) /\ ~ Refuses(w, r)
    <3> DEFINE i == names[r.path]
               s == [request |-> r, inode |-> i, content |-> disk[i].content, mtime |-> disk[i].mtime]
    <3>1. i # None /\ serving' = [serving EXCEPT ![w] = s]
      BY <2>2 DEF StartRead
    <3>2. i \in Inodes
      BY <1>2, <2>2, <3>1, RequestKinds DEF TabTypeOK
    <3>3. s.content \in stored \cup {Mixed}
      BY <3>2 DEF StoredIsRead
    <3> HIDE DEF s
    <3>4. \A v \in Windows : serving'[v] = serving[v] \/ serving'[v] = s
      BY <3>1 DEF TabTypeOK
    <3> QED
      BY <3>3, <3>4 DEF StoredIsRead
  <2>3. CASE r.op # "read" /\ ~ Refuses(w, r)
    <3>1. Takes(w, r)
      BY ServerStartsTyped DEF r
    <3>2. PICK s \in ServingType : s.request = r /\ serving' = [serving EXCEPT ![w] = s]
      BY <2>3, <3>1 DEF Takes
    <3>3. \A v \in Windows : serving'[v] = serving[v] \/ serving'[v] = s
      BY <3>2 DEF TabTypeOK
    <3> QED
      BY <2>3, <3>2, <3>3 DEF StoredIsRead
  <2> QED
    BY <1>1, <2>1, <2>2, <2>3
<1>7. ASSUME NEW v \in Windows, NEW a \in RangeOf(toTab'[v]), a.kind = "data"
      PROVE  /\ a.op = "read" => a.content \in stored \cup {Mixed}
             /\ a.op = "write" => a.save.content \in stored
  <2>1. a \in RangeOf(toTab[v]) \/ a = e
    <3>1. CASE Refuses(w, r)
      <4>1. Answers(w, <<e>>)
        BY <3>1 DEF Refuses, r
      <4>2. <<e>> \in Seq(AnswerType)
        BY <1>2, CompletedTyped, Bounds DEF r
      <4> HIDE DEF e
      <4>3. /\ RangeOf(toTab'[w]) = RangeOf(toTab[w]) \cup {e}
            /\ \A x \in Windows \ {w} : toTab'[x] = toTab[x]
        BY <4>1, <4>2, AnswersArrive, RangeShort
      <4> QED
        BY <1>7, <4>3
    <3>2. CASE UNCHANGED toTab
      BY <1>7, <3>2
    <3> QED
      BY <1>4, <3>1, <3>2
  <2>2. e.kind = "error"
    BY DEF AnswerTo
  <2> HIDE DEF e
  <2> QED
    BY <1>7, <2>1, <2>2 DEF StoredIsRead
<1> QED
  BY <1>4, <1>5, <1>6, <1>7 DEF StoredIsRead

LEMMA StoredAfterFinish ==
    ASSUME TabTypeOK, StoredIsRead, NEW w \in Windows, ServerFinishes(w)
    PROVE  StoredIsRead'
<1> DEFINE s == serving[w]
           r == s.request
<1>1. PICK answers \in Seq(AnswerType) : Answers(w, answers) /\ Verdict(s, answers)
  BY FinishIsVerdict
<1>2. /\ s # None /\ serving' = [serving EXCEPT ![w] = None]
      /\ (r.op = "write" /\ FinishWrite(w, s)) \/ UNCHANGED <<disk, stored>>
  BY DEF ServerFinishes, FinishRead, FinishMove
<1>3. s.inode \in Inodes /\ r \in RequestType
  BY <1>2, ServedTyped
<1>4. /\ RangeOf(toTab'[w]) = RangeOf(toTab[w]) \cup RangeOf(answers)
      /\ \A x \in Windows \ {w} : toTab'[x] = toTab[x]
  BY <1>1, AnswersArrive
<1>5. stored \subseteq stored'
  BY <1>2 DEF FinishWrite
<1>6. \A i \in Inodes : disk'[i].content \in stored' \cup {Mixed}
  <2>1. CASE UNCHANGED <<disk, stored>>
    BY <2>1 DEF StoredIsRead
  <2>2. CASE FinishWrite(w, s)
    <3>1. PICK content \in Overlaid(disk[s.inode].content, r.save.content) :
              disk' = [disk EXCEPT ![s.inode] = [content |-> content, mtime |-> now]]
      BY <2>2 DEF FinishWrite
    <3>2. r.save.content \in stored' /\ disk[s.inode].content \in stored' \cup {Mixed}
      BY <1>3, <1>5, <2>2 DEF FinishWrite, StoredIsRead
    <3>3. content \in stored' \cup {Mixed}
      BY <3>1, <3>2 DEF Overlaid
    <3>4. \A i \in Inodes : disk'[i] = disk[i] \/ disk'[i] = [content |-> content, mtime |-> now]
      BY <3>1 DEF TabTypeOK
    <3> QED
      BY <1>5, <3>3, <3>4 DEF StoredIsRead
  <2> QED
    BY <1>2, <2>1, <2>2
<1>7. \A v \in Windows : serving'[v] # None /\ serving'[v].request.op = "read"
                            => serving'[v].content \in stored' \cup {Mixed}
  <2>1. \A v \in Windows : serving'[v] = None \/ serving'[v] = serving[v]
    BY <1>2 DEF TabTypeOK
  <2> QED
    BY <1>5, <2>1 DEF StoredIsRead
<1>8. ASSUME NEW a \in RangeOf(answers), a.kind = "data"
      PROVE  /\ a.op = "read" => a.content \in stored' \cup {Mixed}
             /\ a.op = "write" => a.save.content \in stored'
  <2>1. CASE answers = <<AnswerTo(r, "error", 0, Blank)>>
    <3>1. RangeOf(answers) = {AnswerTo(r, "error", 0, Blank)}
      BY <2>1, RangeShort
    <3>2. a = AnswerTo(r, "error", 0, Blank)
      BY <1>8, <3>1
    <3> QED
      BY <1>8, <3>2 DEF AnswerTo
  <2>2. CASE answers # <<AnswerTo(r, "error", 0, Blank)>>
    <3>1. PICK stamp \in Seconds, content \in Contents :
              /\ r.op = "write" => r.save.content \in stored'
              /\ r.op = "read" => content \in {s.content, disk[s.inode].content, Mixed}
              /\ answers = Completed(r, stamp, content)
      BY <1>1, <2>2 DEF Verdict
    <3>2. a \in {AnswerTo(r, "data", stamp, content), AnswerTo(r, "done", 0, Blank)}
      BY <1>8, <3>1, RangeShort DEF Completed
    <3>3. a = AnswerTo(r, "data", stamp, content)
      BY <1>8, <3>2 DEF AnswerTo
    <3>4. /\ a.op = r.op /\ a.content = content
          /\ r.op = "write" => a.save = r.save
      BY <3>3 DEF AnswerTo
    <3>5. r.op = "read" => s.content \in stored' \cup {Mixed} /\ disk[s.inode].content \in stored' \cup {Mixed}
      BY <1>2, <1>3, <1>5 DEF StoredIsRead
    <3> QED
      BY <3>1, <3>4, <3>5
  <2> QED
    BY <2>1, <2>2
<1> HIDE DEF s, r
<1>9. ASSUME NEW v \in Windows, NEW a \in RangeOf(toTab'[v]), a.kind = "data"
      PROVE  /\ a.op = "read" => a.content \in stored' \cup {Mixed}
             /\ a.op = "write" => a.save.content \in stored'
  <2>1. a \in RangeOf(toTab[v]) \/ a \in RangeOf(answers)
    BY <1>4, <1>9
  <2> QED
    BY <1>5, <1>8, <1>9, <2>1 DEF StoredIsRead
<1> QED
  BY <1>5, <1>6, <1>7, <1>9 DEF StoredIsRead

LEMMA StoredStep ==
    ASSUME TabTypeOK, StoredIsRead, [TabNext]_tvars
    PROVE  StoredIsRead' /\ stored \subseteq stored'
<1>1. CASE UNCHANGED <<toTab, serving, disk, stored>>
  BY <1>1 DEF StoredIsRead
<1>2. ASSUME NEW w \in Windows, Receive(w) PROVE StoredIsRead' /\ stored \subseteq stored'
  <2>1. \A x \in Windows : RangeOf(toTab'[x]) \subseteq RangeOf(toTab[x])
    BY <1>2, AnswerLeaves DEF Receive
  <2>2. UNCHANGED <<serving, disk, stored>>
    BY <1>2 DEF Receive, server
  <2> QED
    BY <2>1, <2>2 DEF StoredIsRead
<1>3. ASSUME NEW w \in Windows, SocketCloses(w) PROVE StoredIsRead' /\ stored \subseteq stored'
  <2>1. \A x \in Windows : RangeOf(toTab'[x]) \subseteq RangeOf(toTab[x])
    <3>1. \A x \in Windows : toTab'[x] = toTab[x] \/ toTab'[x] = <<>>
      BY <1>3 DEF SocketCloses, TabTypeOK
    <3> QED
      BY <3>1, RangeShort
  <2>2. \A x \in Windows : serving'[x] = serving[x] \/ serving'[x] = None
    BY <1>3 DEF SocketCloses, TabTypeOK
  <2>3. UNCHANGED <<disk, stored>>
    BY <1>3 DEF SocketCloses
  <2> QED
    BY <2>1, <2>2, <2>3 DEF StoredIsRead
<1>4. ASSUME NEW w \in Windows, ServerStarts(w) PROVE stored \subseteq stored'
  BY <1>4 DEF ServerStarts, StartWrite, StartRead, StartMove, Refuses
<1>5. ASSUME NEW w \in Windows, ServerFinishes(w) PROVE stored \subseteq stored'
  BY <1>5 DEF ServerFinishes, FinishWrite, FinishRead, FinishMove
<1>6. ASSUME NEW t \in Tabs,
             \/ NewTab(t) \/ LoadTab(t) \/ Edit(t) \/ SaveTakesTooLong(t) \/ ClickWarning(t)
             \/ CloseTab(t) \/ \E to \in Names : Rename(t, to)
      PROVE  UNCHANGED <<toTab, serving, disk, stored>>
  BY <1>6 DEF NewTab, LoadTab, Edit, SaveTakesTooLong, ClickWarning, CloseTab, Rename, server
<1>7. ASSUME NEW w \in Windows, TimerFires(w) \/ SocketOpens(w)
      PROVE  UNCHANGED <<toTab, serving, disk, stored>>
  BY <1>7 DEF TimerFires, SocketOpens, server
<1>8. CASE Tick \/ UNCHANGED tvars
  BY <1>1, <1>8 DEF Tick, tvars, server
<1> QED
  BY <1>1, <1>2, <1>3, <1>4, <1>5, <1>6, <1>7, <1>8, StoredAfterStart, StoredAfterFinish DEF TabNext

-----------------------------------------------------------------------------
(* What one step does to the saves of a tab.                               *)

\* A lost WRITE is known: a warning stands, its 30 seconds run, or it has been
\* noted as unnoticed.
Told(t) == warnings[t] # {} \/ slips[t] \cap {"lost", "unnoticed"} # {}

Timed(t) == "lost" \in slips[t] => saveTimeout[t] # None /\ tab[t].state # "saved"

\* The step leaves the saves of the tab as they are, up to a change of the text
\* that will be saved and to what becomes known.
Steady(t) ==
    /\ tab'[t].saving = tab[t].saving
    /\ readOnly'[t] => readOnly[t] \/ warnings'[t] # {}
    /\ warnings[t] \subseteq warnings'[t]
    /\ Told(t) => Told(t)'
    /\ \A c \in Contents : Pending(t, c) => Pending(t, c)' \/ Told(t)'
    /\ \/ WillSave(t)'
       \/ /\ text'[t] = text[t] \/ text'[t] \in stored \cup {Mixed}
          /\ WillSave(t) => slips'[t] # {}
          /\ slips[t] # {} => slips'[t] # {} \/ warnings'[t] # {}

\* A save of the text, or of another while the text waits for its own.
Starts(t) ==
    \E c \in Contents : /\ Pending(t, c)' \/ Told(t)'
                        /\ c = text'[t] \/ WillSave(t)' \/ slips'[t] # {} \/ text'[t] \in stored

\* The save is done and no other one follows.
Ends(t) ==
    /\ ~ tab[t].waiting /\ ~ tab'[t].saving /\ ~ readOnly'[t]
    /\ UNCHANGED timer /\ text'[t] = text[t] /\ warnings'[t] = warnings[t]
    /\ slips[t] # {} => slips'[t] # {}
    /\ \A c \in Contents \ stored : Pending(t, c) => Pending(t, c)'

Moves(t) == (Steady(t) \/ Starts(t) \/ Ends(t)) /\ (Timed(t) => Timed(t)')

\* The step does not concern the tab.
Alike(t) ==
    /\ tab'[t].saving = tab[t].saving /\ tab'[t].waiting = tab[t].waiting /\ tab'[t].state = tab[t].state
    /\ readOnly'[t] = readOnly[t] /\ warnings'[t] = warnings[t] /\ saveTimeout'[t] = saveTimeout[t]
    /\ \A c \in Contents : Pending(t, c) => Pending(t, c)'

LEMMA AlikeMoves ==
    ASSUME NEW t \in Tabs, Alike(t), slips'[t] = slips[t], text'[t] = text[t], WillSave(t) => WillSave(t)'
    PROVE  Moves(t)
<1>1. Timed(t) => Timed(t)'
  BY DEF Alike, Timed
<1>2. Steady(t)
  BY DEF Alike, Steady, Told
<1> QED
  BY <1>1, <1>2 DEF Moves

\* The tab's record and timer decide whether the text will be saved.
LEMMA WillSaveStays ==
    ASSUME NEW t \in Tabs, tab'[t].saving = tab[t].saving, tab'[t].waiting = tab[t].waiting,
           timer[WindowOf[t]] = t => timer'[WindowOf[t]] = t
    PROVE  WillSave(t) => WillSave(t)'
BY DEF WillSave

LEMMA NotedStays ==
    ASSUME NEW x
    PROVE  /\ "lost" \notin Silenced(x)
           /\ x \cap {"lost", "unnoticed"} # {} => Silenced(x) \cap {"lost", "unnoticed"} # {}
           /\ x # {} => Silenced(x) # {}
           /\ "lost" \in x => "unnoticed" \in Silenced(x)
BY DEF Silenced

LEMMA NewTabMoves ==
    ASSUME TabTypeOK, {Blank, Template} \subseteq stored, NEW u \in Tabs, NewTab(u), NEW t \in Tabs
    PROVE  Moves(t)
<1> DEFINE save == [path |-> FileOf[u], stamp |-> 0, content |-> Template]
           b == [tab[u] EXCEPT !.saving = TRUE]
<1>1. save \in SaveType /\ b \in TabType /\ save.content = Template /\ Template \in Contents
  <2>1. save \in SaveType /\ Template \in Contents
    BY TabsAssumption, Bounds DEF SaveType, Contents
  <2>2. tab[u] \in TabType
    BY DEF TabTypeOK
  <2>3. b \in TabType
    BY <2>2 DEF TabType
  <2> QED
    BY <2>1, <2>3
<1>2. /\ SaveFile(u, save, b, toServer) /\ UNCHANGED <<serving, toTab, timer, stored>>
      /\ slips' = [slips EXCEPT ![u] = Slips(u)]
      /\ text' = [text EXCEPT ![u] = Template]
  BY DEF NewTab, server
<1> HIDE DEF save, b
<1>3. CASE t = u
  <2>1. text'[t] = Template /\ slips'[t] = Slips(t)
    BY <1>2, <1>3 DEF TabTypeOK
  <2>2. /\ warnings'[t] = {save} \/ Pending(t, Template)' \/ "lost" \in Slips(t)
        /\ "lost" \in Slips(t) => saveTimeout'[t] # None /\ tab'[t].state # "saved"
    BY <1>1, <1>2, <1>3, SaveFileSends
  <2>3. Starts(t)
    BY <1>1, <2>1, <2>2 DEF Starts, Told
  <2>4. Timed(t)'
    BY <2>1, <2>2 DEF Timed
  <2> QED
    BY <2>3, <2>4 DEF Moves
<1>4. CASE t # u
  <2>1. Alike(t)
    BY <1>1, <1>2, <1>4, SaveFileSends DEF Alike
  <2>2. slips'[t] = slips[t] /\ text'[t] = text[t]
    BY <1>2, <1>4 DEF TabTypeOK
  <2>3. WillSave(t) => WillSave(t)'
    BY <1>2, <2>1, WillSaveStays DEF Alike
  <2> QED
    BY <2>1, <2>2, <2>3, AlikeMoves
<1> QED
  BY <1>3, <1>4

LEMMA EditMoves ==
    ASSUME TabTypeOK, NEW u \in Tabs, Edit(u), NEW t \in Tabs
    PROVE  Moves(t)
<1>1. /\ UNCHANGED <<tab, saveTimeout, warnings, readOnly, serving, toServer, toTab>>
      /\ timer' = [timer EXCEPT ![WindowOf[u]] = u] /\ WindowOf[u] \in Windows
      /\ text' = [text EXCEPT ![u] = version + 1]
  BY TabsAssumption DEF Edit, server
<1>2. \A c \in Contents : Pending(t, c) => Pending(t, c)'
  BY <1>1 DEF Pending
<1>3. CASE u = t
  <2>1. slips'[t] = slips[t] \ {"timer", "retry"}
    BY <1>3 DEF Edit
  <2>2. WillSave(t)'
    BY <1>1, <1>3 DEF WillSave, TabTypeOK
  <2>3. Told(t) => Told(t)'
    BY <1>1, <2>1 DEF Told
  <2>4. Timed(t) => Timed(t)'
    BY <1>1, <2>1 DEF Timed
  <2> QED
    BY <1>1, <1>2, <2>2, <2>3, <2>4 DEF Moves, Steady
<1>4. CASE u # t
  <2>0. PICK over \in BOOLEAN : over = Overtaken(t, u)
    BY DEF Overtaken
  <2>1. slips'[t] = slips[t] \cup IF over THEN {"timer"} ELSE {}
    BY <1>4, <2>0 DEF Edit
  <2>2. text'[t] = text[t]
    BY <1>1, <1>4 DEF TabTypeOK
  <2>3. Told(t) => Told(t)'
    BY <1>1, <2>1 DEF Told
  <2>4. Timed(t) => Timed(t)'
    BY <1>1, <2>1 DEF Timed
  <2>5. WillSave(t) => WillSave(t)' \/ slips'[t] # {}
    <3>1. CASE WindowOf[t] = WindowOf[u]
      <4>1. WillSave(t) => over \/ (tab[t].saving /\ tab[t].waiting)
        BY <1>4, <2>0, <3>1 DEF WillSave, Overtaken
      <4> QED
        BY <1>1, <2>1, <4>1 DEF WillSave
    <3>2. CASE WindowOf[t] # WindowOf[u]
      <4>1. WindowOf[t] \in Windows
        BY TabsAssumption
      <4>2. timer'[WindowOf[t]] = timer[WindowOf[t]]
        BY <1>1, <3>2, <4>1 DEF TabTypeOK
      <4> QED
        BY <1>1, <4>2 DEF WillSave
    <3> QED
      BY <3>1, <3>2
  <2> QED
    BY <1>1, <1>2, <2>1, <2>2, <2>3, <2>4, <2>5 DEF Moves, Steady
<1> QED
  BY <1>3, <1>4

LEMMA LateMoves ==
    ASSUME TabTypeOK, NEW u \in Tabs, SaveTakesTooLong(u), NEW t \in Tabs
    PROVE  Moves(t)
<1>1. /\ UNCHANGED <<text, timer, serving, toServer, toTab>> /\ tab[u] \in TabType
      /\ saveTimeout' = [saveTimeout EXCEPT ![u] = None]
  BY DEF SaveTakesTooLong, TabTypeOK, server
<1>2. \A c \in Contents : Pending(t, c) => Pending(t, c)'
  BY <1>1 DEF Pending
<1>3. CASE tab[u].state = "saved"
  <2>1. UNCHANGED <<tab, warnings, readOnly>> /\ slips' = [slips EXCEPT ![u] = Silenced(slips[u])]
    BY <1>3 DEF SaveTakesTooLong
  <2>2. slips'[t] = IF u = t THEN Silenced(slips[t]) ELSE slips[t]
    BY <2>1 DEF TabTypeOK
  <2>3. Told(t) => Told(t)'
    BY <2>1, <2>2, NotedStays DEF Told
  <2>4. Timed(t) => Timed(t)'
    BY <1>1, <2>1, <2>2, NotedStays DEF Timed, TabTypeOK
  <2>5. WillSave(t) => WillSave(t)'
    BY <1>1, <2>1, WillSaveStays
  <2>6. slips[t] # {} => slips'[t] # {}
    BY <2>2, NotedStays
  <2> QED
    BY <1>1, <1>2, <2>1, <2>3, <2>4, <2>5, <2>6 DEF Moves, Steady
<1>4. CASE tab[u].state # "saved"
  <2>1. /\ tab' = [tab EXCEPT ![u].state = "error"]
        /\ warnings' = [warnings EXCEPT ![u] = @ \cup {saveTimeout[u]}]
        /\ readOnly' = [readOnly EXCEPT ![u] = TRUE]
        /\ slips' = [slips EXCEPT ![u] = @ \ {"lost"}]
    BY <1>4 DEF SaveTakesTooLong
  <2>2. CASE u = t
    <3>1. tab'[t].saving = tab[t].saving /\ tab'[t].waiting = tab[t].waiting
      BY <1>1, <2>1, <2>2 DEF TabTypeOK, TabType
    <3>2. warnings'[t] = warnings[t] \cup {saveTimeout[t]}
      BY <2>1, <2>2 DEF TabTypeOK
    <3>3. warnings'[t] # {} /\ warnings[t] \subseteq warnings'[t]
      BY <3>2
    <3>4. slips'[t] = slips[t] \ {"lost"}
      BY <2>1, <2>2 DEF TabTypeOK
    <3>5. Told(t)' /\ Timed(t)'
      BY <3>3, <3>4 DEF Told, Timed
    <3>6. WillSave(t) => WillSave(t)'
      BY <1>1, <3>1, WillSaveStays
    <3> QED
      BY <1>1, <1>2, <3>1, <3>3, <3>5, <3>6 DEF Moves, Steady
  <2>3. CASE u # t
    <3>1. /\ tab'[t] = tab[t] /\ warnings'[t] = warnings[t] /\ readOnly'[t] = readOnly[t]
          /\ slips'[t] = slips[t] /\ saveTimeout'[t] = saveTimeout[t]
      BY <1>1, <2>1, <2>3 DEF TabTypeOK
    <3>2. Alike(t) /\ (WillSave(t) => WillSave(t)')
      BY <1>1, <1>2, <3>1, WillSaveStays DEF Alike
    <3> QED
      BY <1>1, <3>1, <3>2, AlikeMoves
  <2> QED
    BY <2>2, <2>3
<1> QED
  BY <1>3, <1>4

LEMMA ClickMoves ==
    ASSUME TabTypeOK, NEW u \in Tabs, ClickWarning(u), NEW t \in Tabs
    PROVE  Moves(t)
<1>1. PICK save \in warnings[u] :
          /\ SaveFile(u, save, tab[u], toServer)
          /\ slips' = [slips EXCEPT ![u] = Slips(u) \cup
                 IF save.content # text[u] /\ ~ WillSave(u) THEN {"retry"} ELSE {}]
  BY DEF ClickWarning
<1>2. /\ save \in SaveType /\ tab[u] \in TabType /\ save.content \in Contents
      /\ UNCHANGED <<text, timer, serving, toTab>>
  BY DEF TabTypeOK, ClickWarning, server, SaveType, Contents
<1>3. tab'[t].saving = tab[t].saving /\ tab'[t].waiting = tab[t].waiting
  BY <1>1, <1>2, SaveFileSends
<1>4. WillSave(t) => WillSave(t)'
  BY <1>2, <1>3, WillSaveStays
<1>5. CASE t = u
  <2>0. PICK older \in BOOLEAN : older <=> (save.content # text[t] /\ ~ WillSave(t))
    BY DEF WillSave
  <2>1. slips'[t] = Slips(t) \cup IF older THEN {"retry"} ELSE {}
    BY <1>1, <1>5, <2>0 DEF TabTypeOK
  <2>2. /\ warnings'[t] = {save} \/ Pending(t, save.content)' \/ "lost" \in Slips(t)
        /\ "lost" \in Slips(t) => saveTimeout'[t] # None /\ tab'[t].state # "saved"
    BY <1>1, <1>2, <1>5, SaveFileSends
  <2>3. Pending(t, save.content)' \/ Told(t)'
    BY <2>1, <2>2 DEF Told
  <2>4. save.content = text'[t] \/ WillSave(t)' \/ slips'[t] # {}
    BY <1>2, <1>4, <2>0, <2>1
  <2>5. Timed(t)'
    BY <2>1, <2>2 DEF Timed
  <2> QED
    BY <1>2, <2>3, <2>4, <2>5 DEF Moves, Starts
<1>6. CASE t # u
  <2>1. Alike(t)
    BY <1>1, <1>2, <1>6, SaveFileSends DEF Alike
  <2>2. slips'[t] = slips[t]
    BY <1>1, <1>6 DEF TabTypeOK
  <2> QED
    BY <1>2, <1>4, <2>1, <2>2, AlikeMoves
<1> QED
  BY <1>5, <1>6

LEMMA TimerMoves ==
    ASSUME TabTypeOK, NEW w \in Windows, TimerFires(w), NEW t \in Tabs
    PROVE  Moves(t)
<1>0. PICK u : u = timer[w]
  OBVIOUS
<1>1. u \in Tabs /\ SaveScript(u) /\ UNCHANGED <<text, serving, toTab>> /\ timer' = [timer EXCEPT ![w] = None]
  BY <1>0 DEF TabTypeOK, TimerFires, server
<1>2. u # t /\ timer[WindowOf[t]] = t => timer'[WindowOf[t]] = t
  BY <1>0, <1>1 DEF TabTypeOK
<1>9. tab[u] \in TabType
  BY <1>1 DEF TabTypeOK
<1>3. CASE tab[u].saving
  <2>1. tab' = [tab EXCEPT ![u].waiting = TRUE] /\ UNCHANGED <<warnings, readOnly, saveTimeout, toServer, slips>>
    BY <1>1, <1>3 DEF SaveScript
  <2>2. \A c \in Contents : Pending(t, c) => Pending(t, c)'
    BY <1>1, <2>1 DEF Pending
  <2>3. CASE u = t
    <3>1. tab'[t].saving /\ tab'[t].waiting /\ tab'[t].state = tab[t].state
      BY <1>1, <1>3, <1>9, <2>1, <2>3 DEF TabTypeOK, TabType
    <3>2. WillSave(t)'
      BY <3>1 DEF WillSave
    <3>3. Timed(t) => Timed(t)'
      BY <2>1, <3>1 DEF Timed
    <3> QED
      BY <1>3, <2>1, <2>2, <2>3, <3>1, <3>2, <3>3 DEF Moves, Steady, Told
  <2>4. CASE u # t
    <3>1. tab'[t] = tab[t]
      BY <1>1, <2>1, <2>4 DEF TabTypeOK
    <3>2. Alike(t) /\ (WillSave(t) => WillSave(t)')
      BY <1>2, <2>1, <2>2, <2>4, <3>1, WillSaveStays DEF Alike
    <3> QED
      BY <1>1, <2>1, <3>2, AlikeMoves
  <2> QED
    BY <2>3, <2>4
<1>4. CASE ~ tab[u].saving
  <2>1. PICK save : save = SaveOf(u)
    OBVIOUS
  <2>2. save \in SaveType /\ save.content = text[u] /\ save.content \in Contents
    BY <1>1, <2>1, SaveOfTyped DEF SaveOf, SaveType, Contents
  <2> DEFINE b == [tab[u] EXCEPT !.saving = TRUE, !.waiting = FALSE]
  <2>3. /\ SaveFile(u, save, b, toServer) /\ b \in TabType
        /\ slips' = [slips EXCEPT ![u] = Slips(u)]
    BY <1>1, <1>4, <1>9, <2>1 DEF SaveScript, TabType
  <2> HIDE DEF b
  <2>4. CASE u = t
    <3>1. /\ warnings'[t] = {save} \/ Pending(t, save.content)' \/ "lost" \in Slips(t)
          /\ "lost" \in Slips(t) => saveTimeout'[t] # None /\ tab'[t].state # "saved"
      BY <1>1, <2>2, <2>3, <2>4, SaveFileSends
    <3>2. slips'[t] = Slips(t) /\ save.content = text'[t]
      BY <1>1, <2>2, <2>3, <2>4 DEF TabTypeOK
    <3>3. Starts(t)
      BY <2>2, <3>1, <3>2 DEF Starts, Told
    <3>4. Timed(t)'
      BY <3>1, <3>2 DEF Timed
    <3> QED
      BY <3>3, <3>4 DEF Moves
  <2>5. CASE u # t
    <3>1. Alike(t)
      BY <1>1, <2>2, <2>3, <2>5, SaveFileSends DEF Alike
    <3>2. slips'[t] = slips[t] /\ (WillSave(t) => WillSave(t)')
      BY <1>2, <2>3, <2>5, <3>1, WillSaveStays DEF TabTypeOK, Alike
    <3> QED
      BY <1>1, <3>1, <3>2, AlikeMoves
  <2> QED
    BY <2>4, <2>5
<1> QED
  BY <1>3, <1>4

LEMMA ClosesMoves ==
    ASSUME TabTypeOK, NEW w \in Windows, SocketCloses(w), NEW t \in Tabs
    PROVE  Moves(t)
<1> DEFINE q == toServer[w]
           Lost(loss, n) ==
               \/ \E i \in n + 1 .. Len(q) : IsWrite(t, q[i])
               \/ /\ loss = "session"
                  /\ \/ serving[w] # None /\ IsWrite(t, serving[w].request)
                     \/ \E i \in 1 .. Len(toTab[w]) : IsWrite(t, toTab[w][i]) /\ toTab[w][i].kind # "done"
<1>1. PICK loss \in Losses, n \in 0 .. Len(q) :
          /\ toServer' = [toServer EXCEPT ![w] = SubSeq(@, 1, n)]
          /\ toTab' = IF loss = "session" THEN [toTab EXCEPT ![w] = <<>>] ELSE toTab
          /\ serving' = IF loss = "session" THEN [serving EXCEPT ![w] = None] ELSE serving
          /\ slips'[t] = IF Lost(loss, n) THEN SlipsWithout(t) ELSE slips[t]
  BY DEF SocketCloses
<1>2. UNCHANGED <<text, tab, saveTimeout, warnings, readOnly, timer>>
  BY DEF SocketCloses
<1>3. Lost(loss, n) => Told(t)'
  <2>1. ASSUME Lost(loss, n) PROVE slips'[t] = SlipsWithout(t)
    BY <1>1, <2>1
  <2> HIDE DEF Lost
  <2> QED
    BY <1>2, <2>1 DEF SlipsWithout, Told
<1>4. slips[t] \subseteq slips'[t]
  <2> HIDE DEF Lost
  <2> QED
    BY <1>1 DEF SlipsWithout
<1>5. Timed(t) => Timed(t)'
  <2>1. slips'[t] = slips[t] \/ slips'[t] = SlipsWithout(t)
    <3> HIDE DEF Lost
    <3> QED
      BY <1>1
  <2> QED
    BY <1>2, <2>1 DEF SlipsWithout, Timed
<1>6. ASSUME NEW c \in Contents, Pending(t, c), ~ Lost(loss, n)
      PROVE  Pending(t, c)'
  <2>1. CASE WindowOf[t] # w
    <3>1. WindowOf[t] \in Windows
      BY TabsAssumption
    <3>2. /\ toServer'[WindowOf[t]] = toServer[WindowOf[t]] /\ toTab'[WindowOf[t]] = toTab[WindowOf[t]]
          /\ serving'[WindowOf[t]] = serving[WindowOf[t]]
      BY <1>1, <2>1, <3>1 DEF TabTypeOK
    <3> QED
      BY <1>6, <3>2 DEF Pending
  <2>2. CASE WindowOf[t] = w
    <3>1. q \in Seq(RequestType) /\ toServer'[w] = SubSeq(q, 1, n)
      BY <1>1 DEF TabTypeOK
    <3>2. /\ Len(SubSeq(q, 1, n)) = n
          /\ \A i \in 1 .. n : SubSeq(q, 1, n)[i] = q[i]
      BY <3>1, PrefixAt
    <3>3. CASE \E r \in RangeOf(q) : Carries(r, t, c)
      <4>1. PICK i \in 1 .. Len(q) : Carries(q[i], t, c)
        BY <3>3 DEF RangeOf
      <4>2. IsWrite(t, q[i])
        BY <4>1 DEF Carries, IsWrite
      <4>3. Len(q) \in Nat /\ n \in Nat /\ n <= Len(q)
        BY <3>1
      <4>4. ~ (i \in n + 1 .. Len(q))
        BY <1>6, <4>2
      <4>5. i \in 1 .. n
        BY <4>3, <4>4
      <4>6. q[i] \in RangeOf(toServer'[w])
        BY <3>1, <3>2, <4>5 DEF RangeOf
      <4> QED
        BY <2>2, <4>1, <4>6 DEF Pending
    <3>4. CASE serving[w] # None /\ Carries(serving[w].request, t, c)
      <4>1. IsWrite(t, serving[w].request)
        BY <3>4 DEF Carries, IsWrite
      <4>2. loss # "session"
        BY <1>6, <3>4, <4>1
      <4>3. serving' = serving
        BY <1>1, <4>2
      <4> QED
        BY <2>2, <3>4, <4>3 DEF Pending
    <3>5. CASE \E a \in RangeOf(toTab[w]) : Carries(a, t, c) /\ a.kind # "done"
      <4>1. PICK i \in 1 .. Len(toTab[w]) : Carries(toTab[w][i], t, c) /\ toTab[w][i].kind # "done"
        BY <3>5 DEF RangeOf
      <4>2. IsWrite(t, toTab[w][i])
        BY <4>1 DEF Carries, IsWrite
      <4>3. loss # "session"
        BY <1>6, <4>1, <4>2
      <4>4. toTab' = toTab
        BY <1>1, <4>3
      <4> QED
        BY <2>2, <3>5, <4>4 DEF Pending
    <3> QED
      BY <1>6, <2>2, <3>3, <3>4, <3>5 DEF Pending
  <2> QED
    BY <2>1, <2>2
<1>7. WillSave(t) => WillSave(t)'
  BY <1>2 DEF WillSave
<1>8. Told(t) => Told(t)'
  BY <1>2, <1>4 DEF Told
<1> HIDE DEF Lost
<1> QED
  BY <1>2, <1>3, <1>4, <1>5, <1>6, <1>7, <1>8 DEF Moves, Steady

LEMMA ReceiveMoves ==
    ASSUME TabTypeOK, StoredIsRead, NEW w \in Windows, Receive(w), NEW t \in Tabs
    PROVE  Moves(t)
<1> DEFINE a == Head(toTab[w])
<1>1. a \in AnswerType /\ a \in RangeOf(toTab[w])
  BY AnswerLeaves DEF Receive
<1>2. a.tab \in Tabs /\ a.stamp \in Seconds /\ (a.op = "write" => a.save \in SaveType)
  BY <1>1, AnswerKinds
<1>3. /\ ReceiveOfSave(a) \/ ReceiveOfRead(a) \/ ReceiveOfMove(a) \/ ReceiveOnly(a)
      /\ UNCHANGED <<serving, timer, stored>>
  BY DEF Receive, server
<1>4. ASSUME NEW c \in Contents, Pending(t, c),
             ~ (a.op = "write" /\ a.tab = t /\ a.kind # "done" /\ a.save.content = c)
      PROVE  Pending(t, c)'
  BY <1>4, ReceivedOthersPending DEF Carries
<1>5. a.kind = "data" => /\ a.op = "write" => a.save.content \in stored
                         /\ a.op = "read" => a.content \in stored \cup {Mixed}
  BY <1>1 DEF StoredIsRead
<1> HIDE DEF a
<1>6. ASSUME a.tab # t, /\ tab'[t] = tab[t] /\ warnings'[t] = warnings[t] /\ readOnly'[t] = readOnly[t]
                        /\ slips'[t] = slips[t] /\ saveTimeout'[t] = saveTimeout[t] /\ text'[t] = text[t]
      PROVE  Moves(t)
  <2>1. Alike(t) /\ (WillSave(t) => WillSave(t)')
    BY <1>3, <1>4, <1>6, WillSaveStays DEF Alike
  <2> QED
    BY <1>6, <2>1, AlikeMoves
<1>7. CASE ReceiveOfSave(a) /\ a.kind = "data"
  <2>1. Saved(a.tab, a.stamp) /\ UNCHANGED text /\ a.op = "write"
    BY <1>7 DEF ReceiveOfSave
  <2>2. CASE a.tab # t
    <3>1. /\ tab'[t] = tab[t] /\ warnings'[t] = warnings[t] /\ readOnly'[t] = readOnly[t]
          /\ slips'[t] = slips[t] /\ saveTimeout'[t] = saveTimeout[t]
      BY ZenonT(40), <1>2, <2>1, <2>2, SavedCases
    <3> QED
      BY <1>6, <2>1, <2>2, <3>1
  <2>3. CASE a.tab = t
    <3> DEFINE next == [path |-> tab[t].path, stamp |-> a.stamp, content |-> text[t]]
               r == [op |-> "write", tab |-> t, save |-> next]
    <3>1. /\ r \in RequestType /\ ~ readOnly'[t] /\ tab'[t].saving = tab[t].waiting
          /\ tab'[t].state = "saved" /\ tab[t].waiting \in BOOLEAN
          /\ slips'[t] = Silenced(IF tab[t].waiting THEN Slips(t) ELSE slips[t])
          /\ \/ /\ ~ tab[t].waiting /\ ~ tab'[t].saving
                /\ warnings'[t] = warnings[t] /\ UNCHANGED toServer
             \/ tab[t].waiting /\ warnings'[t] = {next} /\ UNCHANGED toServer
             \/ tab[t].waiting /\ toServer' = [toServer EXCEPT ![WindowOf[t]] = Append(@, r)]
             \/ tab[t].waiting /\ "lost" \in Slips(t) /\ UNCHANGED toServer
      BY <1>2, <2>1, <2>3, SavedCases
    <3>2. Carries(r, t, text[t]) /\ text[t] \in Contents
      BY DEF Carries, TabTypeOK, Contents
    <3> HIDE DEF r, next
    <3>3. Timed(t)'
      BY <3>1, NotedStays DEF Timed
    <3>4. CASE ~ tab[t].waiting
      <4>1. slips[t] # {} => slips'[t] # {}
        BY <3>1, <3>4, NotedStays
      <4>2. \A c \in Contents \ stored : Pending(t, c) => Pending(t, c)'
        BY <1>4, <1>5, <1>7, <2>1
      <4>3. Ends(t)
        BY <1>3, <2>1, <3>1, <3>4, <4>1, <4>2 DEF Ends
      <4> QED
        BY <3>3, <4>3 DEF Moves
    <3>5. CASE tab[t].waiting
      <4>1. Told(t)' \/ Pending(t, text[t])'
        <5>1. CASE warnings'[t] = {next}
          BY <5>1 DEF Told
        <5>2. CASE toServer' = [toServer EXCEPT ![WindowOf[t]] = Append(@, r)]
          <6>1. WindowOf[t] \in Windows
            BY TabsAssumption
          <6>2. /\ toServer[WindowOf[t]] \in Seq(RequestType)
                /\ toServer'[WindowOf[t]] = Append(toServer[WindowOf[t]], r)
            BY <5>2, <6>1 DEF TabTypeOK
          <6>3. r \in RangeOf(toServer'[WindowOf[t]])
            BY <3>1, <6>2, RangeAppend
          <6> QED
            BY <2>1, <3>2, <6>3 DEF Pending
        <5>3. CASE "lost" \in Slips(t)
          BY <3>1, <3>5, <5>3, NotedStays DEF Told
        <5> QED
          BY <3>1, <3>5, <5>1, <5>2, <5>3
      <4>2. Starts(t)
        BY <2>1, <3>2, <4>1 DEF Starts
      <4> QED
        BY <3>3, <4>2 DEF Moves
    <3> QED
      BY <3>4, <3>5
  <2> QED
    BY <2>2, <2>3
<1>8. CASE ReceiveOfSave(a) /\ a.kind = "done"
  <2>1. SaveDone(a.tab) /\ UNCHANGED text
    BY <1>8 DEF ReceiveOfSave
  <2>2. CASE a.tab = t
    <3>1. /\ tab'[t].saving = tab[t].saving /\ tab'[t].waiting = tab[t].waiting /\ ~ readOnly'[t]
          /\ warnings'[t] = warnings[t] /\ slips'[t] = Silenced(slips[t])
      BY <2>1, <2>2 DEF SaveDone, TabTypeOK, TabType
    <3>2. Timed(t)'
      BY <3>1, NotedStays DEF Timed
    <3>3. (Told(t) => Told(t)') /\ (slips[t] # {} => slips'[t] # {})
      BY <3>1, NotedStays DEF Told
    <3>4. WillSave(t) => WillSave(t)'
      BY <1>3, <3>1, WillSaveStays
    <3> QED
      BY <1>4, <1>8, <2>1, <3>1, <3>2, <3>3, <3>4 DEF Moves, Steady
  <2>3. CASE a.tab # t
    <3>1. /\ tab'[t] = tab[t] /\ warnings'[t] = warnings[t] /\ readOnly'[t] = readOnly[t]
          /\ slips'[t] = slips[t] /\ saveTimeout'[t] = saveTimeout[t]
      BY <1>2, <2>1, <2>3 DEF SaveDone, TabTypeOK
    <3> QED
      BY <1>6, <2>1, <2>3, <3>1
  <2> QED
    BY <2>2, <2>3
<1>9. CASE ReceiveOfSave(a) /\ a.kind = "error"
  <2>1. SaveFails(a.tab, a.save) /\ UNCHANGED text /\ a.op = "write"
    BY <1>9 DEF ReceiveOfSave
  <2>2. CASE a.tab = t
    <3>1. /\ tab'[t].saving = tab[t].saving /\ tab'[t].waiting = tab[t].waiting
          /\ warnings'[t] = warnings[t] \cup {a.save} /\ slips'[t] = slips[t] \ {"lost"}
      BY <2>1, <2>2 DEF SaveFails, TabTypeOK, TabType
    <3>2. warnings'[t] # {} /\ warnings[t] \subseteq warnings'[t]
      BY <3>1
    <3>3. Timed(t)' /\ Told(t)'
      BY <3>1, <3>2 DEF Timed, Told
    <3>4. WillSave(t) => WillSave(t)'
      BY <1>3, <3>1, WillSaveStays
    <3> QED
      BY <2>1, <3>1, <3>2, <3>3, <3>4 DEF Moves, Steady
  <2>3. CASE a.tab # t
    <3>1. /\ tab'[t] = tab[t] /\ warnings'[t] = warnings[t] /\ readOnly'[t] = readOnly[t]
          /\ slips'[t] = slips[t] /\ saveTimeout'[t] = saveTimeout[t]
      BY <1>2, <2>1, <2>3 DEF SaveFails, TabTypeOK
    <3> QED
      BY <1>6, <2>1, <2>3, <3>1
  <2> QED
    BY <2>2, <2>3
<1>10. CASE ReceiveOfRead(a) \/ ReceiveOfMove(a) \/ ReceiveOnly(a)
  <2>1. a.op # "write" \/ a.kind = "done"
    BY <1>10 DEF ReceiveOfRead, ReceiveOfMove, ReceiveOnly
  <2>2. UNCHANGED <<warnings, readOnly, saveTimeout, slips>>
    BY <1>10 DEF ReceiveOfRead, ReceiveOfMove, ReceiveOnly
  <2>3. tab'[t].saving = tab[t].saving /\ tab'[t].waiting = tab[t].waiting /\ tab'[t].state = tab[t].state
    <3>1. tab[t] \in TabType /\ tab[a.tab] \in TabType
      BY <1>2 DEF TabTypeOK
    <3>2. CASE a.tab # t \/ UNCHANGED tab
      BY <1>2, <1>10, <3>2 DEF ReceiveOfRead, ReceiveOfMove, ReceiveOnly, TabTypeOK
    <3>3. CASE a.tab = t /\ tab' = [tab EXCEPT ![t].stamp = a.stamp]
      BY <3>1, <3>3 DEF TabTypeOK, TabType
    <3>4. CASE a.tab = t /\ tab' = [tab EXCEPT ![t].stamp = a.stamp, ![t].path = tab[t].name]
      BY <3>1, <3>4 DEF TabTypeOK, TabType
    <3> QED
      BY <1>10, <3>2, <3>3, <3>4 DEF ReceiveOfRead, ReceiveOfMove, ReceiveOnly
  <2>4. text'[t] = text[t] \/ text'[t] \in stored \cup {Mixed}
    BY <1>2, <1>5, <1>10 DEF ReceiveOfRead, ReceiveOfMove, ReceiveOnly, TabTypeOK
  <2>5. WillSave(t) => WillSave(t)'
    BY <1>3, <2>3, WillSaveStays
  <2>6. \A c \in Contents : Pending(t, c) => Pending(t, c)'
    BY <1>4, <2>1
  <2>7. (Timed(t) => Timed(t)') /\ (Told(t) => Told(t)')
    BY <2>2, <2>3 DEF Timed, Told
  <2> QED
    BY <2>2, <2>3, <2>4, <2>5, <2>6, <2>7 DEF Moves, Steady
<1> QED
  BY <1>1, <1>3, <1>7, <1>8, <1>9, <1>10, AnswerKinds

LEMMA TabMoves ==
    ASSUME TabTypeOK, StoredIsRead, TabNext, NEW t \in Tabs
    PROVE  Moves(t)
<1>1. ASSUME NEW u \in Tabs, LoadTab(u) \/ CloseTab(u) PROVE Moves(t)
  <2>1. UNCHANGED <<text, tab, saveTimeout, warnings, readOnly, timer, serving, toTab, slips>>
    BY <1>1 DEF LoadTab, CloseTab, server
  <2>2. /\ [op |-> "read", tab |-> u, path |-> tab[u].path] \in RequestType
        /\ [op |-> "close", tab |-> u, path |-> tab[u].path] \in RequestType
    BY DEF TabTypeOK, TabType, RequestType
  <2>3. \A c \in Contents : Pending(t, c) => Pending(t, c)'
    BY <1>1, <2>1, <2>2, RequestSends DEF LoadTab, CloseTab
  <2>4. Alike(t) /\ (WillSave(t) => WillSave(t)')
    BY <2>1, <2>3 DEF Alike, WillSave
  <2> QED
    BY <2>1, <2>4, AlikeMoves
<1>2. ASSUME NEW u \in Tabs, NEW to \in Names, Rename(u, to) PROVE Moves(t)
  <2>1. UNCHANGED <<text, saveTimeout, warnings, readOnly, timer, serving, toTab, slips>>
    BY <1>2 DEF Rename, server
  <2>2. [op |-> "rename", tab |-> u, path |-> tab[u].path, to |-> to] \in RequestType
    BY DEF TabTypeOK, TabType, RequestType
  <2>3. \A c \in Contents : Pending(t, c) => Pending(t, c)'
    BY <1>2, <2>1, <2>2, RequestSends DEF Rename
  <2>4. tab'[t].saving = tab[t].saving /\ tab'[t].waiting = tab[t].waiting /\ tab'[t].state = tab[t].state
    BY <1>2 DEF Rename, TabTypeOK, TabType
  <2>5. Alike(t) /\ (WillSave(t) => WillSave(t)')
    BY <2>1, <2>3, <2>4, WillSaveStays DEF Alike
  <2> QED
    BY <2>1, <2>5, AlikeMoves
<1>3. ASSUME UNCHANGED <<browser, slips>>, \A c \in Contents : Pending(t, c) => Pending(t, c)' PROVE Moves(t)
  <2>1. Alike(t) /\ (WillSave(t) => WillSave(t)')
    BY <1>3 DEF Alike, WillSave, browser
  <2> QED
    BY <1>3, <2>1, AlikeMoves DEF browser
<1>4. ASSUME NEW w \in Windows, ServerStarts(w) \/ ServerFinishes(w) PROVE Moves(t)
  BY <1>3, <1>4, StartedIsPending, FinishedIsPending DEF ServerStarts, ServerFinishes
<1>5. ASSUME NEW w \in Windows, SocketOpens(w) PROVE Moves(t)
  <2>1. UNCHANGED <<text, tab, saveTimeout, warnings, readOnly, timer, serving, toServer, toTab, slips>>
    BY <1>5 DEF SocketOpens, server
  <2>2. Alike(t) /\ (WillSave(t) => WillSave(t)')
    BY <2>1 DEF Alike, WillSave, Pending
  <2> QED
    BY <2>1, <2>2, AlikeMoves
<1>6. CASE Tick
  BY <1>3, <1>6 DEF Tick, server, Pending
<1>7. {Blank, Template} \subseteq stored
  BY DEF StoredIsRead
<1> QED
  BY <1>1, <1>2, <1>4, <1>5, <1>6, <1>7, NewTabMoves, EditMoves, LateMoves, ClickMoves, TimerMoves,
     ClosesMoves, ReceiveMoves DEF TabNext

-----------------------------------------------------------------------------
(* A tab that saves, or that is locked, has a way out.                     *)

HasAWayOut(t) == tab[t].saving \/ readOnly[t] => Told(t) \/ \E c \in Contents : Pending(t, c)

\* A text that no file has ever had will be saved or is on its way, or what went
\* wrong is known.
Held(t, c) == WillSave(t) \/ Pending(t, c) \/ warnings[t] # {} \/ slips[t] # {}

TabInv ==
    /\ TabTypeOK
    /\ StoredIsRead
    /\ \A t \in Tabs : /\ Timed(t)
                       /\ HasAWayOut(t)
                       /\ text[t] \in Versions \ stored => Held(t, text[t])

LEMMA WayOutStep ==
    ASSUME NEW t \in Tabs, Moves(t), HasAWayOut(t)
    PROVE  HasAWayOut(t)'
<1>1. CASE Steady(t)
  <2>1. /\ tab'[t].saving = tab[t].saving
        /\ readOnly'[t] => readOnly[t] \/ warnings'[t] # {}
        /\ Told(t) => Told(t)'
        /\ \A c \in Contents : Pending(t, c) => Pending(t, c)' \/ Told(t)'
    BY <1>1 DEF Steady
  <2>2. warnings'[t] # {} => Told(t)'
    BY DEF Told
  <2> QED
    BY <2>1, <2>2 DEF HasAWayOut
<1>2. CASE Starts(t)
  <2>1. Told(t)' \/ \E c \in Contents : Pending(t, c)'
    BY <1>2 DEF Starts
  <2> QED
    BY <2>1 DEF HasAWayOut
<1>3. CASE Ends(t)
  <2>1. ~ tab'[t].saving /\ ~ readOnly'[t]
    BY <1>3 DEF Ends
  <2> QED
    BY <2>1 DEF HasAWayOut
<1> QED
  BY <1>1, <1>2, <1>3 DEF Moves

LEMMA HeldStep ==
    ASSUME NEW t \in Tabs, Moves(t), stored \subseteq stored', text'[t] \in Versions \ stored',
           text[t] \in Versions \ stored => Held(t, text[t])
    PROVE  Held(t, text[t])'
<1>1. text'[t] \in Versions \ stored /\ text'[t] \in Contents \ stored /\ text'[t] \notin stored \cup {Mixed}
  BY Bounds DEF Contents
<1>2. CASE Steady(t)
  <2>1. CASE WillSave(t)'
    BY <2>1 DEF Held
  <2>2. CASE ~ WillSave(t)'
    <3>1. /\ text'[t] = text[t] /\ (WillSave(t) => slips'[t] # {})
          /\ slips[t] # {} => slips'[t] # {} \/ warnings'[t] # {}
          /\ warnings[t] \subseteq warnings'[t]
          /\ Pending(t, text[t]) => Pending(t, text[t])' \/ Told(t)'
      BY <1>1, <1>2, <2>2 DEF Steady
    <3>2. Told(t)' => Held(t, text[t])'
      BY DEF Told, Held
    <3>3. Held(t, text[t])
      BY <1>1, <3>1
    <3> QED
      BY <3>1, <3>2, <3>3 DEF Held
  <2> QED
    BY <2>1, <2>2
<1>3. CASE Starts(t)
  <2>1. PICK c \in Contents : /\ Pending(t, c)' \/ Told(t)'
                              /\ c = text'[t] \/ WillSave(t)' \/ slips'[t] # {} \/ text'[t] \in stored
    BY <1>3 DEF Starts
  <2> QED
    BY <1>1, <2>1 DEF Held, Told
<1>4. CASE Ends(t)
  <2>1. /\ ~ tab[t].waiting /\ UNCHANGED timer /\ text'[t] = text[t] /\ warnings'[t] = warnings[t]
        /\ slips[t] # {} => slips'[t] # {}
        /\ Pending(t, text[t]) => Pending(t, text[t])'
    BY <1>1, <1>4 DEF Ends
  <2> QED
    BY <1>1, <2>1 DEF Held, WillSave
<1> QED
  BY <1>2, <1>3, <1>4 DEF Moves

LEMMA TabInvAlways == TabSpec => []TabInv
<1>1. TabInit => TabInv
  <2> SUFFICES ASSUME TabInit PROVE TabInv
    OBVIOUS
  <2>1. \A t \in Tabs : /\ slips[t] = {} /\ ~ tab[t].saving /\ ~ readOnly[t]
                        /\ text[t] \in stored
    BY DEF TabInit
  <2> QED
    BY <2>1, InitTyped, StoredAtStart DEF TabInv, Timed, HasAWayOut
<1>2. TabInv /\ [TabNext]_tvars => TabInv'
  <2> SUFFICES ASSUME TabInv, [TabNext]_tvars PROVE TabInv'
    OBVIOUS
  <2>1. TabTypeOK /\ StoredIsRead
    BY DEF TabInv
  <2>2. TabTypeOK' /\ StoredIsRead' /\ stored \subseteq stored'
    BY <2>1, StepTyped, StoredStep
  <2>3. ASSUME TabNext, NEW t \in Tabs
        PROVE  (Timed(t) /\ HasAWayOut(t) /\ (text[t] \in Versions \ stored => Held(t, text[t])))'
    <3>1. Moves(t)
      BY <2>1, <2>3, TabMoves
    <3>2. Timed(t) /\ HasAWayOut(t) /\ (text[t] \in Versions \ stored => Held(t, text[t]))
      BY DEF TabInv
    <3>3. Timed(t)'
      BY <3>1, <3>2 DEF Moves
    <3> QED
      BY <2>2, <3>1, <3>2, <3>3, WayOutStep, HeldStep
  <2>4. CASE TabNext
    BY <2>2, <2>3, <2>4 DEF TabInv
  <2>5. CASE UNCHANGED tvars
    BY <2>2, <2>5 DEF TabInv, tvars, browser, server, Timed, HasAWayOut, Told, Held, Pending, WillSave
  <2> QED
    BY <2>4, <2>5
<1> QED
  BY <1>1, <1>2, PTL DEF TabSpec

\* What is pending is under way.
LEMMA PendingIsUnderWay ==
    ASSUME NEW t \in Tabs, NEW c, Pending(t, c)
    PROVE  \E save \in UnderWay(t) : save.content = c
<1> DEFINE w == WindowOf[t]
<1>1. CASE \E r \in RangeOf(toServer[w]) : Carries(r, t, c)
  <2>1. PICK r \in RangeOf(toServer[w]) : Carries(r, t, c)
    BY <1>1
  <2>2. r.save \in UnderWay(t)
    BY <2>1 DEF UnderWay, Carries, IsWrite
  <2> QED
    BY <2>1, <2>2 DEF Carries
<1>2. CASE serving[w] # None /\ Carries(serving[w].request, t, c)
  <2>1. serving[w].request.save \in UnderWay(t)
    BY <1>2 DEF UnderWay, Carries, IsWrite
  <2> QED
    BY <1>2, <2>1 DEF Carries
<1>3. CASE \E a \in RangeOf(toTab[w]) : Carries(a, t, c) /\ a.kind # "done"
  <2>1. PICK a \in RangeOf(toTab[w]) : Carries(a, t, c) /\ a.kind # "done"
    BY <1>3
  <2>2. a.save \in UnderWay(t)
    BY <2>1 DEF UnderWay, Carries, IsWrite
  <2> QED
    BY <2>1, <2>2 DEF Carries
<1> QED
  BY <1>1, <1>2, <1>3 DEF Pending

\* A tab that saves or that is locked has a WRITE or its answer under way, a
\* warning to click, or 30 seconds that end in one, whatever is lost with the
\* websockets, unless the answer of an earlier save ended the 30 seconds of a
\* lost WRITE: every path through saveFile, its callbacks and its timeout leaves
\* a way out.
THEOREM LockedHasAWayOutAlways == TabSpec => []LockedHasAWayOut
<1>1. TabInv => LockedHasAWayOut
  <2> SUFFICES ASSUME TabInv, NEW t \in Tabs, Locked(t) PROVE "unnoticed" \in slips[t]
    BY DEF LockedHasAWayOut
  <2>1. HasAWayOut(t) /\ Timed(t)
    BY DEF TabInv
  <2>2. \A c \in Contents : ~ Pending(t, c)
    BY PendingIsUnderWay DEF Locked
  <2>3. Told(t) /\ warnings[t] = {} /\ ~ WillBeTold(t)
    BY <2>1, <2>2 DEF HasAWayOut, Locked
  <2> QED
    BY <2>1, <2>3 DEF Told, Timed, WillBeTold
<1> QED
  BY <1>1, TabInvAlways, PTL

\* A change that no file has ever had is forgotten only when its WRITE was lost
\* after its 30 seconds had been ended, another tab took the timer, or a warning
\* of an older text was clicked: through every order of changes, saves, late
\* answers, errors, renames, retries and lost frames and sessions, with any
\* number of tabs in a window.
THEOREM UnsavedIsUnderWayAlways == TabSpec => []UnsavedIsUnderWay
<1>1. TabInv => UnsavedIsUnderWay
  <2> SUFFICES ASSUME TabInv, NEW t \in Tabs, Forgotten(t)
               PROVE  slips[t] \cap {"unnoticed", "timer", "retry"} # {}
    BY DEF UnsavedIsUnderWay
  <2>1. /\ text[t] \in Versions \ stored /\ ~ WillSave(t) /\ warnings[t] = {} /\ ~ WillBeTold(t)
        /\ \A save \in UnderWay(t) : save.content # text[t]
    BY DEF Forgotten
  <2>2. ~ Pending(t, text[t])
    BY <2>1, PendingIsUnderWay
  <2>3. slips[t] # {} /\ Timed(t) /\ slips[t] \in SUBSET Kinds
    BY <2>1, <2>2, SlipsTyped DEF TabInv, Held
  <2> QED
    BY <2>1, <2>3 DEF Timed, WillBeTold, Kinds
<1> QED
  BY <1>1, TabInvAlways, PTL
=============================================================================
