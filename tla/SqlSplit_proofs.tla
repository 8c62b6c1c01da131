--------------------------- MODULE SqlSplit_proofs ---------------------------
(***************************************************************************)
(* For every alphabet and every set of texts: the splitter keeps its types *)
(* and loses, repeats and reorders nothing of the text it splits; and if   *)
(* the text is regular, it splits it as the notes say.                     *)
(*                                                                         *)
(* An action of the scan is a condition on the text and Moves(n): all that *)
(* the types and the tiling need of the dozen kinds of tokens is how Moves *)
(* works and that n is a number.  The splits need each of them: the scan,  *)
(* and later the trim, is always where the lexer of the notes is, or       *)
(* before the last character of its token, and has cut where it has.       *)
(***************************************************************************)
EXTENDS SqlSplit, Lists_proofs

\* What the memory of the scan may become.
Memory == qs' \in Modes /\ escapes' \in BOOLEAN /\ parens' \in Nat /\ tag' \in Seq(Chars)

\* A part of the text is a sequence of characters.
LEMMA PartOfText ==
    ASSUME SplitTypeOK, NEW m \in Nat, NEW n \in Nat, n <= Len(text)
    PROVE  SubSeq(text, m + 1, n) \in Seq(Chars)
<1>1. text \in Seq(Chars)
  BY DEF SplitTypeOK
<1>2. \A i \in m + 1 .. n : i \in 1 .. Len(text)
  BY <1>1
<1>3. \A i \in m + 1 .. n : text[i] \in Chars
  BY <1>1, <1>2
<1> QED
  BY <1>1, <1>2, <1>3

\* A dollar tag is one, too.
LEMMA TagIsText ==
    ASSUME SplitTypeOK, NEW t \in Tags(ptr)
    PROVE  t \in Seq(Chars) /\ Len(t) \in Nat
<1>1. PICK m \in ptr + 1 .. Len(text) - 1 : t = SubSeq(text, ptr + 1, m + 1)
  BY DEF Tags
<1>2. ptr \in Nat /\ m + 1 \in Nat /\ m + 1 <= Len(text)
  BY <1>1 DEF SplitTypeOK
<1> QED
  BY SMTT(30), <1>1, <1>2, PartOfText

\* Every action of the scan but the semicolon takes characters and counts them.
LEMMA ScanMoves ==
    ASSUME SplitTypeOK, Scan
    PROVE  \/ Scans /\ Memory /\ \E n \in Nat : Moves(n)
           \/ Semicolon
<1> USE DEF SplitTypeOK, Modes, Memory, Quotes
<1>1. ASSUME OpenBlock \/ CloseBlock \/ OpenLine \/ CloseLine PROVE Memory /\ Scans /\ Moves(1)
  BY <1>1 DEF OpenBlock, CloseBlock, OpenLine, CloseLine
<1>2. ASSUME OpenSingle \/ CloseSingle \/ OpenDouble \/ CloseDouble PROVE Memory /\ Scans /\ Moves(1)
  BY <1>2 DEF OpenSingle, CloseSingle, OpenDouble, CloseDouble
<1>3. ASSUME Slash PROVE Memory /\ Scans /\ Moves(2)
  BY <1>3 DEF Slash
<1>4. ASSUME Parenthesis \/ Other PROVE Memory /\ Scans /\ Moves(1)
  BY <1>4 DEF Parenthesis, Other
<1>5. ASSUME OpenTag PROVE Memory /\ Scans /\ \E n \in Nat : Moves(n)
  <2>1. PICK t \in Tags(ptr) : tag' = t /\ qs' = "tag" /\ Moves(Len(t) + 1)
    BY <1>5 DEF OpenTag
  <2>2. t \in Seq(Chars) /\ Len(t) + 1 \in Nat
    BY TagIsText
  <2> QED
    BY <1>5, <2>1, <2>2 DEF OpenTag
<1>6. ASSUME CloseTag PROVE Memory /\ Scans /\ \E n \in Nat : Moves(n)
  <2>1. Len(tag) \in Nat
    OBVIOUS
  <2> QED
    BY <1>6, <2>1 DEF CloseTag
<1> QED
  BY <1>1, <1>2, <1>3, <1>4, <1>5, <1>6 DEF Scan

\* A query that begins where the copied part ends.
LEMMA NextQuery ==
    ASSUME list \in Seq(Query), Contiguous, NEW n \in Nat \ {0},
           list' = Append(list, [from |-> Copied, len |-> n])
    PROVE  /\ list' \in Seq(Query) /\ list' # <<>>
           /\ Contiguous'
           /\ Copied' = Copied + n
<1>1. Copied \in Nat
  <2>1. list # <<>> => list[Len(list)] \in Query
    OBVIOUS
  <2> QED
    BY <2>1 DEF Copied, Query
<1>2. [from |-> Copied, len |-> n] \in Query
  BY <1>1 DEF Query
<1>3. list' \in Seq(Query) /\ list' # <<>> /\ Len(list') = Len(list) + 1
  BY <1>2
<1>4. list'[Len(list')] = [from |-> Copied, len |-> n]
  BY <1>2
<1>5. \A k \in 1 .. Len(list) : list'[k] = list[k]
  BY <1>2
<1>6. Copied' = Copied + n
  BY <1>3, <1>4 DEF Copied
<1>7. Contiguous'
  <2> SUFFICES ASSUME NEW k \in 1 .. Len(list')
               PROVE  /\ list'[k].from = IF k = 1 THEN 0 ELSE list'[k - 1].from + list'[k - 1].len
                      /\ list'[k].len > 0
    BY DEF Contiguous
  <2>1. CASE k \in 1 .. Len(list)
    <3>1. k # 1 => k - 1 \in 1 .. Len(list)
      BY <2>1
    <3> QED
      BY <2>1, <3>1, <1>5 DEF Contiguous
  <2>2. CASE k = Len(list')
    <3>1. k = 1 <=> list = <<>>
      BY <2>2, <1>3
    <3>2. k # 1 => k - 1 = Len(list) /\ k - 1 \in 1 .. Len(list)
      BY <2>2, <1>3
    <3> QED
      BY <2>2, <3>1, <3>2, <1>4, <1>5 DEF Copied
  <2> QED
    BY <2>1, <2>2, <1>3
<1> QED
  BY <1>3, <1>6, <1>7

\* The types and the tiling need each other: the trim looks at a last query.
SplitInv == SplitTypeOK /\ QueriesTileTheText

LEMMA MovesKeepsInv ==
    ASSUME SplitInv, Scans, Memory, NEW n \in Nat, Moves(n)
    PROVE  SplitInv'
<1>1. SplitTypeOK'
  BY DEF SplitInv, SplitTypeOK, Memory, Moves, Takes
<1>2. Contiguous' = Contiguous /\ Copied' = Copied
  BY DEF Moves, Contiguous, Copied
<1>3. /\ Contiguous /\ start = Copied /\ Len(text) \in Nat
      /\ start + element = ptr /\ ptr + rest = Len(text) /\ phase = "scan"
      /\ start \in Nat /\ element \in Nat /\ ptr \in Nat /\ rest \in Int
  BY DEF SplitInv, SplitTypeOK, QueriesTileTheText, Scans
<1>4. /\ text' = text /\ start' = start /\ element' = element + n /\ ptr' = ptr + n
      /\ rest' = rest - n /\ phase' \in {"scan", "over"}
  BY <1>3 DEF Moves, Takes
<1>5. start' + element' = ptr' /\ ptr' + rest' = Len(text')
  BY <1>3, <1>4
<1>6. QueriesTileTheText'
  BY <1>2, <1>3, <1>4, <1>5 DEF QueriesTileTheText
<1> QED
  BY <1>1, <1>6 DEF SplitInv

LEMMA SemicolonKeepsInv ==
    ASSUME SplitInv, Semicolon
    PROVE  SplitInv'
<1>1. /\ list \in Seq(Query) /\ element \in Nat /\ ptr \in Nat /\ rest \in Int
      /\ start \in Nat /\ Len(text) \in Nat
  BY DEF SplitInv, SplitTypeOK
<1>2. /\ Contiguous /\ phase = "scan"
      /\ start = Copied /\ start + element = ptr /\ ptr + rest = Len(text)
  BY DEF SplitInv, QueriesTileTheText, Semicolon, Scans
<1>3. list' \in Seq(Query) /\ Contiguous' /\ Copied' = Copied + (element + 1)
  <2>1. list' = Append(list, [from |-> Copied, len |-> element + 1])
    BY <1>2 DEF Semicolon
  <2>2. element + 1 \in Nat \ {0}
    BY <1>1
  <2> QED
    BY <1>1, <1>2, <2>1, <2>2, NextQuery
<1>4. /\ text' = text /\ start' = ptr + 1 /\ element' = 0 /\ ptr' = ptr + 1
      /\ rest' = rest - 1 /\ phase' \in {"scan", "over"}
      /\ UNCHANGED <<qs, escapes, parens, tag>>
  BY <1>2 DEF Semicolon, Takes
<1>5. SplitTypeOK'
  BY <1>1, <1>3, <1>4 DEF SplitInv, SplitTypeOK
<1>6. start' = Copied' /\ start' + element' = ptr' /\ ptr' + rest' = Len(text')
  BY <1>1, <1>2, <1>3, <1>4
<1>7. QueriesTileTheText'
  BY <1>3, <1>4, <1>6 DEF QueriesTileTheText
<1> QED
  BY <1>5, <1>7 DEF SplitInv

\* At the end of the scan there is a last query, because no text is empty.
LEMMA TrailingKeepsInv ==
    ASSUME SplitInv, Trailing
    PROVE  SplitInv'
<1>1. /\ list \in Seq(Query) /\ Contiguous /\ element \in Nat
      /\ start = Copied /\ start + element = ptr /\ ptr = Len(text) /\ ptr \in Nat
  BY DEF SplitInv, SplitTypeOK, QueriesTileTheText, Trailing
<1>2. text # <<>> /\ Len(text) > 0
  BY DEF SplitInv, SplitTypeOK
<1>3. /\ list' \in Seq(Query) /\ list' # <<>>
      /\ Contiguous' /\ Copied' = Len(text)
  <2>1. CASE element > 0
    BY <2>1, <1>1, NextQuery DEF Trailing
  <2>2. CASE element = 0
    <3>1. list' = list
      BY <2>2 DEF Trailing
    <3>2. list # <<>>
      BY <2>2, <1>1, <1>2 DEF Copied
    <3> QED
      BY <2>2, <3>1, <3>2, <1>1 DEF Contiguous, Copied
  <2> QED
    BY <2>1, <2>2, <1>1
<1>4. list'[Len(list')] \in Query
  BY <1>3
<1>5. ptr' \in Nat /\ rest' \in Nat /\ ptr' + rest' = Copied'
  BY <1>3, <1>4 DEF Trailing, Copied, Query
<1>6. SplitTypeOK'
  BY <1>1, <1>3, <1>5 DEF SplitInv, SplitTypeOK, Trailing, Modes
<1>7. QueriesTileTheText'
  BY <1>3, <1>5 DEF QueriesTileTheText, Trailing
<1> QED
  BY <1>6, <1>7 DEF SplitInv

LEMMA PassesKeepsInv ==
    ASSUME SplitInv, Trims, NEW n \in Nat, NEW mode \in Modes, Passes(n, mode)
    PROVE  SplitInv'
<1>1. SplitTypeOK'
  BY DEF SplitInv, SplitTypeOK, Passes, Takes
<1>2. Contiguous' = Contiguous /\ Copied' = Copied
  BY DEF Passes, Contiguous, Copied
<1>3. QueriesTileTheText'
  BY <1>2 DEF SplitInv, SplitTypeOK, QueriesTileTheText, Trims, Passes, Takes
<1> QED
  BY <1>1, <1>3 DEF SplitInv

LEMMA TrimDropsKeepsInv ==
    ASSUME SplitInv, TrimDrops
    PROVE  SplitInv'
<1>1. list \in Seq(Query) /\ list # <<>> /\ Contiguous
  BY DEF SplitInv, SplitTypeOK, QueriesTileTheText, TrimDrops
<1>2. /\ list' \in Seq(Query) /\ Len(list') = Len(list) - 1
      /\ \A k \in 1 .. Len(list') : list'[k] = list[k]
  <2>1. PICK n \in Nat : n = Len(list) - 1 /\ n <= Len(list)
    BY SMTT(30), <1>1
  <2>2. list' = SubSeq(list, 1, n)
    BY <2>1 DEF TrimDrops, Front
  <2>3. \A k \in 1 .. n : list[k] \in Query
    BY <1>1, <2>1
  <2>4. list' \in Seq(Query) /\ Len(list') = n /\ \A k \in 1 .. n : list'[k] = list[k]
    BY <1>1, <2>1, <2>2, <2>3
  <2> QED
    BY <2>1, <2>4
<1>3. Contiguous'
  <2> SUFFICES ASSUME NEW k \in 1 .. Len(list')
               PROVE  /\ list'[k].from = IF k = 1 THEN 0 ELSE list'[k - 1].from + list'[k - 1].len
                      /\ list'[k].len > 0
    BY DEF Contiguous
  <2>1. k \in 1 .. Len(list) /\ (k # 1 => k - 1 \in 1 .. Len(list'))
    BY <1>1, <1>2
  <2> QED
    BY <1>1, <1>2, <2>1 DEF Contiguous
<1>4. SplitTypeOK'
  BY <1>2 DEF SplitInv, SplitTypeOK, TrimDrops
<1>5. QueriesTileTheText'
  BY <1>3 DEF QueriesTileTheText, TrimDrops
<1> QED
  BY <1>4, <1>5 DEF SplitInv

LEMMA SplitInvariant == SplitSpec => []SplitInv
<1>1. SplitInit => SplitInv
  <2> SUFFICES ASSUME SplitInit PROVE SplitInv
    OBVIOUS
  <2>1. text \in Seq(Chars) \ {<<>>}
    BY TextsAssumption DEF SplitInit
  <2>2. Len(text) \in Nat
    BY <2>1
  <2>3. tag \in Seq(Chars) /\ list \in Seq(Query)
    BY DEF SplitInit
  <2>4. Contiguous /\ Copied = 0
    BY DEF SplitInit, Contiguous, Copied
  <2>5. SplitTypeOK
    <3>1. ptr \in Nat /\ rest \in Int /\ start \in Nat /\ element \in Nat /\ parens \in Nat
      BY <2>2 DEF SplitInit
    <3>2. /\ phase \in {"scan", "trim", "done", "over"}
          /\ qs \in Modes /\ escapes \in BOOLEAN
      BY DEF SplitInit, Modes
    <3> QED
      BY <2>1, <2>3, <3>1, <3>2 DEF SplitTypeOK
  <2>6. QueriesTileTheText
    BY <2>2, <2>4 DEF SplitInit, QueriesTileTheText
  <2> QED
    BY <2>5, <2>6 DEF SplitInv
<1>2. SplitInv /\ [SplitNext]_svars => SplitInv'
  <2> SUFFICES ASSUME SplitInv, [SplitNext]_svars PROVE SplitInv'
    OBVIOUS
  <2>1. ASSUME Scan PROVE SplitInv'
    BY <2>1, ScanMoves, MovesKeepsInv, SemicolonKeepsInv DEF SplitInv
  <2>2. ASSUME TrimComment PROVE SplitInv'
    BY <2>2, PassesKeepsInv DEF TrimComment, Modes, SplitInv, SplitTypeOK
  <2>3. ASSUME TrimBlank PROVE SplitInv'
    BY <2>3, PassesKeepsInv DEF TrimBlank, Modes
  <2>4. ASSUME TrimBreaks PROVE SplitInv'
    BY <2>4 DEF SplitInv, SplitTypeOK, QueriesTileTheText, Contiguous, Copied, TrimBreaks, Trims
  <2>5. ASSUME UNCHANGED svars PROVE SplitInv'
    BY <2>5 DEF SplitInv, SplitTypeOK, QueriesTileTheText, Contiguous, Copied, svars
  <2> QED
    BY <2>1, <2>2, <2>3, <2>4, <2>5, TrailingKeepsInv, TrimDropsKeepsInv DEF SplitNext
<1> QED
  BY <1>1, <1>2, PTL DEF SplitSpec

\* The splitter keeps its types.
THEOREM SplitTypeCorrect == SplitSpec => []SplitTypeOK
<1>1. SplitInv => SplitTypeOK
  BY DEF SplitInv
<1> QED
  BY <1>1, SplitInvariant, PTL

\* What is split is the whole text, in its order, whatever it is made of.
THEOREM SplitLosesNothing == SplitSpec => []QueriesTileTheText
<1>1. SplitInv => QueriesTileTheText
  BY DEF SplitInv
<1> QED
  BY <1>1, SplitInvariant, PTL

-----------------------------------------------------------------------------
(* The text.                                                               *)

\* A mark of two characters.
LEMMA HasTwo ==
    ASSUME text \in Seq(Chars), NEW n \in Nat, NEW c, NEW d
    PROVE  Has(n, <<c, d>>) <=> n + 2 <= Len(text) /\ Char(n) = c /\ Char(n + 1) = d
<1>1. CASE n + 2 <= Len(text)
  <2>1. n + 1 \in 1 .. Len(text) /\ n + 2 \in 1 .. Len(text) /\ Len(text) \in Nat
    BY <1>1
  <2>2. PICK w : w = SubSeq(text, n + 1, n + 2)
    OBVIOUS
  <2>3. w \in Seq(Chars) /\ Len(w) = 2 /\ w[1] = text[n + 1] /\ w[2] = text[n + 2]
    BY <2>1, <2>2
  <2>4. Char(n) = text[n + 1] /\ Char(n + 1) = text[n + 2]
    BY <2>1 DEF Char
  <2>5. w = <<w[1], w[2]>>
    BY <2>3
  <2>6. w = <<c, d>> <=> w[1] = c /\ w[2] = d
    BY <2>5
  <2>7. Has(n, <<c, d>>) <=> w = <<c, d>>
    BY <1>1, <2>2 DEF Has
  <2> QED
    BY <1>1, <2>3, <2>4, <2>6, <2>7
<1>2. CASE ~ n + 2 <= Len(text)
  BY <1>2 DEF Has
<1> QED
  BY <1>1, <1>2

\* What a text has there is in the text.
LEMMA HasWord ==
    ASSUME text \in Seq(Chars), NEW n \in Nat, NEW w \in Seq(Chars), Has(n, w)
    PROVE  n + Len(w) <= Len(text) /\ Len(w) \in Nat
BY DEF Has

\* At most one dollar tag begins at a place: it ends with the first dollar.
LEMMA OneTag ==
    ASSUME text \in Seq(Chars), NEW n \in Nat, NEW t \in Tags(n)
    PROVE  /\ t \in Seq(Chars) /\ Len(t) \in Nat /\ Len(t) > 1 /\ n + Len(t) <= Len(text)
           /\ Char(n) = "$"
           /\ \A u \in Tags(n) : u = t
<1> DEFINE Closes(k) == Char(n) = "$" /\ Char(k) = "$" /\ \A j \in n + 1 .. k - 1 : Char(j) \in TagChars
<1>1. ASSUME NEW u \in Tags(n)
      PROVE  \E m \in n + 1 .. Len(text) - 1 : Closes(m) /\ u = SubSeq(text, n + 1, m + 1)
  BY DEF Tags
<1>2. "$" \notin TagChars
  BY CharsAssumption DEF Marks
<1>3. PICK m \in n + 1 .. Len(text) - 1 : Closes(m) /\ t = SubSeq(text, n + 1, m + 1)
  BY <1>1
<1>4. ASSUME NEW k \in n + 1 .. Len(text) - 1, Closes(k) PROVE k = m
  <2>1. ~ k < m
    BY <1>2, <1>3, <1>4
  <2>2. ~ m < k
    BY <1>2, <1>3, <1>4
  <2> QED
    BY <2>1, <2>2
<1>5. \A u \in Tags(n) : u = t
  BY <1>1, <1>3, <1>4
<1> HIDE DEF Closes
<1>6. Len(text) \in Nat /\ m \in Nat /\ m > n /\ m + 1 <= Len(text)
  OBVIOUS
<1>7. \A i \in n + 1 .. m + 1 : i \in 1 .. Len(text) /\ text[i] \in Chars
  BY <1>6
<1>8. t \in Seq(Chars) /\ Len(t) = m + 1 - n
  BY <1>3, <1>6, <1>7
<1> QED
  BY <1>3, <1>5, <1>6, <1>8 DEF Closes

-----------------------------------------------------------------------------
(* The lexer.                                                              *)

LexerType == [at : Nat, mode : Modes, escapes : BOOLEAN, parens : Nat, tag : Seq(Chars),
               before : BOOLEAN]
LexerOK(s) ==
    /\ s \in LexerType
    /\ s.mode = "tag" => Len(s.tag) > 0

\* A token of n characters takes the lexer from s to t.
Goes(s, t, mode, n) ==
    /\ t.mode = mode /\ t.at = s.at + n /\ n > 0
    /\ t.before = s.before
    /\ t \in LexerType

Steps(s, t, mode, n) == t = [s EXCEPT !.at = @ + n, !.mode = mode]

LEMMA GoesTo ==
    ASSUME NEW s, LexerOK(s), NEW n \in Nat, n > 0, NEW mode \in Modes, NEW t,
           Steps(s, t, mode, n)
    PROVE  Goes(s, t, mode, n) /\ t.parens = s.parens /\ t.escapes = s.escapes /\ t.tag = s.tag
<1>1. s \in LexerType
  BY DEF LexerOK
<1>2. t.mode = mode /\ t.at = s.at + n /\ t.before = s.before
  BY <1>1 DEF Steps, LexerType
<1>3. t.parens = s.parens /\ t.escapes = s.escapes /\ t.tag = s.tag
  BY <1>1 DEF Steps, LexerType
<1>4. t \in LexerType
  <2>1. PICK p \in Nat : p = s.at + n
    BY <1>1 DEF LexerType
  <2>2. t = [s EXCEPT !.at = p, !.mode = mode]
    BY <2>1 DEF Steps
  <2> QED
    BY <1>1, <2>2 DEF LexerType
<1> QED
  BY <1>2, <1>3, <1>4 DEF Goes

\* One field more.
LEMMA GoesOn ==
    ASSUME NEW s, NEW u, NEW mode, NEW n, Goes(s, u, mode, n), NEW t
    PROVE  /\ \A v \in BOOLEAN : t = [u EXCEPT !.escapes = v] =>
                  Goes(s, t, mode, n) /\ t.escapes = v /\ t.parens = u.parens
           /\ \A v \in Nat : t = [u EXCEPT !.parens = v] => Goes(s, t, mode, n) /\ t.parens = v
           /\ \A v \in Seq(Chars) : t = [u EXCEPT !.tag = v] =>
                  Goes(s, t, mode, n) /\ t.tag = v /\ t.parens = u.parens
  BY DEF Goes, LexerType

\* Outside quotes.
LEMMA TokenOutside ==
    ASSUME text \in Seq(Chars), NEW s, LexerOK(s), s.mode = "none", NEW t, t = Token(s)
    PROVE
        /\ Has(s.at, <<"/", "*">>) => Goes(s, t, "block", 2) /\ t.parens = s.parens
        /\ Has(s.at, <<"-", "-">>) => Goes(s, t, "line", 2) /\ t.parens = s.parens
        /\ Char(s.at) = "\\" => Goes(s, t, "none", 2) /\ t.parens = s.parens
        /\ Char(s.at) = "'" =>
               /\ Goes(s, t, "single", 1) /\ t.parens = s.parens
               /\ t.escapes = IF s.at = 0 THEN s.before ELSE Char(s.at - 1) = "E"
        /\ Char(s.at) = "\"" => Goes(s, t, "double", 1) /\ t.parens = s.parens
        /\ Char(s.at) = "(" => Goes(s, t, "none", 1) /\ t.parens = s.parens + 1
        /\ Char(s.at) = ")" /\ s.parens > 0 => Goes(s, t, "none", 1) /\ t.parens = s.parens - 1
        /\ \A g \in Tags(s.at) : Goes(s, t, "tag", Len(g)) /\ t.tag = g /\ t.parens = s.parens
        /\ /\ ~ Has(s.at, <<"/", "*">>) /\ ~ Has(s.at, <<"-", "-">>) /\ Tags(s.at) = {}
           /\ Char(s.at) \notin {"\\", "'", "\"", "("} /\ ~ (Char(s.at) = ")" /\ s.parens > 0)
           => Goes(s, t, "none", 1) /\ t.parens = s.parens
<1>1. PICK n : n = s.at
  OBVIOUS
<1>2. PICK c : c = Char(n)
  OBVIOUS
<1>3. n \in Nat
  BY <1>1 DEF LexerOK, LexerType
<1>4. t = Token(s)
  OBVIOUS
<1>5. s \in LexerType
  BY DEF LexerOK
<1>6. Has(n, <<"/", "*">>) => c = "/"
  BY <1>2, <1>3, HasTwo
<1>7. Has(n, <<"-", "-">>) => c = "-"
  BY <1>2, <1>3, HasTwo
<1>8. Tags(n) # {} => c = "$"
  BY <1>2, <1>3, OneTag
<1>9. ASSUME Has(n, <<"/", "*">>) PROVE Goes(s, t, "block", 2) /\ t.parens = s.parens
  <2>1. Steps(s, t, "block", 2)
    BY <1>1, <1>2, <1>6, <1>7, <1>8, <1>4, <1>9 DEF Token, Steps
  <2> QED
    BY <2>1, GoesTo DEF Modes
<1>10. ASSUME Has(n, <<"-", "-">>) PROVE Goes(s, t, "line", 2) /\ t.parens = s.parens
  <2>1. Steps(s, t, "line", 2)
    BY <1>1, <1>2, <1>6, <1>7, <1>8, <1>4, <1>10 DEF Token, Steps
  <2> QED
    BY <2>1, GoesTo DEF Modes
<1>11. ASSUME c = "\\" PROVE Goes(s, t, "none", 2) /\ t.parens = s.parens
  <2>1. Steps(s, t, "none", 2)
    BY <1>1, <1>2, <1>6, <1>7, <1>8, <1>4, <1>11 DEF Token, Steps
  <2> QED
    BY <2>1, GoesTo DEF Modes
<1>12. ASSUME c = "'"
       PROVE  /\ Goes(s, t, "single", 1) /\ t.parens = s.parens
              /\ t.escapes = IF s.at = 0 THEN s.before ELSE Char(s.at - 1) = "E"
  <2>1. PICK u : Steps(s, u, "single", 1)
    BY DEF Steps
  <2>2. Goes(s, u, "single", 1) /\ u.parens = s.parens
    BY <2>1, GoesTo DEF Modes
  <2>3. PICK v \in BOOLEAN : v = IF s.at = 0 THEN s.before ELSE Char(s.at - 1) = "E"
    BY <1>5 DEF LexerType
  <2>4. t = [u EXCEPT !.escapes = v]
    BY <1>1, <1>2, <1>6, <1>7, <1>8, <1>4, <1>12, <2>1, <2>2, <2>3 DEF Token, Steps
  <2> QED
    BY <1>1, <2>2, <2>3, <2>4, GoesOn
<1>13. ASSUME c = "\"" PROVE Goes(s, t, "double", 1) /\ t.parens = s.parens
  <2>1. Steps(s, t, "double", 1)
    BY <1>1, <1>2, <1>6, <1>7, <1>8, <1>4, <1>13 DEF Token, Steps
  <2> QED
    BY <2>1, GoesTo DEF Modes
<1>14. ASSUME c = "(" PROVE Goes(s, t, "none", 1) /\ t.parens = s.parens + 1
  <2>1. PICK u : Steps(s, u, "none", 1)
    BY DEF Steps
  <2>2. Goes(s, u, "none", 1) /\ u.parens = s.parens
    BY <2>1, GoesTo DEF Modes
  <2>3. PICK v \in Nat : v = s.parens + 1
    BY <1>5 DEF LexerType
  <2>4. t = [u EXCEPT !.parens = v]
    BY <1>1, <1>2, <1>6, <1>7, <1>8, <1>4, <1>14, <2>1, <2>2, <2>3 DEF Token, Steps
  <2> QED
    BY <1>1, <2>2, <2>3, <2>4, GoesOn
<1>15. ASSUME c = ")", s.parens > 0 PROVE Goes(s, t, "none", 1) /\ t.parens = s.parens - 1
  <2>1. PICK u : Steps(s, u, "none", 1)
    BY DEF Steps
  <2>2. Goes(s, u, "none", 1) /\ u.parens = s.parens
    BY <2>1, GoesTo DEF Modes
  <2>3. PICK v \in Nat : v = s.parens - 1
    BY <1>5, <1>15 DEF LexerType
  <2>4. t = [u EXCEPT !.parens = v]
    BY <1>1, <1>2, <1>6, <1>7, <1>8, <1>4, <1>15, <2>1, <2>2, <2>3 DEF Token, Steps
  <2> QED
    BY <1>1, <2>2, <2>3, <2>4, GoesOn
<1>16. ASSUME NEW g \in Tags(n) PROVE Goes(s, t, "tag", Len(g)) /\ t.tag = g /\ t.parens = s.parens
  <2>1. c = "$"
    BY <1>8
  <2>2. PICK u : u = CHOOSE v \in Tags(n) : TRUE
    OBVIOUS
  <2>3. u = g /\ Len(g) > 1 /\ Len(g) \in Nat
    BY <2>2, <1>3, OneTag
  <2>4. PICK w : Steps(s, w, "tag", Len(g))
    BY DEF Steps
  <2>5. Goes(s, w, "tag", Len(g)) /\ w.parens = s.parens /\ g \in Seq(Chars)
    <3>1. Len(g) \in Nat /\ Len(g) > 0 /\ g \in Seq(Chars)
      BY <2>3, <1>3, OneTag
    <3> QED
      BY <2>4, <3>1, GoesTo DEF Modes
  <2>6. t = [w EXCEPT !.tag = g]
    BY <1>1, <1>2, <1>6, <1>7, <1>4, <1>16, <2>1, <2>2, <2>3, <2>4 DEF Token, Steps
  <2> QED
    BY <2>5, <2>6, GoesOn
<1>17. ASSUME ~ Has(n, <<"/", "*">>), ~ Has(n, <<"-", "-">>), Tags(n) = {},
              c \notin {"\\", "'", "\"", "("}, ~ (c = ")" /\ s.parens > 0)
       PROVE  Goes(s, t, "none", 1) /\ t.parens = s.parens
  <2>1. Steps(s, t, "none", 1)
    BY <1>1, <1>2, <1>6, <1>7, <1>8, <1>4, <1>17 DEF Token, Steps
  <2> QED
    BY <2>1, GoesTo DEF Modes
<1>18. \A g \in Tags(n) : Goes(s, t, "tag", Len(g)) /\ t.tag = g /\ t.parens = s.parens
  BY <1>16
<1>19. /\ ~ Has(n, <<"/", "*">>) /\ ~ Has(n, <<"-", "-">>) /\ Tags(n) = {}
       /\ c \notin {"\\", "'", "\"", "("} /\ ~ (c = ")" /\ s.parens > 0)
       => Goes(s, t, "none", 1) /\ t.parens = s.parens
  BY <1>17
<1> QED
  BY <1>1, <1>2, <1>9, <1>10, <1>11, <1>12, <1>13, <1>14, <1>15, <1>18, <1>19

\* In quotes and comments.
LEMMA TokenInside ==
    ASSUME text \in Seq(Chars), NEW s, LexerOK(s), NEW t, t = Token(s)
    PROVE
        /\ s.mode = "block" =>
               /\ t.parens = s.parens
               /\ IF Has(s.at, <<"*", "/">>) THEN Goes(s, t, "none", 2) ELSE Goes(s, t, "block", 1)
        /\ s.mode = "line" =>
               /\ t.parens = s.parens
               /\ IF Char(s.at) \in Newlines THEN Goes(s, t, "none", 1) ELSE Goes(s, t, "line", 1)
        /\ s.mode = "single" =>
               /\ t.parens = s.parens
               /\ IF Char(s.at) = "'" THEN Goes(s, t, "none", 1)
                  ELSE t.escapes = s.escapes
                       /\ IF Char(s.at) = "\\" /\ s.escapes THEN Goes(s, t, "single", 2)
                          ELSE Goes(s, t, "single", 1)
        /\ s.mode = "double" =>
               /\ t.parens = s.parens
               /\ IF Char(s.at) = "\"" THEN Goes(s, t, "none", 1) ELSE Goes(s, t, "double", 1)
        /\ s.mode = "tag" =>
               /\ t.parens = s.parens
               /\ IF Has(s.at, s.tag) THEN Goes(s, t, "none", Len(s.tag))
                  ELSE Goes(s, t, "tag", 1) /\ t.tag = s.tag
<1>1. t = Token(s)
  OBVIOUS
<1>2. s \in LexerType
  BY DEF LexerOK
<1>3. ASSUME s.mode = "block"
      PROVE  /\ t.parens = s.parens
             /\ IF Has(s.at, <<"*", "/">>) THEN Goes(s, t, "none", 2) ELSE Goes(s, t, "block", 1)
  <2>1. IF Has(s.at, <<"*", "/">>) THEN Steps(s, t, "none", 2)
            ELSE Steps(s, t, "block", 1)
    BY <1>1, <1>3 DEF Token, Steps
  <2> QED
    BY <2>1, GoesTo DEF Modes
<1>4. ASSUME s.mode = "line"
      PROVE  /\ t.parens = s.parens
             /\ IF Char(s.at) \in Newlines THEN Goes(s, t, "none", 1) ELSE Goes(s, t, "line", 1)
  <2>1. IF Char(s.at) \in Newlines THEN Steps(s, t, "none", 1)
            ELSE Steps(s, t, "line", 1)
    BY <1>1, <1>4 DEF Token, Steps
  <2> QED
    BY <2>1, GoesTo DEF Modes
<1>5. ASSUME s.mode = "single"
      PROVE  /\ t.parens = s.parens
             /\ IF Char(s.at) = "'" THEN Goes(s, t, "none", 1)
                ELSE t.escapes = s.escapes
                     /\ IF Char(s.at) = "\\" /\ s.escapes THEN Goes(s, t, "single", 2)
                        ELSE Goes(s, t, "single", 1)
  <2>1. IF Char(s.at) = "'" THEN Steps(s, t, "none", 1)
        ELSE IF Char(s.at) = "\\" /\ s.escapes THEN Steps(s, t, "single", 2)
        ELSE Steps(s, t, "single", 1)
    BY <1>1, <1>5 DEF Token, Steps
  <2>2. \A m \in {"none", "single"}, n \in {1, 2} :
            Steps(s, t, m, n) => Goes(s, t, m, n) /\ t.parens = s.parens /\ t.escapes = s.escapes
    BY GoesTo DEF Modes
  <2> QED
    BY <2>1, <2>2
<1>6. ASSUME s.mode = "double"
      PROVE  /\ t.parens = s.parens
             /\ IF Char(s.at) = "\"" THEN Goes(s, t, "none", 1) ELSE Goes(s, t, "double", 1)
  <2>1. IF Char(s.at) = "\"" THEN Steps(s, t, "none", 1)
        ELSE Steps(s, t, "double", 1)
    BY <1>1, <1>6 DEF Token, Steps
  <2>2. \A m \in {"none", "double"} : Steps(s, t, m, 1) => Goes(s, t, m, 1) /\ t.parens = s.parens
    BY GoesTo DEF Modes
  <2> QED
    BY <2>1, <2>2
<1>7. ASSUME s.mode = "tag"
      PROVE  /\ t.parens = s.parens
             /\ IF Has(s.at, s.tag) THEN Goes(s, t, "none", Len(s.tag))
                ELSE Goes(s, t, "tag", 1) /\ t.tag = s.tag
  <2>1. Len(s.tag) > 0 /\ Len(s.tag) \in Nat
    BY <1>2, <1>7 DEF LexerOK, LexerType
  <2>2. IF Has(s.at, s.tag) THEN Steps(s, t, "none", Len(s.tag))
            ELSE Steps(s, t, "tag", 1)
    BY <1>1, <1>7 DEF Token, Steps
  <2> QED
    BY <2>1, <2>2, GoesTo DEF Modes
<1> QED
  BY <1>1, <1>3, <1>4, <1>5, <1>6, <1>7

\* Each token takes the lexer on.
LEMMA TokenGoesOn ==
    ASSUME text \in Seq(Chars), NEW s, LexerOK(s), NEW t, t = Token(s)
    PROVE  LexerOK(t) /\ t.at > s.at /\ t.before = s.before
<1> DEFINE OK == LexerOK(t) /\ t.at > s.at /\ t.before = s.before
<1>1. s \in LexerType /\ s.at \in Nat /\ s.mode \in Modes /\ s.tag \in Seq(Chars)
  BY DEF LexerOK, LexerType
<1>2. ASSUME NEW mode, NEW n \in Nat, Goes(s, t, mode, n), mode = "tag" => Len(t.tag) > 0 PROVE OK
  BY <1>1, <1>2 DEF Goes, LexerOK
<1> HIDE DEF OK
<1> SUFFICES OK
  BY DEF OK
<1> DEFINE Others == {"block", "line", "none", "single", "double"}
<1>3. ASSUME \E mode \in Others, n \in {1, 2} : Goes(s, t, mode, n) PROVE OK
  <2>1. PICK mode \in Others, n \in {1, 2} : Goes(s, t, mode, n)
    BY <1>3
  <2>2. mode # "tag" /\ n \in Nat
    OBVIOUS
  <2> QED
    BY <2>1, <2>2, <1>2
<1>4. CASE s.mode = "none"
  <2>1. ASSUME NEW g \in Tags(s.at) PROVE OK
    <3>1. Goes(s, t, "tag", Len(g)) /\ t.tag = g
      BY <1>4, TokenOutside
    <3>2. Len(g) \in Nat /\ Len(g) > 0
      BY <1>1, OneTag
    <3> QED
      BY <3>1, <3>2, <1>2
  <2>2. Tags(s.at) # {} \/ \E mode \in Others, n \in {1, 2} : Goes(s, t, mode, n)
    BY <1>4, TokenOutside
  <2> QED
    BY <2>1, <2>2, <1>3
<1>5. CASE s.mode \in {"block", "line", "single", "double"}
  <2>1. \E mode \in Others, n \in {1, 2} : Goes(s, t, mode, n)
    BY <1>5, TokenInside
  <2> QED
    BY <2>1, <1>3
<1>6. CASE s.mode = "tag"
  <2>1. Len(s.tag) \in Nat /\ Len(s.tag) > 0
    BY <1>1, <1>6 DEF LexerOK
  <2>2. IF Has(s.at, s.tag) THEN Goes(s, t, "none", Len(s.tag)) ELSE Goes(s, t, "tag", 1) /\ t.tag = s.tag
    BY <1>6, TokenInside
  <2>3. CASE Has(s.at, s.tag)
    BY <2>1, <2>2, <2>3, <1>2
  <2>4. CASE ~ Has(s.at, s.tag)
    BY <2>1, <2>2, <2>4, <1>2
  <2> QED
    BY <2>3, <2>4
<1> QED
  BY <1>1, <1>4, <1>5, <1>6 DEF Modes

\* r is what Read computes for n tokens.
Reads(r, b, n) == r = [k \in 0 .. n |-> IF k = 0 THEN Lexer(b) ELSE Token(r[k - 1])]

LEMMA ReadsExists ==
    ASSUME NEW b, NEW k \in Nat
    PROVE  \E r : Reads(r, b, k)
<1> DEFINE T == {n \in Nat : \E r : Reads(r, b, n)}
<1>1. 0 \in T
  <2>1. Reads([i \in 0 .. 0 |-> Lexer(b)], b, 0)
    BY DEF Reads
  <2> QED
    BY <2>1
<1>2. ASSUME NEW n \in 1 .. k, n - 1 \in T PROVE n \in T
  <2>1. PICK r : Reads(r, b, n - 1)
    BY <1>2
  <2>2. PICK t : t = Token(r[n - 1])
    OBVIOUS
  <2> DEFINE g == [i \in 0 .. n |-> IF i = n THEN t ELSE r[i]]
  <2>3. \A i \in 0 .. n : i # n => i \in 0 .. n - 1
    OBVIOUS
  <2>4. \A i \in 1 .. n : i - 1 \in 0 .. n - 1
    OBVIOUS
  <2>5. \A i \in 0 .. n - 1 : r[i] = IF i = 0 THEN Lexer(b) ELSE Token(r[i - 1])
    BY <2>1 DEF Reads
  <2>6. \A i \in 0 .. n : g[i] = IF i = 0 THEN Lexer(b) ELSE Token(g[i - 1])
    BY <2>2, <2>3, <2>4, <2>5
  <2>7. Reads(g, b, n)
    BY <2>6 DEF Reads
  <2> QED
    BY <2>7
<1> HIDE DEF T
<1>3. \A n \in 0 .. k : n \in T
  <2>1. T \in SUBSET Nat
    BY DEF T
  <2> QED
    BY <1>1, <1>2, <2>1, AllNumbers
<1> QED
  BY <1>3 DEF T

\* What the lexer reads: token after token, each a character at least.
Lexes(r, b) ==
    /\ r[0] = Lexer(b)
    /\ \A k \in 1 .. Len(text) : r[k] = Token(r[k - 1])
    /\ \A k \in 0 .. Len(text) : LexerOK(r[k]) /\ r[k].at >= k /\ r[k].before = b
    /\ \A k \in 0 .. Len(text) : \A j \in 0 .. k : j < k => r[j].at < r[k].at

LEMMA LexerReads ==
    ASSUME text \in Seq(Chars), NEW b \in BOOLEAN
    PROVE  Lexes(Read(b), b)
<1>1. PICK n \in Nat : n = Len(text)
  OBVIOUS
<1>2. \E r : Reads(r, b, n)
  BY ReadsExists
<1>3. Read(b) = CHOOSE r : Reads(r, b, n)
  BY <1>1 DEF Reads, Read
<1>4. PICK r : r = Read(b) /\ Reads(r, b, n)
  BY <1>2, <1>3
<1>5. r[0] = Lexer(b) /\ \A k \in 1 .. n : r[k] = Token(r[k - 1])
  <2>1. \A k \in 0 .. n : r[k] = IF k = 0 THEN Lexer(b) ELSE Token(r[k - 1])
    BY <1>4 DEF Reads
  <2>2. \A k \in 1 .. n : k \in 0 .. n /\ k # 0
    OBVIOUS
  <2> QED
    BY <2>1, <2>2
<1> DEFINE T == {k \in 0 .. n : /\ LexerOK(r[k]) /\ r[k].at >= k /\ r[k].before = b
                                /\ \A j \in 0 .. k : j < k => r[j].at \in Nat /\ r[j].at < r[k].at}
<1>6. 0 \in T
  <2>1. <<>> \in Seq(Chars)
    OBVIOUS
  <2>2. LexerOK(Lexer(b)) /\ Lexer(b).at = 0 /\ Lexer(b).before = b
    BY <2>1 DEF Lexer, LexerOK, LexerType, Modes
  <2> QED
    BY <2>2, <1>5
<1>7. ASSUME NEW k \in 1 .. n, k - 1 \in T PROVE k \in T
  <2>1. LexerOK(r[k - 1]) /\ r[k - 1].at >= k - 1 /\ r[k - 1].before = b
    BY <1>7
  <2>2. LexerOK(r[k]) /\ r[k].at > r[k - 1].at /\ r[k].before = b
    BY <2>1, <1>5, TokenGoesOn
  <2>3. r[k].at \in Nat /\ r[k - 1].at \in Nat
    BY <2>1, <2>2 DEF LexerOK, LexerType
  <2>4. ASSUME NEW j \in 0 .. k, j < k PROVE r[j].at \in Nat /\ r[j].at < r[k].at
    <3>1. CASE j = k - 1
      BY <3>1, <2>2, <2>3
    <3>2. CASE j # k - 1
      <4>1. j \in 0 .. k - 1 /\ j < k - 1
        BY <3>2, <2>4
      <4>2. r[j].at \in Nat /\ r[j].at < r[k - 1].at
        BY <4>1, <1>7
      <4> QED
        BY <4>2, <2>2, <2>3
    <3> QED
      BY <3>1, <3>2
  <2> QED
    BY <2>2, <2>3, <2>1, <2>4
<1> HIDE DEF T
<1>8. \A k \in 0 .. n : k \in T
  <2>1. T \in SUBSET Nat
    BY DEF T
  <2> QED
    BY <1>6, <1>7, <2>1, AllNumbers
<1> QED
  BY <1>1, <1>4, <1>5, <1>8 DEF T, Lexes

-----------------------------------------------------------------------------
(* The scan and the lexer, token by token.                                 *)

LEMMA HasThree ==
    ASSUME text \in Seq(Chars), NEW n \in Nat, NEW c, NEW d, NEW e,
           Has(n, <<c, d>>), Has(n + 1, <<d, e>>)
    PROVE  Has(n, <<c, d, e>>)
<1>1. n + 2 <= Len(text) /\ Char(n) = c /\ Char(n + 1) = d
  BY HasTwo
<1>2. n + 1 + 2 <= Len(text) /\ Char(n + 1 + 1) = e
  BY HasTwo
<1>3. Len(text) \in Nat /\ n + 1 + 1 = n + 2
  OBVIOUS
<1>4. n + 3 <= Len(text) /\ Char(n + 2) = e
  BY <1>2, <1>3
<1>5. n + 1 \in 1 .. Len(text) /\ n + 2 \in 1 .. Len(text) /\ n + 3 \in 1 .. Len(text)
  BY <1>3, <1>4
<1>6. text[n + 1] = c /\ text[n + 2] = d /\ text[n + 3] = e
  BY <1>1, <1>4, <1>5 DEF Char
<1>7. PICK w : w = SubSeq(text, n + 1, n + 3)
  OBVIOUS
<1>8. w \in Seq(Chars) /\ Len(w) = 3 /\ w[1] = c /\ w[2] = d /\ w[3] = e
  BY <1>5, <1>6, <1>7
<1>9. w = <<c, d, e>>
  BY <1>8
<1> QED
  BY <1>4, <1>7, <1>9 DEF Has

\* In a regular text no comment closes as it opens, or opens as it closes.
LEMMA NoOverlap ==
    ASSUME text \in Seq(Chars), Regular, NEW n \in Nat
    PROVE  /\ Has(n, <<"/", "*">>) => ~ Has(n + 1, <<"*", "/">>)
           /\ Has(n, <<"*", "/">>) => ~ Has(n + 1, <<"/", "*">>)
<1>1. ASSUME Has(n, <<"/", "*">>), Has(n + 1, <<"*", "/">>) PROVE FALSE
  <2>1. n \in 0 .. Len(text)
    BY <1>1, HasTwo
  <2> QED
    BY <1>1, <2>1, HasThree DEF Regular
<1>2. ASSUME Has(n, <<"*", "/">>), Has(n + 1, <<"/", "*">>) PROVE FALSE
  <2>1. n \in 0 .. Len(text)
    BY <1>2, HasTwo
  <2> QED
    BY <1>2, <2>1, HasThree DEF Regular
<1> QED
  BY <1>1, <1>2

\* The scan and the trim take the first character of some marks, and the
\* second one as one of what the mark begins or ends.
Half(n, mode) ==
    \/ mode = "block" /\ Char(n) = "*" /\ ~ Has(n, <<"*", "/">>)
    \/ mode = "line" /\ Char(n) = "-"
    \/ mode = "none" /\ Char(n) = "/" /\ ~ Has(n, <<"/", "*">>)

\* The scan is where the lexer is, or before the last character of its token.
Follows(s) ==
    /\ s.mode = qs /\ s.parens = parens
    /\ qs = "single" => s.escapes = escapes
    /\ qs = "tag" => s.tag = tag
    /\ s.at = ptr \/ (s.at = ptr + 1 /\ Half(ptr, qs))

LEMMA HalfStays ==
    ASSUME text' = text, NEW n, n = ptr', NEW mode, mode = qs', Half(n, mode)
    PROVE  Half(ptr, qs)'
BY DEF Half, Char, Has

\* The second half of a mark is one more character.
LEMMA ScanEndsMark ==
    ASSUME SplitTypeOK, NEW s, LexerOK(s), Follows(s), s.at # ptr, Scan
    PROVE  Follows(s)' /\ UNCHANGED <<list, text, start>>
<1>1. text \in Seq(Chars) /\ ptr \in Nat
  BY DEF SplitTypeOK
<1>2. s.at = ptr + 1 /\ Half(ptr, qs)
  BY DEF Follows
<1>3. /\ Has(ptr, <<"/", "*">>) => Char(ptr) = "/"
      /\ Has(ptr, <<"-", "-">>) => Char(ptr) = "-"
      /\ Has(ptr, <<"*", "/">>) => Char(ptr) = "*"
      /\ Tags(ptr) # {} => Char(ptr) = "$"
  BY <1>1, HasTwo, OneTag
<1>4. "-" \notin Newlines
  BY CharsAssumption DEF Marks
<1>5. ~ (OpenBlock \/ CloseBlock \/ OpenLine \/ CloseLine)
  BY <1>2, <1>3, <1>4 DEF Half, OpenBlock, CloseBlock, OpenLine, CloseLine
<1>6. ~ (Slash \/ OpenSingle \/ CloseSingle \/ OpenDouble \/ CloseDouble)
  BY <1>2 DEF Half, Slash, OpenSingle, CloseSingle, OpenDouble, CloseDouble
<1>7. ~ (Parenthesis \/ OpenTag \/ CloseTag \/ Semicolon)
  BY <1>2, <1>3 DEF Half, Parenthesis, OpenTag, CloseTag, Semicolon
<1>8. Other
  BY <1>5, <1>6, <1>7 DEF Scan
<1>9. UNCHANGED <<qs, escapes, parens, tag>> /\ ptr' = ptr + 1 /\ UNCHANGED <<list, text, start>>
  BY <1>8 DEF Other, Moves, Takes
<1> QED
  BY <1>2, <1>9 DEF Follows

LEMMA FollowsOn ==
    ASSUME SplitTypeOK, text' = text, NEW s, s.at = ptr, NEW t, NEW mode, NEW n \in Nat,
           Goes(s, t, mode, n), qs' = mode, t.parens = parens',
           mode = "single" => t.escapes = escapes',
           mode = "tag" => t.tag = tag',
           ptr' = ptr + n \/ (n = 2 /\ ptr' = ptr + 1 /\ Half(ptr + 1, mode))
    PROVE  Follows(t)'
<1>1. t.mode = qs' /\ t.at = ptr + n
  BY DEF Goes
<1>2. t.at = ptr' \/ (t.at = ptr' + 1 /\ Half(ptr, qs)')
  <2>1. CASE ptr' = ptr + n
    BY <2>1, <1>1
  <2>2. CASE n = 2 /\ ptr' = ptr + 1 /\ Half(ptr + 1, mode)
    <3>1. t.at = ptr' + 1
      BY <2>2, <1>1 DEF SplitTypeOK
    <3>2. PICK p : p = ptr'
      OBVIOUS
    <3>3. Half(p, mode)
      BY <2>2, <3>2
    <3>4. Half(ptr, qs)'
      BY <3>2, <3>3, HalfStays
    <3> QED
      BY <3>1, <3>4
  <2> QED
    BY <2>1, <2>2
<1> QED
  BY <1>1, <1>2 DEF Follows


LEMMA ScanOpens ==
    ASSUME SplitTypeOK, Regular, NEW s, LexerOK(s), Follows(s), s.at = ptr,
           s.at = 0 => s.before = escapes', NEW t, t = Token(s),
           OpenBlock \/ OpenLine \/ OpenSingle \/ OpenDouble \/ Parenthesis
    PROVE  Follows(t)' /\ ~ Cut(s) /\ UNCHANGED <<list, text, start>>
<1>1. text \in Seq(Chars) /\ ptr \in Nat /\ s.at = ptr /\ s.mode = qs /\ s.parens = parens
  BY DEF SplitTypeOK, Follows
<1>2. ASSUME OpenBlock
      PROVE  Follows(t)' /\ ~ Cut(s) /\ UNCHANGED <<list, text, start>>
  <2>1. /\ qs = "none" /\ Has(ptr, <<"/", "*">>) /\ qs' = "block" /\ parens' = parens
        /\ ptr' = ptr + 1 /\ UNCHANGED <<list, text, start>>
    BY <1>2 DEF OpenBlock, Quotes, Moves, Takes
  <2>2. Goes(s, t, "block", 2) /\ t.parens = s.parens
    BY <1>1, <2>1, TokenOutside
  <2>3. Char(ptr) = "/" /\ Char(ptr + 1) = "*" /\ ~ Has(ptr + 1, <<"*", "/">>)
    BY <1>1, <2>1, HasTwo, NoOverlap
  <2>4. Half(ptr + 1, "block")
    BY <2>3 DEF Half
  <2> QED
    BY <1>1, <2>1, <2>2, <2>3, <2>4, FollowsOn DEF Cut
<1>3. ASSUME OpenLine
      PROVE  Follows(t)' /\ ~ Cut(s) /\ UNCHANGED <<list, text, start>>
  <2>1. /\ qs = "none" /\ Has(ptr, <<"-", "-">>) /\ qs' = "line" /\ parens' = parens
        /\ ptr' = ptr + 1 /\ UNCHANGED <<list, text, start>>
    BY <1>3 DEF OpenLine, Quotes, Moves, Takes
  <2>2. Goes(s, t, "line", 2) /\ t.parens = s.parens
    BY <1>1, <2>1, TokenOutside
  <2>3. Char(ptr) = "-" /\ Char(ptr + 1) = "-"
    BY <1>1, <2>1, HasTwo
  <2>4. Half(ptr + 1, "line")
    BY <2>3 DEF Half
  <2> QED
    BY <1>1, <2>1, <2>2, <2>3, <2>4, FollowsOn DEF Cut
<1>4. ASSUME OpenSingle
      PROVE  Follows(t)' /\ ~ Cut(s) /\ UNCHANGED <<list, text, start>>
  <2>1. /\ qs = "none" /\ Char(ptr) = "'" /\ qs' = "single" /\ parens' = parens
        /\ ptr' = ptr + 1 /\ UNCHANGED <<list, text, start>>
        /\ ptr # 0 => escapes' = (Char(ptr - 1) = "E")
    BY <1>4 DEF OpenSingle, Quotes, Moves, Takes
  <2>2. /\ Goes(s, t, "single", 1) /\ t.parens = s.parens
        /\ t.escapes = IF s.at = 0 THEN s.before ELSE Char(s.at - 1) = "E"
    <3>1. s.mode = "none" /\ Char(s.at) = "'"
      BY <1>1, <2>1
    <3> QED
      BY Zenon, <1>1, <3>1, TokenOutside
  <2>3. t.escapes = escapes'
    BY <1>1, <2>1, <2>2
  <2> QED
    BY <1>1, <2>1, <2>2, <2>3, FollowsOn DEF Cut
<1>5. ASSUME OpenDouble
      PROVE  Follows(t)' /\ ~ Cut(s) /\ UNCHANGED <<list, text, start>>
  <2>1. /\ qs = "none" /\ Char(ptr) = "\"" /\ qs' = "double" /\ parens' = parens
        /\ ptr' = ptr + 1 /\ UNCHANGED <<list, text, start>>
    BY <1>5 DEF OpenDouble, Quotes, Moves, Takes
  <2>2. Goes(s, t, "double", 1) /\ t.parens = s.parens
    BY <1>1, <2>1, TokenOutside
  <2> QED
    BY <1>1, <2>1, <2>2, FollowsOn DEF Cut
<1>6. ASSUME Parenthesis
      PROVE  Follows(t)' /\ ~ Cut(s) /\ UNCHANGED <<list, text, start>>
  <2>1. /\ qs = "none" /\ qs' = "none" /\ ptr' = ptr + 1 /\ UNCHANGED <<list, text, start>>
        /\ \/ Char(ptr) = "(" /\ parens' = parens + 1
           \/ Char(ptr) = ")" /\ parens > 0 /\ parens' = parens - 1
    BY <1>6 DEF Parenthesis, Moves, Takes
  <2>2. Goes(s, t, "none", 1) /\ t.parens = parens'
    BY <1>1, <2>1, TokenOutside
  <2>3. ~ Cut(s)
    BY <1>1, <2>1 DEF Cut
  <2> QED
    BY <1>1, <2>1, <2>2, <2>3, FollowsOn
<1> QED
  BY <1>2, <1>3, <1>4, <1>5, <1>6

LEMMA ScanCloses ==
    ASSUME SplitTypeOK, Regular, NEW s, LexerOK(s), Follows(s), s.at = ptr, NEW t, t = Token(s),
           CloseBlock \/ CloseLine \/ CloseSingle \/ CloseDouble \/ CloseTag
    PROVE  Follows(t)' /\ ~ Cut(s) /\ UNCHANGED <<list, text, start>>
<1>1. /\ text \in Seq(Chars) /\ ptr \in Nat /\ s.at = ptr /\ s.mode = qs /\ s.parens = parens
      /\ tag \in Seq(Chars) /\ Len(tag) \in Nat
  BY DEF SplitTypeOK, Follows
<1>2. ASSUME NEW mode \in {"block", "line", "single", "double", "tag"}, qs = mode PROVE ~ Cut(s)
  BY <1>1, <1>2 DEF Cut
<1>3. ASSUME CloseBlock
      PROVE  Follows(t)' /\ ~ Cut(s) /\ UNCHANGED <<list, text, start>>
  <2>1. /\ qs = "block" /\ Has(ptr, <<"*", "/">>) /\ qs' = "none" /\ parens' = parens
        /\ ptr' = ptr + 1 /\ UNCHANGED <<list, text, start>>
    BY <1>3 DEF CloseBlock, Quotes, Moves, Takes
  <2>2. Goes(s, t, "none", 2) /\ t.parens = s.parens
    BY <1>1, <2>1, TokenInside
  <2>3. Char(ptr + 1) = "/" /\ ~ Has(ptr + 1, <<"/", "*">>)
    BY <1>1, <2>1, HasTwo, NoOverlap
  <2>4. Half(ptr + 1, "none")
    BY <2>3 DEF Half
  <2> QED
    BY <1>1, <1>2, <2>1, <2>2, <2>4, FollowsOn
<1>4. ASSUME CloseLine
      PROVE  Follows(t)' /\ ~ Cut(s) /\ UNCHANGED <<list, text, start>>
  <2>1. /\ qs = "line" /\ Char(ptr) \in Newlines /\ qs' = "none" /\ parens' = parens
        /\ ptr' = ptr + 1 /\ UNCHANGED <<list, text, start>>
    BY <1>4 DEF CloseLine, Quotes, Moves, Takes
  <2>2. Goes(s, t, "none", 1) /\ t.parens = s.parens
    BY <1>1, <2>1, TokenInside
  <2> QED
    BY <1>1, <1>2, <2>1, <2>2, FollowsOn
<1>5. ASSUME CloseSingle
      PROVE  Follows(t)' /\ ~ Cut(s) /\ UNCHANGED <<list, text, start>>
  <2>1. /\ qs = "single" /\ Char(ptr) = "'" /\ qs' = "none" /\ parens' = parens
        /\ ptr' = ptr + 1 /\ UNCHANGED <<list, text, start>>
    BY <1>5 DEF CloseSingle, Quotes, Moves, Takes
  <2>2. Goes(s, t, "none", 1) /\ t.parens = s.parens
    BY <1>1, <2>1, TokenInside
  <2> QED
    BY <1>1, <1>2, <2>1, <2>2, FollowsOn
<1>6. ASSUME CloseDouble
      PROVE  Follows(t)' /\ ~ Cut(s) /\ UNCHANGED <<list, text, start>>
  <2>1. /\ qs = "double" /\ Char(ptr) = "\"" /\ qs' = "none" /\ parens' = parens
        /\ ptr' = ptr + 1 /\ UNCHANGED <<list, text, start>>
    BY <1>6 DEF CloseDouble, Quotes, Moves, Takes
  <2>2. Goes(s, t, "none", 1) /\ t.parens = s.parens
    BY <1>1, <2>1, TokenInside
  <2> QED
    BY <1>1, <1>2, <2>1, <2>2, FollowsOn
<1>7. ASSUME CloseTag
      PROVE  Follows(t)' /\ ~ Cut(s) /\ UNCHANGED <<list, text, start>>
  <2>1. /\ qs = "tag" /\ Has(ptr, tag) /\ qs' = "none" /\ parens' = parens
        /\ ptr' = ptr + Len(tag) /\ UNCHANGED <<list, text, start>>
    BY <1>7 DEF CloseTag, Quotes, Moves, Takes
  <2>2. s.tag = tag
    BY <2>1 DEF Follows
  <2>3. Goes(s, t, "none", Len(tag)) /\ t.parens = s.parens
    BY <1>1, <2>1, <2>2, TokenInside
  <2> QED
    BY <1>1, <1>2, <2>1, <2>3, FollowsOn
<1> QED
  BY <1>3, <1>4, <1>5, <1>6, <1>7

LEMMA ScanSkips ==
    ASSUME SplitTypeOK, Regular, NEW s, LexerOK(s), Follows(s), s.at = ptr, NEW t, t = Token(s), Slash
    PROVE  Follows(t)' /\ ~ Cut(s) /\ UNCHANGED <<list, text, start>>
<1>1. text \in Seq(Chars) /\ ptr \in Nat /\ s.at = ptr /\ s.mode = qs /\ s.parens = parens
  BY DEF SplitTypeOK, Follows
<1>2. /\ Char(ptr) = "\\"
      /\ qs = "none" \/ (qs = "single" /\ escapes)
      /\ UNCHANGED <<qs, escapes, parens, tag>> /\ ptr' = ptr + 2 /\ UNCHANGED <<list, text, start>>
  BY DEF Slash, Moves, Takes
<1>3. ~ Cut(s)
  BY <1>1, <1>2 DEF Cut
<1>4. CASE qs = "none"
  <2>1. Goes(s, t, "none", 2) /\ t.parens = s.parens
    BY <1>1, <1>2, <1>4, TokenOutside
  <2> QED
    BY <1>1, <1>2, <1>3, <1>4, <2>1, FollowsOn
<1>5. CASE qs = "single" /\ escapes
  <2>1. s.escapes = escapes
    BY <1>5 DEF Follows
  <2>2. Goes(s, t, "single", 2) /\ t.parens = s.parens /\ t.escapes = s.escapes
    <3>1. s.mode = "single" /\ Char(s.at) = "\\" /\ s.escapes /\ Char(s.at) # "'"
      BY <1>1, <1>2, <1>5, <2>1
    <3> QED
      BY <1>1, <3>1, TokenInside
  <2> QED
    BY <1>1, <1>2, <1>3, <1>5, <2>1, <2>2, FollowsOn
<1> QED
  BY <1>2, <1>4, <1>5

LEMMA ScanCuts ==
    ASSUME SplitTypeOK, Regular, NEW s, LexerOK(s), Follows(s), s.at = ptr, NEW t, t = Token(s),
           Semicolon
    PROVE  Follows(t)' /\ Cut(s) /\ text' = text
<1>1. text \in Seq(Chars) /\ ptr \in Nat /\ s.at = ptr /\ s.mode = qs /\ s.parens = parens
  BY DEF SplitTypeOK, Follows
<1>2. /\ qs = "none" /\ parens = 0 /\ Char(ptr) = ";"
      /\ UNCHANGED <<qs, escapes, parens, tag>> /\ ptr' = ptr + 1 /\ text' = text
  BY DEF Semicolon, Takes
<1>3. ~ Has(ptr, <<"/", "*">>) /\ ~ Has(ptr, <<"-", "-">>) /\ Tags(ptr) = {}
  BY <1>1, <1>2, HasTwo, OneTag
<1>4. Goes(s, t, "none", 1) /\ t.parens = s.parens
  BY <1>1, <1>2, <1>3, TokenOutside
<1> QED
  BY <1>1, <1>2, <1>4, FollowsOn DEF Cut

LEMMA ScanCounts ==
    ASSUME SplitTypeOK, Regular, NEW s, LexerOK(s), Follows(s), s.at = ptr, NEW t, t = Token(s), Other
    PROVE  Follows(t)' /\ ~ Cut(s) /\ UNCHANGED <<list, text, start>>
<1>1. text \in Seq(Chars) /\ ptr \in Nat /\ s.at = ptr /\ s.mode = qs /\ s.parens = parens
  BY DEF SplitTypeOK, Follows
<1>2. /\ UNCHANGED <<qs, escapes, parens, tag>> /\ ptr' = ptr + 1 /\ UNCHANGED <<list, text, start>>
      /\ Plain
  BY DEF Other, Moves, Takes
<1>3. CASE qs = "none"
  <2>1. /\ ~ Has(ptr, <<"/", "*">>) /\ ~ Has(ptr, <<"-", "-">>) /\ Tags(ptr) = {}
        /\ Char(ptr) \notin {"\\", "'", "\"", "("}
        /\ Char(ptr) = ")" => parens = 0
        /\ Char(ptr) = ";" => parens # 0
    BY <1>2, <1>3 DEF Plain
  <2>2. ~ (Char(ptr) = ")" /\ parens > 0)
    <3>1. Char(ptr) = ")" => parens = 0
      BY <2>1
    <3> QED
      BY <3>1
  <2>3. Goes(s, t, "none", 1) /\ t.parens = s.parens
    BY <1>1, <1>3, <2>1, <2>2, TokenOutside
  <2>4. ~ Cut(s)
    BY <1>1, <2>1 DEF Cut
  <2> QED
    BY <1>1, <1>2, <1>3, <2>3, <2>4, FollowsOn
<1>4. CASE qs \in {"block", "line", "double"}
  <2>1. InComment \/ (qs = "double" /\ Char(ptr) # "\"")
    BY <1>2, <1>4 DEF Plain
  <2>2. Goes(s, t, qs, 1) /\ t.parens = s.parens
    BY <1>1, <1>4, <2>1, TokenInside DEF InComment
  <2> QED
    BY <1>1, <1>2, <1>4, <2>2, FollowsOn DEF Cut
<1>5. CASE qs = "single"
  <2>1. s.escapes = escapes
    BY <1>5 DEF Follows
  <2>2. Char(ptr) # "'" /\ ~ (Char(ptr) = "\\" /\ escapes)
    BY <1>2, <1>5 DEF Plain
  <2>3. Goes(s, t, "single", 1) /\ t.parens = s.parens /\ t.escapes = s.escapes
    BY <1>1, <1>5, <2>1, <2>2, TokenInside
  <2> QED
    BY <1>1, <1>2, <1>5, <2>1, <2>3, FollowsOn DEF Cut
<1>6. CASE qs = "tag"
  <2>1. s.tag = tag
    BY <1>6 DEF Follows
  <2>2. ~ Has(ptr, tag)
    BY <1>2, <1>6 DEF Plain
  <2>3. Goes(s, t, "tag", 1) /\ t.parens = s.parens /\ t.tag = s.tag
    BY <1>1, <1>6, <2>1, <2>2, TokenInside
  <2> QED
    BY <1>1, <1>2, <1>6, <2>1, <2>3, FollowsOn DEF Cut
<1> QED
  BY <1>3, <1>4, <1>5, <1>6 DEF SplitTypeOK, Modes

\* The scan takes a dollar tag and the character after it, which in a regular
\* text begins no second tag.
LEMMA ScanTags ==
    ASSUME SplitTypeOK, Regular, ptr + rest = Len(text), phase' = "scan",
           NEW s, LexerOK(s), Follows(s), s.at = ptr, NEW t, t = Token(s), NEW u, u = Token(t),
           OpenTag
    PROVE  /\ Follows(u)' /\ ~ Cut(s) /\ ~ Cut(t) /\ UNCHANGED <<list, text, start>>
           /\ t.at < Len(text)
<1>1. /\ text \in Seq(Chars) /\ ptr \in Nat /\ s.at = ptr /\ s.mode = qs /\ s.parens = parens
      /\ rest \in Int /\ Len(text) \in Nat
  BY DEF SplitTypeOK, Follows
<1>2. PICK g \in Tags(ptr) : tag' = g /\ qs' = "tag" /\ Moves(Len(g) + 1)
  BY DEF OpenTag
<1>3. Len(g) \in Nat /\ Len(g) > 1 /\ Char(ptr) = "$"
  BY <1>1, OneTag
<1>4. /\ qs = "none" /\ parens' = parens
      /\ ptr' = ptr + (Len(g) + 1) /\ UNCHANGED <<list, text, start>> /\ ~ Len(g) + 1 > rest
  BY <1>2 DEF OpenTag, Moves, Takes
<1>5. Goes(s, t, "tag", Len(g)) /\ t.tag = g /\ t.parens = s.parens
  <2>1. s.mode = "none" /\ g \in Tags(s.at)
    BY <1>1, <1>4
  <2> QED
    BY <1>1, <2>1, TokenOutside
<1>6. t.at = ptr + Len(g) /\ t.at < Len(text) /\ t.at \in Nat /\ t.mode = "tag"
  BY <1>1, <1>3, <1>4, <1>5 DEF Goes
<1>7. LexerOK(t)
  BY <1>1, TokenGoesOn
<1>8. ~ Has(t.at, t.tag)
  <2>1. ptr \in 0 .. Len(text)
    BY <1>1, <1>3, <1>6
  <2> QED
    BY <1>2, <1>5, <1>6, <2>1 DEF Regular
<1>9. Goes(t, u, "tag", 1) /\ u.parens = t.parens /\ u.tag = t.tag
  BY <1>1, <1>6, <1>7, <1>8, TokenInside
<1>10. /\ u.mode = qs' /\ u.parens = parens' /\ u.tag = tag' /\ u.at = ptr' /\ qs' = "tag"
  BY <1>1, <1>2, <1>3, <1>4, <1>5, <1>6, <1>9 DEF Goes
<1>11. Follows(u)'
  BY <1>10 DEF Follows
<1>12. ~ Cut(s) /\ ~ Cut(t)
  BY <1>1, <1>3, <1>6 DEF Cut
<1> QED
  BY <1>4, <1>6, <1>11, <1>12

-----------------------------------------------------------------------------
(* Where the queries end.                                                  *)

EndTo(l, n) == {l[i].from + l[i].len : i \in 1 .. n}

\* Contiguous and Copied, for any list.
Tiles(l) ==
    \A k \in 1 .. Len(l) :
        /\ l[k].from = IF k = 1 THEN 0 ELSE l[k - 1].from + l[k - 1].len
        /\ l[k].len > 0
EndOf(l) == IF l = <<>> THEN 0 ELSE l[Len(l)].from + l[Len(l)].len

LEMMA MaxIs ==
    ASSUME NEW S, NEW x \in S, x \in Nat, \A y \in S : y \in Nat /\ y <= x
    PROVE  Max(S) = x
<1>1. PICK m : m = Max(S)
  OBVIOUS
<1>2. \A y \in S : x >= y
  OBVIOUS
<1>3. m \in S /\ \A y \in S : m >= y
  BY <1>1, <1>2 DEF Max
<1>4. m >= x /\ x >= m /\ m \in Nat
  BY <1>2, <1>3
<1> QED
  BY <1>1, <1>4

\* The queries of a list without gaps end in their order.
LEMMA EndsGrow ==
    ASSUME NEW l \in Seq(Query), Tiles(l), NEW n \in 1 .. Len(l)
    PROVE  /\ l[n].from + l[n].len \in Nat
           /\ l[n].from \in Nat /\ l[n].from < l[n].from + l[n].len
           /\ \A e \in EndTo(l, n - 1) : e \in Nat /\ e <= l[n].from
           /\ EndTo(l, n) = EndTo(l, n - 1) \cup {l[n].from + l[n].len}
           /\ l[n].from \in EndTo(l, n - 1) \cup {0}
<1>1. \A i \in 1 .. Len(l) :
          /\ l[i].from \in Nat /\ l[i].len \in Nat /\ l[i].len > 0
          /\ i # 1 => l[i].from = l[i - 1].from + l[i - 1].len
          /\ i = 1 => l[i].from = 0
  <2>1. \A i \in 1 .. Len(l) : l[i].from \in Nat /\ l[i].len \in Nat
    <3>1. \A i \in 1 .. Len(l) : l[i] \in Query
      OBVIOUS
    <3> QED
      BY <3>1 DEF Query
  <2> QED
    BY <2>1 DEF Tiles
<1>2. \A m : m \in 1 .. Len(l) => EndTo(l, m) = EndTo(l, m - 1) \cup {l[m].from + l[m].len}
  <2> TAKE m
  <2> HAVE m \in 1 .. Len(l)
  <2>1. \A i : i \in 1 .. m <=> i \in 1 .. m - 1 \/ i = m
    OBVIOUS
  <2> QED
    BY <2>1 DEF EndTo
<1>3. EndTo(l, 0) = {}
  BY DEF EndTo
<1> DEFINE T == {m \in 0 .. Len(l) - 1 : \A e \in EndTo(l, m) : e \in Nat /\ e <= l[m + 1].from}
<1>4. Len(l) - 1 \in Nat
  OBVIOUS
<1>5. 0 \in T
  BY <1>3, <1>4
<1>6. ASSUME NEW m \in 1 .. Len(l) - 1, m - 1 \in T PROVE m \in T
  <2>1. m \in 1 .. Len(l) /\ m + 1 \in 1 .. Len(l) /\ m - 1 + 1 = m /\ m + 1 - 1 = m
    BY <1>4
  <2>2. \A e \in EndTo(l, m - 1) : e \in Nat /\ e <= l[m].from
    BY <1>6, <2>1
  <2>3. l[m + 1].from = l[m].from + l[m].len
    BY <1>1, <2>1
  <2>4. \A e \in EndTo(l, m) : e \in Nat /\ e <= l[m + 1].from
    <3>1. EndTo(l, m) = EndTo(l, m - 1) \cup {l[m].from + l[m].len}
      BY <1>2, <2>1
    <3>2. l[m].from \in Nat /\ l[m].len \in Nat
      BY <1>1, <2>1
    <3> QED
      BY <3>1, <3>2, <2>2, <2>3
  <2> QED
    BY <2>4
<1> HIDE DEF T
<1>7. n - 1 \in T
  <2>1. T \in SUBSET Nat
    BY DEF T
  <2>2. \A m \in 0 .. Len(l) - 1 : m \in T
    BY <1>4, <1>5, <1>6, <2>1, AllNumbers
  <2> QED
    BY <2>2
<1>8. l[n].from \in EndTo(l, n - 1) \cup {0}
  <2>1. CASE n = 1
    BY <2>1, <1>1
  <2>2. CASE n # 1
    <3>1. n - 1 \in 1 .. Len(l) /\ n - 1 \in 1 .. n - 1
      BY <2>2
    <3> QED
      BY <2>2, <3>1, <1>1 DEF EndTo
  <2> QED
    BY <2>1, <2>2
<1>9. \A e \in EndTo(l, n - 1) : e \in Nat /\ e <= l[n].from
  <2>1. n - 1 + 1 = n
    OBVIOUS
  <2> QED
    BY <1>7, <2>1 DEF T
<1> QED
  BY <1>1, <1>2, <1>8, <1>9

\* One query more.
LEMMA EndsAppend ==
    ASSUME NEW l \in Seq(Query), NEW q \in Query, NEW m, m = Append(l, q)
    PROVE  /\ EndTo(m, Len(m)) = EndTo(l, Len(l)) \cup {q.from + q.len}
           /\ EndTo(m, Len(m) - 1) = EndTo(l, Len(l))
<1>1. /\ Len(m) = Len(l) + 1 /\ Len(l) \in Nat /\ m[Len(l) + 1] = q
      /\ \A i \in 1 .. Len(l) : m[i] = l[i]
  BY AppendAt
<1>2. \A i : i \in 1 .. Len(m) <=> i \in 1 .. Len(l) \/ i = Len(l) + 1
  BY <1>1
<1>3. EndTo(m, Len(m)) = EndTo(l, Len(l)) \cup {q.from + q.len}
  BY <1>1, <1>2 DEF EndTo
<1>4. Len(m) - 1 = Len(l)
  BY <1>1
<1>5. EndTo(m, Len(m) - 1) = EndTo(l, Len(l))
  BY <1>1, <1>4 DEF EndTo
<1> QED
  BY <1>3, <1>5

-----------------------------------------------------------------------------
(* Where the lexer cuts.                                                   *)

\* A cut is a token of its own, and nothing to be skipped.
LEMMA CutToken ==
    ASSUME text \in Seq(Chars), NEW s, LexerOK(s), Cut(s), NEW t, t = Token(s)
    PROVE  Goes(s, t, "none", 1) /\ s.at < Len(text) /\ ~ Skips(s)
<1>1. s.mode = "none" /\ Char(s.at) = ";" /\ s.at \in Nat
  BY DEF Cut, LexerOK, LexerType
<1>2. ~ Has(s.at, <<"/", "*">>) /\ ~ Has(s.at, <<"-", "-">>) /\ Tags(s.at) = {}
  <2>1. PICK n \in Nat : n = s.at /\ Char(n) = ";"
    BY <1>1
  <2>2. ~ Has(n, <<"/", "*">>) /\ ~ Has(n, <<"-", "-">>) /\ Tags(n) = {}
    <3>1. ASSUME NEW g \in Tags(n) PROVE FALSE
      <4>1. Char(n) = "$"
        BY OneTag
      <4> QED
        BY <2>1, <4>1
    <3>2. ~ Has(n, <<"/", "*">>) /\ ~ Has(n, <<"-", "-">>)
      <4>1. Has(n, <<"/", "*">>) => Char(n) = "/"
        BY HasTwo
      <4>2. Has(n, <<"-", "-">>) => Char(n) = "-"
        BY HasTwo
      <4> QED
        BY <2>1, <4>1, <4>2
    <3> QED
      BY <3>1, <3>2
  <2> QED
    BY <2>1, <2>2
<1>3. Goes(s, t, "none", 1)
  BY <1>1, <1>2, TokenOutside
<1>4. s.at < Len(text)
  <2>1. s.at \in 0 .. Len(text) - 1
    BY <1>1 DEF Char, NUL
  <2> QED
    BY <2>1
<1>5. ";" \notin Spaces
  BY CharsAssumption DEF Marks
<1>6. ~ Skips(s)
  BY <1>1, <1>3, <1>5 DEF Skips, Goes
<1> QED
  BY <1>3, <1>4, <1>6

CutsTo(r, k) == {r[j].at + 1 : j \in {i \in 0 .. k - 1 : Cut(r[i])}}

LEMMA CutsOn ==
    ASSUME NEW r, NEW k \in Nat
    PROVE  /\ Cut(r[k]) => CutsTo(r, k + 1) = CutsTo(r, k) \cup {r[k].at + 1}
           /\ ~ Cut(r[k]) => CutsTo(r, k + 1) = CutsTo(r, k)
<1>1. \A i : i \in 0 .. k + 1 - 1 <=> i \in 0 .. k - 1 \/ i = k
  OBVIOUS
<1> QED
  BY <1>1 DEF CutsTo

\* Past the text there are no more cuts.
LEMMA AllCuts ==
    ASSUME text \in Seq(Chars), NEW b, NEW r, Lexes(r, b), NEW k \in 0 .. Len(text),
           r[k].at >= Len(text)
    PROVE  CutsTo(r, k) = Cuts(r)
<1>1. Len(text) \in Nat
  OBVIOUS
<1>2. ASSUME NEW j \in 0 .. Len(text), Cut(r[j]) PROVE j \in 0 .. k - 1
  <2>1. r[j].at < Len(text)
    BY <1>2, CutToken DEF Lexes
  <2>2. r[j].at \in Nat /\ r[k].at \in Nat
    BY DEF Lexes, LexerOK, LexerType
  <2>3. k # j /\ (k < j => r[k].at < r[j].at)
    BY <2>1, <2>2 DEF Lexes
  <2> QED
    BY <2>1, <2>2, <2>3
<1>3. \A j : j \in 0 .. k - 1 => j \in 0 .. Len(text)
  BY <1>1
<1>4. \A j : j \in {i \in 0 .. k - 1 : Cut(r[i])} <=> j \in {i \in 0 .. Len(text) : Cut(r[i])}
  BY <1>2, <1>3
<1> QED
  BY <1>4 DEF CutsTo, Cuts

\* After a cut a token begins that is in no quotes.
LEMMA LexerAtCut ==
    ASSUME text \in Seq(Chars), NEW b, NEW r, Lexes(r, b), NEW c \in Cuts(r) \cup {0}
    PROVE  \E j \in 0 .. Len(text) : r[j].at = c /\ r[j].mode = "none"
<1>1. Len(text) \in Nat
  OBVIOUS
<1>2. CASE c = 0
  <2>1. r[0].at = 0 /\ r[0].mode = "none"
    BY DEF Lexes, Lexer
  <2> QED
    BY <1>1, <1>2, <2>1
<1>3. CASE c # 0
  <2>1. PICK i \in 0 .. Len(text) : Cut(r[i]) /\ c = r[i].at + 1
    BY <1>3 DEF Cuts
  <2>2. LexerOK(r[i]) /\ r[i].at >= i
    BY DEF Lexes
  <2>3. PICK t : t = Token(r[i])
    OBVIOUS
  <2>4. Goes(r[i], t, "none", 1) /\ r[i].at < Len(text)
    BY <2>1, <2>2, <2>3, CutToken
  <2>5. i + 1 \in 1 .. Len(text) /\ i + 1 - 1 = i
    BY <1>1, <2>2, <2>4 DEF LexerOK, LexerType
  <2>6. r[i + 1] = t
    BY <2>3, <2>5 DEF Lexes
  <2> QED
    BY <2>1, <2>4, <2>5, <2>6 DEF Goes
<1> QED
  BY <1>2, <1>3

-----------------------------------------------------------------------------
(* The splitter and the lexer.                                             *)

LEMMA CutsStay ==
    ASSUME text' = text
    PROVE  /\ \A s : Cut(s)' <=> Cut(s)
           /\ \A s : Skips(s)' <=> Skips(s)
           /\ \A r, k : CutsTo(r, k)' = CutsTo(r, k)
           /\ \A r : Cuts(r)' = Cuts(r)
           /\ \A b : Read(b)' = Read(b)
           /\ \A b : QueryEnds(b)' = QueryEnds(b)
           /\ Regular' = Regular
<1>1. \A s : Token(s)' = Token(s)
  BY DEF Token, Has, Char, Tags
<1>2. \A s : Cut(s)' <=> Cut(s)
  BY DEF Cut, Char
<1>3. \A s : Skips(s)' <=> Skips(s)
  BY <1>1 DEF Skips, Char
<1>4. \A b : Read(b)' = Read(b)
  BY DEF Read, Lexer, Token, Has, Char, Tags
<1>5. \A r : Cuts(r)' = Cuts(r)
  BY <1>2 DEF Cuts
<1>6. \A r : Empty(r)' = Empty(r)
  BY <1>3, <1>5 DEF Empty
<1>7. \A b : QueryEnds(b)' = QueryEnds(b)
  BY <1>4, <1>5, <1>6 DEF QueryEnds
<1>8. \A r, k : CutsTo(r, k)' = CutsTo(r, k)
  BY <1>2 DEF CutsTo
<1>9. Regular' = Regular
  BY DEF Regular, Has, Tags, Char
<1> QED
  BY <1>2, <1>3, <1>4, <1>5, <1>7, <1>8, <1>9

\* The scan has read k of the tokens, and has split at their cuts.
ScanMatches(r, k) == Follows(r[k]) /\ EndTo(list, Len(list)) = CutsTo(r, k)

\* Every step of the scan goes on, and not past the end.
LEMMA ScanAdvances ==
    ASSUME SplitTypeOK, Scan, qs = "tag" => Len(tag) > 0, ptr + rest = Len(text),
           phase' = "scan"
    PROVE  ptr' > ptr /\ ptr' <= Len(text) /\ text' = text
<1>1. ptr \in Nat /\ rest \in Int /\ Len(text) \in Nat /\ Len(tag) \in Nat
  BY DEF SplitTypeOK
<1>2. ASSUME NEW n \in Nat, n > 0, Takes(n) PROVE ptr' > ptr /\ ptr' <= Len(text)
  BY <1>1, <1>2 DEF Takes
<1>3. ASSUME NEW n \in Nat, n > 0, Moves(n) PROVE ptr' > ptr /\ ptr' <= Len(text) /\ text' = text
  BY <1>2, <1>3 DEF Moves
<1>4. ASSUME OpenBlock \/ CloseBlock \/ OpenLine \/ CloseLine PROVE Moves(1)
  BY <1>4 DEF OpenBlock, CloseBlock, OpenLine, CloseLine
<1>5. ASSUME OpenSingle \/ CloseSingle \/ OpenDouble \/ CloseDouble PROVE Moves(1)
  BY <1>5 DEF OpenSingle, CloseSingle, OpenDouble, CloseDouble
<1>6. ASSUME Parenthesis \/ Other PROVE Moves(1)
  BY <1>6 DEF Parenthesis, Other
<1>7. ASSUME Slash PROVE Moves(2)
  BY <1>7 DEF Slash
<1>8. ASSUME OpenTag PROVE \E n \in Nat : n > 0 /\ Moves(n)
  <2>1. PICK t \in Tags(ptr) : Moves(Len(t) + 1)
    BY <1>8 DEF OpenTag
  <2>2. Len(t) + 1 \in Nat /\ Len(t) + 1 > 0
    BY TagIsText
  <2> QED
    BY <2>1, <2>2
<1>9. ASSUME CloseTag PROVE Len(tag) > 0 /\ Moves(Len(tag))
  BY <1>9 DEF CloseTag
<1>10. ASSUME Semicolon PROVE Takes(1) /\ text' = text
  BY <1>10 DEF Semicolon
<1>11. \/ Moves(1) \/ Moves(2) \/ (Len(tag) > 0 /\ Moves(Len(tag)))
       \/ \E n \in Nat : n > 0 /\ Moves(n)
       \/ (Takes(1) /\ text' = text)
  BY <1>4, <1>5, <1>6, <1>7, <1>8, <1>9, <1>10 DEF Scan
<1>12. ASSUME Moves(1) \/ Moves(2) \/ (Len(tag) > 0 /\ Moves(Len(tag)))
       PROVE  \E n \in Nat : n > 0 /\ Moves(n)
  <2>1. 1 \in Nat /\ 1 > 0 /\ 2 \in Nat /\ 2 > 0
    OBVIOUS
  <2> QED
    BY <1>1, <1>12, <2>1, Zenon
<1>13. ASSUME Takes(1), text' = text PROVE ptr' > ptr /\ ptr' <= Len(text) /\ text' = text
  BY <1>2, <1>13
<1> QED
  BY <1>3, <1>11, <1>12, <1>13

LEMMA ScanKeepsMatch ==
    ASSUME SplitInv, Regular, Scan, phase' = "scan", ptr <= Len(text),
           NEW b, NEW r, Lexes(r, b), NEW k \in 0 .. Len(text), ScanMatches(r, k),
           ptr = 0 => b = escapes'
    PROVE  /\ ptr' > ptr /\ ptr' <= Len(text) /\ text' = text
           /\ \E j \in 0 .. Len(text) : ScanMatches(r, j)'
<1>1. /\ SplitTypeOK /\ ptr + rest = Len(text) /\ Contiguous /\ start = Copied /\ start + element = ptr
      /\ text \in Seq(Chars) /\ ptr \in Nat /\ Len(text) \in Nat /\ list \in Seq(Query)
      /\ rest \in Int /\ phase = "scan" /\ rest # 0 /\ start \in Nat /\ element \in Nat
  <2>1. phase = "scan" /\ rest # 0
    BY ScanMoves DEF SplitInv, Scans, Semicolon
  <2> QED
    BY <2>1 DEF SplitInv, SplitTypeOK, QueriesTileTheText
<1>2. PICK s : s = r[k]
  OBVIOUS
<1>3. LexerOK(s) /\ s.at >= k /\ s.before = b /\ Follows(s) /\ s.at \in Nat
      /\ EndTo(list, Len(list)) = CutsTo(r, k)
  BY <1>2 DEF Lexes, ScanMatches, LexerOK, LexerType
<1>4. qs = "tag" => Len(tag) > 0
  BY <1>3 DEF Follows, LexerOK
<1>5. ptr' > ptr /\ ptr' <= Len(text) /\ text' = text
  BY <1>1, <1>4, ScanAdvances
<1>6. \A i : CutsTo(r, i)' = CutsTo(r, i)
  BY <1>5, CutsStay
<1>7. CASE s.at # ptr
  <2>1. Follows(s)' /\ list' = list
    BY <1>1, <1>3, <1>7, ScanEndsMark
  <2>2. ScanMatches(r, k)'
    BY <2>1, <1>2, <1>3, <1>6 DEF ScanMatches
  <2> QED
    BY <1>5, <2>2
<1>8. CASE s.at = ptr
  <2>1. PICK t : t = Token(s)
    OBVIOUS
  <2>2. k + 1 \in 1 .. Len(text) /\ k + 1 - 1 = k /\ k + 1 \in 0 .. Len(text) /\ k \in Nat
    BY <1>1, <1>3, <1>8
  <2>3. r[k + 1] = t
    BY <1>2, <2>1, <2>2 DEF Lexes
  <2>4. s.at = 0 => s.before = escapes'
    BY <1>3, <1>8
  <2>5. ASSUME Follows(t)', ~ Cut(s), list' = list PROVE ScanMatches(r, k + 1)'
    <3>1. CutsTo(r, k + 1) = CutsTo(r, k)
      BY <1>2, <2>2, <2>5, CutsOn
    <3> QED
      BY <3>1, <2>3, <2>5, <1>3, <1>6 DEF ScanMatches
  <2>6. ASSUME OpenBlock \/ OpenLine \/ OpenSingle \/ OpenDouble \/ Parenthesis
        PROVE  ScanMatches(r, k + 1)'
    BY <1>1, <1>3, <1>8, <2>1, <2>4, <2>5, <2>6, ScanOpens
  <2>7. ASSUME CloseBlock \/ CloseLine \/ CloseSingle \/ CloseDouble \/ CloseTag
        PROVE  ScanMatches(r, k + 1)'
    BY <1>1, <1>3, <1>8, <2>1, <2>5, <2>7, ScanCloses
  <2>8. ASSUME Slash PROVE ScanMatches(r, k + 1)'
    BY <1>1, <1>3, <1>8, <2>1, <2>5, <2>8, ScanSkips
  <2>9. ASSUME Other PROVE ScanMatches(r, k + 1)'
    BY <1>1, <1>3, <1>8, <2>1, <2>5, <2>9, ScanCounts
  <2>10. ASSUME Semicolon PROVE ScanMatches(r, k + 1)'
    <3>1. Follows(t)' /\ Cut(s)
      BY <1>1, <1>3, <1>8, <2>1, <2>10, ScanCuts
    <3>2. CutsTo(r, k + 1) = CutsTo(r, k) \cup {s.at + 1}
      BY <1>2, <2>2, <3>1, CutsOn
    <3>3. PICK q : q = [from |-> start, len |-> element + 1]
      OBVIOUS
    <3>4. q \in Query /\ q.from + q.len = ptr + 1
      BY <1>1, <3>3 DEF Query
    <3>5. list' = Append(list, q)
      BY <2>10, <3>3 DEF Semicolon
    <3>6. EndTo(list', Len(list')) = EndTo(list, Len(list)) \cup {s.at + 1}
      <4>1. PICK m : m = list'
        OBVIOUS
      <4>2. EndTo(m, Len(m)) = EndTo(list, Len(list)) \cup {q.from + q.len}
        BY <1>1, <3>4, <3>5, <4>1, EndsAppend
      <4> QED
        BY <1>8, <3>4, <4>1, <4>2
    <3> QED
      BY <3>1, <3>2, <3>6, <2>3, <1>3, <1>6 DEF ScanMatches
  <2>11. ASSUME OpenTag PROVE \E j \in 0 .. Len(text) : ScanMatches(r, j)'
    <3>1. PICK u : u = Token(t)
      OBVIOUS
    <3>2. /\ Follows(u)' /\ ~ Cut(s) /\ ~ Cut(t) /\ list' = list /\ t.at < Len(text)
      BY <1>1, <1>3, <1>8, <2>1, <2>11, <3>1, ScanTags
    <3>3. t.at >= k + 1 /\ t.at \in Nat
      BY <2>2, <2>3 DEF Lexes, LexerOK, LexerType
    <3>4. k + 2 \in 1 .. Len(text) /\ k + 2 - 1 = k + 1 /\ k + 2 \in 0 .. Len(text) /\ k + 1 + 1 = k + 2
      BY <1>1, <2>2, <3>2, <3>3
    <3>5. r[k + 2] = u
      BY <2>3, <3>1, <3>4 DEF Lexes
    <3>6. CutsTo(r, k + 2) = CutsTo(r, k)
      <4>1. CutsTo(r, k + 1) = CutsTo(r, k)
        BY <1>2, <2>2, <3>2, CutsOn
      <4>2. CutsTo(r, k + 1 + 1) = CutsTo(r, k + 1)
        BY <2>2, <2>3, <3>2, CutsOn
      <4> QED
        BY <4>1, <4>2, <3>4
    <3>7. ScanMatches(r, k + 2)'
      BY <3>2, <3>5, <3>6, <1>3, <1>6 DEF ScanMatches
    <3> QED
      BY <3>4, <3>7
  <2> QED
    BY <1>5, <2>2, <2>6, <2>7, <2>8, <2>9, <2>10, <2>11 DEF Scan
<1> QED
  BY <1>7, <1>8

\* The trim is where the lexer is, in the last query; what it passed is to be
\* skipped.  The lexer cuts at the ends of all queries, or of all but the last.
TrimFollows(s) ==
    /\ s.mode = qs
    /\ s.at = ptr \/ (s.at = ptr + 1 /\ Half(ptr, qs) /\ qs # "none")
LastQuery == list[Len(list)]
TrimMatches(r, k) ==
    /\ TrimFollows(r[k])
    /\ Cuts(r) \in {EndTo(list, Len(list) - 1), EndTo(list, Len(list))}
    /\ ptr >= LastQuery.from
    /\ \A j \in 0 .. k - 1 : r[j].at >= LastQuery.from => Skips(r[j])

\* At the end of the text the lexer is there, too.
LEMMA LexerAtEnd ==
    ASSUME text \in Seq(Chars), ptr = Len(text), NEW mode, Half(ptr, mode)
    PROVE  FALSE
<1>1. Char(ptr) = NUL
  BY DEF Char
<1> QED
  BY <1>1 DEF Half, NUL

\* The last query of the trim is the end of the text.
LEMMA TrimList ==
    ASSUME NEW l \in Seq(Query), Tiles(l), l # <<>>, NEW size, EndOf(l) = size, NEW q, q = l[Len(l)]
    PROVE  /\ Len(l) \in 1 .. Len(l)
           /\ size \in Nat /\ q.from \in Nat /\ q.from < size
           /\ \A e \in EndTo(l, Len(l) - 1) : e \in Nat /\ e <= q.from
           /\ EndTo(l, Len(l)) = EndTo(l, Len(l) - 1) \cup {size}
           /\ q.from \in EndTo(l, Len(l) - 1) \cup {0}
<1>1. Len(l) \in 1 .. Len(l)
  OBVIOUS
<1>2. PICK n : n = Len(l)
  OBVIOUS
<1>3. size = l[n].from + l[n].len /\ q = l[n] /\ n \in 1 .. Len(l)
  BY <1>1, <1>2 DEF EndOf
<1> QED
  BY <1>1, <1>2, <1>3, EndsGrow

LEMMA TrailingMatches ==
    ASSUME SplitInv, Regular, Trailing,
           NEW b, NEW r, Lexes(r, b), NEW k \in 0 .. Len(text), ScanMatches(r, k)
    PROVE  /\ ptr' <= Len(text) /\ text' = text
           /\ \E j \in 0 .. Len(text) : TrimMatches(r, j)'
<1>1. /\ text \in Seq(Chars) /\ Len(text) \in Nat /\ list \in Seq(Query)
      /\ element \in Nat /\ start \in Nat /\ ptr = Len(text) /\ ptr \in Nat
      /\ start + element = ptr
  BY DEF SplitInv, SplitTypeOK, QueriesTileTheText, Trailing
<1>2. text' = text /\ qs' = "none" /\ phase' = "trim"
  BY DEF Trailing
<1>3. PICK l : l = list'
  OBVIOUS
<1>4. l \in Seq(Query) /\ Tiles(l) /\ l # <<>> /\ EndOf(l) = Len(text)
  <2>1. SplitInv'
    BY TrailingKeepsInv
  <2> QED
    BY <1>2, <1>3, <2>1 DEF SplitInv, SplitTypeOK, QueriesTileTheText, Contiguous, Copied, Tiles, EndOf
<1>5. PICK q : q = l[Len(l)]
  OBVIOUS
<1>6. ptr' = q.from
  BY <1>3, <1>5 DEF Trailing
<1>7. /\ q.from \in Nat /\ q.from < Len(text)
      /\ EndTo(l, Len(l)) = EndTo(l, Len(l) - 1) \cup {Len(text)}
      /\ q.from \in EndTo(l, Len(l) - 1) \cup {0}
  BY <1>4, <1>5, TrimList
<1>8. EndTo(list, Len(list)) = Cuts(r)
  <2>1. r[k].at = ptr \/ (r[k].at = ptr + 1 /\ Half(ptr, qs))
    BY DEF ScanMatches, Follows
  <2>2. r[k].at >= Len(text)
    BY <1>1, <2>1
  <2>3. CutsTo(r, k) = Cuts(r)
    BY <1>1, <2>2, AllCuts
  <2> QED
    BY <2>3 DEF ScanMatches
<1>9. Cuts(r) \in {EndTo(l, Len(l) - 1), EndTo(l, Len(l))}
  <2>1. CASE element > 0
    <3>1. PICK p : p = [from |-> start, len |-> element]
      OBVIOUS
    <3>2. p \in Query /\ l = Append(list, p)
      BY <1>1, <1>3, <2>1, <3>1 DEF Query, Trailing
    <3> QED
      BY <1>1, <1>8, <3>2, EndsAppend
  <2>2. CASE ~ element > 0
    <3>1. l = list
      BY <1>3, <2>2 DEF Trailing
    <3> QED
      BY <1>8, <3>1
  <2> QED
    BY <2>1, <2>2
<1>10. q.from \in Cuts(r) \cup {0}
  BY <1>7, <1>9
<1>11. PICK j \in 0 .. Len(text) : r[j].at = q.from /\ r[j].mode = "none"
  <2>1. PICK c \in Cuts(r) \cup {0} : c = q.from
    BY <1>10
  <2>2. \E j \in 0 .. Len(text) : r[j].at = c /\ r[j].mode = "none"
    BY <1>1, LexerAtCut
  <2> QED
    BY <2>1, <2>2
<1>12. ASSUME NEW i \in 0 .. j - 1 PROVE ~ r[i].at >= q.from
  <2>1. i \in 0 .. Len(text) /\ i \in 0 .. j /\ i < j
    BY <1>1
  <2>2. r[i].at < r[j].at /\ r[i].at \in Nat /\ r[j].at \in Nat
    BY <2>1 DEF Lexes, LexerOK, LexerType
  <2> QED
    BY <1>11, <2>2
<1>13. TrimFollows(r[j])'
  BY <1>2, <1>6, <1>11 DEF TrimFollows
<1>14. LastQuery' = q
  BY <1>3, <1>5 DEF LastQuery
<1>15. Cuts(r)' \in {EndTo(list', Len(list') - 1), EndTo(list', Len(list'))}
  <2>1. Cuts(r)' = Cuts(r)
    BY <1>2, CutsStay
  <2> QED
    BY <2>1, <1>3, <1>9
<1>16. ptr' >= q.from
  BY <1>6, <1>7
<1>17. TrimMatches(r, j)'
  BY <1>12, <1>13, <1>14, <1>15, <1>16 DEF TrimMatches
<1> QED
  BY <1>1, <1>2, <1>6, <1>7, <1>17

\* The second half of a mark is one more character.
LEMMA TrimEndsMark ==
    ASSUME SplitTypeOK, NEW s, LexerOK(s), TrimFollows(s), s.at # ptr, TrimComment \/ TrimBlank
    PROVE  TrimFollows(s)'
<1>1. text \in Seq(Chars) /\ ptr \in Nat
  BY DEF SplitTypeOK
<1>2. s.at = ptr + 1 /\ Half(ptr, qs) /\ qs # "none" /\ s.mode = qs
  BY DEF TrimFollows
<1>3. /\ Has(ptr, <<"*", "/">>) => Char(ptr) = "*"
      /\ "-" \notin Newlines
  BY <1>1, HasTwo, CharsAssumption DEF Marks
<1>4. TrimComment
  BY <1>2 DEF TrimBlank
<1>5. Passes(1, qs)
  BY <1>2, <1>3, <1>4 DEF TrimComment, Half
<1>6. qs' = qs /\ ptr' = ptr + 1
  BY <1>5 DEF Passes, Takes
<1> QED
  BY <1>2, <1>6 DEF TrimFollows

LEMMA TrimFollowsOn ==
    ASSUME SplitTypeOK, text' = text, NEW s, s.at = ptr, NEW t, NEW mode, NEW n \in Nat,
           Goes(s, t, mode, n), qs' = mode,
           ptr' = ptr + n \/ (n = 2 /\ ptr' = ptr + 1 /\ Half(ptr + 1, mode) /\ mode # "none")
    PROVE  TrimFollows(t)'
<1>1. t.mode = qs' /\ t.at = ptr + n
  BY DEF Goes
<1>2. CASE ptr' = ptr + n
  BY <1>1, <1>2 DEF TrimFollows
<1>3. CASE n = 2 /\ ptr' = ptr + 1 /\ Half(ptr + 1, mode) /\ mode # "none"
  <2>1. t.at = ptr' + 1
    BY <1>1, <1>3 DEF SplitTypeOK
  <2>2. PICK p : p = ptr'
    OBVIOUS
  <2>3. Half(p, mode)
    BY <1>3, <2>2
  <2>4. Half(ptr, qs)'
    BY <2>2, <2>3, HalfStays
  <2> QED
    BY <1>1, <1>3, <2>1, <2>4 DEF TrimFollows
<1> QED
  BY <1>2, <1>3

\* A token that the trim passes is one of a blank or of a comment.
LEMMA TrimTakesToken ==
    ASSUME SplitTypeOK, Regular, NEW s, LexerOK(s), TrimFollows(s), s.at = ptr,
           NEW t, t = Token(s), TrimComment \/ TrimBlank
    PROVE  TrimFollows(t)' /\ Skips(s)
<1>1. text \in Seq(Chars) /\ ptr \in Nat /\ s.at = ptr /\ s.mode = qs
  BY DEF SplitTypeOK, TrimFollows
<1>2. ASSUME qs = "none", Has(ptr, <<"/", "*">>), Passes(1, "block") PROVE TrimFollows(t)' /\ Skips(s)
  <2>1. qs' = "block" /\ ptr' = ptr + 1 /\ text' = text
    BY <1>2 DEF Passes, Takes
  <2>2. Goes(s, t, "block", 2)
    BY <1>1, <1>2, TokenOutside
  <2>3. Char(ptr + 1) = "*" /\ ~ Has(ptr + 1, <<"*", "/">>)
    BY <1>1, <1>2, HasTwo, NoOverlap
  <2>4. Half(ptr + 1, "block")
    BY <2>3 DEF Half
  <2>5. Skips(s)
    BY <2>2 DEF Skips, Goes
  <2> QED
    BY <1>1, <2>1, <2>2, <2>4, <2>5, TrimFollowsOn
<1>3. ASSUME qs = "none", Has(ptr, <<"-", "-">>), Passes(1, "line") PROVE TrimFollows(t)' /\ Skips(s)
  <2>1. qs' = "line" /\ ptr' = ptr + 1 /\ text' = text
    BY <1>3 DEF Passes, Takes
  <2>2. Goes(s, t, "line", 2)
    BY <1>1, <1>3, TokenOutside
  <2>3. Char(ptr + 1) = "-"
    BY <1>1, <1>3, HasTwo
  <2>4. Half(ptr + 1, "line")
    BY <2>3 DEF Half
  <2>5. Skips(s)
    BY <2>2 DEF Skips, Goes
  <2> QED
    BY <1>1, <2>1, <2>2, <2>4, <2>5, TrimFollowsOn
<1>4. ASSUME qs = "block", Has(ptr, <<"*", "/">>), Passes(2, "none") PROVE TrimFollows(t)' /\ Skips(s)
  <2>1. qs' = "none" /\ ptr' = ptr + 2 /\ text' = text
    BY <1>4 DEF Passes, Takes
  <2>2. Goes(s, t, "none", 2) /\ Skips(s)
    BY <1>1, <1>4, TokenInside DEF Skips
  <2> QED
    BY <1>1, <2>1, <2>2, TrimFollowsOn
<1>5. ASSUME qs = "line", Char(ptr) \in Newlines, Passes(1, "none") PROVE TrimFollows(t)' /\ Skips(s)
  <2>1. qs' = "none" /\ ptr' = ptr + 1 /\ text' = text
    BY <1>5 DEF Passes, Takes
  <2>2. Goes(s, t, "none", 1) /\ Skips(s)
    BY <1>1, <1>5, TokenInside DEF Skips
  <2> QED
    BY <1>1, <2>1, <2>2, TrimFollowsOn
<1>6. ASSUME InComment, Passes(1, qs) PROVE TrimFollows(t)' /\ Skips(s)
  <2>1. qs' = qs /\ ptr' = ptr + 1 /\ text' = text
    BY <1>6 DEF Passes, Takes
  <2>2. Goes(s, t, qs, 1) /\ Skips(s)
    BY <1>1, <1>6, TokenInside DEF Skips, InComment
  <2> QED
    BY <1>1, <2>1, <2>2, TrimFollowsOn
<1>7. ASSUME TrimBlank PROVE TrimFollows(t)' /\ Skips(s)
  <2>1. /\ qs = "none" /\ ~ Has(ptr, <<"/", "*">>) /\ ~ Has(ptr, <<"-", "-">>)
        /\ Char(ptr) \in Spaces \cup {"\\"}
        /\ qs' = "none" /\ text' = text /\ ptr' = ptr + (IF Char(ptr) = "\\" THEN 2 ELSE 1)
    BY <1>7 DEF TrimBlank, Comment, Blank, Passes, Takes
  <2>2. Skips(s)
    BY <1>1, <2>1 DEF Skips
  <2>3. CASE Char(ptr) = "\\"
    <3>1. Goes(s, t, "none", 2)
      BY <1>1, <2>1, <2>3, TokenOutside
    <3> QED
      BY <1>1, <2>1, <2>2, <2>3, <3>1, TrimFollowsOn
  <2>4. CASE Char(ptr) # "\\"
    <3>1. Char(ptr) \notin Marks
      BY <2>1, <2>4, CharsAssumption
    <3>2. Char(ptr) \notin {"\\", "'", "\"", "(", ")", "$"}
      BY <3>1 DEF Marks
    <3>3. Tags(ptr) = {}
      BY <1>1, <3>2, OneTag
    <3>4. Goes(s, t, "none", 1)
      BY <1>1, <2>1, <3>2, <3>3, TokenOutside
    <3> QED
      BY <1>1, <2>1, <2>2, <2>4, <3>4, TrimFollowsOn
  <2> QED
    BY <2>3, <2>4
<1> QED
  BY <1>2, <1>3, <1>4, <1>5, <1>6, <1>7 DEF TrimComment

LEMMA TrimKeepsMatch ==
    ASSUME SplitInv, Regular, TrimComment \/ TrimBlank, phase' = "trim", ptr <= Len(text),
           NEW b, NEW r, Lexes(r, b), NEW k \in 0 .. Len(text), TrimMatches(r, k)
    PROVE  /\ ptr' <= Len(text) /\ text' = text
           /\ \E j \in 0 .. Len(text) : TrimMatches(r, j)'
<1>1. /\ SplitTypeOK /\ ptr + rest = Len(text) /\ text \in Seq(Chars) /\ ptr \in Nat
      /\ Len(text) \in Nat /\ rest \in Int /\ list \in Seq(Query)
      /\ Tiles(list) /\ list # <<>> /\ EndOf(list) = Len(text) /\ rest # 0
  BY DEF SplitInv, SplitTypeOK, QueriesTileTheText, TrimComment, TrimBlank, Trims, Contiguous, Copied,
         Tiles, EndOf
<1>2. \E n \in {1, 2}, mode \in Modes : Passes(n, mode)
  <2>1. ASSUME TrimComment PROVE \E n \in {1, 2}, mode \in Modes : Passes(n, mode)
    BY <1>1, <2>1 DEF TrimComment, Modes, SplitTypeOK
  <2>2. ASSUME TrimBlank PROVE \E n \in {1, 2}, mode \in Modes : Passes(n, mode)
    BY <2>2 DEF TrimBlank, Modes
  <2> QED
    BY <2>1, <2>2
<1>3. PICK n \in {1, 2} : \E mode \in Modes : Passes(n, mode)
  BY <1>2
<1>4. ptr' = ptr + n /\ ptr' <= Len(text) /\ text' = text /\ list' = list
  BY <1>1, <1>3 DEF Passes, Takes
<1>5. PICK s : s = r[k]
  OBVIOUS
<1>6. LexerOK(s) /\ s.at >= k /\ TrimFollows(s) /\ s.at \in Nat
  BY <1>5 DEF Lexes, TrimMatches, LexerOK, LexerType
<1>7. /\ Cuts(r)' = Cuts(r) /\ \A i : Skips(i)' <=> Skips(i)
  BY <1>4, CutsStay
<1>8. PICK q : q = LastQuery
  OBVIOUS
<1>9. q.from \in Nat
  BY <1>1, <1>8, TrimList DEF LastQuery
<1>10. /\ ptr' >= q.from /\ LastQuery' = q
       /\ Cuts(r)' \in {EndTo(list', Len(list') - 1), EndTo(list', Len(list'))}
  BY <1>1, <1>3, <1>4, <1>7, <1>8, <1>9 DEF TrimMatches, LastQuery
<1>11. \A j \in 0 .. k - 1 : r[j].at >= q.from => Skips(r[j])
  BY <1>8 DEF TrimMatches
<1>12. CASE s.at # ptr
  <2>1. TrimFollows(s)'
    BY <1>1, <1>6, <1>12, TrimEndsMark
  <2>2. TrimMatches(r, k)'
    BY <2>1, <1>5, <1>7, <1>10, <1>11 DEF TrimMatches
  <2> QED
    BY <1>4, <2>2
<1>13. CASE s.at = ptr
  <2>1. PICK t : t = Token(s)
    OBVIOUS
  <2>2. TrimFollows(t)' /\ Skips(s)
    BY <1>1, <1>6, <1>13, <2>1, TrimTakesToken
  <2>3. k + 1 \in 1 .. Len(text) /\ k + 1 - 1 = k /\ k + 1 \in 0 .. Len(text) /\ k \in Nat
    BY <1>1, <1>4, <1>3, <1>6, <1>13
  <2>4. r[k + 1] = t
    BY <1>5, <2>1, <2>3 DEF Lexes
  <2>5. \A j \in 0 .. k + 1 - 1 : j \in 0 .. k - 1 \/ j = k
    BY <2>3
  <2>6. \A j \in 0 .. k + 1 - 1 : r[j].at >= q.from => Skips(r[j])
    BY <1>5, <1>11, <2>2, <2>5
  <2>7. TrimMatches(r, k + 1)'
    BY <2>2, <2>4, <2>6, <1>7, <1>10 DEF TrimMatches
  <2> QED
    BY <1>4, <2>3, <2>7
<1> QED
  BY <1>12, <1>13

\* The trim ends in the last query: it stays.
LEMMA TrimBreaksAsNoted ==
    ASSUME SplitInv, Regular, TrimBreaks, ptr <= Len(text),
           NEW b, NEW r, r = Read(b), Lexes(r, b), NEW k \in 0 .. Len(text), TrimMatches(r, k)
    PROVE  EndTo(list, Len(list)) = QueryEnds(b)
<1>1. /\ SplitTypeOK /\ ptr + rest = Len(text) /\ text \in Seq(Chars) /\ ptr \in Nat
      /\ Len(text) \in Nat /\ rest \in Int /\ list \in Seq(Query)
      /\ Tiles(list) /\ list # <<>> /\ EndOf(list) = Len(text) /\ rest # 0
      /\ qs = "none" /\ ~ Comment /\ ~ Blank
  BY DEF SplitInv, SplitTypeOK, QueriesTileTheText, TrimBreaks, Trims, Contiguous, Copied, Tiles, EndOf
<1>2. PICK q : q = LastQuery
  OBVIOUS
<1>3. /\ q.from \in Nat /\ q.from < Len(text)
      /\ \A e \in EndTo(list, Len(list) - 1) : e \in Nat /\ e <= q.from
      /\ EndTo(list, Len(list)) = EndTo(list, Len(list) - 1) \cup {Len(text)}
      /\ q.from \in EndTo(list, Len(list) - 1) \cup {0}
  BY <1>1, <1>2, TrimList DEF LastQuery
<1>4. PICK s : s = r[k]
  OBVIOUS
<1>5. LexerOK(s) /\ s.mode = "none" /\ s.at = ptr /\ ptr >= q.from /\ ptr < Len(text)
  BY <1>1, <1>2, <1>4 DEF TrimMatches, TrimFollows, Lexes
<1>6. ~ Skips(s)
  <2>1. PICK t : t = Token(s)
    OBVIOUS
  <2>2. /\ ~ Has(s.at, <<"/", "*">>) /\ ~ Has(s.at, <<"-", "-">>)
        /\ Char(s.at) \notin Spaces \cup {"\\"}
    BY <1>1, <1>5 DEF Comment, Blank
  <2>3. \E mode \in {"none", "single", "double", "tag"} : t.mode = mode
    <3>1. \A g \in Tags(s.at) : t.mode = "tag"
      BY <1>1, <1>5, <2>1, TokenOutside DEF Goes
    <3>2. CASE Tags(s.at) = {}
      BY <1>1, <1>5, <2>1, <2>2, <3>2, TokenOutside DEF Goes
    <3> QED
      BY <3>1, <3>2
  <2> QED
    BY <1>5, <2>1, <2>2, <2>3 DEF Skips
<1>7. QueryEnds(b) = Cuts(r) \cup (IF Empty(r) THEN {} ELSE {Len(text)})
  BY DEF QueryEnds
<1>8. CASE Cuts(r) = EndTo(list, Len(list))
  BY <1>3, <1>7, <1>8
<1>9. CASE Cuts(r) = EndTo(list, Len(list) - 1)
  <2>1. Max(Cuts(r) \cup {0}) = q.from
    <3>1. PICK S : S = Cuts(r) \cup {0}
      OBVIOUS
    <3>2. PICK x \in S : x = q.from
      BY <1>3, <1>9, <3>1
    <3>3. x \in Nat /\ \A y \in S : y \in Nat /\ y <= x
      BY <1>3, <1>9, <3>1, <3>2
    <3> QED
      BY <3>1, <3>2, <3>3, MaxIs
  <2>2. s.at \in q.from .. Len(text) - 1
    BY <1>1, <1>3, <1>5
  <2>3. ~ Empty(r)
    BY <1>4, <1>6, <2>1, <2>2 DEF Empty
  <2> QED
    BY <1>3, <1>7, <1>9, <2>3
<1> QED
  BY <1>8, <1>9 DEF TrimMatches

\* The trim passed the last query: it is dropped.
LEMMA TrimDropsAsNoted ==
    ASSUME SplitInv, Regular, TrimDrops, ptr <= Len(text),
           NEW b, NEW r, r = Read(b), Lexes(r, b), NEW k \in 0 .. Len(text), TrimMatches(r, k)
    PROVE  EndTo(list', Len(list')) = QueryEnds(b)
<1>1. /\ SplitTypeOK /\ ptr = Len(text) /\ text \in Seq(Chars) /\ ptr \in Nat
      /\ Len(text) \in Nat /\ list \in Seq(Query)
      /\ Tiles(list) /\ list # <<>> /\ EndOf(list) = Len(text)
  BY DEF SplitInv, SplitTypeOK, QueriesTileTheText, TrimDrops, Contiguous, Copied, Tiles, EndOf
<1>2. PICK q : q = LastQuery
  OBVIOUS
<1>3. /\ q.from \in Nat /\ q.from < Len(text)
      /\ \A e \in EndTo(list, Len(list) - 1) : e \in Nat /\ e <= q.from
      /\ EndTo(list, Len(list)) = EndTo(list, Len(list) - 1) \cup {Len(text)}
      /\ q.from \in EndTo(list, Len(list) - 1) \cup {0}
      /\ Len(list) \in 1 .. Len(list)
  BY <1>1, <1>2, TrimList DEF LastQuery
<1>4. EndTo(list', Len(list')) = EndTo(list, Len(list) - 1)
  <2>1. PICK n : n = Len(list) - 1
    OBVIOUS
  <2>2. n \in 0 .. Len(list) /\ list' = SubSeq(list, 1, n)
    BY <1>1, <1>3, <2>1 DEF TrimDrops, Front
  <2>3. /\ Len(list') = n
        /\ \A i \in 1 .. Len(list') : list'[i] = list[i]
    BY <1>1, <2>2, PrefixAt
  <2> QED
    BY <2>1, <2>3 DEF EndTo
<1>5. r[k].at = Len(text)
  <2>1. r[k].at = ptr \/ (r[k].at = ptr + 1 /\ Half(ptr, qs))
    BY DEF TrimMatches, TrimFollows
  <2> QED
    BY <1>1, <2>1, LexerAtEnd
<1>6. ASSUME NEW j \in 0 .. Len(text), r[j].at \in q.from .. Len(text) - 1 PROVE Skips(r[j])
  <2>1. ~ k < j /\ k # j
    BY <1>1, <1>3, <1>5, <1>6 DEF Lexes
  <2>2. j \in 0 .. k - 1 /\ r[j].at >= q.from
    BY <1>1, <1>3, <1>6, <2>1
  <2> QED
    BY <1>2, <2>2 DEF TrimMatches
<1>7. Cuts(r) # EndTo(list, Len(list))
  <2> SUFFICES ASSUME Len(text) \in Cuts(r) PROVE FALSE
    BY <1>3
  <2>1. PICK i \in 0 .. Len(text) : Cut(r[i]) /\ Len(text) = r[i].at + 1
    BY DEF Cuts
  <2>2. LexerOK(r[i]) /\ r[i].at \in Nat
    BY DEF Lexes, LexerOK, LexerType
  <2>3. r[i].at \in q.from .. Len(text) - 1
    BY <1>1, <1>3, <2>1, <2>2
  <2> QED
    BY <1>1, <1>6, <2>1, <2>2, <2>3, CutToken
<1>8. Cuts(r) = EndTo(list, Len(list) - 1)
  BY <1>7 DEF TrimMatches
<1>9. Empty(r)
  <2>1. Max(Cuts(r) \cup {0}) = q.from
    <3>1. PICK S : S = Cuts(r) \cup {0}
      OBVIOUS
    <3>2. PICK x \in S : x = q.from
      BY <1>3, <1>8, <3>1
    <3>3. x \in Nat /\ \A y \in S : y \in Nat /\ y <= x
      BY <1>3, <1>8, <3>1, <3>2
    <3> QED
      BY <3>1, <3>2, <3>3, MaxIs
  <2> QED
    BY <1>6, <2>1 DEF Empty
<1>10. QueryEnds(b) = Cuts(r) \cup (IF Empty(r) THEN {} ELSE {Len(text)})
  BY DEF QueryEnds
<1> QED
  BY <1>4, <1>8, <1>9, <1>10

-----------------------------------------------------------------------------
(* The splitter splits as it is noted.                                     *)

\* Before the first character nothing is read, and what the memory holds
\* before the text is still open.
LexInv ==
    Regular =>
        /\ phase = "scan" =>
               /\ ptr <= Len(text)
               /\ ptr = 0 => qs = "none" /\ parens = 0 /\ list = <<>>
               /\ \E b \in BOOLEAN : \E k \in 0 .. Len(text) : ScanMatches(Read(b), k)
        /\ phase = "trim" =>
               /\ ptr <= Len(text)
               /\ \E b \in BOOLEAN : \E k \in 0 .. Len(text) : TrimMatches(Read(b), k)
        /\ phase = "done" => \E b \in BOOLEAN : EndTo(list, Len(list)) = QueryEnds(b)

\* Nothing is read yet.
LEMMA NothingRead ==
    ASSUME text \in Seq(Chars), ptr = 0, qs = "none", parens = 0, list = <<>>, NEW b \in BOOLEAN
    PROVE  ScanMatches(Read(b), 0) /\ 0 \in 0 .. Len(text)
<1>1. Lexes(Read(b), b) /\ Len(text) \in Nat
  BY LexerReads
<1>2. PICK r : r = Read(b)
  OBVIOUS
<1>3. r[0] = Lexer(b)
  BY <1>1, <1>2 DEF Lexes
<1>4. Follows(r[0])
  BY <1>3 DEF Follows, Lexer
<1>5. EndTo(list, Len(list)) = {} /\ CutsTo(r, 0) = {}
  BY DEF EndTo, CutsTo
<1>6. ScanMatches(r, 0)
  BY <1>4, <1>5 DEF ScanMatches
<1>7. 0 \in 0 .. Len(text)
  BY <1>1
<1> QED
  BY <1>2, <1>6, <1>7

LEMMA ScanKeepsLex ==
    ASSUME SplitInv, LexInv, Scan
    PROVE  LexInv'
<1>1. phase = "scan" /\ text' = text /\ phase' \in {"scan", "over"} /\ text \in Seq(Chars)
      /\ ptr \in Nat /\ escapes' \in BOOLEAN
  BY ScanMoves DEF SplitInv, SplitTypeOK, Scans, Moves, Takes, Semicolon, Memory
<1> SUFFICES ASSUME Regular, phase' = "scan"
             PROVE  /\ ptr' <= Len(text)
                    /\ ptr' # 0
                    /\ \E b \in BOOLEAN : \E k \in 0 .. Len(text) : ScanMatches(Read(b), k)'
  <2>1. Regular' = Regular /\ \A b : Read(b)' = Read(b)
    BY <1>1, CutsStay
  <2> QED
    BY <1>1, <2>1 DEF LexInv
<1>2. PICK b \in BOOLEAN, k \in 0 .. Len(text) : ScanMatches(Read(b), k) /\ (ptr = 0 => b = escapes')
  <2>1. CASE ptr = 0
    BY <1>1, <2>1, NothingRead DEF LexInv
  <2>2. CASE ptr # 0
    BY <1>1, <2>2 DEF LexInv
  <2> QED
    BY <2>1, <2>2
<1>3. PICK r : r = Read(b)
  OBVIOUS
<1>4. Lexes(r, b) /\ ScanMatches(r, k)
  BY <1>1, <1>2, <1>3, LexerReads
<1>5. /\ ptr' > ptr /\ ptr' <= Len(text)
      /\ \E j \in 0 .. Len(text) : ScanMatches(r, j)'
  BY <1>1, <1>2, <1>4, ScanKeepsMatch DEF LexInv
<1>6. Read(b)' = r
  BY <1>1, <1>3, CutsStay
<1>7. \E j \in 0 .. Len(text) : ScanMatches(Read(b), j)'
  BY <1>5, <1>6
<1>8. ptr' # 0
  BY <1>1, <1>5
<1> QED
  BY <1>5, <1>7, <1>8

LEMMA TrailingKeepsLex ==
    ASSUME SplitInv, LexInv, Trailing
    PROVE  LexInv'
<1>1. phase = "scan" /\ text' = text /\ phase' = "trim" /\ text \in Seq(Chars)
  BY DEF SplitInv, SplitTypeOK, Trailing
<1> SUFFICES ASSUME Regular
             PROVE  /\ ptr' <= Len(text)
                    /\ \E b \in BOOLEAN : \E k \in 0 .. Len(text) : TrimMatches(Read(b), k)'
  <2>1. Regular' = Regular
    BY <1>1, CutsStay
  <2> QED
    BY <1>1, <2>1 DEF LexInv
<1>2. PICK b \in BOOLEAN, k \in 0 .. Len(text) : ScanMatches(Read(b), k)
  BY <1>1 DEF LexInv
<1>3. PICK r : r = Read(b)
  OBVIOUS
<1>4. Lexes(r, b) /\ ScanMatches(r, k)
  BY <1>1, <1>2, <1>3, LexerReads
<1>5. ptr' <= Len(text) /\ \E j \in 0 .. Len(text) : TrimMatches(r, j)'
  BY <1>4, TrailingMatches
<1>6. Read(b)' = r
  BY <1>1, <1>3, CutsStay
<1>7. \E j \in 0 .. Len(text) : TrimMatches(Read(b), j)'
  BY <1>5, <1>6
<1> QED
  BY <1>5, <1>7

LEMMA TrimKeepsLex ==
    ASSUME SplitInv, LexInv, TrimComment \/ TrimBlank \/ TrimBreaks \/ TrimDrops
    PROVE  LexInv'
<1>1. phase = "trim" /\ text' = text /\ text \in Seq(Chars) /\ phase' \in {"trim", "done", "over"}
  BY DEF SplitInv, SplitTypeOK, TrimComment, TrimBlank, TrimBreaks, TrimDrops, Trims, Passes, Takes
<1>2. Regular' = Regular /\ (\A b : Read(b)' = Read(b)) /\ \A b : QueryEnds(b)' = QueryEnds(b)
  BY <1>1, CutsStay
<1> SUFFICES ASSUME Regular PROVE LexInv'
  BY <1>2 DEF LexInv
<1>3. PICK b \in BOOLEAN, k \in 0 .. Len(text) : ptr <= Len(text) /\ TrimMatches(Read(b), k)
  BY <1>1 DEF LexInv
<1>4. PICK r : r = Read(b)
  OBVIOUS
<1>5. Lexes(r, b) /\ TrimMatches(r, k) /\ ptr <= Len(text)
  BY <1>1, <1>3, <1>4, LexerReads
<1>6. ASSUME TrimComment \/ TrimBlank PROVE LexInv'
  <2>1. phase' \in {"trim", "over"}
    BY <1>1, <1>6 DEF TrimComment, TrimBlank, Passes, Takes
  <2>2. ASSUME phase' = "trim"
        PROVE  ptr' <= Len(text) /\ \E j \in 0 .. Len(text) : TrimMatches(r, j)'
    BY <1>5, <1>6, <2>2, TrimKeepsMatch
  <2>3. Read(b)' = r
    BY <1>2, <1>4
  <2>4. ASSUME phase' = "trim" PROVE \E j \in 0 .. Len(text) : TrimMatches(Read(b), j)'
    BY <2>2, <2>3, <2>4
  <2> QED
    BY <1>1, <2>1, <2>2, <2>4 DEF LexInv
<1>7. ASSUME TrimBreaks PROVE LexInv'
  <2>1. EndTo(list, Len(list)) = QueryEnds(b)
    BY <1>4, <1>5, <1>7, TrimBreaksAsNoted
  <2>2. list' = list /\ phase' = "done" /\ QueryEnds(b)' = QueryEnds(b)
    BY <1>2, <1>7 DEF TrimBreaks
  <2> QED
    BY <2>1, <2>2 DEF LexInv
<1>8. ASSUME TrimDrops PROVE LexInv'
  <2>1. EndTo(list', Len(list')) = QueryEnds(b)
    BY <1>4, <1>5, <1>8, TrimDropsAsNoted
  <2>2. phase' = "done" /\ QueryEnds(b)' = QueryEnds(b)
    BY <1>2, <1>8 DEF TrimDrops
  <2> QED
    BY <2>1, <2>2 DEF LexInv
<1> QED
  BY <1>6, <1>7, <1>8

LEMMA LexInvariant == SplitSpec => [](SplitInv /\ LexInv)
<1>1. SplitInit /\ SplitInv => LexInv
  <2> SUFFICES ASSUME SplitInit, SplitInv PROVE LexInv
    OBVIOUS
  <2>1. text \in Seq(Chars) /\ Len(text) \in Nat
    BY DEF SplitInv, SplitTypeOK
  <2>2. ptr = 0 /\ qs = "none" /\ parens = 0 /\ list = <<>> /\ phase = "scan"
    BY DEF SplitInit
  <2>3. ScanMatches(Read(TRUE), 0) /\ 0 \in 0 .. Len(text)
    BY <2>1, <2>2, NothingRead
  <2>4. ptr <= Len(text)
    BY <2>1, <2>2
  <2> QED
    BY <2>2, <2>3, <2>4 DEF LexInv
<1>2. SplitInv /\ LexInv /\ [SplitNext]_svars => LexInv'
  <2> SUFFICES ASSUME SplitInv, LexInv, [SplitNext]_svars PROVE LexInv'
    OBVIOUS
  <2>1. ASSUME UNCHANGED svars PROVE LexInv'
    <3>1. /\ UNCHANGED <<text, phase, ptr, qs, escapes, parens, tag, list>>
      BY <2>1 DEF svars
    <3>2. Regular' = Regular
      BY <3>1, CutsStay
    <3>3. \A b : Read(b)' = Read(b) /\ QueryEnds(b)' = QueryEnds(b)
      BY <3>1, CutsStay
    <3>4. \A r, k : ScanMatches(r, k)' <=> ScanMatches(r, k)
      BY <3>1, CutsStay DEF ScanMatches, Follows, Half, Char, Has, EndTo
    <3>5. \A r, k : TrimMatches(r, k)' <=> TrimMatches(r, k)
      BY <3>1, CutsStay DEF TrimMatches, TrimFollows, LastQuery, Half, Char, Has, EndTo
    <3>6. EndTo(list, Len(list))' = EndTo(list, Len(list))
      BY <3>1
    <3> QED
      BY <3>1, <3>2, <3>3, <3>4, <3>5, <3>6 DEF LexInv
  <2> QED
    BY <2>1, ScanKeepsLex, TrailingKeepsLex, TrimKeepsLex DEF SplitNext
<1> QED
  BY <1>1, <1>2, SplitInvariant, PTL DEF SplitSpec

\* For every regular text the queries are those that a lexer of the notes
\* finds, and an empty last query is dropped (util_sql_split.c, the notes at
\* its top; util_sql_split.h).
THEOREM SplitsAsNotedAlways == SplitSpec => []SplitsAsNoted
<1>1. LexInv => SplitsAsNoted
  BY DEF LexInv, SplitsAsNoted, EndTo
<1> QED
  BY <1>1, LexInvariant, PTL
=============================================================================
