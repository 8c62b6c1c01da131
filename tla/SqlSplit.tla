------------------------------- MODULE SqlSplit -------------------------------
(***************************************************************************)
(* DArray_sql_split: how the text of a RAW request is split into queries.  *)
(*                                                                         *)
(* One step is one iteration of one of the two loops: the scan, which cuts *)
(* the text at semicolons that are in no quotes, comments or parentheses,  *)
(* and the trim, which drops a last query of blanks and comments only.     *)
(*                                                                         *)
(* Positions are offsets into the text, from 0.  A query is kept as the    *)
(* part of the text that is copied for it.                                 *)
(***************************************************************************)
EXTENDS Integers, Sequences, SequencesExt

CONSTANTS
    Chars,    \* the characters
    TagChars, \* those of a dollar tag: letters, digits and _
    Spaces,   \* isspace, newlines among them
    Newlines, \* \n and \r
    Texts     \* the texts of requests

\* The characters that mean something to the splitter are no letters and no
\* blanks (isalnum, isspace).
Marks == {"/", "*", "-", "\\", "'", "\"", "(", ")", "$", ";"}
ASSUME CharsAssumption == Marks \cap (TagChars \cup Spaces \cup Newlines) = {}

ASSUME TextsAssumption == Texts \subseteq Seq(Chars) \ {<<>>}

VARIABLES
    text,
    phase,    \* scan, trim, done, or over: past the end of the text
    ptr,      \* ptr_loop
    rest,     \* int_inputstring_len
    start,    \* ptr_start
    element,  \* int_element_len
    qs,       \* int_qs: none, tag, single, double, block, line
    escapes,  \* int_E_quote
    parens,   \* int_ps
    tag,      \* str_tag
    list      \* darr_list

svars == <<text, phase, ptr, rest, start, element, qs, escapes, parens, tag, list>>

NUL == "NUL"
Char(n) == IF n \in 0 .. Len(text) - 1 THEN text[n + 1] ELSE NUL
Has(n, word) == n + Len(word) <= Len(text) /\ SubSeq(text, n + 1, n + Len(word)) = word
Modes == {"none", "tag", "single", "double", "block", "line"}

SplitInit ==
    /\ text \in Texts
    /\ phase = "scan"
    /\ ptr = 0 /\ rest = Len(text)
    /\ start = 0 /\ element = 0
    /\ qs = "none" /\ escapes = FALSE /\ parens = 0 /\ tag = <<>>
    /\ list = <<>>

-----------------------------------------------------------------------------
(* The scan.                                                               *)

Scans == phase = "scan" /\ rest # 0

\* The end of an iteration that took n characters, each counted for the
\* element.  The unsigned rest wraps when more were taken than there are.
Takes(n) ==
    /\ ptr' = ptr + n
    /\ rest' = rest - n
    /\ phase' = IF n > rest THEN "over" ELSE phase

Moves(n) ==
    /\ Takes(n)
    /\ element' = element + n
    /\ UNCHANGED <<text, start, list>>

Quotes(mode) == qs' = mode /\ UNCHANGED <<parens, tag>>

OpenBlock ==
    /\ Scans /\ qs = "none" /\ Has(ptr, <<"/", "*">>)
    /\ Quotes("block") /\ UNCHANGED escapes
    /\ Moves(1)

CloseBlock ==
    /\ Scans /\ qs = "block" /\ Has(ptr, <<"*", "/">>)
    /\ Quotes("none") /\ UNCHANGED escapes
    /\ Moves(1)

OpenLine ==
    /\ Scans /\ qs = "none" /\ Has(ptr, <<"-", "-">>)
    /\ Quotes("line") /\ UNCHANGED escapes
    /\ Moves(1)

CloseLine ==
    /\ Scans /\ qs = "line" /\ Char(ptr) \in Newlines
    /\ Quotes("none") /\ UNCHANGED escapes
    /\ Moves(1)

InComment ==
    \/ qs = "line" /\ Char(ptr) \notin Newlines
    \/ qs = "block" /\ ~ Has(ptr, <<"*", "/">>)

\* A faulty variant: the next character is skipped in every string.
SlashEverywhere ==
    /\ Scans /\ Char(ptr) = "\\"
    /\ qs \in {"none", "single"}
    /\ UNCHANGED <<qs, escapes, parens, tag>>
    /\ Moves(2)

\* Outside quotes, and in an E'' string, the next character is skipped.
Slash ==
    /\ Scans /\ Char(ptr) = "\\"
    /\ qs = "none" \/ (qs = "single" /\ escapes)
    /\ UNCHANGED <<qs, escapes, parens, tag>>
    /\ Moves(2)

\* The character before the text is whatever the memory holds.
OpenSingle ==
    /\ Scans /\ qs = "none" /\ Char(ptr) = "'"
    /\ escapes' \in IF ptr = 0 THEN BOOLEAN ELSE {Char(ptr - 1) = "E"}
    /\ Quotes("single")
    /\ Moves(1)

CloseSingle ==
    /\ Scans /\ qs = "single" /\ Char(ptr) = "'"
    /\ escapes' = FALSE
    /\ Quotes("none")
    /\ Moves(1)

OpenDouble ==
    /\ Scans /\ qs = "none" /\ Char(ptr) = "\""
    /\ Quotes("double") /\ UNCHANGED escapes
    /\ Moves(1)

CloseDouble ==
    /\ Scans /\ qs = "double" /\ Char(ptr) = "\""
    /\ Quotes("none") /\ UNCHANGED escapes
    /\ Moves(1)

\* A faulty variant: the level may fall below zero.
ParenthesisUnchecked ==
    /\ Scans /\ qs = "none"
    /\ \/ Char(ptr) = "(" /\ parens' = parens + 1
       \/ Char(ptr) = ")" /\ parens' = parens - 1
    /\ UNCHANGED <<qs, escapes, tag>>
    /\ Moves(1)

Parenthesis ==
    /\ Scans /\ qs = "none"
    /\ \/ Char(ptr) = "(" /\ parens' = parens + 1
       \/ Char(ptr) = ")" /\ parens > 0 /\ parens' = parens - 1
    /\ UNCHANGED <<qs, escapes, tag>>
    /\ Moves(1)

\* The dollar tag that begins at n, if one does.
Tags(n) ==
    {SubSeq(text, n + 1, m + 1) : m \in {k \in n + 1 .. Len(text) - 1 :
        /\ Char(n) = "$" /\ Char(k) = "$"
        /\ \A j \in n + 1 .. k - 1 : Char(j) \in TagChars}}

\* The iteration takes the tag and the character after it.
OpenTag ==
    /\ Scans /\ qs = "none"
    /\ \E t \in Tags(ptr) :
           /\ tag' = t
           /\ qs' = "tag"
           /\ Moves(Len(t) + 1)
    /\ UNCHANGED <<escapes, parens>>

CloseTag ==
    /\ Scans /\ qs = "tag" /\ Has(ptr, tag)
    /\ Quotes("none") /\ UNCHANGED escapes
    /\ Moves(Len(tag))

\* A faulty variant: the count of the element goes on.
SemicolonCountsOn ==
    /\ Scans /\ qs = "none" /\ parens = 0 /\ Char(ptr) = ";"
    /\ list' = Append(list, [from |-> start, len |-> element + 1])
    /\ start' = ptr + 1
    /\ element' = element + 1
    /\ Takes(1)
    /\ UNCHANGED <<text, qs, escapes, parens, tag>>

\* A semicolon ends the element.
Semicolon ==
    /\ Scans /\ qs = "none" /\ parens = 0 /\ Char(ptr) = ";"
    /\ list' = Append(list, [from |-> start, len |-> element + 1])
    /\ start' = ptr + 1
    /\ element' = 0
    /\ Takes(1)
    /\ UNCHANGED <<text, qs, escapes, parens, tag>>

\* Every other character only counts.
Plain ==
    CASE qs = "none" -> /\ ~ Has(ptr, <<"/", "*">>) /\ ~ Has(ptr, <<"-", "-">>)
                        /\ Char(ptr) \notin {"\\", "'", "\"", "("}
                        /\ Char(ptr) = ")" => parens = 0
                        /\ Char(ptr) = ";" => parens # 0
                        /\ Tags(ptr) = {}
      [] qs = "tag" -> ~ Has(ptr, tag)
      [] qs = "single" -> Char(ptr) # "'" /\ ~ (Char(ptr) = "\\" /\ escapes)
      [] qs = "double" -> Char(ptr) # "\""
      [] OTHER -> InComment

Other ==
    /\ Scans /\ Plain
    /\ UNCHANGED <<qs, escapes, parens, tag>>
    /\ Moves(1)

-----------------------------------------------------------------------------
(* The end of the text, and the trim.                                      *)

\* A trailing query is stored, and the last one looked at.
Trailing ==
    /\ phase = "scan" /\ rest = 0
    /\ phase' = "trim"
    /\ list' = IF element > 0 THEN Append(list, [from |-> start, len |-> element]) ELSE list
    /\ start' = ptr
    /\ element' = 0
    /\ qs' = "none"
    /\ ptr' = list'[Len(list')].from
    /\ rest' = list'[Len(list')].len
    /\ UNCHANGED <<text, escapes, parens, tag>>

Trims == phase = "trim" /\ rest # 0
Passes(n, mode) ==
    /\ Takes(n)
    /\ qs' = mode
    /\ UNCHANGED <<text, start, element, escapes, parens, tag, list>>

TrimComment ==
    /\ Trims
    /\ \/ qs = "none" /\ Has(ptr, <<"/", "*">>) /\ Passes(1, "block")
       \/ qs = "block" /\ Has(ptr, <<"*", "/">>) /\ Passes(2, "none")
       \/ qs = "none" /\ Has(ptr, <<"-", "-">>) /\ Passes(1, "line")
       \/ qs = "line" /\ Char(ptr) \in Newlines /\ Passes(1, "none")
       \/ InComment /\ Passes(1, qs)

Blank == Char(ptr) \in Spaces \cup {"\\"}
Comment == Has(ptr, <<"/", "*">>) \/ Has(ptr, <<"-", "-">>)

TrimBlank ==
    /\ Trims /\ qs = "none" /\ ~ Comment /\ Blank
    /\ Passes(IF Char(ptr) = "\\" THEN 2 ELSE 1, "none")

\* Anything else: the last query stays.
TrimBreaks ==
    /\ Trims /\ qs = "none" /\ ~ Comment /\ ~ Blank
    /\ phase' = "done"
    /\ UNCHANGED <<text, ptr, rest, start, element, qs, escapes, parens, tag, list>>

TrimDrops ==
    /\ phase = "trim" /\ rest = 0
    /\ phase' = "done"
    /\ list' = Front(list)
    /\ UNCHANGED <<text, ptr, rest, start, element, qs, escapes, parens, tag>>

Scan ==
    \/ OpenBlock \/ CloseBlock \/ OpenLine \/ CloseLine \/ Slash
    \/ OpenSingle \/ CloseSingle \/ OpenDouble \/ CloseDouble \/ Parenthesis
    \/ OpenTag \/ CloseTag \/ Semicolon \/ Other

SplitNext == Scan \/ Trailing \/ TrimComment \/ TrimBlank \/ TrimBreaks \/ TrimDrops

SplitSpec == SplitInit /\ [][SplitNext]_svars

-----------------------------------------------------------------------------
(* What the splitter promises: the notes at the top of util_sql_split.c,   *)
(* token by token, and the comment in util_sql_split.h.                    *)

\* The lexer after the token that begins where s is.
Token(s) ==
    LET To(mode, width) == [s EXCEPT !.at = @ + width, !.mode = mode]
        c == Char(s.at) IN
    CASE s.mode = "none" /\ Has(s.at, <<"/", "*">>) -> To("block", 2)
      [] s.mode = "none" /\ Has(s.at, <<"-", "-">>) -> To("line", 2)
      [] s.mode = "none" /\ c = "\\" -> To("none", 2)
      [] s.mode = "none" /\ c = "'" ->
             [To("single", 1) EXCEPT
                 !.escapes = IF s.at = 0 THEN s.before ELSE Char(s.at - 1) = "E"]
      [] s.mode = "none" /\ c = "\"" -> To("double", 1)
      [] s.mode = "none" /\ c = "(" -> [To("none", 1) EXCEPT !.parens = @ + 1]
      [] s.mode = "none" /\ c = ")" /\ s.parens > 0 -> [To("none", 1) EXCEPT !.parens = @ - 1]
      [] s.mode = "none" /\ Tags(s.at) # {} ->
             LET t == CHOOSE t \in Tags(s.at) : TRUE IN [To("tag", Len(t)) EXCEPT !.tag = t]
      [] s.mode = "block" /\ Has(s.at, <<"*", "/">>) -> To("none", 2)
      [] s.mode = "line" /\ c \in Newlines -> To("none", 1)
      [] s.mode = "single" /\ c = "'" -> To("none", 1)
      [] s.mode = "single" /\ c = "\\" /\ s.escapes -> To("single", 2)
      [] s.mode = "double" /\ c = "\"" -> To("none", 1)
      [] s.mode = "tag" /\ Has(s.at, s.tag) -> To("none", Len(s.tag))
      [] OTHER -> To(s.mode, 1)

Lexer(before) == [at |-> 0, mode |-> "none", escapes |-> FALSE, parens |-> 0, tag |-> <<>>,
                  before |-> before]

\* The lexer before each token; it is past the text in as many tokens as the
\* text has characters.
Read(before) ==
    LET read[k \in 0 .. Len(text)] == IF k = 0 THEN Lexer(before) ELSE Token(read[k - 1])
    IN read

\* A semicolon that ends a query, and a token of a blank or of a comment.
Cut(s) == s.mode = "none" /\ s.parens = 0 /\ Char(s.at) = ";"
Skips(s) ==
    \/ s.mode # "none" \/ Token(s).mode \in {"block", "line"}
    \/ Char(s.at) \in Spaces \cup {"\\"}

\* The queries end at the cuts, and with the text unless only blanks and
\* comments follow the last cut.
Cuts(read) == {read[k].at + 1 : k \in {j \in 0 .. Len(text) : Cut(read[j])}}
Empty(read) ==
    LET last == Max(Cuts(read) \cup {0}) IN
    \A k \in 0 .. Len(text) : read[k].at \in last .. Len(text) - 1 => Skips(read[k])
QueryEnds(before) ==
    LET read == Read(before) IN
    Cuts(read) \cup IF Empty(read) THEN {} ELSE {Len(text)}

-----------------------------------------------------------------------------
Query == [from : Nat, len : Nat]
SplitTypeOK ==
    /\ text \in Seq(Chars) \ {<<>>}
    /\ phase \in {"scan", "trim", "done", "over"}
    /\ ptr \in Nat /\ rest \in Int
    /\ start \in Nat /\ element \in Nat
    /\ qs \in Modes /\ escapes \in BOOLEAN /\ parens \in Nat
    /\ tag \in Seq(Chars)
    /\ list \in Seq(Query)

\* Each query begins where the one before it ends, and none is empty.
Contiguous ==
    \A k \in 1 .. Len(list) :
        /\ list[k].from = IF k = 1 THEN 0 ELSE list[k - 1].from + list[k - 1].len
        /\ list[k].len > 0

\* How much of the text is copied.
Copied == IF list = <<>> THEN 0 ELSE list[Len(list)].from + list[Len(list)].len

\* The queries that are copied out are the text, without a gap or an overlap,
\* and what is not yet copied is counted (ptr_start, int_element_len and
\* int_inputstring_len, which the code keeps in step by hand).
QueriesTileTheText ==
    phase # "over" =>
        /\ Contiguous
        /\ phase = "scan" => ptr + rest = Len(text) /\ start + element = ptr /\ start = Copied
        /\ phase = "trim" => list # <<>> /\ Copied = Len(text) /\ ptr + rest = Len(text)

\* No comment begins or ends with the last character of a mark, and no dollar
\* quote is empty: there the code departs from its notes.
Regular ==
    \A n \in 0 .. Len(text) :
        /\ ~ Has(n, <<"/", "*", "/">>) /\ ~ Has(n, <<"*", "/", "*">>)
        /\ \A t \in Tags(n) : ~ Has(n + Len(t), t)

\* The text is split at the semicolons that the notes leave uncovered, and an
\* empty last query is dropped (util_sql_split.h).
SplitsAsNoted ==
    phase = "done" /\ Regular => \E before \in BOOLEAN :
        {list[k].from + list[k].len : k \in 1 .. Len(list)} = QueryEnds(before)
===============================================================================
