----------------------------- MODULE Tokenizer -----------------------------
(***************************************************************************)
(* The tokenizer (tokenizer.c) and the loops that share it: the parse loops *)
(* of block bodies, of the tags in them, of {% liquid %} tags, for which    *)
(* the tokenizer is switched to the inside of the tag and back (block.c),   *)
(* and of raw tags (raw.c).  Sources are sequences of characters; the word  *)
(* characters are whole words: l is liquid, r a raw tag, b a block tag,     *)
(* t another tag, e what ends a block or a raw tag.                         *)
(***************************************************************************)
EXTENDS Integers, Sequences, FiniteSetsExt

CONSTANT Sources

Word == {"l", "r", "b", "t", "e"}
Open == "{"
Close == "}"
Space == " "
Newline == "nl"
Blank == {Space, Newline}
Chars == Word \cup Blank \cup {Open, "%", Close, "-", "#"}

ASSUME SourcesAssumption == Sources \subseteq Seq(Chars)

VARIABLES
    source,
    tk,       \* tokenizer_t; cursor is the next character, last = cursor_end - 1,
              \* raw is raw_tag_body, <<>> if it is NULL
    loops,    \* the loops on the C stack that shift tokens, innermost last
    returned, \* has a tag just been parsed?
    status,
    token,    \* history: the token that was shifted last
    template, \* history: where the last token outside liquid tags ends, its type
    text      \* history: the text that was written last

vars == <<source, tk, loops, returned, status, token, template, text>>

-----------------------------------------------------------------------------
(* Scans, with cursors as in the code                                      *)

Length == Len(source)
Holds(i, last, c) == i <= last /\ source[i] = c
Text(a, b) == SubSeq(source, a, b)
CountNewlines(a, b) == Cardinality({i \in a..b : source[i] = Newline})
ReadWhile(a, b, set) == Min({i \in a..b : source[i] \notin set} \cup {b + 1})
ReadWhileReverse(a, b, set) == Max({i \in a..b : source[i] \notin set} \cup {a - 1})

(* The loops scan forward: each goes on from the next character that it has  *)
(* not read, until it finds what it looks for or comes to the last character *)

(* The first "{%" or "{{", or last + 1                                     *)
ScanStart(from, last) ==
    LET scan[i \in from..last + 1] ==
          IF i >= last THEN last + 1
          ELSE IF source[i] # Open THEN scan[i + 1]
          ELSE IF source[i + 1] \notin {"%", Open} THEN scan[i + 2]
          ELSE i
    IN scan[from]

(* The first character that is no percent, or the last one                  *)
SkipPercents(from, last) ==
    LET scan[i \in from..last] == IF source[i] = "%" /\ i < last THEN scan[i + 1] ELSE i
    IN scan[from]

(* The end of a tag, or 0 if it is unterminated                            *)
(* Mutant: of "%%}", the second percent is not tried again.                 *)
ScanTagOnce(from, last) ==
    LET scan[i \in from..last + 1] ==
          IF i >= last THEN 0
          ELSE IF source[i] # "%" THEN scan[i + 1]
          ELSE IF source[i + 1] = Close THEN i + 1 ELSE scan[i + 2]
    IN scan[from]
ScanTag(from, last) ==
    LET scan[i \in from..last + 1] ==
          IF i >= last THEN 0
          ELSE IF source[i] # "%" THEN scan[i + 1]
          ELSE LET j == SkipPercents(i + 1, last)
               IN IF source[j] = Close THEN j ELSE scan[j + 1]
    IN scan[from]

(* The first "}" of a variable, or 0                                       *)
ScanVariable(from, last) ==
    LET scan[i \in from..last + 1] ==
          IF i >= last THEN 0
          ELSE IF source[i] # Close THEN scan[i + 1] ELSE i
    IN scan[from]

-----------------------------------------------------------------------------
(* tokenizer_next.  A token is text, tag, variable, invalid or blank (a line *)
(* of a liquid tag); from and to are those of str_full.                     *)

Tok(type, from, to, lstrip, rstrip) ==
    [type |-> type, from |-> from, to |-> to, lstrip |-> lstrip, rstrip |-> rstrip]
NoToken == Tok("none", 0, 0, FALSE, FALSE)

TemplateToken ==
    LET from == tk.cursor
        last == tk.last
        at == ScanStart(from, last)
        dash == Holds(at + 2, last, "-")
        inner == at + IF dash THEN 3 ELSE 2
        end == IF source[at + 1] = "%" THEN ScanTag(inner, last) ELSE ScanVariable(inner, last)
        Terminated(type, to) == Tok(type, from, to, dash, source[to - 2] = "-")
    IN IF at > last THEN Tok("text", from, last, tk.lstrip, FALSE)
       ELSE IF at > from THEN Tok("text", from, at - 1, tk.lstrip, dash)
       ELSE IF end = 0 THEN Tok("invalid", from, from + 1, dash, FALSE)
       ELSE IF source[at + 1] = "%" THEN Terminated("tag", end)
       ELSE IF source[end + 1] = Close THEN Terminated("variable", end + 1)
       ELSE Tok("invalid", from, end, dash, FALSE)

(* The end of a line of a liquid tag                                       *)
LineEnd == ReadWhile(tk.cursor, tk.last, Chars \ {Newline})

LiquidToken ==
    LET from == ReadWhile(tk.cursor, LineEnd - 1, Blank)
    IN Tok(IF from = LineEnd THEN "blank" ELSE "tag", tk.cursor, LineEnd - 1, FALSE, FALSE)

Token == IF tk.cursor > tk.last THEN NoToken
         ELSE IF tk.liquid THEN LiquidToken ELSE TemplateToken

(* str_trimmed of a tag or a variable, as its first and last character      *)
Trimmed(t) ==
    IF tk.liquid
    THEN LET from == ReadWhile(t.from, t.to, Blank) IN <<from, ReadWhileReverse(from, t.to, Blank)>>
    ELSE LET from == t.from + IF t.lstrip THEN 3 ELSE 2
             to == t.to - 2
         IN <<from, IF t.rstrip /\ to >= from THEN to - 1 ELSE to>>

(* The tokenizer after token t                                             *)
(* Mutants: the newline after a line is not passed, or there always is one. *)
AfterInLine(t) ==
    IF tk.liquid THEN [tk EXCEPT !.cursor = LineEnd]
    ELSE [tk EXCEPT !.cursor = t.to + 1, !.line = @ + CountNewlines(t.from, t.to),
                    !.lstrip = t.type \in {"tag", "variable"} /\ t.rstrip]
AfterLine(t) ==
    IF tk.liquid THEN [tk EXCEPT !.cursor = LineEnd + 1, !.line = @ + 1]
    ELSE [tk EXCEPT !.cursor = t.to + 1, !.line = @ + CountNewlines(t.from, t.to),
                    !.lstrip = t.type \in {"tag", "variable"} /\ t.rstrip]
After(t) ==
    IF tk.liquid
    THEN IF LineEnd <= tk.last THEN [tk EXCEPT !.cursor = LineEnd + 1, !.line = @ + 1]
         ELSE [tk EXCEPT !.cursor = LineEnd]
    ELSE [tk EXCEPT !.cursor = t.to + 1, !.line = @ + CountNewlines(t.from, t.to),
                    !.lstrip = t.type \in {"tag", "variable"} /\ t.rstrip]

Shifted(t) ==
    /\ token' = [t EXCEPT !.type = IF tk.liquid THEN "line" ELSE @]
    /\ template' = IF tk.liquid THEN template ELSE [upto |-> t.to, type |-> t.type]

-----------------------------------------------------------------------------
(* raw.c: match_full_token_possibly_invalid, from the end of the token      *)

NoMatch == [body |-> 0, delimiter |-> << >>]
Dashed(i, t) == i - 3 >= t.from /\ Text(i - 3, i - 1) = <<Open, "%", "-">>

(* What has been read of a delimiter when the scan is at character i         *)
(* Mutant: other characters do not end a delimiter.                         *)
ScanBackOver(t) ==
    LET scan[i \in t.from..t.to - 1] ==
          IF i = t.to - 1 THEN [start |-> 0, length |-> 0, space |-> TRUE]
          ELSE IF source[i] \in Word
          THEN [start |-> i, length |-> IF scan[i + 1].space THEN 1 ELSE scan[i + 1].length + 1,
                space |-> FALSE]
          ELSE [scan[i + 1] EXCEPT !.space = source[i] \in Blank]
    IN scan
ScanBack(t) ==
    LET scan[i \in t.from..t.to - 1] ==
          IF i = t.to - 1 THEN [start |-> 0, length |-> 0, space |-> TRUE]
          ELSE IF source[i] \in Word
          THEN [start |-> i, length |-> IF scan[i + 1].space THEN 1 ELSE scan[i + 1].length + 1,
                space |-> FALSE]
          ELSE IF source[i] \in Blank
          THEN [start |-> scan[i + 1].start, length |-> scan[i + 1].length, space |-> TRUE]
          ELSE [start |-> 0, length |-> 0, space |-> FALSE]
    IN scan

(* The scan stops at the first start of a tag before a delimiter, from the end; *)
(* body is the last character of the token that belongs to the raw body      *)
Match(t) ==
    LET read == ScanBack(t)
        found == {i \in t.from + 2..t.to - 2 :
                    read[i].length > 0 /\ (Text(i - 2, i - 1) = <<Open, "%">> \/ Dashed(i, t))}
        at == Max(found)
    IN IF t.to - t.from < 4 \/ Text(t.to - 1, t.to) # <<"%", Close>> \/ found = {} THEN NoMatch
       ELSE [body |-> IF source[at - 1] = "-" THEN at - 4 ELSE at - 3,
             delimiter |-> Text(read[at].start, read[at].start + read[at].length - 1)]

-----------------------------------------------------------------------------
(* The loops                                                               *)

Body == [loop |-> "body", saved |-> << >>, from |-> 0, plain |-> FALSE]
loop == loops[Len(loops)]
Outer == SubSeq(loops, 1, Len(loops) - 1)
Push(frame) == Append(loops, frame)

Init ==
    /\ source \in Sources
    /\ \E bug \in BOOLEAN :
         tk = [cursor |-> 1, last |-> Length, line |-> 1, lstrip |-> FALSE, liquid |-> FALSE,
               bug |-> bug, raw |-> << >>]
    /\ loops = <<Body>> /\ returned = FALSE /\ status = "parsing"
    /\ token = NoToken /\ template = [upto |-> 0, type |-> "none"] /\ text = << >>

(* internal_block_body_parse, for a body or for a liquid tag                *)
Parsing == status = "parsing" /\ ~returned /\ loop.loop \in {"body", "liquid"}
Shift(type) == Parsing /\ Token.type = type /\ tk' = After(Token) /\ Shifted(Token)
Raises == status' = "raised" /\ UNCHANGED <<source, loops, returned, text>>
Goes == UNCHANGED <<source, status>>

ParseInvalid == Shift("invalid") /\ Raises
ParseVariable == Shift("variable") /\ Goes /\ UNCHANGED <<loops, returned, text>>
SkipBlankLine == Shift("blank") /\ Goes /\ UNCHANGED <<loops, returned, text>>

ParseText ==
    /\ Shift("text")
    /\ LET t == Token
           from == IF t.lstrip THEN ReadWhile(t.from, t.to, Blank) ELSE t.from
           to == IF ~t.rstrip THEN t.to
                 ELSE IF ~tk.bug THEN ReadWhileReverse(from, t.to, Blank)
                 ELSE IF from > t.to THEN t.to ELSE ReadWhileReverse(from + 1, t.to, Blank)
       IN text' = [from |-> from, to |-> to, token |-> t, after |-> template.type]
    /\ Goes /\ UNCHANGED <<loops, returned>>

(* The name of a tag, and its last character                               *)
NameStart(t) == ReadWhile(Trimmed(t)[1], Trimmed(t)[2], Blank)
NameEnd(t) ==
    LET at == NameStart(t)
        end == ReadWhile(at, Trimmed(t)[2], Word) - 1
    IN IF end < at /\ Holds(at, Trimmed(t)[2], "#") THEN at ELSE end
Name(t) == Text(NameStart(t), NameEnd(t))

ShiftTag(names) == Shift("tag") /\ Name(Token) \in names

(* A tag without a body, or an inline comment                               *)
ParseTag ==
    /\ ShiftTag({<<"t">>, <<"#">>})
    /\ returned' = TRUE /\ Goes /\ UNCHANGED <<loops, text>>

ParseBlock ==
    /\ ShiftTag({<<"b">>})
    /\ loops' = Push(Body) /\ Goes /\ UNCHANGED <<returned, text>>

ParseRaw == \E plain \in BOOLEAN :
    /\ ShiftTag({<<"r">>})
    /\ loops' = Push([Body EXCEPT !.loop = "raw", !.plain = plain])
    /\ Goes /\ UNCHANGED <<returned, text>>

(* tokenizer_setup_for_liquid_tag                                          *)
(* Mutant: newlines before the first line are not counted.                  *)
ParseLiquidSameLine ==
    /\ Parsing /\ Token.type = "tag" /\ Name(Token) = <<"l">> /\ Shifted(Token)
    /\ LET t == Token
           markup == ReadWhile(NameEnd(t) + 1, Trimmed(t)[2], Blank)
       IN tk' = [tk EXCEPT !.cursor = markup, !.last = Trimmed(t)[2], !.lstrip = FALSE,
                           !.liquid = TRUE]
    /\ loops' = Push([Body EXCEPT !.loop = "liquid", !.saved = After(Token)])
    /\ Goes /\ UNCHANGED <<returned, text>>
ParseLiquid ==
    /\ Parsing /\ Token.type = "tag" /\ Name(Token) = <<"l">> /\ Shifted(Token)
    /\ LET t == Token
           markup == ReadWhile(NameEnd(t) + 1, Trimmed(t)[2], Blank)
       IN tk' = [tk EXCEPT !.cursor = markup, !.last = Trimmed(t)[2], !.lstrip = FALSE,
                           !.liquid = TRUE, !.line = @ + CountNewlines(t.from, markup - 1)]
    /\ loops' = Push([Body EXCEPT !.loop = "liquid", !.saved = After(Token)])
    /\ Goes /\ UNCHANGED <<returned, text>>

(* loop_break with an unknown tag: only the end of a block is expected       *)
ParseUnknown ==
    /\ Shift("tag")
    /\ Name(Token) \notin {<<"l">>, <<"b">>, <<"r">>, <<"t">>, <<"#">>}
    /\ IF Name(Token) = <<"e">> /\ loop.loop = "body" /\ Len(loops) > 1
       THEN loops' = Outer /\ returned' = TRUE /\ Goes /\ UNCHANGED text
       ELSE Raises

(* loop_break at the end of what there is to parse                          *)
(* Mutants: the tokenizer is not restored, or all but lstrip_flag is.       *)
EndOfTokensUnrestored ==
    /\ Parsing /\ Token.type = "none"
    /\ IF loop.loop = "liquid"
       THEN /\ tk' = [loop.saved EXCEPT !.cursor = tk.cursor] /\ loops' = Outer
            /\ UNCHANGED status
       ELSE /\ status' = IF Len(loops) = 1 THEN "done" ELSE "raised"
            /\ UNCHANGED <<tk, loops>>
    /\ UNCHANGED <<source, returned, token, template, text>>
EndOfTokensUntrimmed ==
    /\ Parsing /\ Token.type = "none"
    /\ IF loop.loop = "liquid"
       THEN /\ tk' = [loop.saved EXCEPT !.lstrip = FALSE] /\ loops' = Outer /\ UNCHANGED status
       ELSE /\ status' = IF Len(loops) = 1 THEN "done" ELSE "raised"
            /\ UNCHANGED <<tk, loops>>
    /\ UNCHANGED <<source, returned, token, template, text>>
EndOfTokens ==
    /\ Parsing /\ Token.type = "none"
    /\ IF loop.loop = "liquid"
       THEN tk' = loop.saved /\ loops' = Outer /\ UNCHANGED status
       ELSE /\ status' = IF Len(loops) = 1 THEN "done" ELSE "raised"
            /\ UNCHANGED <<tk, loops>>
    /\ UNCHANGED <<source, returned, token, template, text>>

(* raw_parse_method: a token of the body, or with the end of it; of a       *)
(* subclass of Liquid::Raw (plain) the body is not left in the tokenizer    *)
ShiftRaw ==
    /\ status = "parsing" /\ ~returned /\ loop.loop = "raw"
    /\ LET t == Token
           from == IF loop.from = 0 THEN t.from ELSE loop.from
       IN IF t.type = "none" THEN Raises /\ UNCHANGED <<tk, token, template>>
          ELSE /\ Shifted(t) /\ Goes /\ UNCHANGED text
               /\ IF Match(t).delimiter = <<"e">>
                  THEN /\ tk' = [After(t) EXCEPT !.raw = IF loop.plain THEN << >>
                                                         ELSE <<from, Match(t).body>>]
                       /\ loops' = Outer /\ returned' = TRUE
                  ELSE /\ tk' = After(t) /\ UNCHANGED returned
                       /\ loops' = [loops EXCEPT ![Len(loops)].from = from]

(* The tag has been parsed: it, or the text of a raw tag, is written.        *)
(* Mutant: an empty raw body stays in the tokenizer.                        *)
FinishTagUnlessEmpty ==
    /\ status = "parsing" /\ returned
    /\ returned' = FALSE
    /\ tk' = [tk EXCEPT !.raw = IF @ # << >> /\ @[1] <= @[2] THEN << >> ELSE @]
    /\ UNCHANGED <<source, loops, status, token, template, text>>
FinishTag ==
    /\ status = "parsing" /\ returned
    /\ returned' = FALSE /\ tk' = [tk EXCEPT !.raw = << >>]
    /\ UNCHANGED <<source, loops, status, token, template, text>>

Stopped == status # "parsing" /\ UNCHANGED vars

Next ==
    \/ ParseInvalid \/ ParseVariable \/ SkipBlankLine \/ ParseText
    \/ ParseTag \/ ParseBlock \/ ParseRaw \/ ParseLiquid \/ ParseUnknown \/ EndOfTokens
    \/ ShiftRaw \/ FinishTag \/ Stopped

Spec == Init /\ [][Next]_vars

-----------------------------------------------------------------------------
(* What is promised, in terms of the source alone                          *)

Starts == {i \in 1..Length - 1 : source[i] = Open /\ source[i + 1] \in {"%", Open}}
DashAt(i) == Holds(i, Length, "-")
Inner(at) == at + IF DashAt(at + 2) THEN 3 ELSE 2

(* Where the tag or the variable that starts there ends, in full or, as a     *)
(* variable may inside raw tags, with one brace only                         *)
Ends(at) ==
    IF source[at + 1] = "%"
    THEN {i + 1 : i \in {j \in Inner(at)..Length - 1 : Text(j, j + 1) = <<"%", Close>>}}
    ELSE LET braces == {j \in Inner(at)..Length - 1 : source[j] = Close}
         IN IF braces = {} THEN {}
            ELSE {IF source[Min(braces) + 1] = Close THEN Min(braces) + 1 ELSE Min(braces)}

Complete(at, to) ==
    Text(to - 1, to) = IF source[at + 1] = "%" THEN <<"%", Close>> ELSE <<Close, Close>>
Dashes(at, to) == <<DashAt(at + 2), source[to - 2] = "-">>

(* The fields are in their ranges: no cursor passes the end of what is        *)
(* tokenized, and what is trimmed off a token is in it (the assertion of     *)
(* tokenizer.c:200).                                                       *)
TypeOK ==
    /\ tk.last \in 0..Length /\ tk.cursor \in 1..tk.last + 1 /\ tk.line \in Nat \ {0}
    /\ tk.lstrip \in BOOLEAN /\ tk.liquid \in BOOLEAN /\ tk.raw \in {<< >>} \cup Seq(0..Length)
    /\ loops # << >> /\ loops[1] = Body /\ returned \in BOOLEAN
    /\ status \in {"parsing", "raised", "done"}
    /\ Parsing /\ Token.type \in {"tag", "variable"} =>
         Token.from <= Trimmed(Token)[1] /\ Trimmed(Token)[1] - 1 <= Trimmed(Token)[2]
                                       /\ Trimmed(Token)[2] <= Token.to

(* A token of the template is the text before the first delimiter, or what    *)
(* is delimited up to the first end, or, when that never ends, its two       *)
(* characters: however often percents, braces and dashes are repeated.       *)
TokensAsDelimited ==
    Parsing /\ ~tk.liquid /\ tk.cursor <= Length =>
        LET from == tk.cursor
            later == {i \in Starts : i >= from}
        IN IF from \notin later
           THEN /\ Token.type = "text"
                /\ Token.to = Min({i - 1 : i \in later} \cup {Length})
           ELSE IF Ends(from) = {} THEN Token.type = "invalid" /\ Token.to = from + 1
           ELSE LET to == Min(Ends(from))
                IN /\ Token.to = to
                   /\ Token.type = IF ~Complete(from, to) THEN "invalid"
                                   ELSE IF source[from + 1] = "%" THEN "tag" ELSE "variable"
                   /\ Complete(from, to) => <<Token.lstrip, Token.rstrip>> = Dashes(from, to)

(* Nothing of the template is skipped or parsed twice: outside liquid tags    *)
(* the next token begins where the last one ended, also when a liquid tag    *)
(* was in between, and parsing is only done at the end of the source.        *)
SourceCovered ==
    /\ ~tk.liquid /\ status # "raised" => tk.cursor = template.upto + 1 /\ tk.last = Length
    /\ status = "done" => ~tk.liquid /\ template.upto = Length

(* A line number is one more than the newlines before the cursor, in the     *)
(* template, inside liquid tags of any depth, and behind them.              *)
LinesCounted == tk.line = 1 + CountNewlines(1, tk.cursor - 1)

(* Text is trimmed where the delimiters next to it in the source have a dash, *)
(* whether they are those of a tag, of a variable, of a liquid tag that has   *)
(* been parsed, or of the end of a raw tag; except that a raw tag may end    *)
(* with an unfinished variable, whose dash is not seen.  Compatibility with  *)
(* a bug keeps the first of blank characters that are trimmed from the right. *)
TrimsAsMarked ==
    text # << >> =>
        LET t == text.token
            left == text.after \in {"tag", "variable"} /\ source[t.from - 3] = "-"
            filled == {i \in t.from..t.to : source[i] \notin Blank}
            from == IF ~left THEN t.from
                    ELSE IF filled = {} THEN t.to + 1 ELSE Min(filled)
            to == IF ~DashAt(t.to + 3) THEN t.to
                  ELSE IF filled = {} THEN from - 1 ELSE Max(filled)
        IN /\ text.from = from
           /\ text.to = IF tk.bug /\ filled = {} /\ from <= t.to /\ DashAt(t.to + 3)
                        THEN from ELSE to

(* The scan from the end of a token finds what the greedy expression of the   *)
(* gem (FullTokenPossiblyInvalid) does: the last "{%" or "{%-" that is        *)
(* followed by a name, when the token ends in "%}"; what is before it is     *)
(* body (raw.c:32-35).                                                     *)
RawTokens ==
    LET NameAt(p) == ReadWhile(IF DashAt(p + 2) THEN p + 3 ELSE p + 2, token.to - 2, Blank)
        named == {p \in token.from..token.to - 4 :
                    Text(p, p + 1) = <<Open, "%">> /\ Holds(NameAt(p), token.to - 2, source[NameAt(p)])
                    /\ source[NameAt(p)] \in Word}
    IN token.type \notin {"none", "line"} =>
         IF named # {} /\ Text(token.to - 1, token.to) = <<"%", Close>>
         THEN LET p == Max(named)
              IN Match(token) = [body |-> p - 1,
                                 delimiter |-> Text(NameAt(p), ReadWhile(NameAt(p), token.to - 2, Word) - 1)]
         ELSE Match(token) = NoMatch

(* The body that a raw tag leaves in the tokenizer is taken by the loop that  *)
(* parsed the tag, before any loop shifts a token, and never by a loop of     *)
(* another tag; switching to a liquid tag and back brings none back.         *)
RawBodyTaken ==
    /\ status = "parsing" /\ ~returned => tk.raw = << >>
    /\ \A i \in 1..Len(loops) : loops[i].loop = "liquid" => loops[i].saved.raw = << >>
    /\ tk.raw # << >> => loop.loop = "body" /\ Match(token).delimiter = <<"e">>
                        /\ tk.raw[1] <= tk.raw[2] + 1

(* Parsing ends, whatever the source: a step that does not stop it moves the   *)
(* cursor on, or leaves it where it is and returns from a loop or a tag.     *)
Pending == 2 * Len(loops) + IF returned THEN 1 ELSE 0
Forward == [][\/ status' # "parsing"
              \/ tk'.cursor > tk.cursor
              \/ tk'.cursor = tk.cursor /\ Pending' < Pending]_vars
=============================================================================
