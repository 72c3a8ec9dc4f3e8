------------------------------ MODULE Positions ------------------------------
(***************************************************************************)
(* Positions of the protocol and offsets in a buffer.  The client counts   *)
(* lines and UTF-16 code units, the server keeps UTF-8 bytes and a final   *)
(* NUL: an edit, a range and the semantic tokens are converted between the *)
(* two.                                                                    *)
(*                                                                         *)
(* A buffer is a sequence of bytes: "a" (any ASCII), "N" and "R" (line     *)
(* feed and carriage return), "E1" "E2" and "S1" .. "S4" (characters of    *)
(* two and four bytes) and "0".  Offsets count from 0, as in the code.     *)
(***************************************************************************)
EXTENDS Questions, Naturals, Sequences, SequencesExt

CONSTANTS Contents,     \* texts of a client, as sequences of characters
          Insertions,   \* what its edits put there
          MaxParts      \* how many changes a notification may have, and how many tokens an answer

Chars == {"a", "E", "S", "N", "R"}
Byte == {"a", "N", "R", "E1", "E2", "S1", "S2", "S3", "S4", "0"}
Position == [line : Nat, character : Nat]

ASSUME PositionsAssumption ==
    /\ Contents \subseteq Seq(Chars) /\ Insertions \subseteq Seq(Chars)
    /\ None \notin Nat /\ None \notin Nat \X Nat /\ None \notin Seq(Byte) /\ None \notin [start : Position, end : Position]

Terminators == {"N", "R"}
Ascii == {"a", "N", "R", "0"}
\* The bytes from offset i up to offset j.
Part(s, i, j) == SubSeq(s, i + 1, j)

\* 0 for a byte that starts no valid sequence.
validUtf8SequenceLength(s) ==
    IF s[1] \in Ascii THEN 1
    ELSE IF Len(s) >= 2 /\ SubSeq(s, 1, 2) = <<"E1", "E2">> THEN 2
    ELSE IF Len(s) >= 4 /\ SubSeq(s, 1, 4) = <<"S1", "S2", "S3", "S4">> THEN 4 ELSE 0

\* A malformed sequence counts one unit per byte.
StepBytes(s) == LET n == validUtf8SequenceLength(s) IN IF n = 0 THEN 1 ELSE n
StepUnits(s) == IF validUtf8SequenceLength(s) = 4 THEN 2 ELSE 1

utf16Length(text) ==
    LET count[i \in 0..Len(text)] ==
            IF i = Len(text) THEN 0
            ELSE LET rest == Part(text, i, Len(text)) IN StepUnits(rest) + count[i + StepBytes(rest)]
    IN count[0]

\* The offset of a column, None if the column is inside a character or past the line.
utf16ToByteOffset(line, column) ==
    LET found == {i \in 0..Len(line) : utf16Length(Part(line, 0, i)) = column /\
                     (i = Len(line) \/ line[i + 1] \notin {"E2", "S2", "S3", "S4"})}
    IN IF found = {} THEN None ELSE CHOOSE i \in found : \A j \in found : i <= j

\* slang: the offsets of the lines; a carriage return and a line feed end one line.
EndsLine(text, i) == text[i] \in Terminators /\ ~(text[i] = "R" /\ i < Len(text) /\ text[i + 1] = "N")
computeLineOffsets(text) ==
    LET lines[i \in 0..Len(text)] ==
            IF i = 0 THEN <<0>> ELSE IF EndsLine(text, i) THEN Append(lines[i - 1], i) ELSE lines[i - 1]
    IN lines[Len(text)]
LineAmong(lines, offset) ==
    CHOOSE n \in 0..(Len(lines) - 1) :
        lines[n + 1] <= offset /\ (n + 1 < Len(lines) => offset < lines[n + 2])
LineOf(text, offset) == LineAmong(computeLineOffsets(text), offset)

\* slang's column starts after the last terminator before the offset.
toPosition(text, offset) ==
    LET at == IF offset < Len(text) THEN offset ELSE Len(text) - 1
        ends == {i \in 1..at : text[i] \in Terminators}
        start == IF ends = {} THEN 0 ELSE CHOOSE i \in ends : \A j \in ends : j <= i
    IN [line |-> LineOf(text, at), character |-> utf16Length(Part(text, start, at))]
toRange(text, offset, length) ==
    [start |-> toPosition(text, offset), end |-> toPosition(text, offset + length)]

\* The text of a line, without its terminator.
LineText(text, start) ==
    LET ends == {i \in start..Len(text) : i = Len(text) \/ text[i + 1] \in Terminators}
    IN Part(text, start, CHOOSE i \in ends : \A j \in ends : i <= j)
Shifted(start, column) == IF column = None THEN None ELSE start + column
LocationIn(text, lines, position) ==
    IF position.line >= Len(lines) THEN None
    ELSE LET start == lines[position.line + 1] IN
         Shifted(start, utf16ToByteOffset(LineText(text, start), position.character))
toSourceLocation(text, position) == LocationIn(text, computeLineOffsets(text), position)

-----------------------------------------------------------------------------
(* Edits: a change is [range, text], with range None for the whole text.   *)

Ordered(text, from, to) ==
    IF from = None \/ to = None THEN None
    ELSE IF from > to \/ to >= Len(text) THEN None ELSE <<from, to>>
getOffsets(text, range) ==
    Ordered(text, toSourceLocation(text, range.start), toSourceLocation(text, range.end))
ensureNullTerminated(text) == IF text = <<>> \/ Last(text) # "0" THEN Append(text, "0") ELSE text
Replace(text, offsets, new) ==
    IF offsets = None THEN None
    ELSE ensureNullTerminated(Part(text, 0, offsets[1]) \o new \o Part(text, offsets[2], Len(text)))
applyChange(text, change) ==
    IF text = None THEN None
    ELSE IF change.range = None THEN ensureNullTerminated(change.text)
    ELSE Replace(text, getOffsets(text, change.range), change.text)
\* Variant: all changes are located in the text that the notification found.
onChange_atOnce(text, changes) ==
    IF Len(changes) = 2 /\ changes[2].range # None /\ getOffsets(text, changes[2].range) # None
    THEN LET o == getOffsets(text, changes[2].range)
             first == applyChange(text, changes[1])
         IN IF first = None \/ o[2] >= Len(first) THEN None
            ELSE Part(first, 0, o[1]) \o changes[2].text \o Part(first, o[2], Len(first))
    ELSE FoldLeft(applyChange, text, changes)
\* Each change applies to the result of those before it; None: the notification is refused.
onChange(text, changes) == FoldLeft(applyChange, text, changes)

-----------------------------------------------------------------------------
(* Semantic tokens are [offset, length]; what they mean is left out.       *)

positionLess(p, q) == p.line < q.line \/ (p.line = q.line /\ p.character < q.character)
\* A token that crosses the end of a line cannot be described.
Describable(text, t) ==
    /\ t.length > 0 /\ t.offset + t.length <= Len(text)
    /\ \A i \in (t.offset + 1)..(t.offset + t.length) : text[i] \notin Terminators
InRange(start, range) == range # None => ~positionLess(start, range.start) /\ positionLess(start, range.end)
\* Lines and characters are relative to the last token that was sent.
Relative(at, before, length) ==
    [line |-> at.line - before.line,
     character |-> IF at.line = before.line THEN at.character - before.character ELSE at.character,
     length |-> length]
encodeSemanticTokens(text, tokens, range) ==
    LET lines == computeLineOffsets(text)
        StartOf(t) == LET line == LineAmong(lines, t.offset)
                      IN [line |-> line, character |-> utf16Length(Part(text, lines[line + 1], t.offset))]
        Emit(acc, t) ==
            IF Describable(text, t) /\ InRange(StartOf(t), range)
            THEN [prev |-> StartOf(t),
                  data |-> Append(acc.data, Relative(StartOf(t), acc.prev,
                                                     utf16Length(Part(text, t.offset, t.offset + t.length))))]
            ELSE acc
    IN FoldLeft(Emit, [prev |-> [line |-> 0, character |-> 0], data |-> <<>>], tokens).data

-----------------------------------------------------------------------------
(* The client, which counts characters.                                    *)

BytesOf(c) == CASE c = "E" -> <<"E1", "E2">> [] c = "S" -> <<"S1", "S2", "S3", "S4">> [] OTHER -> <<c>>
UnitsOf(c) == IF c = "S" THEN 2 ELSE 1
Bytes(text) == FlattenSeq([i \in DOMAIN text |-> BytesOf(text[i])])
Buffer(text) == Append(Bytes(text), "0")

\* A place i of a text is the one behind its first i characters, which is not inside a line ending.
Split(text, i) == i > 0 /\ i < Len(text) /\ text[i] = "R" /\ text[i + 1] = "N"
Places(text) == {i \in 0..Len(text) : ~Split(text, i)}
PlaceOf(text, i) ==
    LET place[k \in 0..Len(text)] ==
            IF k = 0 THEN [line |-> 0, character |-> 0]
            ELSE LET before == place[k - 1] IN
                 IF text[k] \in {"N", "R"} /\ ~Split(text, k) THEN [line |-> before.line + 1, character |-> 0]
                 ELSE [before EXCEPT !.character = @ + UnitsOf(text[k])]
    IN place[i]

\* It notifies the server of changes, each stated in the text that the one before it left.
AskEdit ==
    /\ question = None
    /\ \E text \in Contents : question' = [about |-> "edit", text |-> text, now |-> text, changes |-> <<>>]
Edit(now, i, j, new) ==
    question' = [question EXCEPT
        !.now = SubSeq(now, 1, i) \o new \o SubSeq(now, j + 1, Len(now)),
        !.changes = Append(@, [range |-> [start |-> PlaceOf(now, i), end |-> PlaceOf(now, j)], text |-> Bytes(new)])]
AddChange ==
    /\ question # None /\ question.about = "edit" /\ Len(question.changes) < MaxParts
    /\ \/ \E i, j \in Places(question.now), new \in Insertions : i <= j /\ Edit(question.now, i, j, new)
       \/ \E new \in Insertions :
             question' = [question EXCEPT !.now = new, !.changes = Append(@, [range |-> None, text |-> Bytes(new)])]

\* The buffer follows the client: whatever changes a notification has, replacements of a range
\* or of the whole text, applying them in turn leaves exactly the bytes of the client's text.
EditsMirrorClient ==
    question # None /\ question.about = "edit" =>
        onChange(Buffer(question.text), question.changes) = Buffer(question.now)

\* It asks for the tokens of a text, or of a range of it; a token is <<from, to>>.  They come
\* in the order of the text, so that no difference between two is negative.
AskTokens ==
    /\ question = None
    /\ \E text \in Contents : \E range \in {None} \cup (Places(text) \X Places(text)) :
         question' = [about |-> "tokens", text |-> text, range |-> range, tokens |-> <<>>]
AddToken ==
    /\ question # None /\ question.about = "tokens" /\ Len(question.tokens) < MaxParts
    /\ \E i, j \in Places(question.text) :
         /\ i < j /\ (question.tokens # <<>> => Last(question.tokens)[2] <= i)
         /\ question' = [question EXCEPT !.tokens = Append(@, <<i, j>>)]
PositionsSpec == question = None /\ [][AskEdit \/ AddChange \/ AskTokens \/ AddToken]_question

\* What a client makes of the data, adding up the differences.
Decoded(data) ==
    LET at[k \in 0..Len(data)] ==
            IF k = 0 THEN [line |-> 0, character |-> 0]
            ELSE LET before == at[k - 1] IN
                 [line |-> before.line + data[k].line,
                  character |-> IF data[k].line = 0 THEN before.character + data[k].character ELSE data[k].character]
    IN [k \in DOMAIN data |-> [line |-> at[k].line, character |-> at[k].character, length |-> data[k].length]]
\* The tokens inside a line and the range, where the client has them.
Drawn(text, tokens, range) ==
    LET Draws(t) == /\ \A k \in (t[1] + 1)..t[2] : text[k] \notin {"N", "R"}
                    /\ range # None => range[1] <= t[1] /\ t[1] < range[2]
        At(t) == [line |-> PlaceOf(text, t[1]).line, character |-> PlaceOf(text, t[1]).character,
                  length |-> PlaceOf(text, t[2]).character - PlaceOf(text, t[1]).character]
        drawn[k \in 0..Len(tokens)] ==
            IF k = 0 THEN <<>>
            ELSE IF Draws(tokens[k]) THEN Append(drawn[k - 1], At(tokens[k])) ELSE drawn[k - 1]
    IN drawn[Len(tokens)]
OffsetOf(text, i) == Len(Bytes(SubSeq(text, 1, i)))
TokenOf(text, t) == [offset |-> OffsetOf(text, t[1]), length |-> OffsetOf(text, t[2]) - OffsetOf(text, t[1])]

\* What the client draws is where the tokens are: the answer decodes to exactly the tokens that
\* are inside a line and the range, with their lines and code units, however many are left out
\* between them.  Ranges and locations agree with them.
TokensDecode ==
    question # None /\ question.about = "tokens" =>
        LET text == question.text
            range == question.range
            tokens == [k \in DOMAIN question.tokens |-> TokenOf(text, question.tokens[k])]
            asked == IF range = None THEN None
                     ELSE [start |-> PlaceOf(text, range[1]), end |-> PlaceOf(text, range[2])]
        IN /\ Decoded(encodeSemanticTokens(Buffer(text), tokens, asked)) = Drawn(text, question.tokens, range)
           /\ \A k \in DOMAIN tokens :
                 LET start == PlaceOf(text, question.tokens[k][1])
                     end == PlaceOf(text, question.tokens[k][2])
                 IN /\ toRange(Buffer(text), tokens[k].offset, tokens[k].length) = [start |-> start, end |-> end]
                    /\ toSourceLocation(Buffer(text), start) = tokens[k].offset

\* The server and the client mean the same place by a position, in the edits one sends and
\* in the tokens the other does (SlangDoc::onChange, encodeSemanticTokens).
PositionsAgree == EditsMirrorClient /\ TokensDecode
=============================================================================
