------------------------------- MODULE Snippets -------------------------------
(* Snippets that completions insert: how they are put together, how the editor  *)
(* expands them, and the snippet of a system subroutine, which is made from the *)
(* signature in its documentation.                                              *)
(*                                                                              *)
(* A text is a sequence of words, numbers and single characters; white space is *)
(* left out.  A snippet has a value and the number of its next tab stop.        *)
EXTENDS Integers, FiniteSets, Sequences, SequencesExt

CONSTANT None

-----------------------------------------------------------------------------
(* SnippetString.                                                               *)

\* A bug: only the characters that start something are escaped.
escape_open(text) ==
    FlattenSeq([i \in DOMAIN text |-> IF text[i] \in {"$", "\\"} THEN <<"\\", text[i]>> ELSE <<text[i]>>])

escape(text) ==
    FlattenSeq([i \in DOMAIN text |-> IF text[i] \in {"$", "}", "\\"} THEN <<"\\", text[i]>> ELSE <<text[i]>>])
escapeChoice(text) ==
    FlattenSeq([i \in DOMAIN text |-> IF text[i] \in {",", "|", "\\"} THEN <<"\\", text[i]>> ELSE <<text[i]>>])

SnippetString == [value |-> <<>>, tabstop |-> 1]
Larger(m, n) == IF m > n THEN m ELSE n

\* number is None or <<n>>.
nextTabstop(s, number) ==
    IF number = None THEN [number |-> s.tabstop, tabstop |-> s.tabstop + 1]
    ELSE [number |-> number[1], tabstop |-> Larger(s.tabstop, number[1] + 1)]

Numbered(s, number, before, after) ==
    LET next == nextTabstop(s, number) IN
    [value |-> s.value \o before \o <<ToString(next.number)>> \o after, tabstop |-> next.tabstop]
appendText(s, text) == [s EXCEPT !.value = @ \o escape(text)]
appendTabstop(s, number) == Numbered(s, number, <<"$">>, <<>>)
appendPlaceholder(s, text, number) == Numbered(s, number, <<"$", "{">>, <<":">> \o escape(text) \o <<"}">>)
appendChoice(s, values, number) ==
    IF values = <<>> THEN s
    ELSE Numbered(s, number, <<"$", "{">>,
                  <<"|">> \o escapeChoice(values[1])
                  \o FlattenSeq([i \in 1..(Len(values) - 1) |-> <<",">> \o escapeChoice(values[i + 1])])
                  \o <<"|", "}">>)

-----------------------------------------------------------------------------
(* The editor.                                                                  *)

\* The text up to the first unescaped end, and where it is; None when there is none.
RECURSIVE Literal(_, _, _)
Literal(value, i, ends) ==
    IF i > Len(value) THEN None
    ELSE IF value[i] \in ends THEN [text |-> <<>>, end |-> i]
    ELSE LET skip == IF value[i] = "\\" /\ i < Len(value) /\ value[i + 1] \in ends \cup {"$", "}", "\\"} THEN 1 ELSE 0
             rest == Literal(value, i + 1 + skip, ends)
         IN IF rest = None THEN None ELSE [rest EXCEPT !.text = <<value[i + skip]>> \o @]

RECURSIVE Expand(_, _)
\* The text that is inserted, and its tab stops with what they hold.
Expand(value, i) ==
    LET With(text, stops, next) ==
            LET rest == Expand(value, next) IN [text |-> text \o rest.text, stops |-> stops \o rest.stops]
        At(k) == IF k <= Len(value) THEN value[k] ELSE None
    IN IF i > Len(value) THEN [text |-> <<>>, stops |-> <<>>]
       ELSE IF value[i] = "\\" /\ i < Len(value) /\ value[i + 1] \in {"$", "}", "\\"}
            THEN With(<<value[i + 1]>>, <<>>, i + 2)
       ELSE IF value[i] # "$" \/ i + 1 > Len(value) THEN With(<<value[i]>>, <<>>, i + 1)
       ELSE IF value[i + 1] # "{" THEN With(<<>>, <<<<value[i + 1], <<>>>>>>, i + 2)
       ELSE LET ends == IF At(i + 3) = "|" THEN {",", "|"} ELSE {"}"}
                held == Literal(value, i + 4, ends)
            IN IF held = None THEN With(<<value[i]>>, <<>>, i + 1)
               ELSE LET close == CHOOSE k \in held.end..Len(value) :
                                    value[k] = "}" /\ \A j \in held.end..(k - 1) : value[j] # "}"
                    IN With(held.text, <<<<value[i + 2], held.text>>>>, close + 1)

-----------------------------------------------------------------------------
(* The snippet of a system subroutine.                                          *)

Punctuation == {"(", ")", "[", "]", ",", "=", "..."}
\* Where the bracket that is opened at i is closed, or None.
findBalancedClose(text, i, open, close) ==
    LET depth(k) == Len(SelectSeq(SubSeq(text, i, k), LAMBDA t : t = open))
                    - Len(SelectSeq(SubSeq(text, i, k), LAMBDA t : t = close))
        closed == {k \in i..Len(text) : text[k] = close /\ depth(k) = 0}
    IN IF closed = {} THEN None ELSE CHOOSE k \in closed : \A j \in closed : k <= j

RECURSIVE stripOptionalSegments(_)
stripOptionalSegments(text) ==
    IF text = <<>> THEN <<>>
    ELSE LET close == IF text[1] = "[" THEN findBalancedClose(text, 1, "[", "]") ELSE None IN
         IF close = None THEN <<text[1]>> \o stripOptionalSegments(Tail(text))
         ELSE stripOptionalSegments(SubSeq(text, close + 1, Len(text)))

Depth(text, i, open, close) ==
    FoldLeft(LAMBDA d, t : IF t = open THEN d + 1 ELSE IF t = close /\ d > 0 THEN d - 1 ELSE d, 0, SubSeq(text, 1, i))

RECURSIVE splitSignatureArgs(_)
splitSignatureArgs(text) ==
    LET commas == {i \in DOMAIN text : text[i] = "," /\ Depth(text, i, "(", ")") = 0} IN
    IF commas = {} THEN <<text>>
    ELSE LET i == CHOOSE j \in commas : \A k \in commas : j <= k IN
         <<SubSeq(text, 1, i - 1)>> \o splitSignatureArgs(SubSeq(text, i + 1, Len(text)))

\* The text without leading "[" and ",", and without trailing "[" and "]".
stripOptionalArgMarkers(text) ==
    LET kept == {i \in DOMAIN text : /\ \E j \in 1..i : text[j] \notin {"[", ","}
                                     /\ \E j \in i..Len(text) : text[j] \notin {"[", "]"}}
    IN [n \in 1..Cardinality(kept) |-> text[(CHOOSE i \in kept : \A j \in kept : i <= j) + n - 1]]

stripDefaultValue(text) ==
    LET equals == {i \in DOMAIN text : text[i] = "=" /\ Depth(text, i, "(", ")") = 0 /\ Depth(text, i, "[", "]") = 0} IN
    IF equals = {} THEN text ELSE SubSeq(text, 1, (CHOOSE i \in equals : \A j \in equals : i <= j) - 1)
hasDefaultValue(text) == stripDefaultValue(text) # text

\* The last word of an argument; an empty text for the dots, None for no argument.
getArgumentPlaceholder(text) ==
    LET arg == stripDefaultValue(stripOptionalArgMarkers(text))
        words == SelectSeq(arg, LAMBDA t : t \notin Punctuation)
    IN IF arg = <<"...">> THEN <<>>
       ELSE IF words = <<>> THEN None ELSE <<Last(words)>>

getWithClausePlaceholder(text) ==
    LET opens == {i \in DOMAIN text : text[i] = "("}
        open == CHOOSE i \in opens : \A j \in opens : i <= j
        close == IF opens = {} THEN None ELSE findBalancedClose(text, open, "(", ")")
    IN IF close = None \/ close = open + 1 THEN <<"item.expr">> ELSE SubSeq(text, open + 1, close - 1)

\* The arguments in a signature behind the name: None, those of a call, or a with clause.
getSignatureArgs(name, signature) ==
    LET at == {i \in DOMAIN signature : signature[i] = name}
        first == CHOOSE i \in at : \A j \in at : i <= j
        rest == SubSeq(signature, first + 1, Len(signature))
        close == IF rest # <<>> /\ rest[1] = "(" THEN findBalancedClose(rest, 1, "(", ")") ELSE None
    IN CASE at = {} \/ rest = <<>> -> None
         [] rest[1] = "with" -> [kind |-> "with", args |-> rest]
         [] rest[1] = "[" -> [kind |-> "call", args |-> <<>>]
         [] close # None -> [kind |-> "call", args |-> SubSeq(rest, 2, close - 1)]
         [] OTHER -> None

\* One more argument in the call.  A skipped default ends the arguments that can be given,
\* except that a format is always offered when it comes first.
WithPlaceholder(state, placeholder, defaulted) ==
    LET comma == IF state.needsComma THEN appendText(state.snippet, <<",">>) ELSE state.snippet
    IN IF placeholder = None \/ (placeholder = <<>> /\ state.skipped) THEN state
       ELSE IF defaulted /\ (placeholder # <<"format">> \/ state.skipped) THEN [state EXCEPT !.skipped = TRUE]
       ELSE [state EXCEPT
               !.needsComma = TRUE,
               !.final = @ \/ placeholder = <<>>,
               !.snippet = IF placeholder = <<>> THEN appendTabstop(comma, <<0>>)
                           ELSE IF placeholder = <<"format">>
                           THEN appendText(appendPlaceholder(appendText(comma, <<"\"">>), placeholder, None), <<"\"">>)
                           ELSE appendPlaceholder(comma, placeholder, None)]

AddArgument(state, text) ==
    WithPlaceholder(state, getArgumentPlaceholder(text), hasDefaultValue(stripOptionalArgMarkers(text)))

\* Dots that were not reached leave a last tab stop.
EndArguments(args, filled) ==
    IF ~filled.needsComma /\ args = <<"...">> THEN appendTabstop(filled.snippet, <<0>>)
    ELSE IF filled.needsComma /\ "..." \in ToSet(args) /\ ~filled.final
    THEN appendTabstop(appendText(filled.snippet, <<",">>), <<0>>)
    ELSE filled.snippet
Arguments(snippet, args) ==
    EndArguments(args, FoldLeft(AddArgument, [snippet |-> snippet, needsComma |-> FALSE, final |-> FALSE,
                                              skipped |-> FALSE], splitSignatureArgs(args)))
buildSnippetFromArgs(name, signature) ==
    LET named == appendText(SnippetString, <<name>>)
    IN IF signature.kind = "with"
       THEN appendText(appendPlaceholder(appendText(named, <<"with", "(">>),
                                         getWithClausePlaceholder(signature.args), None), <<")">>)
       ELSE appendText(Arguments(appendText(named, <<"(">>), stripOptionalSegments(signature.args)), <<")">>)

\* The inserted text starts with the "$" of the name, escaped.
SnippetFor(name, args) ==
    IF args = None THEN appendText(SnippetString, <<name>>) ELSE buildSnippetFromArgs(name, args)
getSystemSubroutineSnippet(name, signature) ==
    <<"\\", "$">> \o SnippetFor(name, getSignatureArgs(name, signature)).value
=============================================================================
