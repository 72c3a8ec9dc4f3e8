------------------------------ MODULE MCSnippets ------------------------------
(* Questions about texts: all short ways to put a snippet together, all short  *)
(* signatures of a system subroutine, and all short paths as URIs.             *)
EXTENDS MCTokens, Uri

N == INSTANCE Snippets

Texts == {<<"a">>, <<"$", "1">>, <<"b", "}">>, <<"\\">>, <<"\\", "}">>, <<"{", ",", "|">>}
Parts == [op : {"text"}, text : Texts, number : {None}]
         \cup [op : {"tabstop"}, text : {<<>>}, number : {None, <<0>>, <<2>>}]
         \cup [op : {"placeholder", "choice"}, text : Texts, number : {None, <<1>>}]

Appended(s, part) ==
    CASE part.op = "text" -> N!appendText(s, part.text)
      [] part.op = "tabstop" -> N!appendTabstop(s, part.number)
      [] part.op = "placeholder" -> N!appendPlaceholder(s, part.text, part.number)
      [] part.op = "choice" -> N!appendChoice(s, <<part.text, <<"c">>>>, part.number)

AskSnippet ==
    /\ question = None
    /\ \E n \in 1..3 : \E parts \in [1..n -> Parts] :
         question' = [about |-> "snippet", parts |-> parts]

\* The editor inserts the text that was appended, special characters included, and has the
\* tab stops in it; a number that was not given is one no stop before it has.
SnippetsExpand ==
    question # None /\ question.about = "snippet" =>
        LET parts == question.parts
            expanded == N!Expand(FoldLeft(Appended, N!SnippetString, parts).value, 1)
            stops == SelectSeq(parts, LAMBDA p : p.op # "text")
            same(i, j) == expanded.stops[i][1] = expanded.stops[j][1]
        IN /\ expanded.text = FlattenSeq([i \in DOMAIN parts |-> parts[i].text])
           /\ Len(expanded.stops) = Len(stops)
           /\ \A i \in DOMAIN stops :
                /\ expanded.stops[i][2] = stops[i].text
                /\ stops[i].number # None => expanded.stops[i][1] = ToString(stops[i].number[1])
                /\ stops[i].number = None => \A j \in 1..(i - 1) : ~same(i, j)

-----------------------------------------------------------------------------
(* Signatures as the documentation writes them: [, x] is optional.             *)

WordsOf(name, dims) == (IF dims THEN <<"bit", "[", "31:0", "]">> ELSE <<"string">>) \o <<name>>
Arguments == [name : {"x", "format"}, dims : BOOLEAN, optional : BOOLEAN, default : BOOLEAN]
Written(args, i) ==
    LET comma == IF i > 1 THEN <<",">> ELSE <<>>
        words == WordsOf(args[i].name, args[i].dims) \o (IF args[i].default THEN <<"=", "(", "1", ",", "2", ")">> ELSE <<>>)
    IN IF args[i].optional THEN <<"[">> \o comma \o words \o <<"]">> ELSE comma \o words
Signature(args, variadic) ==
    <<"task", "f", "(">> \o FlattenSeq([i \in DOMAIN args |-> Written(args, i)])
    \o (IF variadic THEN (IF args = <<>> THEN <<"...">> ELSE <<",", "...">>) ELSE <<>>) \o <<")">>

AskSignature ==
    /\ question = None
    /\ \E n \in 0..2 : \E args \in [1..n -> Arguments], variadic \in BOOLEAN :
         question' = [about |-> "signature", args |-> args, variadic |-> variadic]

\* The snippet of a system subroutine is a call with a placeholder for each argument that
\* has to be given, and for a format with a default that is not behind a skipped one, in
\* their order and with commas between them; the cursor ends where more may follow.
SnippetAsksRequired ==
    question # None /\ question.about = "signature" =>
        LET args == question.args
            expanded == N!Expand(N!getSystemSubroutineSnippet("f", Signature(args, question.variadic)), 1)
            given == {i \in DOMAIN args : ~args[i].optional}
            skips(i) == args[i].default /\ args[i].name # "format"
            asked == {i \in given : /\ ~skips(i)
                                    /\ args[i].default => ~\E j \in given : j < i /\ skips(j)}
            names == [k \in 1..Cardinality(asked) |->
                         args[CHOOSE i \in asked : Cardinality({j \in asked : j <= i}) = k].name]
            more == question.variadic /\ (names # <<>> \/ ~\E i \in given : skips(i))
            quoted(n) == IF n = "format" THEN <<"\"", n, "\"">> ELSE <<n>>
        IN /\ expanded.text =
                 <<"$", "f", "(">> \o FlattenSeq([k \in DOMAIN names |-> (IF k > 1 THEN <<",">> ELSE <<>>) \o quoted(names[k])])
                 \o (IF more /\ names # <<>> THEN <<",">> ELSE <<>>) \o <<")">>
           /\ expanded.stops = [k \in DOMAIN names |-> <<ToString(k), <<names[k]>>>>]
                               \o (IF more THEN <<<<"0", <<>>>>>> ELSE <<>>)

\* What a completion inserts is what its snippet was made of, and it asks for what has to be
\* filled in (SnippetString, getSystemSubroutineSnippet).
SnippetsInsert == SnippetsExpand /\ SnippetAsksRequired

-----------------------------------------------------------------------------
(* URIs of files, whose names may have characters that URIs reserve.           *)

HexCode == "a" :> <<"6", "1">> @@ "/" :> <<"2", "F">> @@ "%" :> <<"2", "5">> @@ "?" :> <<"3", "F">>
           @@ "#" :> <<"2", "3">> @@ ":" :> <<"3", "A">> @@ "2" :> <<"3", "2">> @@ "5" :> <<"3", "5">>
KeptCharacters == {"a", "2", "5", "/"}
ShortPaths == {<<"/">> \o name : name \in SeqOf(DOMAIN HexCode, 3)}
=============================================================================
