------------------------------ MODULE MCQueries ------------------------------
(* Questions to the server that only read: one question per behaviour, on one  *)
(* of the inputs below.                                                        *)
EXTENDS MCHints, Cones, Positions, FiniteSetsExt, Functions

CONSTANT Star

-----------------------------------------------------------------------------
(* References: a module with a port, a second one that connects it, a package  *)
(* in one or in two directories, and a user of all.                            *)

Unit(kind, members, imports, insts, uses, scoped) ==
    [kind |-> kind, members |-> members, imports |-> imports, insts |-> insts, uses |-> uses, scoped |-> scoped]
NoText == [u \in {} |-> None]
P(uses) == "P" :> Unit("package", {"x"}, {}, {}, uses, {})
M(uses, imports) == "M" :> Unit("module", {"p"}, imports, {}, uses, {})
Top(members, imports, insts, uses, scoped) == "T" :> Unit("module", members, imports, insts, uses, scoped)

WorkFiles == {"a/p", "b/p", "a/m", "a/t", "b/t"}
Near == [fg \in WorkFiles \X WorkFiles |->
            LET Dir(f) == IF f \in {"b/p", "b/t"} THEN "b" ELSE "a" IN
            IF Dir(fg[1]) = Dir(fg[2]) THEN 0 ELSE 2]
Ranks == "a/m" :> 1 @@ "a/p" :> 2 @@ "a/t" :> 3 @@ "b/p" :> 4 @@ "b/t" :> 5
Alternatives ==
    "a/p" :> {P({"x"}), P({}) @@ M({"p", "x"}, {<<"P", Star>>})}
    @@ "b/p" :> {NoText, P({"x"})}
    @@ "a/m" :> {NoText, M({"p"}, {}), M({"p", "x"}, {<<"P", Star>>})}
    @@ "a/t" :> {Top({"p"}, {}, {<<"M", "p", "short">>}, {"p"}, {}),
                 Top({"p", "x"}, {<<"P", Star>>}, {<<"M", "p", "named">>}, {"p", "x"}, {<<"P", "x">>}),
                 Top({}, {<<"P", "x">>}, {}, {"x"}, {})}
    @@ "b/t" :> {NoText, "U" :> Unit("module", {"p"}, {<<"P", Star>>}, {<<"M", "p", "short">>}, {"p", "x"}, {}),
                 "U" :> Unit("module", {}, {}, {}, {}, {<<"P", "x">>})}
\* No directory declares a unit twice.
Workspaces == {ws \in {"a/p" :> t[1] @@ "b/p" :> t[2] @@ "a/m" :> t[3] @@ "a/t" :> t[4] @@ "b/t" :> t[5] :
                  t \in Alternatives["a/p"] \X Alternatives["b/p"] \X Alternatives["a/m"]
                       \X Alternatives["a/t"] \X Alternatives["b/t"]} :
               "M" \in DOMAIN ws["a/p"] => "M" \notin DOMAIN ws["a/m"]}

R == INSTANCE References WITH Files <- WorkFiles, Distance <- Near, Rank <- Ranks

AskReferences ==
    /\ question = None
    /\ \E ws \in Workspaces, analysed \in {{}, {"a/t"}, {"b/t"}, WorkFiles} :
         question' = [about |-> "references", ws |-> R!Analysed(ws), analysed |-> analysed]

\* Asked for a token, the server answers with the tokens tied to it.
Complete(ws, t, tied) ==
    /\ \/ R!getDocRename(ws, t, question.analysed) = tied
       \/ \E u \in tied : u.role = "importItem"
    /\ R!getDocDocumentHighlight(ws, t) \subseteq tied

AllComplete(ws, denoted) ==
    \A t \in DOMAIN denoted : Complete(ws, t, R!Tied(denoted, t, R!Rounds(ws)))

\* The references of a token are the tokens tied to it, in every file, whichever documents
\* have been analysed: asked from any of them they are the same, and renaming them together
\* leaves both sides of a short port connection with one name.  Highlights are some of
\* them.  A member that a file imports by its name is left out.
ReferencesAreComplete ==
    question # None /\ question.about = "references" =>
        AllComplete(question.ws, R!Denotations(question.ws))

-----------------------------------------------------------------------------
(* Cones: processes with conditions and cases around assignments, a modport    *)
(* port that stands for b, and instances.                                      *)

Sigs == {"a", "b", "c", "i", "m", "K"}
ParameterSigs == {"K"}
Alias == [s \in Sigs |-> IF s = "m" THEN "b" ELSE s]

Assign(to, index, from) == [kind |-> "assign", to |-> to, index |-> index, from |-> from]
If(cond, then, else) == [kind |-> "if", cond |-> cond, then |-> then, else |-> else]
Case(sel, items, default) == [kind |-> "case", sel |-> sel, items |-> items, default |-> default]
Indexing == Assign("b", {"c"}, {"a"})
Plain == {Assign("a", {}, {"b", "K"}), Assign("m", {}, {"c"}), Assign("c", {"i"}, {"m"})}
Simple == {<<x>> : x \in Plain} \cup {<<>>}
Items == {[labels |-> l, body |-> x] : l \in {{"a"}, {"c"}}, x \in Simple}
Compound == {If(x, y, z) : x \in {{"a"}, {"b", "c"}}, y, z \in Simple}
            \cup {Case(x, <<i, j>>, d) : x \in {{"b"}}, i, j \in Items, d \in Simple}
Inside == {If({"c"}, u, <<>>) : u \in Simple} \cup {Case({"c"}, <<[labels |-> {"i"}, body |-> <<>>]>>, u) : u \in Simple}
Nested == {If(x, <<y>> \o z, <<>>) : x \in {{"a"}, {"m"}}, y \in Inside, z \in Simple}
Statements == Plain \cup {Indexing} \cup Inside \cup Compound \cup Nested
Ports == [dir : {"in"}, inner : {"a"}, conn : {None, {"b"}, {"m", "K"}}]
         \cup [dir : {"out"}, inner : {"c"}, conn : {None, {"b"}, {"m"}}]
         \cup [dir : {"inout"}, inner : {"c"}, conn : {{"m"}}]
ConeDesigns ==
    {{[kind |-> "process", body |-> <<x>> \o z]} : x \in Compound \cup Nested, z \in Simple \cup {<<Indexing>>}}
    \cup {{[kind |-> "inst", ports |-> <<p, q>>], [kind |-> "process", body |-> <<x>>]} : p, q \in Ports, x \in Plain}

-----------------------------------------------------------------------------
(* Positions: texts of characters that take one, two and four bytes and one or *)
(* two code units, and all line endings.                                       *)

ClientContents == SeqOf(Chars, 2)
               \cup {<<"R", "N", "S">>, <<"R", "R", "N">>, <<"S", "N", "a">>, <<"E", "R", "N", "a">>, <<"a", "S", "R", "S">>}
ClientInsertions == {<<>>, <<"R">>, <<"N", "E">>, <<"S">>}

-----------------------------------------------------------------------------
Init == question = None
Next == \/ AskUri \/ AskSnippet \/ AskSignature \/ AskHints \/ AskHighlights
        \/ AskNames \/ AskShape \/ AskCone \/ AskTokens \/ AskAutoConfigure \/ AskRoots
        \/ AddChange \/ AddToken \/ AskReferences \/ AskEdit \/ AskIncludes
Spec == Init /\ [][Next]_question
=============================================================================
