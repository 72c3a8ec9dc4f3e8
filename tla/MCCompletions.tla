---------------------------- MODULE MCCompletions ----------------------------
(* Completion requests: a cursor behind a word, in nested scopes with imports,  *)
(* and cursors among all kinds of tokens and syntax.                            *)
EXTENDS Completions, TLC

-----------------------------------------------------------------------------
(* Names in scope.                                                             *)

Sym(name, kind, at) == [name |-> name, kind |-> kind, at |-> at, located |-> TRUE, from |-> "P"]
Scope(kind, name, members, imports) == [kind |-> kind, name |-> name, members |-> members, imports |-> imports]
NoFn == [n \in {} |-> None]
Tok(kind, text, start, end) == <<[kind |-> kind, text |-> text, start |-> start, end |-> end]>>
Node(kind) == [kind |-> kind, start |-> 0, firstEnd |-> 0, typeEnd |-> 0, end |-> 99, keyword |-> TRUE,
               parameters |-> FALSE, named |-> FALSE, open |-> 0, close |-> 0, nameEnd |-> 0,
               name |-> None, assigned |-> {}]

\* The cursor is at 6.
InBlock == {<<>>, <<Sym("x", "value", 2)>>, <<Sym("x", "value", 9)>>,
            <<Sym("x", "type", 2), Sym("y", "fn", 3)>>, <<Sym("x", "class", 2)>>, <<Sym("x", "import", 9)>>,
            <<[Sym("x", "import", 9) EXCEPT !.from = "Missing"]>>}
InBody == {<<Sym("blk", "scope", 1)>> \o m :
             m \in {<<>>, <<Sym("x", "value", 20), Sym("x", "value", 20)>>, <<Sym("x", "fn", 21), Sym("y", "type", 22)>>,
                    <<Sym("x", "import", 0)>>, <<Sym("y", "import", 0), Sym("x", "class", 23)>>}}
InUnit == {<<>>, <<Sym("x", "value", 30)>>, <<Sym("x", "type", 31), Sym("blk", "value", 32)>>}
InPackage == {<<Sym("x", "value", 40)>>, <<Sym("y", "fn", 41), Sym("x", "type", 42)>>}
OtherPackage == <<Sym("x", "fn", 50), Sym("y", "type", 51)>>
ImportLists == {<<>>, <<"P">>, <<"Q", "P">>}

ScopedDoc(scopes, pkg, context, expected) ==
    [uri |-> "doc", tokens |-> Tok("id", "x", 4, 7), nodes |-> <<Node(context)>>, expected |-> expected,
     program |-> [scopes |-> scopes, packages |-> [p \in {"P", "Q"} |-> IF p = "P" THEN pkg ELSE OtherPackage],
                  index |-> "lib" :> "interface", macros |-> [own |-> <<>>, indexed |-> {}],
                  receivers |-> NoFn, instances |-> NoFn, fields |-> None]]

NameDocs ==
    {ScopedDoc(<<Scope("block", "blk", block, <<>>), Scope("body", "M", body, near), Scope("unit", "unit", unit, far)>>,
               pkg, context, expected) :
     block \in InBlock, body \in InBody, unit \in InUnit, pkg \in InPackage, near \in ImportLists, far \in ImportLists,
     context \in {"module", "procedural", "expression"}, expected \in {<<>>, <<Sym("y", "enumValue", 60)>>}}
Declarations == UNION {ToSet(m) : m \in InBlock \cup InBody \cup InUnit \cup InPackage}
                \cup ToSet(OtherPackage) \cup {Sym("y", "enumValue", 60)}
Identifiers == {"x", "y", "blk", "M", "unit", "P", "Q", "lib"}

-----------------------------------------------------------------------------
(* Shapes.  Tokens: r at 0, a separator at 2, the word at 4 to 7, a token at 8.  *)

BuiltIn == [Sym("b", "fn", 0) EXCEPT !.located = FALSE]
Members == <<Sym("f", "fn", 20), Sym("p", "parameter", 21), Sym("c", "class", 22), Sym("v", "value", 23), BuiltIn>>
Methods == <<Sym("new", "constructor", 1), Sym("f", "fn", 1), Sym("v", "value", 2), Sym("v", "value", 2)>>
ShapeProgram(receiver, fields) ==
    [scopes |-> <<Scope("body", "M", Members, <<>>)>>, packages |-> NoFn,
     index |-> "M" :> "module" @@ "I" :> "interface" @@ "P" :> "package" @@ "C" :> "class" @@ "r" :> "module",
     macros |-> [own |-> <<"m1">>, indexed |-> {"m1", "m2"}],
     receivers |-> "r" :> [kind |-> receiver, scopes |-> <<Scope("class", "K", Methods, <<>>)>>],
     instances |-> "u" :> [ports |-> <<Sym("v", "value", 40), Sym("q", "value", 41)>>,
                           parameters |-> <<Sym("p", "parameter", 42)>>, connected |-> {"q"}],
     fields |-> fields]
Optional(kind, text, start, end) == IF kind = None THEN <<>> ELSE Tok(kind, text, start, end)
ShapeTokens(name, before, target, after) ==
    Tok("id", name, 0, 1) \o Optional(before, "", 2, 3) \o Optional(target, "w", 4, 7) \o Optional(after, "", 8, 9)
Instantiation(parameters, named) ==
    [Node("instantiation") EXCEPT !.start = 4, !.firstEnd = 7, !.typeEnd = 7, !.keyword = FALSE,
                                  !.parameters = parameters, !.named = named, !.name = "u"]
Around == {<<Node("module")>>, <<Node("procedural"), Node("module")>>, <<>>,
           <<Instantiation(FALSE, FALSE), Node("module")>>, <<Instantiation(FALSE, TRUE), Node("module")>>,
           <<[Node("parameters") EXCEPT !.assigned = {None}], Instantiation(TRUE, TRUE), Node("module")>>,
           <<[Node("named") EXCEPT !.name = "q", !.nameEnd = 7, !.open = 8, !.close = 9],
             [Node("instance") EXCEPT !.name = "u", !.open = 1, !.close = 90], Instantiation(FALSE, TRUE)>>,
           <<[Node("declaring") EXCEPT !.start = 0, !.firstEnd = 1], Node("module")>>}

AskShape ==
    /\ question = None
    /\ \E before \in {None, "dot", "scope", "hash", "open", "comma", "number"},
          target \in {None, "id", "system", "dollar", "macro", "tick", "keyword"},
          after \in {None, "open", "colon"}, nodes \in Around, trigger \in {None, "{"},
          receiver \in {"class", "interface"},
          fields \in {None, [all |-> <<Sym("v", "value", 50)>>, present |-> {}]} :
         /\ receiver = "interface" => before = "dot"
         /\ trigger # None => target = None
         /\ \E cursor \in IF target = None THEN {3} ELSE {5, 7} :
              question' = [about |-> "shape", cursor |-> cursor, trigger |-> trigger,
                           after |-> after = "open",
                           doc |-> [uri |-> "doc", nodes |-> nodes, expected |-> <<>>,
                                    tokens |-> ShapeTokens(IF before = "open" THEN "u" ELSE "r", before, target, after),
                                    program |-> ShapeProgram(receiver, fields)]]

\* The document when the item is resolved: as it was, or changed so that the names of some
\* symbols are gone or declare something else.
Later == {[index |-> "M" :> "module" @@ "I" :> "interface" @@ "P" :> "package" @@ "C" :> "class",
           macros |-> [own |-> <<>>, indexed |-> {"m1", "m2"}], symbols |-> s] :
             s \in {[n \in {"f", "p", "c", "v", "q"} |-> Sym(n, IF n = "f" THEN "fn" ELSE "value", 20)],
                    "v" :> Sym("v", "fn", 60) @@ "p" :> Sym("p", "fn", 61), NoFn}}

ShapeKept(offered, resolved, later, query, resolveEdits) ==
    LET written == query = "Lexical" /\ isWrittenInstantiation(question.doc.nodes, question.cursor)
        inCall == query # "InstancePorts" /\ question.after
    IN /\ inCall /\ offered.kind \in {"Function", "Constant", "Variable"} /\ query # "StructMember" =>
              offered.edit = "label" /\ resolved.edit = "label"
       /\ written /\ offered.kind \in {"Module", "Interface", "Class"} =>
              offered.edit = "label" /\ resolved.edit = "label"
       /\ offered.kind = "Function" /\ ~inCall /\ (offered.label = "f" => "f" \in DOMAIN later.symbols) =>
              resolved.edit = "call" /\ (resolveEdits \/ offered.edit = "call")
       /\ resolved.edit # offered.edit =>
              /\ resolved.edit \in {"call", "instance"}
              /\ offered.edit = "label" \/ later.symbols[offered.label].kind = "fn"
ShapesKept(items, query, resolveEdits) ==
    \A i \in DOMAIN items, later \in Later :
        ShapeKept(items[i], getCompletionItemResolve(items[i], later, resolveEdits), later, query, resolveEdits)

\* Completing a name keeps the shape of the source.  In front of a call that is written, a
\* function or a macro brings its name only, and in an instantiation that is written so does a
\* module, an interface or a class, both as offered and as resolved later, whatever became of
\* the document.  Elsewhere a function brings its call.  Resolving replaces nothing but a bare
\* name, unless the name declares a function by then.
KeepsSourceShape ==
    question # None /\ question.about = "shape" =>
        \A resolveEdits \in BOOLEAN :
            ShapesKept(getCompletions(question.doc, question.cursor, question.trigger, resolveEdits),
                       fromLocation(question.doc, question.cursor, question.trigger), resolveEdits)
=============================================================================
