------------------------------- MODULE MCTokens -------------------------------
(* Questions about semantic highlighting: documents with nested conditional    *)
(* directives, and tokens in every kind of place.                              *)
EXTENDS MCIncludes

T == INSTANCE SemanticTokens

\* A symbol at the token itself, which is at 7, or elsewhere.
SymbolOf(kind, at) == [kind |-> kind, at |-> at, definition |-> "Module"]
PlainToken == [kind |-> "identifier", at |-> 7, parent |-> "IdentifierName", named |-> FALSE, indexed |-> <<>>,
               members |-> <<>>, lookup |-> SymbolOf("Net", 3), definition |-> None, package |-> None]
Directive(kind, taken) == [kind |-> kind, taken |-> taken, missing |-> FALSE, token |-> PlainToken]
ItemSet == {Directive("ifdef", TRUE), Directive("ifdef", FALSE), Directive("elsif", TRUE), Directive("else", FALSE),
            Directive("endif", FALSE), Directive("identifier", FALSE)}

\* Every directive has its place.
WellNested(items) ==
    FoldLeft(LAMBDA s, item :
                CASE s = None -> None
                  [] item.kind = "ifdef" -> Append(s, "if")
                  [] item.kind \in {"elsif", "else"} -> IF s = <<>> \/ Last(s) = "else" THEN None ELSE Append(Front(s), IF item.kind = "else" THEN "else" ELSE "if")
                  [] item.kind = "endif" -> IF s = <<>> THEN None ELSE Front(s)
                  [] OTHER -> s,
             <<>>, items) # None

DocumentLength == 6

AskHighlights ==
    /\ question = None
    /\ \/ \E n \in 1..DocumentLength : \E items \in [1..n -> ItemSet] :
            /\ WellNested(items)
            /\ question' = [about |-> "highlights", items |-> items]
       \/ \E parent \in {"IdentifierName", "DefineDirective", "NamedBlockClause", "HierarchicalInstance",
                         "NamedPortConnection", "ShortPortConnection", "ExplicitNonAnsiPort", "ScopedRight", "ScopedLeft"},
             named \in BOOLEAN, kind \in {"identifier", "system"},
             indexed \in {<<>>, <<SymbolOf("Net", 7)>>, <<SymbolOf("Variable", 7), SymbolOf("Port", 3)>>,
                          <<SymbolOf("InstanceBody", 3), SymbolOf("Module", 7)>>, <<SymbolOf("GenerateBlock", 7)>>},
             members \in {<<>>, <<SymbolOf("Field", 3)>>},
             definition \in {None, SymbolOf("Module", 3)}, package \in {None, SymbolOf("Package", 3)} :
            question' = [about |-> "token",
                         token |-> [PlainToken EXCEPT !.parent = parent, !.named = named, !.kind = kind, !.members = members,
                                       !.indexed = indexed, !.definition = definition, !.package = package]]

\* Exactly the identifiers outside of every disabled branch are highlighted, however the
\* branches are nested and in whichever order their regions were recorded.
HighlightsActive ==
    question # None /\ question.about = "highlights" =>
        LET items == question.items
            directives == SelectSeq([i \in DOMAIN items |-> i], LAMBDA i : T!IsDirective(items[i]))
            active(i) == \A n \in DOMAIN T!Branches(items)[i] : T!Branches(items)[i][n].active
        IN \A visit \in {directives, Reverse(directives)} :
              T!collectTokens(items, visit) = {i \in DOMAIN items : items[i].kind = "identifier" /\ active(i)}

\* A token that the index or the syntax around it identifies is highlighted as that, and one
\* that selects a member as the member, whatever else is visible under its name; it is marked
\* as a declaration only where the symbol it stands for is declared.
HighlightIgnoresNamesakes ==
    question # None /\ question.about = "token" =>
        LET token == question.token
            class == T!classifyToken(token)
            known == token.kind # "identifier" \/ T!classifyIndexed(token) # None \/ T!classifySyntax(token) # None
                     \/ (T!isMemberName(token) /\ token.members # <<>>)
        IN /\ \A namesake \in {None, SymbolOf("Variable", 3), SymbolOf("Subroutine", 3)} :
                known => T!classifyToken([token EXCEPT !.lookup = namesake]) = class
           /\ class # None /\ class.symbol # None =>
                ("declaration" \in class.modifiers <=> class.symbol.at = token.at)

\* Highlighting is that of the active text, and of what a name means where it stands
\* (collectSemanticTokens).
HighlightsMeaning == HighlightsActive /\ HighlightIgnoresNamesakes
=============================================================================
