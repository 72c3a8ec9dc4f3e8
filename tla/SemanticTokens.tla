---------------------------- MODULE SemanticTokens ----------------------------
(* Semantic highlighting: which tokens of a document are reported, and as what. *)
(*                                                                              *)
(* A document is a sequence of items: identifiers, other tokens and conditional *)
(* directives; item i is at offset 2 i and ends at 2 i + 1.  A token carries    *)
(* what the classification asks about it: the node it is a child of and its     *)
(* role there, the symbols indexed for it, the members it selects and what a    *)
(* lookup of its name finds.                                                    *)
EXTENDS Integers, FiniteSets, Sequences, SequencesExt

CONSTANT None

Start(i) == 2 * i
End(i) == 2 * i + 1

-----------------------------------------------------------------------------
(* Types.                                                                       *)

SymbolTypes ==
    [namespace |-> {"Package", "ConfigBlock"},
     class |-> {"Module", "Program", "ClassType", "GenericClassDef", "CovergroupType"},
     interface |-> {"Interface"},
     port |-> {"InterfacePort", "Port", "MultiPort", "PrimitivePort", "AssertionPort"},
     modport |-> {"Modport", "ModportPort", "ModportClocking", "ClockingBlock"},
     net |-> {"Net", "NetAlias"},
     variable |-> {"Variable", "ClockVar", "LocalAssertionVar", "Iterator", "Genvar"},
     parameter |-> {"FormalArgument", "Parameter", "LocalParam", "Specparam", "DefParam"},
     enumMember |-> {"EnumValue"},
     enum |-> {"EnumType"},
     struct |-> {"PackedStructType", "UnpackedStructType", "PackedUnionType", "UnpackedUnionType"},
     type |-> {"TypeAlias", "ForwardingTypedef"},
     typeParameter |-> {"TypeParameter"},
     property |-> {"Field", "ClassProperty", "PatternVar", "ConstraintBlock"},
     function |-> {"Subroutine", "MethodPrototype", "LetDecl", "Sequence", "Property"},
     instance |-> {"Instance", "InstanceArray", "PrimitiveInstance", "CheckerInstance", "CheckerInstanceBody"}]

Class(type, modifiers, symbol) == [type |-> type, modifiers |-> modifiers, symbol |-> symbol]

\* A symbol has a kind and a location.  The body of an instance stands for its definition.
classifySymbol(symbol) ==
    LET kind == IF symbol.kind = "InstanceBody" THEN symbol.definition ELSE symbol.kind
        types == {t \in DOMAIN SymbolTypes : kind \in SymbolTypes[t]}
    IN IF types = {} THEN None
       ELSE Class(CHOOSE t \in types : TRUE,
                  IF kind \in {"Genvar", "LocalParam"} THEN {"readonly"} ELSE {}, symbol)

Types == <<{"port"}, {"modport"}, {"net"}, {"variable"}, {"parameter"}, {"enumMember"}, {"property"},
           {"typeParameter"}, {"type", "enum", "struct", "class", "interface", "namespace"},
           {"function"}, {"instance"}, {"label", "macro"}>>
tokenTypePriority(type) == CHOOSE i \in DOMAIN Types : type \in Types[i]

-----------------------------------------------------------------------------
(* Disabled regions.                                                            *)

IsDirective(item) == item.kind \in {"ifdef", "elsif", "else", "endif"}

\* Whether the branches open behind item i are active, the innermost last.
Branches(items) ==
    LET step(stack, item) ==
            LET outer == \A n \in DOMAIN stack : stack[n].active
                above == \A n \in 1..(Len(stack) - 1) : stack[n].active
                top == stack[Len(stack)]
            IN CASE item.kind = "ifdef" ->
                    Append(stack, [active |-> outer /\ item.taken, taken |-> outer /\ item.taken])
                 [] item.kind = "elsif" ->
                    [stack EXCEPT ![Len(stack)] = [active |-> above /\ ~top.taken /\ item.taken,
                                                   taken |-> top.taken \/ item.taken]]
                 [] item.kind = "else" ->
                    [stack EXCEPT ![Len(stack)] = [active |-> above /\ ~top.taken, taken |-> TRUE]]
                 [] item.kind = "endif" -> Front(stack)
                 [] OTHER -> stack
    IN [i \in DOMAIN items |-> FoldLeft(step, <<>>, SubSeq(items, 1, i))]

\* The tokens that the preprocessor hangs on the directive at i: those up to the next
\* directive, if its branch is not taken.
DisabledTokens(items, i) ==
    IF \A n \in DOMAIN Branches(items)[i] : Branches(items)[i][n].active THEN {}
    ELSE {j \in (i + 1)..Len(items) : \A k \in (i + 1)..j : ~IsDirective(items[k])}

\* One region per directive, in the order of the visit, which need not be that of the text.
disabledRegions(items, visit) ==
    LET regions == [n \in DOMAIN visit |->
                       LET T == DisabledTokens(items, visit[n]) IN
                       IF T = {} THEN None
                       ELSE [start |-> End(visit[n]), end |-> End(CHOOSE j \in T : \A k \in T : k <= j)]]
    IN SelectSeq(regions, LAMBDA r : r # None)

SortedRegions(regions) == SortSeq(regions, LAMBDA r, s : r.start < s.start)

\* The last region that starts at or before the offset is the only one looked at: the
\* regions are searched for it by bisection.
isInactive(regions, offset) ==
    LET RECURSIVE Bisect(_, _)
        Bisect(first, count) ==
            IF count = 0 THEN first
            ELSE LET half == count \div 2 IN
                 IF regions[first + half].start <= offset THEN Bisect(first + half + 1, count - half - 1)
                 ELSE Bisect(first, half)
        point == Bisect(1, Len(regions))
    IN point > 1 /\ regions[point - 1].end > offset

-----------------------------------------------------------------------------
(* Classification.                                                              *)

\* The first of the symbols with the best priority.
classifyBest(symbols) ==
    LET classes == SelectSeq([i \in DOMAIN symbols |-> classifySymbol(symbols[i])], LAMBDA c : c # None)
        better(best, c) ==
            IF best = None \/ tokenTypePriority(c.type) < tokenTypePriority(best.type) THEN c ELSE best
    IN IF classes = <<>> THEN None ELSE FoldLeft(better, Head(classes), Tail(classes))

classifyIndexed(token) ==
    LET best == classifyBest(token.indexed) IN
    IF best = None \/ best.symbol.at # token.at THEN best
    ELSE [best EXCEPT !.modifiers = @ \cup {"declaration"} \cup
             (IF best.symbol.kind \in {"Module", "Program", "Interface"} THEN {"definition"} ELSE {})]

\* token.named: the token is the name of its parent.
classifySyntax(token) ==
    IF ~token.named THEN None
    ELSE CASE token.parent = "DefineDirective" -> Class("macro", {"declaration"}, None)
           [] token.parent = "NamedBlockClause" -> Class("label", {}, None)
           [] token.parent = "HierarchicalInstance" -> Class("instance", {}, None)
           [] token.parent \in {"NamedPortConnection", "ShortPortConnection", "ExplicitNonAnsiPort"} -> Class("port", {}, None)
           [] OTHER -> None

isShorthandPortConnection(token) == token.parent = "ShortPortConnection" /\ token.named
isMemberName(token) == token.parent \in {"ScopedRight", "DotMember", "MemberAccess"}
isScopeQualifier(token) == token.parent = "ScopedLeft"

FirstOf(classes) ==
    LET found == SelectSeq(classes, LAMBDA c : c # None) IN IF found = <<>> THEN None ELSE Head(found)

\* token.lookup: what the nearest enclosing scope that a symbol has finds; definition and
\* package: the unit of that name.
classifyReference(token) ==
    LET ofSymbol(s) == IF s = None THEN None ELSE classifySymbol(s)
        package == IF token.package = None THEN None ELSE Class("namespace", {}, token.package)
    IN FirstOf(<<IF isMemberName(token) THEN classifyBest(token.members) ELSE None,
                 ofSymbol(token.lookup),
                 IF isScopeQualifier(token) THEN package ELSE None,
                 ofSymbol(token.definition), package>>)

\* A bug: names are looked up before the syntax around them is considered.
classifyToken_lookupFirst(token) ==
    FirstOf(<<classifyIndexed(token), classifyReference(token), classifySyntax(token)>>)

classifyToken(token) ==
    CASE token.kind = "macro" -> Class("macro", {}, None)
      [] token.kind = "system" -> Class("function", {"defaultLibrary"}, None)
      [] OTHER -> IF isShorthandPortConnection(token) THEN Class("port", {}, None)
                  ELSE FirstOf(<<classifyIndexed(token), classifySyntax(token), classifyReference(token)>>)

\* The items that are reported.
collectTokens(items, visit) ==
    LET regions == SortedRegions(disabledRegions(items, visit)) IN
    {i \in DOMAIN items : /\ items[i].kind \in {"identifier", "macro", "system"} /\ ~items[i].missing
                          /\ ~isInactive(regions, Start(i)) /\ classifyToken(items[i].token) # None}
=============================================================================
