----------------------------- MODULE Completions -----------------------------
(***************************************************************************)
(* Completion: the tokens and the syntax around a cursor, the kind of      *)
(* query and of context they make, the items that are offered, the edit    *)
(* each of them makes, and the later request that resolves an item against *)
(* the document as it is then.                                             *)
(*                                                                         *)
(* A token is [kind, text, start, end]; the tokens of a document are a     *)
(* sequence.  Syntax is the sequence of nodes around the cursor, from the  *)
(* inside outwards.  A symbol is [name, kind, at, located]: located is     *)
(* FALSE for what slang builds in.  The program is                         *)
(*   [scopes, packages, index, macros, receivers, instances, fields]       *)
(* where scopes run outwards from the cursor, each [kind, name, members,   *)
(* imports]; packages maps a name to its members, index a name of the      *)
(* workspace to its kind, receivers a name to the scopes it opens,         *)
(* instances a name to its ports and parameters; macros is [own, indexed], *)
(* and fields the assignment pattern at the cursor.                        *)
(*                                                                         *)
(* The text an item inserts is "label", "call" (with arguments),           *)
(* "instance", "suffix", "connection" or "keyed".                          *)
(***************************************************************************)
EXTENDS Questions, Naturals, Sequences, SequencesExt, FiniteSets, FiniteSetsExt

CONSTANTS Reach,     \* how many tokens are looked at to find an instance
          Names,     \* identifiers
          Symbols,   \* what programs declare
          Docs,      \* documents in which names are completed
          Cursors    \* places in them

ScopeKinds == {"block", "body", "class", "package", "unit"}
IsSymbol(s) == s.name \in Names /\ s.at \in Nat /\ s.located \in BOOLEAN
IsProgram(program) ==
    /\ \A p \in DOMAIN program.packages : program.packages[p] \in Seq(Symbols)
    /\ program.scopes \in Seq([kind : ScopeKinds, name : Names, members : Seq(Symbols), imports : Seq(Names)])
    /\ DOMAIN program.index \subseteq Names /\ IsFiniteSet(DOMAIN program.index)

ASSUME CompletionsAssumption ==
    /\ ({"logic", "always_ff"} \cup {None}) \cap Names = {} /\ None # "{"
    /\ \A s \in Symbols : IsSymbol(s) /\ s # None
    /\ \A s \in Symbols, b \in BOOLEAN : [symbol |-> s, labelOnly |-> b] # None
    /\ \A doc \in Docs : IsProgram(doc.program) /\ doc.expected \in Seq(Symbols)
    /\ Cursors \subseteq Nat

-----------------------------------------------------------------------------
(* Where the cursor is.                                                    *)

Words == {"id", "system", "macro"}
Literals == {"number", "string"}

\* The token that ends at c or before, and the one that starts at c or after.
getTokenBefore(tokens, c) ==
    LET found == SelectSeq(tokens, LAMBDA t : t.start < c /\ t.end <= c)
    IN IF found = <<>> THEN None ELSE Last(found)
getTokenAfter(tokens, c) ==
    LET found == SelectSeq(tokens, LAMBDA t : t.start >= c)
    IN IF found = <<>> THEN None ELSE Head(found)
KindOf(token) == IF token = None THEN "none" ELSE token.kind

\* The word, the keyword or the lone marker that the cursor is in or at the end of.
TargetToken(tokens, c) ==
    LET At(x) == SelectSeq(tokens, LAMBDA t : t.kind \in Words /\ t.start <= x /\ x < t.end)
        words == IF At(c) = <<>> /\ c > 0 THEN At(c - 1) ELSE At(c)
        before == getTokenBefore(tokens, c)
    IN IF words # <<>> THEN Head(words)
       ELSE IF KindOf(before) \in {"keyword", "dollar", "tick"} /\ before.end = c THEN before
       ELSE None
SiteOf(tokens, c, target) ==
    LET start == IF target = None THEN c ELSE target.start
        end == IF target = None THEN c ELSE target.end
    IN [target |-> target, start |-> start, end |-> end,
        before |-> getTokenBefore(tokens, start), after |-> getTokenAfter(tokens, end)]
getCompletionSite(tokens, c) == SiteOf(tokens, c, TargetToken(tokens, c))

\* In a literal, at its end, or behind the width of a number that waits for its base.
isLiteralSite(tokens, c) ==
    LET before == getTokenBefore(tokens, c)
    IN \/ \E i \in DOMAIN tokens : tokens[i].kind \in Literals /\ tokens[i].start < c /\ c < tokens[i].end
       \/ KindOf(before) = "apostrophe" /\ KindOf(getTokenBefore(tokens, before.start)) = "number"
       \/ KindOf(before) \in Literals /\ before.end = c

\* An instantiation that has a name or parameters already, with the cursor in its module name.
isWrittenInstantiation(nodes, c) ==
    LET items == SelectSeq(nodes, LAMBDA n : n.kind \in {"instantiation", "declaring", "item"})
    IN /\ items # <<>>
       /\ Head(items).kind = "instantiation"
       /\ Head(items).start <= c /\ c <= Head(items).typeEnd
       /\ Head(items).parameters \/ Head(items).named

\* The nearest parenthesis that is open at token i, looking back at most Reach tokens.
OpenBefore(tokens, i) ==
    LET Count(j, kind) == Cardinality({k \in (j + 1)..(i - 1) : tokens[k].kind = kind})
    IN {j \in 1..(i - 1) : i - j <= Reach /\ tokens[j].kind = "open" /\ Count(j, "open") = Count(j, "close")}
\* The first instance that is named among the Reach tokens from i on.
InstanceFrom(tokens, i, instances) ==
    LET named == {j \in i..Len(tokens) : j < i + Reach /\ tokens[j].kind = "id" /\ tokens[j].text \in DOMAIN instances}
    IN IF named = {} THEN None ELSE tokens[Min(named)].text
ListOf(instance, parameters, assigned, typing) ==
    [instance |-> instance, parameters |-> parameters, assigned |-> assigned, typing |-> typing]
\* For a lone "." or an empty "#(", which the parser attaches to nothing.
findInstanceListByTokens(tokens, c, instances) ==
    LET last == Cardinality({i \in DOMAIN tokens : tokens[i].end <= c})
        before == IF last = 0 THEN "none" ELSE tokens[last].kind
        open == IF OpenBefore(tokens, last) = {} THEN 0 ELSE Max(OpenBefore(tokens, last))
        opener == IF open <= 1 THEN None ELSE tokens[open - 1]
        Found(name, parameters) == IF name = None THEN None ELSE ListOf(name, parameters, {}, None)
    IN CASE before = "dot" /\ open = 0 /\ last <= Reach -> None
         [] before = "dot" /\ open = 0 -> Found(InstanceFrom(tokens, last - Reach, instances), FALSE)
         [] before = "dot" /\ KindOf(opener) \in {"hash", "none"} ->
               Found(InstanceFrom(tokens, open + 1, instances), opener # None)
         [] before = "dot" ->
               IF opener.kind = "id" /\ opener.text \in DOMAIN instances THEN ListOf(opener.text, FALSE, {}, None)
               ELSE None
         [] before = "open" /\ last > 1 /\ tokens[last - 1].kind = "hash" ->
               Found(InstanceFrom(tokens, last + 1, instances), TRUE)
         [] OTHER -> None

\* The instance whose ports or parameters are listed around the cursor: the nearest node that
\* decides, with the connection that is being typed.
findInstanceListSite(tokens, nodes, c, instances) ==
    LET Inside(n) == n.open < c /\ c <= n.close
        Decides(n) == \/ n.kind \in {"ordered", "instance", "instantiation", "module"}
                      \/ n.kind = "named" /\ Inside(n)
        deciding == {i \in DOMAIN nodes : Decides(nodes[i])}
        first == Min(deciding)
        inner == SubSeq(nodes, 1, first - 1)
        typed == SelectSeq(inner, LAMBDA n : n.kind = "named" /\ c <= n.nameEnd)
        typing == IF typed = <<>> THEN None ELSE Last(typed).name
        lists == SelectSeq(inner, LAMBDA n : n.kind = "parameters")
        node == nodes[first]
    IN IF deciding = {} THEN findInstanceListByTokens(tokens, c, instances)
       ELSE CASE node.kind = "instance" /\ Inside(node) /\ node.name \in DOMAIN instances ->
                   ListOf(node.name, FALSE, {}, typing)
              [] node.kind = "instantiation" /\ lists # <<>> /\ node.name \in DOMAIN instances ->
                   ListOf(node.name, TRUE, Last(lists).assigned, typing)
              [] OTHER -> None

\* The kind of query: the first case that fits.
fromSite(doc, c, trigger, site, list) ==
    LET target == KindOf(site.target)
        before == KindOf(site.before)
    IN CASE isLiteralSite(doc.tokens, c) -> "Suppressed"
         [] list # None -> "InstancePorts"
         [] target \in {"system", "dollar"} -> "SystemSubroutine"
         [] target \in {"macro", "tick"} -> "Macro"
         [] before = "scope" -> "ScopedAccess"
         [] before = "dot" -> "MemberAccess"
         [] target = "none" /\ before = "hash" -> "InstantiationSuffix"
         [] doc.program.fields # None -> IF trigger = "{" THEN "StructAssign" ELSE "StructMember"
         [] trigger # None /\ target = "none" -> "Suppressed"
         [] OTHER -> "Lexical"

InstanceListAt(doc, c) == findInstanceListSite(doc.tokens, doc.nodes, c, doc.program.instances)
fromLocation(doc, c, trigger) ==
    fromSite(doc, c, trigger, getCompletionSite(doc.tokens, c), InstanceListAt(doc, c))

\* The kind of context: the nearest node that settles it.  An item whose first word is still
\* being written settles nothing, nor does one with the cursor in its module name.
contextKind(doc, c) ==
    LET Items == {"instantiation", "declaring", "item"}
        Starting(n) == ~n.keyword /\ n.start <= c /\ c <= n.firstEnd
        InType(n) == n.kind = "instantiation" /\ n.start <= c /\ c <= n.typeEnd
        Within(n) == c < n.end /\ ~InType(n)
        Settles(n) == /\ n.kind # "instance"
                      /\ n.kind \in Items => ~Starting(n) /\ (Within(n) \/ n.firstEnd < c)
        found == SelectSeq(doc.nodes, Settles)
        node == Head(found)
    IN CASE found = <<>> -> IF doc.program.scopes = <<>> THEN "Unknown" ELSE "ModuleMember"
         [] node.kind \in {"ordered", "named", "expression"} -> "Expression"
         [] node.kind = "procedural" -> "Procedural"
         [] node.kind = "portlist" -> "PortList"
         [] node.kind = "module" -> "ModuleMember"
         [] node.kind \in {"parameters", "declaration"} -> "Declaration"
         [] node.kind = "declaring" /\ Within(node) -> "Declaration"
         [] OTHER -> "Expression"

-----------------------------------------------------------------------------
(* Items.                                                                  *)

Item(label, kind) ==
    [label |-> label, kind |-> kind, insert |-> None, snippet |-> FALSE, edit |-> None,
     data |-> None, documented |-> FALSE, rank |-> None]
Inserting(item, text) == [item EXCEPT !.insert = text, !.snippet = TRUE]
Ranked(items, rank) == [i \in DOMAIN items |-> [items[i] EXCEPT !.rank = rank]]
rankUnrankedCompletions(items, first, rank) ==
    [i \in DOMAIN items |-> IF i >= first /\ items[i].rank = None
                            THEN [items[i] EXCEPT !.rank = rank] ELSE items[i]]

toCompletionItemKind(symbol) ==
    CASE symbol.kind = "fn" -> "Function"
      [] symbol.kind \in {"class", "instance"} -> "Class"
      [] symbol.kind = "parameter" -> "Constant"
      [] symbol.kind = "type" -> "Struct"
      [] OTHER -> "Variable"

\* An item carries what a later request needs to find its symbol.  What slang builds in cannot
\* be found again and is resolved at once.  A call is written now, unless the client lets it
\* wait until the item is resolved.
getCompletion(symbol, labelOnly, defer) ==
    LET item == Item(symbol.name, toCompletionItemKind(symbol))
        written == IF symbol.kind = "fn" /\ (~defer \/ ~symbol.located) THEN Inserting(item, "call") ELSE item
    IN [written EXCEPT !.data = IF symbol.located THEN [symbol |-> symbol, labelOnly |-> labelOnly] ELSE None,
                       !.documented = ~symbol.located]

addKeywordCompletions ==
    Ranked(<<Item("logic", "Keyword"), Inserting(Item("always_ff", "Snippet"), "keyed")>>, "Keyword")

\* The members of a scope that suit the context.
Fits(member, context) ==
    /\ member.kind # "package"
    /\ context = "Expression" => member.kind # "class"
    /\ context \in {"ModuleMember", "PortList"} => member.kind \in {"type", "class"}
\* A member of anything but these scopes has to be declared before it is used.
declaredAfterCursor(symbol, scope, ask) ==
    symbol.located /\ symbol.at > ask.cursor /\ scope.kind \notin {"body", "unit", "package"}
\* The symbol a member stands for: what an import by name imports, None if it does not exist.
Unwrapped(member, program) ==
    LET exported == IF member.from \in DOMAIN program.packages THEN program.packages[member.from] ELSE <<>>
        imported == {i \in DOMAIN exported : exported[i].name = member.name}
    IN IF member.kind # "import" THEN member
       ELSE IF imported = {} THEN None ELSE exported[Min(imported)]

\* ask is [cursor, program, context, labelOnly, defer]; acc is [items, seen].
pushCompletion(acc, member, scope, ask) ==
    LET symbol == Unwrapped(member, ask.program)
        \* What is imported is declared in a package.
        late == member.kind # "import" /\ declaredAfterCursor(symbol, scope, ask)
        portValue == member.kind = "value" /\ acc.items # <<>> /\ Last(acc.items).label = member.name
    IN IF ~Fits(member, ask.context) \/ portValue \/ symbol = None THEN acc
       ELSE IF late \/ symbol.name \in acc.seen THEN acc
       ELSE [items |-> Append(acc.items, getCompletion(symbol, ask.labelOnly, ask.defer)),
             seen |-> acc.seen \cup {symbol.name}]
\* The scope that the search came from is left out.
AddMembers(acc, scope, from, ask) ==
    FoldLeft(LAMBDA a, m : IF m.kind = "scope" /\ m.name = from THEN a ELSE pushCompletion(a, m, scope, ask),
             acc, scope.members)
PackageScope(p, program) == [kind |-> "package", name |-> p, members |-> program.packages[p], imports |-> <<>>]
\* The names that a wildcard import makes visible.  The call for the package ranks its items
\* as Scope, before its caller can rank them as Imported.
AddImport(acc, p, ask) ==
    LET added == AddMembers(acc, PackageScope(p, ask.program), None, ask)
        first == Len(acc.items) + 1
    IN [added EXCEPT !.items = rankUnrankedCompletions(rankUnrankedCompletions(@, first, "Scope"), first, "Imported")]
AddImports(acc, scope, ask) ==
    FoldLeft(LAMBDA a, p : IF p \in DOMAIN ask.program.packages THEN AddImport(a, p, ask) ELSE a, acc, scope.imports)

\* The values of the enumeration that is assigned to come first.
addExpectedEnumCompletions(items, expected) ==
    LET Add(acc, value) ==
            IF \E i \in DOMAIN acc.items : acc.items[i].label = value.name THEN acc
            ELSE [items |-> Append(acc.items, [getCompletion(value, FALSE, FALSE) EXCEPT !.rank = "Scope"]),
                  seen |-> acc.seen \cup {value.name}]
    IN FoldLeft(Add, [items |-> items, seen |-> {}], expected)

\* Variant: a scope's imports are searched with the names its members have not hidden.
addCompletions_importsFirst(items, scopes, ask, expected) ==
    LET start == addExpectedEnumCompletions(
                     items \o IF ask.context = "ModuleMember" THEN addKeywordCompletions ELSE <<>>, expected)
        From(i) == IF i = 1 THEN None ELSE scopes[i - 1].name
        Scope(acc, i) == AddMembers(AddImports(acc, scopes[i], ask), scopes[i], From(i), ask)
        all == FoldLeft(Scope, start, [i \in DOMAIN scopes |-> i])
    IN rankUnrankedCompletions(all.items, Len(items) + 1, "Scope")
\* Outwards through the scopes, each with its imports.  A name that was added hides the ones
\* further out.
addCompletions(items, scopes, ask, expected) ==
    LET start == addExpectedEnumCompletions(
                     items \o IF ask.context = "ModuleMember" THEN addKeywordCompletions ELSE <<>>, expected)
        From(i) == IF i = 1 THEN None ELSE scopes[i - 1].name
        Scope(acc, i) == AddImports(AddMembers(acc, scopes[i], From(i), ask), scopes[i], ask)
        all == FoldLeft(Scope, start, [i \in DOMAIN scopes |-> i])
    IN rankUnrankedCompletions(all.items, Len(items) + 1, "Scope")

\* The names of the workspace, in any order: a module starts an item, a class is no value.
LibraryItems(index, context) ==
    LET offered == {n \in DOMAIN index : /\ index[n] = "module" => context = "ModuleMember"
                                         /\ index[n] = "class" => context # "Expression"}
        Kind(n) == CASE index[n] = "interface" -> "Interface" [] index[n] = "class" -> "Class" [] OTHER -> "Module"
        Entry(n) == IF index[n] = "interface" /\ context # "ModuleMember"
                    THEN [Item(n, Kind(n)) EXCEPT !.insert = "label"] ELSE Item(n, Kind(n))
    IN Ranked(SetToSeq({Entry(n) : n \in offered}), "Library")

LexicalItems(ask, expected) ==
    addCompletions(LibraryItems(ask.program.index, ask.context), ask.program.scopes, ask, expected)

\* Ports or parameters that the list does not name yet, apart from the one being typed; a
\* connection by position counts as one without a name (None).
\* General names follow where a connection by position, or the value of ".name", may stand.
InstancePortItems(list, site, ask, expected) ==
    LET instance == ask.program.instances[list.instance]
        written == IF list.parameters THEN list.assigned ELSE instance.connected
        names == SelectSeq(IF list.parameters THEN instance.parameters ELSE instance.ports,
                           LAMBDA s : s.name \notin written \ ({list.typing} \ {None}))
        connections == Ranked([i \in DOMAIN names |-> Inserting(getCompletion(names[i], FALSE, FALSE), "connection")],
                              "Scope")
        leadingDot == KindOf(site.before) # "dot"
        afterSeparator == KindOf(site.before) \in {"open", "comma"}
        generalCompletionsFit == IF leadingDot THEN written = {} \/ afterSeparator ELSE ~list.parameters
        Unseen(acc, item) == IF \E i \in DOMAIN acc : acc[i].label = item.label THEN acc ELSE Append(acc, item)
    IN IF generalCompletionsFit
       THEN FoldLeft(Unseen, connections, LexicalItems([ask EXCEPT !.labelOnly = FALSE], expected))
       ELSE connections

\* The members of what stands before the ".": modports, or members but no constructor, and no
\* name twice in a row.
MemberAccessItems(receiver, ask) ==
    LET Add(acc, m) == IF m.kind = "constructor" \/ m.name = acc.last THEN acc
                       ELSE [items |-> Append(acc.items, getCompletion(m, ask.labelOnly, ask.defer)), last |-> m.name]
        Modport(m) == [Item(m.name, "Field") EXCEPT !.documented = TRUE]
        members == Head(receiver.scopes).members
    IN CASE receiver = None -> <<>>
         [] receiver.kind = "interface" -> [i \in DOMAIN members |-> Modport(members[i])]
         [] OTHER -> FoldLeft(Add, [items |-> <<>>, last |-> None], members).items

MacroItem(name) == Item(name, "Constant")
MacroItems(macros) ==
    LET own == [i \in DOMAIN macros.own |-> [Inserting(MacroItem(macros.own[i]), "call") EXCEPT !.documented = TRUE]]
    IN own \o [i \in 1..Cardinality(macros.indexed \ Range(macros.own)) |->
                 MacroItem(SetToSeq(macros.indexed \ Range(macros.own))[i])]
SystemItems == <<[Inserting(Item("$display", "Function"), "call") EXCEPT !.documented = TRUE]>>

\* All fields at once, in a pattern that is still empty.
StructAssignItems(fields) ==
    IF fields.all = <<>> \/ fields.present # {} THEN <<>>
    ELSE <<[Inserting(Item("fields", "Snippet"), "keyed") EXCEPT !.rank = "Scope"]>>
\* The fields that have no key yet, and the default.
StructMemberItems(fields, followedByColon, ask) ==
    LET missing == SelectSeq(fields.all, LAMBDA s : s.name \notin fields.present)
        Key(item) == IF followedByColon THEN item ELSE Inserting(item, "keyed")
    IN [i \in DOMAIN missing |-> Key([getCompletion(missing[i], FALSE, ask.defer) EXCEPT !.kind = "Field"])]
       \o IF "default" \in fields.present THEN <<>> ELSE <<Key(Item("default", "Keyword"))>>

\* The rest of an instantiation after "#", resolved at once.
SuffixItems(receiver, program) ==
    IF receiver \notin DOMAIN program.index THEN <<>>
    ELSE LET item == [Item(receiver, "Module") EXCEPT !.documented = TRUE]
         IN <<CASE program.index[receiver] \in {"module", "interface"} -> Inserting(item, "suffix")
                [] program.index[receiver] = "package" -> [item EXCEPT !.insert = "label"]
                [] OTHER -> [item EXCEPT !.documented = FALSE]>>

-----------------------------------------------------------------------------
(* The edit an item makes.                                                 *)

Instantiable == {"Module", "Interface", "Class"}
\* A call or an instantiation that is written already keeps its shape.
setCompletionEdit(item, followedByCall, followedByInstantiation) ==
    LET keepsShape == \/ followedByCall /\ item.kind = "Constant"
                      \/ followedByInstantiation /\ item.kind \in Instantiable
        kept == IF keepsShape THEN [item EXCEPT !.insert = "label", !.snippet = FALSE] ELSE item
        labelOnly == \/ followedByCall /\ kept.snippet
                     \/ followedByInstantiation /\ kept.kind \in Instantiable
    IN [kept EXCEPT !.edit = IF labelOnly \/ kept.insert = None THEN "label" ELSE kept.insert]

\* Whether the query honours the call, or the instantiation, that follows.
HonoursCall(query) == query \in {"Lexical", "MemberAccess", "ScopedAccess", "Macro", "SystemSubroutine"}
OpenedBy(receiver, program) ==
    IF receiver # None /\ receiver.text \in DOMAIN program.receivers
    THEN program.receivers[receiver.text] ELSE None
QueryItems(query, doc, site, list, receiver, ask) ==
    CASE query = "InstancePorts" -> InstancePortItems(list, site, ask, doc.expected)
      [] query = "SystemSubroutine" -> SystemItems
      [] query = "Macro" -> MacroItems(ask.program.macros)
      [] query = "ScopedAccess" ->
           IF OpenedBy(receiver, ask.program) = None THEN <<>>
           ELSE addCompletions(<<>>, OpenedBy(receiver, ask.program).scopes, [ask EXCEPT !.context = "Expression"],
                               doc.expected)
      [] query = "MemberAccess" -> MemberAccessItems(OpenedBy(receiver, ask.program), ask)
      [] query = "InstantiationSuffix" -> IF receiver = None THEN <<>> ELSE SuffixItems(receiver.text, ask.program)
      [] query = "StructAssign" -> StructAssignItems(ask.program.fields)
      [] query = "StructMember" -> StructMemberItems(ask.program.fields, KindOf(site.after) = "colon", ask)
      [] query = "Lexical" -> LexicalItems(ask, doc.expected)
      [] OTHER -> <<>>
Finish(items, doc, call, written) ==
    LET Finished(item) ==
            setCompletionEdit(IF item.data = None /\ item.kind \in Instantiable
                              THEN [item EXCEPT !.data = [uri |-> doc.uri]] ELSE item, call, written)
    IN [i \in DOMAIN items |-> Finished(items[i])]
CompletionsOf(query, doc, c, trigger, resolveEdits, site, list) ==
    LET call == HonoursCall(query) /\ KindOf(site.after) = "open"
        written == query = "Lexical" /\ isWrittenInstantiation(doc.nodes, c)
        ask == [cursor |-> c, program |-> doc.program, context |-> contextKind(doc, c), labelOnly |-> call,
                defer |-> resolveEdits]
        receiver == getTokenBefore(doc.tokens, site.before.start)
    IN IF trigger = "{" /\ query # "StructAssign" THEN <<>>
       ELSE Finish(QueryItems(query, doc, site, list, receiver, ask), doc, call, written)
getCompletions(doc, c, trigger, resolveEdits) ==
    CompletionsOf(fromLocation(doc, c, trigger), doc, c, trigger, resolveEdits,
                  getCompletionSite(doc.tokens, c), InstanceListAt(doc, c))

-----------------------------------------------------------------------------
(* Resolving an item, later.                                               *)

updateCompletionEditText(item) == IF item.insert = None THEN item ELSE [item EXCEPT !.edit = item.insert]

\* A name of the workspace, as the nearest file declares it now.
resolveInstance(item, index) ==
    LET kind == IF item.label \in DOMAIN index THEN index[item.label] ELSE None
        known == [item EXCEPT !.documented = kind # "class", !.data = None]
    IN CASE kind = None -> item
         [] kind \in {"module", "interface"} /\ item.insert = None ->
               updateCompletionEditText(Inserting(known, "instance"))
         [] kind = "package" -> updateCompletionEditText([known EXCEPT !.insert = "label", !.snippet = FALSE])
         [] OTHER -> updateCompletionEditText(known)

\* Variant: the edit is brought up to date for every item.
resolveMember_always(item, symbols, resolveEdits) ==
    LET found == IF item.data.symbol.name \in DOMAIN symbols THEN symbols[item.data.symbol.name] ELSE None
        call == found # None /\ found.kind = "fn" /\ resolveEdits
        resolved == [(IF call THEN Inserting(item, "call") ELSE item) EXCEPT !.documented = TRUE, !.data = None]
    IN IF found = None THEN [item EXCEPT !.data = None] ELSE updateCompletionEditText(resolved)
\* A symbol of the analysis, found again by its place or, in a changed document, by its path.
resolveMember(item, symbols, resolveEdits) ==
    LET found == IF item.data.symbol.name \in DOMAIN symbols THEN symbols[item.data.symbol.name] ELSE None
        call == found # None /\ found.kind = "fn" /\ resolveEdits
        resolved == [(IF call THEN Inserting(item, "call") ELSE item) EXCEPT !.documented = TRUE, !.data = None]
    IN CASE found = None -> [item EXCEPT !.data = None]
         [] item.data.labelOnly -> resolved
         [] OTHER -> updateCompletionEditText(resolved)

resolveMacro(item, macros) ==
    IF item.label \notin macros.indexed THEN item
    ELSE LET known == IF item.insert = None THEN Inserting(item, "call") ELSE item
         IN updateCompletionEditText([known EXCEPT !.documented = TRUE])

\* later is [index, symbols, macros] of the program as it is when the client asks.
getCompletionItemResolve(item, later, resolveEdits) ==
    CASE item.documented -> item
      [] item.label = "$display" -> item
      [] item.data # None /\ "uri" \in DOMAIN item.data -> resolveInstance(item, later.index)
      [] item.data # None -> resolveMember(item, later.symbols, resolveEdits)
      [] item.kind = "Constant" -> resolveMacro(item, later.macros)
      [] OTHER -> item

-----------------------------------------------------------------------------
(* A client completes a name.                                              *)

AskNames ==
    /\ question = None
    /\ \E doc \in Docs, c \in Cursors : question' = [about |-> "names", doc |-> doc, cursor |-> c]
NamesSpec == question = None /\ [][AskNames]_question

\* What a name declares among the members of a scope: the ones that suit the context and, where
\* the order of declarations matters, are declared by then.
Declared(members, kind, name, ask) ==
    {Unwrapped(m, ask.program) : m \in
        {d \in members :
            /\ d.name = name /\ Fits(d, ask.context)
            /\ \/ kind \in {"body", "unit", "package"} \/ d.kind = "import" \/ ~d.located
               \/ d.at <= ask.cursor}} \ {None}
\* A scope has no name in itself.
Own(scopes, i, name, ask) ==
    LET inside(m) == i > 1 /\ m.kind = "scope" /\ m.name = scopes[i - 1].name
    IN Declared({m \in ToSet(scopes[i].members) : ~inside(m)}, scopes[i].kind, name, ask)
\* What a package imports by name counts as exported.
Imported(scopes, i, name, ask) ==
    UNION {Declared(ToSet(ask.program.packages[p]), "package", name, ask) :
           p \in ToSet(scopes[i].imports) \cap DOMAIN ask.program.packages}
\* What a name resolves to: of the innermost scope in which it is visible, what the scope
\* declares, or else what it imports.
Nearest(scopes, name, ask) ==
    LET own(i) == Own(scopes, i, name, ask)
        imported(i) == Imported(scopes, i, name, ask)
        innermost == {i \in DOMAIN scopes : \A j \in 1..(i - 1) : own(j) \cup imported(j) = {}}
    IN UNION {IF own(i) # {} THEN own(i) ELSE imported(i) : i \in innermost}

\* An item for a symbol, with what a later request needs to find it.
ItemFor(item, s) ==
    /\ item.label = s.name /\ item.kind = toCompletionItemKind(s)
    /\ s.located => item.data # None /\ item.data.symbol = s
\* name is offered once, for one of the symbols, or not at all if there are none.
Offers(items, name, symbols) ==
    /\ \A i, j \in DOMAIN items : items[i].label = name /\ items[j].label = name => i = j
    /\ (\E i \in DOMAIN items : items[i].label = name) <=> symbols # {}
    /\ \A i \in DOMAIN items : items[i].label = name => \E s \in symbols : ItemFor(items[i], s)
\* Names that stand in the list for more than what they resolve to.
OfferedAnyway(doc) == {doc.expected[i].name : i \in DOMAIN doc.expected} \cup DOMAIN doc.program.index

\* The list offers each visible name once, as the declaration that the name would resolve to
\* among those that suit the context, however scopes and imports hide each other, and no name
\* that is not visible.  A value of the enumeration that is assigned to takes the place of a
\* declaration with its name, and the workspace offers its own names.
OffersWhatResolves ==
    question # None /\ question.about = "names" =>
        LET doc == question.doc
            c == question.cursor
            ask == [cursor |-> c, program |-> doc.program, context |-> contextKind(doc, c)]
        IN fromLocation(doc, c, None) = "Lexical" =>
               \A defer \in BOOLEAN : LET items == getCompletions(doc, c, None, defer) IN
                   \A name \in Names \ OfferedAnyway(doc) :
                       Offers(items, name, Nearest(doc.program.scopes, name, ask))
=============================================================================
