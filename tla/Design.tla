------------------------------- MODULE Design -------------------------------
(***************************************************************************)
(* A build and what the user has selected in it: ServerCompilation with    *)
(* the elaborated design of the last save, the active instance of each     *)
(* module, the active iteration of each generate loop, the index of the    *)
(* hierarchy search, and the analyses of documents, which are bound to     *)
(* the active instances (ActiveDesignContext).                             *)
(*                                                                         *)
(* The text of a module is its body: its members by name.  Elaboration,    *)
(* which slang does, unfolds instances and loops into a tree of paths; an  *)
(* iteration or array element is an item of its own in a path.  A port is  *)
(* of an interface or of what one of its modports lists; arrays of ports,  *)
(* and modports chosen by the connection, are left out.                    *)
(***************************************************************************)
EXTENDS Naturals, FiniteSets, Sequences, SequencesExt, Functions

CONSTANTS Modules,     \* modules, interfaces and packages
          Interfaces,
          Packages,
          Doc,         \* the document that declares each module
          Texts,       \* the texts each module may have; None: it is not declared
          Body,        \* of a module and a text: its members by name
          Original,    \* the texts when the build is selected
          Top,         \* the top level chosen by setTopLevel, or None
          Indices,     \* items of paths that are written without a dot
          Rank,        \* order of names, as strings and as positions in a text
          Activated,   \* paths that the user activates if they exist
          Depth,       \* bound: length of paths
          MaxSteps,    \* bound
          None

VARIABLES
    source,          \* current texts (the buffers of the documents)
    shallow,         \* the shallow compilation that each document has or would get
    built,           \* the texts that the compilation of m_analysis was built from
    design,          \* that compilation, elaborated
    activeByModule,  \* m_activeInstancesByModule
    activeGenerate,  \* m_activeGenerateScopesByArray
    searchItems,     \* m_hierarchySearchItems, None if not indexed
    analyses,        \* the cached analysis of each document
    picked,          \* history: the last path activated, while it exists
    halfSet,         \* history: a refused activation has changed the selections
    steps

vars == <<source, shallow, built, design, activeByModule, activeGenerate, searchItems, analyses, picked,
          halfSet, steps>>
selection == <<activeByModule, activeGenerate, picked, halfSet>>

Docs == {Doc[m] : m \in Modules}
Sources == {src \in [Modules -> UNION {Texts[m] : m \in Modules}] : \A m \in Modules : src[m] \in Texts[m]}
ASSUME DesignAssumption ==
    /\ Interfaces \subseteq Modules /\ Packages \subseteq Modules
    /\ Original \in Sources
    /\ Top \in (Modules \ Packages) \cup {None}
    /\ Depth \in Nat /\ None \notin Nat /\ None # <<>>
    /\ IsFiniteSet(Docs)
    /\ IsFiniteSet(DOMAIN Rank) /\ \A x \in DOMAIN Rank : Rank[x] \in 0..Cardinality(DOMAIN Rank)

-----------------------------------------------------------------------------
(* Elaboration.                                                            *)

Parent(p) == SubSeq(p, 1, Len(p) - 1)
IsUnder(p, q) == Len(p) > Len(q) /\ SubSeq(p, 1, Len(q)) = q
Relative(p, q) == SubSeq(p, Len(q) + 1, Len(p))
Around(p) == {SubSeq(p, 1, n) : n \in 1..Len(p)}

\* What a member unfolds to: the entries of a loop or an array, the members of a block or
\* of the body of an instance.
Unfolds(src, at) ==
    CASE at.kind = "inst" -> Body[at.of][src[at.of]]
      [] at.kind = "array" -> [i \in at.range |-> [kind |-> "inst", of |-> at.of, ports |-> at.ports]]
      [] at.kind = "loop" -> [i \in at.range |-> [kind |-> "iteration", members |-> at.members]]
      [] at.kind = "iteration" -> at.members
      [] OTHER -> <<>>

\* An instance of a module that is not declared is left out.
Known(src, at) == at.kind \in {"inst", "array"} => src[at.of] # None
Elaborate(src, tops) ==
    LET Below(S) == {x \in UNION {LET u == Unfolds(src, y.at) IN
                                  {[path |-> Append(y.path, k), at |-> u[k]] : k \in DOMAIN u} :
                                  y \in S} : Known(src, x.at)}
        level[n \in Nat] ==
            IF n <= 1 THEN {[path |-> <<t>>, at |-> [kind |-> "inst", of |-> t, ports |-> <<>>]] :
                            t \in tops}
            ELSE Below(level[n - 1])
        nodes == UNION {level[n] : n \in 1..Depth}
    IN [p \in {x.path : x \in nodes} |-> (CHOOSE x \in nodes : x.path = p).at]

\* Modules named by instances and interface ports, in loops too.
Names(body) ==
    LET Of(M) == {M[k].of : k \in {k \in DOMAIN M : M[k].kind \in {"inst", "array", "port"}}}
        In(M) == UNION {{M[k].members} : k \in {k \in DOMAIN M : M[k].kind = "loop"}}
        level[n \in Nat] == IF n = 0 THEN {body} ELSE UNION {In(M) : M \in level[n - 1]}
    IN UNION {Of(M) : M \in UNION {level[n] : n \in 0..Depth}}
Declared(src) == {m \in Modules : src[m] # None}
Roots(src) ==
    Declared(src) \ (Interfaces \cup Packages \cup UNION {Names(Body[m][src[m]]) : m \in Declared(src)})

\* The compilation of a build.
Elaborated(src) == Elaborate(src, IF Top = None THEN Roots(src) ELSE {Top} \cap Declared(src))

\* The bound on paths cuts nothing off, indices are no names of members and only loops have
\* iterations, and the names of ports and elements have their order.
ASSUME ElaborationAssumption ==
    \A src \in Sources :
        LET d == Elaborated(src) IN
        \A p \in DOMAIN d :
            /\ p # None
            /\ Len(p) = Depth => DOMAIN Unfolds(src, d[p]) = {}
            /\ d[p].kind \in {"inst", "iteration"} =>
                \A k \in DOMAIN Unfolds(src, d[p]) :
                    k \notin Indices /\ Unfolds(src, d[p])[k].kind # "iteration"
            /\ d[p].kind \in {"inst", "array"} => d[p].of \in Modules \ Packages
            /\ d[p].kind = "inst" => DOMAIN d[p].ports \subseteq DOMAIN Rank
            /\ d[p].kind = "array" => d[p].range \subseteq DOMAIN Rank

\* The documents that the shallow compilation of a document reads: those it names, and
\* what documents with interfaces name in turn.
getDependentTrees(src, doc) ==
    LET Of(D) == {m \in Declared(src) : Doc[m] \in D}
        Named(D) == {Doc[n] : n \in (UNION {Names(Body[m][src[m]]) : m \in Of(D)}) \cap Declared(src)}
        Open(D) == {d \in D : Of({d}) \cap Interfaces # {}}
        reach[n \in Nat] == IF n = 0 THEN {doc} \cup Named({doc})
                            ELSE LET D == reach[n - 1] IN D \cup Named(Open(D))
    IN reach[Cardinality(Docs)]
ShallowCompilation(src, doc) ==
    LET trees == getDependentTrees(src, doc)
        read == [m \in Modules |-> IF Doc[m] \in trees THEN src[m] ELSE None]
    IN Elaborate(read, Roots(read))

-----------------------------------------------------------------------------
(* The hierarchy.                                                          *)

\* The instance around p; <<>> if there is none.
getEnclosingInstance(d, p) ==
    LET around == {q \in Around(p) \ {p} : d[q].kind = "inst"} IN
    IF around = {} THEN <<>> ELSE CHOOSE q \in around : \A r \in around : Len(r) <= Len(q)

\* The symbol an interface port is connected to in the module that holds its instance.
ConnectionOf(d, inst, name) ==
    LET sym == Append(getEnclosingInstance(d, inst), d[inst].ports[name]) IN
    IF name \in DOMAIN d[inst].ports /\ sym \in DOMAIN d THEN sym ELSE None
Connection(d, port) == ConnectionOf(d, getEnclosingInstance(d, port), Last(port))

\* The ports that a connection is forwarded through with the symbol it ends at, and that
\* symbol, or None.
AppendKnown(way, sym) == IF sym = None THEN way ELSE Append(way, sym)
Forwarded(d, way) ==
    IF d[Last(way)].kind = "port" THEN AppendKnown(way, Connection(d, Last(way))) ELSE way
Resolved(path) ==
    [sourcePath |-> path, resolvedEndpoint |-> IF path = <<>> THEN None ELSE Last(path)]
resolveInterfaceConnection(d, port) ==
    LET way[n \in Nat] == IF n = 0 THEN <<port>> ELSE Forwarded(d, way[n - 1])
    IN Resolved(Tail(way[Len(port)]))

\* The scope that the members of a symbol are in: of a port, the interface instance that it is
\* connected to, or None.
EndpointOf(d, p) == IF d[p].kind = "port" THEN resolveInterfaceConnection(d, p).resolvedEndpoint ELSE p
IsPort(d, sym) == sym # <<>> /\ d[sym].kind = "port"
ConnectedScope(d, end) == IF end # None /\ d[end].kind = "inst" THEN end ELSE None
ScopeOf(d, sym) == IF IsPort(d, sym) THEN ConnectedScope(d, EndpointOf(d, sym)) ELSE sym
Offers(d, sym, name) ==
    IsPort(d, sym) /\ d[sym].modport # None => name \in d[sym].modport

\* A path leads down from the root, and through a port on in the interface behind it.
Member(d, scope, name) ==
    IF scope # None /\ Append(scope, name) \in DOMAIN d THEN Append(scope, name) ELSE None
Inside(d, sym, name) ==
    IF sym # None /\ Offers(d, sym, name) THEN Member(d, ScopeOf(d, sym), name) ELSE None
lookupHierSymbol(d, path) ==
    LET way[n \in Nat] == IF n = 0 THEN <<>> ELSE Inside(d, way[n - 1], path[n])
    IN way[Len(path)]

\* Blocks with nothing in them are hidden.
Hidden(d, p) ==
    /\ d[p].kind \in {"loop", "iteration"}
    /\ ~\E q \in DOMAIN d : IsUnder(q, p) /\ d[q].kind \notin {"loop", "iteration"}

\* What an item of the tree stands for: a symbol of the design, or of the default instance of
\* an interface, which is shown below a port that is not connected.
InDesign(sym) == [default |-> None, sym |-> sym]
TreeOf(d, default) ==
    IF default = None THEN d
    ELSE IF default \in Interfaces \cap Declared(built) THEN Elaborate(built, {default}) ELSE <<>>
getInterfacePortScope(tree, place) ==
    IF IsPort(tree, place.sym) /\ ScopeOf(tree, place.sym) = None
    THEN [default |-> tree[place.sym].of, sym |-> <<tree[place.sym].of>>]
    ELSE [default |-> place.default, sym |-> ScopeOf(tree, place.sym)]
getScopeChildren(tree, scope) ==
    {q \in DOMAIN tree : q = Append(scope, Last(q)) /\ ~Hidden(tree, q)}
getChildrenForScopeSymbol(d, place) ==
    LET tree == TreeOf(d, place.default)
        scope == getInterfacePortScope(tree, place)
        shown == {q \in getScopeChildren(TreeOf(d, scope.default), scope.sym) :
                    Offers(tree, place.sym, Last(q))}
    IN {[default |-> scope.default, sym |-> q] : q \in shown}

\* The names that the tree shows below a path: below none the tops and packages, below a
\* package its members.
Tops(d) == {m \in Modules : <<m>> \in DOMAIN d}
ShownPackages == Packages \cap Declared(built)
tryGetScopeChildren(d, path) ==
    LET sym == lookupHierSymbol(d, path) IN
    IF path = <<>> THEN Tops(d) \cup ShownPackages
    ELSE IF sym # None THEN {Last(x.sym) : x \in getChildrenForScopeSymbol(d, InDesign(sym))}
    ELSE UNION {DOMAIN Body[m][built[m]] : m \in {m \in ShownPackages : path = <<m>>}}

\* The index of searchHierarchy is collected from the items as they come: tops, arrays and scopes
\* with what is below them, ports with the members of their interface, packages with nothing;
\* an instance is looked up by its path.
ItemOf(path, place) == [path |-> path, place |-> place]
IsPackage(item) == item.place.sym = None
IsInstance(d, item) == ~IsPackage(item) /\ TreeOf(d, item.place.default)[item.place.sym].kind = "inst"
\* Variant: an instance is opened only if items have come with it.
Opened_embedded(d, item) ==
    IF IsInstance(d, item) /\ Len(item.path) > 1 THEN InDesign(None) ELSE item.place
Opened(d, item) ==
    IF IsInstance(d, item) /\ Len(item.path) > 1 THEN InDesign(lookupHierSymbol(d, item.path))
    ELSE item.place
ItemsBelow(d, item) ==
    IF Opened(d, item).sym = None THEN {}
    ELSE {ItemOf(Append(item.path, Last(x.sym)), x) : x \in getChildrenForScopeSymbol(d, Opened(d, item))}
RootItems(d) ==
    {ItemOf(<<m>>, InDesign(<<m>>)) : m \in Tops(d)} \cup {ItemOf(<<m>>, InDesign(None)) : m \in ShownPackages}
collect(d) ==
    LET level[n \in Nat] == IF n = 0 THEN RootItems(d) ELSE UNION {ItemsBelow(d, x) : x \in level[n - 1]}
    IN {x.path : x \in UNION {level[n] : n \in 0..Depth}}

-----------------------------------------------------------------------------
(* Active instances.                                                       *)

InstancesOf(d, m) == {p \in DOMAIN d : d[p].kind = "inst" /\ d[p].of = m}

Lower(s, t) ==
    \E n \in 1..(Len(s) + 1) :
        /\ \A i \in 1..(n - 1) : i <= Len(t) /\ s[i] = t[i]
        /\ IF n = Len(s) + 1 THEN Len(t) >= n ELSE n <= Len(t) /\ s[n] < t[n]
Ranks(p) == [i \in DOMAIN p |-> Rank[p[i]]]
Dots(p) == Cardinality({i \in DOMAIN p : p[i] \notin Indices})
\* Nearest to the root, then first in the sources, then by path.
choosePreferredInstance(d, P) ==
    LET Named(p) == SelectSeq(p, LAMBDA x : x \notin Indices)
        Key(p) == <<Dots(p), IF Len(p) = 1 THEN 0 ELSE Rank[d[getEnclosingInstance(d, p)].of],
                    Rank[Last(Named(p))]>> \o Ranks(p)
    IN CHOOSE p \in P : \A q \in P \ {p} : Lower(Key(p), Key(q))

ActiveAmong(m, P) ==
    IF activeByModule[m] \in P THEN activeByModule[m]
    ELSE IF P # {} THEN choosePreferredInstance(design, P) ELSE None
getActiveInstanceSymbol(m) == ActiveAmong(m, InstancesOf(design, m))

\* The instance that a connection to a symbol makes active: of an array, the last element;
\* of a port, what it is connected to; None if there is none.
LastOf(names) == CHOOSE a \in names : \A b \in names : Rank[b] <= Rank[a]
setActiveInterfaceInstance(d, end) ==
    IF end = None THEN None
    ELSE IF d[end].kind = "inst" THEN end
    ELSE IF d[end].kind = "array" /\ d[end].range # {} THEN Append(end, LastOf(d[end].range)) ELSE None
setConnectedInterface(d, sym) ==
    IF sym = None THEN None ELSE setActiveInterfaceInstance(d, EndpointOf(d, sym))
\* Of the ports that are connected to instances of one module, the last wins.
setConnectedInterfaceInstances(act, d, inst) ==
    LET Selected(name) == setConnectedInterface(d, ConnectionOf(d, inst, name))
        To(m) == {name \in DOMAIN d[inst].ports : Selected(name) # None /\ d[Selected(name)].of = m}
    IN [m \in DOMAIN act |-> IF To(m) = {} THEN act[m] ELSE Selected(LastOf(To(m)))]

\* Variant: the connections of an instance override the instance.
setActiveInstanceChain_connectionsLast(act, d, target) ==
    LET Set(a, n) ==
            LET p == SubSeq(target, 1, n) IN
            IF d[p].kind # "inst" THEN a
            ELSE setConnectedInterfaceInstances([a EXCEPT ![d[p].of] = p], d, p)
    IN setConnectedInterfaceInstances(FoldLeft(Set, act, [n \in 1..Len(target) |-> n]), d,
                                      IF getEnclosingInstance(d, target) = <<>> THEN target
                                      ELSE getEnclosingInstance(d, target))
\* From the root to the target, so that deeper selections win.
setActiveInstanceChain(act, d, target) ==
    LET Set(a, n) ==
            LET p == SubSeq(target, 1, n) IN
            IF d[p].kind # "inst" THEN a
            ELSE [setConnectedInterfaceInstances(a, d, p) EXCEPT ![d[p].of] = p]
    IN FoldLeft(Set, act, [n \in 1..Len(target) |-> n])

\* Every iteration around p becomes the active one of its loop.
setActiveGenerateScopes(gen, d, p) ==
    LET new == {q \in Around(p) : d[q].kind = "iteration"} IN
    [a \in DOMAIN gen \cup {Parent(q) : q \in new} |->
        IF \E q \in new : Parent(q) = a THEN CHOOSE q \in new : Parent(q) = a ELSE gen[a]]

\* A selection is kept while its instance exists; a single instance is selected.
syncActiveInstances(act, d) ==
    [m \in Modules |->
        LET P == InstancesOf(d, m) IN
        IF act[m] \in P THEN act[m]
        ELSE IF Cardinality(P) = 1 THEN CHOOSE p \in P : TRUE ELSE None]

-----------------------------------------------------------------------------
(* Generate loops: a loop in the text of a module is the path of its array *)
(* relative to an instance of the module, whatever the iterations in it.   *)

Syntax(rel) == [i \in DOMAIN rel |-> {rel[i]} \ Indices]
collectGenerateArrays(d, inst, loop) ==
    {a \in DOMAIN d : /\ d[a].kind = "loop" /\ IsUnder(a, inst)
                      /\ getEnclosingInstance(d, a) = inst /\ Syntax(Relative(a, inst)) = loop}

\* The loops around an array whose active iteration is around it too; None if one of them
\* has another active iteration.
getActiveAncestorCount(d, array) ==
    LET around == {q \in Around(array) : d[q].kind = "iteration" /\ Parent(q) \in DOMAIN activeGenerate}
    IN IF \E q \in around : activeGenerate[Parent(q)] # q THEN None ELSE Cardinality(around)

chooseGenerateArray(d, arrays) ==
    LET Count(a) == getActiveAncestorCount(d, a)
        Key(a) == (IF Count(a) = None THEN <<1, Depth>> ELSE <<0, Depth - Count(a)>>) \o Ranks(a)
    IN CHOOSE a \in arrays : \A b \in arrays \ {a} : Lower(Key(a), Key(b))

\* The iteration shown for a loop of a module; None if there is no lens.
ActiveEntry(d, array) ==
    LET entries == {Append(array, i) : i \in d[array].range} IN
    IF array \in DOMAIN activeGenerate /\ activeGenerate[array] \in entries
    THEN activeGenerate[array]
    ELSE CHOOSE e \in entries : \A f \in entries : Rank[Last(e)] <= Rank[Last(f)]
ActiveOfArrays(d, arrays) ==
    IF arrays = {} THEN None ELSE ActiveEntry(d, chooseGenerateArray(d, arrays))
getActiveGenerateLoop(m, loop) ==
    LET inst == getActiveInstanceSymbol(m) IN
    IF inst = None THEN None ELSE ActiveOfArrays(design, collectGenerateArrays(design, inst, loop))

-----------------------------------------------------------------------------
(* Locations and analyses.                                                 *)

\* Variant: only the innermost module is tried.
toShallowSymbol_innermost(d, p) ==
    LET inst == getEnclosingInstance(d, p) IN
    inst # <<>> /\ <<d[inst].of>> \o Relative(p, inst) \in DOMAIN shallow[Doc[d[inst].of]]
\* A symbol is looked up again in the shallow compilation of the document of a module
\* around it, under the name of the module, the innermost that is a top there.
toShallowSymbol(d, p) ==
    \E inst \in Around(p) \ {p} :
        /\ d[inst].kind = "inst" /\ Original[d[inst].of] # None
        /\ <<d[inst].of>> \o Relative(p, inst) \in DOMAIN shallow[Doc[d[inst].of]]

\* Whether getHierLocation answers from the current texts or from those of the build.
getHierLocation(p) == IF toShallowSymbol(design, p) THEN "current" ELSE "built"

\* The instance that stands for each module in the analysis of a document, and the
\* interface instances behind its ports.
bindInstance(m) ==
    LET inst == getActiveInstanceSymbol(m)
        ports == IF inst = None THEN {}
                 ELSE {p \in DOMAIN design : Parent(p) = inst /\ design[p].kind = "port"}
    IN [instance |-> inst,
        interfaces |-> {resolveInterfaceConnection(design, p).resolvedEndpoint : p \in ports}]
createActiveDesignContext(doc) ==
    [design |-> built,
     bindings |-> [m \in {m \in Declared(source) \ Packages : Doc[m] \in getDependentTrees(source, doc)} |->
                    bindInstance(m)]]

-----------------------------------------------------------------------------
(* Actions.                                                                *)

NoAnalyses == [d \in Docs |-> None]
Init ==
    /\ source = Original /\ built = Original
    /\ design = Elaborated(source)
    /\ shallow = [d \in Docs |-> ShallowCompilation(source, d)]
    /\ activeByModule = syncActiveInstances([m \in Modules |-> None], design)
    /\ activeGenerate = <<>>
    /\ searchItems = None
    /\ analyses = NoAnalyses
    /\ picked = None /\ halfSet = FALSE
    /\ steps = 0

Step == steps < MaxSteps /\ steps' = steps + 1

\* An edit: analyses that read the document are found invalid when they are next used.
onDocDidChange(m, text) ==
    /\ Step /\ text # source[m]
    /\ source' = [source EXCEPT ![m] = text]
    /\ shallow' = [d \in Docs |-> ShallowCompilation(source', d)]
    /\ analyses' = [d \in Docs |-> IF Doc[m] \in getDependentTrees(source, d) \/
                                      Doc[m] \in getDependentTrees(source', d)
                                   THEN None ELSE analyses[d]]
    /\ UNCHANGED <<built, design, selection, searchItems>>

\* Variant: the search index outlives the design.
refresh_keepSearch ==
    /\ built' = source /\ design' = Elaborated(source)
    /\ activeByModule' = syncActiveInstances(activeByModule, design')
    /\ UNCHANGED <<activeGenerate, searchItems>>
refresh ==
    /\ built' = source /\ design' = Elaborated(source)
    /\ searchItems' = None
    /\ activeByModule' = syncActiveInstances(activeByModule, design')
    /\ UNCHANGED activeGenerate

\* Variant: analyses outlive what they are bound to.
invalidateAnalysesAndRefreshClient_skip == UNCHANGED <<analyses, halfSet>>
invalidateAnalysesAndRefreshClient == analyses' = NoAnalyses /\ halfSet' = FALSE

\* History of activations: what has been activated counts until a save changes it or what is
\* around it.  An instance around p is overridden by one further in that is of the same module
\* or is connected to an interface of it.
Overridden(d, p, q) ==
    \E r \in Around(p) :
        /\ IsUnder(r, q) /\ d[q].kind = "inst" /\ d[r].kind = "inst"
        /\ \/ d[r].of = d[q].of
           \/ \E n \in DOMAIN d[r].ports :
                LET c == setConnectedInterface(d, ConnectionOf(d, r, n)) IN c # None /\ d[c].of = d[q].of
LeftInPlace(p, new) ==
    \A q \in Around(p) :
        q \in DOMAIN new /\ new[q] = design[q] /\ (Overridden(design, p, q) => Overridden(new, p, q))

onDocDidSave ==
    /\ Step
    /\ refresh
    /\ invalidateAnalysesAndRefreshClient
    /\ picked' = IF picked # None /\ LeftInPlace(picked, design') THEN picked ELSE None
    /\ UNCHANGED <<source, shallow>>

\* setActiveInstance(path): a port stands for the interface behind it, and what it is
\* forwarded through is selected on the way.  It may fail after that.
ChainTo(act, d, inst) == IF inst = <<>> THEN act ELSE setActiveInstanceChain(act, d, inst)
ChainAround(act, d, p) == ChainTo(act, d, IF d[p].kind = "inst" THEN p ELSE getEnclosingInstance(d, p))
ChainAroundPort(act, d, p) == IF d[p].kind = "port" THEN ChainAround(act, d, p) ELSE act
ChainAroundPorts(act, d, way) == FoldLeft(LAMBDA a, p : ChainAroundPort(a, d, p), act, way)
ScopesAround(gen, d, way) == FoldLeft(LAMBDA g, p : setActiveGenerateScopes(g, d, p), gen, way)
Activate(sym, connection) ==
    LET target == connection.resolvedEndpoint
        way == <<sym>> \o connection.sourcePath
        forwarded == ChainAroundPorts(activeByModule, design, way)
    IN /\ activeGenerate' = ScopesAround(activeGenerate, design, way)
       /\ activeByModule' = IF target = None THEN forwarded ELSE ChainAround(forwarded, design, target)
       /\ IF target = None
          THEN halfSet' = TRUE /\ picked' = None /\ UNCHANGED analyses
          ELSE invalidateAnalysesAndRefreshClient /\ picked' = target
ActivateSymbol(sym) ==
    /\ sym # None
    /\ Activate(sym, IF design[sym].kind = "port" THEN resolveInterfaceConnection(design, sym)
                     ELSE [sourcePath |-> <<>>, resolvedEndpoint |-> sym])
setActiveInstance(path) == ActivateSymbol(lookupHierSymbol(design, path))

ActivateInstance(path) ==
    /\ Step
    /\ setActiveInstance(path)
    /\ UNCHANGED <<source, shallow, built, design, searchItems>>

searchHierarchy ==
    /\ Step /\ searchItems = None
    /\ searchItems' = collect(design)
    /\ UNCHANGED <<source, shallow, built, design, selection, analyses>>

getAnalysis(doc) ==
    /\ Step /\ analyses[doc] = None
    /\ analyses' = [analyses EXCEPT ![doc] = createActiveDesignContext(doc)]
    /\ UNCHANGED <<source, shallow, built, design, selection, searchItems>>

Next ==
    \/ \E m \in Modules : \E text \in Texts[m] : onDocDidChange(m, text)
    \/ onDocDidSave
    \/ \E path \in Activated \cap DOMAIN design : ActivateInstance(path)
    \/ searchHierarchy
    \/ \E d \in Docs : getAnalysis(d)

Spec == Init /\ [][Next]_vars

-----------------------------------------------------------------------------
(* Properties.                                                             *)

\* Over edits and saves that leave it in place, each module on the way to what setActiveInstance
\* activated last has the deepest of its instances there as its active one, even if an interface
\* of the same module is connected higher up.
PickedInstancesShown ==
    picked # None =>
        \A q \in Around(picked) :
            design[q].kind = "inst" /\ ~Overridden(design, picked, q)
            => getActiveInstanceSymbol(design[q].of) = q
\* Each loop around it shows the iteration it is in, whatever was activated before.
PickedLoopsShown ==
    picked # None =>
        \A q \in Around(picked) :
            LET inst == getEnclosingInstance(design, q) IN
            design[q].kind = "iteration" /\ getActiveInstanceSymbol(design[inst].of) = inst
            => getActiveGenerateLoop(design[inst].of, Syntax(Relative(Parent(q), inst))) = q
\* What was activated last is what the client is shown, in instances and in loops, over edits
\* and saves that leave it in place.
PickedIsShown == PickedInstancesShown /\ PickedLoopsShown

\* Whatever was edited and saved, no module has an active instance that the design does
\* not hold, and a module with a single instance has that one.
ActiveExists ==
    \A m \in Modules :
        LET P == InstancesOf(design, m) IN
        /\ activeByModule[m] \in P \cup {None}
        /\ Cardinality(P) = 1 => activeByModule[m] \in P

\* An analysis that answers requests is bound to the design of the last save and to the
\* instances that are active now, which exist, unless a refused activation has changed
\* them since.
AnalysesBoundToActive ==
    /\ ActiveExists
    /\ \A d \in Docs :
        analyses[d] = None \/ halfSet \/ analyses[d] = createActiveDesignContext(d)

\* Whether the path leads through a port that is not connected: what is below exists in answers only.
Unconnected(d, path) ==
    LET sym == lookupHierSymbol(d, path) IN sym # None /\ IsPort(d, sym) /\ ScopeOf(d, sym) = None

\* The search, which goes over items, and the tree, which looks every path up, agree after any
\* edits and saves.  What the search offers can be revealed in the tree step by step from the
\* root, but for the members of interfaces that are not connected, which come with their port;
\* and what the tree shows below it is offered too, but for the members of packages.
SearchAgreesWithTree ==
    searchItems # None =>
        /\ \A p \in searchItems :
            \/ Last(p) \in tryGetScopeChildren(design, Parent(p))
            \/ \E q \in Around(p) \ {p} : Unconnected(design, q)
        /\ \A p \in searchItems \cup {<<>>} : Len(p) <= Depth /\ p \notin {<<m>> : m \in Packages} =>
            \A k \in tryGetScopeChildren(design, p) : Append(p, k) \in searchItems

\* Whether the module of q is a top in the compilation of its own document, and this
\* compilation reads every module on the way from q to p.
ReachedFrom(new, p, q) ==
    LET doc == Doc[new[q].of] IN
    /\ new[q].kind = "inst" /\ <<new[q].of>> \in DOMAIN shallow[doc]
    /\ \A r \in Around(p) :
        IsUnder(r, q) /\ new[r].kind \in {"inst", "array"} =>
            Doc[new[r].of] \in getDependentTrees(source, doc)
\* A symbol of the design that an unsaved edit has left in place is located in the current
\* text and not in the text of the build (getHierLocation), if a module around it is a top in
\* the compilation of its own document and this reads every module on the way to the symbol.
LocationsFollowEdits ==
    source # built =>
        LET new == Elaborated(source) IN
        \A p \in DOMAIN design \cap DOMAIN new : \A q \in Around(p) \ {p} :
            /\ ReachedFrom(new, p, q)
            /\ design[q].kind = "inst" /\ design[q].of = new[q].of /\ Original[new[q].of] # None
            => getHierLocation(p) = "current"
=============================================================================
