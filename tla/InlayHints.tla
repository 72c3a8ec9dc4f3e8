------------------------------ MODULE InlayHints ------------------------------
(* Inlay hints of one document (InlayHintCollector): which syntax nodes a      *)
(* requested range selects, and the hints each node gives. A node is a record  *)
(* with its kind, the offsets of its first token and behind its last, whether  *)
(* it is in the document's buffer, and what the lookups of its tokens found.   *)
(* A hint is the offset where it is shown and its label; padding, alignment    *)
(* and the layout of a replacement are left out.                               *)
EXTENDS SequencesExt

CONSTANT None

Hint(at, label) == [at |-> at, label |-> label]
AtMost(m, n) == IF m < n THEN m ELSE n
Ordered(args) == SelectSeq(args, LAMBDA arg : arg.kind = "ordered")

-----------------------------------------------------------------------------
(* Instantiations                                                              *)

\* Positional parameters, counted over the positional ones among the first few.
ParameterNames(node) ==
    LET params == node.definition.params
        given == SubSeq(node.overrides, 1, AtMost(Len(node.overrides), Len(params)))
        ordered == Ordered(given)
    IN [i \in DOMAIN ordered |-> Hint(ordered[i].at, params[i].name)]

FindPort(ports, name) == SelectSeq(ports, LAMBDA p : p.name = name /\ p.header # None)

\* One connection of an instance. line is the line of the last named connection, and a
\* second one there ends the whole instantiation (stop).
Connection(ports, config, s, c) ==
    CASE s.stop -> s
      [] ~s.stop /\ c.kind = "ordered" /\ config.orderedInstanceNames /\ s.index < Len(ports) ->
           [s EXCEPT !.index = @ + 1, !.hints = Append(@, Hint(c.at, ports[s.index + 1].name))]
      [] ~s.stop /\ c.kind = "named" /\ config.portTypes /\ FindPort(ports, c.name) # <<>> ->
           [s EXCEPT !.named = Append(@, Hint(c.at, Head(FindPort(ports, c.name)).header)),
                     !.stop = c.line = s.line, !.line = c.line]
      [] ~s.stop /\ c.kind = "wildcard" /\ config.wildcardNames ->
           [s EXCEPT !.hints = Append(@, Hint(c.at, [i \in DOMAIN ports |-> ports[i].name]))]
      [] OTHER -> s

\* The types of named connections come after the other hints of their instance, and not at
\* all when the instance stopped early.
Instance(ports, config, s, inst) ==
    IF s.stop \/ inst.kind # "hierarchical" THEN s
    ELSE LET done == FoldLeft(LAMBDA t, c : Connection(ports, config, t, c),
                              [hints |-> s.hints, named |-> <<>>, index |-> 0, line |-> None, stop |-> FALSE],
                              inst.connections)
         IN [stop |-> done.stop, hints |-> done.hints \o (IF done.stop THEN <<>> ELSE done.named)]

handleInstantiation(node, config) ==
    IF node.definition = None THEN <<>>
    ELSE FoldLeft(LAMBDA s, inst : Instance(node.definition.ports, config, s, inst),
                  [stop |-> FALSE,
                   hints |-> IF config.orderedInstanceNames THEN ParameterNames(node) ELSE <<>>],
                  node.instances).hints

-----------------------------------------------------------------------------
(* Declarations, calls, classes and patterns                                   *)

\* Parameters whose value in the active instance is known.
handleParameter(node, config) ==
    IF ~config.activeParameterValues THEN <<>>
    ELSE LET known == SelectSeq(node.declarators, LAMBDA d : d.value # None)
         IN [i \in DOMAIN known |-> Hint(known[i].at, known[i].value)]

\* The definition at the place of use comes before the last one of that name.
handleMacroUsage(node, config) ==
    LET formals == IF node.defined # None THEN node.defined ELSE node.latest
    IN IF config.macroArgNames <= 0 \/ formals = None \/ Len(node.args) < config.macroArgNames THEN <<>>
       ELSE [i \in 1..AtMost(Len(node.args), Len(formals)) |-> Hint(node.args[i].at, formals[i])]

\* Positional arguments up to the first that is not; formals without a name are passed over.
handleInvocation(node, config) ==
    IF config.funcArgNames <= 0 \/ node.formals = None \/ Len(node.args) < config.funcArgNames THEN <<>>
    ELSE LET leading == {i \in 1..AtMost(Len(node.args), Len(node.formals)) :
                            \A j \in 1..i : node.args[j].kind = "ordered"}
             hints == [i \in leading |-> Hint(node.args[i].at, node.formals[i])]
         IN SelectSeq(hints, LAMBDA h : h.label # "")

handleClassName(node, config) ==
    IF ~config.orderedInstanceNames \/ node.formals = None THEN <<>>
    ELSE LET ordered == Ordered(node.args)
         IN [i \in 1..AtMost(Len(ordered), Len(node.formals)) |-> Hint(ordered[i].at, node.formals[i])]

\* The type an untyped pattern is assigned to: what a type parameter stands for, the type's
\* own name, or the name its declaration was written with; qualified in packages and classes.
handleAssignmentPattern(node, config) ==
    LET names == SelectSeq(<<node.target.stands, node.target.own, node.target.written>>, LAMBDA t : t # None)
        label == IF Head(names).scope = None THEN <<Head(names).name>> ELSE <<Head(names).scope, Head(names).name>>
    IN IF \/ ~config.assignmentPatternTypes \/ node.typed \/ node.target = None
          \/ ~node.target.aggregate \/ names = <<>>
       THEN <<>>
       ELSE <<Hint(node.first, label)>>

-----------------------------------------------------------------------------
(* The nodes a request is about                                                *)

\* The nodes in the order they are visited, the outer one first: of those that begin at the
\* same offset the map keeps the first.
collectedHints(nodes) ==
    [at \in {nodes[i].first : i \in {j \in DOMAIN nodes : nodes[j].inBuffer}} |->
        SelectSeq(nodes, LAMBDA n : n.inBuffer /\ n.first = at)[1]]

\* The nodes that begin in the range, and those before it for as long as they reach into it.
InRange(collected, from, to) ==
    {at \in DOMAIN collected :
        /\ at <= to
        /\ \A k \in DOMAIN collected : at <= k /\ k < from => collected[k].end > from}

handle(node, config) ==
    CASE node.kind = "ParameterDeclaration" -> handleParameter(node, config)
      [] node.kind = "HierarchyInstantiation" -> handleInstantiation(node, config)
      [] node.kind = "MacroUsage" -> handleMacroUsage(node, config)
      [] node.kind = "InvocationExpression" -> handleInvocation(node, config)
      [] node.kind = "ClassName" -> handleClassName(node, config)
      [] node.kind = "AssignmentPatternExpression" -> handleAssignmentPattern(node, config)

collectHints(nodes, from, to, config) ==
    LET collected == collectedHints(nodes)
        ats == SetToSortSeq(InRange(collected, from, to), <)
    IN FlattenSeq([i \in DOMAIN ats |-> handle(collected[ats[i]], config)])

=============================================================================
