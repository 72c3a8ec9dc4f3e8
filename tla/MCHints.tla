------------------------------ MODULE MCHints ------------------------------
(* Questions for the inlay hints of a part of a document: an instantiation     *)
(* with up to three connections, calls and macros in them, and a class, a      *)
(* pattern or a parameter after it.                                            *)
EXTENDS MCSnippets

H == INSTANCE InlayHints

HintConfigs == {[orderedInstanceNames |-> on, portTypes |-> TRUE, wildcardNames |-> TRUE, funcArgNames |-> IF on THEN 2 ELSE 0,
                 macroArgNames |-> 2, activeParameterValues |-> TRUE, assignmentPatternTypes |-> TRUE] : on \in BOOLEAN}
Formals == <<"x", "y">>
FormalPorts == <<[name |-> "a", header |-> "input"], [name |-> "b", header |-> "output"]>>

\* Connection i has the offsets 10 * i to 10 * i + 9 and, if it contains one, its call begins there.
Connections ==
    {[kind |-> "ordered", name |-> None, line |-> 1, call |-> call] : call \in {None, "InvocationExpression", "MacroUsage"}}
    \cup {[kind |-> "empty", name |-> None, line |-> 1, call |-> None]}
NamedConnections ==
    {[kind |-> "named", name |-> name, line |-> line, call |-> call] :
        name \in {"b", "c"}, line \in 1..2, call \in {None, "InvocationExpression"}}
    \cup {[kind |-> "wildcard", name |-> None, line |-> 2, call |-> None]}
Call(i, kind) ==
    LET args == [k \in 1..2 |-> [kind |-> "ordered", at |-> 10 * i + 2 * k]] IN
    [kind |-> kind, inBuffer |-> TRUE, first |-> 10 * i, end |-> 10 * i + 7,
     args |-> args, formals |-> Formals, defined |-> Formals, latest |-> <<"z">>]
Instanced(connections, params, overrides) ==
    [kind |-> "HierarchyInstantiation", inBuffer |-> TRUE, first |-> 1, end |-> 50,
     definition |-> [params |-> params, ports |-> FormalPorts],
     overrides |-> [i \in DOMAIN overrides |-> [kind |-> overrides[i], at |-> 1 + i]],
     instances |-> <<[kind |-> "hierarchical",
                      connections |-> [i \in DOMAIN connections |-> connections[i] @@ "at" :> 10 * i]]>>]
Tails ==
    {[kind |-> "ClassName", inBuffer |-> TRUE, first |-> 60, end |-> 70, formals |-> Formals,
      args |-> <<[kind |-> "named", at |-> 61], [kind |-> "ordered", at |-> 63]>>],
     [kind |-> "AssignmentPatternExpression", inBuffer |-> TRUE, first |-> 60, end |-> 70, typed |-> FALSE,
      target |-> [aggregate |-> TRUE, stands |-> None, own |-> [name |-> "s", scope |-> "P"], written |-> None]],
     [kind |-> "ParameterDeclaration", inBuffer |-> TRUE, first |-> 60, end |-> 70,
      declarators |-> <<[at |-> 61, value |-> None], [at |-> 65, value |-> "7"]>>]}
Params == {<<[name |-> "W", local |-> FALSE], [name |-> "D", local |-> FALSE]>>,
           <<[name |-> "L", local |-> TRUE], [name |-> "W", local |-> FALSE]>>}

AskHints ==
    /\ question = None
    /\ \E n \in 1..3, config \in HintConfigs, from \in {0, 5, 14, 20, 28, 35, 62}, tail \in Tails,
          params \in Params, overrides \in {<<"ordered", "ordered">>, <<"named", "ordered">>} :
         \E connections \in [1..n -> Connections] \cup [1..n -> NamedConnections] :
            /\ n > 1 => ~params[1].local /\ overrides[1] = "ordered"
            /\ question' = [about |-> "hints", config |-> config, from |-> from,
                            connections |-> connections, inst |-> Instanced(connections, params, overrides),
                            tail |-> tail]

\* Every hint of the document that lies in the requested range is among the hints of the
\* range (InlayHintCollector::collectHints, InlayHintCollector.h:34), whatever ends between
\* the beginning of its node and the range.
HintsOfRange ==
    question # None /\ question.about = "hints" =>
        LET places == question.connections
            calls == [i \in DOMAIN places |-> IF places[i].call = None THEN <<>> ELSE <<Call(i, places[i].call)>>]
            nodes == <<question.inst>> \o FlattenSeq(calls) \o <<question.tail>>
            hints(from) == ToSet(H!collectHints(nodes, from, 70, question.config))
        IN {h \in hints(0) : h.at >= question.from} \subseteq hints(question.from)
=============================================================================
