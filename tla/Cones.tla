-------------------------------- MODULE Cones --------------------------------
(***************************************************************************)
(* Tracing a signal in the elaborated design: the signals that drive it    *)
(* and the signals it loads (DriversTracer and LoadsTracer), each from     *)
(* the processes, continuous assignments and instances that slang's driver *)
(* analysis or the ReferenceIndexer name for the signal.                   *)
(*                                                                         *)
(* An expression is the set of signals it reads.  A statement is           *)
(*   [kind |-> "assign", to, index, from]   to[index] = from               *)
(*   [kind |-> "if", cond, then, else]      branches are sequences         *)
(*   [kind |-> "case", sel, items, default] items are [labels, body]       *)
(* and a container is [kind |-> "process", body] or an instance            *)
(* [kind |-> "inst", ports] whose ports are [dir, inner, conn], where conn *)
(* is None if nothing is connected.                                        *)
(*                                                                         *)
(* A visitor goes down the statements level by level, and carries with     *)
(* each statement what its scoped members hold when it is visited.         *)
(***************************************************************************)
EXTENDS Questions, Naturals, FiniteSets, Sequences, SequencesExt

CONSTANTS Signals,
          Parameters,   \* the signals that are parameters
          Internal,     \* of each signal: itself, or what a modport port stands for
          Stmts,        \* the statements there are, with those inside them
          Designs,      \* the elaborated designs: sets of containers
          MaxNesting    \* bound: statements inside each other

IsStmt(s) ==
    \/ /\ s.kind = "assign"
       /\ s.to \in Signals /\ s.index \subseteq Signals /\ s.from \subseteq Signals
    \/ /\ s.kind = "if"
       /\ s.cond \subseteq Signals /\ s.then \in Seq(Stmts) /\ s.else \in Seq(Stmts)
    \/ /\ s.kind = "case"
       /\ s.sel \subseteq Signals /\ s.default \in Seq(Stmts)
       /\ s.items \in Seq([labels : SUBSET Signals, body : Seq(Stmts)])
\* What is inside a module's port is a net or a variable.
IsPort(p) ==
    /\ p.dir \in {"in", "out", "inout"}
    /\ p.inner \in Signals /\ Internal[p.inner] = p.inner
    /\ p.conn = None \/ p.conn \subseteq Signals
IsContainer(c) ==
    \/ c.kind = "process" /\ c.body \in Seq(Stmts)
    \/ c.kind = "inst" /\ \A i \in DOMAIN c.ports : IsPort(c.ports[i])

ASSUME ConesAssumption ==
    /\ Internal \in [Signals -> Signals]
    /\ \A s \in Signals : Internal[Internal[s]] = Internal[s]
    /\ \A s \in Stmts : IsStmt(s)
    /\ \A design \in Designs : \A c \in design : IsContainer(c)
    /\ MaxNesting \in Nat

concreteSymbol(s) == Internal[s]
Concrete(S) == {concreteSymbol(s) : s \in S}
addLeaves(S) == Concrete(S) \ Parameters

\* The labels of the first k items of a case.
Labels(s, k) == UNION {s.items[j].labels : j \in 1..k}
\* The branches of a statement: the expressions that decide on each, and, in a case, the
\* labels that were visited for the items before it.
Branches(s) ==
    CASE s.kind = "if" -> {[body |-> b, tests |-> s.cond, passed |-> {}] : b \in {s.then, s.else}}
      [] s.kind = "case" ->
           {[body |-> s.default, tests |-> s.sel, passed |-> Labels(s, Len(s.items))]} \cup
           {[body |-> s.items[k].body, tests |-> s.sel \cup s.items[k].labels, passed |-> Labels(s, k - 1)]
            : k \in DOMAIN s.items}
      [] OTHER -> {}

\* What a visitor meets that starts with first and goes on from each v to inside[v].
Visited(first, inside) ==
    LET level[n \in Nat] == IF n = 0 THEN first ELSE UNION {inside[v] : v \in level[n - 1]}
    IN UNION {level[n] : n \in 0..MaxNesting}
\* The statements of a process.
Reached(body) == Visited(ToSet(body), [s \in Stmts |-> UNION {ToSet(b.body) : b \in Branches(s)}])
Assigns(body) == {s \in Reached(body) : s.kind = "assign"}
\* Every signal that a statement mentions itself.
Mentioned(s) ==
    CASE s.kind = "assign" -> {s.to} \cup s.index \cup s.from
      [] s.kind = "if" -> s.cond
      [] s.kind = "case" -> s.sel \cup Labels(s, Len(s.items))
Mentions(body) == UNION {Mentioned(s) : s \in Reached(body)}
Targets(body) == {s.to : s \in Assigns(body)}
Connected(inst) == {i \in DOMAIN inst.ports : inst.ports[i].conn # None}
PortMentions(p) == {p.inner} \cup IF p.conn = None THEN {} ELSE p.conn

-----------------------------------------------------------------------------
(* Drivers.                                                                *)

\* conds are the conditionDrivers, which a statement restores when it ends.
DriverVisit == [stmt : Stmts, conds : SUBSET Signals]
DriverVisits(body) ==
    Visited({[stmt |-> s, conds |-> {}] : s \in ToSet(body)},
            [v \in DriverVisit |->
                UNION {{[stmt |-> s, conds |-> v.conds \cup b.tests \cup b.passed] : s \in ToSet(b.body)}
                       : b \in Branches(v.stmt)}])
\* The leaves found in a process.  The root is met on the left side, or in an index there.
DriversTracer(body, root) ==
    UNION {addLeaves(v.stmt.from \cup v.conds) :
           v \in {w \in DriverVisits(body) : /\ w.stmt.kind = "assign"
                                             /\ root \in Concrete({w.stmt.to} \cup w.stmt.index)}}
\* An input port of the root is driven by what is connected; a connected output port drives
\* what it is connected to.
InstanceDrivers(inst, root) ==
    UNION {LET p == inst.ports[i] IN
           CASE p.dir = "in" /\ p.inner = root -> addLeaves(p.conn)
             [] p.dir = "out" /\ root \in Concrete(p.conn) -> addLeaves({p.inner})
             [] OTHER -> {}
           : i \in Connected(inst)}

\* slang's AnalysisQueries: the containers that drive a signal.
getDrivers(containers, s) ==
    {c \in containers :
        IF c.kind = "process" THEN concreteSymbol(s) \in Concrete(Targets(c.body))
        ELSE \E i \in Connected(c) :
                \/ c.ports[i].dir # "out" /\ concreteSymbol(s) = c.ports[i].inner
                \/ c.ports[i].dir # "in" /\ concreteSymbol(s) \in Concrete(c.ports[i].conn)}
getDriverCone(containers, s) ==
    LET root == concreteSymbol(s) IN
    UNION {IF c.kind = "process" THEN DriversTracer(c.body, root) ELSE InstanceDrivers(c, root)
           : c \in getDrivers(containers, s)}

-----------------------------------------------------------------------------
(* Loads.                                                                  *)

\* Variant: a nested statement starts anew, as if foundRoot were reset and not restored.
Found_reset(S, root, found) == root \in Concrete(S)
\* foundRoot after an expression has been visited.
Found(S, root, found) == found \/ root \in Concrete(S)

\* found is foundRoot: the root decides on this statement.
LoadVisit == [stmt : Stmts, found : BOOLEAN]
LoadVisits(body, root) ==
    Visited({[stmt |-> s, found |-> FALSE] : s \in ToSet(body)},
            [v \in LoadVisit |->
                UNION {{[stmt |-> s, found |-> Found(b.tests, root, v.found)] : s \in ToSet(b.body)}
                       : b \in Branches(v.stmt)}])
LoadsTracer(body, root) ==
    UNION {addLeaves({v.stmt.to} \cup v.stmt.index) :
           v \in {w \in LoadVisits(body, root) : /\ w.stmt.kind = "assign"
                                                 /\ Found(w.stmt.from, root, w.found)}}
InstanceLoads(inst, root) ==
    UNION {LET p == inst.ports[i] IN
           CASE p.dir = "out" /\ p.inner = root -> addLeaves(p.conn)
             [] p.dir = "in" /\ root \in Concrete(p.conn) -> addLeaves({p.inner})
             [] OTHER -> {}
           : i \in Connected(inst)}

\* The containers that the ReferenceIndexer records for a signal.
symbolToUses(containers, root) ==
    {c \in containers :
        root \in Concrete(IF c.kind = "process" THEN Mentions(c.body)
                          ELSE UNION {PortMentions(c.ports[i]) : i \in DOMAIN c.ports})}
\* The tracer visits the expression of a port without asking whether there is one.
VisitsNothing(inst, root) ==
    \E i \in DOMAIN inst.ports \ Connected(inst) :
        \/ inst.ports[i].dir = "in"
        \/ inst.ports[i].dir = "out" /\ inst.ports[i].inner = root
\* None: there is no use, which is an error, or the trace follows a missing connection.
getLoadCone(containers, s) ==
    LET root == concreteSymbol(s)
        uses == symbolToUses(containers, root)
    IN IF uses = {} \/ \E c \in uses : c.kind = "inst" /\ VisitsNothing(c, root) THEN None
       ELSE UNION {IF c.kind = "process" THEN LoadsTracer(c.body, root)
                   ELSE InstanceLoads(c, root) : c \in uses}

-----------------------------------------------------------------------------
(* A client asks for the cones of a design.                                *)

AskCone ==
    /\ question = None
    /\ \E design \in Designs : question' = [about |-> "cone", design |-> design]
ConesSpec == question = None /\ [][AskCone]_question

\* The signals a process indexes with on a left side, and never assigns.
OnlyIndexed(body) == Concrete(UNION {s.index : s \in Assigns(body)}) \ Concrete(Targets(body))
\* For every statement, the labels of the items before its own in the cases around it.
EarlierVisit == [stmt : Stmts, labels : SUBSET Signals]
EarlierVisits(body) ==
    Visited({[stmt |-> s, labels |-> {}] : s \in ToSet(body)},
            [v \in EarlierVisit |->
                UNION {{[stmt |-> s, labels |-> v.labels \cup b.passed] : s \in ToSet(b.body)}
                       : b \in Branches(v.stmt)}])
\* An assignment writes y, or indexes with it, behind an item with x among its labels.
BehindLabel(body, x, y) ==
    \E v \in EarlierVisits(body) :
        /\ v.stmt.kind = "assign"
        /\ x \in Concrete(v.labels)
        /\ y \in Concrete({v.stmt.to} \cup v.stmt.index)

\* x and y are signals, loads the load cone of x and drivers the driver cone of y.
Dual(processes, x, loads, y, drivers) ==
    /\ y \in loads => x \in drivers \/ \E c \in processes : y \in OnlyIndexed(c.body)
    /\ x \in drivers => y \in loads \/ \E c \in processes : BehindLabel(c.body, x, y)

\* The cones are two views of one relation: what x loads is driven by x, and what drives y
\* loads y, through every nesting of conditions, through ports and through modports, unless
\* the load cone is refused (getLoadCone) or one of the two is a parameter.  They
\* differ in two places: an index of a written element counts as loaded though nothing drives
\* it, and the labels of earlier items of a case count as drivers only.
ConesAreDual ==
    question # None /\ question.about = "cone" =>
        LET design == question.design
            processes == {c \in design : c.kind = "process"}
            asked == {u \in Signals : concreteSymbol(u) \notin Parameters}
        IN \A s \in asked : LET loads == getLoadCone(design, s) IN
            loads # None => \A t \in asked : LET drivers == getDriverCone(design, t) IN
                Dual(processes, concreteSymbol(s), loads, concreteSymbol(t), drivers)
=============================================================================
