---------------------------- MODULE QuestionsProofs ----------------------------
(***************************************************************************)
(* Proofs about four of the questions a client asks, for every program,    *)
(* every text and every path.                                              *)
(*                                                                         *)
(* Cones: the drivers and the loads of a signal are two views of one       *)
(* relation.  Both tracers go down the same statements and carry different *)
(* things with them.  Simulated says that whatever holds between the first *)
(* statements of two traversals, and between what is inside two statements *)
(* it holds between, holds between all that they visit; the theorem is     *)
(* four uses of it.                                                        *)
(*                                                                         *)
(* Completions: a list offers what each name resolves to.  The search      *)
(* through members, imports and scopes is three nested folds.  Settled     *)
(* says that a list offers a name for one of a set of symbols, or not at   *)
(* all if the set is empty, and that the search knows which; each step of  *)
(* a fold leads from lists that are settled for what was visible so far to *)
(* lists that are settled for that and what the step adds, the nearer      *)
(* declaration winning.                                                    *)
(*                                                                         *)
(* Positions: the client and the server mean the same place.  Every        *)
(* recursive count is turned into a path along the text (PathExists), so   *)
(* that what the client counts in characters and the server in bytes can   *)
(* be compared place by place: Sheet collects, for one text, the client's  *)
(* positions, the offsets of the characters, their code units and the      *)
(* lines the server has found up to each byte.  Positioned and Located say *)
(* that the conversions in the two directions are inverse at every place;  *)
(* a change then turns the buffer of one text into the buffer of the next, *)
(* and a fold of changes or of tokens is a path of such steps.             *)
(*                                                                         *)
(* URIs: a file has one name.  Escaping and decoding are paths too.        *)
(* DecodesEscape walks them together, each character of the path being one *)
(* or three of the text, and FileText finds the parts of the text by where *)
(* the characters that end them are.                                       *)
(***************************************************************************)
EXTENDS Cones, Completions, Positions, Uri, FiniteSetTheorems, SequenceTheorems, WellFoundedInduction, TLAPS

-----------------------------------------------------------------------------
(* Induction and recursion.                                                *)

\* A set of numbers with 0 and the successor of each of its members has all numbers.
LEMMA Inductive ==
    ASSUME NEW P, 0 \in P, \A n \in Nat : n \in P => n + 1 \in P
    PROVE  Nat \subseteq P
<1> DEFINE R == OpToRel(<, Nat)
           T == Nat \ P
<1>1. SUFFICES ASSUME T # {} PROVE FALSE
    OBVIOUS
<1>2. IsWellFoundedOn(R, Nat) BY NatLessThanWellFounded
<1>3. PICK x \in T : \A y \in T : <<y, x>> \notin R
    <2> HIDE DEF R
    <2> QED BY <1>1, <1>2, WFMin
<1>4. x \in Nat /\ x # 0 /\ x - 1 \in Nat /\ (x - 1) + 1 = x
    OBVIOUS
<1>5. x - 1 \in T BY <1>4
<1>6. <<x - 1, x>> \in R BY <1>4 DEF OpToRel
<1> QED BY <1>3, <1>5, <1>6

\* The sequences that start at a and follow step.
Orbits(A, a, step) == {f \in [Nat -> A] : f[0] = a /\ \A n \in Nat : f[n + 1] = step[f[n]]}

\* A function of a set into itself can be iterated.
LEMMA Iterates ==
    ASSUME NEW A, NEW a \in A, NEW step \in [A -> A]
    PROVE  Orbits(A, a, step) # {}
<1> DEFINE Upto(n, g) == g \in [0..n -> A] /\ g[0] = a /\ \A i \in 1..n : g[i] = step[g[i - 1]]
           P == {n \in Nat : \E g : Upto(n, g)}
           g(n) == CHOOSE h : Upto(n, h)
           f == [n \in Nat |-> g(n)[n]]
<1>1. 0 \in P
    <2>1. Upto(0, [i \in 0..0 |-> a]) OBVIOUS
    <2> QED BY <2>1
<1>2. ASSUME NEW n \in Nat, n \in P PROVE n + 1 \in P
    <2>1. PICK h : Upto(n, h) BY <1>2
    <2> DEFINE k == [i \in 0..(n + 1) |-> IF i = n + 1 THEN step[h[n]] ELSE h[i]]
    <2>2. k \in [0..(n + 1) -> A] BY <2>1
    <2>3. k[0] = a BY <2>1
    <2>4. ASSUME NEW i \in 1..(n + 1) PROVE k[i] = step[k[i - 1]]
        BY <2>1
    <2>5. Upto(n + 1, k) BY <2>2, <2>3, <2>4
    <2> QED BY <2>5
<1>3. \A n \in Nat : Upto(n, g(n))
    <2>1. Nat \subseteq P
        <3> HIDE DEF P
        <3> QED BY <1>1, <1>2, Inductive
    <2> QED BY <2>1
<1> HIDE DEF g
<1>4. ASSUME NEW n \in Nat PROVE g(n + 1)[n] = g(n)[n]
    <2> DEFINE Q == {i \in Nat : i <= n => g(n + 1)[i] = g(n)[i]}
    <2>1. Upto(n, g(n)) /\ Upto(n + 1, g(n + 1)) BY <1>3
    <2>2. 0 \in Q BY <2>1
    <2>3. ASSUME NEW i \in Nat, i \in Q PROVE i + 1 \in Q
        <3>1. SUFFICES ASSUME i + 1 <= n PROVE g(n + 1)[i + 1] = g(n)[i + 1] OBVIOUS
        <3>2. i + 1 \in 1..n /\ i + 1 \in 1..(n + 1) /\ (i + 1) - 1 = i BY <3>1
        <3>3. g(n + 1)[i] = g(n)[i] BY <2>3, <3>1
        <3>4. g(n)[i + 1] = step[g(n)[i]] BY <2>1, <3>2
        <3>5. g(n + 1)[i + 1] = step[g(n + 1)[i]] BY <2>1, <3>2
        <3> QED BY <3>3, <3>4, <3>5
    <2>4. Nat \subseteq Q
        <3> HIDE DEF Q
        <3> QED BY <2>2, <2>3, Inductive
    <2> QED BY <2>4
<1>5. f \in [Nat -> A] BY <1>3
<1>6. f[0] = a BY <1>3
<1>7. ASSUME NEW n \in Nat PROVE f[n + 1] = step[f[n]]
    <2>1. Upto(n + 1, g(n + 1)) BY <1>3
    <2>2. n + 1 \in 1..(n + 1) /\ (n + 1) - 1 = n OBVIOUS
    <2>3. g(n + 1)[n + 1] = step[g(n + 1)[n]] BY <2>1, <2>2
    <2> QED BY <2>3, <1>4
<1>8. f \in Orbits(A, a, step)
    <2> HIDE DEF f
    <2> QED BY <1>5, <1>6, <1>7 DEF Orbits
<1> QED BY <1>8

-----------------------------------------------------------------------------
(* Traversals.                                                             *)

\* The levels of a traversal.
Levels(V, first, inside) ==
    {level \in [Nat -> SUBSET V] :
        /\ Visited(first, inside) = UNION {level[n] : n \in 0..MaxNesting}
        /\ level[0] = first
        /\ \A n \in Nat : level[n + 1] = UNION {inside[v] : v \in level[n]}}

\* A traversal has levels.
LEMMA VisitLevels ==
    ASSUME NEW V, NEW first \in SUBSET V, NEW inside \in [V -> SUBSET V]
    PROVE  Levels(V, first, inside) # {}
<1> DEFINE Def(f) == [n \in Nat |-> IF n = 0 THEN first ELSE UNION {inside[v] : v \in f[n - 1]}]
           level == CHOOSE f : f = Def(f)
           A == SUBSET V
           Below(S) == UNION {inside[v] : v \in S}
           step == [S \in A |-> Below(S)]
<1>1. Visited(first, inside) = UNION {level[n] : n \in 0..MaxNesting}
    BY DEF Visited
<1>2. ASSUME NEW S \in A PROVE Below(S) \in A
    OBVIOUS
<1>3. step \in [A -> A] BY <1>2
<1>4. PICK f \in [Nat -> A] : f[0] = first /\ \A n \in Nat : f[n + 1] = step[f[n]]
    <2>1. first \in A OBVIOUS
    <2> HIDE DEF A, step
    <2>2. Orbits(A, first, step) # {} BY <1>3, <2>1, Iterates
    <2> QED BY <2>2 DEF Orbits
<1>5. f = Def(f)
    <2>1. ASSUME NEW n \in Nat, n # 0 PROVE f[n] = Below(f[n - 1])
        <3>1. n - 1 \in Nat /\ (n - 1) + 1 = n BY <2>1
        <3> QED BY <3>1, <1>4
    <2>2. ASSUME NEW n \in Nat PROVE f[n] = Def(f)[n]
        <3>1. CASE n = 0 BY <3>1, <1>4
        <3>2. CASE n # 0 BY <3>2, <2>1
        <3> QED BY <3>1, <3>2
    <2>3. Def(f) = [n \in Nat |-> Def(f)[n]] OBVIOUS
    <2>4. f = [n \in Nat |-> f[n]] BY <1>4
    <2> HIDE DEF Def
    <2> QED BY <2>2, <2>3, <2>4
<1> HIDE DEF Def
<1>6. level = Def(level) BY <1>5
<1>7. level[0] = first BY <1>6 DEF Def
<1>8. ASSUME NEW n \in Nat PROVE level[n + 1] = Below(level[n])
    <2>1. n + 1 \in Nat /\ n + 1 # 0 /\ (n + 1) - 1 = n OBVIOUS
    <2>2. level[n + 1] = Def(level)[n + 1] BY <1>6
    <2>3. Def(level)[n + 1] = Below(level[(n + 1) - 1])
        <3> HIDE DEF level
        <3> QED BY <2>1 DEF Def
    <2> QED BY <2>1, <2>2, <2>3
<1> HIDE DEF level
<1>9. level \in [Nat -> SUBSET V]
    <2> DEFINE P == {n \in Nat : level[n] \in SUBSET V}
    <2>1. 0 \in P BY <1>7
    <2>2. ASSUME NEW n \in Nat, n \in P PROVE n + 1 \in P
        <3>1. level[n] \in A BY <2>2
        <3>2. level[n + 1] \in SUBSET V BY <3>1, <1>2, <1>8
        <3> QED BY <3>2
    <2>3. Nat \subseteq P
        <3> HIDE DEF P
        <3> QED BY <2>1, <2>2, Inductive
    <2>4. level = [n \in Nat |-> level[n]]
        <3>1. level = [n \in Nat |-> IF n = 0 THEN first ELSE UNION {inside[v] : v \in level[n - 1]}]
            BY <1>6 DEF Def
        <3> QED BY <3>1
    <2> QED BY <2>3, <2>4
<1> QED BY <1>1, <1>7, <1>8, <1>9 DEF Levels

\* Whatever is inside one of two related visits is related to something inside the other.
Matches(V, f, inside, W, g, beside, R) ==
    /\ f \in SUBSET V /\ inside \in [V -> SUBSET V]
    /\ g \in SUBSET W /\ beside \in [W -> SUBSET W]
    /\ \A v \in f : \E w \in g : <<v, w>> \in R
    /\ \A v \in V, w \in W : <<v, w>> \in R =>
           \A p \in inside[v] : \E q \in beside[w] : <<p, q>> \in R
AllMatched(met, found, R) == \A v \in met : \E w \in found : <<v, w>> \in R

\* Then all that one traversal meets is related to something the other meets.
LEMMA Simulated ==
    ASSUME NEW V, NEW f, NEW inside, NEW W, NEW g, NEW beside, NEW R,
           Matches(V, f, inside, W, g, beside, R)
    PROVE  AllMatched(Visited(f, inside), Visited(g, beside), R)
<1>0. /\ f \in SUBSET V /\ inside \in [V -> SUBSET V]
      /\ g \in SUBSET W /\ beside \in [W -> SUBSET W]
      /\ \A v \in f : \E w \in g : <<v, w>> \in R
      /\ \A v \in V, w \in W : <<v, w>> \in R =>
             \A p \in inside[v] : \E q \in beside[w] : <<p, q>> \in R
      /\ MaxNesting \in Nat
    BY ConesAssumption DEF Matches
<1>1. PICK one \in [Nat -> SUBSET V] :
          /\ Visited(f, inside) = UNION {one[n] : n \in 0..MaxNesting}
          /\ one[0] = f
          /\ \A n \in Nat : one[n + 1] = UNION {inside[v] : v \in one[n]}
    <2>1. Levels(V, f, inside) # {} BY <1>0, VisitLevels
    <2> QED BY <2>1 DEF Levels
<1>2. PICK two \in [Nat -> SUBSET W] :
          /\ Visited(g, beside) = UNION {two[n] : n \in 0..MaxNesting}
          /\ two[0] = g
          /\ \A n \in Nat : two[n + 1] = UNION {beside[w] : w \in two[n]}
    <2>1. Levels(W, g, beside) # {} BY <1>0, VisitLevels
    <2> QED BY <2>1 DEF Levels
<1> DEFINE P == {n \in Nat : \A v \in one[n] : \E w \in two[n] : <<v, w>> \in R}
<1>3. 0 \in P BY <1>0, <1>1, <1>2
<1>4. ASSUME NEW n \in Nat, n \in P PROVE n + 1 \in P
    <2>1. SUFFICES ASSUME NEW p \in one[n + 1] PROVE \E q \in two[n + 1] : <<p, q>> \in R
        <3>1. n + 1 \in Nat OBVIOUS
        <3> QED BY <3>1
    <2>2. PICK v \in one[n] : p \in inside[v] BY <1>1, <2>1
    <2>3. PICK w \in two[n] : <<v, w>> \in R BY <1>4
    <2>4. v \in V /\ w \in W BY <1>1, <1>2
    <2>5. PICK q \in beside[w] : <<p, q>> \in R BY <1>0, <2>2, <2>3, <2>4
    <2>6. q \in two[n + 1]
        <3>1. two[n + 1] = UNION {beside[u] : u \in two[n]} BY <1>2
        <3> QED BY <3>1, <2>3, <2>5
    <2> QED BY <2>5, <2>6
<1>5. Nat \subseteq P
    <2> HIDE DEF P
    <2> QED BY <1>3, <1>4, Inductive
<1>6. SUFFICES ASSUME NEW v \in Visited(f, inside)
               PROVE  \E w \in Visited(g, beside) : <<v, w>> \in R
    BY DEF AllMatched
<1>7. PICK n \in 0..MaxNesting : v \in one[n] BY <1>0, <1>1, <1>6
<1>8. PICK w \in two[n] : <<v, w>> \in R BY <1>0, <1>5, <1>7
<1> QED BY <1>2, <1>7, <1>8

\* What holds of the first visits, and inside every visit it holds of, holds of all.
LEMMA AllVisits ==
    ASSUME NEW V, NEW f \in SUBSET V, NEW inside \in [V -> SUBSET V],
           NEW I, MaxNesting \in Nat, f \subseteq I,
           \A v \in Visited(f, inside) : v \in I => inside[v] \subseteq I
    PROVE  Visited(f, inside) \subseteq I /\ Visited(f, inside) \subseteq V
<1>1. PICK level \in [Nat -> SUBSET V] :
          /\ Visited(f, inside) = UNION {level[n] : n \in 0..MaxNesting}
          /\ level[0] = f
          /\ \A n \in Nat : level[n + 1] = UNION {inside[v] : v \in level[n]}
    <2>1. Levels(V, f, inside) # {} BY VisitLevels
    <2> QED BY <2>1 DEF Levels
<1> DEFINE P == {n \in Nat : n <= MaxNesting => level[n] \subseteq I}
<1>2. 0 \in P BY <1>1
<1>3. ASSUME NEW n \in Nat, n \in P PROVE n + 1 \in P
    <2>1. SUFFICES ASSUME n + 1 <= MaxNesting, NEW p \in level[n + 1] PROVE p \in I
        <3>1. n + 1 \in Nat OBVIOUS
        <3> QED BY <3>1
    <2>2. PICK v \in level[n] : p \in inside[v] BY <1>1, <2>1
    <2>3. n \in 0..MaxNesting BY <2>1
    <2>4. v \in Visited(f, inside) BY <1>1, <2>3
    <2>5. v \in I BY <1>3, <2>3
    <2> QED BY <2>2, <2>4, <2>5
<1>4. Nat \subseteq P
    <2> HIDE DEF P
    <2> QED BY <1>2, <1>3, Inductive
<1> QED BY <1>1, <1>4

-----------------------------------------------------------------------------
(* What the tracers carry.                                                 *)

\* The branches of a statement are statements, and their expressions are mentioned by it.
LEMMA BranchTypes ==
    ASSUME NEW s \in Stmts, NEW b \in Branches(s)
    PROVE  /\ ToSet(b.body) \subseteq Stmts
           /\ b.tests \subseteq Signals /\ b.passed \subseteq Signals
           /\ b.tests \subseteq Mentioned(s) /\ b.passed \subseteq Mentioned(s)
<1>0. \A q \in Seq(Stmts) : ToSet(q) \subseteq Stmts
    BY DEF ToSet
<1>1. IsStmt(s) BY ConesAssumption
<1>2. CASE s.kind = "if"
    <2>1. b.body \in {s.then, s.else} /\ b.tests = s.cond /\ b.passed = {}
        BY <1>2 DEF Branches
    <2>2. Mentioned(s) = s.cond BY <1>2 DEF Mentioned
    <2>3. s.cond \subseteq Signals /\ s.then \in Seq(Stmts) /\ s.else \in Seq(Stmts)
        BY <1>1, <1>2 DEF IsStmt
    <2> QED BY <2>1, <2>2, <2>3, <1>0
<1>3. CASE s.kind = "case"
    <2>1. /\ s.sel \subseteq Signals /\ s.default \in Seq(Stmts)
          /\ s.items \in Seq([labels : SUBSET Signals, body : Seq(Stmts)])
        BY <1>1, <1>3 DEF IsStmt
    <2>2. Mentioned(s) = s.sel \cup Labels(s, Len(s.items)) BY <1>3 DEF Mentioned
    <2>3. Len(s.items) \in Nat /\ DOMAIN s.items = 1..Len(s.items) BY <2>1
    <2>4. ASSUME NEW k \in DOMAIN s.items
          PROVE  s.items[k].labels \subseteq Signals /\ s.items[k].body \in Seq(Stmts)
        <3> DEFINE CaseItem == [labels : SUBSET Signals, body : Seq(Stmts)]
        <3>1. \A x \in CaseItem : x.labels \subseteq Signals /\ x.body \in Seq(Stmts) OBVIOUS
        <3>2. s.items \in Seq(CaseItem) BY <2>1
        <3> HIDE DEF CaseItem
        <3>3. s.items[k] \in CaseItem BY <3>2
        <3> QED BY <3>1, <3>3
    <2>5. ASSUME NEW k \in 0..Len(s.items)
          PROVE  Labels(s, k) \subseteq Signals /\ Labels(s, k) \subseteq Labels(s, Len(s.items))
        <3>1. \A j \in 1..k : j \in DOMAIN s.items BY <2>3
        <3> QED BY <3>1, <2>3, <2>4 DEF Labels
    <2>6. CASE b = [body |-> s.default, tests |-> s.sel, passed |-> Labels(s, Len(s.items))]
        <3>1. Len(s.items) \in 0..Len(s.items) BY <2>3
        <3>2. b.body = s.default /\ b.tests = s.sel /\ b.passed = Labels(s, Len(s.items)) BY <2>6
        <3> QED BY <3>1, <3>2, <2>1, <2>2, <2>5, <1>0
    <2>7. ASSUME NEW k \in DOMAIN s.items,
                 b = [body |-> s.items[k].body, tests |-> s.sel \cup s.items[k].labels, passed |-> Labels(s, k - 1)]
          PROVE  /\ ToSet(b.body) \subseteq Stmts
                 /\ b.tests \subseteq Signals /\ b.passed \subseteq Signals
                 /\ b.tests \subseteq Mentioned(s) /\ b.passed \subseteq Mentioned(s)
        <3>1. k - 1 \in 0..Len(s.items) BY <2>3
        <3>2. b.body = s.items[k].body /\ b.tests = s.sel \cup s.items[k].labels /\ b.passed = Labels(s, k - 1)
            BY <2>7
        <3>3. s.items[k].labels \subseteq Labels(s, Len(s.items)) BY <2>3 DEF Labels
        <3> QED BY <3>1, <3>2, <3>3, <2>1, <2>2, <2>4, <2>5, <1>0
    <2>8. Branches(s) =
              {[body |-> s.default, tests |-> s.sel, passed |-> Labels(s, Len(s.items))]} \cup
              {[body |-> s.items[k].body, tests |-> s.sel \cup s.items[k].labels, passed |-> Labels(s, k - 1)]
               : k \in DOMAIN s.items}
        BY <1>3 DEF Branches
    <2> QED BY <2>6, <2>7, <2>8
<1>4. CASE s.kind \notin {"if", "case"}
    BY <1>4 DEF Branches
<1> QED BY <1>2, <1>3, <1>4

\* A body is a sequence of statements.
Bodies == Seq(Stmts)

\* What each traversal starts with and goes on to.
ReachInside == [s \in Stmts |-> UNION {ToSet(b.body) : b \in Branches(s)}]
DriverFirst(body) == {[stmt |-> s, conds |-> {}] : s \in ToSet(body)}
DriverInside ==
    [v \in DriverVisit |->
        UNION {{[stmt |-> s, conds |-> v.conds \cup b.tests \cup b.passed] : s \in ToSet(b.body)}
               : b \in Branches(v.stmt)}]
LoadFirst(body) == {[stmt |-> s, found |-> FALSE] : s \in ToSet(body)}
LoadInside(root) ==
    [v \in LoadVisit |->
        UNION {{[stmt |-> s, found |-> Found(b.tests, root, v.found)] : s \in ToSet(b.body)}
               : b \in Branches(v.stmt)}]
EarlierFirst(body) == {[stmt |-> s, labels |-> {}] : s \in ToSet(body)}
EarlierInside ==
    [v \in EarlierVisit |->
        UNION {{[stmt |-> s, labels |-> v.labels \cup b.passed] : s \in ToSet(b.body)}
               : b \in Branches(v.stmt)}]
\* A traversal that carries both what LoadsTracer does and the earlier labels.
BothVisit == [stmt : Stmts, found : BOOLEAN, labels : SUBSET Signals]
BothFirst(body) == {[stmt |-> s, found |-> FALSE, labels |-> {}] : s \in ToSet(body)}
BothInside(root) ==
    [v \in BothVisit |->
        UNION {{[stmt |-> s, found |-> Found(b.tests, root, v.found), labels |-> v.labels \cup b.passed]
                : s \in ToSet(b.body)} : b \in Branches(v.stmt)}]

\* What the tracers visit are traversals of the statements of a process.
LEMMA Traversals ==
    ASSUME NEW body, NEW root
    PROVE  /\ Reached(body) = Visited(ToSet(body), ReachInside)
           /\ DriverVisits(body) = Visited(DriverFirst(body), DriverInside)
           /\ LoadVisits(body, root) = Visited(LoadFirst(body), LoadInside(root))
           /\ EarlierVisits(body) = Visited(EarlierFirst(body), EarlierInside)
BY DEF Reached, ReachInside, DriverVisits, DriverFirst, DriverInside, LoadVisits, LoadFirst, LoadInside,
       EarlierVisits, EarlierFirst, EarlierInside

\* What is inside a visit, one member at a time.
LEMMA ReachSteps ==
    /\ ReachInside \in [Stmts -> SUBSET Stmts]
    /\ \A v \in Stmts : \A b \in Branches(v) : \A s \in ToSet(b.body) : s \in ReachInside[v]
<1>1. ASSUME NEW v \in Stmts PROVE UNION {ToSet(b.body) : b \in Branches(v)} \in SUBSET Stmts
    BY BranchTypes
<1> QED BY <1>1 DEF ReachInside
LEMMA DriverSteps ==
    /\ DriverInside \in [DriverVisit -> SUBSET DriverVisit]
    /\ \A v \in DriverVisit : \A p \in DriverInside[v] : \E b \in Branches(v.stmt) : \E s \in ToSet(b.body) :
          p = [stmt |-> s, conds |-> v.conds \cup b.tests \cup b.passed]
    /\ \A v \in DriverVisit : \A b \in Branches(v.stmt) : \A s \in ToSet(b.body) :
          [stmt |-> s, conds |-> v.conds \cup b.tests \cup b.passed] \in DriverInside[v]
<1> DEFINE In(v) == UNION {{[stmt |-> s, conds |-> v.conds \cup b.tests \cup b.passed] : s \in ToSet(b.body)}
                           : b \in Branches(v.stmt)}
<1>1. ASSUME NEW v \in DriverVisit, NEW b \in Branches(v.stmt), NEW s \in ToSet(b.body)
      PROVE  [stmt |-> s, conds |-> v.conds \cup b.tests \cup b.passed] \in DriverVisit
    <2>1. v.stmt \in Stmts /\ v.conds \subseteq Signals BY DEF DriverVisit
    <2>2. s \in Stmts /\ b.tests \subseteq Signals /\ b.passed \subseteq Signals BY <2>1, BranchTypes
    <2> QED BY <2>1, <2>2 DEF DriverVisit
<1>2. ASSUME NEW v \in DriverVisit PROVE In(v) \in SUBSET DriverVisit BY <1>1
<1>3. DriverInside = [v \in DriverVisit |-> In(v)] BY DEF DriverInside
<1>4. \A v \in DriverVisit : DriverInside[v] = In(v) BY <1>3
<1>5. DriverInside \in [DriverVisit -> SUBSET DriverVisit]
    <2> HIDE DEF In
    <2> QED BY <1>2, <1>3
<1> QED BY <1>4, <1>5
LEMMA EarlierSteps ==
    /\ EarlierInside \in [EarlierVisit -> SUBSET EarlierVisit]
    /\ \A v \in EarlierVisit : \A p \in EarlierInside[v] : \E b \in Branches(v.stmt) : \E s \in ToSet(b.body) :
          p = [stmt |-> s, labels |-> v.labels \cup b.passed]
    /\ \A v \in EarlierVisit : \A b \in Branches(v.stmt) : \A s \in ToSet(b.body) :
          [stmt |-> s, labels |-> v.labels \cup b.passed] \in EarlierInside[v]
<1> DEFINE In(v) == UNION {{[stmt |-> s, labels |-> v.labels \cup b.passed] : s \in ToSet(b.body)} : b \in Branches(v.stmt)}
<1>1. ASSUME NEW v \in EarlierVisit, NEW b \in Branches(v.stmt), NEW s \in ToSet(b.body)
      PROVE  [stmt |-> s, labels |-> v.labels \cup b.passed] \in EarlierVisit
    <2>1. v.stmt \in Stmts /\ v.labels \subseteq Signals BY DEF EarlierVisit
    <2>2. s \in Stmts /\ b.tests \subseteq Signals /\ b.passed \subseteq Signals BY <2>1, BranchTypes
    <2> QED BY <2>1, <2>2 DEF EarlierVisit
<1>2. ASSUME NEW v \in EarlierVisit PROVE In(v) \in SUBSET EarlierVisit BY <1>1
<1>3. EarlierInside = [v \in EarlierVisit |-> In(v)] BY DEF EarlierInside
<1>4. \A v \in EarlierVisit : EarlierInside[v] = In(v) BY <1>3
<1>5. EarlierInside \in [EarlierVisit -> SUBSET EarlierVisit]
    <2> HIDE DEF In
    <2> QED BY <1>2, <1>3
<1> QED BY <1>4, <1>5
LEMMA LoadSteps ==
    ASSUME NEW root
    PROVE  /\ LoadInside(root) \in [LoadVisit -> SUBSET LoadVisit]
           /\ \A v \in LoadVisit : \A p \in LoadInside(root)[v] : \E b \in Branches(v.stmt) : \E s \in ToSet(b.body) :
                 p = [stmt |-> s, found |-> Found(b.tests, root, v.found)]
           /\ \A v \in LoadVisit : \A b \in Branches(v.stmt) : \A s \in ToSet(b.body) :
                 [stmt |-> s, found |-> Found(b.tests, root, v.found)] \in LoadInside(root)[v]
<1> DEFINE In(v) == UNION {{[stmt |-> s, found |-> Found(b.tests, root, v.found)] : s \in ToSet(b.body)} : b \in Branches(v.stmt)}
<1>1. ASSUME NEW v \in LoadVisit, NEW b \in Branches(v.stmt), NEW s \in ToSet(b.body)
      PROVE  [stmt |-> s, found |-> Found(b.tests, root, v.found)] \in LoadVisit
    <2>1. v.stmt \in Stmts /\ v.found \in BOOLEAN BY DEF LoadVisit
    <2>2. s \in Stmts /\ b.tests \subseteq Signals /\ b.passed \subseteq Signals BY <2>1, BranchTypes
    <2> QED BY <2>1, <2>2 DEF LoadVisit, Found
<1>2. ASSUME NEW v \in LoadVisit PROVE In(v) \in SUBSET LoadVisit BY <1>1
<1>3. LoadInside(root) = [v \in LoadVisit |-> In(v)] BY DEF LoadInside
<1>4. \A v \in LoadVisit : LoadInside(root)[v] = In(v) BY <1>3
<1>5. LoadInside(root) \in [LoadVisit -> SUBSET LoadVisit]
    <2> HIDE DEF In
    <2> QED BY <1>2, <1>3
<1> QED BY <1>4, <1>5
LEMMA BothSteps ==
    ASSUME NEW root
    PROVE  /\ BothInside(root) \in [BothVisit -> SUBSET BothVisit]
           /\ \A v \in BothVisit : \A p \in BothInside(root)[v] : \E b \in Branches(v.stmt) : \E s \in ToSet(b.body) :
                 p = [stmt |-> s, found |-> Found(b.tests, root, v.found), labels |-> v.labels \cup b.passed]
           /\ \A v \in BothVisit : \A b \in Branches(v.stmt) : \A s \in ToSet(b.body) :
                 [stmt |-> s, found |-> Found(b.tests, root, v.found), labels |-> v.labels \cup b.passed] \in BothInside(root)[v]
<1> DEFINE In(v) == UNION {{[stmt |-> s, found |-> Found(b.tests, root, v.found), labels |-> v.labels \cup b.passed] : s \in ToSet(b.body)} : b \in Branches(v.stmt)}
<1>1. ASSUME NEW v \in BothVisit, NEW b \in Branches(v.stmt), NEW s \in ToSet(b.body)
      PROVE  [stmt |-> s, found |-> Found(b.tests, root, v.found), labels |-> v.labels \cup b.passed] \in BothVisit
    <2>1. v.stmt \in Stmts /\ v.found \in BOOLEAN /\ v.labels \subseteq Signals BY DEF BothVisit
    <2>2. s \in Stmts /\ b.tests \subseteq Signals /\ b.passed \subseteq Signals BY <2>1, BranchTypes
    <2> QED BY <2>1, <2>2 DEF BothVisit, Found
<1>2. ASSUME NEW v \in BothVisit PROVE In(v) \in SUBSET BothVisit BY <1>1
<1>3. BothInside(root) = [v \in BothVisit |-> In(v)] BY DEF BothInside
<1>4. \A v \in BothVisit : BothInside(root)[v] = In(v) BY <1>3
<1>5. BothInside(root) \in [BothVisit -> SUBSET BothVisit]
    <2> HIDE DEF In
    <2> QED BY <1>2, <1>3
<1> QED BY <1>4, <1>5

\* What each traversal starts with is of its type.
LEMMA FirstVisits ==
    ASSUME NEW body \in Bodies
    PROVE  /\ ToSet(body) \in SUBSET Stmts
           /\ DriverFirst(body) \in SUBSET DriverVisit
           /\ LoadFirst(body) \in SUBSET LoadVisit
           /\ EarlierFirst(body) \in SUBSET EarlierVisit
           /\ BothFirst(body) \in SUBSET BothVisit
<1>1. ToSet(body) \in SUBSET Stmts BY DEF Bodies, ToSet
<1>2. DriverFirst(body) \in SUBSET DriverVisit BY <1>1 DEF DriverFirst, DriverVisit
<1>3. LoadFirst(body) \in SUBSET LoadVisit
    <2>1. ASSUME NEW s \in Stmts PROVE [stmt |-> s, found |-> FALSE] \in LoadVisit
        <3>1. FALSE \in BOOLEAN OBVIOUS
        <3> QED BY <3>1 DEF LoadVisit
    <2> QED BY <1>1, <2>1 DEF LoadFirst
<1>4. EarlierFirst(body) \in SUBSET EarlierVisit BY <1>1 DEF EarlierFirst, EarlierVisit
<1>5. BothFirst(body) \in SUBSET BothVisit
    <2>1. ASSUME NEW s \in Stmts PROVE [stmt |-> s, found |-> FALSE, labels |-> {}] \in BothVisit
        <3>1. FALSE \in BOOLEAN OBVIOUS
        <3> QED BY <3>1 DEF BothVisit
    <2> QED BY <1>1, <2>1 DEF BothFirst
<1> QED BY <1>1, <1>2, <1>3, <1>4, <1>5

-----------------------------------------------------------------------------
(* How the traversals of one process are related.                          *)

\* Statements that the root decides on are visited with the root among the conditions.
LEMMA FoundIsCondition ==
    ASSUME NEW body \in Bodies, NEW x
    PROVE  \A v \in LoadVisits(body, x) : \E w \in DriverVisits(body) :
              v.stmt = w.stmt /\ (v.found => x \in Concrete(w.conds))
<1> DEFINE Rel(v, w) == v.stmt = w.stmt /\ (v.found => x \in Concrete(w.conds))
           R == {p \in LoadVisit \X DriverVisit : Rel(p[1], p[2])}
<1>1. LoadFirst(body) \in SUBSET LoadVisit /\ DriverFirst(body) \in SUBSET DriverVisit
    BY FirstVisits
<1>2. ASSUME NEW v \in LoadFirst(body) PROVE \E w \in DriverFirst(body) : <<v, w>> \in R
    <2>1. PICK s \in ToSet(body) : v = [stmt |-> s, found |-> FALSE] BY DEF LoadFirst
    <2>2. [stmt |-> s, conds |-> {}] \in DriverFirst(body) BY <2>1 DEF DriverFirst
    <2> QED BY <1>1, <2>1, <2>2
<1>3. ASSUME NEW v \in LoadVisit, NEW w \in DriverVisit, <<v, w>> \in R, NEW p \in LoadInside(x)[v]
      PROVE  \E q \in DriverInside[w] : <<p, q>> \in R
    <2>1. PICK b \in Branches(v.stmt) : \E s \in ToSet(b.body) : p = [stmt |-> s, found |-> Found(b.tests, x, v.found)]
        BY LoadSteps
    <2>2. PICK s \in ToSet(b.body) : p = [stmt |-> s, found |-> Found(b.tests, x, v.found)] BY <2>1
    <2> DEFINE q == [stmt |-> s, conds |-> w.conds \cup b.tests \cup b.passed]
    <2>3. Rel(v, w) BY <1>3
    <2>4. q \in DriverInside[w] BY <2>1, <2>2, <2>3, DriverSteps
    <2>5. p \in LoadVisit /\ q \in DriverVisit BY <2>4, <1>3, LoadSteps, DriverSteps
    <2>6. Rel(p, q) BY <2>2, <2>3 DEF Found, Concrete
    <2>7. <<p, q>> \in R BY <2>5, <2>6
    <2> QED BY <2>4, <2>7
<1> HIDE DEF R
<1>4. Matches(LoadVisit, LoadFirst(body), LoadInside(x), DriverVisit, DriverFirst(body), DriverInside, R)
    BY <1>1, <1>2, <1>3, LoadSteps, DriverSteps DEF Matches
<1>5. AllMatched(LoadVisits(body, x), DriverVisits(body), R)
    BY <1>4, Simulated, Traversals
<1>6. \A v, w : <<v, w>> \in R => Rel(v, w) BY DEF R
<1> HIDE DEF Rel
<1>7. \A v \in LoadVisits(body, x) : \E w \in DriverVisits(body) : Rel(v, w)
    BY <1>5, <1>6 DEF AllMatched
<1> QED BY <1>7 DEF Rel

\* A condition of a statement decided on it, or is a label of an earlier item.
LEMMA ConditionIsFound ==
    ASSUME NEW body \in Bodies, NEW x
    PROVE  \A v \in DriverVisits(body) : \E w \in Visited(BothFirst(body), BothInside(x)) :
              v.stmt = w.stmt /\ (x \in Concrete(v.conds) => w.found \/ x \in Concrete(w.labels))
<1> DEFINE Rel(v, w) == v.stmt = w.stmt /\ (x \in Concrete(v.conds) => w.found \/ x \in Concrete(w.labels))
           R == {p \in DriverVisit \X BothVisit : Rel(p[1], p[2])}
<1>1. DriverFirst(body) \in SUBSET DriverVisit /\ BothFirst(body) \in SUBSET BothVisit
    BY FirstVisits
<1>2. ASSUME NEW v \in DriverFirst(body) PROVE \E w \in BothFirst(body) : <<v, w>> \in R
    <2>1. PICK s \in ToSet(body) : v = [stmt |-> s, conds |-> {}] BY DEF DriverFirst
    <2>2. [stmt |-> s, found |-> FALSE, labels |-> {}] \in BothFirst(body) BY <2>1 DEF BothFirst
    <2>3. Rel(v, [stmt |-> s, found |-> FALSE, labels |-> {}]) BY <2>1 DEF Found, Concrete
    <2> QED BY <1>1, <2>2, <2>3
<1>3. ASSUME NEW v \in DriverVisit, NEW w \in BothVisit, <<v, w>> \in R, NEW p \in DriverInside[v]
      PROVE  \E q \in BothInside(x)[w] : <<p, q>> \in R
    <2>1. PICK b \in Branches(v.stmt) : \E s \in ToSet(b.body) : p = [stmt |-> s, conds |-> v.conds \cup b.tests \cup b.passed]
        BY DriverSteps
    <2>2. PICK s \in ToSet(b.body) : p = [stmt |-> s, conds |-> v.conds \cup b.tests \cup b.passed] BY <2>1
    <2> DEFINE q == [stmt |-> s, found |-> Found(b.tests, x, w.found), labels |-> w.labels \cup b.passed]
    <2>3. Rel(v, w) BY <1>3
    <2>4. q \in BothInside(x)[w] BY <2>1, <2>2, <2>3, BothSteps
    <2>5. p \in DriverVisit /\ q \in BothVisit BY <2>4, <1>3, DriverSteps, BothSteps
    <2>6. Rel(p, q) BY <2>2, <2>3 DEF Found, Concrete
    <2>7. <<p, q>> \in R BY <2>5, <2>6
    <2> QED BY <2>4, <2>7
<1> HIDE DEF R
<1>4. Matches(DriverVisit, DriverFirst(body), DriverInside, BothVisit, BothFirst(body), BothInside(x), R)
    BY <1>1, <1>2, <1>3, DriverSteps, BothSteps DEF Matches
<1>5. AllMatched(DriverVisits(body), Visited(BothFirst(body), BothInside(x)), R)
    BY <1>4, Simulated, Traversals
<1>6. \A v, w : <<v, w>> \in R => Rel(v, w) BY DEF R
<1> HIDE DEF Rel
<1>7. \A v \in DriverVisits(body) : \E w \in Visited(BothFirst(body), BothInside(x)) : Rel(v, w)
    BY <1>5, <1>6 DEF AllMatched
<1> QED BY <1>7 DEF Rel

\* The traversal that carries both carries what LoadsTracer does.
LEMMA BothLoads ==
    ASSUME NEW body \in Bodies, NEW x
    PROVE  \A v \in Visited(BothFirst(body), BothInside(x)) : \E w \in LoadVisits(body, x) :
              v.stmt = w.stmt /\ v.found = w.found
<1> DEFINE Rel(v, w) == v.stmt = w.stmt /\ v.found = w.found
           R == {p \in BothVisit \X LoadVisit : Rel(p[1], p[2])}
<1>1. BothFirst(body) \in SUBSET BothVisit /\ LoadFirst(body) \in SUBSET LoadVisit
    BY FirstVisits
<1>2. ASSUME NEW v \in BothFirst(body) PROVE \E w \in LoadFirst(body) : <<v, w>> \in R
    <2>1. PICK s \in ToSet(body) : v = [stmt |-> s, found |-> FALSE, labels |-> {}] BY DEF BothFirst
    <2>2. [stmt |-> s, found |-> FALSE] \in LoadFirst(body) BY <2>1 DEF LoadFirst
    <2>3. Rel(v, [stmt |-> s, found |-> FALSE]) BY <2>1
    <2> QED BY <1>1, <2>2, <2>3
<1>3. ASSUME NEW v \in BothVisit, NEW w \in LoadVisit, <<v, w>> \in R, NEW p \in BothInside(x)[v]
      PROVE  \E q \in LoadInside(x)[w] : <<p, q>> \in R
    <2>1. PICK b \in Branches(v.stmt) : \E s \in ToSet(b.body) : p = [stmt |-> s, found |-> Found(b.tests, x, v.found), labels |-> v.labels \cup b.passed]
        BY BothSteps
    <2>2. PICK s \in ToSet(b.body) : p = [stmt |-> s, found |-> Found(b.tests, x, v.found), labels |-> v.labels \cup b.passed] BY <2>1
    <2> DEFINE q == [stmt |-> s, found |-> Found(b.tests, x, w.found)]
    <2>3. Rel(v, w) BY <1>3
    <2>4. q \in LoadInside(x)[w] BY <2>1, <2>2, <2>3, LoadSteps
    <2>5. p \in BothVisit /\ q \in LoadVisit BY <2>4, <1>3, BothSteps, LoadSteps
    <2>6. Rel(p, q) BY <2>2, <2>3
    <2>7. <<p, q>> \in R BY <2>5, <2>6
    <2> QED BY <2>4, <2>7
<1> HIDE DEF R
<1>4. Matches(BothVisit, BothFirst(body), BothInside(x), LoadVisit, LoadFirst(body), LoadInside(x), R)
    BY <1>1, <1>2, <1>3, BothSteps, LoadSteps DEF Matches
<1>5. AllMatched(Visited(BothFirst(body), BothInside(x)), LoadVisits(body, x), R)
    BY <1>4, Simulated, Traversals
<1>6. \A v, w : <<v, w>> \in R => Rel(v, w) BY DEF R
<1> HIDE DEF Rel
<1>7. \A v \in Visited(BothFirst(body), BothInside(x)) : \E w \in LoadVisits(body, x) : Rel(v, w)
    BY <1>5, <1>6 DEF AllMatched
<1> QED BY <1>7 DEF Rel

\* And it carries the earlier labels.
LEMMA BothEarlier ==
    ASSUME NEW body \in Bodies, NEW x
    PROVE  \A v \in Visited(BothFirst(body), BothInside(x)) : \E w \in EarlierVisits(body) :
              v.stmt = w.stmt /\ v.labels = w.labels
<1> DEFINE Rel(v, w) == v.stmt = w.stmt /\ v.labels = w.labels
           R == {p \in BothVisit \X EarlierVisit : Rel(p[1], p[2])}
<1>1. BothFirst(body) \in SUBSET BothVisit /\ EarlierFirst(body) \in SUBSET EarlierVisit
    BY FirstVisits
<1>2. ASSUME NEW v \in BothFirst(body) PROVE \E w \in EarlierFirst(body) : <<v, w>> \in R
    <2>1. PICK s \in ToSet(body) : v = [stmt |-> s, found |-> FALSE, labels |-> {}] BY DEF BothFirst
    <2>2. [stmt |-> s, labels |-> {}] \in EarlierFirst(body) BY <2>1 DEF EarlierFirst
    <2>3. Rel(v, [stmt |-> s, labels |-> {}]) BY <2>1
    <2> QED BY <1>1, <2>2, <2>3
<1>3. ASSUME NEW v \in BothVisit, NEW w \in EarlierVisit, <<v, w>> \in R, NEW p \in BothInside(x)[v]
      PROVE  \E q \in EarlierInside[w] : <<p, q>> \in R
    <2>1. PICK b \in Branches(v.stmt) : \E s \in ToSet(b.body) : p = [stmt |-> s, found |-> Found(b.tests, x, v.found), labels |-> v.labels \cup b.passed]
        BY BothSteps
    <2>2. PICK s \in ToSet(b.body) : p = [stmt |-> s, found |-> Found(b.tests, x, v.found), labels |-> v.labels \cup b.passed] BY <2>1
    <2> DEFINE q == [stmt |-> s, labels |-> w.labels \cup b.passed]
    <2>3. Rel(v, w) BY <1>3
    <2>4. q \in EarlierInside[w] BY <2>1, <2>2, <2>3, EarlierSteps
    <2>5. p \in BothVisit /\ q \in EarlierVisit BY <2>4, <1>3, BothSteps, EarlierSteps
    <2>6. Rel(p, q) BY <2>2, <2>3
    <2>7. <<p, q>> \in R BY <2>5, <2>6
    <2> QED BY <2>4, <2>7
<1> HIDE DEF R
<1>4. Matches(BothVisit, BothFirst(body), BothInside(x), EarlierVisit, EarlierFirst(body), EarlierInside, R)
    BY <1>1, <1>2, <1>3, BothSteps, EarlierSteps DEF Matches
<1>5. AllMatched(Visited(BothFirst(body), BothInside(x)), EarlierVisits(body), R)
    BY <1>4, Simulated, Traversals
<1>6. \A v, w : <<v, w>> \in R => Rel(v, w) BY DEF R
<1> HIDE DEF Rel
<1>7. \A v \in Visited(BothFirst(body), BothInside(x)) : \E w \in EarlierVisits(body) : Rel(v, w)
    BY <1>5, <1>6 DEF AllMatched
<1> QED BY <1>7 DEF Rel

\* DriversTracer visits statements of the process.
LEMMA DriversReach ==
    ASSUME NEW body \in Bodies
    PROVE  \A v \in DriverVisits(body) : \E w \in Reached(body) :
              v.stmt = w
<1> DEFINE Rel(v, w) == v.stmt = w
           R == {p \in DriverVisit \X Stmts : Rel(p[1], p[2])}
<1>1. DriverFirst(body) \in SUBSET DriverVisit /\ ToSet(body) \in SUBSET Stmts
    BY FirstVisits
<1>2. ASSUME NEW v \in DriverFirst(body) PROVE \E w \in ToSet(body) : <<v, w>> \in R
    <2>1. PICK s \in ToSet(body) : v = [stmt |-> s, conds |-> {}] BY DEF DriverFirst
    <2>2. s \in ToSet(body) BY <2>1
    <2>3. Rel(v, s) BY <2>1
    <2> QED BY <1>1, <2>2, <2>3
<1>3. ASSUME NEW v \in DriverVisit, NEW w \in Stmts, <<v, w>> \in R, NEW p \in DriverInside[v]
      PROVE  \E q \in ReachInside[w] : <<p, q>> \in R
    <2>1. PICK b \in Branches(v.stmt) : \E s \in ToSet(b.body) : p = [stmt |-> s, conds |-> v.conds \cup b.tests \cup b.passed]
        BY DriverSteps
    <2>2. PICK s \in ToSet(b.body) : p = [stmt |-> s, conds |-> v.conds \cup b.tests \cup b.passed] BY <2>1
    <2> DEFINE q == s
    <2>3. Rel(v, w) BY <1>3
    <2>4. q \in ReachInside[w] BY <2>1, <2>2, <2>3, ReachSteps
    <2>5. p \in DriverVisit /\ q \in Stmts BY <2>4, <1>3, DriverSteps, ReachSteps
    <2>6. Rel(p, q) BY <2>2, <2>3
    <2>7. <<p, q>> \in R BY <2>5, <2>6
    <2> QED BY <2>4, <2>7
<1> HIDE DEF R
<1>4. Matches(DriverVisit, DriverFirst(body), DriverInside, Stmts, ToSet(body), ReachInside, R)
    BY <1>1, <1>2, <1>3, DriverSteps, ReachSteps DEF Matches
<1>5. AllMatched(DriverVisits(body), Reached(body), R)
    BY <1>4, Simulated, Traversals
<1>6. \A v, w : <<v, w>> \in R => Rel(v, w) BY DEF R
<1> HIDE DEF Rel
<1>7. \A v \in DriverVisits(body) : \E w \in Reached(body) : Rel(v, w)
    BY <1>5, <1>6 DEF AllMatched
<1> QED BY <1>7 DEF Rel

\* What DriversTracer holds as conditions the process mentions.
LEMMA ConditionsMentioned ==
    ASSUME NEW body \in Bodies
    PROVE  \A v \in DriverVisits(body) :
              /\ v \in DriverVisit /\ v.stmt \in Reached(body)
              /\ v.conds \subseteq Mentions(body)
<1> DEFINE I == {v \in DriverVisit : v.conds \subseteq Mentions(body)}
           first == DriverFirst(body)
           met == Visited(DriverFirst(body), DriverInside)
<1>1. first \in SUBSET DriverVisit /\ DriverInside \in [DriverVisit -> SUBSET DriverVisit]
    BY FirstVisits, DriverSteps
<1>2. first \subseteq I BY <1>1 DEF DriverFirst
<1>3. met = DriverVisits(body) BY Traversals
<1>4. \A v \in met : v.stmt \in Reached(body) BY <1>3, DriversReach
<1>5. ASSUME NEW v \in met, v \in I PROVE DriverInside[v] \subseteq I
    <2>1. v \in DriverVisit /\ v.stmt \in Stmts BY <1>5 DEF DriverVisit
    <2>2. SUFFICES ASSUME NEW p \in DriverInside[v] PROVE p \in I OBVIOUS
    <2>3. PICK b \in Branches(v.stmt) : \E s \in ToSet(b.body) :
              p = [stmt |-> s, conds |-> v.conds \cup b.tests \cup b.passed]
        BY <2>1, DriverSteps
    <2>4. p.conds = v.conds \cup b.tests \cup b.passed BY <2>3
    <2>5. b.tests \subseteq Mentioned(v.stmt) /\ b.passed \subseteq Mentioned(v.stmt) BY <2>1, <2>3, BranchTypes
    <2>6. Mentioned(v.stmt) \subseteq Mentions(body) BY <1>4 DEF Mentions
    <2>7. p \in DriverVisit BY <1>1, <2>1
    <2> QED BY <1>5, <2>4, <2>5, <2>6, <2>7
<1> HIDE DEF first, met, I
<1>6. first \in SUBSET DriverVisit /\ met = Visited(first, DriverInside) BY <1>1 DEF first, met
<1>7. \A v \in Visited(first, DriverInside) : v \in I => DriverInside[v] \subseteq I
    BY <1>5, <1>6
<1>8. met \subseteq I
    BY <1>1, <1>2, <1>6, <1>7, AllVisits, ConesAssumption
<1> QED BY <1>3, <1>4, <1>8 DEF I

-----------------------------------------------------------------------------
(* The cones.                                                              *)

\* Modports stand for what is not a modport.
LEMMA Concretes ==
    ASSUME NEW s \in Signals
    PROVE  /\ concreteSymbol(s) \in Signals
           /\ concreteSymbol(concreteSymbol(s)) = concreteSymbol(s)
BY ConesAssumption DEF concreteSymbol

\* A statement mentions what it assigns to.
LEMMA MentionsAssigned ==
    ASSUME NEW body, NEW s \in Reached(body), s.kind = "assign"
    PROVE  {s.to} \cup s.index \cup s.from \subseteq Mentions(body) /\ s \in Assigns(body)
<1>1. Mentioned(s) = {s.to} \cup s.index \cup s.from BY DEF Mentioned
<1> QED BY <1>1 DEF Mentions, Assigns

\* In a process, what the root loads is driven by it, unless it is only an index.
LEMMA ProcessLoads ==
    ASSUME NEW body \in Bodies, NEW x, x \notin Parameters, NEW y \in LoadsTracer(body, x)
    PROVE  \/ y \in OnlyIndexed(body)
           \/ y \in Concrete(Targets(body)) /\ x \in DriversTracer(body, y)
<1>1. PICK v \in LoadVisits(body, x) : /\ v.stmt.kind = "assign"
                                       /\ Found(v.stmt.from, x, v.found)
                                       /\ y \in addLeaves({v.stmt.to} \cup v.stmt.index)
    BY DEF LoadsTracer
<1>2. PICK w \in DriverVisits(body) : v.stmt = w.stmt /\ (v.found => x \in Concrete(w.conds))
    BY FoundIsCondition
<1>3. x \in addLeaves(w.stmt.from \cup w.conds)
    BY <1>1, <1>2 DEF Found, addLeaves, Concrete
<1>4. y \in Concrete({w.stmt.to} \cup w.stmt.index)
    BY <1>1, <1>2 DEF addLeaves
<1>5. x \in DriversTracer(body, y)
    BY <1>1, <1>2, <1>3, <1>4 DEF DriversTracer
<1>6. w.stmt \in Assigns(body)
    BY <1>1, <1>2, ConditionsMentioned, MentionsAssigned
<1>7. CASE y = concreteSymbol(w.stmt.to)
    <2>1. y \in Concrete(Targets(body)) BY <1>6, <1>7 DEF Targets, Concrete
    <2> QED BY <1>5, <2>1
<1>8. CASE y \in Concrete(w.stmt.index)
    <2>1. y \in Concrete(UNION {s.index : s \in Assigns(body)}) BY <1>6, <1>8 DEF Concrete
    <2> QED BY <1>5, <2>1 DEF OnlyIndexed
<1> QED BY <1>4, <1>7, <1>8 DEF Concrete

\* And what drives the root loads it, unless it does so by a label of an earlier item.
LEMMA ProcessDrivers ==
    ASSUME NEW body \in Bodies, NEW y, y \notin Parameters, NEW x \in DriversTracer(body, y)
    PROVE  /\ x \in Concrete(Mentions(body))
           /\ BehindLabel(body, x, y) \/ y \in LoadsTracer(body, x)
<1>1. PICK v \in DriverVisits(body) : /\ v.stmt.kind = "assign"
                                      /\ y \in Concrete({v.stmt.to} \cup v.stmt.index)
                                      /\ x \in addLeaves(v.stmt.from \cup v.conds)
    BY DEF DriversTracer
<1>2. x \in Concrete(v.stmt.from) \/ x \in Concrete(v.conds)
    BY <1>1 DEF addLeaves, Concrete
<1>3. x \in Concrete(Mentions(body))
    <2>1. v.stmt.from \subseteq Mentions(body) /\ v.conds \subseteq Mentions(body)
        BY <1>1, ConditionsMentioned, MentionsAssigned
    <2> QED BY <1>2, <2>1 DEF Concrete
<1>4. PICK w \in Visited(BothFirst(body), BothInside(x)) :
          v.stmt = w.stmt /\ (x \in Concrete(v.conds) => w.found \/ x \in Concrete(w.labels))
    BY ConditionIsFound
<1>5. CASE x \in Concrete(v.stmt.from) \/ w.found
    <2>1. PICK u \in LoadVisits(body, x) : w.stmt = u.stmt /\ w.found = u.found BY BothLoads
    <2>2. Found(u.stmt.from, x, u.found) BY <1>4, <1>5, <2>1 DEF Found
    <2>3. y \in addLeaves({u.stmt.to} \cup u.stmt.index) BY <1>1, <1>4, <2>1 DEF addLeaves
    <2>4. u.stmt.kind = "assign" BY <1>1, <1>4, <2>1
    <2>5. y \in LoadsTracer(body, x) BY <2>1, <2>2, <2>3, <2>4 DEF LoadsTracer
    <2> QED BY <1>3, <2>5
<1>6. CASE x \in Concrete(w.labels)
    <2>1. PICK u \in EarlierVisits(body) : w.stmt = u.stmt /\ w.labels = u.labels BY BothEarlier
    <2>2. BehindLabel(body, x, y) BY <1>1, <1>4, <1>6, <2>1 DEF BehindLabel
    <2> QED BY <1>3, <2>2
<1> QED BY <1>2, <1>4, <1>5, <1>6

\* What a port of an instance drives, and what it loads.
PortDrivers(p, root) ==
    CASE p.dir = "in" /\ p.inner = root -> addLeaves(p.conn)
      [] p.dir = "out" /\ root \in Concrete(p.conn) -> addLeaves({p.inner})
      [] OTHER -> {}
PortLoads(p, root) ==
    CASE p.dir = "out" /\ p.inner = root -> addLeaves(p.conn)
      [] p.dir = "in" /\ root \in Concrete(p.conn) -> addLeaves({p.inner})
      [] OTHER -> {}

\* What a port of an instance loads is driven through it, and the other way round.
LEMMA PortsAreDual ==
    ASSUME NEW p, IsPort(p),
           NEW x, concreteSymbol(x) = x, x \notin Parameters,
           NEW y, concreteSymbol(y) = y, y \notin Parameters
    PROVE  y \in PortLoads(p, x) <=> x \in PortDrivers(p, y)
<1>1. concreteSymbol(p.inner) = p.inner BY DEF IsPort, concreteSymbol
<1>2. \A S, z : z \notin Parameters => (z \in addLeaves(S) <=> z \in Concrete(S)) BY DEF addLeaves
<1>3. \A z : z \in Concrete({p.inner}) <=> z = p.inner BY <1>1 DEF Concrete
<1>4. CASE p.dir = "in"
    <2>1. PortLoads(p, x) = IF x \in Concrete(p.conn) THEN addLeaves({p.inner}) ELSE {} BY <1>4 DEF PortLoads
    <2>2. PortDrivers(p, y) = IF p.inner = y THEN addLeaves(p.conn) ELSE {} BY <1>4 DEF PortDrivers
    <2>3. y \in PortLoads(p, x) <=> x \in Concrete(p.conn) /\ y = p.inner BY <2>1, <1>2, <1>3
    <2>4. x \in PortDrivers(p, y) <=> x \in Concrete(p.conn) /\ y = p.inner BY <2>2, <1>2
    <2> QED BY <2>3, <2>4
<1>5. CASE p.dir = "out"
    <2>1. PortLoads(p, x) = IF p.inner = x THEN addLeaves(p.conn) ELSE {} BY <1>5 DEF PortLoads
    <2>2. PortDrivers(p, y) = IF y \in Concrete(p.conn) THEN addLeaves({p.inner}) ELSE {} BY <1>5 DEF PortDrivers
    <2>3. y \in PortLoads(p, x) <=> y \in Concrete(p.conn) /\ x = p.inner BY <2>1, <1>2
    <2>4. x \in PortDrivers(p, y) <=> y \in Concrete(p.conn) /\ x = p.inner BY <2>2, <1>2, <1>3
    <2> QED BY <2>3, <2>4
<1>6. CASE p.dir = "inout"
    BY <1>6 DEF PortLoads, PortDrivers
<1> QED BY <1>4, <1>5, <1>6 DEF IsPort

\* The containers that the two indexes name for a signal: what a container loads drives it
\* there, and what drives a signal mentions it.
LEMMA InstancesAreDual ==
    ASSUME NEW c, \A i \in DOMAIN c.ports : IsPort(c.ports[i]),
           NEW x, concreteSymbol(x) = x, x \notin Parameters,
           NEW y, concreteSymbol(y) = y, y \notin Parameters
    PROVE  /\ y \in InstanceLoads(c, x) <=> x \in InstanceDrivers(c, y)
           /\ y \in InstanceLoads(c, x) => \E i \in Connected(c) :
                \/ c.ports[i].dir # "out" /\ y = c.ports[i].inner
                \/ c.ports[i].dir # "in" /\ y \in Concrete(c.ports[i].conn)
           /\ x \in InstanceDrivers(c, y) => x \in Concrete(UNION {PortMentions(c.ports[i]) : i \in DOMAIN c.ports})
<1>1. InstanceLoads(c, x) = UNION {PortLoads(c.ports[i], x) : i \in Connected(c)}
    BY DEF InstanceLoads, PortLoads
<1>2. InstanceDrivers(c, y) = UNION {PortDrivers(c.ports[i], y) : i \in Connected(c)}
    BY DEF InstanceDrivers, PortDrivers
<1>3. \A i \in Connected(c) : IsPort(c.ports[i]) /\ i \in DOMAIN c.ports /\ c.ports[i].conn # None
    BY DEF Connected
<1>4. \A i \in Connected(c) : y \in PortLoads(c.ports[i], x) <=> x \in PortDrivers(c.ports[i], y)
    BY <1>3, PortsAreDual
<1>5. ASSUME NEW i \in Connected(c), x \in PortDrivers(c.ports[i], y)
      PROVE  /\ \/ c.ports[i].dir # "out" /\ y = c.ports[i].inner
                \/ c.ports[i].dir # "in" /\ y \in Concrete(c.ports[i].conn)
             /\ x \in Concrete(PortMentions(c.ports[i]))
    <2> DEFINE p == c.ports[i]
    <2>1. p.conn # None /\ PortMentions(p) = {p.inner} \cup p.conn BY <1>3 DEF PortMentions
    <2>2. CASE p.dir = "in" /\ p.inner = y /\ x \in addLeaves(p.conn)
        BY <2>1, <2>2 DEF addLeaves, Concrete
    <2>3. CASE p.dir = "out" /\ y \in Concrete(p.conn) /\ x \in addLeaves({p.inner})
        BY <2>1, <2>3 DEF addLeaves, Concrete
    <2>4. p.dir \in {"in", "out", "inout"} BY <1>3 DEF IsPort
    <2> HIDE DEF p
    <2>5. x \in PortDrivers(p, y) BY <1>5 DEF p
    <2>6. \/ p.dir = "in" /\ p.inner = y /\ x \in addLeaves(p.conn)
          \/ p.dir = "out" /\ y \in Concrete(p.conn) /\ x \in addLeaves({p.inner})
        <3>1. CASE p.dir = "in" BY <3>1, <2>5 DEF PortDrivers
        <3>2. CASE p.dir = "out" BY <3>2, <2>5 DEF PortDrivers
        <3>3. CASE p.dir = "inout" BY <3>3, <2>5 DEF PortDrivers
        <3> QED BY <3>1, <3>2, <3>3, <2>4
    <2> QED BY <2>2, <2>3, <2>6 DEF p
<1>6. ASSUME x \in InstanceDrivers(c, y)
      PROVE  x \in Concrete(UNION {PortMentions(c.ports[i]) : i \in DOMAIN c.ports})
    <2>1. PICK i \in Connected(c) : x \in PortDrivers(c.ports[i], y) BY <1>2, <1>6
    <2>2. x \in Concrete(PortMentions(c.ports[i])) /\ i \in DOMAIN c.ports BY <1>3, <1>5, <2>1
    <2> QED BY <2>2 DEF Concrete
<1> QED BY <1>1, <1>2, <1>4, <1>5, <1>6

\* What a client asks about is one of the designs.
ConeAsked == question = None \/ \E design \in Designs : question = [about |-> "cone", design |-> design]

\* Asked of a design, the load cone of s and the driver cone of t agree.
LEMMA ConesAgree ==
    ASSUME NEW design \in Designs,
           NEW s \in Signals, concreteSymbol(s) \notin Parameters,
           NEW t \in Signals, concreteSymbol(t) \notin Parameters,
           getLoadCone(design, s) # None
    PROVE  Dual({c \in design : c.kind = "process"},
                concreteSymbol(s), getLoadCone(design, s), concreteSymbol(t), getDriverCone(design, t))
<1> DEFINE x == concreteSymbol(s)
           y == concreteSymbol(t)
           processes == {c \in design : c.kind = "process"}
           uses == symbolToUses(design, x)
           Drivers(c) == IF c.kind = "process" THEN DriversTracer(c.body, y) ELSE InstanceDrivers(c, y)
           Loads(c) == IF c.kind = "process" THEN LoadsTracer(c.body, x) ELSE InstanceLoads(c, x)
<1>1. concreteSymbol(x) = x /\ concreteSymbol(y) = y BY Concretes
<1>2. getLoadCone(design, s) = UNION {Loads(c) : c \in uses} BY DEF getLoadCone
<1>3. getDriverCone(design, t) = UNION {Drivers(c) : c \in getDrivers(design, t)} BY DEF getDriverCone
<1>4. ASSUME NEW c \in design
      PROVE  \/ c.kind = "process" /\ c.body \in Bodies
             \/ c.kind = "inst" /\ \A i \in DOMAIN c.ports : IsPort(c.ports[i])
    BY ConesAssumption DEF IsContainer, Bodies
<1> HIDE DEF x, y, uses
<1>5. ASSUME y \in getLoadCone(design, s)
      PROVE  x \in getDriverCone(design, t) \/ \E c \in processes : y \in OnlyIndexed(c.body)
    <2>1. PICK c \in uses : y \in Loads(c) BY <1>2, <1>5
    <2>2. c \in design BY DEF uses, symbolToUses
    <2>3. CASE c.kind = "process"
        <3>1. y \in OnlyIndexed(c.body) \/ (y \in Concrete(Targets(c.body)) /\ x \in DriversTracer(c.body, y))
            BY <1>4, <2>1, <2>2, <2>3, ProcessLoads DEF x
        <3>2. CASE y \in OnlyIndexed(c.body) BY <2>2, <2>3, <3>2
        <3>3. CASE y \in Concrete(Targets(c.body)) /\ x \in DriversTracer(c.body, y)
            <4>1. c \in getDrivers(design, t) BY <2>2, <2>3, <3>3 DEF getDrivers, y
            <4> QED BY <1>3, <2>3, <3>3, <4>1
        <3> QED BY <3>1, <3>2, <3>3
    <2>4. CASE c.kind = "inst"
        <3>1. y \in InstanceLoads(c, x) BY <2>1, <2>4
        <3>2. x \notin Parameters /\ y \notin Parameters /\ \A i \in DOMAIN c.ports : IsPort(c.ports[i])
            BY <1>4, <2>2, <2>4 DEF x, y
        <3>3. /\ x \in InstanceDrivers(c, y)
              /\ \E i \in Connected(c) :
                    \/ c.ports[i].dir # "out" /\ y = c.ports[i].inner
                    \/ c.ports[i].dir # "in" /\ y \in Concrete(c.ports[i].conn)
            BY <1>1, <3>1, <3>2, InstancesAreDual
        <3>4. c \in getDrivers(design, t) BY <2>2, <2>4, <3>3 DEF getDrivers, y
        <3> QED BY <1>3, <2>4, <3>3, <3>4
    <2> QED BY <1>4, <2>2, <2>3, <2>4
<1>6. ASSUME x \in getDriverCone(design, t)
      PROVE  y \in getLoadCone(design, s) \/ \E c \in processes : BehindLabel(c.body, x, y)
    <2>1. PICK c \in getDrivers(design, t) : x \in Drivers(c) BY <1>3, <1>6
    <2>2. c \in design BY DEF getDrivers
    <2>3. CASE c.kind = "process"
        <3>1. /\ x \in Concrete(Mentions(c.body))
              /\ BehindLabel(c.body, x, y) \/ y \in LoadsTracer(c.body, x)
            BY <1>4, <2>1, <2>2, <2>3, ProcessDrivers DEF y
        <3>2. c \in uses BY <2>2, <2>3, <3>1 DEF uses, symbolToUses
        <3> QED BY <1>2, <2>2, <2>3, <3>1, <3>2
    <2>4. CASE c.kind = "inst"
        <3>1. x \in InstanceDrivers(c, y) BY <2>1, <2>4
        <3>2. x \notin Parameters /\ y \notin Parameters /\ \A i \in DOMAIN c.ports : IsPort(c.ports[i])
            BY <1>4, <2>2, <2>4 DEF x, y
        <3>3. /\ y \in InstanceLoads(c, x)
              /\ x \in Concrete(UNION {PortMentions(c.ports[i]) : i \in DOMAIN c.ports})
            BY <1>1, <3>1, <3>2, InstancesAreDual
        <3>4. c \in uses BY <2>2, <2>4, <3>3 DEF uses, symbolToUses
        <3> QED BY <1>2, <2>4, <3>3, <3>4
    <2> QED BY <1>4, <2>2, <2>3, <2>4
<1> QED BY <1>5, <1>6 DEF Dual, x, y

\* Whatever design is asked about, what a signal loads is driven by it and what drives a
\* signal loads it, but for indices and for the labels of earlier items (getDriverCone and
\* getLoadCone, which trace from two indexes by two visitors).
THEOREM Cones_Dual == ConesSpec => []ConesAreDual
<1>1. question = None => ConeAsked BY DEF ConeAsked
<1>2. ConeAsked /\ [AskCone]_question => ConeAsked' BY DEF ConeAsked, AskCone
<1>3. ConeAsked => ConesAreDual
    <2>1. SUFFICES ASSUME ConeAsked, question # None PROVE ConesAreDual BY DEF ConesAreDual
    <2>2. PICK design \in Designs : question = [about |-> "cone", design |-> design] BY <2>1 DEF ConeAsked
    <2>3. question.design = design BY <2>2
    <2> QED BY <2>3, ConesAgree DEF ConesAreDual
<1> QED BY <1>1, <1>2, <1>3, PTL DEF ConesSpec

-----------------------------------------------------------------------------
(* Folds over sequences.                                                   *)

\* The functions that FoldLeft may choose for n steps from a.
FoldsOver(n, A, a, step) ==
    {f \in [SUBSET (1..n) -> A] :
        /\ f[{}] = a
        /\ \A s \in SUBSET (1..n) : s # {} => f[s] = step[Max(s)][f[s \ {Max(s)}]]}

\* The item that FoldLeft takes off a set of positions is the last.
LEMMA Greatest ==
    ASSUME NEW n \in Nat, NEW s \in SUBSET (1..n), n \in s
    PROVE  Max(s) = n
<1>1. \A y \in s : n >= y OBVIOUS
<1>2. \A x \in s : (\A y \in s : x >= y) => x = n OBVIOUS
<1>3. Max(s) \in s /\ \A y \in s : Max(s) >= y BY <1>1 DEF Max
<1> QED BY <1>2, <1>3

\* Every set of positions has a last.
LEMMA LastPosition ==
    ASSUME NEW n \in Nat, NEW s \in SUBSET (1..n), s # {}
    PROVE  Max(s) \in s
<1> DEFINE P == {k \in Nat : \A t \in SUBSET (1..k) : t # {} => Max(t) \in t}
<1>1. 0 \in P
    <2>1. SUBSET (1..0) = {{}} OBVIOUS
    <2> QED BY <2>1
<1>2. ASSUME NEW k \in Nat, k \in P PROVE k + 1 \in P
    <2>1. SUFFICES ASSUME NEW t \in SUBSET (1..(k + 1)), t # {} PROVE Max(t) \in t OBVIOUS
    <2>2. CASE k + 1 \in t BY <2>2, Greatest
    <2>3. CASE k + 1 \notin t
        <3>1. t \in SUBSET (1..k) BY <2>3
        <3> QED BY <3>1, <2>1, <1>2
    <2> QED BY <2>2, <2>3
<1>3. Nat \subseteq P
    <2> HIDE DEF P
    <2> QED BY <1>1, <1>2, Inductive
<1> QED BY <1>3

\* Every set of positions has a first.
LEMMA FirstPosition ==
    ASSUME NEW n \in Nat, NEW s \in SUBSET (1..n), s # {}
    PROVE  Min(s) \in s
<1> DEFINE P == {k \in Nat : \A t \in SUBSET (1..n) : k \in t => Min(t) \in t}
           Q == {k \in Nat : \A j \in 0..k : j \in P}
<1>1. ASSUME NEW k \in Nat, \A j \in 0..k : j # k => j \in P PROVE k \in P
    <2>1. SUFFICES ASSUME NEW t \in SUBSET (1..n), k \in t PROVE Min(t) \in t OBVIOUS
    <2>2. CASE \E j \in t : j < k
        <3>1. PICK j \in t : j < k BY <2>2
        <3>2. j \in P BY <3>1, <1>1
        <3> QED BY <3>1, <3>2
    <2>3. CASE \A j \in t : j >= k
        <3>1. \E x \in t : \A y \in t : x <= y BY <2>1, <2>3
        <3> QED BY <3>1 DEF Min
    <2> QED BY <2>2, <2>3
<1>2. 0 \in Q
    <2> HIDE DEF P
    <2> QED BY <1>1
<1>3. ASSUME NEW k \in Nat, k \in Q PROVE k + 1 \in Q
    <2> HIDE DEF P
    <2>1. \A j \in 0..(k + 1) : j # k + 1 => j \in P BY <1>3
    <2>2. k + 1 \in P BY <1>1, <2>1
    <2> QED BY <2>1, <2>2
<1>4. Nat \subseteq Q
    <2> HIDE DEF Q
    <2> QED BY <1>2, <1>3, Inductive
<1>5. PICK x \in s : TRUE OBVIOUS
<1>6. x \in P
    <2> HIDE DEF P
    <2>1. x \in Nat /\ x \in 0..x OBVIOUS
    <2> QED BY <2>1, <1>4
<1> QED BY <1>6

\* There is a fold.
LEMMA FoldExists ==
    ASSUME NEW n \in Nat, NEW A, NEW a \in A, NEW step \in [1..n -> [A -> A]]
    PROVE  FoldsOver(n, A, a, step) # {}
<1> DEFINE P == {k \in Nat : k <= n => FoldsOver(k, A, a, step) # {}}
<1>1. 0 \in P
    <2>1. SUBSET (1..0) = {{}} OBVIOUS
    <2>2. [s \in SUBSET (1..0) |-> a] \in FoldsOver(0, A, a, step) BY <2>1 DEF FoldsOver
    <2> QED BY <2>2
<1>2. ASSUME NEW k \in Nat, k \in P PROVE k + 1 \in P
    <2>1. SUFFICES ASSUME k + 1 <= n PROVE FoldsOver(k + 1, A, a, step) # {} OBVIOUS
    <2>2. k + 1 \in 1..n /\ k + 1 \in Nat BY <2>1
    <2>3. PICK f : f \in FoldsOver(k, A, a, step) BY <1>2, <2>1
    <2> DEFINE g == [s \in SUBSET (1..(k + 1)) |->
                        IF k + 1 \in s THEN step[k + 1][f[s \ {k + 1}]] ELSE f[s]]
    <2>4. ASSUME NEW s \in SUBSET (1..(k + 1)) PROVE s \ {k + 1} \in SUBSET (1..k)
        OBVIOUS
    <2>5. f \in [SUBSET (1..k) -> A] /\ f[{}] = a BY <2>3 DEF FoldsOver
    <2>6. g \in [SUBSET (1..(k + 1)) -> A]
        <3>1. ASSUME NEW s \in SUBSET (1..(k + 1)) PROVE g[s] \in A
            <4>1. f[s \ {k + 1}] \in A BY <2>4, <2>5
            <4>2. step[k + 1] \in [A -> A] BY <2>2
            <4>3. CASE k + 1 \in s BY <4>1, <4>2, <4>3
            <4>4. CASE k + 1 \notin s
                <5>1. s = s \ {k + 1} BY <4>4
                <5> QED BY <4>1, <4>4, <5>1
            <4> QED BY <4>3, <4>4
        <3> QED BY <3>1
    <2>7. g[{}] = a BY <2>5
    <2>8. ASSUME NEW s \in SUBSET (1..(k + 1)), s # {}
          PROVE  g[s] = step[Max(s)][g[s \ {Max(s)}]]
        <3>1. CASE k + 1 \in s
            <4>1. Max(s) = k + 1 BY <3>1, <2>2, Greatest
            <4>2. s \ {k + 1} \in SUBSET (1..(k + 1)) /\ k + 1 \notin s \ {k + 1} OBVIOUS
            <4>3. g[s \ {k + 1}] = f[s \ {k + 1}] BY <4>2
            <4>4. g[s] = step[k + 1][f[s \ {k + 1}]] BY <3>1
            <4> QED BY <4>1, <4>3, <4>4
        <3>2. CASE k + 1 \notin s
            <4>1. s \in SUBSET (1..k) BY <3>2, <2>4
            <4>2. f[s] = step[Max(s)][f[s \ {Max(s)}]]
                <5>1. \A t \in SUBSET (1..k) : t # {} => f[t] = step[Max(t)][f[t \ {Max(t)}]]
                    BY <2>3 DEF FoldsOver
                <5> QED BY <4>1, <5>1, <2>8
            <4>3. PICK t : t = s \ {Max(s)} OBVIOUS
            <4>4. t \in SUBSET (1..(k + 1)) /\ k + 1 \notin t BY <4>3, <3>2
            <4>5. g[t] = f[t] /\ g[s] = f[s] BY <4>4, <3>2
            <4> QED BY <4>2, <4>3, <4>5
        <3> QED BY <3>1, <3>2
    <2> HIDE DEF g
    <2> QED BY <2>6, <2>7, <2>8 DEF FoldsOver
<1>3. Nat \subseteq P
    <2> HIDE DEF P
    <2> QED BY <1>1, <1>2, Inductive
<1> QED BY <1>3

\* iter is a fold from a, and each of its steps leads from B[k] to B[k + 1].
Folding(n, A, a, step, B, iter) ==
    /\ n \in Nat /\ a \in A /\ step \in [1..n -> [A -> A]]
    /\ a \in B[0]
    /\ \A k \in Nat : \A x \in A : k < n /\ x \in B[k] => step[k + 1][x] \in B[k + 1]
    /\ iter[{}] = a
    /\ \A s \in SUBSET (1..n) : s # {} /\ iter[s \ {Max(s)}] \in A
                                => iter[s] = step[Max(s)][iter[s \ {Max(s)}]]

\* It leads to the last of them.
LEMMA FoldLeads ==
    ASSUME NEW n, NEW A, NEW a, NEW step, NEW B, NEW iter, Folding(n, A, a, step, B, iter)
    PROVE  iter[1..n] \in A /\ iter[1..n] \in B[n]
<1> USE DEF Folding
<1> DEFINE P == {k \in Nat : k <= n => iter[1..k] \in A /\ iter[1..k] \in B[k]}
<1>1. 0 \in P
    <2>1. 1..0 = {} OBVIOUS
    <2> QED BY <2>1
<1>2. ASSUME NEW k \in Nat, k \in P PROVE k + 1 \in P
    <2>1. SUFFICES ASSUME k + 1 <= n
                   PROVE  iter[1..(k + 1)] \in A /\ iter[1..(k + 1)] \in B[k + 1]
        OBVIOUS
    <2>2. PICK s : s = 1..(k + 1) OBVIOUS
    <2>3. s \in SUBSET (1..n) /\ s # {}
        <3>1. \A i \in s : i \in 1..n BY <2>1, <2>2
        <3>2. k + 1 \in s BY <2>2
        <3> QED BY <3>1, <3>2
    <2>4. Max(s) = k + 1
        <3>1. k + 1 \in Nat /\ s \in SUBSET (1..(k + 1)) /\ k + 1 \in s BY <2>2
        <3> QED BY <3>1, Greatest
    <2>5. s \ {k + 1} = 1..k BY <2>2
    <2>6. iter[1..k] \in A /\ iter[1..k] \in B[k] BY <1>2, <2>1
    <2>7. iter[s] = step[k + 1][iter[1..k]] BY <2>3, <2>4, <2>5, <2>6
    <2>8. k < n /\ k + 1 \in 1..n BY <2>1
    <2>9. step[k + 1] \in [A -> A] BY <2>8
    <2>10. step[k + 1][iter[1..k]] \in A BY <2>6, <2>9
    <2>11. step[k + 1][iter[1..k]] \in B[k + 1] BY <2>6, <2>8
    <2> QED BY <2>2, <2>7, <2>10, <2>11
<1>3. Nat \subseteq P
    <2> HIDE DEF P
    <2> QED BY <1>1, <1>2, Inductive
<1> QED BY <1>3

-----------------------------------------------------------------------------
(* Lists of items.                                                         *)

\* The items of a lexical list, until they get their edits.
ItemLabels == Names \cup {"logic", "always_ff"}
ItemKinds == {"Function", "Class", "Constant", "Struct", "Variable", "Keyword", "Snippet", "Interface", "Module"}
Entries == [label : ItemLabels, kind : ItemKinds, insert : {None, "call", "keyed", "label"}, snippet : BOOLEAN,
            edit : {None}, data : [symbol : Symbols, labelOnly : BOOLEAN] \cup {None}, documented : BOOLEAN,
            rank : {None, "Scope", "Imported", "Library", "Keyword"}]
\* What the search carries from member to member.
Lists == [items : Seq(Entries), seen : SUBSET Names]
\* A list offers name for one of the symbols, or not at all, and knows it.
Settled(name, S) == {a \in Lists : Offers(a.items, name, S) /\ (name \in a.seen <=> S # {})}
\* What name resolves to when S is nearer than D.
Nearer(S, D) == IF S # {} THEN S ELSE D

\* More symbols to choose from do no harm.
LEMMA Widens ==
    ASSUME NEW name, NEW S, NEW T, S \subseteq T, S = {} => T = {}
    PROVE  Settled(name, S) \subseteq Settled(name, T)
BY DEF Settled, Offers

\* Two scopes that are searched in turn settle at least what one with both would.
LEMMA Nearers ==
    ASSUME NEW name, NEW S, NEW D, NEW E
    PROVE  Settled(name, Nearer(Nearer(S, D), E)) \subseteq Settled(name, Nearer(S, D \cup E))
BY Widens DEF Nearer

\* What the assumptions say of a symbol.
LEMMA SymbolFacts ==
    ASSUME NEW s \in Symbols
    PROVE  s.name \in Names /\ s.located \in BOOLEAN /\ s # None
BY CompletionsAssumption DEF IsSymbol

\* The item of a symbol is one for that symbol.
LEMMA SymbolItems ==
    ASSUME NEW s \in Symbols, NEW labelOnly \in BOOLEAN, NEW defer \in BOOLEAN
    PROVE  /\ getCompletion(s, labelOnly, defer) \in Entries
           /\ ItemFor(getCompletion(s, labelOnly, defer), s)
           /\ getCompletion(s, labelOnly, defer).label = s.name
<1>1. toCompletionItemKind(s) \in ItemKinds BY DEF toCompletionItemKind, ItemKinds
<1>2. s.name \in ItemLabels /\ s.located \in BOOLEAN BY SymbolFacts DEF ItemLabels
<1>3. [symbol |-> s, labelOnly |-> labelOnly] # None BY CompletionsAssumption
<1> HIDE DEF toCompletionItemKind
<1> QED BY <1>1, <1>2, <1>3 DEF getCompletion, Item, Inserting, Entries, ItemFor

\* An item with another label changes nothing for the name.
LEMMA AppendsOther ==
    ASSUME NEW name, NEW S, NEW a \in Settled(name, S), NEW item \in Entries, item.label # name,
           NEW other \in Names, other # name
    PROVE  [items |-> Append(a.items, item), seen |-> a.seen \cup {other}] \in Settled(name, S)
<1> DEFINE items == Append(a.items, item)
           n == Len(a.items)
<1>1. a \in Lists /\ Offers(a.items, name, S) /\ (name \in a.seen <=> S # {}) BY DEF Settled
<1>2. a.items \in Seq(Entries) /\ a.seen \in SUBSET Names BY <1>1 DEF Lists
<1>3. items \in Seq(Entries) /\ DOMAIN a.items = 1..n /\ DOMAIN items = 1..(n + 1) /\ n \in Nat BY <1>2
<1>4. \A i \in 1..n : items[i] = a.items[i] BY <1>2
<1>5. items[n + 1].label # name BY <1>2
<1>6. ASSUME NEW i \in DOMAIN items, items[i].label = name PROVE i \in 1..n
    BY <1>3, <1>5, <1>6
<1> HIDE DEF items, n
<1>7. Offers(items, name, S) BY <1>1, <1>3, <1>4, <1>6 DEF Offers
<1>8. name \in a.seen \cup {other} <=> S # {} BY <1>1
<1> QED BY <1>2, <1>3, <1>7, <1>8 DEF Settled, Lists, items

\* The first item with the name settles it.
LEMMA AppendsFirst ==
    ASSUME NEW name \in Names, NEW a \in Settled(name, {}), NEW item \in Entries,
           NEW s \in Symbols, ItemFor(item, s), s.name = name
    PROVE  [items |-> Append(a.items, item), seen |-> a.seen \cup {name}] \in Settled(name, {s})
<1> DEFINE items == Append(a.items, item)
           n == Len(a.items)
<1>1. a \in Lists /\ Offers(a.items, name, {}) BY DEF Settled
<1>2. a.items \in Seq(Entries) /\ a.seen \in SUBSET Names BY <1>1 DEF Lists
<1>3. items \in Seq(Entries) /\ DOMAIN a.items = 1..n /\ DOMAIN items = 1..(n + 1) /\ n \in Nat BY <1>2
<1>4. \A i \in 1..n : items[i] = a.items[i] BY <1>2
<1>5. items[n + 1] = item BY <1>2
<1>6. item.label = name BY DEF ItemFor
<1>7. \A i \in 1..n : a.items[i].label # name BY <1>1, <1>3 DEF Offers
<1> HIDE DEF items, n
<1>8. \A i \in DOMAIN items : items[i].label = name => i = n + 1
    <2>1. ASSUME NEW i \in DOMAIN items, items[i].label = name PROVE i = n + 1
        BY <1>3, <1>4, <1>7, <2>1
    <2> QED BY <2>1
<1>9. n + 1 \in DOMAIN items BY <1>3
<1>10. Offers(items, name, {s}) BY <1>5, <1>6, <1>8, <1>9 DEF Offers
<1> QED BY <1>2, <1>3, <1>10 DEF Settled, Lists, items

-----------------------------------------------------------------------------
(* The members of a scope.                                                 *)

Packaged(program) == \A p \in DOMAIN program.packages : program.packages[p] \in Seq(Symbols)
\* What may be asked of a program.
Asks == [cursor : Nat, program : {doc.program : doc \in Docs}, context : {"Unknown", "ModuleMember", "Expression",
         "Procedural", "PortList", "Declaration"}, labelOnly : BOOLEAN, defer : BOOLEAN]

\* What an import by name stands for is a symbol with that name.
LEMMA Unwraps ==
    ASSUME NEW program, Packaged(program), NEW m \in Symbols, Unwrapped(m, program) # None
    PROVE  Unwrapped(m, program) \in Symbols /\ Unwrapped(m, program).name = m.name
<1> DEFINE exported == IF m.from \in DOMAIN program.packages THEN program.packages[m.from] ELSE <<>>
           imported == {i \in DOMAIN exported : exported[i].name = m.name}
<1>1. CASE m.kind # "import"
    <2>1. Unwrapped(m, program) = m BY <1>1 DEF Unwrapped
    <2> QED BY <2>1
<1>2. CASE m.kind = "import"
    <2>1. exported \in Seq(Symbols) BY DEF Packaged
    <2>2. imported # {} /\ Unwrapped(m, program) = exported[Min(imported)]
        BY <1>2 DEF Unwrapped
    <2>3. imported \in SUBSET (1..Len(exported)) /\ Len(exported) \in Nat BY <2>1
    <2>4. Min(imported) \in imported
        <3> HIDE DEF imported
        <3> QED BY <2>2, <2>3, FirstPosition
    <2>5. Min(imported) \in DOMAIN exported /\ exported[Min(imported)].name = m.name BY <2>4
    <2>6. exported[Min(imported)] \in Symbols
        <3> HIDE DEF exported, imported
        <3> QED BY <2>1, <2>5
    <2> QED BY <2>2, <2>5, <2>6
<1> QED BY <1>1, <1>2

\* A member is offered if it is the first that name may stand for.
LEMMA Pushes ==
    ASSUME NEW ask \in Asks, Packaged(ask.program), NEW m \in Symbols, NEW scope,
           NEW name \in Names, NEW S, NEW a \in Settled(name, S)
    PROVE  pushCompletion(a, m, scope, ask)
               \in Settled(name, Nearer(S, Declared({m}, scope.kind, name, ask)))
<1> DEFINE D == Declared({m}, scope.kind, name, ask)
           symbol == Unwrapped(m, ask.program)
           late == m.kind # "import" /\ declaredAfterCursor(symbol, scope, ask)
           portValue == m.kind = "value" /\ a.items # <<>> /\ Last(a.items).label = m.name
           item == getCompletion(symbol, ask.labelOnly, ask.defer)
           pushed == [items |-> Append(a.items, item), seen |-> a.seen \cup {symbol.name}]
           left == ~Fits(m, ask.context) \/ portValue \/ symbol = None \/ late \/ symbol.name \in a.seen
<1>1. pushCompletion(a, m, scope, ask) = IF left THEN a ELSE pushed
    BY DEF pushCompletion
<1>2. a \in Lists /\ Offers(a.items, name, S) /\ (name \in a.seen <=> S # {}) BY DEF Settled
<1>3. a.items \in Seq(Entries) BY <1>2 DEF Lists
<1>4. symbol # None => symbol \in Symbols /\ symbol.name = m.name BY Unwraps
<1>5. m.name \in Names /\ m.located \in BOOLEAN /\ m.at \in Nat BY CompletionsAssumption DEF IsSymbol
<1>6. ask.cursor \in Nat BY DEF Asks
<1>7. late <=> /\ m.kind # "import" /\ m.located /\ m.at > ask.cursor
               /\ scope.kind \notin {"body", "unit", "package"}
    <2>1. m.kind # "import" => symbol = m BY DEF Unwrapped
    <2> QED BY <2>1 DEF declaredAfterCursor
<1>8. D = IF m.name = name /\ Fits(m, ask.context) /\ ~late /\ symbol # None THEN {symbol} ELSE {}
    <2> HIDE DEF late, symbol
    <2>1. ~late <=> \/ scope.kind \in {"body", "unit", "package"} \/ m.kind = "import" \/ ~m.located
                    \/ m.at <= ask.cursor
        BY <1>5, <1>6, <1>7
    <2> QED BY <2>1 DEF Declared, symbol
<1> HIDE DEF late, symbol, D
<1>9. CASE left
    <2>1. SUFFICES ASSUME S = {}, D # {} PROVE FALSE
        BY <1>1, <1>9 DEF Nearer, D
    <2>2. m.name = name /\ Fits(m, ask.context) /\ ~late /\ symbol # None BY <1>8, <2>1
    <2>3. symbol.name \notin a.seen BY <1>2, <1>4, <2>1, <2>2
    <2>4. ~portValue
        <3>1. SUFFICES ASSUME a.items # <<>>, Last(a.items).label = name PROVE FALSE BY <2>2
        <3>2. Len(a.items) \in DOMAIN a.items /\ Last(a.items) = a.items[Len(a.items)]
            BY <1>3, <3>1 DEF Last
        <3> QED BY <1>2, <2>1, <3>1, <3>2 DEF Offers
    <2> QED BY <1>9, <2>2, <2>3, <2>4
<1>10. CASE ~left
    <2>1. symbol \in Symbols /\ symbol.name = m.name /\ symbol.name \notin a.seen BY <1>4, <1>10
    <2>2. item \in Entries /\ ItemFor(item, symbol) /\ item.label = symbol.name
        <3>1. ask.labelOnly \in BOOLEAN /\ ask.defer \in BOOLEAN BY DEF Asks
        <3> QED BY <2>1, <3>1, SymbolItems
    <2> HIDE DEF item
    <2>3. CASE m.name # name
        <3>1. D = {} BY <1>8, <2>3
        <3>2. pushed \in Settled(name, S) BY <1>5, <2>1, <2>2, <2>3, AppendsOther
        <3> HIDE DEF left, pushed
        <3> QED BY <1>1, <1>10, <3>1, <3>2 DEF Nearer, D
    <2>4. CASE m.name = name
        <3>1. S = {} BY <1>2, <2>1, <2>4
        <3>2. D = {symbol} BY <1>8, <1>10, <2>4
        <3>3. pushed \in Settled(name, {symbol}) BY <2>1, <2>2, <2>4, <3>1, AppendsFirst
        <3> HIDE DEF left, pushed
        <3> QED BY <1>1, <1>10, <3>1, <3>2, <3>3 DEF Nearer, D
    <2> QED BY <2>3, <2>4
<1> QED BY <1>9, <1>10

\* Lists that some fold may have reached.
Offering(name) == UNION {Settled(name, T) : T \in SUBSET Symbols}

\* What a name declares are symbols.
LEMMA DeclaredSymbols ==
    ASSUME NEW ask, Packaged(ask.program), NEW ms \in SUBSET Symbols, NEW kind, NEW name
    PROVE  Declared(ms, kind, name, ask) \in SUBSET Symbols
BY Unwraps DEF Declared

\* The declarations in two sets of members are those in their union.
LEMMA DeclaredUnion ==
    ASSUME NEW ask, NEW ms, NEW ns, NEW kind, NEW name
    PROVE  Declared(ms \cup ns, kind, name, ask) = Declared(ms, kind, name, ask) \cup Declared(ns, kind, name, ask)
BY DEF Declared

\* Both choices of Nearer are sets of symbols.
LEMMA NearerSymbols ==
    ASSUME NEW S \in SUBSET Symbols, NEW D \in SUBSET Symbols
    PROVE  Nearer(S, D) \in SUBSET Symbols
BY DEF Nearer

\* The members that AddMembers does not leave out.
Kept(ms, from) == {m \in ms : ~(m.kind = "scope" /\ m.name = from)}

\* A scope settles the name for what its members declare, unless a nearer one has.
LEMMA Members ==
    ASSUME NEW ask \in Asks, Packaged(ask.program), NEW scope, scope.members \in Seq(Symbols), NEW from,
           NEW name \in Names, NEW S \in SUBSET Symbols, NEW a \in Settled(name, S)
    PROVE  AddMembers(a, scope, from, ask)
               \in Settled(name, Nearer(S, Declared(Kept(ToSet(scope.members), from), scope.kind, name, ask)))
<1> DEFINE ms == scope.members
           N == Len(ms)
           A == Offering(name)
           Step(x, m) == IF m.kind = "scope" /\ m.name = from THEN x ELSE pushCompletion(x, m, scope, ask)
           Def(f) == [s \in SUBSET DOMAIN ms |-> IF s = {} THEN a ELSE Step(f[s \ {Max(s)}], ms[Max(s)])]
           iter == CHOOSE f : f = Def(f)
           step == [n \in 1..N |-> [x \in A |-> Step(x, ms[n])]]
           Visible(k) == Declared(Kept({ms[i] : i \in 1..k}, from), scope.kind, name, ask)
           B == [k \in Nat |-> Settled(name, Nearer(S, Visible(k)))]
<1>1. AddMembers(a, scope, from, ask) = iter[DOMAIN ms]
    BY DEF AddMembers, FoldLeft, MapThenFoldSet
<1>2. N \in Nat /\ DOMAIN ms = 1..N OBVIOUS
<1>3. \A i \in 1..N : ms[i] \in Symbols BY <1>2
<1>4. ASSUME NEW n \in 1..N, NEW T \in SUBSET Symbols, NEW x \in Settled(name, T)
      PROVE  Step(x, ms[n]) \in Settled(name, Nearer(T, Declared(Kept({ms[n]}, from), scope.kind, name, ask)))
    <2>1. CASE ms[n].kind = "scope" /\ ms[n].name = from
        <3>1. Kept({ms[n]}, from) = {} BY <2>1 DEF Kept
        <3>2. Declared({}, scope.kind, name, ask) = {} BY DEF Declared
        <3> QED BY <2>1, <3>1, <3>2 DEF Nearer
    <2>2. CASE ~(ms[n].kind = "scope" /\ ms[n].name = from)
        <3>1. Kept({ms[n]}, from) = {ms[n]} BY <2>2 DEF Kept
        <3> QED BY <1>3, <2>2, <3>1, Pushes
    <2> QED BY <2>1, <2>2
<1>5. ASSUME NEW n \in 1..N, NEW x \in A PROVE Step(x, ms[n]) \in A
    <2>1. PICK T \in SUBSET Symbols : x \in Settled(name, T) BY DEF Offering
    <2>2. Declared(Kept({ms[n]}, from), scope.kind, name, ask) \in SUBSET Symbols
        BY <1>3, DeclaredSymbols DEF Kept
    <2> HIDE DEF Step
    <2> QED BY <1>4, <2>1, <2>2, NearerSymbols DEF Offering
<1> HIDE DEF Step, A, N
<1>6. a \in A BY DEF A, Offering
<1>7. step \in [1..N -> [A -> A]] BY <1>5
<1>8. \A s \in SUBSET (1..N) : s # {} => Max(s) \in 1..N
    <2>1. ASSUME NEW s \in SUBSET (1..N), s # {} PROVE Max(s) \in s
        BY <1>2, <2>1, LastPosition
    <2> QED BY <2>1
<1> HIDE DEF ms
<1>9. PICK f : f \in FoldsOver(N, A, a, step)
    <2> HIDE DEF step
    <2>1. N \in Nat BY <1>2
    <2>2. FoldsOver(N, A, a, step) # {} BY <2>1, <1>6, <1>7, FoldExists
    <2> QED BY <2>2
<1>10. f = Def(f)
    <2>1. f \in [SUBSET (1..N) -> A] /\ f[{}] = a BY <1>9 DEF FoldsOver
    <2>2. ASSUME NEW s \in SUBSET (1..N), s # {} PROVE f[s] = Step(f[s \ {Max(s)}], ms[Max(s)])
        <3>1. f[s] = step[Max(s)][f[s \ {Max(s)}]]
            <4> HIDE DEF step
            <4> QED BY <1>9, <2>2 DEF FoldsOver
        <3>2. f[s \ {Max(s)}] \in A BY <2>1
        <3> QED BY <1>8, <2>2, <3>1, <3>2
    <2>3. f = [s \in SUBSET (1..N) |-> f[s]] BY <2>1
    <2>4. \A s \in SUBSET (1..N) : f[s] = IF s = {} THEN a ELSE Step(f[s \ {Max(s)}], ms[Max(s)])
        BY <2>1, <2>2
    <2> QED BY <1>2, <2>3, <2>4
<1>11. iter = Def(iter)
    <2> HIDE DEF Def
    <2> QED BY <1>10
<1> HIDE DEF iter
<1>12. iter[{}] = a BY <1>2, <1>11
<1>13. ASSUME NEW s \in SUBSET (1..N), s # {}, iter[s \ {Max(s)}] \in A
       PROVE  iter[s] = step[Max(s)][iter[s \ {Max(s)}]]
    <2>1. iter[s] = Step(iter[s \ {Max(s)}], ms[Max(s)])
        <3>1. iter[s] = Def(iter)[s]
            <4> HIDE DEF Def
            <4> QED BY <1>11
        <3> QED BY <1>2, <1>13, <3>1
    <2> QED BY <1>8, <1>13, <2>1
<1>14. a \in B[0]
    <2>1. {ms[i] : i \in 1..0} = {} OBVIOUS
    <2>2. Visible(0) = {} BY <2>1 DEF Declared, Kept
    <2>3. Nearer(S, {}) = S BY DEF Nearer
    <2> HIDE DEF Visible
    <2> QED BY <2>2, <2>3
<1>15. ASSUME NEW k \in Nat, NEW x \in A, k < N, x \in B[k] PROVE step[k + 1][x] \in B[k + 1]
    <2> DEFINE new == Declared(Kept({ms[k + 1]}, from), scope.kind, name, ask)
    <2>1. k + 1 \in 1..N BY <1>2, <1>15
    <2>2. {ms[i] : i \in 1..(k + 1)} = {ms[i] : i \in 1..k} \cup {ms[k + 1]} OBVIOUS
    <2>3. \A p, q : Kept(p \cup q, from) = Kept(p, from) \cup Kept(q, from) BY DEF Kept
    <2>4. Visible(k + 1) = Visible(k) \cup new BY <2>2, <2>3, DeclaredUnion, SMTT(40)
    <2>5. Visible(k) \in SUBSET Symbols
        <3>1. Kept({ms[i] : i \in 1..k}, from) \in SUBSET Symbols
            BY <1>2, <1>3, <1>15 DEF Kept
        <3> QED BY <3>1, DeclaredSymbols
    <2> HIDE DEF Visible, new
    <2>6. Nearer(S, Visible(k)) \in SUBSET Symbols BY <2>5, NearerSymbols
    <2>7. x \in Settled(name, Nearer(S, Visible(k))) BY <1>15
    <2>8. Step(x, ms[k + 1]) \in Settled(name, Nearer(Nearer(S, Visible(k)), new))
        BY <1>4, <2>1, <2>6, <2>7 DEF new
    <2>9. Step(x, ms[k + 1]) \in Settled(name, Nearer(S, Visible(k + 1))) BY <2>4, <2>8, Nearers
    <2> QED BY <2>1, <2>9
<1>16. iter[1..N] \in B[N]
    <2> HIDE DEF Def, B, step
    <2>1. N \in Nat BY <1>2
    <2>2. \A k \in Nat : \A x \in A : k < N /\ x \in B[k] => step[k + 1][x] \in B[k + 1] BY <1>15
    <2>3. \A s \in SUBSET (1..N) : s # {} /\ iter[s \ {Max(s)}] \in A
                                   => iter[s] = step[Max(s)][iter[s \ {Max(s)}]]
        BY <1>13
    <2>4. Folding(N, A, a, step, B, iter)
        BY <2>1, <2>2, <2>3, <1>6, <1>7, <1>12, <1>14 DEF Folding
    <2> QED BY <2>4, FoldLeads
<1>17. {ms[i] : i \in 1..N} = ToSet(ms) BY <1>2 DEF ToSet
<1> QED BY <1>1, <1>2, <1>16, <1>17 DEF ms

-----------------------------------------------------------------------------
(* The imports of a scope.                                                 *)

\* Ranks change nothing else.
LEMMA RanksOnly ==
    ASSUME NEW items \in Seq(Entries), NEW first \in Nat, NEW rank \in {"Scope", "Imported"}
    PROVE  /\ rankUnrankedCompletions(items, first, rank) \in Seq(Entries)
           /\ DOMAIN rankUnrankedCompletions(items, first, rank) = DOMAIN items
           /\ \A i \in DOMAIN items :
                 /\ rankUnrankedCompletions(items, first, rank)[i].label = items[i].label
                 /\ rankUnrankedCompletions(items, first, rank)[i].kind = items[i].kind
                 /\ rankUnrankedCompletions(items, first, rank)[i].data = items[i].data
<1> DEFINE ranked == rankUnrankedCompletions(items, first, rank)
           n == Len(items)
<1>1. n \in Nat /\ DOMAIN items = 1..n /\ \A i \in 1..n : items[i] \in Entries OBVIOUS
<1>2. ranked = [i \in 1..n |-> IF i >= first /\ items[i].rank = None
                               THEN [items[i] EXCEPT !.rank = rank] ELSE items[i]]
    BY <1>1 DEF rankUnrankedCompletions
<1>3. ASSUME NEW e \in Entries
      PROVE  /\ [e EXCEPT !.rank = rank] \in Entries
             /\ [e EXCEPT !.rank = rank].label = e.label
             /\ [e EXCEPT !.rank = rank].kind = e.kind
             /\ [e EXCEPT !.rank = rank].data = e.data
    BY DEF Entries
<1> HIDE DEF ranked, n
<1>4. ASSUME NEW i \in 1..n
      PROVE  /\ ranked[i] \in Entries /\ ranked[i].label = items[i].label
             /\ ranked[i].kind = items[i].kind /\ ranked[i].data = items[i].data
    <2>1. ranked[i] = items[i] \/ ranked[i] = [items[i] EXCEPT !.rank = rank] BY <1>2
    <2>2. items[i] \in Entries BY <1>1
    <2> QED BY <2>1, <2>2, <1>3
<1>5. ranked \in Seq(Entries)
    <2>1. ranked \in [1..n -> Entries] BY <1>2, <1>4
    <2> QED BY <2>1, <1>1
<1>6. DOMAIN ranked = 1..n BY <1>2
<1> QED BY <1>1, <1>4, <1>5, <1>6 DEF ranked

\* What is offered depends on the labels, the kinds and the data of the items.
LEMMA OffersKept ==
    ASSUME NEW items, NEW others, DOMAIN others = DOMAIN items,
           \A i \in DOMAIN items :
               others[i].label = items[i].label /\ others[i].kind = items[i].kind /\ others[i].data = items[i].data,
           NEW name, NEW S, Offers(items, name, S)
    PROVE  Offers(others, name, S)
<1>1. \A i \in DOMAIN items, s \in S : ItemFor(items[i], s) => ItemFor(others[i], s)
    BY DEF ItemFor
<1> QED BY <1>1 DEF Offers

\* So ranking a list leaves what it settles.
LEMMA RanksSettled ==
    ASSUME NEW name, NEW S, NEW a \in Settled(name, S), NEW first \in Nat, NEW rank \in {"Scope", "Imported"}
    PROVE  [a EXCEPT !.items = rankUnrankedCompletions(a.items, first, rank)] \in Settled(name, S)
<1>1. a \in Lists /\ Offers(a.items, name, S) /\ (name \in a.seen <=> S # {}) BY DEF Settled
<1>2. a.items \in Seq(Entries) /\ a.seen \in SUBSET Names BY <1>1 DEF Lists
<1> DEFINE ranked == rankUnrankedCompletions(a.items, first, rank)
<1>3. Offers(ranked, name, S) /\ ranked \in Seq(Entries)
    <2>1. /\ ranked \in Seq(Entries) /\ DOMAIN ranked = DOMAIN a.items
          /\ \A i \in DOMAIN a.items :
                ranked[i].label = a.items[i].label /\ ranked[i].kind = a.items[i].kind
                /\ ranked[i].data = a.items[i].data
        BY <1>2, RanksOnly, ZenonT(40)
    <2> HIDE DEF ranked
    <2> QED BY <1>1, <2>1, OffersKept
<1>4. [a EXCEPT !.items = ranked] = [items |-> ranked, seen |-> a.seen] BY <1>1 DEF Lists
<1> HIDE DEF ranked
<1>5. [items |-> ranked, seen |-> a.seen] \in Settled(name, S)
    BY <1>1, <1>2, <1>3 DEF Settled, Lists
<1> QED BY <1>4, <1>5 DEF ranked

\* What a package declares.
Exports(p, name, ask) == Declared(ToSet(ask.program.packages[p]), "package", name, ask)

\* A wildcard import settles the name for what the package declares, unless it is settled.
LEMMA ImportsOne ==
    ASSUME NEW ask \in Asks, IsProgram(ask.program), NEW p \in DOMAIN ask.program.packages,
           NEW name \in Names, NEW S \in SUBSET Symbols, NEW a \in Settled(name, S)
    PROVE  /\ AddImport(a, p, ask) \in Settled(name, Nearer(S, Exports(p, name, ask)))
           /\ Exports(p, name, ask) \in SUBSET Symbols
<1> DEFINE ms == ask.program.packages[p]
           scope == PackageScope(p, ask.program)
           added == AddMembers(a, scope, None, ask)
           first == Len(a.items) + 1
           once == rankUnrankedCompletions(added.items, first, "Scope")
           T == Nearer(S, Exports(p, name, ask))
<1>1. Packaged(ask.program) /\ ms \in Seq(Symbols) BY DEF IsProgram, Packaged
<1>2. scope.members = ms /\ scope.kind = "package" BY DEF PackageScope
<1>3. ToSet(ms) \in SUBSET Symbols BY <1>1 DEF ToSet
<1>4. Kept(ToSet(ms), None) = ToSet(ms)
    <2>1. \A m \in ToSet(ms) : m.name \in Names /\ m.name # None
        BY <1>3, SymbolFacts, CompletionsAssumption
    <2> QED BY <2>1 DEF Kept
<1> HIDE DEF ms, scope
<1>5. added \in Settled(name, T)
    BY <1>1, <1>2, <1>3, <1>4, Members DEF Exports, ms
<1>6. Exports(p, name, ask) \in SUBSET Symbols BY <1>1, <1>3, DeclaredSymbols DEF Exports, ms
<1>7. first \in Nat
    <2>1. a.items \in Seq(Entries) BY DEF Settled, Lists
    <2> QED BY <2>1
<1> HIDE DEF T, first
<1>8. added \in Lists BY <1>5 DEF Settled
<1> HIDE DEF added
<1>9. [added EXCEPT !.items = once] \in Settled(name, T) BY <1>5, <1>7, RanksSettled
<1>10. added.items \in Seq(Entries) /\ added = [items |-> added.items, seen |-> added.seen] BY <1>8 DEF Lists
<1>11. [added EXCEPT !.items = once].items = once BY <1>10
<1> HIDE DEF once
<1> DEFINE mid == [added EXCEPT !.items = once]
           twice == rankUnrankedCompletions(once, first, "Imported")
<1>12. [mid EXCEPT !.items = rankUnrankedCompletions(mid.items, first, "Imported")] \in Settled(name, T)
    BY <1>7, <1>9, RanksSettled
<1>13. [mid EXCEPT !.items = rankUnrankedCompletions(mid.items, first, "Imported")]
            = [added EXCEPT !.items = twice]
    BY <1>10, <1>11
<1>14. AddImport(a, p, ask) = [added EXCEPT !.items = twice]
    BY DEF AddImport, added, scope, first, once
<1> QED BY <1>6, <1>12, <1>13, <1>14 DEF T

\* And all the imports of a scope, for what any of their packages declares.
LEMMA ImportsAll ==
    ASSUME NEW ask \in Asks, IsProgram(ask.program), NEW scope, scope.imports \in Seq(Names),
           NEW name \in Names, NEW S \in SUBSET Symbols, NEW a \in Settled(name, S)
    PROVE  LET D == UNION {Exports(p, name, ask) : p \in ToSet(scope.imports) \cap DOMAIN ask.program.packages}
           IN AddImports(a, scope, ask) \in Settled(name, Nearer(S, D)) /\ D \in SUBSET Symbols
<1> DEFINE ms == scope.imports
           N == Len(ms)
           A == Offering(name)
           Step(x, p) == IF p \in DOMAIN ask.program.packages THEN AddImport(x, p, ask) ELSE x
           Def(f) == [s \in SUBSET DOMAIN ms |-> IF s = {} THEN a ELSE Step(f[s \ {Max(s)}], ms[Max(s)])]
           iter == CHOOSE f : f = Def(f)
           step == [n \in 1..N |-> [x \in A |-> Step(x, ms[n])]]
           New(ps) == UNION {Exports(p, name, ask) : p \in ps \cap DOMAIN ask.program.packages}
           B == [k \in Nat |-> Settled(name, Nearer(S, New({ms[i] : i \in 1..k})))]
<1>1. AddImports(a, scope, ask) = iter[DOMAIN ms]
    BY DEF AddImports, FoldLeft, MapThenFoldSet
<1>2. N \in Nat /\ DOMAIN ms = 1..N OBVIOUS
<1>3. \A ps : New(ps) \in SUBSET Symbols BY ImportsOne
<1>4. ASSUME NEW p, NEW T \in SUBSET Symbols, NEW x \in Settled(name, T)
      PROVE  Step(x, p) \in Settled(name, Nearer(T, New({p})))
    <2>1. CASE p \in DOMAIN ask.program.packages
        <3>1. New({p}) = Exports(p, name, ask) BY <2>1
        <3> HIDE DEF New
        <3> QED BY <2>1, <3>1, ImportsOne
    <2>2. CASE p \notin DOMAIN ask.program.packages
        <3>1. New({p}) = {} BY <2>2
        <3> HIDE DEF New
        <3> QED BY <2>2, <3>1 DEF Nearer
    <2> QED BY <2>1, <2>2
<1>5. ASSUME NEW n \in 1..N, NEW x \in A PROVE Step(x, ms[n]) \in A
    <2>1. PICK T \in SUBSET Symbols : x \in Settled(name, T) BY DEF Offering
    <2> HIDE DEF Step, New
    <2>2. New({ms[n]}) \in SUBSET Symbols BY <1>3
    <2> QED BY <1>4, <2>1, <2>2, NearerSymbols DEF Offering
<1> HIDE DEF Step, A, N, New
<1>6. a \in A BY DEF A, Offering
<1>7. step \in [1..N -> [A -> A]] BY <1>5
<1>8. \A s \in SUBSET (1..N) : s # {} => Max(s) \in 1..N
    <2>1. ASSUME NEW s \in SUBSET (1..N), s # {} PROVE Max(s) \in s
        BY <1>2, <2>1, LastPosition
    <2> QED BY <2>1
<1> HIDE DEF ms
<1>9. PICK f : f \in FoldsOver(N, A, a, step)
    <2> HIDE DEF step
    <2>1. N \in Nat BY <1>2
    <2>2. FoldsOver(N, A, a, step) # {} BY <2>1, <1>6, <1>7, FoldExists
    <2> QED BY <2>2
<1>10. f = Def(f)
    <2>1. f \in [SUBSET (1..N) -> A] /\ f[{}] = a BY <1>9 DEF FoldsOver
    <2>2. ASSUME NEW s \in SUBSET (1..N), s # {} PROVE f[s] = Step(f[s \ {Max(s)}], ms[Max(s)])
        <3>1. f[s] = step[Max(s)][f[s \ {Max(s)}]]
            <4> HIDE DEF step
            <4> QED BY <1>9, <2>2 DEF FoldsOver
        <3>2. f[s \ {Max(s)}] \in A BY <2>1
        <3> QED BY <1>8, <2>2, <3>1, <3>2
    <2>3. f = [s \in SUBSET (1..N) |-> f[s]] BY <2>1
    <2>4. \A s \in SUBSET (1..N) : f[s] = IF s = {} THEN a ELSE Step(f[s \ {Max(s)}], ms[Max(s)])
        BY <2>1, <2>2
    <2> QED BY <1>2, <2>3, <2>4
<1>11. iter = Def(iter)
    <2> HIDE DEF Def
    <2> QED BY <1>10
<1> HIDE DEF iter
<1>12. iter[{}] = a BY <1>2, <1>11
<1>13. ASSUME NEW s \in SUBSET (1..N), s # {}, iter[s \ {Max(s)}] \in A
       PROVE  iter[s] = step[Max(s)][iter[s \ {Max(s)}]]
    <2>1. iter[s] = Step(iter[s \ {Max(s)}], ms[Max(s)])
        <3>1. iter[s] = Def(iter)[s]
            <4> HIDE DEF Def
            <4> QED BY <1>11
        <3> QED BY <1>2, <1>13, <3>1
    <2> QED BY <1>8, <1>13, <2>1
<1>14. a \in B[0]
    <2>1. {ms[i] : i \in 1..0} = {} OBVIOUS
    <2>2. New({}) = {} BY DEF New
    <2>3. Nearer(S, {}) = S BY DEF Nearer
    <2> QED BY <2>1, <2>2, <2>3
<1>15. ASSUME NEW k \in Nat, NEW x \in A, k < N, x \in B[k] PROVE step[k + 1][x] \in B[k + 1]
    <2> DEFINE old == New({ms[i] : i \in 1..k})
    <2>1. k + 1 \in 1..N BY <1>2, <1>15
    <2>2. {ms[i] : i \in 1..(k + 1)} = {ms[i] : i \in 1..k} \cup {ms[k + 1]} OBVIOUS
    <2>3. New({ms[i] : i \in 1..(k + 1)}) = old \cup New({ms[k + 1]}) BY <2>2 DEF New
    <2>4. old \in SUBSET Symbols BY <1>3
    <2>5. x \in Settled(name, Nearer(S, old)) BY <1>15
    <2> HIDE DEF old
    <2>6. Nearer(S, old) \in SUBSET Symbols BY <2>4, NearerSymbols
    <2>7. Step(x, ms[k + 1]) \in Settled(name, Nearer(Nearer(S, old), New({ms[k + 1]})))
        BY <1>4, <2>5, <2>6
    <2>8. Step(x, ms[k + 1]) \in Settled(name, Nearer(S, New({ms[i] : i \in 1..(k + 1)})))
        BY <2>3, <2>7, Nearers
    <2> QED BY <2>1, <2>8
<1>16. iter[1..N] \in B[N]
    <2> HIDE DEF Def, B, step
    <2>1. N \in Nat BY <1>2
    <2>2. \A k \in Nat : \A x \in A : k < N /\ x \in B[k] => step[k + 1][x] \in B[k + 1] BY <1>15
    <2>3. \A s \in SUBSET (1..N) : s # {} /\ iter[s \ {Max(s)}] \in A
                                   => iter[s] = step[Max(s)][iter[s \ {Max(s)}]]
        BY <1>13
    <2>4. Folding(N, A, a, step, B, iter)
        BY <2>1, <2>2, <2>3, <1>6, <1>7, <1>12, <1>14 DEF Folding
    <2> QED BY <2>4, FoldLeads
<1>17. {ms[i] : i \in 1..N} = ToSet(ms) BY <1>2 DEF ToSet
<1>18. AddImports(a, scope, ask) \in Settled(name, Nearer(S, New(ToSet(ms)))) /\ New(ToSet(ms)) \in SUBSET Symbols
    BY <1>1, <1>2, <1>3, <1>16, <1>17
<1> QED BY <1>18 DEF ms, New

-----------------------------------------------------------------------------
(* The scopes around the cursor.                                           *)

\* What is nearest of the first k scopes, if O[i] is declared in the i-th and I[i] imported.
NearIn(O, I, k) ==
    UNION {Nearer(O[i], I[i]) : i \in {j \in 1..k : \A l \in 1..(j - 1) : O[l] \cup I[l] = {}}}
\* None of the first k scopes makes the name visible.
Empty(O, I, k) == \A l \in 1..k : O[l] \cup I[l] = {}

\* One more scope counts only if none of those further in makes the name visible.
LEMMA NearStep ==
    ASSUME NEW O, NEW I, NEW k \in Nat, NearIn(O, I, k) = {} => Empty(O, I, k)
    PROVE  /\ NearIn(O, I, k + 1) = Nearer(NearIn(O, I, k), Nearer(O[k + 1], I[k + 1]))
           /\ NearIn(O, I, k + 1) = {} => Empty(O, I, k + 1)
<1> DEFINE inner(n) == {j \in 1..n : \A l \in 1..(j - 1) : O[l] \cup I[l] = {}}
           near == Nearer(O[k + 1], I[k + 1])
           Of(J) == UNION {Nearer(O[i], I[i]) : i \in J}
<1>1. \A n \in Nat : NearIn(O, I, n) = Of(inner(n)) BY DEF NearIn
<1> k + 1 \in Nat OBVIOUS
<1>2. \A i : Nearer(O[i], I[i]) = {} <=> O[i] \cup I[i] = {} BY DEF Nearer
<1>3. CASE NearIn(O, I, k) # {}
    <2>1. PICK i \in inner(k) : Nearer(O[i], I[i]) # {} BY <1>1, <1>3, SMTT(40)
    <2>2. O[i] \cup I[i] # {} /\ i \in 1..k BY <1>2, <2>1
    <2>3. inner(k + 1) = inner(k)
        <3>1. k + 1 \notin inner(k + 1) BY <2>2
        <3>2. \A j \in 1..(k + 1) : j \in 1..k \/ j = k + 1 OBVIOUS
        <3>3. \A j \in 1..k : j \in 1..(k + 1) OBVIOUS
        <3> QED BY <3>1, <3>2, <3>3
    <2>4. NearIn(O, I, k + 1) = NearIn(O, I, k)
        <3> HIDE DEF inner, Of
        <3> QED BY <1>1, <2>3
    <2> QED BY <1>3, <2>4 DEF Nearer
<1>4. CASE NearIn(O, I, k) = {}
    <2>1. \A l \in 1..k : O[l] \cup I[l] = {} BY <1>4 DEF Empty
    <2>2. inner(k + 1) = 1..(k + 1)
        <3>1. \A j \in 1..(k + 1) : \A l \in 1..(j - 1) : l \in 1..k OBVIOUS
        <3> QED BY <2>1, <3>1
    <2>3. \A i \in 1..(k + 1) : i = k + 1 \/ Nearer(O[i], I[i]) = {} BY <1>2, <2>1
    <2>4. NearIn(O, I, k + 1) = near
        <3> HIDE DEF inner
        <3>1. NearIn(O, I, k + 1) = Of(1..(k + 1))
            <4> HIDE DEF Of
            <4> QED BY <1>1, <2>2
        <3>2. k + 1 \in 1..(k + 1) OBVIOUS
        <3> QED BY <3>1, <3>2, <2>3, SMTT(40)
    <2>5. near = {} => Empty(O, I, k + 1)
        <3>1. \A l \in 1..(k + 1) : l = k + 1 \/ l \in 1..k OBVIOUS
        <3> QED BY <3>1, <1>2, <2>1 DEF Empty
    <2> HIDE DEF near
    <2>6. Nearer({}, near) = near BY DEF Nearer
    <2> QED BY <1>4, <2>4, <2>5, <2>6 DEF near
<1> QED BY <1>3, <1>4

\* The name of the scope that the search came from.
Before(scopes, i) == IF i = 1 THEN None ELSE scopes[i - 1].name

\* A scope settles the name for what it declares, or else for what it imports.
LEMMA ScopeSteps ==
    ASSUME NEW ask \in Asks, IsProgram(ask.program), NEW i \in DOMAIN ask.program.scopes,
           NEW name \in Names, NEW S \in SUBSET Symbols, NEW a \in Settled(name, S)
    PROVE  LET scopes == ask.program.scopes
               own == Own(scopes, i, name, ask)
               imported == Imported(scopes, i, name, ask)
           IN /\ own \in SUBSET Symbols /\ imported \in SUBSET Symbols
              /\ AddImports(AddMembers(a, scopes[i], Before(scopes, i), ask), scopes[i], ask)
                     \in Settled(name, Nearer(S, Nearer(own, imported)))
<1> DEFINE scopes == ask.program.scopes
           scope == scopes[i]
           from == Before(scopes, i)
           own == Own(scopes, i, name, ask)
           imported == Imported(scopes, i, name, ask)
           added == AddMembers(a, scope, from, ask)
<1>1. Packaged(ask.program) BY DEF IsProgram, Packaged
<1>2. scope.members \in Seq(Symbols) /\ scope.imports \in Seq(Names)
    <2> DEFINE R == [kind : ScopeKinds, name : Names, members : Seq(Symbols), imports : Seq(Names)]
    <2>1. scopes \in Seq(R) /\ i \in DOMAIN scopes BY DEF IsProgram
    <2>2. scope \in R
        <3> HIDE DEF scopes, R
        <3> QED BY <2>1
    <2> HIDE DEF scope
    <2> QED BY <2>2
<1>3. ToSet(scope.members) \in SUBSET Symbols BY <1>2 DEF ToSet
<1>4. own = Declared(Kept(ToSet(scope.members), from), scope.kind, name, ask)
    <2>1. i \in Nat \ {0} BY DEF IsProgram
    <2>2. \A m \in ToSet(scope.members) : m.name # None
        BY <1>3, SymbolFacts, CompletionsAssumption
    <2>3. Kept(ToSet(scope.members), from)
            = {m \in ToSet(scope.members) : ~(i > 1 /\ m.kind = "scope" /\ m.name = scopes[i - 1].name)}
        BY <2>1, <2>2 DEF Kept, Before
    <2> QED BY <2>3 DEF Own
<1>5. own \in SUBSET Symbols BY <1>1, <1>3, <1>4, DeclaredSymbols DEF Kept
<1>6. added \in Settled(name, Nearer(S, own))
    <2> HIDE DEF scope, from, own
    <2> QED BY <1>1, <1>2, <1>3, <1>4, Members
<1>7. Nearer(S, own) \in SUBSET Symbols BY <1>5, NearerSymbols
<1>8. imported = UNION {Exports(p, name, ask) : p \in ToSet(scope.imports) \cap DOMAIN ask.program.packages}
    BY DEF Imported, Exports
<1> HIDE DEF scope, own, imported, added
<1>9. /\ AddImports(added, scope, ask) \in Settled(name, Nearer(Nearer(S, own), imported))
      /\ imported \in SUBSET Symbols
    BY <1>2, <1>6, <1>7, <1>8, ImportsAll, ZenonT(40)
<1>10. Nearer(Nearer(S, own), imported) = Nearer(S, Nearer(own, imported)) BY DEF Nearer
<1> QED BY <1>5, <1>9, <1>10 DEF scope, own, imported, added

\* The list with which the search through the scopes starts.
BeforeScopes(items, ask, expected) ==
    addExpectedEnumCompletions(items \o IF ask.context = "ModuleMember" THEN addKeywordCompletions ELSE <<>>, expected)

\* The search outwards settles the name for what it resolves to.
LEMMA ScopesAll ==
    ASSUME NEW ask \in Asks, IsProgram(ask.program), NEW name \in Names,
           NEW items \in Seq(Entries), NEW expected, BeforeScopes(items, ask, expected) \in Settled(name, {})
    PROVE  /\ addCompletions(items, ask.program.scopes, ask, expected) \in Seq(Entries)
           /\ Offers(addCompletions(items, ask.program.scopes, ask, expected), name,
                     Nearest(ask.program.scopes, name, ask))
<1> DEFINE scopes == ask.program.scopes
           a == BeforeScopes(items, ask, expected)
           ms == [i \in DOMAIN scopes |-> i]
           N == Len(scopes)
           A == Offering(name)
           Step(x, i) == AddImports(AddMembers(x, scopes[i], Before(scopes, i), ask), scopes[i], ask)
           Def(f) == [s \in SUBSET DOMAIN ms |-> IF s = {} THEN a ELSE Step(f[s \ {Max(s)}], ms[Max(s)])]
           iter == CHOOSE f : f = Def(f)
           step == [n \in 1..N |-> [x \in A |-> Step(x, ms[n])]]
           O == [i \in 1..N |-> Own(scopes, i, name, ask)]
           I == [i \in 1..N |-> Imported(scopes, i, name, ask)]
           B == [k \in Nat |-> {x \in Settled(name, NearIn(O, I, k)) : NearIn(O, I, k) = {} => Empty(O, I, k)}]
<1>1. addCompletions(items, scopes, ask, expected)
          = rankUnrankedCompletions(iter[DOMAIN ms].items, Len(items) + 1, "Scope")
    BY DEF addCompletions, FoldLeft, MapThenFoldSet, BeforeScopes, Before
<1>0. scopes \in Seq([kind : ScopeKinds, name : Names, members : Seq(Symbols), imports : Seq(Names)])
    BY DEF IsProgram
<1> HIDE DEF scopes
<1>2. N \in Nat /\ DOMAIN ms = 1..N /\ DOMAIN scopes = 1..N /\ \A i \in 1..N : ms[i] = i
    BY <1>0
<1>3. \A i \in 1..N : O[i] \in SUBSET Symbols /\ I[i] \in SUBSET Symbols
    <2>1. ASSUME NEW i \in 1..N PROVE O[i] \in SUBSET Symbols /\ I[i] \in SUBSET Symbols
        <3>1. i \in DOMAIN ask.program.scopes BY <1>2 DEF scopes
        <3>2. a \in Settled(name, {}) /\ {} \in SUBSET Symbols OBVIOUS
        <3> HIDE DEF a
        <3>3. Own(scopes, i, name, ask) \in SUBSET Symbols /\ Imported(scopes, i, name, ask) \in SUBSET Symbols
            BY <3>1, <3>2, ScopeSteps DEF scopes
        <3> QED BY <3>3
    <2> QED BY <2>1
<1>4. ASSUME NEW n \in 1..N, NEW T \in SUBSET Symbols, NEW x \in Settled(name, T)
      PROVE  Step(x, ms[n]) \in Settled(name, Nearer(T, Nearer(O[n], I[n])))
    <2>1. n \in DOMAIN ask.program.scopes /\ ms[n] = n BY <1>2 DEF scopes
    <2>2. Step(x, n) \in Settled(name, Nearer(T, Nearer(Own(scopes, n, name, ask), Imported(scopes, n, name, ask))))
        BY <2>1, ScopeSteps DEF scopes
    <2> QED BY <2>1, <2>2
<1>5. ASSUME NEW n \in 1..N, NEW x \in A PROVE Step(x, ms[n]) \in A
    <2>1. PICK T \in SUBSET Symbols : x \in Settled(name, T) BY DEF Offering
    <2>2. O[n] \in SUBSET Symbols /\ I[n] \in SUBSET Symbols BY <1>3
    <2> HIDE DEF Step, ms, O, I
    <2>3. Nearer(T, Nearer(O[n], I[n])) \in SUBSET Symbols BY <2>2, NearerSymbols
    <2>4. Step(x, ms[n]) \in Settled(name, Nearer(T, Nearer(O[n], I[n]))) BY <1>4, <2>1
    <2> QED BY <2>3, <2>4 DEF Offering
<1> a \in Settled(name, {}) OBVIOUS
<1> HIDE DEF Step, A, N, O, I, a
<1>6. a \in A BY DEF A, Offering
<1>7. step \in [1..N -> [A -> A]] BY <1>5
<1>8. \A s \in SUBSET (1..N) : s # {} => Max(s) \in 1..N
    <2>1. ASSUME NEW s \in SUBSET (1..N), s # {} PROVE Max(s) \in s
        BY <1>2, <2>1, LastPosition
    <2> QED BY <2>1
<1> HIDE DEF ms
<1>9. PICK f : f \in FoldsOver(N, A, a, step)
    <2> HIDE DEF step
    <2>1. N \in Nat BY <1>2
    <2>2. FoldsOver(N, A, a, step) # {} BY <2>1, <1>6, <1>7, FoldExists
    <2> QED BY <2>2
<1>10. f = Def(f)
    <2>1. f \in [SUBSET (1..N) -> A] /\ f[{}] = a BY <1>9 DEF FoldsOver
    <2>2. ASSUME NEW s \in SUBSET (1..N), s # {} PROVE f[s] = Step(f[s \ {Max(s)}], ms[Max(s)])
        <3>1. f[s] = step[Max(s)][f[s \ {Max(s)}]]
            <4> HIDE DEF step
            <4> QED BY <1>9, <2>2 DEF FoldsOver
        <3>2. f[s \ {Max(s)}] \in A BY <2>1
        <3> QED BY <1>8, <2>2, <3>1, <3>2
    <2>3. f = [s \in SUBSET (1..N) |-> f[s]] BY <2>1
    <2>4. \A s \in SUBSET (1..N) : f[s] = IF s = {} THEN a ELSE Step(f[s \ {Max(s)}], ms[Max(s)])
        BY <2>1, <2>2
    <2> QED BY <1>2, <2>3, <2>4
<1>11. iter = Def(iter)
    <2> HIDE DEF Def
    <2> QED BY <1>10
<1> HIDE DEF iter
<1>12. iter[{}] = a BY <1>2, <1>11
<1>13. ASSUME NEW s \in SUBSET (1..N), s # {}, iter[s \ {Max(s)}] \in A
       PROVE  iter[s] = step[Max(s)][iter[s \ {Max(s)}]]
    <2>1. iter[s] = Step(iter[s \ {Max(s)}], ms[Max(s)])
        <3>1. iter[s] = Def(iter)[s]
            <4> HIDE DEF Def
            <4> QED BY <1>11
        <3> QED BY <1>2, <1>13, <3>1
    <2> QED BY <1>8, <1>13, <2>1
<1>14. a \in B[0]
    <2>1. NearIn(O, I, 0) = {}
        <3>1. 1..0 = {} OBVIOUS
        <3> QED BY <3>1 DEF NearIn
    <2>2. Empty(O, I, 0) BY DEF Empty
    <2>3. a \in Settled(name, {}) BY DEF a
    <2> QED BY <2>1, <2>2, <2>3
<1>15. ASSUME NEW k \in Nat, NEW x \in A, k < N, x \in B[k] PROVE step[k + 1][x] \in B[k + 1]
    <2> DEFINE T == NearIn(O, I, k)
    <2>1. k + 1 \in 1..N BY <1>2, <1>15
    <2>2. x \in Settled(name, T) /\ (T = {} => Empty(O, I, k)) BY <1>15
    <2>3. T \in SUBSET Symbols
        <3>1. ASSUME NEW i \in 1..k PROVE Nearer(O[i], I[i]) \in SUBSET Symbols
            <4>1. i \in 1..N BY <1>2, <1>15
            <4> QED BY <4>1, <1>3, NearerSymbols
        <3> QED BY <3>1 DEF NearIn
    <2>4. /\ NearIn(O, I, k + 1) = Nearer(T, Nearer(O[k + 1], I[k + 1]))
          /\ NearIn(O, I, k + 1) = {} => Empty(O, I, k + 1)
        BY <2>2, NearStep
    <2> HIDE DEF T
    <2>5. Step(x, ms[k + 1]) \in Settled(name, NearIn(O, I, k + 1))
        BY <1>4, <2>1, <2>2, <2>3, <2>4
    <2> QED BY <2>1, <2>4, <2>5
<1>16. iter[1..N] \in B[N]
    <2> HIDE DEF Def, B, step
    <2>1. N \in Nat BY <1>2
    <2>2. \A k \in Nat : \A x \in A : k < N /\ x \in B[k] => step[k + 1][x] \in B[k + 1] BY <1>15
    <2>3. \A s \in SUBSET (1..N) : s # {} /\ iter[s \ {Max(s)}] \in A
                                   => iter[s] = step[Max(s)][iter[s \ {Max(s)}]]
        BY <1>13
    <2>4. Folding(N, A, a, step, B, iter)
        BY <2>1, <2>2, <2>3, <1>6, <1>7, <1>12, <1>14 DEF Folding
    <2> QED BY <2>4, FoldLeads
<1>17. Nearest(scopes, name, ask) = NearIn(O, I, N)
    <2> DEFINE inner == {i \in 1..N : \A j \in 1..(i - 1) : Own(scopes, j, name, ask) \cup Imported(scopes, j, name, ask) = {}}
    <2>1. inner = {j \in 1..N : \A l \in 1..(j - 1) : O[l] \cup I[l] = {}}
        <3>1. \A j \in 1..N : \A l \in 1..(j - 1) : l \in 1..N BY <1>2
        <3> QED BY <3>1 DEF O, I
    <2>2. Nearest(scopes, name, ask)
            = UNION {IF Own(scopes, i, name, ask) # {} THEN Own(scopes, i, name, ask)
                     ELSE Imported(scopes, i, name, ask) : i \in inner}
        BY <1>2 DEF Nearest
    <2>3. \A i \in inner : Nearer(O[i], I[i]) = IF Own(scopes, i, name, ask) # {} THEN Own(scopes, i, name, ask)
                                               ELSE Imported(scopes, i, name, ask)
        BY DEF O, I, Nearer
    <2> HIDE DEF inner
    <2> QED BY <2>1, <2>2, <2>3 DEF NearIn
<1> DEFINE all == iter[1..N]
<1>18. all \in Settled(name, Nearest(scopes, name, ask)) BY <1>2, <1>16, <1>17
<1> HIDE DEF all
<1>19. all.items \in Seq(Entries) /\ Offers(all.items, name, Nearest(scopes, name, ask))
    BY <1>18 DEF Settled, Lists
<1>20. Len(items) + 1 \in Nat OBVIOUS
<1> DEFINE ranked == rankUnrankedCompletions(all.items, Len(items) + 1, "Scope")
<1>21. /\ ranked \in Seq(Entries) /\ DOMAIN ranked = DOMAIN all.items
       /\ \A i \in DOMAIN all.items :
             /\ ranked[i].label = all.items[i].label /\ ranked[i].kind = all.items[i].kind
             /\ ranked[i].data = all.items[i].data
    BY <1>19, <1>20, RanksOnly
<1>22. addCompletions(items, scopes, ask, expected) = ranked BY <1>1, <1>2 DEF all
<1> HIDE DEF ranked
<1>23. Offers(ranked, name, Nearest(scopes, name, ask)) BY <1>19, <1>21, OffersKept
<1> QED BY <1>21, <1>22, <1>23 DEF scopes

-----------------------------------------------------------------------------
(* What is offered before the scopes are searched.                         *)

\* None of the items has the name.
Without(items, name) == items \in Seq(Entries) /\ \A i \in DOMAIN items : items[i].label # name

\* Nor has one of two lists, if none of either has.
LEMMA WithoutBoth ==
    ASSUME NEW name, NEW p, Without(p, name), NEW q, Without(q, name)
    PROVE  Without(p \o q, name)
<1>1. p \in Seq(Entries) /\ q \in Seq(Entries) BY DEF Without
<1>2. p \o q \in Seq(Entries) /\ DOMAIN (p \o q) = 1..(Len(p) + Len(q)) /\ Len(p) \in Nat /\ Len(q) \in Nat
    BY <1>1
<1>3. ASSUME NEW i \in DOMAIN (p \o q) PROVE (p \o q)[i].label # name
    <2>1. CASE i <= Len(p)
        <3>1. i \in DOMAIN p /\ (p \o q)[i] = p[i] BY <1>1, <1>2, <2>1
        <3> QED BY <3>1 DEF Without
    <2>2. CASE i > Len(p)
        <3>1. i - Len(p) \in DOMAIN q /\ (p \o q)[i] = q[i - Len(p)] BY <1>1, <1>2, <2>2
        <3> QED BY <3>1 DEF Without
    <2> QED BY <1>2, <2>1, <2>2
<1> QED BY <1>2, <1>3 DEF Without

\* Keywords are no identifiers.
LEMMA KeywordsWithout ==
    ASSUME NEW name \in Names
    PROVE  Without(addKeywordCompletions, name)
<1> DEFINE p == Item("logic", "Keyword")
           q == Inserting(Item("always_ff", "Snippet"), "keyed")
           r(e) == [e EXCEPT !.rank = "Keyword"]
<1>1. r(p) \in Entries /\ r(p).label = "logic" BY DEF Item, Entries, ItemKinds, ItemLabels
<1>2. r(q) \in Entries /\ r(q).label = "always_ff" BY DEF Item, Inserting, Entries, ItemKinds, ItemLabels
<1> HIDE DEF p, q
<1>3. addKeywordCompletions = [i \in 1..2 |-> r(<<p, q>>[i])] BY DEF addKeywordCompletions, Ranked, p, q
<1>4. addKeywordCompletions = <<r(p), r(q)>> BY <1>3
<1>5. name # "logic" /\ name # "always_ff" BY CompletionsAssumption
<1> HIDE DEF r
<1> QED BY <1>1, <1>2, <1>4, <1>5 DEF Without

\* A finite set can be listed.
LEMMA Listed ==
    ASSUME NEW S, IsFiniteSet(S)
    PROVE  SetToSeq(S) \in Seq(S)
<1> DEFINE n == Cardinality(S)
<1>1. n \in Nat /\ ExistsBijection(1..n, S) BY FS_CardinalityType
<1>2. \E f \in [1..n -> S] : IsInjective(f) BY <1>1 DEF ExistsBijection, Bijection, Injection
<1>3. SetToSeq(S) \in [1..n -> S] BY <1>2 DEF SetToSeq
<1> HIDE DEF n
<1> QED BY <1>1, <1>3

\* The workspace offers its own names only.
LEMMA LibraryWithout ==
    ASSUME NEW name, NEW index, IsFiniteSet(DOMAIN index), DOMAIN index \subseteq Names, name \notin DOMAIN index,
           NEW context
    PROVE  Without(LibraryItems(index, context), name)
<1> DEFINE offered == {n \in DOMAIN index : /\ index[n] = "module" => context = "ModuleMember"
                                            /\ index[n] = "class" => context # "Expression"}
           Kind(n) == CASE index[n] = "interface" -> "Interface" [] index[n] = "class" -> "Class" [] OTHER -> "Module"
           Entry(n) == IF index[n] = "interface" /\ context # "ModuleMember"
                       THEN [Item(n, Kind(n)) EXCEPT !.insert = "label"] ELSE Item(n, Kind(n))
           S == {Entry(n) : n \in offered}
           list == SetToSeq(S)
<1>1. LibraryItems(index, context) = Ranked(list, "Library") BY DEF LibraryItems
<1>2. \A n : Kind(n) \in ItemKinds BY DEF ItemKinds
<1> HIDE DEF Kind
<1>3. \A n \in offered : Entry(n) \in Entries /\ Entry(n).label \in DOMAIN index
    BY <1>2 DEF Item, Entries, ItemLabels
<1> HIDE DEF Entry
<1>4. IsFiniteSet(S)
    <2>1. IsFiniteSet(offered) BY FS_Subset
    <2> HIDE DEF offered
    <2> DEFINE f == [n \in offered |-> Entry(n)]
    <2>2. f \in Surjection(offered, S) BY DEF Surjection
    <2> HIDE DEF f, S
    <2> QED BY <2>1, <2>2, FS_Surjection
<1>5. \A e \in S : e \in Entries /\ e.label \in DOMAIN index BY <1>3
<1> HIDE DEF S
<1>6. list \in Seq(S) BY <1>4, Listed
<1> HIDE DEF list
<1>7. ASSUME NEW e \in Entries
      PROVE  [e EXCEPT !.rank = "Library"] \in Entries /\ [e EXCEPT !.rank = "Library"].label = e.label
    BY DEF Entries
<1>8. ASSUME NEW i \in DOMAIN list
      PROVE  /\ [list[i] EXCEPT !.rank = "Library"] \in Entries
             /\ [list[i] EXCEPT !.rank = "Library"].label # name
    <2>1. list[i] \in S BY <1>6
    <2> QED BY <2>1, <1>5, <1>7
<1>9. Ranked(list, "Library") = [i \in 1..Len(list) |-> [list[i] EXCEPT !.rank = "Library"]]
      /\ Len(list) \in Nat /\ DOMAIN list = 1..Len(list)
    BY <1>6 DEF Ranked
<1>10. Ranked(list, "Library") \in Seq(Entries)
    <2>1. Ranked(list, "Library") \in [1..Len(list) -> Entries] BY <1>8, <1>9
    <2> QED BY <2>1, <1>9
<1> DEFINE ranked == Ranked(list, "Library")
<1>11. DOMAIN ranked = DOMAIN list /\ \A i \in DOMAIN list : ranked[i].label # name BY <1>8, <1>9
<1>12. ranked \in Seq(Entries) BY <1>10
<1> HIDE DEF ranked
<1>13. Without(ranked, name) BY <1>11, <1>12 DEF Without
<1> QED BY <1>1, <1>13 DEF ranked

\* And the enumeration that is assigned to, its values only.
LEMMA ExpectedWithout ==
    ASSUME NEW name \in Names, NEW items, Without(items, name),
           NEW expected \in Seq(Symbols), \A i \in DOMAIN expected : expected[i].name # name
    PROVE  addExpectedEnumCompletions(items, expected) \in Settled(name, {})
<1> DEFINE ms == expected
           a == [items |-> items, seen |-> {}]
           N == Len(ms)
           A == Settled(name, {})
           Step(x, value) ==
               IF \E i \in DOMAIN x.items : x.items[i].label = value.name THEN x
               ELSE [items |-> Append(x.items, [getCompletion(value, FALSE, FALSE) EXCEPT !.rank = "Scope"]),
                     seen |-> x.seen \cup {value.name}]
           Def(f) == [s \in SUBSET DOMAIN ms |-> IF s = {} THEN a ELSE Step(f[s \ {Max(s)}], ms[Max(s)])]
           iter == CHOOSE f : f = Def(f)
           step == [n \in 1..N |-> [x \in A |-> Step(x, ms[n])]]
           B == [k \in Nat |-> A]
<1>1. addExpectedEnumCompletions(items, expected) = iter[DOMAIN ms]
    BY DEF addExpectedEnumCompletions, FoldLeft, MapThenFoldSet
<1>2. N \in Nat /\ DOMAIN ms = 1..N OBVIOUS
<1>3. ASSUME NEW e \in Entries
      PROVE  [e EXCEPT !.rank = "Scope"] \in Entries /\ [e EXCEPT !.rank = "Scope"].label = e.label
    BY DEF Entries
<1>5. ASSUME NEW n \in 1..N, NEW x \in A PROVE Step(x, ms[n]) \in A
    <2>1. ms[n] \in Symbols /\ ms[n].name # name BY <1>2
    <2>2. ms[n].name \in Names BY <2>1, SymbolFacts
    <2> DEFINE item == [getCompletion(ms[n], FALSE, FALSE) EXCEPT !.rank = "Scope"]
    <2>3. item \in Entries /\ item.label # name BY <1>3, <2>1, SymbolItems
    <2>4. [items |-> Append(x.items, item), seen |-> x.seen \cup {ms[n].name}] \in A
        <3> HIDE DEF item, ms
        <3> QED BY <2>1, <2>2, <2>3, AppendsOther
    <2> HIDE DEF ms, A
    <2> QED BY <2>4
<1> a \in A
    <2>1. items \in Seq(Entries) /\ \A i \in DOMAIN items : items[i].label # name BY DEF Without
    <2> QED BY <2>1 DEF Settled, Lists, Offers
<1> HIDE DEF Step, A, N, a
<1>6. a \in A OBVIOUS
<1>7. step \in [1..N -> [A -> A]] BY <1>5
<1>8. \A s \in SUBSET (1..N) : s # {} => Max(s) \in 1..N
    <2>1. ASSUME NEW s \in SUBSET (1..N), s # {} PROVE Max(s) \in s
        BY <1>2, <2>1, LastPosition
    <2> QED BY <2>1
<1> HIDE DEF ms
<1>9. PICK f : f \in FoldsOver(N, A, a, step)
    <2> HIDE DEF step
    <2>1. N \in Nat BY <1>2
    <2>2. FoldsOver(N, A, a, step) # {} BY <2>1, <1>6, <1>7, FoldExists
    <2> QED BY <2>2
<1>10. f = Def(f)
    <2>1. f \in [SUBSET (1..N) -> A] /\ f[{}] = a BY <1>9 DEF FoldsOver
    <2>2. ASSUME NEW s \in SUBSET (1..N), s # {} PROVE f[s] = Step(f[s \ {Max(s)}], ms[Max(s)])
        <3>1. f[s] = step[Max(s)][f[s \ {Max(s)}]]
            <4> HIDE DEF step
            <4> QED BY <1>9, <2>2 DEF FoldsOver
        <3>2. f[s \ {Max(s)}] \in A BY <2>1
        <3> QED BY <1>8, <2>2, <3>1, <3>2
    <2>3. f = [s \in SUBSET (1..N) |-> f[s]] BY <2>1
    <2>4. \A s \in SUBSET (1..N) : f[s] = IF s = {} THEN a ELSE Step(f[s \ {Max(s)}], ms[Max(s)])
        BY <2>1, <2>2
    <2> QED BY <1>2, <2>3, <2>4
<1>11. iter = Def(iter)
    <2> HIDE DEF Def
    <2> QED BY <1>10
<1> HIDE DEF iter
<1>12. iter[{}] = a BY <1>2, <1>11
<1>13. ASSUME NEW s \in SUBSET (1..N), s # {}, iter[s \ {Max(s)}] \in A
       PROVE  iter[s] = step[Max(s)][iter[s \ {Max(s)}]]
    <2>1. iter[s] = Step(iter[s \ {Max(s)}], ms[Max(s)])
        <3>1. iter[s] = Def(iter)[s]
            <4> HIDE DEF Def
            <4> QED BY <1>11
        <3> QED BY <1>2, <1>13, <3>1
    <2> QED BY <1>8, <1>13, <2>1
<1>14. a \in B[0] OBVIOUS
<1>15. ASSUME NEW k \in Nat, NEW x \in A, k < N, x \in B[k] PROVE step[k + 1][x] \in B[k + 1]
    <2>1. k + 1 \in 1..N BY <1>2, <1>15
    <2> QED BY <1>5, <2>1
<1>16. iter[1..N] \in B[N]
    <2> HIDE DEF Def, B, step
    <2>1. N \in Nat BY <1>2
    <2>2. \A k \in Nat : \A x \in A : k < N /\ x \in B[k] => step[k + 1][x] \in B[k + 1] BY <1>15
    <2>3. \A s \in SUBSET (1..N) : s # {} /\ iter[s \ {Max(s)}] \in A
                                   => iter[s] = step[Max(s)][iter[s \ {Max(s)}]]
        BY <1>13
    <2>4. Folding(N, A, a, step, B, iter)
        BY <2>1, <2>2, <2>3, <1>6, <1>7, <1>12, <1>14 DEF Folding
    <2> QED BY <2>4, FoldLeads
<1>17. iter[1..N] \in A BY <1>2, <1>16
<1> QED BY <1>1, <1>2, <1>17 DEF A

\* So the search starts with a list that does not offer the name.
LEMMA Starts ==
    ASSUME NEW name \in Names, NEW items, Without(items, name), NEW ask,
           NEW expected \in Seq(Symbols), \A i \in DOMAIN expected : expected[i].name # name
    PROVE  BeforeScopes(items, ask, expected) \in Settled(name, {})
<1> DEFINE keywords == IF ask.context = "ModuleMember" THEN addKeywordCompletions ELSE <<>>
<1>1. Without(<<>>, name) BY DEF Without
<1>2. Without(keywords, name) BY <1>1, KeywordsWithout
<1> HIDE DEF keywords
<1>3. Without(items \o keywords, name) BY <1>2, WithoutBoth
<1>4. addExpectedEnumCompletions(items \o keywords, expected) \in Settled(name, {})
    BY <1>3, ExpectedWithout
<1> QED BY <1>4 DEF BeforeScopes, keywords

\* The lexical list offers what the name resolves to.
LEMMA LexicalOffers ==
    ASSUME NEW ask \in Asks, IsProgram(ask.program), NEW name \in Names, name \notin DOMAIN ask.program.index,
           NEW expected \in Seq(Symbols), \A i \in DOMAIN expected : expected[i].name # name
    PROVE  /\ LexicalItems(ask, expected) \in Seq(Entries)
           /\ Offers(LexicalItems(ask, expected), name, Nearest(ask.program.scopes, name, ask))
<1> DEFINE items == LibraryItems(ask.program.index, ask.context)
<1>1. DOMAIN ask.program.index \subseteq Names /\ IsFiniteSet(DOMAIN ask.program.index) BY DEF IsProgram
<1>2. Without(items, name) BY <1>1, LibraryWithout
<1>3. LexicalItems(ask, expected) = addCompletions(items, ask.program.scopes, ask, expected) BY DEF LexicalItems
<1> HIDE DEF items
<1>4. BeforeScopes(items, ask, expected) \in Settled(name, {}) BY <1>2, Starts
<1>5. items \in Seq(Entries) BY <1>2 DEF Without
<1>6. /\ addCompletions(items, ask.program.scopes, ask, expected) \in Seq(Entries)
      /\ Offers(addCompletions(items, ask.program.scopes, ask, expected), name,
                Nearest(ask.program.scopes, name, ask))
    BY <1>4, <1>5, ScopesAll
<1> QED BY <1>3, <1>6

-----------------------------------------------------------------------------
(* The answer.                                                             *)

\* What a name resolves to does not depend on how the client wants its items.
LEMMA NearestOf ==
    ASSUME NEW a, NEW b, a.cursor = b.cursor, a.program = b.program, a.context = b.context,
           NEW scopes, NEW name
    PROVE  Nearest(scopes, name, a) = Nearest(scopes, name, b)
<1>1. \A members, kind : Declared(members, kind, name, a) = Declared(members, kind, name, b)
    BY DEF Declared
<1>2. \A i : Own(scopes, i, name, a) = Own(scopes, i, name, b) BY <1>1 DEF Own
<1>3. \A i : Imported(scopes, i, name, a) = Imported(scopes, i, name, b) BY <1>1 DEF Imported
<1> QED BY <1>2, <1>3 DEF Nearest

\* The edit of an item leaves what the item stands for.
LEMMA FinishOffers ==
    ASSUME NEW items \in Seq(Entries), NEW name, NEW S, Offers(items, name, S),
           NEW doc, NEW call, NEW written
    PROVE  Offers(Finish(items, doc, call, written), name, S)
<1> DEFINE finished == Finish(items, doc, call, written)
<1>1. DOMAIN finished = DOMAIN items BY DEF Finish
<1>2. ASSUME NEW i \in DOMAIN items
      PROVE  /\ finished[i].label = items[i].label /\ finished[i].kind = items[i].kind
             /\ items[i].data # None => finished[i].data = items[i].data
    <2>1. items[i] \in Entries OBVIOUS
    <2> DEFINE sent == IF items[i].data = None /\ items[i].kind \in Instantiable
                       THEN [items[i] EXCEPT !.data = [uri |-> doc.uri]] ELSE items[i]
    <2>2. finished[i] = setCompletionEdit(sent, call, written) BY DEF Finish
    <2>3. /\ sent.label = items[i].label /\ sent.kind = items[i].kind
          /\ items[i].data # None => sent.data = items[i].data
          /\ sent = [label |-> sent.label, kind |-> sent.kind, insert |-> sent.insert, snippet |-> sent.snippet,
                     edit |-> sent.edit, data |-> sent.data, documented |-> sent.documented, rank |-> sent.rank]
        BY <2>1 DEF Entries
    <2> HIDE DEF sent
    <2>4. /\ setCompletionEdit(sent, call, written).label = sent.label
          /\ setCompletionEdit(sent, call, written).kind = sent.kind
          /\ setCompletionEdit(sent, call, written).data = sent.data
        BY <2>3 DEF setCompletionEdit
    <2> QED BY <2>2, <2>3, <2>4
<1> HIDE DEF finished
<1>3. \A i \in DOMAIN items, s \in S : ItemFor(items[i], s) => ItemFor(finished[i], s)
    BY <1>2 DEF ItemFor
<1>4. Offers(finished, name, S) BY <1>1, <1>2, <1>3 DEF Offers
<1> QED BY <1>4 DEF finished

\* The contexts there are.
LEMMA Contexts ==
    ASSUME NEW doc, NEW c
    PROVE  contextKind(doc, c) \in {"Unknown", "ModuleMember", "Expression", "Procedural", "PortList", "Declaration"}
BY DEF contextKind

\* A lexical query of a document offers what each name resolves to.
LEMMA NamesOffered ==
    ASSUME NEW doc \in Docs, NEW c \in Cursors, fromLocation(doc, c, None) = "Lexical", NEW defer \in BOOLEAN,
           NEW name \in Names \ OfferedAnyway(doc)
    PROVE  Offers(getCompletions(doc, c, None, defer), name,
                  Nearest(doc.program.scopes, name,
                          [cursor |-> c, program |-> doc.program, context |-> contextKind(doc, c)]))
<1> DEFINE site == getCompletionSite(doc.tokens, c)
           list == InstanceListAt(doc, c)
           call == HonoursCall("Lexical") /\ KindOf(site.after) = "open"
           written == "Lexical" = "Lexical" /\ isWrittenInstantiation(doc.nodes, c)
           ask == [cursor |-> c, program |-> doc.program, context |-> contextKind(doc, c), labelOnly |-> call,
                   defer |-> defer]
           asked == [cursor |-> c, program |-> doc.program, context |-> contextKind(doc, c)]
           receiver == getTokenBefore(doc.tokens, site.before.start)
           items == LexicalItems(ask, doc.expected)
<1>1. getCompletions(doc, c, None, defer) = CompletionsOf("Lexical", doc, c, None, defer, site, list)
    BY DEF getCompletions
<1>2. None # "{" BY CompletionsAssumption
<1>3. CompletionsOf("Lexical", doc, c, None, defer, site, list)
        = Finish(QueryItems("Lexical", doc, site, list, receiver, ask), doc, call, written)
    <2> HIDE DEF site, list
    <2> QED BY <1>2 DEF CompletionsOf
<1>4. QueryItems("Lexical", doc, site, list, receiver, ask) = items
    <2> HIDE DEF site, list, receiver, ask
    <2> QED BY DEF QueryItems
<1>5. ask \in Asks
    <2>1. c \in Nat BY CompletionsAssumption
    <2>2. call \in BOOLEAN BY DEF HonoursCall
    <2> HIDE DEF call
    <2> QED BY <2>1, <2>2, Contexts DEF Asks
<1>6. ask.program = doc.program /\ ask.cursor = c /\ ask.context = contextKind(doc, c) OBVIOUS
<1>7. asked.program = doc.program /\ asked.cursor = c /\ asked.context = contextKind(doc, c) OBVIOUS
<1>8. IsProgram(doc.program) /\ doc.expected \in Seq(Symbols) BY CompletionsAssumption
<1>9. /\ name \notin DOMAIN doc.program.index
      /\ \A i \in DOMAIN doc.expected : doc.expected[i].name # name
    BY DEF OfferedAnyway
<1> HIDE DEF ask, asked, call, written, site, list, receiver
<1>10. items \in Seq(Entries) /\ Offers(items, name, Nearest(doc.program.scopes, name, ask))
    BY <1>5, <1>6, <1>8, <1>9, LexicalOffers
<1>11. Nearest(doc.program.scopes, name, ask) = Nearest(doc.program.scopes, name, asked)
    BY <1>6, <1>7, NearestOf
<1> HIDE DEF items
<1>12. Offers(Finish(items, doc, call, written), name, Nearest(doc.program.scopes, name, asked))
    BY <1>10, <1>11, FinishOffers
<1>13. getCompletions(doc, c, None, defer) = Finish(items, doc, call, written)
    BY <1>1, <1>3, <1>4
<1> QED BY <1>12, <1>13 DEF asked

\* Completion offers what a name resolves to: in every lexical answer, whatever the scopes, the
\* imports and the packages of the program and wherever the cursor is, each name that the
\* workspace and the expected enumeration do not offer anyway is offered once, for the
\* declaration it resolves to, and not at all if it resolves to none.
THEOREM Names_OfferWhatResolves == NamesSpec => []OffersWhatResolves
<1> DEFINE Asked == question = None \/ question.about # "names" \/ (question.doc \in Docs /\ question.cursor \in Cursors)
<1>1. question = None => Asked OBVIOUS
<1>2. Asked /\ [AskNames]_question => Asked'
    <2>1. SUFFICES ASSUME Asked, [AskNames]_question PROVE Asked' OBVIOUS
    <2>2. CASE AskNames BY <2>2 DEF AskNames
    <2>3. CASE UNCHANGED question BY <2>1, <2>3
    <2> QED BY <2>1, <2>2, <2>3
<1>3. Asked => OffersWhatResolves
    <2>1. SUFFICES ASSUME Asked, question # None, question.about = "names",
                          fromLocation(question.doc, question.cursor, None) = "Lexical",
                          NEW defer \in BOOLEAN, NEW name \in Names \ OfferedAnyway(question.doc)
                   PROVE  Offers(getCompletions(question.doc, question.cursor, None, defer), name,
                                 Nearest(question.doc.program.scopes, name,
                                         [cursor |-> question.cursor, program |-> question.doc.program,
                                          context |-> contextKind(question.doc, question.cursor)]))
        BY DEF OffersWhatResolves
    <2>2. question.doc \in Docs /\ question.cursor \in Cursors BY <2>1
    <2> QED BY <2>1, <2>2, NamesOffered
<1> QED BY <1>1, <1>2, <1>3, PTL DEF NamesSpec

-----------------------------------------------------------------------------
(* Positions: recursion along a sequence.                                  *)

\* What n steps from a lead through.
Paths(n, A, a, step) ==
    {p \in [0..n -> A] : p[0] = a /\ \A k \in 1..n : p[k] = step[<<k, p[k - 1]>>]}

\* There is such a path.
LEMMA PathExists ==
    ASSUME NEW n \in Nat, NEW A, NEW a \in A, NEW step \in [(1..n) \X A -> A]
    PROVE  Paths(n, A, a, step) # {}
<1> DEFINE P == {k \in Nat : k <= n => Paths(k, A, a, step) # {}}
<1>1. 0 \in P
    <2>1. [i \in 0..0 |-> a] \in Paths(0, A, a, step) BY DEF Paths
    <2> QED BY <2>1
<1>2. ASSUME NEW k \in Nat, k \in P PROVE k + 1 \in P
    <2>1. SUFFICES ASSUME k + 1 <= n PROVE Paths(k + 1, A, a, step) # {} OBVIOUS
    <2>2. PICK p : p \in Paths(k, A, a, step) BY <1>2, <2>1
    <2> DEFINE q == [i \in 0..(k + 1) |-> IF i = k + 1 THEN step[<<k + 1, p[k]>>] ELSE p[i]]
    <2>3. p \in [0..k -> A] /\ p[0] = a /\ \A i \in 1..k : p[i] = step[<<i, p[i - 1]>>]
        BY <2>2 DEF Paths
    <2>4. p[k] \in A /\ k + 1 \in 1..n BY <2>1, <2>3
    <2>5. step[<<k + 1, p[k]>>] \in A BY <2>4
    <2>6. q \in [0..(k + 1) -> A] BY <2>3, <2>5
    <2>7. q[0] = a BY <2>3
    <2>8. ASSUME NEW i \in 1..(k + 1) PROVE q[i] = step[<<i, q[i - 1]>>]
        <3>1. CASE i = k + 1
            <4>1. i - 1 = k /\ k \in 0..(k + 1) /\ k # k + 1 BY <3>1
            <4> QED BY <3>1, <4>1
        <3>2. CASE i # k + 1
            <4>1. i \in 1..k /\ i - 1 \in 0..(k + 1) /\ i - 1 # k + 1 BY <3>2
            <4> QED BY <2>3, <3>2, <4>1
        <3> QED BY <3>1, <3>2
    <2> HIDE DEF q
    <2> QED BY <2>6, <2>7, <2>8 DEF Paths
<1>3. Nat \subseteq P
    <2> HIDE DEF P
    <2> QED BY <1>1, <1>2, Inductive
<1> QED BY <1>3

\* Induction along an interval.
LEMMA Along ==
    ASSUME NEW n \in Nat, NEW P, 0 \in P, \A k \in 1..n : k - 1 \in P => k \in P
    PROVE  0..n \subseteq P /\ n \in P
<1> DEFINE Q == {k \in Nat : k <= n => k \in P}
<1>1. 0 \in Q OBVIOUS
<1>2. ASSUME NEW k \in Nat, k \in Q PROVE k + 1 \in Q
    <2>1. SUFFICES ASSUME k + 1 <= n PROVE k + 1 \in P OBVIOUS
    <2>2. k + 1 \in 1..n /\ (k + 1) - 1 = k /\ k \in P BY <2>1, <1>2
    <2> QED BY <2>2
<1>3. Nat \subseteq Q
    <2> HIDE DEF Q
    <2> QED BY <1>1, <1>2, Inductive
<1> QED BY <1>3

\* Induction on sequences.
LEMMA Appended ==
    ASSUME NEW S, NEW P, <<>> \in P, \A s \in Seq(S), c \in S : s \in P => Append(s, c) \in P
    PROVE  Seq(S) \subseteq P
<1> DEFINE Q == {n \in Nat : \A s \in Seq(S) : Len(s) = n => s \in P}
<1>1. 0 \in Q
    <2>1. \A s \in Seq(S) : Len(s) = 0 => s = <<>> BY EmptySeq
    <2> QED BY <2>1
<1>2. ASSUME NEW n \in Nat, n \in Q PROVE n + 1 \in Q
    <2>1. SUFFICES ASSUME NEW s \in Seq(S), Len(s) = n + 1 PROVE s \in P OBVIOUS
    <2> DEFINE t == SubSeq(s, 1, n)
    <2>2. t \in Seq(S) /\ Len(t) = n /\ s[n + 1] \in S BY <2>1
    <2>3. s = Append(t, s[n + 1]) BY <2>1
    <2>4. t \in P BY <2>2, <1>2
    <2> HIDE DEF t
    <2>5. Append(t, s[n + 1]) \in P BY <2>2, <2>4
    <2> QED BY <2>3, <2>5
<1>3. Nat \subseteq Q
    <2> HIDE DEF Q
    <2> QED BY <1>1, <1>2, Inductive
<1>4. \A s \in Seq(S) : Len(s) \in Nat OBVIOUS
<1> QED BY <1>3, <1>4

-----------------------------------------------------------------------------
(* Positions: the bytes of a text.                                         *)

\* The characters of a buffer.
Marked == Chars \cup {"0"}

\* A character has one to four bytes.
LEMMA BytesOfTypes ==
    ASSUME NEW c \in Marked
    PROVE  BytesOf(c) \in Seq(Byte) /\ Len(BytesOf(c)) \in 1..4
<1> USE DEF Byte
<1>1. CASE c = "E"
    <2>1. BytesOf(c) = <<"E1", "E2">> BY <1>1 DEF BytesOf
    <2> QED BY <2>1
<1>2. CASE c = "S"
    <2>1. BytesOf(c) = <<"S1", "S2", "S3", "S4">> BY <1>2 DEF BytesOf
    <2> QED BY <2>1
<1>3. CASE c \in {"a", "N", "R", "0"}
    <2>1. BytesOf(c) = <<c>> BY <1>3 DEF BytesOf
    <2> QED BY <1>3, <2>1
<1> QED BY <1>1, <1>2, <1>3 DEF Marked, Chars

\* The bytes are put together from character to character.
LEMMA BytesPath ==
    ASSUME NEW w \in Seq(Marked)
    PROVE  \E p \in [0..Len(w) -> Seq(Byte)] :
              /\ p[0] = <<>> /\ Bytes(w) = p[Len(w)]
              /\ \A k \in 1..Len(w) : p[k] = p[k - 1] \o BytesOf(w[k])
<1> DEFINE n == Len(w)
           s == [i \in DOMAIN w |-> BytesOf(w[i])]
           A == Seq(Byte)
           step == [x \in (1..n) \X A |-> x[2] \o BytesOf(w[x[1]])]
           Def(f) == [i \in 1..Len(s) |-> IF i = 1 THEN s[i] ELSE f[i - 1] \o s[i]]
           flatten == CHOOSE f : f = Def(f)
<1>1. n \in Nat /\ DOMAIN w = 1..n OBVIOUS
<1>2. ASSUME NEW i \in 1..n PROVE BytesOf(w[i]) \in A
    BY BytesOfTypes
<1>3. Len(s) = n /\ \A i \in 1..n : s[i] = BytesOf(w[i])
    <2>1. s \in Seq(A) BY <1>1, <1>2
    <2> QED BY <1>1, <2>1
<1>4. step \in [(1..n) \X A -> A]
    <2>1. ASSUME NEW x \in (1..n) \X A PROVE x[2] \o BytesOf(w[x[1]]) \in A
        BY <1>2, ConcatProperties
    <2> QED BY <2>1
<1>5. PICK p : p \in Paths(n, A, <<>>, step)
    <2>0. <<>> \in A BY EmptySeq
    <2> HIDE DEF step, A, n
    <2>1. Paths(n, A, <<>>, step) # {} BY <2>0, <1>1, <1>4, PathExists
    <2> QED BY <2>1
<1>6. p \in [0..n -> A] /\ p[0] = <<>> BY <1>5 DEF Paths
<1>7. ASSUME NEW k \in 1..n PROVE p[k] = p[k - 1] \o BytesOf(w[k])
    <2>1. p[k] = step[<<k, p[k - 1]>>]
        <3> HIDE DEF step
        <3> QED BY <1>5 DEF Paths
    <2>2. p[k - 1] \in A BY <1>6
    <2> QED BY <2>1, <2>2
<1>8. Bytes(w) = p[n]
    <2>1. CASE n = 0
        <3>1. w = <<>> BY <2>1
        <3>2. s = <<>> BY <3>1
        <3> HIDE DEF s
        <3>3. Bytes(w) = IF Len(s) = 0 THEN s ELSE flatten[Len(s)] BY DEF Bytes, FlattenSeq, s
        <3> QED BY <2>1, <1>3, <3>2, <3>3, <1>6
    <2>2. CASE n # 0
        <3> DEFINE f == [k \in 1..n |-> p[k]]
        <3>1. f = Def(f)
            <4>1. ASSUME NEW k \in 1..n PROVE f[k] = Def(f)[k]
                <5>1. CASE k = 1
                    <6>1. p[1] = <<>> \o BytesOf(w[1]) BY <1>6, <1>7, <5>1
                    <6>2. BytesOf(w[1]) \in A BY <5>1, <1>2
                    <6>3. p[1] = BytesOf(w[1]) BY <6>1, <6>2, ConcatEmptySeq
                    <6> HIDE DEF s
                    <6> QED BY <5>1, <6>3, <1>3
                <5>2. CASE k # 1
                    <6>1. k - 1 \in 1..n BY <5>2
                    <6> HIDE DEF s
                    <6> QED BY <5>2, <6>1, <1>3, <1>7
                <5> QED BY <5>1, <5>2
            <4>2. Def(f) = [k \in 1..n |-> Def(f)[k]]
                <5> HIDE DEF s
                <5> QED BY <1>3
            <4> HIDE DEF Def
            <4> QED BY <4>1, <4>2
        <3>2. flatten = Def(flatten)
            <4> HIDE DEF Def, f
            <4> QED BY <3>1
        <3>3. Bytes(w) = flatten[n]
            <4>1. Bytes(w) = IF Len(s) = 0 THEN s ELSE flatten[Len(s)] BY DEF Bytes, FlattenSeq
            <4> HIDE DEF s, flatten
            <4> QED BY <4>1, <1>3, <2>2
        <3> HIDE DEF flatten, s
        <3>4. \A k \in 1..n : flatten[k] = IF k = 1 THEN s[k] ELSE flatten[k - 1] \o s[k]
            <4>1. flatten = [i \in 1..n |-> IF i = 1 THEN s[i] ELSE flatten[i - 1] \o s[i]]
                BY <3>2, <1>3
            <4> QED BY <4>1
        <3> DEFINE P == {k \in Nat : k = 0 \/ flatten[k] = p[k]}
        <3>5. 0 \in P OBVIOUS
        <3>6. ASSUME NEW k \in 1..n, k - 1 \in P PROVE k \in P
            <4>1. CASE k = 1
                <5>1. BytesOf(w[1]) \in A BY <4>1, <1>2
                <5>2. p[1] = <<>> \o BytesOf(w[1]) BY <1>6, <1>7, <4>1
                <5>3. flatten[1] = BytesOf(w[1]) BY <3>4, <1>3, <4>1
                <5> QED BY <4>1, <5>1, <5>2, <5>3, ConcatEmptySeq
            <4>2. CASE k # 1
                <5>1. k \in Nat /\ flatten[k - 1] = p[k - 1] BY <4>2, <3>6
                <5>2. flatten[k] = flatten[k - 1] \o s[k] BY <3>4, <4>2
                <5> QED BY <5>1, <5>2, <1>3, <1>7
            <4> QED BY <4>1, <4>2
        <3>7. n \in P
            <4> HIDE DEF P, n
            <4> QED BY <1>1, <3>5, <3>6, Along
        <3> QED BY <3>3, <3>7, <2>2
    <2> QED BY <2>1, <2>2
<1> QED BY <1>6, <1>7, <1>8

\* An empty text has none.
LEMMA BytesEmpty == Bytes(<<>>) = <<>>
<1>1. <<>> \in Seq(Marked) /\ Len(<<>>) = 0 BY EmptySeq
<1> QED BY <1>1, BytesPath

\* One character more.
LEMMA BytesAppend ==
    ASSUME NEW w \in Seq(Marked), NEW c \in Marked
    PROVE  Bytes(w) \in Seq(Byte) /\ Bytes(Append(w, c)) = Bytes(w) \o BytesOf(c)
<1> DEFINE n == Len(w)
           v == Append(w, c)
<1>1. v \in Seq(Marked) /\ Len(v) = n + 1 /\ v[n + 1] = c /\ \A k \in 1..n : v[k] = w[k]
    OBVIOUS
<1> HIDE DEF v
<1>2. PICK p \in [0..n -> Seq(Byte)] :
          /\ p[0] = <<>> /\ Bytes(w) = p[n]
          /\ \A k \in 1..n : p[k] = p[k - 1] \o BytesOf(w[k])
    BY BytesPath
<1>3. PICK q \in [0..(n + 1) -> Seq(Byte)] :
          /\ q[0] = <<>> /\ Bytes(v) = q[n + 1]
          /\ \A k \in 1..(n + 1) : q[k] = q[k - 1] \o BytesOf(v[k])
    <2> HIDE DEF n
    <2>1. PICK q \in [0..Len(v) -> Seq(Byte)] :
              /\ q[0] = <<>> /\ Bytes(v) = q[Len(v)]
              /\ \A k \in 1..Len(v) : q[k] = q[k - 1] \o BytesOf(v[k])
        BY <1>1, BytesPath
    <2> QED BY <1>1, <2>1
<1>4. p[n] = q[n]
    <2> DEFINE P == {k \in Nat : p[k] = q[k]}
    <2>1. 0 \in P BY <1>2, <1>3
    <2>2. ASSUME NEW k \in 1..n, k - 1 \in P PROVE k \in P
        <3>1. k \in 1..(n + 1) /\ k \in Nat OBVIOUS
        <3> QED BY <3>1, <2>2, <1>1, <1>2, <1>3
    <2>3. n \in P
        <3>1. n \in Nat OBVIOUS
        <3> HIDE DEF P, n
        <3> QED BY <2>1, <2>2, <3>1, Along
    <2> QED BY <2>3
<1>5. n + 1 \in 1..(n + 1) /\ (n + 1) - 1 = n /\ n \in 0..n OBVIOUS
<1> QED BY <1>1, <1>2, <1>3, <1>4, <1>5 DEF v

\* Two texts, one after the other.
LEMMA BytesConcat ==
    ASSUME NEW v \in Seq(Marked), NEW w \in Seq(Marked)
    PROVE  Bytes(v \o w) = Bytes(v) \o Bytes(w)
<1> DEFINE P == {u \in Seq(Marked) : Bytes(v \o u) = Bytes(v) \o Bytes(u)}
<1>1. \A u \in Seq(Marked) : Bytes(u) \in Seq(Byte)
    <2>1. "a" \in Marked BY DEF Marked, Chars
    <2> QED BY <2>1, BytesAppend
<1>2. <<>> \in P
    <2>1. v \o <<>> = v /\ <<>> \in Seq(Marked) BY ConcatEmptySeq, EmptySeq
    <2>2. Bytes(v) \o <<>> = Bytes(v) BY <1>1, ConcatEmptySeq
    <2> QED BY <2>1, <2>2, BytesEmpty
<1>3. ASSUME NEW u \in Seq(Marked), NEW c \in Marked, u \in P PROVE Append(u, c) \in P
    <2>1. v \o u \in Seq(Marked) /\ Append(u, c) \in Seq(Marked) BY ConcatProperties, AppendProperties
    <2>2. v \o Append(u, c) = Append(v \o u, c) OBVIOUS
    <2>3. Bytes(Append(v \o u, c)) = Bytes(v \o u) \o BytesOf(c) BY <2>1, BytesAppend
    <2>4. Bytes(Append(u, c)) = Bytes(u) \o BytesOf(c) BY BytesAppend
    <2>5. (Bytes(v) \o Bytes(u)) \o BytesOf(c) = Bytes(v) \o (Bytes(u) \o BytesOf(c))
        BY <1>1, BytesOfTypes, ConcatAssociative, SMTT(40)
    <2> QED BY <1>3, <2>1, <2>2, <2>3, <2>4, <2>5
<1>4. Seq(Marked) \subseteq P
    <2> HIDE DEF P
    <2> QED BY <1>2, <1>3, Appended
<1> QED BY <1>4

\* The bytes between two offsets of a text are those of the characters between.
LEMMA Cuts ==
    ASSUME NEW v \in Seq(Marked), NEW i \in 0..Len(v), NEW j \in i..Len(v)
    PROVE  /\ OffsetOf(v, i) \in Nat /\ OffsetOf(v, j) \in Nat
           /\ OffsetOf(v, i) <= OffsetOf(v, j) /\ OffsetOf(v, j) <= Len(Bytes(v))
           /\ Bytes(v) \in Seq(Byte) /\ Bytes(SubSeq(v, i + 1, j)) \in Seq(Byte)
           /\ OffsetOf(v, j) = OffsetOf(v, i) + Len(Bytes(SubSeq(v, i + 1, j)))
           /\ Part(Bytes(v), OffsetOf(v, i), OffsetOf(v, j)) = Bytes(SubSeq(v, i + 1, j))
<1> DEFINE x == SubSeq(v, 1, i)
           y == SubSeq(v, i + 1, j)
           z == SubSeq(v, j + 1, Len(v))
<1>1. x \in Seq(Marked) /\ y \in Seq(Marked) /\ z \in Seq(Marked) OBVIOUS
<1>2. \A u \in Seq(Marked) : Bytes(u) \in Seq(Byte)
    <2>1. "a" \in Marked BY DEF Marked, Chars
    <2> QED BY <2>1, BytesAppend
<1>3. x \o y = SubSeq(v, 1, j) /\ x \o y \in Seq(Marked) OBVIOUS
<1>4. v = (x \o y) \o z
    <2>1. SubSeq(v, 1, j) \o SubSeq(v, j + 1, Len(v)) = SubSeq(v, 1, Len(v))
        <3>1. 1 \in 1..(Len(v) + 1) /\ j \in (1 - 1)..Len(v) /\ Len(v) \in j..Len(v) OBVIOUS
        <3> QED BY <3>1, ConcatAdjacentSubSeq
    <2>2. SubSeq(v, 1, Len(v)) = v BY SubSeqFull
    <2> QED BY <1>3, <2>1, <2>2
<1>5. OffsetOf(v, i) = Len(Bytes(x)) /\ OffsetOf(v, j) = Len(Bytes(x \o y))
    BY <1>3 DEF OffsetOf
<1> HIDE DEF x, y, z
<1>6. Bytes(x \o y) = Bytes(x) \o Bytes(y) /\ Bytes(v) = Bytes(x \o y) \o Bytes(z)
    BY <1>1, <1>3, <1>4, BytesConcat
<1> DEFINE p == Bytes(x)
           q == Bytes(y)
           r == Bytes(z)
<1>7. p \in Seq(Byte) /\ q \in Seq(Byte) /\ r \in Seq(Byte) BY <1>1, <1>2
<1> HIDE DEF p, q, r
<1>8. SubSeq((p \o q) \o r, Len(p) + 1, Len(p \o q)) = q BY <1>7
<1>9. Len(p \o q) = Len(p) + Len(q) /\ Len((p \o q) \o r) = Len(p) + Len(q) + Len(r) BY <1>7
<1>10. Bytes(v) = (p \o q) \o r /\ OffsetOf(v, i) = Len(p) /\ OffsetOf(v, j) = Len(p \o q)
    BY <1>5, <1>6 DEF p, q, r
<1>11. Part(Bytes(v), OffsetOf(v, i), OffsetOf(v, j)) = q BY <1>8, <1>10 DEF Part
<1>12. Len(p) \in Nat /\ Len(q) \in Nat /\ Len(r) \in Nat BY <1>7
<1>13. Bytes(v) \in Seq(Byte) BY <1>2
<1> QED BY <1>7, <1>9, <1>10, <1>11, <1>12, <1>13 DEF q, y

\* Where each character is.
Laid(v, O, b) ==
    /\ O \in [0..Len(v) -> Nat] /\ b \in Seq(Byte) /\ O[0] = 0 /\ O[Len(v)] = Len(b)
    /\ \A k \in 1..Len(v) :
          /\ v[k] = "E" => O[k] = O[k - 1] + 2 /\ b[O[k - 1] + 1] = "E1" /\ b[O[k - 1] + 2] = "E2"
          /\ v[k] = "S" => /\ O[k] = O[k - 1] + 4 /\ b[O[k - 1] + 1] = "S1" /\ b[O[k - 1] + 2] = "S2"
                           /\ b[O[k - 1] + 3] = "S3" /\ b[O[k - 1] + 4] = "S4"
          /\ v[k] \notin {"E", "S"} => O[k] = O[k - 1] + 1 /\ b[O[k - 1] + 1] = v[k]
Offsets(v) == [k \in 0..Len(v) |-> OffsetOf(v, k)]

\* A buffer is laid out as the offsets of its characters say.
LEMMA Layout ==
    ASSUME NEW v \in Seq(Marked)
    PROVE  Laid(v, Offsets(v), Bytes(v))
<1> DEFINE O == Offsets(v)
           b == Bytes(v)
           n == Len(v)
<1>1. n \in Nat OBVIOUS
<1>2. \A k \in 0..n : O[k] = OffsetOf(v, k) BY DEF Offsets
<1>3. \A k \in 0..n : OffsetOf(v, k) \in Nat
    <2> QED BY <1>1, Cuts
<1>4. O \in [0..n -> Nat] BY <1>3 DEF Offsets
<1>5. b \in Seq(Byte) BY <1>1, Cuts
<1>6. O[0] = 0
    <2>1. SubSeq(v, 1, 0) = <<>> OBVIOUS
    <2>2. Len(Bytes(<<>>)) = 0 BY BytesEmpty
    <2>3. O[0] = OffsetOf(v, 0) BY <1>1, <1>2
    <2>4. OffsetOf(v, 0) = Len(Bytes(<<>>)) BY <2>1 DEF OffsetOf
    <2> HIDE DEF O
    <2> QED BY <2>2, <2>3, <2>4
<1>7. O[n] = Len(b)
    <2>1. SubSeq(v, 1, n) = v OBVIOUS
    <2>2. O[n] = OffsetOf(v, n) BY <1>1, <1>2
    <2>3. OffsetOf(v, n) = Len(b) BY <2>1 DEF OffsetOf
    <2> HIDE DEF O
    <2> QED BY <2>2, <2>3
<1>8. ASSUME NEW k \in 1..n
      PROVE  /\ O[k] = O[k - 1] + Len(BytesOf(v[k]))
             /\ \A m \in 1..Len(BytesOf(v[k])) : b[O[k - 1] + m] = BytesOf(v[k])[m]
    <2>1. k - 1 \in 0..n /\ k \in (k - 1)..n /\ (k - 1) + 1 = k /\ v[k] \in Marked OBVIOUS
    <2>2. SubSeq(v, k, k) = Append(<<>>, v[k])
        <3>1. SubSeq(v, k, k) \in Seq(Marked) /\ Len(SubSeq(v, k, k)) = 1 /\ SubSeq(v, k, k)[1] = v[k]
            OBVIOUS
        <3>2. Append(<<>>, v[k]) \in Seq(Marked) /\ Len(Append(<<>>, v[k])) = 1 /\ Append(<<>>, v[k])[1] = v[k]
            BY <2>1
        <3>3. \A s, t \in Seq(Marked) : Len(s) = 1 /\ Len(t) = 1 /\ s[1] = t[1] => s = t
            <4>1. SUFFICES ASSUME NEW s \in Seq(Marked), NEW t \in Seq(Marked),
                                  Len(s) = 1, Len(t) = 1, s[1] = t[1]
                           PROVE  s = t
                OBVIOUS
            <4>2. \A i \in 1..Len(s) : s[i] = t[i] BY <4>1
            <4> QED BY <4>1, <4>2, SeqEqual
        <3> QED BY <3>1, <3>2, <3>3
    <2>3. Bytes(SubSeq(v, k, k)) = BytesOf(v[k])
        <3>1. <<>> \in Seq(Marked) BY EmptySeq
        <3>2. Bytes(Append(<<>>, v[k])) = Bytes(<<>>) \o BytesOf(v[k]) BY <2>1, <3>1, BytesAppend
        <3>3. BytesOf(v[k]) \in Seq(Byte) BY <2>1, BytesOfTypes
        <3> QED BY <2>2, <3>2, <3>3, BytesEmpty, ConcatEmptySeq
    <2>4. /\ OffsetOf(v, k) = OffsetOf(v, k - 1) + Len(BytesOf(v[k]))
          /\ Part(b, OffsetOf(v, k - 1), OffsetOf(v, k)) = BytesOf(v[k])
          /\ OffsetOf(v, k - 1) \in Nat /\ OffsetOf(v, k) <= Len(b)
        BY <2>1, <2>3, Cuts
    <2> DEFINE o == OffsetOf(v, k - 1)
               l == Len(BytesOf(v[k]))
    <2>5. o \in Nat /\ l \in Nat BY <2>1, <2>4, BytesOfTypes
    <2>6. \A m \in 1..l : SubSeq(b, o + 1, o + l)[m] = b[o + m]
        <3> HIDE DEF o, l, b
        <3> QED BY <2>5
    <2>7. O[k - 1] = o /\ O[k] = OffsetOf(v, k) BY <1>1, <1>2, <2>1
    <2>8. OffsetOf(v, k) = o + l BY <2>4
    <2>9. SubSeq(b, o + 1, o + l) = BytesOf(v[k]) BY <2>4, <2>8 DEF Part
    <2> HIDE DEF O, b, o
    <2> QED BY <2>6, <2>7, <2>8, <2>9
<1> HIDE DEF O, b
<1>9. ASSUME NEW k \in 1..n
      PROVE  /\ v[k] = "E" => O[k] = O[k - 1] + 2 /\ b[O[k - 1] + 1] = "E1" /\ b[O[k - 1] + 2] = "E2"
             /\ v[k] = "S" => /\ O[k] = O[k - 1] + 4 /\ b[O[k - 1] + 1] = "S1" /\ b[O[k - 1] + 2] = "S2"
                              /\ b[O[k - 1] + 3] = "S3" /\ b[O[k - 1] + 4] = "S4"
             /\ v[k] \notin {"E", "S"} => O[k] = O[k - 1] + 1 /\ b[O[k - 1] + 1] = v[k]
    <2>1. CASE v[k] = "E"
        <3>1. BytesOf(v[k]) = <<"E1", "E2">> BY <2>1 DEF BytesOf
        <3>2. Len(BytesOf(v[k])) = 2 /\ BytesOf(v[k])[1] = "E1" /\ BytesOf(v[k])[2] = "E2" BY <3>1
        <3>3. O[k] = O[k - 1] + 2 /\ b[O[k - 1] + 1] = "E1" /\ b[O[k - 1] + 2] = "E2"
            <4>1. 1 \in 1..2 /\ 2 \in 1..2 OBVIOUS
            <4>2. O[k] = O[k - 1] + 2 BY <3>2, <1>8
            <4>3. \A m \in 1..2 : b[O[k - 1] + m] = BytesOf(v[k])[m] BY <3>2, <1>8
            <4> QED BY <3>2, <4>1, <4>2, <4>3
        <3> QED BY <2>1, <3>3
    <2>2. CASE v[k] = "S"
        <3>1. BytesOf(v[k]) = <<"S1", "S2", "S3", "S4">> BY <2>2 DEF BytesOf
        <3>2. /\ Len(BytesOf(v[k])) = 4 /\ BytesOf(v[k])[1] = "S1" /\ BytesOf(v[k])[2] = "S2"
              /\ BytesOf(v[k])[3] = "S3" /\ BytesOf(v[k])[4] = "S4"
            BY <3>1
        <3>3. /\ O[k] = O[k - 1] + 4 /\ b[O[k - 1] + 1] = "S1" /\ b[O[k - 1] + 2] = "S2"
              /\ b[O[k - 1] + 3] = "S3" /\ b[O[k - 1] + 4] = "S4"
            <4>1. 1 \in 1..4 /\ 2 \in 1..4 /\ 3 \in 1..4 /\ 4 \in 1..4 OBVIOUS
            <4>2. O[k] = O[k - 1] + 4 BY <3>2, <1>8
            <4>3. \A m \in 1..4 : b[O[k - 1] + m] = BytesOf(v[k])[m] BY <3>2, <1>8
            <4> QED BY <3>2, <4>1, <4>2, <4>3
        <3> QED BY <2>2, <3>3
    <2>3. CASE v[k] \notin {"E", "S"}
        <3>1. BytesOf(v[k]) = <<v[k]>> BY <2>3 DEF BytesOf
        <3>2. Len(BytesOf(v[k])) = 1 /\ BytesOf(v[k])[1] = v[k] BY <3>1
        <3>3. O[k] = O[k - 1] + 1 /\ b[O[k - 1] + 1] = v[k] BY <3>2, <1>8, SMTT(40)
        <3> QED BY <2>3, <3>3
    <2> QED BY <2>1, <2>2, <2>3
<1>10. Laid(v, O, b) BY <1>4, <1>5, <1>6, <1>7, <1>9 DEF Laid
<1> QED BY <1>10 DEF O, b

\* Offsets rise, and every offset is that of a character or inside one.
LEMMA Rises ==
    ASSUME NEW v, NEW O, NEW b, Laid(v, O, b), Len(v) \in Nat
    PROVE  /\ \A k \in 1..Len(v) : O[k - 1] \in Nat /\ O[k] \in Nat /\ O[k - 1] < O[k]
           /\ \A i, j \in 0..Len(v) : i < j => O[i] < O[j]
           /\ \A i, j \in 0..Len(v) : i <= j => O[i] <= O[j]
           /\ \A o \in 0..Len(b) : \E k \in 0..Len(v) : o <= O[k] /\ (k > 0 => O[k - 1] < o)
<1> DEFINE n == Len(v)
<1>1. O \in [0..n -> Nat] /\ O[0] = 0 /\ O[n] = Len(b) /\ n \in Nat BY DEF Laid
<1>2. ASSUME NEW k \in 1..n PROVE O[k - 1] \in Nat /\ O[k] \in Nat /\ O[k - 1] < O[k]
    <2>1. O[k - 1] \in Nat BY <1>1
    <2>2. O[k] \in {O[k - 1] + 1, O[k - 1] + 2, O[k - 1] + 4} BY DEF Laid
    <2> QED BY <2>1, <2>2, SMTT(40)
<1>3. ASSUME NEW i \in 0..n, NEW j \in 0..n, i < j PROVE O[i] < O[j]
    <2> DEFINE P == {k \in Nat : i < k => O[i] < O[k]}
    <2>1. 0 \in P OBVIOUS
    <2>2. ASSUME NEW k \in 1..n, k - 1 \in P PROVE k \in P
        <3>1. O[k - 1] \in Nat /\ O[k] \in Nat /\ O[k - 1] < O[k] BY <1>2
        <3>2. CASE i < k - 1 BY <2>2, <3>1, <3>2, <1>1
        <3>3. CASE i = k - 1 BY <3>1, <3>3
        <3>4. CASE i >= k BY <3>4
        <3> QED BY <3>2, <3>3, <3>4
    <2>3. 0..n \subseteq P
        <3> HIDE DEF P, n
        <3> QED BY <1>1, <2>1, <2>2, Along
    <2> QED BY <2>3, <1>3
<1>4. ASSUME NEW o \in 0..Len(b)
      PROVE  \E k \in 0..n : o <= O[k] /\ (k > 0 => O[k - 1] < o)
    <2> DEFINE P == {k \in Nat : \/ O[k] < o
                                 \/ \E m \in 0..k : o <= O[m] /\ (m > 0 => O[m - 1] < o)}
    <2>1. 0 \in P
        <3>1. 0 \in 0..0 /\ O[0] = 0 /\ o \in Nat BY <1>1
        <3> QED BY <3>1
    <2>2. ASSUME NEW k \in 1..n, k - 1 \in P PROVE k \in P
        <3>1. CASE O[k - 1] < o
            <4>1. k \in 0..k /\ O[k] \in Nat /\ o \in Nat /\ k \in Nat BY <1>1
            <4> QED BY <3>1, <4>1
        <3>2. CASE \E m \in 0..(k - 1) : o <= O[m] /\ (m > 0 => O[m - 1] < o)
            <4>1. \A m \in 0..(k - 1) : m \in 0..k OBVIOUS
            <4> QED BY <3>2, <4>1
        <3> QED BY <2>2, <3>1, <3>2
    <2>3. n \in P
        <3> HIDE DEF P, n
        <3> QED BY <1>1, <2>1, <2>2, Along
    <2>4. ~(O[n] < o) BY <1>1
    <2> QED BY <2>3, <2>4
<1>5. ASSUME NEW i \in 0..n, NEW j \in 0..n, i <= j PROVE O[i] <= O[j]
    <2>1. CASE i = j BY <1>1, <2>1
    <2>2. CASE i # j
        <3>1. O[i] < O[j] BY <2>2, <1>5, <1>3
        <3> QED BY <3>1, <1>1
    <2> QED BY <2>1, <2>2
<1> QED BY <1>2, <1>3, <1>4, <1>5

Continuations == {"E2", "S2", "S3", "S4"}
\* The bytes of a character.
LEMMA Inside ==
    ASSUME NEW v, NEW O, NEW b, Laid(v, O, b), Len(v) \in Nat, NEW k \in 1..Len(v), v[k] \in Marked
    PROVE  /\ b[O[k - 1] + 1] \notin Continuations
           /\ \A o \in Nat : O[k - 1] < o /\ o < O[k] => b[o + 1] \in Continuations
           /\ \A o \in Nat : O[k - 1] < o /\ o < O[k] => b[o] \notin Terminators
           /\ b[O[k]] \in Terminators <=> v[k] \in Terminators
           /\ v[k] \in Terminators => b[O[k]] = v[k] /\ O[k] = O[k - 1] + 1
<1>1. O[k - 1] \in Nat BY Rises
<1> USE DEF Terminators, Continuations
<1>2. CASE v[k] = "E"
    <2>1. O[k] = O[k - 1] + 2 /\ b[O[k - 1] + 1] = "E1" /\ b[O[k - 1] + 2] = "E2" BY <1>2 DEF Laid
    <2>2. \A o \in Nat : O[k - 1] < o /\ o < O[k] => o = O[k - 1] + 1 /\ o + 1 = O[k - 1] + 2
        BY <1>1, <2>1
    <2> QED BY <1>2, <2>1, <2>2
<1>3. CASE v[k] = "S"
    <2>1. /\ O[k] = O[k - 1] + 4 /\ b[O[k - 1] + 1] = "S1" /\ b[O[k - 1] + 2] = "S2"
          /\ b[O[k - 1] + 3] = "S3" /\ b[O[k - 1] + 4] = "S4"
        BY <1>3 DEF Laid
    <2>2. \A o \in Nat : O[k - 1] < o /\ o < O[k] =>
              \/ o = O[k - 1] + 1 /\ o + 1 = O[k - 1] + 2
              \/ o = O[k - 1] + 2 /\ o + 1 = O[k - 1] + 3
              \/ o = O[k - 1] + 3 /\ o + 1 = O[k - 1] + 4
        <3>1. \A p, o \in Nat : p < o /\ o < p + 4 =>
                  \/ o = p + 1 /\ o + 1 = p + 2
                  \/ o = p + 2 /\ o + 1 = p + 3
                  \/ o = p + 3 /\ o + 1 = p + 4
            OBVIOUS
        <3> QED BY <1>1, <2>1, <3>1
    <2> QED BY <1>3, <2>1, <2>2
<1>4. CASE v[k] \notin {"E", "S"}
    <2>1. O[k] = O[k - 1] + 1 /\ b[O[k - 1] + 1] = v[k] BY <1>4 DEF Laid
    <2>2. \A o \in Nat : ~(O[k - 1] < o /\ o < O[k]) BY <1>1, <2>1
    <2>3. v[k] \notin Continuations BY DEF Marked, Chars
    <2> QED BY <2>1, <2>2, <2>3
<1> QED BY <1>2, <1>3, <1>4

\* The length of a sequence is told from its bytes.
LEMMA Lengths ==
    ASSUME NEW s \in Seq(Byte), s # <<>>
    PROVE  /\ s[1] \in Ascii => validUtf8SequenceLength(s) = 1
           /\ Len(s) >= 2 /\ s[1] = "E1" /\ s[2] = "E2" => validUtf8SequenceLength(s) = 2
           /\ Len(s) >= 4 /\ s[1] = "S1" /\ s[2] = "S2" /\ s[3] = "S3" /\ s[4] = "S4"
              => validUtf8SequenceLength(s) = 4
           /\ s[1] \in Continuations => validUtf8SequenceLength(s) = 0
<1> USE DEF validUtf8SequenceLength, Ascii, Continuations
<1>1. ASSUME Len(s) >= 2 PROVE SubSeq(s, 1, 2) = <<s[1], s[2]>>
    <2>1. \A i \in 1..Len(s) : s[i] \in Byte OBVIOUS
    <2>2. SubSeq(s, 1, 2) \in Seq(Byte) /\ Len(SubSeq(s, 1, 2)) = 2 BY <1>1
    <2>3. <<s[1], s[2]>> \in Seq(Byte) /\ Len(<<s[1], s[2]>>) = 2 BY <1>1, <2>1
    <2>4. \A i \in 1..2 : SubSeq(s, 1, 2)[i] = s[i] BY <1>1
    <2>5. \A i \in 1..2 : <<s[1], s[2]>>[i] = s[i] OBVIOUS
    <2> QED BY <2>2, <2>3, <2>4, <2>5, SeqEqual, ZenonT(40)
<1>2. ASSUME Len(s) >= 4 PROVE SubSeq(s, 1, 4) = <<s[1], s[2], s[3], s[4]>>
    <2>1. \A i \in 1..Len(s) : s[i] \in Byte OBVIOUS
    <2>2. SubSeq(s, 1, 4) \in Seq(Byte) /\ Len(SubSeq(s, 1, 4)) = 4 BY <1>2
    <2>3. <<s[1], s[2], s[3], s[4]>> \in Seq(Byte) /\ Len(<<s[1], s[2], s[3], s[4]>>) = 4 BY <1>2, <2>1
    <2>4. \A i \in 1..4 : SubSeq(s, 1, 4)[i] = s[i] BY <1>2
    <2>5. \A i \in 1..4 : <<s[1], s[2], s[3], s[4]>>[i] = s[i] OBVIOUS
    <2> QED BY <2>2, <2>3, <2>4, <2>5, SeqEqual, ZenonT(40)
<1>3. s[1] \in Ascii => validUtf8SequenceLength(s) = 1 OBVIOUS
<1>4. Len(s) >= 2 /\ s[1] = "E1" /\ s[2] = "E2" => validUtf8SequenceLength(s) = 2 BY <1>1
<1>5. ASSUME Len(s) >= 4, s[1] = "S1", s[2] = "S2", s[3] = "S3", s[4] = "S4"
      PROVE  validUtf8SequenceLength(s) = 4
    <2>1. SubSeq(s, 1, 4) = <<"S1", "S2", "S3", "S4">> BY <1>2, <1>5
    <2>2. SubSeq(s, 1, 2) # <<"E1", "E2">>
        <3>1. SubSeq(s, 1, 2)[1] = "S1" BY <1>1, <1>5
        <3>2. <<"E1", "E2">>[1] = "E1" OBVIOUS
        <3> QED BY <3>1, <3>2
    <2> QED BY <1>5, <2>1, <2>2
<1>6. ASSUME s[1] \in Continuations PROVE validUtf8SequenceLength(s) = 0
    <2>1. Len(s) >= 2 => SubSeq(s, 1, 2) # <<"E1", "E2">>
        <3>1. Len(s) >= 2 => SubSeq(s, 1, 2)[1] = s[1] BY <1>1
        <3>2. <<"E1", "E2">>[1] = "E1" OBVIOUS
        <3> QED BY <3>1, <3>2, <1>6
    <2>2. Len(s) >= 4 => SubSeq(s, 1, 4) # <<"S1", "S2", "S3", "S4">>
        <3>1. Len(s) >= 4 => SubSeq(s, 1, 4)[1] = s[1] BY <1>2
        <3>2. <<"S1", "S2", "S3", "S4">>[1] = "S1" OBVIOUS
        <3> QED BY <3>1, <3>2, <1>6
    <2> QED BY <1>6, <2>1, <2>2
<1> QED BY <1>3, <1>4, <1>5, <1>6

-----------------------------------------------------------------------------
(* Positions: the code units of a text.                                    *)

\* What is left of a buffer from an offset on.
LEMMA Rest ==
    ASSUME NEW b \in Seq(Byte), NEW o \in Nat, o < Len(b)
    PROVE  LET r == Part(b, o, Len(b)) IN
           /\ r \in Seq(Byte) /\ r # <<>> /\ Len(r) = Len(b) - o
           /\ \A m \in 1..Len(r) : r[m] = b[o + m]
<1> DEFINE L == Len(b)
           r == SubSeq(b, o + 1, L)
<1>1. L \in Nat /\ \A i \in (o + 1)..L : b[i] \in Byte OBVIOUS
<1>2. r \in Seq(Byte) /\ Len(r) = L - o
    <2>1. o + 1 \in Int /\ L \in Int /\ o + 1 <= L /\ L - (o + 1) + 1 = L - o BY <1>1
    <2>2. Len(r) = L - o BY <1>1, <2>1, SubSeqProperties
    <2>3. r \in Seq(Byte) BY <1>1, <2>1, SubSeqProperties
    <2> QED BY <2>2, <2>3
<1>3. \A m \in 1..(L - o) : r[m] = b[o + m] BY <1>1
<1>4. r # <<>>
    <2>1. Len(r) # 0 BY <1>1, <1>2
    <2>2. Len(<<>>) = 0 OBVIOUS
    <2> HIDE DEF r
    <2> QED BY <2>1, <2>2
<1> QED BY <1>2, <1>3, <1>4 DEF Part

\* What is counted where a character starts, and inside one.
LEMMA Steps ==
    ASSUME NEW v \in Seq(Marked), NEW O, NEW b, Laid(v, O, b), NEW k \in 1..Len(v)
    PROVE  /\ StepBytes(Part(b, O[k - 1], Len(b))) = O[k] - O[k - 1]
           /\ StepUnits(Part(b, O[k - 1], Len(b))) = UnitsOf(v[k])
           /\ \A o \in Nat : O[k - 1] < o /\ o < O[k] =>
                 StepBytes(Part(b, o, Len(b))) = 1 /\ StepUnits(Part(b, o, Len(b))) = 1
<1> DEFINE L == Len(b)
           p == O[k - 1]
<1>1. b \in Seq(Byte) /\ L \in Nat /\ v[k] \in Marked /\ Len(v) \in Nat BY DEF Laid
<1>2. p \in Nat /\ O[k] \in Nat /\ p < O[k] /\ O[k] <= L
    <2>1. k \in 0..Len(v) /\ Len(v) \in 0..Len(v) /\ k <= Len(v) BY <1>1
    <2>2. O[Len(v)] = L BY DEF Laid
    <2> QED BY <1>1, <2>1, <2>2, Rises
<1> DEFINE r == Part(b, p, L)
<1>3. r \in Seq(Byte) /\ r # <<>> /\ Len(r) = L - p /\ \A m \in 1..Len(r) : r[m] = b[p + m]
    <2>1. p < L BY <1>1, <1>2
    <2> QED BY <1>1, <1>2, <2>1, Rest
<1>4. StepBytes(r) = O[k] - p /\ StepUnits(r) = UnitsOf(v[k])
    <2> HIDE DEF r
    <2>1. CASE v[k] = "E"
        <3>1. O[k] = p + 2 /\ b[p + 1] = "E1" /\ b[p + 2] = "E2" BY <2>1 DEF Laid
        <3> HIDE DEF p, L
        <3>2. Len(r) >= 2 /\ r[1] = "E1" /\ r[2] = "E2" BY <1>1, <1>2, <1>3, <3>1
        <3>3. validUtf8SequenceLength(r) = 2 BY <1>3, <3>2, Lengths
        <3> QED BY <1>2, <2>1, <3>1, <3>3 DEF StepBytes, StepUnits, UnitsOf
    <2>2. CASE v[k] = "S"
        <3>1. O[k] = p + 4 /\ b[p + 1] = "S1" /\ b[p + 2] = "S2" /\ b[p + 3] = "S3" /\ b[p + 4] = "S4"
            BY <2>2 DEF Laid
        <3> HIDE DEF p, L
        <3>2. Len(r) >= 4 BY <1>1, <1>2, <1>3, <3>1
        <3>3. 1 \in 1..Len(r) /\ 2 \in 1..Len(r) /\ 3 \in 1..Len(r) /\ 4 \in 1..Len(r) BY <1>3, <3>2
        <3>4. r[1] = "S1" /\ r[2] = "S2" /\ r[3] = "S3" /\ r[4] = "S4"
            BY <1>3, <3>1, <3>3
        <3>5. validUtf8SequenceLength(r) = 4 BY <1>3, <3>2, <3>4, Lengths
        <3> QED BY <1>2, <2>2, <3>1, <3>5 DEF StepBytes, StepUnits, UnitsOf
    <2>3. CASE v[k] \notin {"E", "S"}
        <3>1. O[k] = p + 1 /\ b[p + 1] = v[k] BY <2>3 DEF Laid
        <3> HIDE DEF p, L
        <3>2. r[1] = v[k] BY <1>1, <1>2, <1>3, <3>1
        <3>3. v[k] \in Ascii BY <1>1, <2>3 DEF Ascii, Marked, Chars
        <3>4. validUtf8SequenceLength(r) = 1 BY <1>3, <3>2, <3>3, Lengths
        <3> QED BY <1>2, <2>3, <3>1, <3>4 DEF StepBytes, StepUnits, UnitsOf
    <2> QED BY <2>1, <2>2, <2>3
<1>5. ASSUME NEW o \in Nat, p < o, o < O[k]
      PROVE  StepBytes(Part(b, o, L)) = 1 /\ StepUnits(Part(b, o, L)) = 1
    <2>1. b[o + 1] \in Continuations BY <1>1, <1>5, Inside
    <2> DEFINE s == Part(b, o, L)
    <2>2. s \in Seq(Byte) /\ s # <<>> /\ Len(s) = L - o /\ \A m \in 1..Len(s) : s[m] = b[o + m]
        <3>1. o < L BY <1>1, <1>2, <1>5
        <3> QED BY <1>1, <3>1, Rest
    <2> HIDE DEF s
    <2>3. s[1] \in Continuations
        <3>1. 1 \in 1..Len(s) BY <2>2
        <3> QED BY <2>1, <2>2, <3>1
    <2>4. validUtf8SequenceLength(s) = 0 BY <2>2, <2>3, Lengths
    <2>5. StepBytes(s) = 1 /\ StepUnits(s) = 1 BY <2>4 DEF StepBytes, StepUnits
    <2> QED BY <2>5 DEF s
<1> QED BY <1>4, <1>5

\* The code units before each character.
Counted(v, U) ==
    U \in [0..Len(v) -> Nat] /\ U[0] = 0 /\ \A k \in 1..Len(v) : U[k] = U[k - 1] + UnitsOf(v[k])

\* Every text has such a count.
LEMMA CountExists ==
    ASSUME NEW v \in Seq(Marked)
    PROVE  \E U : Counted(v, U)
<1> DEFINE n == Len(v)
           step == [x \in (1..n) \X Nat |-> x[2] + UnitsOf(v[x[1]])]
<1>1. n \in Nat OBVIOUS
<1>2. step \in [(1..n) \X Nat -> Nat] BY DEF UnitsOf
<1>3. PICK U : U \in Paths(n, Nat, 0, step)
    <2> HIDE DEF n, step
    <2> QED BY <1>1, <1>2, PathExists
<1>4. U \in [0..n -> Nat] /\ U[0] = 0 /\ \A k \in 1..n : U[k] = step[<<k, U[k - 1]>>]
    <2> HIDE DEF step
    <2> QED BY <1>3 DEF Paths
<1>5. ASSUME NEW k \in 1..n PROVE U[k] = U[k - 1] + UnitsOf(v[k])
    <2>1. U[k - 1] \in Nat BY <1>4
    <2> QED BY <1>4, <2>1
<1> QED BY <1>4, <1>5 DEF Counted

\* A text is as long as the units of its characters.
LEMMA UnitsCounted ==
    ASSUME NEW v \in Seq(Marked), NEW U, Counted(v, U)
    PROVE  utf16Length(Bytes(v)) = U[Len(v)]
<1> DEFINE n == Len(v)
           O == Offsets(v)
           b == Bytes(v)
           L == Len(b)
           Rest_(i) == Part(b, i, L)
           Def(f) == [i \in 0..L |-> IF i = L THEN 0 ELSE StepUnits(Rest_(i)) + f[i + StepBytes(Rest_(i))]]
           count == CHOOSE f : f = Def(f)
           At(o, k) == o <= O[k] /\ (k > 0 => O[k - 1] < o)
           K(o) == CHOOSE k \in 0..n : At(o, k)
           f == [o \in 0..L |-> (O[K(o)] - o) + (U[n] - U[K(o)])]
<1>1. Laid(v, O, b) /\ n \in Nat BY Layout
<1>2. b \in Seq(Byte) /\ L \in Nat /\ O[n] = L /\ O \in [0..n -> Nat] /\ O[0] = 0 BY <1>1 DEF Laid
<1>3. U \in [0..n -> Nat] /\ \A k \in 1..n : U[k] = U[k - 1] + UnitsOf(v[k]) BY DEF Counted
<1>4. utf16Length(b) = count[0] BY DEF utf16Length
<1> HIDE DEF O, b
<1>16. n \in 0..n /\ L \in 0..L /\ \A k \in 0..n : O[k] \in Nat /\ U[k] \in Nat
    <2> HIDE DEF n, L
    <2> QED BY <1>1, <1>2, <1>3
<1>17. \A o \in 0..L : \E k \in 0..n : At(o, k)
    <2> HIDE DEF n, L
    <2> QED BY <1>1, Rises DEF n, L
<1>5. \A i, j \in 0..n : i < j => O[i] < O[j] BY <1>1, Rises
<1>6. ASSUME NEW o \in 0..L, NEW k \in 0..n, At(o, k) PROVE K(o) = k
    <2>1. \A m \in 0..n : At(o, m) => m = k
        <3>1. SUFFICES ASSUME NEW m \in 0..n, At(o, m) PROVE m = k OBVIOUS
        <3>2. ASSUME m < k PROVE FALSE
            <4>1. k - 1 \in 0..n /\ m <= k - 1 /\ k > 0 BY <3>2, <1>1
            <4>2. O[m] <= O[k - 1]
                <5>1. CASE m = k - 1 BY <5>1, <1>16
                <5>2. CASE m < k - 1 BY <4>1, <5>2, <1>16, <1>5
                <5> QED BY <4>1, <5>1, <5>2
            <4>3. O[k - 1] < o /\ o <= O[m] BY <3>1, <4>1, <1>6
            <4> QED BY <4>1, <4>2, <4>3, <1>16
        <3>3. ASSUME k < m PROVE FALSE
            <4>1. m - 1 \in 0..n /\ k <= m - 1 /\ m > 0 BY <3>3, <1>1
            <4>2. O[k] <= O[m - 1]
                <5>1. CASE k = m - 1 BY <5>1, <1>16
                <5>2. CASE k < m - 1 BY <4>1, <5>2, <1>16, <1>5
                <5> QED BY <4>1, <5>1, <5>2
            <4>3. O[m - 1] < o /\ o <= O[k] BY <3>1, <4>1, <1>6
            <4> QED BY <4>1, <4>2, <4>3, <1>16
        <3> QED BY <3>2, <3>3, <1>1
    <2> HIDE DEF At
    <2> QED BY <2>1, <1>6
<1>7. ASSUME NEW k \in 0..n PROVE O[k] \in 0..L /\ f[O[k]] = U[n] - U[k]
    <2>1. O[k] \in 0..L
        <3>1. CASE k = n BY <3>1, <1>2
        <3>2. CASE k # n
            <4>1. k < n BY <3>2, <1>1
            <4>2. O[k] < O[n] BY <4>1, <1>16, <1>5
            <4>3. O[k] \in Nat BY <1>16
            <4> QED BY <4>2, <4>3, <1>2
        <3> QED BY <3>1, <3>2
    <2>2. At(O[k], k)
        <3>1. k > 0 => O[k - 1] < O[k] BY <1>1, <1>5
        <3> QED BY <3>1, <1>2
    <2>3. K(O[k]) = k BY <2>1, <2>2, <1>6
    <2>4. O[k] - O[k] = 0 /\ U[n] - U[k] \in Int BY <1>16
    <2> HIDE DEF K
    <2> QED BY <2>1, <2>3, <2>4
<1> HIDE DEF K
<1>8. f = Def(f)
    <2>1. ASSUME NEW i \in 0..L, i # L
          PROVE  f[i] = StepUnits(Rest_(i)) + f[i + StepBytes(Rest_(i))]
        <3>1. PICK k \in 0..n : At(i, k)
            <4> HIDE DEF At
            <4> QED BY <1>17
        <3>2. CASE i = O[k]
            <4>1. k + 1 \in 1..n /\ (k + 1) - 1 = k /\ k + 1 \in 0..n
                <5>1. k # n BY <3>2, <2>1, <1>2
                <5> QED BY <5>1, <1>1
            <4>2. StepBytes(Rest_(i)) = O[k + 1] - O[k] /\ StepUnits(Rest_(i)) = UnitsOf(v[k + 1])
                BY <3>2, <4>1, <1>1, Steps
            <4>3. i + StepBytes(Rest_(i)) = O[k + 1] BY <3>2, <4>1, <4>2, <1>2
            <4>4. f[i] = U[n] - U[k] BY <3>2, <1>7
            <4>5. f[O[k + 1]] = U[n] - U[k + 1] BY <4>1, <1>7
            <4>6. U[k + 1] = U[k] + UnitsOf(v[k + 1]) BY <4>1, <1>3
            <4>7. UnitsOf(v[k + 1]) \in Nat /\ U[k] \in Nat /\ U[n] \in Nat BY <1>1, <1>3 DEF UnitsOf
            <4> HIDE DEF f, Rest_
            <4> QED BY <4>2, <4>3, <4>4, <4>5, <4>6, <4>7
        <3>3. CASE i # O[k]
            <4>1. k \in 1..n /\ O[k - 1] < i /\ i < O[k] /\ i \in Nat
                <5>1. k # 0 BY <3>1, <3>3, <1>2
                <5> QED BY <3>1, <3>3, <5>1, <1>1, <1>2
            <4>2. StepBytes(Rest_(i)) = 1 /\ StepUnits(Rest_(i)) = 1
                BY <4>1, <1>1, Steps
            <4>3. i + 1 \in 0..L /\ At(i + 1, k)
                <5>0. k - 1 \in 0..n /\ k \in 0..n BY <4>1, <1>1
                <5>1. O[k - 1] \in Nat /\ O[k] \in Nat /\ O[k] \in 0..L BY <5>0, <1>16, <1>7
                <5> QED BY <4>1, <5>1, <1>2
            <4>4. f[i] = (O[k] - i) + (U[n] - U[k])
                <5>1. K(i) = k BY <3>1, <1>6
                <5> QED BY <5>1
            <4>5. f[i + 1] = (O[k] - (i + 1)) + (U[n] - U[k])
                <5>1. K(i + 1) = k BY <4>3, <1>6
                <5> QED BY <5>1, <4>3
            <4>6. O[k] \in Nat /\ U[k] \in Nat /\ U[n] \in Nat BY <1>16
            <4> HIDE DEF f, Rest_, n
            <4>7. \A x, y, u \in Int : (x - i) + (y - u) = 1 + ((x - (i + 1)) + (y - u)) BY <4>1
            <4>8. f[i] = 1 + f[i + 1] BY <4>4, <4>5, <4>6, <4>7, SMTT(40)
            <4> QED BY <4>2, <4>8
        <3> QED BY <3>2, <3>3
    <2>2. f[L] = 0
        <3>1. f[O[n]] = U[n] - U[n] /\ U[n] \in Nat BY <1>16, <1>7
        <3> HIDE DEF f, n
        <3> QED BY <3>1, <1>2
    <2>3. \A i \in 0..L : f[i] = Def(f)[i]
        <3> HIDE DEF f, Rest_
        <3> QED BY <2>1, <2>2
    <2>4. f = [i \in 0..L |-> f[i]] /\ Def(f) = [i \in 0..L |-> Def(f)[i]] OBVIOUS
    <2> HIDE DEF f, Def
    <2> QED BY <2>3, <2>4
<1>9. count = Def(count)
    <2> HIDE DEF f, Def
    <2> QED BY <1>8
<1> HIDE DEF count
<1>10. \A i \in 0..L : count[i] = IF i = L THEN 0 ELSE StepUnits(Rest_(i)) + count[i + StepBytes(Rest_(i))]
    <2>1. count = [i \in 0..L |-> IF i = L THEN 0 ELSE StepUnits(Rest_(i)) + count[i + StepBytes(Rest_(i))]]
        BY <1>9
    <2> HIDE DEF Rest_
    <2> QED BY <2>1
<1> DEFINE P == {m \in Nat : m <= n => count[O[n - m]] = U[n] - U[n - m]}
<1>11. 0 \in P
    <2>1. n - 0 = n /\ L \in 0..L /\ U[n] \in Nat BY <1>1, <1>16
    <2>2. count[O[n]] = 0 BY <2>1, <1>2, <1>10
    <2> QED BY <2>1, <2>2
<1>12. ASSUME NEW m \in 1..n, m - 1 \in P PROVE m \in P
    <2> DEFINE k == n - m
    <2>1. k \in 0..n /\ k + 1 \in 1..n /\ (k + 1) - 1 = k /\ n - (m - 1) = k + 1 BY <1>1
    <2>2. count[O[k + 1]] = U[n] - U[k + 1] BY <2>1, <1>12, <1>1
    <2>3. StepBytes(Rest_(O[k])) = O[k + 1] - O[k] /\ StepUnits(Rest_(O[k])) = UnitsOf(v[k + 1])
        BY <2>1, <1>1, Steps
    <2>4. O[k] \in 0..L /\ O[k] # L /\ O[k] \in Nat /\ O[k + 1] \in Nat
        <3>1. O[k] < O[k + 1] /\ O[k + 1] <= L
            <4>1. k \in 0..n /\ k + 1 \in 0..n /\ k < k + 1 BY <2>1, <1>1
            <4>2. O[k + 1] \in 0..L BY <4>1, <1>7
            <4> QED BY <4>1, <4>2, <1>5
        <3> QED BY <2>1, <3>1, <1>2, SMTT(40)
    <2> HIDE DEF k
    <2>5. O[k] + StepBytes(Rest_(O[k])) = O[k + 1] BY <2>3, <2>4
    <2>6. count[O[k]] = UnitsOf(v[k + 1]) + count[O[k + 1]]
        <3> HIDE DEF Rest_
        <3> QED BY <2>3, <2>4, <2>5, <1>10
    <2>7. U[k + 1] = U[k] + UnitsOf(v[k + 1]) BY <2>1, <1>3
    <2>8. UnitsOf(v[k + 1]) \in Nat /\ U[k] \in Nat /\ U[n] \in Nat BY <2>1, <1>1, <1>3 DEF UnitsOf
    <2>9. count[O[k]] = U[n] - U[k] BY <2>2, <2>6, <2>7, <2>8
    <2> QED BY <2>9 DEF k
<1>13. n \in P
    <2> HIDE DEF P, n
    <2> QED BY <1>1, <1>11, <1>12, Along
<1>14. count[O[0]] = U[n] - U[0]
    <2>1. n - n = 0 /\ n <= n BY <1>1
    <2> QED BY <1>13, <2>1
<1>15. U[0] = 0 /\ U[n] \in Nat BY <1>1, <1>3 DEF Counted
<1> QED BY <1>2, <1>4, <1>14, <1>15 DEF b

\* Units rise.
LEMMA UnitsRise ==
    ASSUME NEW v, NEW U, Counted(v, U), Len(v) \in Nat
    PROVE  /\ \A k \in 0..Len(v) : U[k] \in Nat
           /\ \A i, j \in 0..Len(v) : i < j => U[i] < U[j]
           /\ \A i, j \in 0..Len(v) : i <= j => U[i] <= U[j]
<1> DEFINE n == Len(v)
<1>1. \A k \in 0..n : U[k] \in Nat BY DEF Counted
<1>2. ASSUME NEW k \in 1..n PROVE U[k - 1] < U[k] /\ U[k - 1] \in Nat /\ U[k] \in Nat
    <2>1. U[k] = U[k - 1] + UnitsOf(v[k]) BY DEF Counted
    <2>2. UnitsOf(v[k]) \in {1, 2} BY DEF UnitsOf
    <2>3. k - 1 \in 0..n /\ k \in 0..n OBVIOUS
    <2>4. U[k - 1] \in Nat /\ U[k] \in Nat BY <1>1, <2>3
    <2> QED BY <2>1, <2>2, <2>4
<1>3. ASSUME NEW i \in 0..n, NEW j \in 0..n, i < j PROVE U[i] < U[j]
    <2> DEFINE P == {k \in Nat : i < k => U[i] < U[k]}
    <2>1. 0 \in P OBVIOUS
    <2>2. ASSUME NEW k \in 1..n, k - 1 \in P PROVE k \in P
        <3>1. U[k - 1] \in Nat /\ U[k] \in Nat /\ U[k - 1] < U[k] /\ U[i] \in Nat BY <1>1, <1>2
        <3>2. CASE i < k - 1 BY <2>2, <3>1, <3>2
        <3>3. CASE i = k - 1 BY <3>1, <3>3
        <3>4. CASE i >= k BY <3>4
        <3> QED BY <3>2, <3>3, <3>4
    <2>3. 0..n \subseteq P
        <3> HIDE DEF P, n
        <3> QED BY <2>1, <2>2, Along DEF n
    <2> QED BY <2>3, <1>3
<1>4. ASSUME NEW i \in 0..n, NEW j \in 0..n, i <= j PROVE U[i] <= U[j]
    <2>1. U[i] \in Nat /\ U[j] \in Nat BY <1>1
    <2>2. CASE i = j BY <2>1, <2>2
    <2>3. CASE i # j
        <3>1. U[i] < U[j] BY <2>3, <1>4, <1>3
        <3> QED BY <3>1, <2>1
    <2> QED BY <2>2, <2>3
<1> QED BY <1>1, <1>3, <1>4

\* The units of a part of a text.
LEMMA SliceCounted ==
    ASSUME NEW v \in Seq(Marked), NEW U, Counted(v, U), NEW i \in 0..Len(v), NEW j \in i..Len(v)
    PROVE  LET w == SubSeq(v, i + 1, j) IN
           w \in Seq(Marked) /\ Len(w) = j - i /\ Counted(w, [k \in 0..(j - i) |-> U[i + k] - U[i]])
<1> DEFINE n == Len(v)
           w == SubSeq(v, i + 1, j)
           W == [k \in 0..(j - i) |-> U[i + k] - U[i]]
<1>1. w \in Seq(Marked) /\ Len(w) = j - i /\ \A k \in 1..(j - i) : w[k] = v[i + k]
    <2>1. n \in Nat OBVIOUS
    <2>2. w \in Seq(Marked) BY <2>1
    <2>3. Len(w) = j - i
        <3>1. CASE i + 1 <= j BY <3>1, <2>1
        <3>2. CASE ~(i + 1 <= j)
            <4>1. i = j BY <3>2, <2>1
            <4>2. w = <<>> BY <4>1, <2>1, SubSeqEmpty
            <4> QED BY <4>1, <4>2
        <3> QED BY <3>1, <3>2
    <2>4. \A k \in 1..(j - i) : w[k] = v[i + k] BY <2>1
    <2> QED BY <2>2, <2>3, <2>4
<1>2. \A k \in 0..n : U[k] \in Nat BY UnitsRise
<1> HIDE DEF w
<1>3. Counted(w, W)
    <2>1. ASSUME NEW k \in 0..(j - i) PROVE U[i + k] - U[i] \in Nat
        <3>1. i + k \in 0..n /\ i <= i + k OBVIOUS
        <3>2. U[i] <= U[i + k] BY <3>1, UnitsRise
        <3> QED BY <3>1, <3>2, <1>2
    <2>2. W \in [0..Len(w) -> Nat] BY <2>1, <1>1
    <2>3. W[0] = 0
        <3>1. i + 0 = i /\ 0 \in 0..(j - i) /\ U[i] \in Nat BY <1>2
        <3> QED BY <3>1, <1>1
    <2>4. ASSUME NEW k \in 1..Len(w) PROVE W[k] = W[k - 1] + UnitsOf(w[k])
        <3>1. i + k \in 1..n /\ (i + k) - 1 = i + (k - 1) /\ k \in 0..Len(w) /\ k - 1 \in 0..Len(w)
            BY <1>1
        <3>2. U[i + k] = U[i + (k - 1)] + UnitsOf(v[i + k]) BY <3>1 DEF Counted
        <3>3. w[k] = v[i + k] BY <1>1
        <3>4. UnitsOf(w[k]) \in Nat BY DEF UnitsOf
        <3>5. U[i + (k - 1)] \in Nat /\ U[i] \in Nat
            <4>1. i + (k - 1) \in 0..n BY <3>1
            <4> QED BY <4>1, <1>2
        <3>6. W[k] = U[i + k] - U[i] /\ W[k - 1] = U[i + (k - 1)] - U[i] BY <1>1, <3>1
        <3> HIDE DEF W
        <3> QED BY <3>2, <3>3, <3>4, <3>5, <3>6
    <2> HIDE DEF W
    <2> QED BY <2>2, <2>3, <2>4 DEF Counted
<1> HIDE DEF W
<1> QED BY <1>1, <1>3 DEF w, W

\* The units between two places.
LEMMA SliceUnits ==
    ASSUME NEW v \in Seq(Marked), NEW U, Counted(v, U), NEW i \in 0..Len(v), NEW j \in i..Len(v)
    PROVE  utf16Length(Part(Bytes(v), OffsetOf(v, i), OffsetOf(v, j))) = U[j] - U[i]
<1> DEFINE w == SubSeq(v, i + 1, j)
           W == [k \in 0..(j - i) |-> U[i + k] - U[i]]
<1>1. w \in Seq(Marked) /\ Len(w) = j - i /\ Counted(w, W) BY SliceCounted
<1> HIDE DEF w
<1>2. Part(Bytes(v), OffsetOf(v, i), OffsetOf(v, j)) = Bytes(w) BY Cuts DEF w
<1>3. utf16Length(Bytes(w)) = W[Len(w)]
    <2> HIDE DEF W
    <2> QED BY <1>1, UnitsCounted
<1>4. W[Len(w)] = U[j] - U[i]
    <2>1. j - i \in 0..(j - i) /\ i + (j - i) = j OBVIOUS
    <2> QED BY <1>1, <2>1
<1> QED BY <1>2, <1>3, <1>4

\* A column of a line is found where it is.
LEMMA Columns ==
    ASSUME NEW w \in Seq(Marked), NEW U, Counted(w, U), NEW m \in 0..Len(w)
    PROVE  utf16ToByteOffset(Bytes(w), U[m]) = OffsetOf(w, m)
<1> DEFINE n == Len(w)
           O == Offsets(w)
           b == Bytes(w)
           found == {i \in 0..Len(b) : utf16Length(Part(b, 0, i)) = U[m] /\
                        (i = Len(b) \/ b[i + 1] \notin {"E2", "S2", "S3", "S4"})}
<1>1. n \in Nat /\ Laid(w, O, b) BY Layout
<1>2. \A k \in 0..n : O[k] = OffsetOf(w, k) BY DEF Offsets
<1> HIDE DEF O
<1>3. O[0] = 0 /\ O[n] = Len(b) /\ Len(b) \in Nat BY <1>1 DEF Laid
<1>4. /\ \A i, j \in 0..n : i < j => O[i] < O[j]
      /\ \A i, j \in 0..n : i <= j => O[i] <= O[j]
      /\ \A k \in 0..n : O[k] \in Nat
    <2>1. O \in [0..n -> Nat] BY <1>1 DEF Laid
    <2> QED BY <1>1, <2>1, Rises
<1>5. ASSUME NEW k \in 0..n PROVE O[k] \in 0..Len(b) /\ utf16Length(Part(b, 0, O[k])) = U[k]
    <2>1. O[k] \in 0..Len(b)
        <3>1. n \in 0..n /\ k <= n BY <1>1
        <3>2. O[k] <= O[n] /\ O[k] \in Nat BY <3>1, <1>4
        <3> QED BY <3>2, <1>3
    <2>2. 0 \in 0..n /\ k \in 0..n BY <1>1
    <2>3. utf16Length(Part(b, OffsetOf(w, 0), OffsetOf(w, k))) = U[k] - U[0]
        BY <2>2, SliceUnits
    <2>4. U[0] = 0 /\ U[k] \in Nat BY <1>1, UnitsRise DEF Counted
    <2>5. OffsetOf(w, 0) = 0 /\ OffsetOf(w, k) = O[k] BY <2>2, <1>2, <1>3
    <2> QED BY <2>1, <2>3, <2>4, <2>5
<1>6. O[m] \in found
    <2>1. O[m] = Len(b) \/ b[O[m] + 1] \notin {"E2", "S2", "S3", "S4"}
        <3>1. CASE m = n BY <3>1, <1>3
        <3>2. CASE m # n
            <4>1. m + 1 \in 1..n /\ (m + 1) - 1 = m BY <3>2, <1>1
            <4>2. b[O[m] + 1] \notin Continuations BY <4>1, <1>1, Inside
            <4> QED BY <4>2 DEF Continuations
        <3> QED BY <3>1, <3>2
    <2> QED BY <2>1, <1>5
<1>7. ASSUME NEW i \in found PROVE i = O[m]
    <2>1. i \in 0..Len(b) OBVIOUS
    <2>2. PICK k \in 0..n : i <= O[k] /\ (k > 0 => O[k - 1] < i) BY <2>1, <1>1, Rises
    <2>3. CASE i = O[k]
        <3>1. U[k] = U[m] BY <2>3, <1>5, <1>7
        <3>2. k = m
            <4>1. \A x \in 0..n : U[x] \in Nat BY <1>1, UnitsRise
            <4>2. CASE k < m
                <5>1. U[k] < U[m] BY <4>2, <1>1, UnitsRise
                <5> QED BY <5>1, <3>1, <4>1
            <4>3. CASE m < k
                <5>1. U[m] < U[k] BY <4>3, <1>1, UnitsRise
                <5> QED BY <5>1, <3>1, <4>1
            <4> QED BY <4>2, <4>3, <1>1
        <3> QED BY <2>3, <3>2
    <2>4. CASE i # O[k]
        <3>1. k \in 1..n /\ O[k - 1] < i /\ i < O[k] /\ i \in Nat
            <4>1. k # 0 BY <2>1, <2>2, <2>4, <1>3
            <4>2. O[k] \in Nat BY <1>4
            <4> QED BY <4>1, <4>2, <2>1, <2>2, <2>4, <1>1, <1>3
        <3>2. b[i + 1] \in Continuations BY <3>1, <1>1, Inside
        <3>3. i # Len(b)
            <4>1. O[k] \in 0..Len(b) BY <1>5
            <4> QED BY <4>1, <3>1, <1>3
        <3> QED BY <3>2, <3>3, <1>7 DEF Continuations
    <2> QED BY <2>3, <2>4
<1> HIDE DEF found
<1>8. found # {} /\ \A i \in found : i = O[m] BY <1>6, <1>7
<1>9. (CHOOSE i \in found : \A j \in found : i <= j) = O[m]
    <2>1. O[m] \in Nat BY <1>4
    <2>2. \E i \in found : \A j \in found : i <= j BY <1>6, <1>8, <2>1
    <2> QED BY <2>2, <1>8
<1>10. utf16ToByteOffset(b, U[m]) = O[m] BY <1>8, <1>9 DEF utf16ToByteOffset, found
<1> QED BY <1>2, <1>10

-----------------------------------------------------------------------------
(* Positions: the lines of a buffer.                                       *)

\* The lines found up to each offset.
Scanned(text, h) ==
    /\ h \in [0..Len(text) -> Seq(Nat)] /\ h[0] = <<0>>
    /\ \A i \in 1..Len(text) : h[i] = IF EndsLine(text, i) THEN Append(h[i - 1], i) ELSE h[i - 1]

\* Every buffer has such a scan, and it ends with the offsets of all lines.
LEMMA Scan ==
    ASSUME NEW text \in Seq(Byte)
    PROVE  \E h : Scanned(text, h) /\ computeLineOffsets(text) = h[Len(text)]
<1> DEFINE L == Len(text)
           A == Seq(Nat)
           After(i, s) == IF EndsLine(text, i) THEN Append(s, i) ELSE s
           step == [x \in (1..L) \X A |-> After(x[1], x[2])]
           Def(f) == [i \in 0..L |-> IF i = 0 THEN <<0>>
                                     ELSE IF EndsLine(text, i) THEN Append(f[i - 1], i) ELSE f[i - 1]]
           lines == CHOOSE f : f = Def(f)
<1>1. L \in Nat OBVIOUS
<1>2. step \in [(1..L) \X A -> A]
    <2>1. \A i \in 1..L, s \in A : After(i, s) \in A
        <3>1. \A i \in 1..L : i \in Nat OBVIOUS
        <3> QED BY <3>1, AppendProperties
    <2> HIDE DEF After, A
    <2> QED BY <2>1
<1>3. <<0>> \in A OBVIOUS
<1>4. PICK p : p \in Paths(L, A, <<0>>, step)
    <2> HIDE DEF step, A, L
    <2>1. Paths(L, A, <<0>>, step) # {} BY <1>1, <1>2, <1>3, PathExists
    <2> QED BY <2>1
<1>5. p \in [0..L -> A] /\ p[0] = <<0>>
    <2> HIDE DEF A
    <2> QED BY <1>4 DEF Paths
<1>6. ASSUME NEW i \in 1..L PROVE p[i] = After(i, p[i - 1])
    <2>1. p[i] = step[<<i, p[i - 1]>>]
        <3> HIDE DEF step, A
        <3> QED BY <1>4 DEF Paths
    <2>2. p[i - 1] \in A BY <1>5
    <2> HIDE DEF After, A
    <2> QED BY <2>1, <2>2
<1>7. p = Def(p)
    <2>1. ASSUME NEW i \in 0..L PROVE p[i] = Def(p)[i]
        <3>1. CASE i = 0 BY <3>1, <1>5
        <3>2. CASE i # 0
            <4>1. i \in 1..L BY <3>2
            <4>2. p[i] = After(i, p[i - 1]) BY <4>1, <1>6
            <4> QED BY <3>2, <4>2
        <3> QED BY <3>1, <3>2
    <2>2. p = [i \in 0..L |-> p[i]] /\ Def(p) = [i \in 0..L |-> Def(p)[i]] BY <1>5
    <2> HIDE DEF Def
    <2> QED BY <2>1, <2>2
<1>8. lines = Def(lines)
    <2> HIDE DEF Def
    <2> QED BY <1>7
<1>9. computeLineOffsets(text) = lines[L] BY DEF computeLineOffsets
<1> HIDE DEF lines
<1>10. \A i \in 0..L : lines[i] = IF i = 0 THEN <<0>> ELSE After(i, lines[i - 1])
    <2>1. lines = [i \in 0..L |-> IF i = 0 THEN <<0>> ELSE After(i, lines[i - 1])] BY <1>8
    <2> HIDE DEF After
    <2> QED BY <2>1
<1>11. lines = p
    <2> DEFINE P == {i \in Nat : lines[i] = p[i]}
    <2>1. 0 \in P BY <1>1, <1>5, <1>10, SMTT(40)
    <2>2. ASSUME NEW i \in 1..L, i - 1 \in P PROVE i \in P
        <3>1. i \in 0..L /\ i # 0 /\ i \in Nat OBVIOUS
        <3> HIDE DEF After
        <3> QED BY <3>1, <2>2, <1>6, <1>10
    <2>3. 0..L \subseteq P
        <3> HIDE DEF P, L
        <3> QED BY <1>1, <2>1, <2>2, Along
    <2>4. lines = [i \in 0..L |-> lines[i]] BY <1>8 DEF Def
    <2>5. p = [i \in 0..L |-> p[i]] BY <1>5
    <2> QED BY <2>3, <2>4, <2>5
<1>12. Scanned(text, p) BY <1>5, <1>6 DEF Scanned
<1> QED BY <1>9, <1>11, <1>12

\* Those found up to an offset are not behind it, those found later are.
LEMMA Scans ==
    ASSUME NEW text, NEW h, Scanned(text, h), Len(text) \in Nat
    PROVE  /\ \A i \in 0..Len(text) : h[i] \in Seq(Nat) /\ Len(h[i]) \in Nat \ {0}
           /\ \A i \in 0..Len(text) : \A m \in 1..Len(h[i]) : h[i][m] <= i
           /\ \A i \in 0..Len(text) : \A j \in i..Len(text) :
                 /\ Len(h[i]) <= Len(h[j])
                 /\ \A m \in 1..Len(h[i]) : h[j][m] = h[i][m]
                 /\ \A m \in (Len(h[i]) + 1)..Len(h[j]) : h[j][m] > i
<1> DEFINE L == Len(text)
<1>1. \A i \in 0..L : h[i] \in Seq(Nat) /\ Len(h[i]) \in Nat BY DEF Scanned
<1>2. ASSUME NEW i \in 1..L
      PROVE  \/ h[i] = h[i - 1]
             \/ /\ Len(h[i]) = Len(h[i - 1]) + 1 /\ h[i][Len(h[i])] = i
                /\ \A m \in 1..Len(h[i - 1]) : h[i][m] = h[i - 1][m]
    <2>1. i - 1 \in 0..L /\ i \in Nat OBVIOUS
    <2>2. h[i - 1] \in Seq(Nat) BY <2>1, <1>1
    <2>3. h[i] = Append(h[i - 1], i) \/ h[i] = h[i - 1] BY DEF Scanned
    <2>4. \A s \in Seq(Nat) : /\ Len(Append(s, i)) = Len(s) + 1 /\ Append(s, i)[Len(s) + 1] = i
                              /\ \A m \in 1..Len(s) : Append(s, i)[m] = s[m]
        BY <2>1, AppendProperties
    <2> QED BY <2>2, <2>3, <2>4
<1>3. h[0] = <<0>> BY DEF Scanned
<1>4. ASSUME NEW i \in 0..L
      PROVE  Len(h[i]) # 0 /\ \A m \in 1..Len(h[i]) : h[i][m] <= i
    <2> DEFINE P == {k \in Nat : Len(h[k]) # 0 /\ \A m \in 1..Len(h[k]) : h[k][m] <= k}
    <2>1. 0 \in P
        <3>1. Len(<<0>>) = 1 /\ <<0>>[1] = 0 OBVIOUS
        <3> QED BY <3>1, <1>3, SMTT(40)
    <2>2. ASSUME NEW k \in 1..L, k - 1 \in P PROVE k \in P
        <3>1. k - 1 \in 0..L /\ k \in Nat /\ k \in 0..L OBVIOUS
        <3>2. Len(h[k - 1]) \in Nat /\ h[k - 1] \in Seq(Nat) /\ Len(h[k]) \in Nat BY <3>1, <1>1
        <3>3. Len(h[k - 1]) # 0 /\ \A m \in 1..Len(h[k - 1]) : h[k - 1][m] \in Nat /\ h[k - 1][m] <= k
            BY <2>2, <3>1, <3>2, SMTT(40)
        <3>4. CASE h[k] = h[k - 1] BY <3>1, <3>3, <3>4
        <3>5. CASE /\ Len(h[k]) = Len(h[k - 1]) + 1 /\ h[k][Len(h[k])] = k
                   /\ \A m \in 1..Len(h[k - 1]) : h[k][m] = h[k - 1][m]
            <4>1. ASSUME NEW m \in 1..Len(h[k]) PROVE h[k][m] <= k
                <5>1. CASE m = Len(h[k]) BY <5>1, <3>5
                <5>2. CASE m # Len(h[k])
                    <6>1. m \in 1..Len(h[k - 1]) BY <5>2, <3>2, <3>5
                    <6> QED BY <6>1, <3>3, <3>5
                <5> QED BY <5>1, <5>2
            <4> QED BY <4>1, <3>1, <3>2, <3>5
        <3> QED BY <3>4, <3>5, <1>2
    <2>3. 0..L \subseteq P
        <3> HIDE DEF P, L
        <3> QED BY <2>1, <2>2, Along DEF L
    <2> QED BY <2>3
<1>5. ASSUME NEW i \in 0..L, NEW j \in i..L
      PROVE  /\ Len(h[i]) <= Len(h[j])
             /\ \A m \in 1..Len(h[i]) : h[j][m] = h[i][m]
             /\ \A m \in (Len(h[i]) + 1)..Len(h[j]) : h[j][m] > i
    <2> DEFINE Good(k) == /\ Len(h[i]) <= Len(h[k])
                          /\ \A m \in 1..Len(h[i]) : h[k][m] = h[i][m]
                          /\ \A m \in (Len(h[i]) + 1)..Len(h[k]) : h[k][m] > i
               P == {k \in Nat : i <= k => Good(k)}
    <2>1. Good(i) BY <1>1
    <2>2. 0 \in P
        <3>1. i <= 0 => i = 0 OBVIOUS
        <3> HIDE DEF Good
        <3> QED BY <2>1, <3>1
    <2>3. ASSUME NEW k \in 1..L, k - 1 \in P PROVE k \in P
        <3>1. SUFFICES ASSUME i <= k, i # k PROVE Good(k)
            <4> HIDE DEF Good
            <4> QED BY <2>1
        <3>2. i <= k - 1 /\ k - 1 \in 0..L /\ k \in 0..L /\ k > i BY <3>1
        <3>3. Good(k - 1)
            <4> HIDE DEF Good
            <4> QED BY <2>3, <3>2
        <3>4. Len(h[k - 1]) \in Nat /\ Len(h[k]) \in Nat /\ Len(h[i]) \in Nat BY <3>2, <1>1
        <3>5. CASE h[k] = h[k - 1] BY <3>3, <3>5
        <3>6. CASE /\ Len(h[k]) = Len(h[k - 1]) + 1 /\ h[k][Len(h[k])] = k
                   /\ \A m \in 1..Len(h[k - 1]) : h[k][m] = h[k - 1][m]
            <4>1. Len(h[i]) <= Len(h[k]) BY <3>3, <3>4, <3>6
            <4>2. ASSUME NEW m \in 1..Len(h[i]) PROVE h[k][m] = h[i][m]
                <5>1. m \in 1..Len(h[k - 1]) BY <3>3, <3>4
                <5> QED BY <5>1, <3>3, <3>6
            <4>3. ASSUME NEW m \in (Len(h[i]) + 1)..Len(h[k]) PROVE h[k][m] > i
                <5>1. CASE m = Len(h[k]) BY <5>1, <3>2, <3>6
                <5>2. CASE m # Len(h[k])
                    <6>1. m \in (Len(h[i]) + 1)..Len(h[k - 1]) /\ m \in 1..Len(h[k - 1])
                        BY <5>2, <3>4, <3>6, SMTT(40)
                    <6> QED BY <6>1, <3>3, <3>6
                <5> QED BY <5>1, <5>2
            <4> QED BY <4>1, <4>2, <4>3
        <3> HIDE DEF Good
        <3> QED BY <3>5, <3>6, <1>2
    <2>4. 0..L \subseteq P
        <3> HIDE DEF P, L
        <3> QED BY <2>2, <2>3, Along DEF L
    <2>5. j \in 0..L /\ i <= j OBVIOUS
    <2> HIDE DEF Good
    <2>6. Good(j) BY <2>4, <2>5
    <2> QED BY <2>6 DEF Good
<1> QED BY <1>1, <1>4, <1>5

\* The line of an offset is the last one found up to it.
LEMMA LineAt ==
    ASSUME NEW text, NEW h, Scanned(text, h), Len(text) \in Nat, NEW o \in 0..Len(text)
    PROVE  LET lines == h[Len(text)] IN
           /\ LineAmong(lines, o) = Len(h[o]) - 1
           /\ Len(h[o]) <= Len(lines) /\ lines[Len(h[o])] = h[o][Len(h[o])]
<1> DEFINE lines == h[Len(text)]
           n == Len(h[o])
           Holds(m) == lines[m + 1] <= o /\ (m + 1 < Len(lines) => o < lines[m + 2])
<1>1. Len(text) \in o..Len(text) /\ Len(text) \in 0..Len(text) OBVIOUS
<1>2. lines \in Seq(Nat) /\ Len(lines) \in Nat /\ n \in Nat \ {0} BY <1>1, Scans
<1>3. /\ n <= Len(lines)
      /\ \A m \in 1..n : lines[m] = h[o][m]
      /\ \A m \in (n + 1)..Len(lines) : lines[m] > o
    BY <1>1, Scans
<1>4. \A m \in 1..n : h[o][m] <= o BY Scans
<1>5. \A m \in 1..Len(lines) : lines[m] \in Nat BY <1>2
<1> HIDE DEF lines, n
<1>6. n - 1 \in 0..(Len(lines) - 1) /\ Holds(n - 1)
    <2>1. n - 1 \in 0..(Len(lines) - 1) /\ (n - 1) + 1 = n /\ (n - 1) + 2 = n + 1 /\ n \in 1..n
        BY <1>2, <1>3
    <2>2. lines[n] <= o BY <2>1, <1>3, <1>4
    <2>3. n < Len(lines) => o < lines[n + 1]
        <3>1. n < Len(lines) => n + 1 \in (n + 1)..Len(lines) /\ n + 1 \in 1..Len(lines) BY <1>2
        <3> QED BY <3>1, <1>3, <1>5
    <2> QED BY <2>1, <2>2, <2>3
<1>7. ASSUME NEW m \in 0..(Len(lines) - 1), Holds(m) PROVE m = n - 1
    <2>1. ASSUME m + 1 < n PROVE FALSE
        <3>1. m + 2 \in 1..n /\ m + 1 < Len(lines) /\ m + 2 \in 1..Len(lines) BY <2>1, <1>2, <1>3
        <3>2. lines[m + 2] <= o BY <3>1, <1>3, <1>4
        <3>3. o < lines[m + 2] /\ lines[m + 2] \in Nat BY <3>1, <1>5, <1>7
        <3> QED BY <3>2, <3>3
    <2>2. ASSUME m + 1 > n PROVE FALSE
        <3>1. m + 1 \in (n + 1)..Len(lines) /\ m + 1 \in 1..Len(lines) BY <2>2, <1>2
        <3>2. lines[m + 1] > o /\ lines[m + 1] \in Nat BY <3>1, <1>3, <1>5
        <3> QED BY <3>2, <1>7
    <2> QED BY <2>1, <2>2, <1>2
<1>8. LineAmong(lines, o) = CHOOSE m \in 0..(Len(lines) - 1) : Holds(m) BY DEF LineAmong
<1>9. LineAmong(lines, o) = n - 1
    <2> HIDE DEF Holds
    <2> QED BY <1>6, <1>7, <1>8
<1>10. lines[n] = h[o][n]
    <2>1. n \in 1..n BY <1>2
    <2> QED BY <2>1, <1>3
<1> QED BY <1>3, <1>9, <1>10 DEF lines, n

-----------------------------------------------------------------------------
(* Positions: places.                                                      *)

Ends(t, k) == t[k] \in Terminators /\ ~Split(t, k)

\* The places of a text, and where their lines start.
Placed(t, q, st) ==
    /\ q \in [0..Len(t) -> Position] /\ q[0] = [line |-> 0, character |-> 0]
    /\ st \in [0..Len(t) -> Nat] /\ st[0] = 0
    /\ \A k \in 1..Len(t) :
          /\ Ends(t, k) => /\ q[k] = [line |-> q[k - 1].line + 1, character |-> 0]
                           /\ st[k] = k
          /\ ~Ends(t, k) => /\ q[k] = [line |-> q[k - 1].line,
                                       character |-> q[k - 1].character + UnitsOf(t[k])]
                            /\ st[k] = st[k - 1]

\* Every text has places, and they are those of the client.
LEMMA PlacesExist ==
    ASSUME NEW t \in Seq(Chars)
    PROVE  \E q, st : Placed(t, q, st) /\ \A k \in 0..Len(t) : PlaceOf(t, k) = q[k]
<1> DEFINE n == Len(t)
           A == Position
           After(k, p) == IF Ends(t, k) THEN [line |-> p.line + 1, character |-> 0]
                          ELSE [line |-> p.line, character |-> p.character + UnitsOf(t[k])]
           step == [x \in (1..n) \X A |-> After(x[1], x[2])]
           begin == [x \in (1..n) \X Nat |-> IF Ends(t, x[1]) THEN x[1] ELSE x[2]]
           zero == [line |-> 0, character |-> 0]
           Def(f) == [k \in 0..n |-> IF k = 0 THEN zero
                                     ELSE IF t[k] \in {"N", "R"} /\ ~Split(t, k)
                                          THEN [line |-> f[k - 1].line + 1, character |-> 0]
                                          ELSE [f[k - 1] EXCEPT !.character = @ + UnitsOf(t[k])]]
           place == CHOOSE f : f = Def(f)
<1>1. n \in Nat OBVIOUS
<1>2. \A k \in 1..n, p \in A : After(k, p) \in A BY DEF Position, UnitsOf
<1>3. step \in [(1..n) \X A -> A]
    <2> HIDE DEF After, A
    <2> QED BY <1>2
<1>4. begin \in [(1..n) \X Nat -> Nat] OBVIOUS
<1>5. zero \in A BY DEF Position
<1>6. PICK q : q \in Paths(n, A, zero, step)
    <2> HIDE DEF step, A, n, zero
    <2> QED BY <1>1, <1>3, <1>5, PathExists
<1>7. PICK st : st \in Paths(n, Nat, 0, begin)
    <2> HIDE DEF begin, n
    <2> QED BY <1>1, <1>4, PathExists
<1>8. q \in [0..n -> A] /\ q[0] = zero
    <2> HIDE DEF A, zero
    <2> QED BY <1>6 DEF Paths
<1>9. st \in [0..n -> Nat] /\ st[0] = 0 BY <1>7 DEF Paths
<1>10. ASSUME NEW k \in 1..n PROVE q[k] = After(k, q[k - 1])
    <2>1. q[k] = step[<<k, q[k - 1]>>]
        <3> HIDE DEF step, A, zero
        <3> QED BY <1>6 DEF Paths
    <2>2. q[k - 1] \in A BY <1>8
    <2> HIDE DEF After, A
    <2> QED BY <2>1, <2>2
<1>11. ASSUME NEW k \in 1..n PROVE st[k] = IF Ends(t, k) THEN k ELSE st[k - 1]
    <2>1. st[k] = begin[<<k, st[k - 1]>>]
        <3> HIDE DEF begin
        <3> QED BY <1>7 DEF Paths
    <2>2. st[k - 1] \in Nat BY <1>9
    <2> QED BY <2>1, <2>2
<1>12. ASSUME NEW f, NEW k \in 1..n, f[k - 1] \in A PROVE Def(f)[k] = After(k, f[k - 1])
    <2>1. [f[k - 1] EXCEPT !.character = @ + UnitsOf(t[k])]
          = [line |-> f[k - 1].line, character |-> f[k - 1].character + UnitsOf(t[k])]
        BY <1>12 DEF Position
    <2>2. k # 0 /\ k \in 0..n OBVIOUS
    <2> QED BY <2>1, <2>2 DEF Ends, Terminators
<1>13. \A f : Def(f)[0] = zero BY <1>1
<1>14. \A f : Def(f) = [k \in 0..n |-> Def(f)[k]] OBVIOUS
<1>15. q = Def(q)
    <2>1. ASSUME NEW k \in 0..n PROVE q[k] = Def(q)[k]
        <3>1. CASE k = 0
            <4> HIDE DEF Def, zero
            <4> QED BY <3>1, <1>8, <1>13
        <3>2. CASE k # 0
            <4>1. k \in 1..n /\ q[k - 1] \in A BY <3>2, <1>8
            <4> HIDE DEF Def, After, A
            <4> QED BY <4>1, <1>10, <1>12
        <3> QED BY <3>1, <3>2
    <2>2. q = [k \in 0..n |-> q[k]] BY <1>8
    <2> HIDE DEF Def
    <2> QED BY <2>1, <2>2, <1>14
<1>16. place = Def(place)
    <2> HIDE DEF Def
    <2> QED BY <1>15
<1>17. \A k \in 0..n : PlaceOf(t, k) = place[k] BY DEF PlaceOf
<1> HIDE DEF place
<1>18. ASSUME NEW k \in 0..n PROVE place[k] = q[k]
    <2> DEFINE P == {i \in Nat : place[i] = q[i]}
    <2>1. 0 \in P
        <3> HIDE DEF Def, zero
        <3> QED BY <1>8, <1>13, <1>16
    <2>2. ASSUME NEW i \in 1..n, i - 1 \in P PROVE i \in P
        <3>1. place[i - 1] = q[i - 1] /\ q[i - 1] \in A /\ i \in Nat BY <2>2, <1>8
        <3> HIDE DEF Def, After, A
        <3>2. place[i] = After(i, place[i - 1]) BY <3>1, <1>12, <1>16
        <3> QED BY <3>1, <3>2, <1>10
    <2>3. 0..n \subseteq P
        <3> HIDE DEF P, n
        <3> QED BY <1>1, <2>1, <2>2, Along
    <2> QED BY <2>3
<1>19. Placed(t, q, st) BY <1>8, <1>9, <1>10, <1>11 DEF Placed
<1> QED BY <1>17, <1>18, <1>19

\* A buffer has one character more than the text.
Sealed(t) == Append(t, "0")

\* The bytes of that one character more are the buffer.
LEMMA BufferBytes ==
    ASSUME NEW t \in Seq(Chars)
    PROVE  /\ t \in Seq(Marked) /\ Sealed(t) \in Seq(Marked)
           /\ Len(Sealed(t)) = Len(t) + 1 /\ Sealed(t)[Len(t) + 1] = "0"
           /\ \A k \in 1..Len(t) : Sealed(t)[k] = t[k]
           /\ Bytes(t) \in Seq(Byte) /\ Buffer(t) = Bytes(Sealed(t)) /\ Buffer(t) \in Seq(Byte)
<1>1. t \in Seq(Marked) /\ "0" \in Marked /\ "0" \in Byte BY DEF Marked, Byte
<1>2. Sealed(t) \in Seq(Marked) BY <1>1, AppendProperties DEF Sealed
<1>3. Bytes(t) \in Seq(Byte) /\ Bytes(Sealed(t)) = Bytes(t) \o BytesOf("0")
    BY <1>1, BytesAppend DEF Sealed
<1>4. BytesOf("0") = <<"0">> BY DEF BytesOf
<1>5. Buffer(t) = Bytes(t) \o <<"0">> BY <1>1, <1>3, AppendIsConcat DEF Buffer
<1>6. Buffer(t) \in Seq(Byte) BY <1>1, <1>3, AppendProperties DEF Buffer
<1>7. Buffer(t) = Bytes(Sealed(t)) BY <1>3, <1>4, <1>5
<1>8. /\ Len(Sealed(t)) = Len(t) + 1 /\ Sealed(t)[Len(t) + 1] = "0"
      /\ \A k \in 1..Len(t) : Sealed(t)[k] = t[k]
    BY <1>1, AppendProperties DEF Sealed
<1> QED BY <1>1, <1>2, <1>3, <1>6, <1>7, <1>8

\* Everything there is to know of the places of a text and of the offsets in its buffer.
Sheet(t, q, st, O, U, h) ==
    /\ t \in Seq(Chars) /\ Placed(t, q, st)
    /\ O = Offsets(Sealed(t)) /\ Laid(Sealed(t), O, Buffer(t))
    /\ Counted(Sealed(t), U) /\ Scanned(Buffer(t), h)
    /\ \A k \in 0..Len(t) : PlaceOf(t, k) = q[k]
    /\ computeLineOffsets(Buffer(t)) = h[Len(Buffer(t))]

\* A line ends behind the same characters for both.
LEMMA EndsAt ==
    ASSUME NEW t, NEW q, NEW st, NEW O, NEW U, NEW h, Sheet(t, q, st, O, U, h), NEW k \in 1..Len(t)
    PROVE  /\ O[k - 1] \in Nat /\ O[k] \in Nat /\ O[k - 1] < O[k] /\ O[k] < Len(Buffer(t))
           /\ Ends(t, k) <=> EndsLine(Buffer(t), O[k])
           /\ h[O[k]] = IF Ends(t, k) THEN Append(h[O[k - 1]], O[k]) ELSE h[O[k - 1]]
<1> DEFINE v == Sealed(t)
           b == Buffer(t)
           n == Len(t)
           L == Len(b)
<1>1. /\ v \in Seq(Marked) /\ Len(v) = n + 1 /\ n \in Nat /\ v[n + 1] = "0" /\ b \in Seq(Byte)
      /\ \A i \in 1..n : v[i] = t[i]
    BY BufferBytes DEF Sheet
<1>2. Laid(v, O, b) /\ Scanned(b, h) BY DEF Sheet
<1> HIDE DEF v, b
<1>3. /\ k \in 1..Len(v) /\ k + 1 \in 1..Len(v) /\ (k + 1) - 1 = k /\ v[k] \in Marked /\ v[k] = t[k]
      /\ Len(v) \in Nat
    BY <1>1
<1>4. /\ O[k - 1] \in Nat /\ O[k] \in Nat /\ O[k - 1] < O[k]
      /\ O[k + 1] \in Nat /\ O[k] < O[k + 1] /\ O[k + 1] <= L
    <2>1. O[Len(v)] = L BY <1>2 DEF Laid
    <2>2. k + 1 \in 0..Len(v) /\ Len(v) \in 0..Len(v) /\ k + 1 <= Len(v) /\ Len(v) \in Nat BY <1>1
    <2>3. O[k + 1] <= O[Len(v)] BY <1>2, <2>2, Rises
    <2>4. \A i \in 1..Len(v) : O[i - 1] \in Nat /\ O[i] \in Nat /\ O[i - 1] < O[i]
        BY <1>2, <2>2, Rises
    <2> QED BY <1>3, <2>1, <2>3, <2>4
<1>5. L \in Nat BY <1>1
<1>6. Ends(t, k) <=> EndsLine(b, O[k])
    <2>1. b[O[k]] \in Terminators <=> t[k] \in Terminators BY <1>2, <1>3, Inside
    <2>2. t[k] \in Terminators => b[O[k]] = t[k] BY <1>2, <1>3, Inside
    <2>3. b[O[k] + 1] = "N" <=> v[k + 1] = "N"
        <3>1. v[k + 1] = "E" => b[O[k] + 1] = "E1" BY <1>2, <1>3 DEF Laid
        <3>2. v[k + 1] = "S" => b[O[k] + 1] = "S1" BY <1>2, <1>3 DEF Laid
        <3>3. v[k + 1] \notin {"E", "S"} => b[O[k] + 1] = v[k + 1] BY <1>2, <1>3 DEF Laid
        <3> QED BY <3>1, <3>2, <3>3
    <2>4. v[k + 1] = "N" <=> k < n /\ t[k + 1] = "N"
        <3>1. CASE k = n BY <3>1, <1>1
        <3>2. CASE k # n
            <4>1. k < n /\ k + 1 \in 1..n BY <3>2, <1>1
            <4> QED BY <4>1, <1>1
        <3> QED BY <3>1, <3>2
    <2>5. O[k] < L BY <1>4, <1>5
    <2>6. k > 0 OBVIOUS
    <2> QED BY <2>1, <2>2, <2>3, <2>4, <2>5, <2>6 DEF Ends, EndsLine, Split, Terminators
<1>7. ASSUME NEW o \in Nat, O[k - 1] < o, o < O[k] PROVE h[o] = h[o - 1]
    <2>1. b[o] \notin Terminators BY <1>2, <1>3, <1>7, Inside
    <2>2. o \in 1..L BY <1>4, <1>5, <1>7
    <2>3. ~EndsLine(b, o) BY <2>1 DEF EndsLine
    <2> QED BY <1>2, <2>2, <2>3 DEF Scanned
<1>8. h[O[k] - 1] = h[O[k - 1]]
    <2> DEFINE p == O[k - 1]
    <2>1. O[k] \in {p + 1, p + 2, p + 4} BY <1>2, <1>3 DEF Laid
    <2>2. p \in Nat /\ \A o \in Nat : p < o /\ o < O[k] => h[o] = h[o - 1] BY <1>4, <1>7
    <2> HIDE DEF p
    <2>3. CASE O[k] = p + 1
        <3>1. O[k] - 1 = p BY <2>2, <2>3
        <3> QED BY <3>1 DEF p
    <2>4. CASE O[k] = p + 2
        <3>1. O[k] - 1 = p + 1 /\ p + 1 \in Nat /\ p < p + 1 /\ p + 1 < O[k] /\ (p + 1) - 1 = p BY <2>2, <2>4
        <3>2. h[p + 1] = h[p] BY <2>2, <3>1
        <3> QED BY <3>1, <3>2 DEF p
    <2>5. CASE O[k] = p + 4
        <3>1. /\ p + 1 \in Nat /\ p < p + 1 /\ p + 1 < O[k] /\ (p + 1) - 1 = p
              /\ p + 2 \in Nat /\ p < p + 2 /\ p + 2 < O[k] /\ (p + 2) - 1 = p + 1
              /\ p + 3 \in Nat /\ p < p + 3 /\ p + 3 < O[k] /\ (p + 3) - 1 = p + 2
              /\ O[k] - 1 = p + 3
            BY <2>2, <2>5
        <3>2. h[p + 1] = h[p] /\ h[p + 2] = h[p + 1] /\ h[p + 3] = h[p + 2] BY <2>2, <3>1
        <3> QED BY <3>1, <3>2 DEF p
    <2> QED BY <2>1, <2>3, <2>4, <2>5
<1>9. h[O[k]] = IF Ends(t, k) THEN Append(h[O[k - 1]], O[k]) ELSE h[O[k - 1]]
    <2>1. O[k] \in 1..L BY <1>4, <1>5
    <2>2. h[O[k]] = IF EndsLine(b, O[k]) THEN Append(h[O[k] - 1], O[k]) ELSE h[O[k] - 1]
        BY <1>2, <2>1 DEF Scanned
    <2> QED BY <2>2, <1>6, <1>8
<1>10. O[k] < L BY <1>4, <1>5
<1> QED BY <1>4, <1>6, <1>9, <1>10 DEF b

\* Lines and columns are the same for both.
LEMMA Lines ==
    ASSUME NEW t, NEW q, NEW st, NEW O, NEW U, NEW h, Sheet(t, q, st, O, U, h), NEW k \in 0..Len(t)
    PROVE  /\ st[k] \in 0..k /\ q[k] \in Position /\ q[k].character = U[k] - U[st[k]]
           /\ Len(h[O[k]]) = q[k].line + 1 /\ h[O[k]][q[k].line + 1] = O[st[k]]
           /\ \A j \in (st[k] + 1)..k : t[j] \in Terminators => j = k /\ Split(t, k)
           /\ st[k] > 0 => t[st[k]] \in Terminators
<1> DEFINE v == Sealed(t)
           n == Len(t)
           Good(i) == /\ st[i] \in 0..i /\ q[i] \in Position /\ q[i].character = U[i] - U[st[i]]
                      /\ Len(h[O[i]]) = q[i].line + 1 /\ h[O[i]][q[i].line + 1] = O[st[i]]
                      /\ \A j \in (st[i] + 1)..i : t[j] \in Terminators => j = i /\ Split(t, i)
                      /\ st[i] > 0 => t[st[i]] \in Terminators
           P == {i \in Nat : Good(i)}
<1>1. n \in Nat /\ Len(v) = n + 1 /\ t \in Seq(Chars) /\ \A i \in 1..n : v[i] = t[i]
    BY BufferBytes DEF Sheet
<1>2. Placed(t, q, st) /\ Counted(v, U) /\ Laid(v, O, Buffer(t)) /\ Scanned(Buffer(t), h) BY DEF Sheet
<1>3. \A i \in 0..(n + 1) : U[i] \in Nat BY <1>1, <1>2, UnitsRise
<1>4. /\ \A i \in 0..n : q[i] \in Position /\ q[i].line \in Nat /\ q[i].character \in Nat /\ st[i] \in Nat
      /\ q[0] = [line |-> 0, character |-> 0] /\ st[0] = 0
    <2>1. q \in [0..n -> Position] /\ st \in [0..n -> Nat] /\ q[0] = [line |-> 0, character |-> 0] /\ st[0] = 0
        BY <1>2 DEF Placed
    <2> QED BY <2>1 DEF Position
<1>5. O[0] = 0 /\ h[0] = <<0>> BY <1>2 DEF Laid, Scanned
<1>6. 0 \in P
    <2>1. Len(<<0>>) = 1 /\ <<0>>[1] = 0 OBVIOUS
    <2>2. U[0] \in Nat /\ q[0].line = 0 /\ q[0].character = 0 /\ q[0] \in Position
        <3>1. 0 \in 0..n /\ 0 \in 0..(n + 1) BY <1>1
        <3> QED BY <3>1, <1>3, <1>4
    <2>3. U[0] - U[st[0]] = 0 BY <2>2, <1>4
    <2>4. Len(h[O[0]]) = q[0].line + 1 /\ h[O[0]][q[0].line + 1] = O[st[0]]
        BY <2>1, <2>2, <1>4, <1>5
    <2>5. st[0] \in 0..0 /\ ~(st[0] > 0) /\ (st[0] + 1)..0 = {} BY <1>4
    <2> QED BY <2>2, <2>3, <2>4, <2>5
<1>7. ASSUME NEW i \in 1..n, i - 1 \in P PROVE i \in P
    <2>1. Good(i - 1) /\ i - 1 \in 0..n /\ i \in 0..n /\ i \in Nat /\ i \in 0..(n + 1) BY <1>7
    <2>2. h[O[i]] = IF Ends(t, i) THEN Append(h[O[i - 1]], O[i]) ELSE h[O[i - 1]] BY EndsAt
    <2>3. h[O[i - 1]] \in Seq(Nat)
        <3>1. O[i - 1] \in 0..Len(Buffer(t)) /\ Len(Buffer(t)) \in Nat
            <4>1. O[i - 1] \in Nat /\ O[i] \in Nat /\ O[i - 1] < O[i] /\ O[i] < Len(Buffer(t)) BY EndsAt
            <4>2. Len(Buffer(t)) \in Nat BY <1>1, BufferBytes
            <4> QED BY <4>1, <4>2
        <3> QED BY <3>1, <1>2 DEF Scanned
    <2>4. U[i] = U[i - 1] + UnitsOf(t[i]) /\ UnitsOf(t[i]) \in Nat
        <3>1. i \in 1..Len(v) /\ v[i] = t[i] BY <1>1
        <3> QED BY <3>1, <1>2 DEF Counted, UnitsOf
    <2>5. U[i - 1] \in Nat /\ U[i] \in Nat BY <2>1, <1>3
    <2>6. CASE Ends(t, i)
        <3>1. q[i] = [line |-> q[i - 1].line + 1, character |-> 0] /\ st[i] = i BY <2>6, <1>2 DEF Placed
        <3>2. U[i] - U[st[i]] = 0 BY <3>1, <2>5
        <3>3. O[i] \in Nat BY EndsAt
        <3>4. Len(h[O[i]]) = Len(h[O[i - 1]]) + 1 /\ h[O[i]][Len(h[O[i - 1]]) + 1] = O[i]
            BY <2>2, <2>3, <2>6, <3>3
        <3>5. q[i].line = q[i - 1].line + 1 /\ q[i].character = 0 BY <3>1
        <3>6. (st[i] + 1)..i = {} /\ st[i] \in 0..i BY <3>1
        <3>7. t[i] \in Terminators BY <2>6 DEF Ends
        <3>8. Len(h[O[i]]) = q[i].line + 1 /\ h[O[i]][q[i].line + 1] = O[st[i]]
            BY <2>1, <3>1, <3>4, <3>5
        <3>9. q[i] \in Position BY <2>1, <1>4
        <3> QED BY <2>1, <3>1, <3>2, <3>5, <3>6, <3>7, <3>8, <3>9
    <2>7. CASE ~Ends(t, i)
        <3>1. /\ q[i] = [line |-> q[i - 1].line, character |-> q[i - 1].character + UnitsOf(t[i])]
              /\ st[i] = st[i - 1]
            BY <2>7, <1>2 DEF Placed
        <3>2. q[i].line = q[i - 1].line /\ q[i].character = q[i - 1].character + UnitsOf(t[i]) BY <3>1
        <3>3. U[st[i]] \in Nat
            <4>1. st[i] \in 0..(n + 1) BY <2>1, <3>1
            <4> QED BY <4>1, <1>3
        <3>4. q[i].character = U[i] - U[st[i]] BY <2>1, <2>4, <2>5, <3>1, <3>2, <3>3
        <3>5. Len(h[O[i]]) = q[i].line + 1 /\ h[O[i]][q[i].line + 1] = O[st[i]]
            BY <2>1, <2>2, <2>7, <3>1, <3>2
        <3>6. ASSUME NEW j \in (st[i] + 1)..i, t[j] \in Terminators PROVE j = i /\ Split(t, i)
            <4>1. CASE j = i BY <4>1, <3>6, <2>7 DEF Ends
            <4>2. CASE j # i
                <5>1. j \in (st[i - 1] + 1)..(i - 1) BY <4>2, <3>1
                <5>2. j = i - 1 /\ Split(t, i - 1) BY <5>1, <3>6, <2>1
                <5>3. t[i] = "N" BY <5>2 DEF Split
                <5>4. Ends(t, i)
                    <6>1. ~Split(t, i) BY <5>3 DEF Split
                    <6> QED BY <5>3, <6>1 DEF Ends, Terminators
                <5> QED BY <5>4, <2>7
            <4> QED BY <4>1, <4>2
        <3>7. st[i] \in 0..i /\ (st[i] > 0 => t[st[i]] \in Terminators) BY <2>1, <3>1
        <3>8. q[i] \in Position BY <2>1, <1>4
        <3> QED BY <2>1, <3>4, <3>5, <3>6, <3>7, <3>8
    <2> QED BY <2>6, <2>7
<1>8. 0..n \subseteq P
    <2> HIDE DEF P, n
    <2> QED BY <1>1, <1>6, <1>7, Along
<1> QED BY <1>8

\* Every text has a sheet.
LEMMA SheetExists ==
    ASSUME NEW t \in Seq(Chars)
    PROVE  \E q, st, O, U, h : Sheet(t, q, st, O, U, h)
<1>1. Sealed(t) \in Seq(Marked) /\ Buffer(t) = Bytes(Sealed(t)) /\ Buffer(t) \in Seq(Byte) BY BufferBytes
<1>2. PICK q, st : Placed(t, q, st) /\ \A k \in 0..Len(t) : PlaceOf(t, k) = q[k] BY PlacesExist
<1>3. PICK U : Counted(Sealed(t), U) BY <1>1, CountExists
<1>4. PICK h : Scanned(Buffer(t), h) /\ computeLineOffsets(Buffer(t)) = h[Len(Buffer(t))] BY <1>1, Scan
<1>5. Laid(Sealed(t), Offsets(Sealed(t)), Buffer(t)) BY <1>1, Layout
<1>6. Sheet(t, q, st, Offsets(Sealed(t)), U, h) BY <1>2, <1>3, <1>4, <1>5 DEF Sheet
<1> QED BY <1>6

\* The facts of a sheet that most of what follows needs.
LEMMA SheetFacts ==
    ASSUME NEW t, NEW q, NEW st, NEW O, NEW U, NEW h, Sheet(t, q, st, O, U, h)
    PROVE  /\ t \in Seq(Chars) /\ Len(t) \in Nat /\ Sealed(t) \in Seq(Marked) /\ Len(Sealed(t)) = Len(t) + 1
           /\ Buffer(t) = Bytes(Sealed(t)) /\ Buffer(t) \in Seq(Byte) /\ Len(Buffer(t)) \in Nat
           /\ O[0] = 0 /\ O[Len(t) + 1] = Len(Buffer(t)) /\ O[Len(t)] + 1 = Len(Buffer(t))
           /\ \A k \in 0..(Len(t) + 1) : OffsetOf(Sealed(t), k) = O[k] /\ O[k] \in Nat /\ U[k] \in Nat
           /\ \A i, j \in 0..(Len(t) + 1) : i < j => O[i] < O[j] /\ U[i] < U[j]
           /\ \A i, j \in 0..(Len(t) + 1) : i <= j => O[i] <= O[j] /\ U[i] <= U[j]
           /\ \A k \in 0..Len(t) : OffsetOf(t, k) = O[k]
<1> DEFINE v == Sealed(t)
           b == Buffer(t)
           n == Len(t)
<1>1. /\ t \in Seq(Chars) /\ n \in Nat /\ v \in Seq(Marked) /\ Len(v) = n + 1 /\ v[n + 1] = "0"
      /\ b = Bytes(v) /\ b \in Seq(Byte) /\ Len(b) \in Nat
    <2>1. t \in Seq(Chars) BY DEF Sheet
    <2> HIDE DEF v, b
    <2> QED BY <2>1, BufferBytes DEF v, b
<1>2. Laid(v, O, b) /\ Counted(v, U) /\ O = Offsets(v) BY DEF Sheet
<1>3. \A k \in 0..n : OffsetOf(t, k) = OffsetOf(v, k)
    <2>1. ASSUME NEW k \in 0..n PROVE SubSeq(v, 1, k) = SubSeq(t, 1, k)
        <3>1. \A i \in 1..k : v[i] = t[i]
            <4>1. \A i \in 1..n : v[i] = t[i] BY <1>1, BufferBytes
            <4> QED BY <4>1, <1>1
        <3> HIDE DEF v
        <3> QED BY <3>1, <1>1
    <2> HIDE DEF v
    <2> QED BY <2>1 DEF OffsetOf
<1> HIDE DEF v, b
<1>4. Len(v) \in Nat BY <1>1
<1>5. \A k \in 0..(n + 1) : OffsetOf(v, k) = O[k] /\ O[k] \in Nat
    <2>1. O \in [0..Len(v) -> Nat] BY <1>2 DEF Laid
    <2> QED BY <1>1, <1>2, <2>1 DEF Offsets
<1>6. O[0] = 0 /\ O[n + 1] = Len(b) BY <1>1, <1>2 DEF Laid
<1>7. O[n] + 1 = Len(b)
    <2>1. n + 1 \in 1..Len(v) /\ (n + 1) - 1 = n BY <1>1
    <2>2. \A k \in 1..Len(v) : v[k] \notin {"E", "S"} => O[k] = O[k - 1] + 1 BY <1>2 DEF Laid
    <2>3. O[n + 1] = O[(n + 1) - 1] + 1 BY <1>1, <2>1, <2>2
    <2> QED BY <2>1, <2>3, <1>6
<1>8. /\ \A k \in 0..Len(v) : U[k] \in Nat
      /\ \A i, j \in 0..Len(v) : i < j => U[i] < U[j]
      /\ \A i, j \in 0..Len(v) : i <= j => U[i] <= U[j]
    BY <1>2, <1>4, UnitsRise
<1>9. /\ \A i, j \in 0..Len(v) : i < j => O[i] < O[j]
      /\ \A i, j \in 0..Len(v) : i <= j => O[i] <= O[j]
    BY <1>2, <1>4, Rises
<1>10. \A k \in 0..n : k \in 0..(n + 1) BY <1>1
<1>11. \A k \in 0..n : OffsetOf(t, k) = O[k] BY <1>3, <1>5, <1>10
<1> QED BY <1>1, <1>5, <1>6, <1>7, <1>8, <1>9, <1>11 DEF v, b

\* Where there is a line ending in the buffer, there is one in the text.
LEMMA Terminates ==
    ASSUME NEW t, NEW q, NEW st, NEW O, NEW U, NEW h, Sheet(t, q, st, O, U, h),
           NEW i \in 1..Len(Buffer(t)), Buffer(t)[i] \in Terminators
    PROVE  \E m \in 1..Len(t) : i = O[m] /\ i = O[m - 1] + 1 /\ t[m] \in Terminators
<1> DEFINE v == Sealed(t)
           b == Buffer(t)
           n == Len(t)
<1>1. /\ v \in Seq(Marked) /\ Len(v) = n + 1 /\ n \in Nat /\ v[n + 1] = "0"
      /\ \A k \in 1..n : v[k] = t[k]
    BY BufferBytes DEF Sheet
<1>2. Laid(v, O, b) /\ O[0] = 0 /\ Len(v) \in Nat
    BY <1>1 DEF Sheet, Laid
<1>3. \A k \in 0..Len(v) : O[k] \in Nat BY <1>2 DEF Laid
<1> HIDE DEF v
<1>4. i \in 0..Len(b) /\ i \in Nat /\ i > 0 BY <1>1, SheetFacts
<1> HIDE DEF b
<1>5. PICK m \in 0..Len(v) : i <= O[m] /\ (m > 0 => O[m - 1] < i) BY <1>2, <1>4, Rises
<1>6. m \in 1..Len(v) /\ O[m - 1] < i /\ v[m] \in Marked
    <2>1. m # 0 BY <1>2, <1>4, <1>5
    <2> QED BY <2>1, <1>1, <1>5
<1>7. i = O[m]
    <2>1. SUFFICES ASSUME i < O[m] PROVE FALSE BY <1>3, <1>4, <1>5
    <2>2. b[i] \notin Terminators BY <1>2, <1>4, <1>6, <2>1, Inside
    <2> QED BY <2>2 DEF b
<1>8. v[m] \in Terminators /\ O[m] = O[m - 1] + 1
    <2>1. b[O[m]] \in Terminators BY <1>7 DEF b
    <2> QED BY <2>1, <1>2, <1>6, Inside
<1>9. m \in 1..n /\ t[m] \in Terminators
    <2>1. m # n + 1 BY <1>1, <1>8 DEF Terminators
    <2>2. m \in 1..n BY <2>1, <1>1, <1>6
    <2> QED BY <2>2, <1>1, <1>8
<1> QED BY <1>7, <1>8, <1>9

\* The server's position of a place.
LEMMA Positioned ==
    ASSUME NEW t, NEW q, NEW st, NEW O, NEW U, NEW h, Sheet(t, q, st, O, U, h), NEW k \in Places(t)
    PROVE  toPosition(Buffer(t), O[k]) = q[k]
<1> DEFINE b == Buffer(t)
           n == Len(t)
           ends == {i \in 1..O[k] : b[i] \in Terminators}
           start == IF ends = {} THEN 0 ELSE CHOOSE i \in ends : \A j \in ends : j <= i
<1>1. k \in 0..n /\ ~Split(t, k) BY DEF Places
<1>2. /\ n \in Nat /\ Len(b) \in Nat /\ O[0] = 0 /\ O[n] + 1 = Len(b)
      /\ \A i \in 0..(n + 1) : OffsetOf(Sealed(t), i) = O[i] /\ O[i] \in Nat /\ U[i] \in Nat
      /\ \A i, j \in 0..(n + 1) : i < j => O[i] < O[j]
      /\ \A i, j \in 0..(n + 1) : i <= j => O[i] <= O[j]
    BY SheetFacts
<1>3. /\ st[k] \in 0..k /\ q[k] \in Position /\ q[k].character = U[k] - U[st[k]]
      /\ Len(h[O[k]]) = q[k].line + 1 /\ h[O[k]][q[k].line + 1] = O[st[k]]
      /\ \A j \in (st[k] + 1)..k : t[j] \in Terminators => j = k /\ Split(t, k)
      /\ st[k] > 0 => t[st[k]] \in Terminators
    BY <1>1, Lines
<1>4. k \in 0..(n + 1) /\ st[k] \in 0..(n + 1) /\ st[k] <= k /\ n \in 0..(n + 1) BY <1>1, <1>2, <1>3
<1>5. O[k] \in Nat /\ O[st[k]] \in Nat /\ O[st[k]] <= O[k] BY <1>2, <1>4
<1>6. O[k] < Len(b)
    <2>1. O[k] <= O[n] /\ O[n] \in Nat BY <1>1, <1>2, <1>4
    <2> QED BY <1>2, <1>5, <2>1
<1> HIDE DEF b
<1>7. ASSUME NEW i \in ends PROVE i <= O[st[k]] /\ st[k] > 0
    <2>1. i \in 1..Len(b) /\ b[i] \in Terminators BY <1>2, <1>5, <1>6
    <2>2. PICK m \in 1..n : i = O[m] /\ t[m] \in Terminators BY <2>1, Terminates DEF b
    <2>3. m \in 0..(n + 1) BY <1>2
    <2>4. m <= k
        <3>1. SUFFICES ASSUME k < m PROVE FALSE BY <1>1, <2>3
        <3>2. O[k] < O[m] /\ O[m] \in Nat BY <3>1, <2>3, <1>2, <1>4
        <3> QED BY <3>2, <2>2, <1>5
    <2>5. m <= st[k]
        <3>1. SUFFICES ASSUME st[k] < m PROVE FALSE BY <1>3, <2>3
        <3>2. m \in (st[k] + 1)..k BY <3>1, <2>4, <1>3
        <3> QED BY <3>2, <2>2, <1>1, <1>3
    <2> QED BY <2>2, <2>3, <2>5, <1>2, <1>4
<1>8. start = O[st[k]]
    <2>1. CASE st[k] = 0
        <3>1. ends = {} BY <1>7, <2>1
        <3> HIDE DEF ends
        <3> QED BY <3>1, <2>1, <1>2
    <2>2. CASE st[k] # 0
        <3>1. st[k] \in 1..n /\ t[st[k]] \in Terminators BY <2>2, <1>1, <1>3
        <3>2. b[O[st[k]]] \in Terminators /\ O[st[k]] > 0
            <4>1. /\ Sealed(t)[st[k]] = t[st[k]] /\ Sealed(t)[st[k]] \in Marked
                  /\ st[k] \in 1..Len(Sealed(t)) /\ Len(Sealed(t)) \in Nat
                  /\ Laid(Sealed(t), O, Buffer(t))
                <5>1. t \in Seq(Chars) BY DEF Sheet
                <5>2. /\ Sealed(t) \in Seq(Marked) /\ Len(Sealed(t)) = n + 1
                      /\ \A i \in 1..n : Sealed(t)[i] = t[i]
                    BY <5>1, BufferBytes
                <5>3. Laid(Sealed(t), O, Buffer(t)) BY DEF Sheet
                <5>4. Sealed(t)[st[k]] = t[st[k]] /\ st[k] \in 1..Len(Sealed(t)) /\ Len(Sealed(t)) \in Nat
                    BY <5>2, <3>1, <1>2
                <5>5. Sealed(t)[st[k]] \in Marked BY <5>2, <5>4
                <5> QED BY <5>3, <5>4, <5>5
            <4>2. b[O[st[k]]] \in Terminators BY <3>1, <4>1, Inside DEF b
            <4>3. 0 \in 0..(n + 1) /\ 0 < st[k] BY <2>2, <1>2, <1>3
            <4>4. O[0] < O[st[k]] BY <4>3, <1>2, <1>4
            <4> QED BY <4>2, <4>4, <1>2, <1>5
        <3>3. O[st[k]] \in ends BY <3>2, <1>5
        <3>4. \A i \in ends : i <= O[st[k]] BY <1>7
        <3>5. \A i \in ends : i \in Nat BY <1>5
        <3> HIDE DEF ends
        <3>6. \A i \in ends : (\A j \in ends : j <= i) => i = O[st[k]] BY <3>3, <3>4, <3>5, <1>5
        <3> QED BY <3>3, <3>4, <3>6
    <2> QED BY <2>1, <2>2
<1> HIDE DEF start, ends
<1>9. LineOf(b, O[k]) = q[k].line
    <2>1. Scanned(b, h) /\ computeLineOffsets(b) = h[Len(b)] BY DEF Sheet, b
    <2>2. O[k] \in 0..Len(b) BY <1>2, <1>5, <1>6
    <2>3. LineAmong(computeLineOffsets(b), O[k]) = Len(h[O[k]]) - 1 BY <2>1, <2>2, <1>2, LineAt
    <2>4. q[k].line \in Nat BY <1>3 DEF Position
    <2> QED BY <2>3, <2>4, <1>3 DEF LineOf
<1>10. utf16Length(Part(b, start, O[k])) = q[k].character
    <2>1. Sealed(t) \in Seq(Marked) /\ Len(Sealed(t)) = n + 1 /\ b = Bytes(Sealed(t)) /\ Counted(Sealed(t), U)
        BY SheetFacts DEF Sheet, b
    <2>2. OffsetOf(Sealed(t), st[k]) = O[st[k]] /\ OffsetOf(Sealed(t), k) = O[k] BY <1>2, <1>4
    <2>3. st[k] \in 0..Len(Sealed(t)) /\ k \in st[k]..Len(Sealed(t)) BY <2>1, <1>1, <1>2, <1>3
    <2>4. utf16Length(Part(Bytes(Sealed(t)), OffsetOf(Sealed(t), st[k]), OffsetOf(Sealed(t), k))) = U[k] - U[st[k]]
        BY <2>1, <2>3, SliceUnits
    <2> QED BY <2>1, <2>2, <2>4, <1>3, <1>8
<1>11. toPosition(b, O[k]) = [line |-> LineOf(b, O[k]), character |-> utf16Length(Part(b, start, O[k]))]
    BY <1>6 DEF toPosition, start, ends
<1>12. q[k] = [line |-> q[k].line, character |-> q[k].character] BY <1>3 DEF Position
<1> QED BY <1>9, <1>10, <1>11, <1>12 DEF b

\* A line of the buffer reaches at least up to the places of it, and ends with a character.
LEMMA LineEnd ==
    ASSUME NEW t, NEW q, NEW st, NEW O, NEW U, NEW h, Sheet(t, q, st, O, U, h), NEW k \in Places(t)
    PROVE  \E e \in k..(Len(t) + 1) : LineText(Buffer(t), O[st[k]]) = Part(Buffer(t), O[st[k]], O[e])
<1> DEFINE b == Buffer(t)
           n == Len(t)
           L == Len(b)
           s == O[st[k]]
           ends == {i \in s..L : i = L \/ b[i + 1] \in Terminators}
           end == CHOOSE i \in ends : \A j \in ends : i <= j
<1>1. k \in 0..n /\ ~Split(t, k) BY DEF Places
<1>2. /\ n \in Nat /\ L \in Nat /\ O[0] = 0 /\ O[n + 1] = L
      /\ \A i \in 0..(n + 1) : O[i] \in Nat
      /\ \A i, j \in 0..(n + 1) : i < j => O[i] < O[j]
      /\ \A i, j \in 0..(n + 1) : i <= j => O[i] <= O[j]
    BY SheetFacts
<1>3. /\ st[k] \in 0..k
      /\ \A j \in (st[k] + 1)..k : t[j] \in Terminators => j = k /\ Split(t, k)
    BY <1>1, Lines
<1>4. k \in 0..(n + 1) /\ st[k] \in 0..(n + 1) /\ n + 1 \in 0..(n + 1) BY <1>1, <1>2, <1>3
<1>5. s \in Nat /\ s <= L
    <2>1. O[st[k]] <= O[n + 1] BY <1>2, <1>4
    <2> QED BY <2>1, <1>2, <1>4
<1> HIDE DEF b
<1>6. \A i \in ends : \E e \in k..(n + 1) : i = O[e]
    <2>1. SUFFICES ASSUME NEW i \in ends PROVE \E e \in k..(n + 1) : i = O[e] OBVIOUS
    <2>2. CASE i = L
        <3>1. n + 1 \in k..(n + 1) BY <1>1
        <3> QED BY <2>2, <3>1, <1>2
    <2>3. CASE i # L
        <3>1. i + 1 \in 1..L /\ b[i + 1] \in Terminators /\ i \in Nat /\ s <= i BY <2>3, <1>2, <1>5
        <3>2. PICK m \in 1..n : i + 1 = O[m] /\ i + 1 = O[m - 1] + 1 /\ t[m] \in Terminators
            BY <3>1, Terminates DEF b
        <3>3. m - 1 \in 0..(n + 1) /\ m \in 0..(n + 1) BY <1>2
        <3>4. O[m - 1] = i
            <4>1. O[m - 1] \in Nat BY <3>3, <1>2
            <4> QED BY <4>1, <3>1, <3>2
        <3>5. st[k] <= m - 1
            <4>1. SUFFICES ASSUME m - 1 < st[k] PROVE FALSE BY <3>3, <1>4
            <4>2. O[m - 1] < O[st[k]] BY <4>1, <3>3, <1>2, <1>4
            <4> QED BY <4>2, <3>1, <3>4, <1>5
        <3>6. k <= m - 1
            <4>1. SUFFICES ASSUME m - 1 < k PROVE FALSE BY <3>3, <1>4
            <4>2. st[k] \in Nat /\ k \in Nat /\ m \in Nat BY <1>1, <1>4
            <4>3. m \in (st[k] + 1)..k BY <4>1, <4>2, <3>5
            <4> QED BY <4>3, <3>2, <1>1, <1>3
        <3>7. m - 1 \in k..(n + 1) BY <3>3, <3>6, <1>1
        <3> QED BY <3>4, <3>7
    <2> QED BY <2>2, <2>3
<1>7. end \in ends
    <2>1. L \in ends BY <1>2, <1>5
    <2>2. ends \in SUBSET Nat BY <1>2, <1>5
    <2> HIDE DEF ends
    <2>3. \E i \in ends : \A j \in ends : i <= j
        <3> DEFINE R == OpToRel(<, Nat)
        <3>1. PICK x \in ends : \A y \in ends : <<y, x>> \notin R
            <4>1. IsWellFoundedOn(R, Nat) BY NatLessThanWellFounded
            <4> HIDE DEF R
            <4> QED BY <2>1, <2>2, <4>1, WFMin
        <3>2. ASSUME NEW y \in ends PROVE x <= y
            <4>1. y \in Nat /\ x \in Nat BY <2>2
            <4>2. y < x => <<y, x>> \in R BY <4>1 DEF OpToRel
            <4>3. <<y, x>> \notin R BY <3>1
            <4> HIDE DEF R
            <4> QED BY <4>1, <4>2, <4>3
        <3> QED BY <3>2
    <2> QED BY <2>3
<1>8. LineText(b, s) = Part(b, s, end) BY DEF LineText
<1> HIDE DEF ends, end
<1>9. PICK e \in k..(n + 1) : end = O[e] BY <1>6, <1>7
<1> QED BY <1>8, <1>9 DEF b

\* The server finds a place where the client has it.
LEMMA Located ==
    ASSUME NEW t, NEW q, NEW st, NEW O, NEW U, NEW h, Sheet(t, q, st, O, U, h), NEW k \in Places(t)
    PROVE  toSourceLocation(Buffer(t), q[k]) = O[k]
<1> DEFINE b == Buffer(t)
           v == Sealed(t)
           n == Len(t)
           L == Len(b)
           x == st[k]
           lines == computeLineOffsets(b)
<1>1. k \in 0..n /\ ~Split(t, k) BY DEF Places
<1>2. /\ n \in Nat /\ L \in Nat /\ v \in Seq(Marked) /\ Len(v) = n + 1 /\ b = Bytes(v)
      /\ \A i \in 0..(n + 1) : OffsetOf(v, i) = O[i] /\ O[i] \in Nat /\ U[i] \in Nat
      /\ \A i, j \in 0..(n + 1) : i <= j => O[i] <= O[j]
      /\ O[n + 1] = L
    BY SheetFacts
<1>3. /\ x \in 0..k /\ q[k] \in Position /\ q[k].character = U[k] - U[x]
      /\ Len(h[O[k]]) = q[k].line + 1 /\ h[O[k]][q[k].line + 1] = O[x]
    BY <1>1, Lines
<1>4. Counted(v, U) /\ Scanned(b, h) /\ lines = h[L] BY DEF Sheet
<1>5. O[k] \in 0..L
    <2>1. k \in 0..(n + 1) /\ n + 1 \in 0..(n + 1) /\ k <= n + 1 BY <1>1, <1>2
    <2>2. O[k] <= O[n + 1] /\ O[k] \in Nat BY <2>1, <1>2
    <2> QED BY <2>2, <1>2
<1> HIDE DEF b, v, x
<1>6. q[k].line < Len(lines) /\ lines[q[k].line + 1] = O[x]
    <2>1. Len(h[O[k]]) <= Len(h[L]) /\ h[L][Len(h[O[k]])] = h[O[k]][Len(h[O[k]])]
        BY <1>2, <1>4, <1>5, LineAt
    <2>2. q[k].line \in Nat BY <1>3 DEF Position
    <2>3. Len(h[L]) \in Nat
        <3>1. L \in 0..L BY <1>2
        <3> QED BY <3>1, <1>2, <1>4, Scans
    <2> QED BY <2>1, <2>2, <2>3, <1>3, <1>4
<1>7. PICK e \in k..(n + 1) : LineText(b, O[x]) = Part(b, O[x], O[e]) BY LineEnd DEF b, x
<1> DEFINE w == SubSeq(v, x + 1, e)
           W == [i \in 0..(e - x) |-> U[x + i] - U[x]]
<1>8. x \in 0..Len(v) /\ e \in x..Len(v) /\ k \in x..Len(v) /\ x \in Nat /\ e \in Nat /\ k \in Nat
    BY <1>1, <1>2, <1>3
<1>9. Part(b, O[x], O[e]) = Bytes(w)
    <2>1. OffsetOf(v, x) = O[x] /\ OffsetOf(v, e) = O[e] BY <1>2, <1>8
    <2>2. Part(Bytes(v), OffsetOf(v, x), OffsetOf(v, e)) = Bytes(SubSeq(v, x + 1, e)) BY <1>2, <1>8, Cuts
    <2> QED BY <2>1, <2>2, <1>2
<1>10. w \in Seq(Marked) /\ Len(w) = e - x /\ Counted(w, W) BY <1>2, <1>4, <1>8, SliceCounted
<1>11. k - x \in 0..(e - x) /\ W[k - x] = q[k].character
    <2>1. k - x \in 0..(e - x) /\ x + (k - x) = k BY <1>8
    <2> QED BY <2>1, <1>3
<1>12. OffsetOf(w, k - x) = O[k] - O[x]
    <2>1. SubSeq(w, 1, k - x) = SubSeq(v, x + 1, k)
        <3>1. \A i \in 1..(k - x) : w[i] = v[x + i] BY <1>8, <1>2, SMTT(40)
        <3>2. SubSeq(w, 1, k - x) \in Seq(Marked) /\ SubSeq(v, x + 1, k) \in Seq(Marked)
            <4> HIDE DEF w
            <4>1. SubSeq(w, 1, k - x) \in Seq(Marked) BY <1>8, <1>10
            <4>2. SubSeq(v, x + 1, k) \in Seq(Marked) BY <1>2, <1>8
            <4> QED BY <4>1, <4>2
        <3>3. Len(SubSeq(w, 1, k - x)) = k - x /\ Len(SubSeq(v, x + 1, k)) = k - x
            <4>1. Len(SubSeq(v, x + 1, k)) = k - x
                <5>1. SubSeq(v, x + 1, k) \in Seq(Marked) /\ Len(SubSeq(v, x + 1, k)) = k - x
                    BY <1>2, <1>4, <1>8, SliceCounted
                <5> QED BY <5>1
            <4>2. Len(SubSeq(w, 1, k - x)) = (k - x) - 0
                <5>1. 0 \in 0..Len(w) /\ k - x \in 0..Len(w) /\ 0 + 1 = 1 BY <1>8, <1>10, <1>11
                <5> HIDE DEF w, W
                <5> QED BY <5>1, <1>10, SliceCounted
            <4> QED BY <4>1, <4>2, <1>8
        <3>4. \A i \in 1..(k - x) : SubSeq(w, 1, k - x)[i] = w[i] /\ SubSeq(v, x + 1, k)[i] = v[x + i]
            <4> HIDE DEF w
            <4>1. \A s \in Seq(Marked), m, j \in Nat : m <= j /\ j <= Len(s) =>
                      \A i \in 1..(j - m) : SubSeq(s, m + 1, j)[i] = s[m + i]
                OBVIOUS
            <4>2. k - x \in Nat /\ 0 \in Nat /\ 0 <= k - x /\ k - x <= Len(w) /\ (k - x) - 0 = k - x
                BY <1>8, <1>10, <1>11
            <4>3. \A i \in 1..(k - x) : SubSeq(w, 0 + 1, k - x)[i] = w[0 + i] BY <1>10, <4>1, <4>2
            <4>4. \A i \in 1..(k - x) : SubSeq(v, x + 1, k)[i] = v[x + i] BY <1>2, <1>8, <4>1
            <4>5. 0 + 1 = 1 /\ \A i \in 1..(k - x) : 0 + i = i OBVIOUS
            <4> QED BY <4>3, <4>4, <4>5
        <3> HIDE DEF w
        <3> QED BY <3>1, <3>2, <3>3, <3>4, SeqEqual
    <2>2. OffsetOf(v, k) = OffsetOf(v, x) + Len(Bytes(SubSeq(v, x + 1, k))) BY <1>2, <1>8, Cuts
    <2>3. OffsetOf(v, k) = O[k] /\ OffsetOf(v, x) = O[x] /\ O[k] \in Nat /\ O[x] \in Nat BY <1>2, <1>8
    <2>4. OffsetOf(w, k - x) = Len(Bytes(SubSeq(v, x + 1, k))) BY <2>1 DEF OffsetOf
    <2>5. Len(Bytes(SubSeq(v, x + 1, k))) \in Nat
        <3>1. Bytes(SubSeq(v, x + 1, k)) \in Seq(Byte) BY <1>2, <1>8, Cuts
        <3> QED BY <3>1
    <2> QED BY <2>2, <2>3, <2>4, <2>5
<1> HIDE DEF w
<1>13. utf16ToByteOffset(Bytes(w), W[k - x]) = OffsetOf(w, k - x)
    <2> HIDE DEF W
    <2> QED BY <1>10, <1>11, Columns
<1>14. utf16ToByteOffset(LineText(b, O[x]), q[k].character) = O[k] - O[x]
    BY <1>7, <1>9, <1>11, <1>12, <1>13
<1>15. Shifted(O[x], O[k] - O[x]) = O[k]
    <2>1. O[x] <= O[k] /\ O[x] \in Nat /\ O[k] \in Nat BY <1>1, <1>2, <1>8
    <2>2. O[k] - O[x] \in Nat /\ O[x] + (O[k] - O[x]) = O[k] BY <2>1
    <2>3. O[k] - O[x] # None BY <2>2, PositionsAssumption
    <2> QED BY <2>2, <2>3 DEF Shifted
<1>16. ~(q[k].line >= Len(lines))
    <2>1. Len(lines) \in Nat
        <3>1. L \in 0..L BY <1>2
        <3> QED BY <3>1, <1>2, <1>4, Scans
    <2>2. q[k].line \in Nat BY <1>3 DEF Position
    <2> QED BY <2>1, <2>2, <1>6
<1>17. toSourceLocation(b, q[k]) = Shifted(O[x], utf16ToByteOffset(LineText(b, O[x]), q[k].character))
    BY <1>6, <1>16 DEF toSourceLocation, LocationIn
<1> QED BY <1>14, <1>15, <1>17 DEF b

\* What ends a buffer.
LEMMA SealedBytes ==
    ASSUME NEW t \in Seq(Chars)
    PROVE  ensureNullTerminated(Bytes(t)) = Buffer(t) /\ ensureNullTerminated(Buffer(t)) = Buffer(t)
<1> DEFINE b == Bytes(t)
           O == Offsets(t)
           n == Len(t)
<1>1. t \in Seq(Marked) /\ b \in Seq(Byte) /\ n \in Nat BY BufferBytes
<1>2. Laid(t, O, b) BY <1>1, Layout
<1>3. ensureNullTerminated(b) = Buffer(t)
    <2>1. SUFFICES ASSUME b # <<>>, Last(b) = "0" PROVE FALSE
        BY DEF ensureNullTerminated, Buffer
    <2>2. O[n] = Len(b) /\ Len(b) # 0 BY <1>1, <1>2, <2>1, EmptySeq DEF Laid
    <2>3. n # 0
        <3>1. O[0] = 0 BY <1>2 DEF Laid
        <3> QED BY <2>2, <3>1
    <2>4. n \in 1..n /\ t[n] \in Chars /\ t[n] # "0" BY <1>1, <2>3 DEF Chars
    <2>5. O[n - 1] \in Nat
        <3>1. n - 1 \in 0..n BY <1>1, <2>3
        <3> HIDE DEF b, O
        <3>2. O \in [0..n -> Nat] BY <1>2 DEF Laid
        <3> QED BY <3>1, <3>2
    <2>6. b[O[n]] = "0" BY <2>1, <2>2 DEF Last
    <2> HIDE DEF b, O
    <2>7. /\ t[n] = "E" => O[n] = O[n - 1] + 2 /\ b[O[n - 1] + 2] = "E2"
          /\ t[n] = "S" => O[n] = O[n - 1] + 4 /\ b[O[n - 1] + 4] = "S4"
          /\ t[n] \notin {"E", "S"} => O[n] = O[n - 1] + 1 /\ b[O[n - 1] + 1] = t[n]
        BY <1>2, <2>4 DEF Laid
    <2>8. CASE t[n] = "E" BY <2>6, <2>7, <2>8
    <2>9. CASE t[n] = "S" BY <2>6, <2>7, <2>9
    <2>10. CASE t[n] \notin {"E", "S"} BY <2>4, <2>6, <2>7, <2>10
    <2> QED BY <2>8, <2>9, <2>10
<1>4. ensureNullTerminated(Buffer(t)) = Buffer(t)
    <2>1. "0" \in Byte BY DEF Byte
    <2>2. Len(Buffer(t)) = Len(b) + 1 /\ Buffer(t)[Len(b) + 1] = "0" BY <1>1, <2>1, AppendProperties DEF Buffer
    <2>3. Last(Buffer(t)) = "0" /\ Buffer(t) # <<>>
        <3>1. Len(b) \in Nat BY <1>1
        <3> QED BY <2>2, <3>1, EmptySeq DEF Last
    <2> QED BY <2>3 DEF ensureNullTerminated
<1> QED BY <1>3, <1>4

\* A change of the whole text.
LEMMA AppliesWhole ==
    ASSUME NEW b \in Seq(Byte), NEW new \in Seq(Chars)
    PROVE  applyChange(b, [range |-> None, text |-> Bytes(new)]) = Buffer(new)
<1>1. b # None BY PositionsAssumption
<1> QED BY <1>1, SealedBytes DEF applyChange

\* The client's text after an edit.
Edited(now, i, j, new) == SubSeq(now, 1, i) \o new \o SubSeq(now, j + 1, Len(now))

\* A change of a range.
LEMMA AppliesRange ==
    ASSUME NEW t \in Seq(Chars), NEW new \in Seq(Chars), NEW i \in Places(t), NEW j \in Places(t), i <= j
    PROVE  /\ Edited(t, i, j, new) \in Seq(Chars)
           /\ applyChange(Buffer(t), [range |-> [start |-> PlaceOf(t, i), end |-> PlaceOf(t, j)],
                                      text |-> Bytes(new)])
              = Buffer(Edited(t, i, j, new))
<1> DEFINE b == Buffer(t)
           v == Sealed(t)
           n == Len(t)
           range == [start |-> PlaceOf(t, i), end |-> PlaceOf(t, j)]
           x == SubSeq(t, 1, i)
           z == SubSeq(t, j + 1, n)
<1>1. PICK q, st, O, U, h : Sheet(t, q, st, O, U, h) BY SheetExists
<1>2. i \in 0..n /\ j \in 0..n /\ n \in Nat BY DEF Places
<1>3. /\ v \in Seq(Marked) /\ Len(v) = n + 1 /\ b = Bytes(v) /\ b \in Seq(Byte) /\ Len(b) \in Nat
      /\ O[0] = 0 /\ O[n + 1] = Len(b)
      /\ \A k \in 0..(n + 1) : OffsetOf(v, k) = O[k] /\ O[k] \in Nat
      /\ \A k, l \in 0..(n + 1) : k < l => O[k] < O[l]
      /\ \A k, l \in 0..(n + 1) : k <= l => O[k] <= O[l]
    BY <1>1, SheetFacts
<1>4. PlaceOf(t, i) = q[i] /\ PlaceOf(t, j) = q[j] /\ q[i] \in Position /\ q[j] \in Position
    BY <1>1, <1>2, Lines DEF Sheet
<1>5. toSourceLocation(b, PlaceOf(t, i)) = O[i] /\ toSourceLocation(b, PlaceOf(t, j)) = O[j]
    BY <1>1, <1>4, Located
<1> HIDE DEF b, v
<1>6. O[i] \in Nat /\ O[j] \in Nat /\ O[i] <= O[j] /\ O[j] < Len(b)
    <2>1. i \in 0..(n + 1) /\ j \in 0..(n + 1) /\ n + 1 \in 0..(n + 1) /\ j < n + 1 BY <1>2
    <2> QED BY <2>1, <1>3
<1>7. getOffsets(b, range) = <<O[i], O[j]>>
    <2>1. O[i] # None /\ O[j] # None BY <1>6, PositionsAssumption
    <2>2. ~(O[i] > O[j] \/ O[j] >= Len(b)) BY <1>3, <1>6
    <2> QED BY <1>5, <2>1, <2>2 DEF getOffsets, Ordered
<1>8. Part(b, 0, O[i]) = Bytes(x)
    <2>1. 0 \in 0..Len(v) /\ i \in 0..Len(v) /\ i \in 0..(n + 1) /\ 0 \in 0..(n + 1) BY <1>2, <1>3
    <2>2. Part(Bytes(v), OffsetOf(v, 0), OffsetOf(v, i)) = Bytes(SubSeq(v, 0 + 1, i)) BY <1>3, <2>1, Cuts
    <2>3. OffsetOf(v, 0) = 0 /\ OffsetOf(v, i) = O[i] BY <1>3, <2>1
    <2>4. SubSeq(v, 0 + 1, i) = x
        <3>1. 0 + 1 = 1 OBVIOUS
        <3>2. \A k \in 1..i : v[k] = t[k]
            <4>1. \A k \in 1..n : v[k] = t[k] BY BufferBytes DEF v
            <4> QED BY <4>1, <1>2
        <3> QED BY <3>1, <3>2, <1>2, <1>3
    <2> QED BY <2>2, <2>3, <2>4, <1>3
<1>9. x \in Seq(Chars) /\ z \in Seq(Chars) BY <1>2
<1>10. Part(b, O[j], Len(b)) = Buffer(z)
    <2>1. j \in 0..Len(v) /\ n + 1 \in j..Len(v) /\ j \in 0..(n + 1) /\ n + 1 \in 0..(n + 1) BY <1>2, <1>3
    <2>2. Part(Bytes(v), OffsetOf(v, j), OffsetOf(v, n + 1)) = Bytes(SubSeq(v, j + 1, n + 1))
        BY <1>3, <2>1, Cuts
    <2>3. OffsetOf(v, j) = O[j] /\ OffsetOf(v, n + 1) = Len(b) BY <1>3, <2>1
    <2>4. SubSeq(v, j + 1, n + 1) = Sealed(z)
        <3>1. \A s \in Seq(Marked), c \in Marked, m \in Nat : m <= Len(s) =>
                  SubSeq(Append(s, c), m + 1, Len(s) + 1) = Append(SubSeq(s, m + 1, Len(s)), c)
            <4>1. SUFFICES ASSUME NEW s \in Seq(Marked), NEW c \in Marked, NEW m \in Nat, m <= Len(s)
                           PROVE  SubSeq(Append(s, c), m + 1, Len(s) + 1) = Append(SubSeq(s, m + 1, Len(s)), c)
                OBVIOUS
            <4> DEFINE a == Append(s, c)
                       l == SubSeq(a, m + 1, Len(s) + 1)
                       y == SubSeq(s, m + 1, Len(s))
                       r == Append(y, c)
            <4>2. a \in Seq(Marked) /\ Len(a) = Len(s) + 1 /\ a[Len(s) + 1] = c /\ \A k \in 1..Len(s) : a[k] = s[k]
                OBVIOUS
            <4>3. y \in Seq(Marked) /\ Len(y) = Len(s) - m /\ \A k \in 1..(Len(s) - m) : y[k] = s[m + k]
                BY <4>1
            <4>4. l \in Seq(Marked) /\ Len(l) = Len(s) + 1 - m /\ \A k \in 1..(Len(s) + 1 - m) : l[k] = a[m + k]
                <5> HIDE DEF a
                <5> QED BY <4>1, <4>2
            <4>5. r \in Seq(Marked) /\ Len(r) = Len(s) - m + 1 /\ r[Len(s) - m + 1] = c
                  /\ \A k \in 1..(Len(s) - m) : r[k] = y[k]
                <5> HIDE DEF y
                <5> QED BY <4>1, <4>3, AppendProperties
            <4> HIDE DEF a, l, y, r
            <4>6. Len(s) \in Nat /\ Len(l) = Len(r) BY <4>4, <4>5
            <4>7. ASSUME NEW k \in 1..Len(l) PROVE l[k] = r[k]
                <5>1. CASE k = Len(s) + 1 - m
                    <6>1. m + k = Len(s) + 1 /\ k = Len(s) - m + 1 BY <5>1, <4>1, <4>6
                    <6> QED BY <6>1, <4>2, <4>4, <4>5
                <5>2. CASE k # Len(s) + 1 - m
                    <6>1. k \in 1..(Len(s) - m) /\ m + k \in 1..Len(s) /\ k \in 1..(Len(s) + 1 - m)
                        <7>1. Len(l) = Len(s) + 1 - m BY <4>4
                        <7>2. Len(s) \in Nat /\ m \in Nat /\ m <= Len(s) /\ k \in 1..(Len(s) + 1 - m)
                            BY <7>1, <4>1, <4>6
                        <7> HIDE DEF l
                        <7> QED BY <5>2, <7>2
                    <6>2. l[k] = a[m + k] BY <6>1, <4>4
                    <6>3. a[m + k] = s[m + k] BY <6>1, <4>2
                    <6>4. r[k] = y[k] BY <6>1, <4>5
                    <6>5. y[k] = s[m + k] BY <6>1, <4>3
                    <6> QED BY <6>2, <6>3, <6>4, <6>5
                <5> QED BY <5>1, <5>2
            <4>8. l = r
                <5>1. l \in Seq(Marked) /\ r \in Seq(Marked) BY <4>4, <4>5
                <5>2. \A k \in 1..Len(l) : l[k] = r[k] BY <4>7
                <5> QED BY <5>1, <5>2, <4>6, SeqEqual
            <4> QED BY <4>8 DEF l, r, a, y
        <3>2. t \in Seq(Marked) /\ "0" \in Marked /\ j \in Nat /\ j <= Len(t)
            BY <1>2, BufferBytes DEF Marked
        <3>3. SubSeq(Append(t, "0"), j + 1, Len(t) + 1) = Append(SubSeq(t, j + 1, Len(t)), "0")
            BY <3>1, <3>2
        <3> QED BY <3>3 DEF v, z, Sealed
    <2>5. Buffer(z) = Bytes(Sealed(z)) BY <1>9, BufferBytes
    <2> QED BY <2>2, <2>3, <2>4, <2>5, <1>3
<1> HIDE DEF x, z
<1> DEFINE r == (x \o new) \o z
<1>11. r \in Seq(Chars) /\ Edited(t, i, j, new) = r BY <1>9 DEF Edited, x, z
<1>12. (Bytes(x) \o Bytes(new)) \o Buffer(z) = Buffer(r)
    <2>1. x \in Seq(Marked) /\ new \in Seq(Marked) /\ z \in Seq(Marked) /\ x \o new \in Seq(Marked)
          /\ Bytes(x) \in Seq(Byte) /\ Bytes(new) \in Seq(Byte) /\ Bytes(z) \in Seq(Byte)
        BY <1>9, BufferBytes, ConcatProperties
    <2>2. Bytes(r) = (Bytes(x) \o Bytes(new)) \o Bytes(z) BY <2>1, BytesConcat
    <2>3. \A p \in Seq(Byte), s \in Seq(Byte) : p \o Append(s, "0") = Append(p \o s, "0")
        <3>1. "0" \in Byte BY DEF Byte
        <3> QED BY <3>1
    <2>4. Bytes(x) \o Bytes(new) \in Seq(Byte) BY <2>1, ConcatProperties
    <2> QED BY <2>1, <2>2, <2>3, <2>4 DEF Buffer
<1>13. b # None /\ range # None
    <2>1. range \in [start : Position, end : Position] BY <1>4
    <2> QED BY <2>1, <1>3, PositionsAssumption
<1>14. <<O[i], O[j]>> # None
    <2>1. <<O[i], O[j]>> \in Nat \X Nat BY <1>6
    <2> QED BY <2>1, PositionsAssumption
<1>15. applyChange(b, [range |-> range, text |-> Bytes(new)]) = ensureNullTerminated(Buffer(r))
    <2> DEFINE change == [range |-> range, text |-> Bytes(new)]
    <2>1. applyChange(b, change) = Replace(b, getOffsets(b, range), Bytes(new))
        BY <1>13 DEF applyChange
    <2>2. Replace(b, <<O[i], O[j]>>, Bytes(new))
          = ensureNullTerminated(Part(b, 0, O[i]) \o Bytes(new) \o Part(b, O[j], Len(b)))
        BY <1>14 DEF Replace
    <2> QED BY <2>1, <2>2, <1>7, <1>8, <1>10, <1>12
<1> QED BY <1>11, <1>15, SealedBytes DEF b

\* The functions that FoldLeft may choose for k changes.
Applied(b, changes, k, f) ==
    f = [s \in SUBSET (1..k) |-> IF s = {} THEN b ELSE applyChange(f[s \ {Max(s)}], changes[Max(s)])]

\* There is one for any number of changes.
LEMMA AppliedExists ==
    ASSUME NEW b, NEW changes, NEW n \in Nat
    PROVE  \E f : Applied(b, changes, n, f)
<1> DEFINE P == {k \in Nat : \E f : Applied(b, changes, k, f)}
<1>1. 0 \in P
    <2> DEFINE f == [s \in SUBSET (1..0) |-> b]
    <2>1. SUBSET (1..0) = {{}} OBVIOUS
    <2>2. Applied(b, changes, 0, f) BY <2>1 DEF Applied
    <2> QED BY <2>2
<1>2. ASSUME NEW k \in Nat, k \in P PROVE k + 1 \in P
    <2>1. PICK f : Applied(b, changes, k, f) BY <1>2
    <2> DEFINE g == [s \in SUBSET (1..(k + 1)) |->
                        IF k + 1 \in s THEN applyChange(f[s \ {k + 1}], changes[k + 1]) ELSE f[s]]
    <2>2. \A s \in SUBSET (1..k) : f[s] = IF s = {} THEN b ELSE applyChange(f[s \ {Max(s)}], changes[Max(s)])
        <3> DEFINE F == [s \in SUBSET (1..k) |-> IF s = {} THEN b
                                                 ELSE applyChange(f[s \ {Max(s)}], changes[Max(s)])]
        <3>1. f = F BY <2>1 DEF Applied
        <3>2. \A s \in SUBSET (1..k) : F[s] = IF s = {} THEN b ELSE applyChange(f[s \ {Max(s)}], changes[Max(s)])
            OBVIOUS
        <3> HIDE DEF F
        <3> QED BY <3>1, <3>2
    <2>3. ASSUME NEW s \in SUBSET (1..(k + 1))
          PROVE  g[s] = IF s = {} THEN b ELSE applyChange(g[s \ {Max(s)}], changes[Max(s)])
        <3>1. CASE k + 1 \in s
            <4>1. Max(s) = k + 1
                <5>1. k + 1 \in Nat OBVIOUS
                <5> QED BY <5>1, <3>1, Greatest
            <4>2. PICK t : t = s \ {k + 1} OBVIOUS
            <4>3. t \in SUBSET (1..(k + 1)) /\ k + 1 \notin t /\ s # {} BY <4>2, <3>1
            <4>4. g[t] = f[t] BY <4>3
            <4>5. g[s] = applyChange(f[t], changes[k + 1]) BY <3>1, <4>2
            <4> HIDE DEF g
            <4> QED BY <4>1, <4>2, <4>3, <4>4, <4>5
        <3>2. CASE k + 1 \notin s
            <4>1. s \in SUBSET (1..k) BY <3>2
            <4>2. g[s] = f[s] BY <3>2
            <4>3. PICK t : t = s \ {Max(s)} OBVIOUS
            <4>4. t \in SUBSET (1..(k + 1)) /\ k + 1 \notin t BY <4>3, <3>2
            <4>5. g[t] = f[t] BY <4>4
            <4> HIDE DEF g
            <4> QED BY <2>2, <4>1, <4>2, <4>3, <4>5
        <3> QED BY <3>1, <3>2
    <2>4. g = [s \in SUBSET (1..(k + 1)) |-> g[s]] OBVIOUS
    <2> HIDE DEF g
    <2>5. Applied(b, changes, k + 1, g) BY <2>3, <2>4 DEF Applied
    <2> QED BY <2>5
<1>3. Nat \subseteq P
    <2> HIDE DEF P
    <2> QED BY <1>1, <1>2, Inductive
<1> QED BY <1>3

\* The buffers that a notification leads through.
LEMMA Leads ==
    ASSUME NEW n \in Nat, NEW changes, DOMAIN changes = 1..n, NEW hist,
           \A k \in 1..n : applyChange(Buffer(hist[k - 1]), changes[k]) = Buffer(hist[k])
    PROVE  onChange(Buffer(hist[0]), changes) = Buffer(hist[n])
<1> DEFINE b == Buffer(hist[0])
           Def(f) == [s \in SUBSET DOMAIN changes |->
                         IF s = {} THEN b ELSE applyChange(f[s \ {Max(s)}], changes[Max(s)])]
           iter == CHOOSE f : f = Def(f)
<1>1. onChange(b, changes) = iter[DOMAIN changes]
    BY DEF onChange, FoldLeft, MapThenFoldSet
<1>2. iter = Def(iter)
    <2>1. PICK f : Applied(b, changes, n, f) BY AppliedExists
    <2>2. f = Def(f) BY <2>1 DEF Applied
    <2> HIDE DEF Def
    <2> QED BY <2>2
<1> HIDE DEF iter
<1>3. iter[{}] = b
    <2>1. Def(iter)[{}] = b OBVIOUS
    <2> HIDE DEF Def
    <2> QED BY <1>2, <2>1
<1>4. ASSUME NEW s \in SUBSET (1..n), s # {}
      PROVE  iter[s] = applyChange(iter[s \ {Max(s)}], changes[Max(s)])
    <2>1. Def(iter)[s] = applyChange(iter[s \ {Max(s)}], changes[Max(s)]) BY <1>4
    <2> HIDE DEF Def
    <2> QED BY <1>2, <2>1
<1> DEFINE P == {k \in 0..n : iter[1..k] = Buffer(hist[k])}
<1> HIDE DEF Def
<1>5. 0 \in P
    <2>1. 1..0 = {} OBVIOUS
    <2> QED BY <2>1, <1>3
<1>6. ASSUME NEW k \in 1..n, k - 1 \in P PROVE k \in P
    <2>1. PICK s : s = 1..k OBVIOUS
    <2>2. s \in SUBSET (1..n) /\ s # {} /\ k \in s /\ k \in Nat /\ s \in SUBSET (1..k)
        <3>1. \A i \in s : i \in 1..n BY <2>1
        <3>2. k \in s /\ k \in Nat /\ s = 1..k BY <2>1
        <3> QED BY <3>1, <3>2
    <2>3. Max(s) = k BY <2>2, Greatest
    <2>4. s \ {k} = 1..(k - 1) BY <2>1
    <2>5. iter[s] = applyChange(iter[1..(k - 1)], changes[k]) BY <1>4, <2>2, <2>3, <2>4
    <2>6. iter[1..(k - 1)] = Buffer(hist[k - 1]) BY <1>6
    <2>7. applyChange(Buffer(hist[k - 1]), changes[k]) = Buffer(hist[k]) OBVIOUS
    <2> QED BY <2>1, <2>5, <2>6, <2>7
<1>7. n \in P
    <2> HIDE DEF P
    <2> QED BY <1>5, <1>6, Along
<1> QED BY <1>1, <1>7 DEF b

-----------------------------------------------------------------------------
(* Positions: the tokens of a text.                                        *)

\* Positions are ordered like the places.
LEMMA Ordering ==
    ASSUME NEW t, NEW q, NEW st, NEW O, NEW U, NEW h, Sheet(t, q, st, O, U, h),
           NEW i \in 0..Len(t), NEW j \in 0..Len(t)
    PROVE  positionLess(q[i], q[j]) <=> i < j
<1> DEFINE n == Len(t)
<1>1. /\ n \in Nat /\ Len(Buffer(t)) \in Nat
      /\ \A k \in 0..(n + 1) : O[k] \in Nat /\ U[k] \in Nat
      /\ \A k, l \in 0..(n + 1) : k < l => O[k] < O[l] /\ U[k] < U[l]
      /\ \A k, l \in 0..(n + 1) : k <= l => O[k] <= O[l] /\ U[k] <= U[l]
      /\ O[n + 1] = Len(Buffer(t))
    BY SheetFacts
<1>2. ASSUME NEW k \in 0..n, NEW l \in 0..n, k < l PROVE positionLess(q[k], q[l])
    <2>1. /\ st[k] \in 0..k /\ q[k] \in Position /\ q[k].character = U[k] - U[st[k]]
          /\ Len(h[O[k]]) = q[k].line + 1 /\ h[O[k]][q[k].line + 1] = O[st[k]]
        BY Lines
    <2>2. /\ st[l] \in 0..l /\ q[l] \in Position /\ q[l].character = U[l] - U[st[l]]
          /\ Len(h[O[l]]) = q[l].line + 1 /\ h[O[l]][q[l].line + 1] = O[st[l]]
        BY Lines
    <2>3. /\ k \in 0..(n + 1) /\ l \in 0..(n + 1) /\ n + 1 \in 0..(n + 1) /\ l <= n + 1
          /\ st[k] \in 0..(n + 1) /\ st[l] \in 0..(n + 1)
        <3>1. n \in Nat /\ st[k] \in 0..k /\ st[l] \in 0..l BY <1>1, <2>1, <2>2
        <3>2. st[k] \in Nat /\ st[l] \in Nat /\ st[k] <= n + 1 /\ st[l] <= n + 1 BY <3>1
        <3> QED BY <3>1, <3>2
    <2>4. O[k] \in Nat /\ O[l] \in Nat /\ O[k] < O[l] /\ O[l] <= Len(Buffer(t)) /\ U[k] < U[l]
          /\ U[k] \in Nat /\ U[l] \in Nat /\ U[st[k]] \in Nat /\ U[st[l]] \in Nat
        BY <1>1, <1>2, <2>3
    <2>5. /\ Len(h[O[k]]) <= Len(h[O[l]])
          /\ \A m \in 1..Len(h[O[k]]) : h[O[l]][m] = h[O[k]][m]
        <3>1. O[k] \in 0..Len(Buffer(t)) /\ O[l] \in O[k]..Len(Buffer(t)) BY <1>1, <2>4
        <3>2. Scanned(Buffer(t), h) BY DEF Sheet
        <3>3. Len(Buffer(t)) \in Nat BY <1>1
        <3>4. PICK b : b = Buffer(t) OBVIOUS
        <3>5. Scanned(b, h) /\ Len(b) \in Nat BY <3>2, <3>3, <3>4
        <3>6. \A x \in 0..Len(b) : \A y \in x..Len(b) :
                  /\ Len(h[x]) <= Len(h[y])
                  /\ \A m \in 1..Len(h[x]) : h[y][m] = h[x][m]
                  /\ \A m \in (Len(h[x]) + 1)..Len(h[y]) : h[y][m] > x
            BY <3>5, Scans
        <3> QED BY <3>1, <3>4, <3>6
    <2>6. q[k].line \in Nat /\ q[l].line \in Nat /\ q[k].character \in Nat /\ q[l].character \in Nat
        BY <2>1, <2>2 DEF Position
    <2>7. q[k].line <= q[l].line
        <3>1. Len(h[O[k]]) = q[k].line + 1 BY <2>1
        <3>2. Len(h[O[l]]) = q[l].line + 1 BY <2>2
        <3>3. Len(h[O[k]]) <= Len(h[O[l]]) BY <2>5
        <3>4. q[k].line + 1 <= q[l].line + 1 BY <3>1, <3>2, <3>3
        <3> QED BY <3>4, <2>6, SMTT(40)
    <2>8. CASE q[k].line = q[l].line
        <3>1. q[k].line + 1 \in 1..Len(h[O[k]]) BY <2>1, <2>6, SMTT(40)
        <3>2. O[st[k]] = O[st[l]] BY <2>1, <2>2, <2>5, <2>8, <3>1
        <3>3. st[k] = st[l]
            <4>1. ~(st[k] < st[l]) /\ ~(st[l] < st[k])
                <5>1. O[st[k]] \in Nat BY <1>1, <2>3
                <5> QED BY <1>1, <2>3, <3>2, <5>1
            <4>2. st[k] \in Nat /\ st[l] \in Nat
                <5>1. n \in Nat BY <1>1
                <5> QED BY <5>1, <2>3
            <4> QED BY <4>1, <4>2
        <3>4. q[k].character < q[l].character BY <2>1, <2>2, <2>4, <3>3, SMTT(40)
        <3> QED BY <2>8, <3>4 DEF positionLess
    <2>9. CASE q[k].line # q[l].line BY <2>6, <2>7, <2>9 DEF positionLess
    <2> QED BY <2>8, <2>9
<1>3. q[i] \in Position /\ q[j] \in Position BY Lines
<1>4. CASE i < j BY <1>2, <1>4
<1>5. CASE i = j
    <2>1. ~positionLess(q[i], q[i]) BY <1>3 DEF positionLess, Position
    <2> QED BY <1>5, <2>1
<1>6. CASE j < i
    <2>1. positionLess(q[j], q[i]) BY <1>2, <1>6
    <2>2. ~positionLess(q[i], q[j]) BY <1>3, <2>1 DEF positionLess, Position
    <2> QED BY <1>6, <2>2
<1> QED BY <1>4, <1>5, <1>6

\* No line ends in a stretch of a text.
Unbroken(t, i, j) == \A k \in (i + 1)..j : t[k] \notin Terminators

\* Both sides see where a token crosses the end of a line.
LEMMA Describes ==
    ASSUME NEW t, NEW q, NEW st, NEW O, NEW U, NEW h, Sheet(t, q, st, O, U, h),
           NEW i \in 0..Len(t), NEW j \in 0..Len(t), i < j
    PROVE  /\ TokenOf(t, <<i, j>>) = [offset |-> O[i], length |-> O[j] - O[i]]
           /\ O[i] \in Nat /\ O[j] \in Nat /\ O[i] < O[j] /\ O[j] < Len(Buffer(t))
           /\ Describable(Buffer(t), TokenOf(t, <<i, j>>)) <=> Unbroken(t, i, j)
<1> DEFINE n == Len(t)
           b == Buffer(t)
           tok == TokenOf(t, <<i, j>>)
<1>1. /\ n \in Nat /\ Len(b) \in Nat
      /\ \A k \in 0..(n + 1) : O[k] \in Nat
      /\ \A k, l \in 0..(n + 1) : k < l => O[k] < O[l]
      /\ \A k, l \in 0..(n + 1) : k <= l => O[k] <= O[l]
      /\ O[n + 1] = Len(b)
      /\ \A k \in 0..n : OffsetOf(t, k) = O[k]
    BY SheetFacts
<1>2. tok = [offset |-> O[i], length |-> O[j] - O[i]] BY <1>1 DEF TokenOf
<1>3. i \in 0..(n + 1) /\ j \in 0..(n + 1) /\ n + 1 \in 0..(n + 1) /\ j < n + 1 BY <1>1
<1>4. O[i] \in Nat /\ O[j] \in Nat /\ O[i] < O[j] /\ O[j] < Len(b) BY <1>1, <1>3
<1> HIDE DEF b, tok
<1>5. Describable(b, tok) <=> \A x \in (O[i] + 1)..O[j] : b[x] \notin Terminators
    <2>1. tok.offset = O[i] /\ tok.length = O[j] - O[i] BY <1>2
    <2>2. O[j] - O[i] > 0 /\ O[i] + (O[j] - O[i]) = O[j] /\ O[j] <= Len(b) BY <1>1, <1>4
    <2> QED BY <2>1, <2>2 DEF Describable
<1>6. ASSUME Unbroken(t, i, j), NEW x \in (O[i] + 1)..O[j], b[x] \in Terminators PROVE FALSE
    <2>1. x \in 1..Len(Buffer(t)) /\ Buffer(t)[x] \in Terminators BY <1>4, <1>6, <1>1 DEF b
    <2>2. PICK m \in 1..n : x = O[m] /\ t[m] \in Terminators BY <2>1, Terminates
    <2>3. m \in 0..(n + 1) BY <1>1
    <2>4. ~(m <= i) /\ ~(j < m) BY <1>1, <1>3, <1>4, <1>6, <2>2, <2>3
    <2>5. m \in (i + 1)..j BY <2>4, <1>3
    <2> QED BY <1>6, <2>2, <2>5 DEF Unbroken
<1>7. ASSUME \A x \in (O[i] + 1)..O[j] : b[x] \notin Terminators, NEW k \in (i + 1)..j,
             t[k] \in Terminators
      PROVE  FALSE
    <2> DEFINE v == Sealed(t)
    <2>1. v \in Seq(Marked) /\ Len(v) = n + 1 /\ \A l \in 1..n : v[l] = t[l]
        BY BufferBytes DEF Sheet
    <2>2. Laid(v, O, b) BY DEF Sheet, b
    <2>3. k \in 1..n /\ k \in 1..Len(v) /\ k \in 0..(n + 1) /\ i < k /\ k <= j BY <1>1, <1>3, <2>1
    <2> HIDE DEF v
    <2>4. v[k] \in Marked /\ v[k] \in Terminators BY <1>7, <2>1, <2>3
    <2>5. b[O[k]] \in Terminators
        <3>1. Len(v) \in Nat /\ k \in 1..Len(v) /\ Laid(v, O, b) BY <1>1, <2>1, <2>2, <2>3
        <3> QED BY <3>1, <2>4, Inside
    <2>6. O[k] \in (O[i] + 1)..O[j] BY <1>1, <1>3, <1>4, <2>3
    <2> QED BY <1>7, <2>5, <2>6
<1>8. Describable(b, tok) <=> Unbroken(t, i, j) BY <1>5, <1>6, <1>7 DEF Unbroken
<1> QED BY <1>2, <1>4, <1>8 DEF b, tok

\* Where a token starts and how long it is, for the server.
LEMMA StartsAt ==
    ASSUME NEW t, NEW q, NEW st, NEW O, NEW U, NEW h, Sheet(t, q, st, O, U, h),
           NEW i \in 0..Len(t), NEW j \in 0..Len(t), i < j, Unbroken(t, i, j)
    PROVE  /\ LineAmong(computeLineOffsets(Buffer(t)), O[i]) = q[i].line
           /\ utf16Length(Part(Buffer(t), computeLineOffsets(Buffer(t))[q[i].line + 1], O[i])) = q[i].character
           /\ utf16Length(Part(Buffer(t), O[i], O[j])) = q[j].character - q[i].character
<1> DEFINE n == Len(t)
           b == Buffer(t)
           v == Sealed(t)
<1>1. /\ n \in Nat /\ Len(b) \in Nat /\ v \in Seq(Marked) /\ Len(v) = n + 1 /\ b = Bytes(v)
      /\ \A k \in 0..(n + 1) : OffsetOf(v, k) = O[k] /\ O[k] \in Nat /\ U[k] \in Nat
      /\ \A k, l \in 0..(n + 1) : k <= l => O[k] <= O[l]
      /\ O[n + 1] = Len(b)
    BY SheetFacts
<1>2. Counted(v, U) /\ Scanned(b, h) /\ computeLineOffsets(b) = h[Len(b)] BY DEF Sheet
<1>3. /\ st[i] \in 0..i /\ q[i] \in Position /\ q[i].character = U[i] - U[st[i]]
      /\ Len(h[O[i]]) = q[i].line + 1 /\ h[O[i]][q[i].line + 1] = O[st[i]]
    BY Lines
<1>4. st[j] \in 0..j /\ q[j] \in Position /\ q[j].character = U[j] - U[st[j]] BY Lines
<1>5. st[j] = st[i]
    <2> DEFINE P == {k \in 0..j : k >= i => st[k] = st[i]}
    <2>1. 0 \in P
        <3>1. 0 >= i => i = 0 OBVIOUS
        <3> QED BY <3>1
    <2>2. ASSUME NEW k \in 1..j, k - 1 \in P PROVE k \in P
        <3>1. CASE k <= i BY <3>1
        <3>2. CASE k > i
            <4>1. k \in (i + 1)..j /\ k - 1 >= i /\ k \in 1..n BY <3>2, <1>1
            <4>2. ~Ends(t, k) BY <4>1 DEF Unbroken, Ends
            <4>3. st[k] = st[k - 1] BY <4>1, <4>2 DEF Sheet, Placed
            <4> QED BY <2>2, <4>1, <4>3
        <3> QED BY <3>1, <3>2
    <2>3. j \in P
        <3>1. j \in Nat OBVIOUS
        <3> HIDE DEF P
        <3> QED BY <2>1, <2>2, <3>1, Along
    <2> QED BY <2>3
<1> HIDE DEF b, v
<1>6. i \in 0..(n + 1) /\ j \in 0..(n + 1) /\ n + 1 \in 0..(n + 1) /\ st[i] \in 0..(n + 1) /\ i <= n + 1
      /\ st[i] \in 0..Len(v) /\ i \in st[i]..Len(v) /\ i \in 0..Len(v) /\ j \in i..Len(v)
    BY <1>1, <1>3
<1>7. O[i] \in 0..Len(b) BY <1>1, <1>6
<1>8. q[i].line \in Nat BY <1>3 DEF Position
<1>9. LineAmong(computeLineOffsets(b), O[i]) = q[i].line /\ computeLineOffsets(b)[q[i].line + 1] = O[st[i]]
    <2>1. /\ LineAmong(h[Len(b)], O[i]) = Len(h[O[i]]) - 1
          /\ h[Len(b)][Len(h[O[i]])] = h[O[i]][Len(h[O[i]])]
        BY <1>1, <1>2, <1>7, LineAt, SMTT(40)
    <2> QED BY <2>1, <1>2, <1>3, <1>8
<1>10. utf16Length(Part(b, O[st[i]], O[i])) = q[i].character
    <2>1. utf16Length(Part(Bytes(v), OffsetOf(v, st[i]), OffsetOf(v, i))) = U[i] - U[st[i]]
        BY <1>1, <1>2, <1>6, SliceUnits
    <2> QED BY <2>1, <1>1, <1>3, <1>6
<1>11. utf16Length(Part(b, O[i], O[j])) = U[j] - U[i]
    <2>1. utf16Length(Part(Bytes(v), OffsetOf(v, i), OffsetOf(v, j))) = U[j] - U[i]
        BY <1>1, <1>2, <1>6, SliceUnits
    <2> QED BY <2>1, <1>1, <1>6
<1>12. U[j] - U[i] = q[j].character - q[i].character
    <2>1. U[i] \in Nat /\ U[j] \in Nat /\ U[st[i]] \in Nat BY <1>1, <1>6
    <2> QED BY <2>1, <1>3, <1>4, <1>5
<1> QED BY <1>9, <1>10, <1>11, <1>12 DEF b

-----------------------------------------------------------------------------
(* Positions: what the client makes of the tokens.                         *)

Deltas == [line : Int, character : Int, length : Int]
Corner == [line |-> 0, character |-> 0]
\* The places that data lead through.
Decodes(data, at) ==
    /\ at \in [0..Len(data) -> [line : Int, character : Int]] /\ at[0] = Corner
    /\ \A k \in 1..Len(data) :
          at[k] = [line |-> at[k - 1].line + data[k].line,
                   character |-> IF data[k].line = 0 THEN at[k - 1].character + data[k].character
                                 ELSE data[k].character]
Marks(data, at) ==
    [k \in 1..Len(data) |-> [line |-> at[k].line, character |-> at[k].character, length |-> data[k].length]]

\* They are what the client decodes.
LEMMA DecodedBy ==
    ASSUME NEW data \in Seq(Deltas), NEW at, Decodes(data, at)
    PROVE  Decoded(data) = Marks(data, at)
<1> DEFINE n == Len(data)
           Def(f) == [k \in 0..n |->
                         IF k = 0 THEN Corner
                         ELSE [line |-> f[k - 1].line + data[k].line,
                               character |-> IF data[k].line = 0 THEN f[k - 1].character + data[k].character
                                             ELSE data[k].character]]
           found == CHOOSE f : f = Def(f)
<1>1. n \in Nat /\ DOMAIN data = 1..n OBVIOUS
<1>2. Decoded(data) = [k \in 1..n |-> [line |-> found[k].line, character |-> found[k].character,
                                       length |-> data[k].length]]
    BY DEF Decoded, Corner
<1>3. at = Def(at)
    <2>1. at = [k \in 0..n |-> at[k]] BY DEF Decodes
    <2>2. ASSUME NEW k \in 0..n PROVE at[k] = Def(at)[k]
        <3>1. CASE k = 0 BY <3>1 DEF Decodes
        <3>2. CASE k # 0
            <4>1. k \in 1..n BY <3>2
            <4> QED BY <3>2, <4>1 DEF Decodes
        <3> QED BY <3>1, <3>2
    <2>3. Def(at) = [k \in 0..n |-> Def(at)[k]] OBVIOUS
    <2> HIDE DEF Def
    <2> QED BY <2>1, <2>2, <2>3
<1>4. found = Def(found)
    <2> HIDE DEF Def
    <2> QED BY <1>3
<1> HIDE DEF found
<1> DEFINE P == {k \in 0..n : found[k] = at[k]}
<1>5. 0 \in P
    <2>1. Def(found)[0] = Corner BY <1>1
    <2> HIDE DEF Def
    <2> QED BY <2>1, <1>1, <1>4 DEF Decodes
<1>6. ASSUME NEW k \in 1..n, k - 1 \in P PROVE k \in P
    <2>1. Def(found)[k] = [line |-> found[k - 1].line + data[k].line,
                           character |-> IF data[k].line = 0 THEN found[k - 1].character + data[k].character
                                         ELSE data[k].character]
        OBVIOUS
    <2>2. found[k - 1] = at[k - 1] BY <1>6
    <2>3. at[k] = [line |-> at[k - 1].line + data[k].line,
                   character |-> IF data[k].line = 0 THEN at[k - 1].character + data[k].character
                                 ELSE data[k].character]
        BY DEF Decodes
    <2>4. found[k] = Def(found)[k]
        <3> HIDE DEF Def
        <3> QED BY <1>4
    <2> HIDE DEF Def
    <2> QED BY <2>1, <2>2, <2>3, <2>4
<1>7. 0..n \subseteq P
    <2> HIDE DEF P, n
    <2> QED BY <1>1, <1>5, <1>6, Along
<1>8. \A k \in 1..n : found[k] = at[k] BY <1>7
<1> QED BY <1>2, <1>8 DEF Marks

\* One token more: it is where the difference says, from the last one.
LEMMA DecodesOne ==
    ASSUME NEW data \in Seq(Deltas), NEW at, Decodes(data, at), NEW p \in Position, NEW length \in Int
    PROVE  LET d == Relative(p, at[Len(data)], length)
               more == Append(data, d)
           IN /\ d \in Deltas /\ more \in Seq(Deltas) /\ Len(more) = Len(data) + 1
              /\ \E new : /\ Decodes(more, new) /\ new[Len(more)] = p
                          /\ Marks(more, new) = Append(Marks(data, at), [line |-> p.line, character |-> p.character,
                                                                         length |-> length])
<1> DEFINE n == Len(data)
           before == at[n]
           d == Relative(p, before, length)
           more == Append(data, d)
           new == [k \in 0..(n + 1) |-> IF k = n + 1 THEN p ELSE at[k]]
           mark == [line |-> p.line, character |-> p.character, length |-> length]
<1>1. n \in Nat OBVIOUS
<1>2. at \in [0..n -> [line : Int, character : Int]] /\ at[0] = Corner /\ before \in [line : Int, character : Int]
    BY <1>1 DEF Decodes
<1>3. p.line \in Int /\ p.character \in Int /\ p = [line |-> p.line, character |-> p.character]
    BY DEF Position
<1> HIDE DEF before
<1>4. d \in Deltas /\ d.line = p.line - before.line /\ d.length = length
      /\ d.character = IF p.line = before.line THEN p.character - before.character ELSE p.character
    BY <1>2, <1>3 DEF Relative, Deltas
<1> HIDE DEF d
<1>5. more \in Seq(Deltas) /\ Len(more) = n + 1 /\ more[n + 1] = d /\ \A k \in 1..n : more[k] = data[k]
    BY <1>4, AppendProperties
<1> HIDE DEF more
<1>6. p = [line |-> before.line + d.line,
           character |-> IF d.line = 0 THEN before.character + d.character ELSE d.character]
    <2>1. before.line \in Int /\ before.character \in Int BY <1>2
    <2>2. before.line + d.line = p.line /\ (d.line = 0 <=> p.line = before.line) BY <1>3, <1>4, <2>1
    <2>3. p.character = IF d.line = 0 THEN before.character + d.character ELSE d.character
        BY <1>3, <1>4, <2>1, <2>2
    <2> QED BY <1>3, <2>2, <2>3
<1>7. Decodes(more, new)
    <2>1. p \in [line : Int, character : Int] BY <1>3
    <2>2. new \in [0..(n + 1) -> [line : Int, character : Int]] BY <1>2, <2>1
    <2>3. new[0] = Corner BY <1>1, <1>2
    <2>4. ASSUME NEW k \in 1..(n + 1)
          PROVE  new[k] = [line |-> new[k - 1].line + more[k].line,
                           character |-> IF more[k].line = 0 THEN new[k - 1].character + more[k].character
                                         ELSE more[k].character]
        <3>1. CASE k = n + 1
            <4>1. new[k] = p /\ k - 1 = n /\ new[n] = before /\ more[k] = d BY <3>1, <1>1, <1>5 DEF before
            <4> HIDE DEF new
            <4> QED BY <4>1, <1>6
        <3>2. CASE k # n + 1
            <4>1. k \in 1..n /\ k - 1 \in 0..n /\ k \in 0..n BY <3>2, <1>1
            <4>2. new[k] = at[k] /\ new[k - 1] = at[k - 1] /\ more[k] = data[k] BY <4>1, <1>1, <1>5
            <4>3. at[k] = [line |-> at[k - 1].line + data[k].line,
                           character |-> IF data[k].line = 0 THEN at[k - 1].character + data[k].character
                                         ELSE data[k].character]
                BY <4>1 DEF Decodes
            <4> HIDE DEF new
            <4> QED BY <4>2, <4>3
        <3> QED BY <3>1, <3>2
    <2> HIDE DEF new
    <2> QED BY <2>2, <2>3, <2>4, <1>5 DEF Decodes
<1>8. new[Len(more)] = p BY <1>1, <1>5
<1>9. Marks(more, new) = Append(Marks(data, at), mark)
    <2> DEFINE M == Marks(data, at)
               T == [line : Int, character : Int, length : Int]
    <2>1. M = [k \in 1..n |-> [line |-> at[k].line, character |-> at[k].character, length |-> data[k].length]]
        BY DEF Marks
    <2>2. M \in Seq(T) /\ Len(M) = n
        <3>1. \A k \in 1..n : [line |-> at[k].line, character |-> at[k].character, length |-> data[k].length] \in T
            <4>1. SUFFICES ASSUME NEW k \in 1..n
                           PROVE  at[k].line \in Int /\ at[k].character \in Int /\ data[k].length \in Int
                OBVIOUS
            <4>2. data[k] \in Deltas OBVIOUS
            <4>3. k \in 0..n OBVIOUS
            <4>4. at[k] \in [line : Int, character : Int] BY <1>2, <4>3
            <4> QED BY <4>2, <4>4 DEF Deltas
        <3>2. M \in [1..n -> T]
            <4> HIDE DEF T
            <4> QED BY <2>1, <3>1
        <3> HIDE DEF M, T
        <3> QED BY <3>2, <1>1
    <2>3. mark \in T BY <1>3
    <2>4. Marks(more, new) = [k \in 1..(n + 1) |-> [line |-> new[k].line, character |-> new[k].character,
                                                    length |-> more[k].length]]
        <3>1. Len(more) = n + 1 BY <1>5
        <3> HIDE DEF new
        <3> QED BY <3>1 DEF Marks
    <2>5. Append(M, mark) = [k \in 1..(n + 1) |-> IF k = n + 1 THEN mark ELSE M[k]]
        <3> HIDE DEF M, T, mark
        <3>1. Append(M, mark) \in Seq(T) /\ Len(Append(M, mark)) = n + 1 /\ Append(M, mark)[n + 1] = mark
              /\ \A k \in 1..n : Append(M, mark)[k] = M[k]
            BY <2>2, <2>3, AppendProperties
        <3>2. Append(M, mark) = [k \in 1..(n + 1) |-> Append(M, mark)[k]]
            <4>1. \A s \in Seq(T) : s = [k \in 1..Len(s) |-> s[k]] OBVIOUS
            <4>2. PICK s : s = Append(M, mark) OBVIOUS
            <4>3. s = [k \in 1..(n + 1) |-> s[k]] BY <3>1, <4>1, <4>2
            <4> QED BY <4>2, <4>3
        <3>3. \A k \in 1..(n + 1) : Append(M, mark)[k] = IF k = n + 1 THEN mark ELSE M[k] BY <1>1, <3>1
        <3> QED BY <3>2, <3>3
    <2>6. ASSUME NEW k \in 1..(n + 1)
          PROVE  [line |-> new[k].line, character |-> new[k].character, length |-> more[k].length]
                 = IF k = n + 1 THEN mark ELSE M[k]
        <3>1. CASE k = n + 1
            <4>1. new[k] = p /\ more[k] = d BY <3>1, <1>1, <1>5
            <4> QED BY <3>1, <4>1, <1>4
        <3>2. CASE k # n + 1
            <4>1. k \in 1..n /\ new[k] = at[k] BY <3>2, <1>1
            <4>2. more[k] = data[k] BY <4>1, <1>5
            <4>3. M[k] = [line |-> at[k].line, character |-> at[k].character, length |-> data[k].length]
                BY <4>1, <2>1
            <4> HIDE DEF M, new, mark
            <4> QED BY <3>2, <4>1, <4>2, <4>3
        <3> QED BY <3>1, <3>2
    <2> HIDE DEF M, mark, new
    <2> QED BY <2>4, <2>5, <2>6 DEF M
<1> HIDE DEF new
<1> QED BY <1>1, <1>4, <1>5, <1>7, <1>8, <1>9 DEF more, d, before

\* The tokens and the ranges that a client may ask about.
TokensIn(t) == {x \in Places(t) \X Places(t) : x[1] < x[2]}
RangesIn(t) == {None} \cup (Places(t) \X Places(t))
Asked(t, range) ==
    IF range = None THEN None ELSE [start |-> PlaceOf(t, range[1]), end |-> PlaceOf(t, range[2])]
Within(i, range) == range # None => range[1] <= i /\ i < range[2]
Draws(t, x, range) == Unbroken(t, x[1], x[2]) /\ Within(x[1], range)
Shapes == [line : Int, character : Int, length : Int]
ShapeOf(t, x) ==
    [line |-> PlaceOf(t, x[1]).line, character |-> PlaceOf(t, x[1]).character,
     length |-> PlaceOf(t, x[2]).character - PlaceOf(t, x[1]).character]

\* A token of a text lies in it.
LEMMA ShapeTypes ==
    ASSUME NEW t \in Seq(Chars), NEW x \in TokensIn(t)
    PROVE  /\ x[1] \in 0..Len(t) /\ x[2] \in 0..Len(t) /\ x[1] < x[2] /\ x = <<x[1], x[2]>>
           /\ PlaceOf(t, x[1]) \in Position /\ PlaceOf(t, x[2]) \in Position /\ ShapeOf(t, x) \in Shapes
<1>1. x[1] \in 0..Len(t) /\ x[2] \in 0..Len(t) /\ x[1] < x[2] /\ x = <<x[1], x[2]>>
    BY DEF TokensIn, Places
<1>2. PICK q, st, O, U, h : Sheet(t, q, st, O, U, h) BY SheetExists
<1>3. PlaceOf(t, x[1]) \in Position /\ PlaceOf(t, x[2]) \in Position
    BY <1>1, <1>2, Lines DEF Sheet
<1>4. ShapeOf(t, x) \in Shapes BY <1>3 DEF ShapeOf, Shapes, Position
<1> QED BY <1>1, <1>3, <1>4

\* What the client has of the first tokens.
LEMMA DrawnBy ==
    ASSUME NEW t \in Seq(Chars), NEW tokens \in Seq(TokensIn(t)), NEW range
    PROVE  \E D : /\ D \in [0..Len(tokens) -> Seq(Shapes)] /\ D[0] = <<>>
                  /\ \A k \in 1..Len(tokens) :
                        D[k] = IF Draws(t, tokens[k], range) THEN Append(D[k - 1], ShapeOf(t, tokens[k]))
                               ELSE D[k - 1]
                  /\ Drawn(t, tokens, range) = D[Len(tokens)]
<1> DEFINE n == Len(tokens)
           A == Seq(Shapes)
           After(k, d) == IF Draws(t, tokens[k], range) THEN Append(d, ShapeOf(t, tokens[k])) ELSE d
           step == [x \in (1..n) \X A |-> After(x[1], x[2])]
           Def(f) == [k \in 0..n |-> IF k = 0 THEN <<>> ELSE After(k, f[k - 1])]
           drawn == CHOOSE f : f = Def(f)
<1>1. n \in Nat OBVIOUS
<1>2. \A k \in 1..n, d \in A : After(k, d) \in A
    <2>1. \A k \in 1..n : ShapeOf(t, tokens[k]) \in Shapes BY ShapeTypes
    <2> QED BY <2>1, AppendProperties
<1>3. step \in [(1..n) \X A -> A]
    <2> HIDE DEF After, A
    <2> QED BY <1>2
<1>4. <<>> \in A BY EmptySeq
<1>5. PICK D : D \in Paths(n, A, <<>>, step)
    <2> HIDE DEF step, A, n
    <2> QED BY <1>1, <1>3, <1>4, PathExists
<1>6. D \in [0..n -> A] /\ D[0] = <<>>
    <2> HIDE DEF A
    <2> QED BY <1>5 DEF Paths
<1>7. ASSUME NEW k \in 1..n PROVE D[k] = After(k, D[k - 1])
    <2>1. D[k] = step[<<k, D[k - 1]>>]
        <3> HIDE DEF step, A
        <3> QED BY <1>5 DEF Paths
    <2>2. D[k - 1] \in A BY <1>6, SMTT(40)
    <2> HIDE DEF After, A
    <2> QED BY <2>1, <2>2
<1>8. D = Def(D)
    <2>1. ASSUME NEW k \in 0..n PROVE D[k] = Def(D)[k]
        <3>1. CASE k = 0 BY <3>1, <1>6
        <3>2. CASE k # 0
            <4>1. k \in 1..n BY <3>2
            <4> HIDE DEF After
            <4> QED BY <3>2, <4>1, <1>7
        <3> QED BY <3>1, <3>2
    <2>2. D = [k \in 0..n |-> D[k]] BY <1>6
    <2>3. Def(D) = [k \in 0..n |-> Def(D)[k]] OBVIOUS
    <2> HIDE DEF Def
    <2> QED BY <2>1, <2>2, <2>3
<1>9. drawn = Def(drawn)
    <2> HIDE DEF Def
    <2> QED BY <1>8
<1>10. Drawn(t, tokens, range) = drawn[n]
    BY DEF Drawn, Draws, Unbroken, Within, ShapeOf, Terminators
<1> HIDE DEF drawn
<1> DEFINE P == {k \in 0..n : drawn[k] = D[k]}
<1>11. 0 \in P
    <2>1. Def(drawn)[0] = <<>> BY <1>1
    <2> HIDE DEF Def
    <2> QED BY <2>1, <1>1, <1>6, <1>9
<1>12. ASSUME NEW k \in 1..n, k - 1 \in P PROVE k \in P
    <2>1. Def(drawn)[k] = After(k, drawn[k - 1])
        <3> HIDE DEF After
        <3> QED OBVIOUS
    <2> HIDE DEF Def, After
    <2> QED BY <2>1, <1>7, <1>9, <1>12
<1>13. n \in P
    <2> HIDE DEF P, n
    <2> QED BY <1>1, <1>11, <1>12, Along
<1>14. Drawn(t, tokens, range) = D[n] BY <1>10, <1>13
<1> QED BY <1>6, <1>7, <1>14

\* A token that the server sends.
StartFor(b, lines, x) ==
    LET line == LineAmong(lines, x.offset)
    IN [line |-> line, character |-> utf16Length(Part(b, lines[line + 1], x.offset))]
Sends(b, lines, asked, acc, x) ==
    IF Describable(b, x) /\ InRange(StartFor(b, lines, x), asked)
    THEN [prev |-> StartFor(b, lines, x),
          data |-> Append(acc.data, Relative(StartFor(b, lines, x), acc.prev,
                                             utf16Length(Part(b, x.offset, x.offset + x.length))))]
    ELSE acc

\* It is one that the client draws.
LEMMA SendsDrawn ==
    ASSUME NEW t, NEW q, NEW st, NEW O, NEW U, NEW h, Sheet(t, q, st, O, U, h),
           NEW x \in TokensIn(t), NEW range \in RangesIn(t), NEW acc
    PROVE  Sends(Buffer(t), computeLineOffsets(Buffer(t)), Asked(t, range), acc, TokenOf(t, x))
           = IF Draws(t, x, range)
             THEN [prev |-> PlaceOf(t, x[1]),
                   data |-> Append(acc.data, Relative(PlaceOf(t, x[1]), acc.prev, ShapeOf(t, x).length))]
             ELSE acc
<1> DEFINE b == Buffer(t)
           lines == computeLineOffsets(b)
           i == x[1]
           j == x[2]
           tok == TokenOf(t, x)
<1>1. t \in Seq(Chars) /\ PlaceOf(t, i) = q[i] /\ PlaceOf(t, j) = q[j] /\ q[i] \in Position
      /\ i \in 0..Len(t) /\ j \in 0..Len(t) /\ i < j /\ x = <<i, j>>
    <2>1. t \in Seq(Chars) BY DEF Sheet
    <2>2. i \in 0..Len(t) /\ j \in 0..Len(t) /\ i < j /\ x = <<i, j>> BY <2>1, ShapeTypes
    <2> QED BY <2>1, <2>2, Lines DEF Sheet
<1>2. /\ tok = [offset |-> O[i], length |-> O[j] - O[i]] /\ O[i] \in Nat /\ O[j] \in Nat
      /\ Describable(b, tok) <=> Unbroken(t, i, j)
    <2>1. /\ TokenOf(t, <<i, j>>) = [offset |-> O[i], length |-> O[j] - O[i]]
          /\ O[i] \in Nat /\ O[j] \in Nat /\ O[i] < O[j] /\ O[j] < Len(b)
          /\ Describable(b, TokenOf(t, <<i, j>>)) <=> Unbroken(t, i, j)
        BY <1>1, Describes
    <2>2. PICK y : y = <<i, j>> OBVIOUS
    <2>3. tok = TokenOf(t, y) BY <1>1, <2>2
    <2> QED BY <2>1, <2>2, <2>3
<1>3. tok.offset = O[i] /\ tok.offset + tok.length = O[j] BY <1>2
<1> HIDE DEF b, tok, lines
<1>4. CASE ~Unbroken(t, i, j)
    <2>1. ~Describable(b, tok) BY <1>2, <1>4
    <2>2. Sends(b, lines, Asked(t, range), acc, tok) = acc BY <2>1 DEF Sends
    <2>3. ~Draws(t, x, range) BY <1>4 DEF Draws
    <2> QED BY <2>2, <2>3 DEF b, tok, lines
<1>5. CASE Unbroken(t, i, j)
    <2>1. /\ LineAmong(lines, O[i]) = q[i].line
          /\ utf16Length(Part(b, lines[q[i].line + 1], O[i])) = q[i].character
          /\ utf16Length(Part(b, O[i], O[j])) = q[j].character - q[i].character
        BY <1>1, <1>5, StartsAt DEF b, lines
    <2>2. StartFor(b, lines, tok) = q[i]
        <3>1. StartFor(b, lines, tok) = [line |-> q[i].line, character |-> q[i].character]
            BY <2>1, <1>3 DEF StartFor
        <3> QED BY <3>1, <1>1 DEF Position
    <2>3. InRange(q[i], Asked(t, range)) <=> Within(i, range)
        <3>1. CASE range = None BY <3>1 DEF InRange, Within, Asked
        <3>2. CASE range # None
            <4>1. range[1] \in 0..Len(t) /\ range[2] \in 0..Len(t) BY <3>2 DEF RangesIn, Places
            <4>2. PlaceOf(t, range[1]) = q[range[1]] /\ PlaceOf(t, range[2]) = q[range[2]]
                  /\ q[range[1]] \in Position /\ q[range[2]] \in Position
                BY <4>1, Lines DEF Sheet
            <4>3. Asked(t, range) = [start |-> q[range[1]], end |-> q[range[2]]] BY <3>2, <4>2 DEF Asked
            <4>4. Asked(t, range) # None
                <5>1. Asked(t, range) \in [start : Position, end : Position] BY <4>2, <4>3
                <5> QED BY <5>1, PositionsAssumption
            <4>5. positionLess(q[i], q[range[1]]) <=> i < range[1] BY <1>1, <4>1, Ordering
            <4>6. positionLess(q[i], q[range[2]]) <=> i < range[2] BY <1>1, <4>1, Ordering
            <4>7. InRange(q[i], Asked(t, range)) <=> ~(i < range[1]) /\ i < range[2]
                BY <4>3, <4>4, <4>5, <4>6 DEF InRange
            <4>8. ~(i < range[1]) <=> range[1] <= i BY <4>1, <1>1
            <4> QED BY <3>2, <4>7, <4>8 DEF Within
        <3> QED BY <3>1, <3>2
    <2>4. utf16Length(Part(b, tok.offset, tok.offset + tok.length)) = ShapeOf(t, x).length
        BY <1>1, <1>3, <2>1 DEF ShapeOf
    <2>5. Sends(b, lines, Asked(t, range), acc, tok)
          = IF Within(i, range)
            THEN [prev |-> q[i], data |-> Append(acc.data, Relative(q[i], acc.prev, ShapeOf(t, x).length))]
            ELSE acc
        BY <1>2, <1>5, <2>2, <2>3, <2>4 DEF Sends
    <2>6. Draws(t, x, range) <=> Within(i, range) BY <1>5 DEF Draws
    <2> QED BY <1>1, <2>5, <2>6 DEF b, tok, lines
<1> QED BY <1>4, <1>5 DEF b, tok, lines

\* What the server has sent decodes to the places of its tokens.
LEMMA TokensLead ==
    ASSUME NEW t \in Seq(Chars), NEW tokens \in Seq(TokensIn(t)), NEW range \in RangesIn(t)
    PROVE  Decoded(encodeSemanticTokens(Buffer(t), [k \in DOMAIN tokens |-> TokenOf(t, tokens[k])],
                                        Asked(t, range)))
           = Drawn(t, tokens, range)
<1> DEFINE N == Len(tokens)
           b == Buffer(t)
           lines == computeLineOffsets(b)
           T == [k \in DOMAIN tokens |-> TokenOf(t, tokens[k])]
           asked == Asked(t, range)
           A == [prev : Position, data : Seq(Deltas)]
           first == [prev |-> [line |-> 0, character |-> 0], data |-> <<>>]
           Def(f) == [s \in SUBSET DOMAIN T |->
                         IF s = {} THEN first ELSE Sends(b, lines, asked, f[s \ {Max(s)}], T[Max(s)])]
           iter == CHOOSE f : f = Def(f)
           step == [k \in 1..N |-> [acc \in A |-> Sends(b, lines, asked, acc, T[k])]]
<1>1. encodeSemanticTokens(b, T, asked) = iter[DOMAIN T].data
    <2> HIDE DEF T, asked, b
    <2> QED BY DEF encodeSemanticTokens, FoldLeft, MapThenFoldSet, Sends, StartFor
<1>2. N \in Nat /\ DOMAIN tokens = 1..N /\ DOMAIN T = 1..N OBVIOUS
<1>3. PICK q, st, O, U, h : Sheet(t, q, st, O, U, h) BY SheetExists
<1>4. PICK D : /\ D \in [0..N -> Seq(Shapes)] /\ D[0] = <<>>
               /\ \A k \in 1..N :
                     D[k] = IF Draws(t, tokens[k], range) THEN Append(D[k - 1], ShapeOf(t, tokens[k]))
                            ELSE D[k - 1]
               /\ Drawn(t, tokens, range) = D[N]
    BY DrawnBy, SMTT(40)
<1> DEFINE B == [k \in Nat |-> {acc \in A : \E at : /\ Decodes(acc.data, at) /\ acc.prev = at[Len(acc.data)]
                                                    /\ Marks(acc.data, at) = D[k]}]
<1>5. ASSUME NEW k \in 1..N, NEW acc
      PROVE  Sends(b, lines, asked, acc, T[k])
             = IF Draws(t, tokens[k], range)
               THEN [prev |-> PlaceOf(t, tokens[k][1]),
                     data |-> Append(acc.data, Relative(PlaceOf(t, tokens[k][1]), acc.prev,
                                                        ShapeOf(t, tokens[k]).length))]
               ELSE acc
    <2>1. PICK x : x = tokens[k] OBVIOUS
    <2>2. x \in TokensIn(t) /\ T[k] = TokenOf(t, x) BY <2>1
    <2>3. Sends(b, lines, asked, acc, TokenOf(t, x))
          = IF Draws(t, x, range)
            THEN [prev |-> PlaceOf(t, x[1]),
                  data |-> Append(acc.data, Relative(PlaceOf(t, x[1]), acc.prev, ShapeOf(t, x).length))]
            ELSE acc
        BY <1>3, <2>2, SendsDrawn
    <2> HIDE DEF T, b, lines, asked
    <2> QED BY <2>1, <2>2, <2>3
<1>6. \A k \in 1..N : PlaceOf(t, tokens[k][1]) \in Position /\ ShapeOf(t, tokens[k]) \in Shapes
                      /\ ShapeOf(t, tokens[k]).length \in Int
    <2>1. \A k \in 1..N : tokens[k] \in TokensIn(t) OBVIOUS
    <2>2. \A s \in Shapes : s.length \in Int BY DEF Shapes
    <2> QED BY <2>1, <2>2, ShapeTypes
<1> HIDE DEF T, b, lines, asked
<1>7. ASSUME NEW k \in 1..N, NEW acc \in A PROVE Sends(b, lines, asked, acc, T[k]) \in A
    <2>1. CASE Draws(t, tokens[k], range)
        <3> DEFINE p == PlaceOf(t, tokens[k][1])
                   d == Relative(p, acc.prev, ShapeOf(t, tokens[k]).length)
        <3>1. p \in Position /\ acc.prev \in Position /\ acc.data \in Seq(Deltas) BY <1>6
        <3>2. d \in Deltas BY <1>6, <3>1 DEF Relative, Deltas, Position
        <3> HIDE DEF p, d
        <3>3. Append(acc.data, d) \in Seq(Deltas) BY <3>1, <3>2, AppendProperties
        <3>4. Sends(b, lines, asked, acc, T[k]) = [prev |-> p, data |-> Append(acc.data, d)]
            BY <1>5, <2>1 DEF p, d
        <3> QED BY <3>1, <3>3, <3>4
    <2>2. CASE ~Draws(t, tokens[k], range) BY <1>5, <2>2
    <2> QED BY <2>1, <2>2
<1>8. first \in A
    <2>1. <<>> \in Seq(Deltas) BY EmptySeq
    <2> QED BY <2>1 DEF Position
<1>9. ASSUME NEW k \in Nat, NEW acc \in A, k < N, acc \in B[k]
      PROVE  Sends(b, lines, asked, acc, T[k + 1]) \in B[k + 1]
    <2> DEFINE x == tokens[k + 1]
               new == Sends(b, lines, asked, acc, T[k + 1])
    <2>1. k + 1 \in 1..N /\ (k + 1) - 1 = k /\ k \in 0..N BY <1>2, <1>9
    <2>2. new \in A BY <1>7, <2>1
    <2>3. PICK at : /\ Decodes(acc.data, at) /\ acc.prev = at[Len(acc.data)]
                    /\ Marks(acc.data, at) = D[k]
        BY <1>9
    <2>4. \A y \in A : (\E at2 : /\ Decodes(y.data, at2) /\ y.prev = at2[Len(y.data)]
                                 /\ Marks(y.data, at2) = D[k + 1]) => y \in B[k + 1]
        <3>1. k + 1 \in Nat OBVIOUS
        <3> HIDE DEF A
        <3> QED BY <3>1
    <2>5. D[k + 1] = IF Draws(t, x, range) THEN Append(D[k], ShapeOf(t, x)) ELSE D[k]
        BY <1>4, <2>1
    <2>6. CASE ~Draws(t, x, range)
        <3>1. new = acc
            <4> HIDE DEF A, B
            <4> QED BY <1>5, <2>1, <2>6
        <3>2. D[k + 1] = D[k] BY <2>5, <2>6
        <3>3. acc \in B[k + 1] BY <2>3, <2>4, <3>2
        <3> QED BY <3>1, <3>3
    <2>7. CASE Draws(t, x, range)
        <3> DEFINE p == PlaceOf(t, x[1])
                   length == ShapeOf(t, x).length
                   d == Relative(p, acc.prev, length)
                   more == Append(acc.data, d)
        <3>1. p \in Position /\ length \in Int /\ acc.data \in Seq(Deltas) BY <1>6, <2>1
        <3>2. new = [prev |-> p, data |-> more] BY <1>5, <2>1, <2>7
        <3>3. ShapeOf(t, x) = [line |-> p.line, character |-> p.character, length |-> length]
            BY DEF ShapeOf
        <3> HIDE DEF p, length
        <3>4. PICK at2 : /\ Decodes(more, at2) /\ at2[Len(more)] = p
                         /\ Marks(more, at2)
                            = Append(Marks(acc.data, at), [line |-> p.line, character |-> p.character,
                                                           length |-> length])
            <4>1. PICK data : data = acc.data OBVIOUS
            <4> DEFINE e == Relative(p, at[Len(data)], length)
                       longer == Append(data, e)
            <4>2. data \in Seq(Deltas) /\ Decodes(data, at) BY <2>3, <3>1, <4>1
            <4> HIDE DEF A, B, T
            <4>3. p \in Position /\ length \in Int BY <3>1
            <4>4. \E at2 : /\ Decodes(longer, at2) /\ at2[Len(longer)] = p
                           /\ Marks(longer, at2)
                              = Append(Marks(data, at),
                                       [line |-> p.line, character |-> p.character, length |-> length])
                BY <4>2, <4>3, DecodesOne
            <4>5. longer = more
                <5>1. at[Len(data)] = acc.prev BY <2>3, <4>1
                <5> QED BY <4>1, <5>1
            <4> HIDE DEF longer, more
            <4> QED BY <4>1, <4>4, <4>5
        <3> HIDE DEF more, new, x
        <3>5. Marks(more, at2) = D[k + 1] BY <2>3, <2>5, <2>7, <3>3, <3>4
        <3>6. new.data = more /\ new.prev = p BY <3>2
        <3> HIDE DEF A, B
        <3>7. new \in B[k + 1] BY <2>2, <2>4, <3>4, <3>5, <3>6
        <3> QED BY <3>7 DEF new
    <2> QED BY <2>6, <2>7
<1>10. first \in B[0]
    <2> DEFINE at == [k \in 0..0 |-> Corner]
    <2>1. Len(<<>>) = 0 /\ 1..0 = {} OBVIOUS
    <2>2. Decodes(<<>>, at) BY <2>1 DEF Decodes, Corner
    <2>3. Marks(<<>>, at) = <<>> BY <2>1 DEF Marks
    <2>4. at[0] = Corner OBVIOUS
    <2>5. first.data = <<>> /\ first.prev = Corner BY DEF Corner
    <2> HIDE DEF at, first, A
    <2> QED BY <1>4, <1>8, <2>1, <2>2, <2>3, <2>4, <2>5
<1> HIDE DEF A, first, N
<1>11. step \in [1..N -> [A -> A]] BY <1>7
<1>12. \A s \in SUBSET (1..N) : s # {} => Max(s) \in 1..N
    <2>1. ASSUME NEW s \in SUBSET (1..N), s # {} PROVE Max(s) \in s
        BY <1>2, <2>1, LastPosition
    <2> QED BY <2>1
<1>13. PICK f : f \in FoldsOver(N, A, first, step)
    <2> HIDE DEF step
    <2>1. N \in Nat BY <1>2
    <2>2. FoldsOver(N, A, first, step) # {} BY <2>1, <1>8, <1>11, FoldExists
    <2> QED BY <2>2
<1>14. f = Def(f)
    <2>1. f \in [SUBSET (1..N) -> A] /\ f[{}] = first BY <1>13 DEF FoldsOver
    <2>2. ASSUME NEW s \in SUBSET (1..N), s # {}
          PROVE  f[s] = Sends(b, lines, asked, f[s \ {Max(s)}], T[Max(s)])
        <3>1. f[s] = step[Max(s)][f[s \ {Max(s)}]]
            <4> HIDE DEF step
            <4> QED BY <1>13, <2>2 DEF FoldsOver
        <3>2. f[s \ {Max(s)}] \in A BY <2>1
        <3> QED BY <1>12, <2>2, <3>1, <3>2
    <2>3. f = [s \in SUBSET (1..N) |-> f[s]] BY <2>1
    <2>4. \A s \in SUBSET (1..N) :
              f[s] = IF s = {} THEN first ELSE Sends(b, lines, asked, f[s \ {Max(s)}], T[Max(s)])
        BY <2>1, <2>2
    <2> QED BY <1>2, <2>3, <2>4
<1>15. iter = Def(iter)
    <2> HIDE DEF Def
    <2> QED BY <1>14
<1> HIDE DEF iter
<1>16. iter[{}] = first BY <1>2, <1>15
<1>17. ASSUME NEW s \in SUBSET (1..N), s # {}, iter[s \ {Max(s)}] \in A
       PROVE  iter[s] = step[Max(s)][iter[s \ {Max(s)}]]
    <2>1. iter[s] = Sends(b, lines, asked, iter[s \ {Max(s)}], T[Max(s)])
        <3>1. iter[s] = Def(iter)[s]
            <4> HIDE DEF Def
            <4> QED BY <1>15
        <3> QED BY <1>2, <1>17, <3>1
    <2> QED BY <1>12, <1>17, <2>1
<1>18. iter[1..N] \in B[N]
    <2>1. \A k \in Nat : \A acc \in A : k < N /\ acc \in B[k] => step[k + 1][acc] \in B[k + 1]
        <3>1. ASSUME NEW k \in Nat, NEW acc \in A, k < N, acc \in B[k] PROVE step[k + 1][acc] \in B[k + 1]
            <4>1. k + 1 \in 1..N BY <1>2, <3>1
            <4>2. step[k + 1][acc] = Sends(b, lines, asked, acc, T[k + 1]) BY <4>1
            <4> HIDE DEF B, step
            <4> QED BY <1>9, <3>1, <4>2
        <3> HIDE DEF B, step
        <3> QED BY <3>1
    <2> HIDE DEF Def, B, step
    <2>2. N \in Nat BY <1>2
    <2>3. \A s \in SUBSET (1..N) : s # {} /\ iter[s \ {Max(s)}] \in A
                                   => iter[s] = step[Max(s)][iter[s \ {Max(s)}]]
        BY <1>17
    <2>4. Folding(N, A, first, step, B, iter)
        BY <2>1, <2>2, <2>3, <1>8, <1>10, <1>11, <1>16 DEF Folding
    <2> QED BY <2>4, FoldLeads
<1>19. PICK at : Decodes(iter[1..N].data, at) /\ Marks(iter[1..N].data, at) = D[N]
    <2>1. N \in Nat BY <1>2
    <2> QED BY <1>18, <2>1
<1>20. iter[1..N].data \in Seq(Deltas)
    <2>1. N \in Nat BY <1>2
    <2>2. iter[1..N] \in A BY <1>18, <2>1
    <2> QED BY <2>2 DEF A
<1>21. Decoded(iter[1..N].data) = D[N] BY <1>19, <1>20, DecodedBy
<1> QED BY <1>1, <1>2, <1>4, <1>21 DEF b, T, asked

-----------------------------------------------------------------------------
(* Positions: what the client and the server agree on.                     *)

Changes == [range : {None} \cup [start : Position, end : Position], text : Seq(Byte)]
Edits == [about : {"edit"}, text : Seq(Chars), now : Seq(Chars), changes : Seq(Changes)]
\* Each change leads from the buffer of one text to that of the next.
History(e, hist) ==
    /\ hist[0] = e.text /\ hist[Len(e.changes)] = e.now
    /\ \A k \in 1..Len(e.changes) : applyChange(Buffer(hist[k - 1]), e.changes[k]) = Buffer(hist[k])
Mirrored(e) == e \in Edits /\ \E hist : History(e, hist)
Told(e) ==
    \E text \in Seq(Chars) : \E range \in RangesIn(text), tokens \in Seq(TokensIn(text)) :
        e = [about |-> "tokens", text |-> text, range |-> range, tokens |-> tokens]
PositionsInv == question = None \/ Mirrored(question) \/ Told(question)

\* One change more.
LEMMA MirrorsOne ==
    ASSUME NEW e, Mirrored(e), NEW now \in Seq(Chars), NEW change \in Changes,
           applyChange(Buffer(e.now), change) = Buffer(now)
    PROVE  Mirrored([e EXCEPT !.now = now, !.changes = Append(@, change)])
<1>1. PICK hist : History(e, hist) BY DEF Mirrored
<1> DEFINE n == Len(e.changes)
           more == Append(e.changes, change)
           e2 == [e EXCEPT !.now = now, !.changes = Append(@, change)]
           new == [k \in 0..(n + 1) |-> IF k = n + 1 THEN now ELSE hist[k]]
<1>2. e.changes \in Seq(Changes) BY DEF Mirrored, Edits
<1>3. n \in Nat /\ more \in Seq(Changes) /\ Len(more) = n + 1 /\ more[n + 1] = change
      /\ \A k \in 1..n : more[k] = e.changes[k]
    BY <1>2, AppendProperties
<1>4. e2 \in Edits /\ e2.text = e.text /\ e2.now = now /\ e2.changes = more
    BY <1>3 DEF Mirrored, Edits
<1> HIDE DEF more, e2
<1>5. new[0] = e.text /\ new[Len(more)] = now BY <1>1, <1>3 DEF History
<1>6. ASSUME NEW k \in 1..Len(more) PROVE applyChange(Buffer(new[k - 1]), more[k]) = Buffer(new[k])
    <2>1. CASE k = n + 1
        <3>1. new[k] = now /\ new[k - 1] = hist[n] /\ more[k] = change BY <2>1, <1>3
        <3>2. hist[n] = e.now BY <1>1 DEF History
        <3> HIDE DEF new
        <3> QED BY <3>1, <3>2
    <2>2. CASE k # n + 1
        <3>1. k \in 1..n BY <2>2, <1>3
        <3>2. new[k] = hist[k] /\ new[k - 1] = hist[k - 1] /\ more[k] = e.changes[k] BY <3>1, <1>3
        <3> HIDE DEF new
        <3> QED BY <3>1, <3>2, <1>1 DEF History
    <2> QED BY <2>1, <2>2
<1> HIDE DEF new
<1>7. History(e2, new) BY <1>4, <1>5, <1>6 DEF History
<1> QED BY <1>4, <1>7 DEF Mirrored, e2

\* Every step keeps both.
LEMMA PositionsKept ==
    ASSUME PositionsInv, [AskEdit \/ AddChange \/ AskTokens \/ AddToken]_question
    PROVE  PositionsInv'
<1>1. CASE AskEdit
    <2>1. PICK text \in Contents :
              question' = [about |-> "edit", text |-> text, now |-> text, changes |-> <<>>]
        BY <1>1 DEF AskEdit
    <2>2. text \in Seq(Chars) /\ <<>> \in Seq(Changes) /\ Len(<<>>) = 0 BY PositionsAssumption, EmptySeq
    <2> DEFINE hist == [k \in 0..0 |-> text]
    <2>3. question' \in Edits /\ question'.text = text /\ question'.now = text /\ question'.changes = <<>>
        BY <2>1, <2>2 DEF Edits
    <2>4. hist[0] = text /\ 1..0 = {} OBVIOUS
    <2>5. History(question', hist) BY <2>2, <2>3, <2>4 DEF History
    <2>6. Mirrored(question') BY <2>3, <2>5 DEF Mirrored
    <2> QED BY <2>6 DEF PositionsInv
<1>2. CASE AddChange
    <2>1. question # None /\ question.about = "edit" BY <1>2 DEF AddChange
    <2>2. Mirrored(question)
        <3>1. Told(question) => question.about = "tokens" BY DEF Told
        <3> QED BY <2>1, <3>1 DEF PositionsInv
    <2>3. question.now \in Seq(Chars) BY <2>2 DEF Mirrored, Edits
    <2>4. \A s \in Seq(Chars) : Bytes(s) \in Seq(Byte) BY BufferBytes
    <2>5. CASE \E i, j \in Places(question.now), new \in Insertions : i <= j /\ Edit(question.now, i, j, new)
        <3>1. PICK i \in Places(question.now), j \in Places(question.now), new \in Insertions :
                  i <= j /\ Edit(question.now, i, j, new)
            BY <2>5
        <3> DEFINE now == question.now
                   change == [range |-> [start |-> PlaceOf(now, i), end |-> PlaceOf(now, j)], text |-> Bytes(new)]
        <3>2. new \in Seq(Chars) BY PositionsAssumption
        <3>3. Edited(now, i, j, new) \in Seq(Chars)
              /\ applyChange(Buffer(now), change) = Buffer(Edited(now, i, j, new))
            BY <2>3, <3>1, <3>2, AppliesRange
        <3>4. change \in Changes
            <4>1. PICK q, st, O, U, h : Sheet(now, q, st, O, U, h) BY <2>3, SheetExists
            <4>2. i \in 0..Len(now) /\ j \in 0..Len(now) BY DEF Places
            <4>3. PlaceOf(now, i) \in Position /\ PlaceOf(now, j) \in Position BY <4>1, <4>2, Lines DEF Sheet
            <4> QED BY <2>4, <3>2, <4>3 DEF Changes
        <3>5. question' = [question EXCEPT !.now = Edited(now, i, j, new), !.changes = Append(@, change)]
            BY <3>1 DEF Edit, Edited
        <3> HIDE DEF now, change
        <3>6. applyChange(Buffer(question.now), change) = Buffer(Edited(now, i, j, new)) BY <3>3 DEF now
        <3>7. Mirrored(question') BY <2>2, <3>3, <3>4, <3>5, <3>6, MirrorsOne
        <3> QED BY <3>7 DEF PositionsInv
    <2>6. CASE \E new \in Insertions :
                  question' = [question EXCEPT !.now = new,
                                               !.changes = Append(@, [range |-> None, text |-> Bytes(new)])]
        <3>1. PICK new \in Insertions :
                  question' = [question EXCEPT !.now = new,
                                               !.changes = Append(@, [range |-> None, text |-> Bytes(new)])]
            BY <2>6
        <3> DEFINE change == [range |-> None, text |-> Bytes(new)]
        <3>2. new \in Seq(Chars) BY PositionsAssumption
        <3>3. change \in Changes BY <2>4, <3>2 DEF Changes
        <3>4. applyChange(Buffer(question.now), change) = Buffer(new)
            <4>1. Buffer(question.now) \in Seq(Byte) BY <2>3, BufferBytes
            <4> QED BY <3>2, <4>1, AppliesWhole
        <3>5. Mirrored(question') BY <2>2, <3>1, <3>2, <3>3, <3>4, MirrorsOne
        <3> QED BY <3>5 DEF PositionsInv
    <2> QED BY <1>2, <2>5, <2>6 DEF AddChange
<1>3. CASE AskTokens
    <2>1. PICK text \in Contents : \E range \in {None} \cup (Places(text) \X Places(text)) :
              question' = [about |-> "tokens", text |-> text, range |-> range, tokens |-> <<>>]
        BY <1>3 DEF AskTokens
    <2>2. PICK range \in RangesIn(text) :
              question' = [about |-> "tokens", text |-> text, range |-> range, tokens |-> <<>>]
        BY <2>1 DEF RangesIn
    <2>3. text \in Seq(Chars) /\ <<>> \in Seq(TokensIn(text)) BY PositionsAssumption, EmptySeq
    <2>4. Told(question') BY <2>2, <2>3 DEF Told
    <2> QED BY <2>4 DEF PositionsInv
<1>4. CASE AddToken
    <2>1. question # None /\ question.about = "tokens" BY <1>4 DEF AddToken
    <2>2. Told(question)
        <3>1. Mirrored(question) => question.about = "edit" BY DEF Mirrored, Edits
        <3> QED BY <2>1, <3>1 DEF PositionsInv
    <2>3. PICK text \in Seq(Chars) : \E range \in RangesIn(text), tokens \in Seq(TokensIn(text)) :
              question = [about |-> "tokens", text |-> text, range |-> range, tokens |-> tokens]
        BY <2>2 DEF Told
    <2>4. PICK range \in RangesIn(text), tokens \in Seq(TokensIn(text)) :
              question = [about |-> "tokens", text |-> text, range |-> range, tokens |-> tokens]
        BY <2>3
    <2>5. PICK i \in Places(question.text), j \in Places(question.text) :
              i < j /\ question' = [question EXCEPT !.tokens = Append(@, <<i, j>>)]
        BY <1>4 DEF AddToken
    <2>6. <<i, j>> \in TokensIn(text) BY <2>4, <2>5 DEF TokensIn
    <2>7. PICK x : x = <<i, j>> OBVIOUS
    <2>8. Append(tokens, x) \in Seq(TokensIn(text)) BY <2>6, <2>7, AppendProperties
    <2>9. question' = [about |-> "tokens", text |-> text, range |-> range, tokens |-> Append(tokens, x)]
        BY <2>4, <2>5, <2>7
    <2>10. Told(question') BY <2>8, <2>9 DEF Told
    <2> QED BY <2>10 DEF PositionsInv
<1>5. CASE UNCHANGED question BY <1>5 DEF PositionsInv
<1> QED BY <1>1, <1>2, <1>3, <1>4, <1>5

\* The locations of a token and of the place where it starts.
LEMMA TokenPlaces ==
    ASSUME NEW t \in Seq(Chars), NEW x \in TokensIn(t)
    PROVE  /\ toRange(Buffer(t), TokenOf(t, x).offset, TokenOf(t, x).length)
              = [start |-> PlaceOf(t, x[1]), end |-> PlaceOf(t, x[2])]
           /\ toSourceLocation(Buffer(t), PlaceOf(t, x[1])) = TokenOf(t, x).offset
<1>1. PICK q, st, O, U, h : Sheet(t, q, st, O, U, h) BY SheetExists
<1>2. x[1] \in Places(t) /\ x[2] \in Places(t) /\ x[1] \in 0..Len(t) /\ x[2] \in 0..Len(t) /\ Len(t) \in Nat
    BY DEF TokensIn, Places
<1>3. PlaceOf(t, x[1]) = q[x[1]] /\ PlaceOf(t, x[2]) = q[x[2]] BY <1>1, <1>2 DEF Sheet
<1>4. /\ \A k \in 0..(Len(t) + 1) : O[k] \in Nat
      /\ \A k \in 0..Len(t) : OffsetOf(t, k) = O[k]
    BY <1>1, SheetFacts
<1>5. O[x[1]] \in Nat /\ O[x[2]] \in Nat /\ OffsetOf(t, x[1]) = O[x[1]] /\ OffsetOf(t, x[2]) = O[x[2]]
    BY <1>2, <1>4
<1>6. TokenOf(t, x).offset = O[x[1]] /\ TokenOf(t, x).offset + TokenOf(t, x).length = O[x[2]]
    BY <1>5 DEF TokenOf
<1>7. toPosition(Buffer(t), O[x[1]]) = q[x[1]] /\ toPosition(Buffer(t), O[x[2]]) = q[x[2]]
    BY <1>1, <1>2, Positioned
<1>8. toSourceLocation(Buffer(t), q[x[1]]) = O[x[1]] BY <1>1, <1>2, Located
<1> QED BY <1>3, <1>6, <1>7, <1>8 DEF toRange

\* The inductive invariant implies the property.
LEMMA PositionsImplied ==
    ASSUME PositionsInv
    PROVE  PositionsAgree
<1>1. EditsMirrorClient
    <2>1. SUFFICES ASSUME question # None, question.about = "edit"
                   PROVE  onChange(Buffer(question.text), question.changes) = Buffer(question.now)
        BY DEF EditsMirrorClient
    <2>2. Told(question) => question.about = "tokens" BY DEF Told
    <2>3. PICK hist : History(question, hist) BY <2>1, <2>2 DEF PositionsInv, Mirrored
    <2>4. question.changes \in Seq(Changes) BY <2>1, <2>2 DEF PositionsInv, Mirrored, Edits
    <2> DEFINE changes == question.changes
    <2>5. Len(changes) \in Nat /\ DOMAIN changes = 1..Len(changes) BY <2>4
    <2> HIDE DEF changes
    <2>6. /\ hist[0] = question.text /\ hist[Len(changes)] = question.now
          /\ \A k \in 1..Len(changes) : applyChange(Buffer(hist[k - 1]), changes[k]) = Buffer(hist[k])
        BY <2>3 DEF History, changes
    <2>7. onChange(Buffer(hist[0]), changes) = Buffer(hist[Len(changes)]) BY <2>5, <2>6, Leads
    <2> QED BY <2>6, <2>7 DEF changes
<1>2. TokensDecode
    <2>1. SUFFICES ASSUME question # None, question.about = "tokens" PROVE TokensDecode
        BY DEF TokensDecode
    <2>2. Mirrored(question) => question.about = "edit" BY DEF Mirrored, Edits
    <2>3. PICK text \in Seq(Chars) : \E range \in RangesIn(text), tokens \in Seq(TokensIn(text)) :
              question = [about |-> "tokens", text |-> text, range |-> range, tokens |-> tokens]
        BY <2>1, <2>2 DEF PositionsInv, Told
    <2>4. PICK range \in RangesIn(text), tokens \in Seq(TokensIn(text)) :
              /\ question.text = text /\ question.range = range /\ question.tokens = tokens
        BY <2>3
    <2> DEFINE T == [k \in DOMAIN tokens |-> TokenOf(text, tokens[k])]
    <2>5. Decoded(encodeSemanticTokens(Buffer(text), T, Asked(text, range))) = Drawn(text, tokens, range)
        BY TokensLead
    <2>6. ASSUME NEW k \in DOMAIN T
          PROVE  /\ toRange(Buffer(text), T[k].offset, T[k].length)
                    = [start |-> PlaceOf(text, tokens[k][1]), end |-> PlaceOf(text, tokens[k][2])]
                 /\ toSourceLocation(Buffer(text), PlaceOf(text, tokens[k][1])) = T[k].offset
        <3>1. tokens[k] \in TokensIn(text) /\ T[k] = TokenOf(text, tokens[k]) OBVIOUS
        <3> HIDE DEF T
        <3> QED BY <3>1, TokenPlaces
    <2> HIDE DEF T
    <2> QED BY <2>1, <2>4, <2>5, <2>6 DEF TokensDecode, Asked, T
<1> QED BY <1>1, <1>2 DEF PositionsAgree

\* The server and the client mean the same place by a position: after a notification of any
\* changes the server's buffer has the bytes of the client's text (SlangDoc::onChange), and the
\* tokens that it sends for a text or a range decode to the ones that the client draws there
\* (encodeSemanticTokens, toPosition, toSourceLocation).
THEOREM Positions_Agree == PositionsSpec => []PositionsAgree
<1>1. question = None => PositionsInv BY DEF PositionsInv
<1>2. PositionsInv /\ [AskEdit \/ AddChange \/ AskTokens \/ AddToken]_question => PositionsInv'
    BY PositionsKept
<1>3. PositionsInv => PositionsAgree BY PositionsImplied
<1> QED BY <1>1, <1>2, <1>3, PTL DEF PositionsSpec

-----------------------------------------------------------------------------
(* URIs: what a client sends, and what is decoded from it.                 *)

\* How one character is sent.
Chunk(c, E) == IF c \in E THEN <<"%", Code[c][1], Code[c][2]>> ELSE <<c>>

\* How a text is escaped, from character to character.
Escapings(p, E, S) ==
    {q \in [0..Len(p) -> Seq(S)] : /\ q[0] = <<>> /\ Escape(p, E) = q[Len(p)]
                                   /\ \A k \in 1..Len(p) : q[k] = q[k - 1] \o Chunk(p[k], E)}
LEMMA EscapePath ==
    ASSUME NEW S, NEW p \in Seq(DOMAIN Code), NEW E, \A k \in 1..Len(p) : Chunk(p[k], E) \in Seq(S)
    PROVE  \E q : q \in Escapings(p, E, S)
<1> DEFINE n == Len(p)
           A == Seq(S)
           step == [x \in (1..n) \X A |-> x[2] \o Chunk(p[x[1]], E)]
           Def(f) == [i \in 0..n |-> IF i = 0 THEN <<>> ELSE f[i - 1] \o Chunk(p[i], E)]
           result == CHOOSE f : f = Def(f)
<1>1. n \in Nat OBVIOUS
<1>2. step \in [(1..n) \X A -> A]
    <2>1. ASSUME NEW x \in (1..n) \X A PROVE x[2] \o Chunk(p[x[1]], E) \in A
        <3>1. x[1] \in 1..n /\ x[2] \in A OBVIOUS
        <3>2. Chunk(p[x[1]], E) \in A BY <3>1
        <3> QED BY <3>1, <3>2, ConcatProperties
    <2> QED BY <2>1
<1>3. <<>> \in A BY EmptySeq
<1>4. PICK q : q \in Paths(n, A, <<>>, step)
    <2> HIDE DEF step, A, n
    <2> QED BY <1>1, <1>2, <1>3, PathExists
<1>5. q \in [0..n -> A] /\ q[0] = <<>>
    <2> HIDE DEF A
    <2> QED BY <1>4 DEF Paths
<1>6. ASSUME NEW k \in 1..n PROVE q[k] = q[k - 1] \o Chunk(p[k], E)
    <2>1. q[k] = step[<<k, q[k - 1]>>]
        <3> HIDE DEF step, A
        <3> QED BY <1>4 DEF Paths
    <2>2. q[k - 1] \in A
        <3>1. k - 1 \in 0..n OBVIOUS
        <3> HIDE DEF A, n
        <3> QED BY <3>1, <1>5
    <2>3. k \in 1..n OBVIOUS
    <2> HIDE DEF A
    <2> QED BY <2>1, <2>2, <2>3
<1>7. q = Def(q)
    <2>1. q = [i \in 0..n |-> q[i]] BY <1>5
    <2>2. ASSUME NEW i \in 0..n PROVE q[i] = Def(q)[i]
        <3>1. CASE i = 0 BY <3>1, <1>5
        <3>2. CASE i # 0
            <4>1. i \in 1..n BY <3>2
            <4> QED BY <3>2, <4>1, <1>6
        <3> QED BY <3>1, <3>2
    <2> HIDE DEF Chunk
    <2> QED BY <2>1, <2>2
<1>8. result = Def(result)
    <2> HIDE DEF Def
    <2> QED BY <1>7
<1>9. Escape(p, E) = result[n] BY DEF Escape, Chunk
<1> HIDE DEF result
<1>10. \A i \in 0..n : result[i] = IF i = 0 THEN <<>> ELSE result[i - 1] \o Chunk(p[i], E)
    <2>1. result = [i \in 0..n |-> IF i = 0 THEN <<>> ELSE result[i - 1] \o Chunk(p[i], E)] BY <1>8
    <2> QED BY <2>1
<1> DEFINE P == {k \in Nat : result[k] = q[k]}
<1>11. 0 \in P BY <1>5, <1>10
<1>12. ASSUME NEW k \in 1..n, k - 1 \in P PROVE k \in P
    <2>1. k \in 0..n /\ k # 0 /\ k \in Nat OBVIOUS
    <2>2. result[k - 1] = q[k - 1] BY <1>12
    <2>3. result[k] = result[k - 1] \o Chunk(p[k], E) BY <2>1, <1>10
    <2> QED BY <2>1, <2>2, <2>3, <1>6
<1>13. n \in P
    <2> HIDE DEF P, n
    <2> QED BY <1>1, <1>11, <1>12, Along
<1> QED BY <1>5, <1>6, <1>9, <1>13 DEF Escapings

\* One text begins with the other.
Begins(t, u) == Len(u) <= Len(t) /\ \A i \in 1..Len(u) : t[i] = u[i]

\* What is escaped first stays in front.
LEMMA FrontStays ==
    ASSUME NEW S, NEW n \in Nat, NEW q \in [0..n -> Seq(S)], NEW c,
           \A k \in 1..n : c[k] \in Seq(S) /\ q[k] = q[k - 1] \o c[k]
    PROVE  \A k \in 0..n : Begins(q[n], q[k])
<1> DEFINE P == {m \in Nat : Begins(q[n], q[n - m])}
<1>1. 0 \in P
    <2>1. n - 0 = n /\ Len(q[n]) \in Nat OBVIOUS
    <2> QED BY <2>1 DEF Begins
<1>2. ASSUME NEW m \in 1..n, m - 1 \in P PROVE m \in P
    <2> DEFINE k == n - m
    <2>1. k + 1 \in 1..n /\ k \in 0..n /\ (k + 1) - 1 = k /\ n - (m - 1) = k + 1 /\ m \in Nat OBVIOUS
    <2> HIDE DEF k
    <2>2. Begins(q[n], q[k + 1]) BY <1>2, <2>1
    <2>3. q[k] \in Seq(S) /\ c[k + 1] \in Seq(S) /\ q[k + 1] = q[k] \o c[k + 1] /\ q[n] \in Seq(S)
        <3>1. \A l \in 0..n : q[l] \in Seq(S) OBVIOUS
        <3>2. q[k + 1] = q[(k + 1) - 1] \o c[k + 1] /\ c[k + 1] \in Seq(S) BY <2>1
        <3> QED BY <2>1, <3>1, <3>2
    <2>4. Begins(q[k + 1], q[k])
        <3>1. \A u, v \in Seq(S) : Begins(u \o v, u) BY DEF Begins
        <3> QED BY <2>3, <3>1
    <2>5. Len(q[k]) \in Nat /\ Len(q[k + 1]) \in Nat /\ Len(q[n]) \in Nat
        <3>1. \A u, v \in Seq(S) : Len(u) \in Nat /\ Len(u \o v) \in Nat OBVIOUS
        <3> QED BY <2>3, <3>1
    <2>6. Begins(q[n], q[k])
        <3>1. Len(q[k]) <= Len(q[n]) BY <2>2, <2>4, <2>5 DEF Begins
        <3>2. ASSUME NEW i \in 1..Len(q[k]) PROVE q[n][i] = q[k][i]
            <4>1. i \in 1..Len(q[k + 1]) BY <2>4, <2>5 DEF Begins
            <4> QED BY <4>1, <2>2, <2>4 DEF Begins
        <3> QED BY <3>1, <3>2 DEF Begins
    <2> QED BY <2>1, <2>6 DEF k
<1>3. 0..n \subseteq P
    <2> HIDE DEF P
    <2> QED BY <1>1, <1>2, Along
<1>4. ASSUME NEW k \in 0..n PROVE Begins(q[n], q[k])
    <2>1. n - k \in 0..n /\ n - (n - k) = k OBVIOUS
    <2>2. n - k \in P BY <1>3, <2>1
    <2> QED BY <2>1, <2>2
<1> QED BY <1>4

\* The character that an escape at i stands for, and one step of the loop in URI::decode.
Meant(s, i) == CHOOSE c \in DOMAIN Code : Code[c] = <<s[i + 1], s[i + 2]>>
Goes(s, i, before) ==
    IF before.skip > 0 THEN [before EXCEPT !.skip = @ - 1]
    ELSE IF Escaped(s, i) THEN [text |-> Append(before.text, Meant(s, i)), skip |-> 2]
    ELSE [text |-> Append(before.text, s[i]), skip |-> 0]

\* A text is decoded from character to character.
LEMMA DecodePath ==
    ASSUME NEW s, Len(s) \in Nat
    PROVE  \E d, V : /\ d \in [0..Len(s) -> [text : Seq(V), skip : 0..2]]
                     /\ d[0] = [text |-> <<>>, skip |-> 0] /\ decode(s) = d[Len(s)].text
                     /\ \A i \in 1..Len(s) : d[i] = Goes(s, i, d[i - 1])
<1> DEFINE n == Len(s)
           V == {s[i] : i \in 1..n} \cup {Meant(s, i) : i \in 1..n}
           A == [text : Seq(V), skip : 0..2]
           first == [text |-> <<>>, skip |-> 0]
           step == [x \in (1..n) \X A |-> Goes(s, x[1], x[2])]
           Def(f) == [i \in 0..n |-> IF i = 0 THEN first ELSE Goes(s, i, f[i - 1])]
           result == CHOOSE f : f = Def(f)
<1>1. ASSUME NEW i \in 1..n, NEW b \in A PROVE Goes(s, i, b) \in A
    <2>1. s[i] \in V /\ Meant(s, i) \in V OBVIOUS
    <2>2. b.text \in Seq(V) /\ b.skip \in 0..2 OBVIOUS
    <2>3. b = [text |-> b.text, skip |-> b.skip] OBVIOUS
    <2> HIDE DEF V
    <2>4. Append(b.text, s[i]) \in Seq(V) /\ Append(b.text, Meant(s, i)) \in Seq(V)
        BY <2>1, <2>2, AppendProperties
    <2>5. CASE b.skip > 0
        <3>1. Goes(s, i, b) = [text |-> b.text, skip |-> b.skip - 1] BY <2>3, <2>5 DEF Goes
        <3>2. b.skip - 1 \in 0..2 BY <2>2, <2>5
        <3> QED BY <3>1, <3>2, <2>2
    <2>6. CASE ~(b.skip > 0) BY <2>4, <2>6 DEF Goes
    <2> QED BY <2>5, <2>6
<1>2. step \in [(1..n) \X A -> A]
    <2> HIDE DEF A
    <2> QED BY <1>1
<1>3. first \in A
    <2>1. <<>> \in Seq(V) BY EmptySeq
    <2> HIDE DEF V
    <2> QED BY <2>1
<1>4. PICK d : d \in Paths(n, A, first, step)
    <2> HIDE DEF step, A, first
    <2> QED BY <1>2, <1>3, PathExists
<1>5. d \in [0..n -> A] /\ d[0] = first
    <2> HIDE DEF A, first
    <2> QED BY <1>4 DEF Paths
<1>6. ASSUME NEW i \in 1..n PROVE d[i] = Goes(s, i, d[i - 1])
    <2>1. d[i] = step[<<i, d[i - 1]>>]
        <3> HIDE DEF step, A, first
        <3> QED BY <1>4 DEF Paths
    <2>2. d[i - 1] \in A
        <3>1. i - 1 \in 0..n OBVIOUS
        <3> HIDE DEF A, n
        <3> QED BY <3>1, <1>5
    <2>3. i \in 1..n OBVIOUS
    <2> HIDE DEF A
    <2> QED BY <2>1, <2>2, <2>3
<1> HIDE DEF first, A
<1>7. d = Def(d)
    <2>1. d = [i \in 0..n |-> d[i]] BY <1>5
    <2>2. ASSUME NEW i \in 0..n PROVE d[i] = Def(d)[i]
        <3>1. CASE i = 0 BY <3>1, <1>5
        <3>2. CASE i # 0
            <4>1. i \in 1..n BY <3>2
            <4> QED BY <3>2, <4>1, <1>6
        <3> QED BY <3>1, <3>2
    <2> QED BY <2>1, <2>2
<1>8. result = Def(result)
    <2> HIDE DEF Def
    <2> QED BY <1>7
<1>9. decode(s) = result[n].text BY DEF decode, Goes, Meant, first
<1> HIDE DEF result
<1>10. \A i \in 0..n : result[i] = IF i = 0 THEN first ELSE Goes(s, i, result[i - 1])
    <2>1. result = [i \in 0..n |-> IF i = 0 THEN first ELSE Goes(s, i, result[i - 1])] BY <1>8
    <2> QED BY <2>1
<1> DEFINE P == {k \in Nat : result[k] = d[k]}
<1>11. 0 \in P BY <1>5, <1>10
<1>12. ASSUME NEW k \in 1..n, k - 1 \in P PROVE k \in P
    <2>1. k \in 0..n /\ k # 0 /\ k \in Nat OBVIOUS
    <2>2. result[k - 1] = d[k - 1] BY <1>12
    <2>3. result[k] = Goes(s, k, result[k - 1]) BY <2>1, <1>10
    <2> QED BY <2>1, <2>2, <2>3, <1>6
<1>13. n \in P
    <2> HIDE DEF P
    <2> QED BY <1>11, <1>12, Along
<1>14. decode(s) = d[n].text BY <1>9, <1>13
<1>15. d \in [0..n -> [text : Seq(V), skip : 0..2]] BY <1>5 DEF A
<1> HIDE DEF V
<1> QED BY <1>5, <1>6, <1>14, <1>15 DEF first

\* The characters of an escaped text.
LEMMA ChunkTypes ==
    ASSUME NEW c \in DOMAIN Code, NEW E
    PROVE  /\ Chunk(c, E) \in Seq(DOMAIN Code \cup Digits)
           /\ Code[c][1] \in Digits /\ Code[c][2] \in Digits /\ Code[c] = <<Code[c][1], Code[c][2]>>
           /\ c \in E => Chunk(c, E) = <<"%", Code[c][1], Code[c][2]>>
           /\ c \notin E => Chunk(c, E) = <<c>>
<1>1. Code[c] \in Digits \X Digits BY UriAssumption
<1>2. Code[c][1] \in Digits /\ Code[c][2] \in Digits /\ Code[c] = <<Code[c][1], Code[c][2]>> BY <1>1
<1>3. "%" \in DOMAIN Code BY UriAssumption DEF Reserved
<1> DEFINE T == DOMAIN Code \cup Digits
<1>4. c \in T /\ "%" \in T /\ Code[c][1] \in T /\ Code[c][2] \in T BY <1>2, <1>3
<1> HIDE DEF T
<1>5. <<c>> \in Seq(T) /\ <<"%", Code[c][1], Code[c][2]>> \in Seq(T) BY <1>4
<1> QED BY <1>2, <1>5 DEF Chunk, T

\* Every character is one chunk further.
LEMMA Chunks ==
    ASSUME NEW S, NEW p \in Seq(DOMAIN Code), NEW E, \A k \in 1..Len(p) : Chunk(p[k], E) \in Seq(S)
    PROVE  \E q \in Escapings(p, E, S) : \A k \in 0..Len(p) : Begins(Escape(p, E), q[k])
<1> DEFINE n == Len(p)
           c == [k \in 1..n |-> Chunk(p[k], E)]
<1>1. n \in Nat OBVIOUS
<1>2. PICK q : q \in Escapings(p, E, S) BY EscapePath
<1>3. q \in [0..n -> Seq(S)] /\ Escape(p, E) = q[n] BY <1>2 DEF Escapings
<1>4. \A k \in 1..n : c[k] \in Seq(S) /\ q[k] = q[k - 1] \o c[k] BY <1>2 DEF Escapings
<1>5. \A k \in 0..n : Begins(q[n], q[k])
    <2> HIDE DEF c, n
    <2> QED BY <1>1, <1>3, <1>4, FrontStays
<1> QED BY <1>2, <1>3, <1>5

\* What follows in a text that begins with u and then v.
LEMMA Follows ==
    ASSUME NEW S, NEW t \in Seq(S), NEW u \in Seq(S), NEW v \in Seq(S), Begins(t, u \o v), NEW i \in 1..Len(v)
    PROVE  /\ Len(u) \in Nat /\ Len(v) \in Nat /\ Len(t) \in Nat /\ Len(u \o v) = Len(u) + Len(v)
           /\ Len(u) + i \in 1..Len(t) /\ t[Len(u) + i] = v[i] /\ Len(u) + Len(v) <= Len(t)
<1>1. Len(u) \in Nat /\ Len(v) \in Nat /\ Len(t) \in Nat /\ Len(u \o v) = Len(u) + Len(v) OBVIOUS
<1>2. (u \o v)[Len(u) + i] = v[i] OBVIOUS
<1>3. Len(u) + i \in 1..Len(u \o v) BY <1>1
<1>4. Len(u) + i \in 1..Len(t) BY <1>1, <1>3 DEF Begins
<1>5. t[Len(u) + i] = (u \o v)[Len(u) + i] BY <1>3 DEF Begins
<1> QED BY <1>1, <1>2, <1>4, <1>5 DEF Begins

\* Decoding gives back what was escaped.
LEMMA DecodesEscape ==
    ASSUME NEW p \in Seq(DOMAIN Code), NEW E, \A k \in 1..Len(p) : p[k] = "%" => p[k] \in E
    PROVE  decode(Escape(p, E)) = p
<1> DEFINE n == Len(p)
           T == DOMAIN Code \cup Digits
           t == Escape(p, E)
<1>1. n \in Nat /\ \A k \in 1..n : p[k] \in DOMAIN Code OBVIOUS
<1>2. PICK q : /\ q \in [0..n -> Seq(T)] /\ q[0] = <<>> /\ t = q[n]
               /\ \A k \in 1..n : q[k] = q[k - 1] \o Chunk(p[k], E)
               /\ \A k \in 0..n : Begins(q[n], q[k])
    <2>1. \A k \in 1..Len(p) : Chunk(p[k], E) \in Seq(T) BY <1>1, ChunkTypes
    <2> HIDE DEF T
    <2>2. PICK q : q \in Escapings(p, E, T) /\ \A k \in 0..Len(p) : Begins(Escape(p, E), q[k]) BY <2>1, Chunks
    <2> QED BY <2>2 DEF Escapings
<1> HIDE DEF T, t
<1>3. n \in 0..n BY <1>1
<1>4. t \in Seq(T) /\ Len(t) \in Nat
    <2>1. q[n] \in Seq(T) BY <1>2, <1>3
    <2> QED BY <2>1, <1>2
<1>5. PICK d, V : /\ d \in [0..Len(t) -> [text : Seq(V), skip : 0..2]]
                  /\ d[0] = [text |-> <<>>, skip |-> 0] /\ decode(t) = d[Len(t)].text
                  /\ \A i \in 1..Len(t) : d[i] = Goes(t, i, d[i - 1])
    BY <1>4, DecodePath
<1> DEFINE P == {k \in Nat : d[Len(q[k])] = [text |-> SubSeq(p, 1, k), skip |-> 0]}
<1>6. 0 \in P
    <2>1. SubSeq(p, 1, 0) = <<>> /\ Len(<<>>) = 0 OBVIOUS
    <2> QED BY <2>1, <1>2, <1>5
<1>7. ASSUME NEW k \in 1..n, k - 1 \in P PROVE k \in P
    <2> DEFINE c == p[k]
               u == q[k - 1]
               v == Chunk(c, E)
               o == Len(u)
               kept == SubSeq(p, 1, k - 1)
    <2>1. k \in Nat /\ k \in 0..n /\ k - 1 \in 0..n /\ c \in DOMAIN Code OBVIOUS
    <2>2. u \in Seq(T) /\ q[k] = u \o v /\ v \in Seq(T) /\ Begins(t, u \o v)
        <3>1. q[k] = u \o v /\ Begins(t, q[k]) BY <1>2, <2>1
        <3>2. u \in Seq(T) BY <1>2, <2>1
        <3>3. v \in Seq(T) BY <2>1, ChunkTypes DEF T
        <3> QED BY <3>1, <3>2, <3>3
    <2>3. o \in Nat BY <2>2
    <2>4. d[o] = [text |-> kept, skip |-> 0] BY <1>7
    <2>5. SubSeq(p, 1, k) = Append(kept, c) OBVIOUS
    <2>6. c \notin E => v = <<c>> BY <2>1, ChunkTypes
    <2>7. c \in E => v = <<"%", Code[c][1], Code[c][2]>> BY <2>1, ChunkTypes
    <2>8. c = "%" => c \in E OBVIOUS
    <2>9. \A i \in 1..Len(v) : /\ Len(q[k]) = o + Len(v) /\ o + Len(v) <= Len(t)
                               /\ o + i \in 1..Len(t) /\ t[o + i] = v[i]
        <3> HIDE DEF u, v
        <3> QED BY <1>4, <2>2, Follows
    <2> HIDE DEF c, u, v, o, kept, n
    <2>10. CASE c \notin E
        <3>1. v = <<c>> BY <2>6, <2>10
        <3>2. Len(v) = 1 /\ v[1] = c BY <3>1
        <3>3. 1 \in 1..Len(v) BY <3>2
        <3>4. Len(q[k]) = o + 1 /\ o + 1 \in 1..Len(t) /\ t[o + 1] = c BY <2>9, <3>2, <3>3
        <3>5. c # "%" BY <2>8, <2>10
        <3>6. d[o + 1] = Goes(t, o + 1, d[o])
            <4>1. (o + 1) - 1 = o BY <2>3
            <4> QED BY <1>5, <3>4, <4>1
        <3>7. d[o + 1] = [text |-> Append(kept, c), skip |-> 0]
            BY <2>4, <3>4, <3>5, <3>6 DEF Goes, Escaped
        <3> QED BY <2>1, <2>5, <3>4, <3>7
    <2>11. CASE c \in E
        <3>1. v = <<"%", Code[c][1], Code[c][2]>> BY <2>7, <2>11
        <3>2. Len(v) = 3 /\ v[1] = "%" /\ v[2] = Code[c][1] /\ v[3] = Code[c][2] BY <3>1
        <3>3. 1 \in 1..Len(v) /\ 2 \in 1..Len(v) /\ 3 \in 1..Len(v) BY <3>2
        <3>4. /\ Len(q[k]) = o + 3 /\ o + 3 <= Len(t)
              /\ o + 1 \in 1..Len(t) /\ o + 2 \in 1..Len(t) /\ o + 3 \in 1..Len(t)
              /\ t[o + 1] = "%" /\ t[o + 2] = Code[c][1] /\ t[o + 3] = Code[c][2]
            BY <2>9, <3>2, <3>3
        <3>5. (o + 1) + 1 = o + 2 /\ (o + 1) + 2 = o + 3 BY <2>3
        <3>6. Escaped(t, o + 1) BY <3>4, <3>5 DEF Escaped
        <3>7. Meant(t, o + 1) = c
            <4>1. <<t[(o + 1) + 1], t[(o + 1) + 2]>> = Code[c] BY <2>1, <3>4, <3>5, ChunkTypes
            <4>2. \A x \in DOMAIN Code : Code[x] = Code[c] => x = c BY <2>1, UriAssumption
            <4> QED BY <2>1, <4>1, <4>2 DEF Meant
        <3>8. /\ d[o + 1] = Goes(t, o + 1, d[o]) /\ d[o + 2] = Goes(t, o + 2, d[o + 1])
              /\ d[o + 3] = Goes(t, o + 3, d[o + 2])
            <4>1. (o + 1) - 1 = o /\ (o + 2) - 1 = o + 1 /\ (o + 3) - 1 = o + 2 BY <2>3
            <4> QED BY <1>5, <3>4, <4>1
        <3> DEFINE text == Append(kept, c)
        <3> HIDE DEF text
        <3>9. ASSUME NEW i, NEW x, x \in {1, 2}
              PROVE  Goes(t, i, [text |-> text, skip |-> x]) = [text |-> text, skip |-> x - 1]
            <4> DEFINE before == [text |-> text, skip |-> x]
            <4>1. before.skip > 0 /\ before.skip = x BY <3>9
            <4>2. [before EXCEPT !.skip = before.skip - 1] = [text |-> text, skip |-> x - 1] OBVIOUS
            <4> HIDE DEF before
            <4>3. Goes(t, i, before) = [before EXCEPT !.skip = before.skip - 1] BY <4>1 DEF Goes
            <4> QED BY <4>2, <4>3 DEF before
        <3>10. d[o + 1] = [text |-> text, skip |-> 2]
            <4> DEFINE before == [text |-> kept, skip |-> 0]
            <4>1. ~(before.skip > 0) /\ before.text = kept OBVIOUS
            <4> HIDE DEF before
            <4>2. Goes(t, o + 1, before) = [text |-> Append(before.text, Meant(t, o + 1)), skip |-> 2]
                BY <3>6, <4>1 DEF Goes
            <4>3. d[o] = before BY <2>4 DEF before
            <4> QED BY <3>7, <3>8, <4>1, <4>2, <4>3 DEF text
        <3>11. d[o + 2] = [text |-> text, skip |-> 1]
            <4>1. Goes(t, o + 2, [text |-> text, skip |-> 2]) = [text |-> text, skip |-> 2 - 1] BY <3>9
            <4> QED BY <3>8, <3>10, <4>1
        <3>12. d[o + 3] = [text |-> text, skip |-> 0]
            <4>1. Goes(t, o + 3, [text |-> text, skip |-> 1]) = [text |-> text, skip |-> 1 - 1] BY <3>9
            <4> QED BY <3>8, <3>11, <4>1
        <3> QED BY <2>1, <2>5, <3>4, <3>12 DEF text
    <2> QED BY <2>10, <2>11
<1>8. n \in P
    <2> HIDE DEF P, n
    <2> QED BY <1>1, <1>6, <1>7, Along
<1>9. SubSeq(p, 1, n) = p OBVIOUS
<1> QED BY <1>2, <1>5, <1>8, <1>9 DEF t

LEMMA DecodesNothing == decode(<<>>) = <<>>
<1>1. Len(<<>>) = 0 OBVIOUS
<1>2. PICK d, V : d[0] = [text |-> <<>>, skip |-> 0] /\ decode(<<>>) = d[Len(<<>>)].text BY <1>1, DecodePath
<1> QED BY <1>1, <1>2

\* A text of which nothing is escaped.
LEMMA EscapesNothing ==
    ASSUME NEW p \in Seq(DOMAIN Code)
    PROVE  Escape(p, {}) = p
<1> DEFINE n == Len(p)
           T == DOMAIN Code \cup Digits
<1>1. n \in Nat /\ \A k \in 1..n : p[k] \in DOMAIN Code OBVIOUS
<1>2. \A k \in 1..Len(p) : Chunk(p[k], {}) \in Seq(T) /\ Chunk(p[k], {}) = <<p[k]>> BY <1>1, ChunkTypes
<1>3. PICK q : q \in Escapings(p, {}, T)
    <2> HIDE DEF T
    <2> QED BY <1>2, EscapePath
<1>4. q[0] = <<>> /\ Escape(p, {}) = q[n] /\ \A k \in 1..n : q[k] = q[k - 1] \o <<p[k]>>
    BY <1>2, <1>3 DEF Escapings
<1> DEFINE P == {k \in Nat : q[k] = SubSeq(p, 1, k)}
<1>5. 0 \in P
    <2>1. SubSeq(p, 1, 0) = <<>> OBVIOUS
    <2> QED BY <2>1, <1>4
<1>6. ASSUME NEW k \in 1..n, k - 1 \in P PROVE k \in P
    <2>1. SubSeq(p, 1, k) = SubSeq(p, 1, k - 1) \o <<p[k]>> OBVIOUS
    <2>2. q[k] = q[k - 1] \o <<p[k]>> BY <1>4
    <2>3. q[k - 1] = SubSeq(p, 1, k - 1) BY <1>6
    <2>4. k \in Nat OBVIOUS
    <2> QED BY <2>1, <2>2, <2>3, <2>4
<1>7. n \in P
    <2> HIDE DEF P, n
    <2> QED BY <1>1, <1>5, <1>6, Along
<1>8. SubSeq(p, 1, n) = p OBVIOUS
<1> QED BY <1>4, <1>7, <1>8

\* What ends a path in a URI is escaped, and its first slash is not.
LEMMA EscapedPath ==
    ASSUME NEW p \in Seq(DOMAIN Code), p # <<>>, p[1] = "/", NEW E, {"?", "#"} \subseteq E, "/" \notin E
    PROVE  /\ Escape(p, E) \in Seq((DOMAIN Code \cup Digits) \ {"?", "#"})
           /\ Escape(p, E) # <<>> /\ Escape(p, E)[1] = "/"
<1> DEFINE n == Len(p)
           T == (DOMAIN Code \cup Digits) \ {"?", "#"}
           t == Escape(p, E)
<1>1. n \in Nat /\ n >= 1 /\ \A k \in 1..n : p[k] \in DOMAIN Code OBVIOUS
<1>2. ASSUME NEW k \in 1..n PROVE Chunk(p[k], E) \in Seq(T)
    <2> DEFINE c == p[k]
    <2>1. c \in DOMAIN Code BY <1>1
    <2> HIDE DEF c
    <2>2. "%" \in T BY UriAssumption DEF Reserved
    <2>3. Digits \subseteq T BY DEF Digits
    <2>4. CASE c \in E
        <3>1. Code[c][1] \in T /\ Code[c][2] \in T BY <2>1, <2>3, ChunkTypes
        <3>2. Chunk(c, E) = <<"%", Code[c][1], Code[c][2]>> BY <2>1, <2>4, ChunkTypes
        <3> HIDE DEF T
        <3>3. <<"%", Code[c][1], Code[c][2]>> \in Seq(T) BY <2>2, <3>1
        <3> QED BY <3>2, <3>3 DEF c
    <2>5. CASE c \notin E
        <3>1. Chunk(c, E) = <<c>> BY <2>1, <2>5, ChunkTypes
        <3>2. c \in T BY <2>1, <2>5
        <3> HIDE DEF T
        <3>3. <<c>> \in Seq(T) BY <3>2
        <3> QED BY <3>1, <3>3 DEF c
    <2> QED BY <2>4, <2>5
<1>3. PICK q : q \in Escapings(p, E, T) /\ \A k \in 0..n : Begins(t, q[k])
    <2> HIDE DEF T
    <2> QED BY <1>2, Chunks
<1> HIDE DEF T, t
<1>4. q \in [0..n -> Seq(T)] /\ q[0] = <<>> /\ t = q[n] /\ q[1] = q[0] \o Chunk(p[1], E)
    <2>1. \A k \in 1..n : q[k] = q[k - 1] \o Chunk(p[k], E) BY <1>3 DEF Escapings
    <2>2. 1 \in 1..n /\ 1 - 1 = 0 BY <1>1
    <2>3. q[1] = q[0] \o Chunk(p[1], E) BY <2>1, <2>2
    <2> QED BY <2>3, <1>3 DEF Escapings, t
<1>5. t \in Seq(T)
    <2>1. n \in 0..n BY <1>1
    <2> QED BY <1>4, <2>1
<1>6. q[1] = <<"/">>
    <2>1. Chunk(p[1], E) = <<"/">>
        <3>1. p[1] \in DOMAIN Code /\ p[1] \notin E BY <1>1
        <3>2. Chunk(p[1], E) = <<p[1]>> BY <3>1, ChunkTypes
        <3> QED BY <3>2
    <2>2. <<>> \o <<"/">> = <<"/">> OBVIOUS
    <2> QED BY <1>4, <2>1, <2>2
<1>7. Begins(t, <<"/">>)
    <2>1. 1 \in 0..n BY <1>1
    <2> QED BY <1>3, <1>6, <2>1
<1>8. Len(t) >= 1 /\ t[1] = "/"
    <2>1. Len(<<"/">>) = 1 /\ <<"/">>[1] = "/" OBVIOUS
    <2> QED BY <1>7, <2>1 DEF Begins
<1>9. t # <<>> BY <1>8
<1> QED BY <1>5, <1>8, <1>9 DEF T, t

\* The place where a text stops is the only one.
IsStop(s, i, stops, k) ==
    /\ k \in i..(Len(s) + 1)
    /\ k <= Len(s) => s[k] \in stops
    /\ \A j \in i..(k - 1) : s[j] \notin stops
LEMMA StopsAt ==
    ASSUME NEW s, Len(s) \in Nat, NEW i \in Nat, NEW stops, NEW k, IsStop(s, i, stops, k)
    PROVE  UpTo(s, i, stops) = k
<1>1. ASSUME NEW l, IsStop(s, i, stops, l) PROVE l = k
    <2>1. CASE l < k
        <3>1. l \in i..(k - 1) /\ l <= Len(s) BY <1>1, <2>1 DEF IsStop
        <3> QED BY <1>1, <3>1 DEF IsStop
    <2>2. CASE k < l
        <3>1. k \in i..(l - 1) /\ k <= Len(s) BY <1>1, <2>2 DEF IsStop
        <3> QED BY <1>1, <3>1 DEF IsStop
    <2> QED BY <1>1, <2>1, <2>2 DEF IsStop
<1>2. UpTo(s, i, stops) = CHOOSE l \in i..(Len(s) + 1) : /\ l <= Len(s) => s[l] \in stops
                                                         /\ \A j \in i..(l - 1) : s[j] \notin stops
    BY DEF UpTo
<1> QED BY <1>1, <1>2 DEF IsStop

LEMMA AfterFour ==
    ASSUME NEW S, NEW u \in Seq(S), NEW v \in Seq(S), Len(u) = 4
    PROVE  /\ Len(u \o v) = 4 + Len(v)
           /\ \A k \in 1..4 : (u \o v)[k] = u[k]
           /\ \A k \in 1..Len(v) : (u \o v)[4 + k] = v[k]
<1>1. /\ Len(u \o v) = Len(u) + Len(v)
      /\ \A i \in 1..(Len(u) + Len(v)) : (u \o v)[i] = IF i <= Len(u) THEN u[i] ELSE v[i - Len(u)]
    BY ConcatProperties
<1>2. Len(v) \in Nat OBVIOUS
<1> DEFINE w == u \o v
<1> HIDE DEF w
<1>3. ASSUME NEW k \in 1..4 PROVE w[k] = u[k]
    <2>1. k \in 1..(4 + Len(v)) /\ k <= 4 BY <1>2
    <2> QED BY <1>1, <2>1 DEF w
<1>4. ASSUME NEW k \in 1..Len(v) PROVE w[4 + k] = v[k]
    <2>1. 4 + k \in 1..(4 + Len(v)) /\ ~(4 + k <= 4) /\ (4 + k) - 4 = k BY <1>2
    <2> QED BY <1>1, <2>1 DEF w
<1> QED BY <1>1, <1>3, <1>4 DEF w

\* What is taken from the text of a file.
LEMMA FileText ==
    ASSUME NEW T, NEW t \in Seq(T), t # <<>>, t[1] = "/", T \cap {"?", "#"} = {},
           NEW p \in Seq(DOMAIN Code), p # <<>>, p[1] = "/", decode(t) = p
    PROVE  URI(<<"file", ":", "/", "/">> \o t) = fromFile(p)
<1> DEFINE head == <<"file", ":", "/", "/">>
           s == head \o t
           n == Len(t)
<1>1. n \in Nat /\ n >= 1 /\ \A k \in 1..n : t[k] \in T OBVIOUS
<1>2. Len(head) = 4 /\ head[1] = "file" /\ head[2] = ":" /\ head[3] = "/" /\ head[4] = "/" OBVIOUS
<1>3. head \in Seq({"file", ":", "/"}) OBVIOUS
<1>4. /\ Len(s) = 4 + n /\ s[1] = "file" /\ s[2] = ":" /\ s[3] = "/" /\ s[4] = "/"
      /\ \A k \in 1..n : s[4 + k] = t[k]
    <2> DEFINE U == {"file", ":", "/"} \cup T
    <2>1. head \in Seq(U) /\ t \in Seq(U) OBVIOUS
    <2> HIDE DEF head, U
    <2>2. Len(s) = 4 + n /\ (\A k \in 1..4 : s[k] = head[k]) /\ (\A k \in 1..n : s[4 + k] = t[k])
        BY <2>1, <1>2, AfterFour
    <2>5. 1 \in 1..4 /\ 2 \in 1..4 /\ 3 \in 1..4 /\ 4 \in 1..4 OBVIOUS
    <2> HIDE DEF s
    <2> QED BY <2>2, <2>5, <1>2
<1>5. SubSeq(s, 1, 1) = <<"file">> /\ SubSeq(s, 5, 4) = <<>> /\ SubSeq(s, 5, 4 + n) = t
      /\ SubSeq(s, 6 + n, 4 + n) = <<>>
    <2>1. s \in Seq({"file", ":", "/"} \cup T)
        <3> HIDE DEF head
        <3> QED BY <1>3
    <2>2. SubSeq(s, 5, 4 + n) = t
        <3> HIDE DEF s
        <3>1. SubSeq(s, 5, 4 + n) \in Seq({"file", ":", "/"} \cup T) /\ Len(SubSeq(s, 5, 4 + n)) = n
            BY <1>1, <1>4, <2>1
        <3>2. \A k \in 1..n : SubSeq(s, 5, 4 + n)[k] = t[k] BY <1>1, <1>4, <2>1
        <3> QED BY <1>1, <3>1, <3>2
    <2>3. SubSeq(s, 1, 1) = <<"file">>
        <3> HIDE DEF s
        <3>1. Len(SubSeq(s, 1, 1)) = 1 /\ SubSeq(s, 1, 1)[1] = s[1] /\ SubSeq(s, 1, 1) \in Seq({"file", ":", "/"} \cup T)
            BY <1>1, <1>4, <2>1
        <3>2. \A r \in Seq({"file", ":", "/"} \cup T) : Len(r) = 1 => r = <<r[1]>> OBVIOUS
        <3> QED BY <1>4, <3>1, <3>2
    <2> HIDE DEF s
    <2> QED BY <1>1, <1>4, <2>1, <2>2, <2>3
<1> HIDE DEF s, n, head
<1>6. Len(s) \in Nat BY <1>1, <1>4
<1>7. UpTo(s, 1, {":", "/", "?", "#"}) = 2
    <2>1. 2 \in 1..(Len(s) + 1) /\ s[2] \in {":", "/", "?", "#"} BY <1>1, <1>4
    <2>2. \A j \in 1..(2 - 1) : s[j] \notin {":", "/", "?", "#"} BY <1>4
    <2>3. IsStop(s, 1, {":", "/", "?", "#"}, 2) BY <1>6, <2>1, <2>2 DEF IsStop
    <2> QED BY <1>6, <2>3, StopsAt
<1>8. CharAt(s, 2) = ":" /\ CharAt(s, 3) = "/" /\ CharAt(s, 3 + 1) = "/" BY <1>1, <1>4 DEF CharAt
<1>9. UpTo(s, 5, {"/", "?", "#"}) = 5
    <2>1. 5 \in 5..(Len(s) + 1) BY <1>1, <1>4
    <2>2. s[5] \in {"/", "?", "#"}
        <3>1. 1 \in 1..n /\ 4 + 1 = 5 BY <1>1
        <3> QED BY <1>4, <3>1 DEF n
    <2>3. \A j \in 5..(5 - 1) : s[j] \notin {"/", "?", "#"} OBVIOUS
    <2>4. IsStop(s, 5, {"/", "?", "#"}, 5) BY <1>6, <2>1, <2>2, <2>3 DEF IsStop
    <2> QED BY <1>6, <2>4, StopsAt
<1>10. UpTo(s, 5, {"?", "#"}) = 5 + n
    <2>1. 5 + n \in 5..(Len(s) + 1) /\ ~(5 + n <= Len(s)) BY <1>1, <1>4
    <2>2. ASSUME NEW j \in 5..((5 + n) - 1) PROVE s[j] \notin {"?", "#"}
        <3>1. j - 4 \in 1..n /\ 4 + (j - 4) = j BY <1>1
        <3>2. s[j] = t[j - 4] BY <1>4, <3>1
        <3> QED BY <1>1, <3>1, <3>2
    <2>3. IsStop(s, 5, {"?", "#"}, 5 + n) BY <1>6, <2>1, <2>2 DEF IsStop
    <2> QED BY <1>6, <2>3, StopsAt
<1>11. CharAt(s, 5 + n) = "" BY <1>1, <1>4 DEF CharAt
<1>12. URI(s) = init(<<"file">>, decode(<<>>), decode(t), decode(<<>>), decode(<<>>))
    <2> DEFINE colon == UpTo(s, 1, {":", "/", "?", "#"})
               hasScheme == colon > 1 /\ CharAt(s, colon) = ":"
               i == IF hasScheme THEN colon + 1 ELSE 1
               hasAuthority == CharAt(s, i) = "/" /\ CharAt(s, i + 1) = "/"
               path == IF hasAuthority THEN UpTo(s, i + 2, {"/", "?", "#"}) ELSE i
               query == UpTo(s, path, {"?", "#"})
               fragment == IF CharAt(s, query) = "?" THEN UpTo(s, query + 1, {"#"}) ELSE query
    <2>1. URI(s) = init(IF hasScheme THEN SubSeq(s, 1, colon - 1) ELSE <<>>,
                        IF hasAuthority THEN decode(SubSeq(s, i + 2, path - 1)) ELSE <<>>,
                        decode(SubSeq(s, path, query - 1)),
                        decode(SubSeq(s, query + 1, fragment - 1)),
                        decode(SubSeq(s, fragment + 1, Len(s))))
        BY DEF URI
    <2>2. colon = 2 BY <1>7
    <2> HIDE DEF colon
    <2>3. hasScheme /\ i = 3 BY <2>2, <1>8
    <2> HIDE DEF hasScheme, i
    <2>4. hasAuthority BY <2>3, <1>8
    <2>5. path = 5
        <3>1. i + 2 = 5 BY <2>3
        <3> HIDE DEF hasAuthority
        <3> QED BY <3>1, <2>4, <1>9
    <2> HIDE DEF hasAuthority, path
    <2>6. query = 5 + n BY <2>5, <1>10
    <2> HIDE DEF query
    <2>7. fragment = 5 + n BY <2>6, <1>11
    <2> HIDE DEF fragment
    <2>8. /\ colon - 1 = 1 /\ i + 2 = 5 /\ path - 1 = 4 /\ query - 1 = 4 + n /\ query + 1 = 6 + n
          /\ fragment - 1 = 4 + n /\ fragment + 1 = 6 + n
        BY <1>1, <2>2, <2>3, <2>5, <2>6, <2>7
    <2> QED BY <1>4, <1>5, <2>1, <2>3, <2>4, <2>5, <2>8
<1> QED BY <1>12, DecodesNothing DEF fromFile, s, head

-----------------------------------------------------------------------------

\* Two clients cannot disagree on which document a file is: for all paths, and whatever a client
\* escapes besides what it has to, the URI that it sends is the one that the server makes.
THEOREM Uri_NamesFile == UriSpec => []UriNamesFile
<1> DEFINE Named(path, escaped) == /\ path \in FilePaths /\ Reserved \subseteq escaped /\ "/" \notin escaped
           IInv == question = None \/ \E path, escaped : /\ Named(path, escaped)
                                                         /\ question = [about |-> "uri", path |-> path, escaped |-> escaped]
<1>1. ASSUME question = None PROVE IInv BY <1>1
<1>2. ASSUME IInv, [AskUri]_question PROVE IInv'
    <2>1. CASE UNCHANGED question BY <1>2, <2>1
    <2>2. CASE AskUri
        <3>1. PICK path \in FilePaths, escaped \in SUBSET (DOMAIN Code \ {"/"}) :
                 Reserved \subseteq escaped /\ question' = [about |-> "uri", path |-> path, escaped |-> escaped]
            BY <2>2 DEF AskUri
        <3>2. Named(path, escaped) BY <3>1
        <3> HIDE DEF Named
        <3> QED BY <3>1, <3>2
    <2> QED BY <1>2, <2>1, <2>2
<1>3. ASSUME IInv PROVE UriNamesFile
    <2> SUFFICES ASSUME question # None, question.about = "uri" PROVE UriNamesFile
        BY DEF UriNamesFile
    <2> DEFINE p == question.path
               E == question.escaped
               file == fromFile(p)
    <2>1. Named(p, E) BY <1>3
    <2>2. p \in Seq(DOMAIN Code) /\ p # <<>> /\ p[1] = "/" BY <2>1, UriAssumption
    <2> HIDE DEF p, E
    <2>3. file.path = p /\ getPath(file) = p BY <2>2 DEF fromFile, init, getPath
    <2>4. file.str = <<"file", ":", "/", "/">> \o p
        <3>1. Append(<<"file">>, ":") \o <<"/", "/">> \o <<>> \o p \o <<>> \o <<>> = <<"file", ":", "/", "/">> \o p
            <4>1. Append(<<"file">>, ":") \o <<"/", "/">> = <<"file", ":", "/", "/">>
                <5> DEFINE A == {"file", ":", "/"}
                           u == Append(<<"file">>, ":")
                           v == <<"/", "/">>
                <5>1. <<"file">> \in Seq(A) /\ Len(<<"file">>) = 1 /\ <<"file">>[1] = "file" /\ ":" \in A OBVIOUS
                <5>2. u \in Seq(A) /\ Len(u) = 2 /\ u[1] = "file" /\ u[2] = ":"
                    <6> DEFINE scheme == <<"file">>
                    <6> HIDE DEF scheme, A
                    <6> QED BY <5>1, AppendProperties DEF scheme
                <5>3. v \in Seq(A) /\ Len(v) = 2 /\ v[1] = "/" /\ v[2] = "/" OBVIOUS
                <5> HIDE DEF u, v, A
                <5>4. /\ u \o v \in Seq(A) /\ Len(u \o v) = Len(u) + Len(v)
                      /\ \A i \in 1..(Len(u) + Len(v)) : (u \o v)[i] = IF i <= Len(u) THEN u[i] ELSE v[i - Len(u)]
                    BY <5>2, <5>3, ConcatProperties
                <5> DEFINE w == u \o v
                <5> HIDE DEF w
                <5>5. w \in Seq(A) /\ Len(w) = 4 /\ w[1] = u[1] /\ w[2] = u[2] /\ w[3] = v[1] /\ w[4] = v[2]
                    BY <5>2, <5>3, <5>4 DEF w
                <5>6. w = <<w[1], w[2], w[3], w[4]>> BY <5>5
                <5> QED BY <5>2, <5>3, <5>5, <5>6 DEF w, u, v
            <4> DEFINE h == <<"file", ":", "/", "/">>
                       U == {"file", ":", "/"} \cup DOMAIN Code
            <4>2. h \in Seq(U) /\ p \in Seq(U) BY <2>2
            <4> HIDE DEF h, U
            <4>3. h \o p \in Seq(U) BY <4>2
            <4>4. \A r \in Seq(U) : r \o <<>> = r BY ConcatEmptySeq
            <4> QED BY <4>1, <4>2, <4>3, <4>4 DEF h
        <3>2. file.str = Append(<<"file">>, ":") \o <<"/", "/">> \o <<>> \o p \o <<>> \o <<>>
            BY <2>2 DEF fromFile, init
        <3> QED BY <3>1, <3>2
    <2>5. ASSUME NEW e, Reserved \subseteq e, "/" \notin e
          PROVE  URI(<<"file", ":", "/", "/">> \o Escape(p, e)) = file
        <3>1. "%" \in e /\ {"?", "#"} \subseteq e BY <2>5 DEF Reserved
        <3>2. decode(Escape(p, e)) = p BY <2>2, <3>1, DecodesEscape
        <3> DEFINE T == (DOMAIN Code \cup Digits) \ {"?", "#"}
        <3>3. Escape(p, e) \in Seq(T) /\ Escape(p, e) # <<>> /\ Escape(p, e)[1] = "/"
            BY <2>2, <2>5, <3>1, EscapedPath
        <3>4. T \cap {"?", "#"} = {} OBVIOUS
        <3> HIDE DEF T
        <3> QED BY <2>2, <3>2, <3>3, <3>4, FileText
    <2>6. URI(<<"file", ":", "/", "/">> \o Escape(p, E)) = file BY <2>1, <2>5
    <2>7. URI(<<"file", ":", "/", "/">> \o encode(p)) = file
        <3> DEFINE e == DOMAIN Code \ Unreserved
        <3>1. Reserved \subseteq e /\ "/" \notin e BY UriAssumption DEF Reserved
        <3> HIDE DEF e
        <3>2. URI(<<"file", ":", "/", "/">> \o Escape(p, e)) = file BY <2>5, <3>1
        <3> QED BY <3>2 DEF encode, e
    <2>8. ASSUME ToSet(p) \cap Reserved = {} PROVE URI(file.str) = file
        <3> DEFINE T == DOMAIN Code \ Reserved
        <3>1. p \in Seq(T)
            <4>1. \A k \in 1..Len(p) : p[k] \in T BY <2>2, <2>8 DEF ToSet
            <4> HIDE DEF T
            <4> QED BY <2>2, <4>1
        <3>2. decode(p) = p
            <4>1. \A k \in 1..Len(p) : p[k] # "%" BY <3>1 DEF Reserved
            <4>2. decode(Escape(p, {})) = p BY <2>2, <4>1, DecodesEscape
            <4> QED BY <2>2, <4>2, EscapesNothing
        <3>3. T \cap {"?", "#"} = {} BY DEF Reserved
        <3> HIDE DEF T
        <3>4. URI(<<"file", ":", "/", "/">> \o p) = file BY <2>2, <3>1, <3>2, <3>3, FileText
        <3> QED BY <2>4, <3>4
    <2> HIDE DEF file
    <2>9. \A sent \in {Escape(p, E), encode(p)} :
            LET received == URI(<<"file", ":", "/", "/">> \o sent) IN
            Same(received, file) /\ getPath(received) = p
        BY <2>3, <2>6, <2>7 DEF Same
    <2>10. ToSet(p) \cap Reserved = {} => Same(URI(file.str), file) BY <2>8 DEF Same
    <2> QED BY <2>9, <2>10 DEF UriNamesFile, file, p, E
<1> HIDE DEF IInv
<1> QED BY <1>1, <1>2, <1>3, PTL DEF UriSpec
=============================================================================
