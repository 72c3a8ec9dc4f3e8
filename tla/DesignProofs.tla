---------------------------- MODULE DesignProofs ----------------------------
(***************************************************************************)
(* Proofs about Design, for every set of modules, texts and bodies: the    *)
(* search offers what the tree shows, analyses are bound to the design of  *)
(* the last save and to active instances that exist in it, what was        *)
(* activated is shown, and symbols are located in the current texts.       *)
(*                                                                         *)
(* The elaborated design, the documents a compilation reads, the tree of   *)
(* the hierarchy and the way through ports are recursive functions, and    *)
(* activations are folds.  Each is first shown to be what its equations    *)
(* say (the function exists), then bounded by induction on its argument;   *)
(* Inductive is the one place that rests on the order of numbers.          *)
(***************************************************************************)
EXTENDS Design, FiniteSetTheorems, WellFoundedInduction, TLAPS

(* Induction and recursion.                                                *)

\* A set of numbers with 0 and the successor of each of its members has all numbers.
LEMMA Inductive ==
    ASSUME NEW P, 0 \in P, \A n \in Nat : n \in P => n + 1 \in P
    PROVE  Nat \subseteq P
<1> DEFINE R == OpToRel(<, Nat)
           T == Nat \ P
<1>1. SUFFICES ASSUME T # {} PROVE FALSE
    OBVIOUS
<1>2. IsWellFoundedOn(R, Nat) BY NatLessThanWellFounded
<1>3. PICK x \in T : \A y \in T : <<y, x>> \notin R
    <2> HIDE DEF R
    <2> QED BY <1>1, <1>2, WFMin
<1>4. x \in Nat /\ x # 0 /\ x - 1 \in Nat /\ (x - 1) + 1 = x
    OBVIOUS
<1>5. x - 1 \in T BY <1>4
<1>6. <<x - 1, x>> \in R BY <1>4 DEF OpToRel
<1> QED BY <1>3, <1>5, <1>6

\* The sequences that start at a and follow step.
Orbits(A, a, step) == {f \in [Nat -> A] : f[0] = a /\ \A n \in Nat : f[n + 1] = step[f[n]]}

\* A function of a set into itself can be iterated.
LEMMA Iterates ==
    ASSUME NEW A, NEW a \in A, NEW step \in [A -> A]
    PROVE  Orbits(A, a, step) # {}
<1> DEFINE Upto(n, g) == g \in [0..n -> A] /\ g[0] = a /\ \A i \in 1..n : g[i] = step[g[i - 1]]
           P == {n \in Nat : \E g : Upto(n, g)}
           g(n) == CHOOSE h : Upto(n, h)
           f == [n \in Nat |-> g(n)[n]]
<1>1. 0 \in P
    <2>1. Upto(0, [i \in 0..0 |-> a]) OBVIOUS
    <2> QED BY <2>1
<1>2. ASSUME NEW n \in Nat, n \in P PROVE n + 1 \in P
    <2>1. PICK h : Upto(n, h) BY <1>2
    <2> DEFINE k == [i \in 0..(n + 1) |-> IF i = n + 1 THEN step[h[n]] ELSE h[i]]
    <2>2. k \in [0..(n + 1) -> A] BY <2>1
    <2>3. k[0] = a BY <2>1
    <2>4. ASSUME NEW i \in 1..(n + 1) PROVE k[i] = step[k[i - 1]]
        BY <2>1
    <2>5. Upto(n + 1, k) BY <2>2, <2>3, <2>4
    <2> QED BY <2>5
<1>3. \A n \in Nat : Upto(n, g(n))
    <2>1. Nat \subseteq P
        <3> HIDE DEF P
        <3> QED BY <1>1, <1>2, Inductive
    <2> QED BY <2>1
<1> HIDE DEF g
<1>4. ASSUME NEW n \in Nat PROVE g(n + 1)[n] = g(n)[n]
    <2> DEFINE Q == {i \in Nat : i <= n => g(n + 1)[i] = g(n)[i]}
    <2>1. Upto(n, g(n)) /\ Upto(n + 1, g(n + 1)) BY <1>3
    <2>2. 0 \in Q BY <2>1
    <2>3. ASSUME NEW i \in Nat, i \in Q PROVE i + 1 \in Q
        <3>1. SUFFICES ASSUME i + 1 <= n PROVE g(n + 1)[i + 1] = g(n)[i + 1] OBVIOUS
        <3>2. i + 1 \in 1..n /\ i + 1 \in 1..(n + 1) /\ (i + 1) - 1 = i BY <3>1
        <3>3. g(n + 1)[i] = g(n)[i] BY <2>3, <3>1
        <3>4. g(n)[i + 1] = step[g(n)[i]] BY <2>1, <3>2
        <3>5. g(n + 1)[i + 1] = step[g(n + 1)[i]] BY <2>1, <3>2
        <3> QED BY <3>3, <3>4, <3>5
    <2>4. Nat \subseteq Q
        <3> HIDE DEF Q
        <3> QED BY <2>2, <2>3, Inductive
    <2> QED BY <2>4
<1>5. f \in [Nat -> A] BY <1>3
<1>6. f[0] = a BY <1>3
<1>7. ASSUME NEW n \in Nat PROVE f[n + 1] = step[f[n]]
    <2>1. Upto(n + 1, g(n + 1)) BY <1>3
    <2>2. n + 1 \in 1..(n + 1) /\ (n + 1) - 1 = n OBVIOUS
    <2>3. g(n + 1)[n + 1] = step[g(n + 1)[n]] BY <2>1, <2>2
    <2> QED BY <2>3, <1>4
<1>8. f \in Orbits(A, a, step)
    <2> HIDE DEF f
    <2> QED BY <1>5, <1>6, <1>7 DEF Orbits
<1> QED BY <1>8

-----------------------------------------------------------------------------
(* The hierarchy and its search.                                           *)

\* Looking a path up is a recursion over its names.
Leads(d, path, way) ==
    /\ lookupHierSymbol(d, path) = way[Len(path)]
    /\ way[0] = <<>>
    /\ \A n \in Nat : way[n + 1] = Inside(d, way[n], path[n + 1])
LEMMA LookupSteps ==
    ASSUME NEW d, NEW path
    PROVE  \E way : Leads(d, path, way)
<1> DEFINE Def(f) == [n \in Nat |-> IF n = 0 THEN <<>> ELSE Inside(d, f[n - 1], path[n])]
           way == CHOOSE f : f = Def(f)
           A == Nat \X (DOMAIN d \cup {None, <<>>})
           step == [x \in A |-> <<x[1] + 1, Inside(d, x[2], path[x[1] + 1])>>]
<1>1. lookupHierSymbol(d, path) = way[Len(path)] BY DEF lookupHierSymbol
<1>2. \A sym, name : Inside(d, sym, name) \in DOMAIN d \cup {None} BY DEF Inside, Member
<1>3. step \in [A -> A] BY <1>2
<1>4. PICK f \in [Nat -> A] : f[0] = <<0, <<>> >> /\ \A n \in Nat : f[n + 1] = step[f[n]]
    <2>1. <<0, <<>> >> \in A OBVIOUS
    <2> HIDE DEF A, step
    <2>2. Orbits(A, <<0, <<>> >>, step) # {} BY <1>3, <2>1, Iterates
    <2> QED BY <2>2 DEF Orbits
<1>5. \A n \in Nat : f[n][1] = n
    <2> DEFINE P == {n \in Nat : f[n][1] = n}
    <2>1. 0 \in P BY <1>4
    <2>2. ASSUME NEW n \in Nat, n \in P PROVE n + 1 \in P
        <3>1. f[n] \in A /\ f[n][1] = n BY <1>4, <2>2
        <3>2. f[n + 1] = <<f[n][1] + 1, Inside(d, f[n][2], path[f[n][1] + 1])>> BY <1>4, <3>1
        <3> QED BY <3>1, <3>2
    <2>3. Nat \subseteq P
        <3> HIDE DEF P
        <3> QED BY <2>1, <2>2, Inductive
    <2> QED BY <2>3
<1> DEFINE g == [n \in Nat |-> f[n][2]]
<1>6. ASSUME NEW n \in Nat PROVE g[n + 1] = Inside(d, g[n], path[n + 1])
    <2>1. f[n] \in A /\ f[n][1] = n BY <1>4, <1>5
    <2>2. f[n + 1] = <<f[n][1] + 1, Inside(d, f[n][2], path[f[n][1] + 1])>> BY <1>4, <2>1
    <2> QED BY <2>1, <2>2
<1>7. g[0] = <<>> BY <1>4
<1>8. g = Def(g)
    <2>1. ASSUME NEW n \in Nat PROVE g[n] = Def(g)[n]
        <3>1. CASE n = 0 BY <3>1, <1>7
        <3>2. CASE n # 0
            <4>1. n - 1 \in Nat /\ (n - 1) + 1 = n BY <3>2
            <4>2. g[(n - 1) + 1] = Inside(d, g[n - 1], path[(n - 1) + 1])
                <5> HIDE DEF g
                <5> QED BY <4>1, <1>6
            <4> QED BY <3>2, <4>1, <4>2
        <3> QED BY <3>1, <3>2
    <2>2. Def(g) = [n \in Nat |-> Def(g)[n]] OBVIOUS
    <2>3. g = [n \in Nat |-> g[n]] OBVIOUS
    <2> HIDE DEF Def, g
    <2> QED BY <2>1, <2>2, <2>3
<1> HIDE DEF Def, g
<1>9. way = Def(way) BY <1>8
<1>10. way[0] = <<>> BY <1>9 DEF Def
<1>11. ASSUME NEW n \in Nat PROVE way[n + 1] = Inside(d, way[n], path[n + 1])
    <2>1. n + 1 \in Nat /\ n + 1 # 0 /\ (n + 1) - 1 = n OBVIOUS
    <2>2. way[n + 1] = Def(way)[n + 1] BY <1>9
    <2>3. Def(way)[n + 1] = Inside(d, way[(n + 1) - 1], path[n + 1])
        <3> HIDE DEF way
        <3> QED BY <2>1 DEF Def
    <2> QED BY <2>1, <2>2, <2>3
<1> HIDE DEF way
<1> QED BY <1>1, <1>10, <1>11 DEF Leads

\* A longer path leads on from where the shorter one leads.
LEMMA LookupBelow ==
    ASSUME NEW d, NEW K, NEW path \in Seq(K), NEW k
    PROVE  lookupHierSymbol(d, Append(path, k)) = Inside(d, lookupHierSymbol(d, path), k)
<1>0. PICK v : Leads(d, path, v) BY LookupSteps
<1>1. /\ lookupHierSymbol(d, path) = v[Len(path)] /\ v[0] = <<>>
      /\ \A n \in Nat : v[n + 1] = Inside(d, v[n], path[n + 1])
    BY <1>0 DEF Leads
<1>2. PICK long : long = Append(path, k) OBVIOUS
<1>12. PICK w : Leads(d, long, w) BY LookupSteps
<1>3. /\ lookupHierSymbol(d, long) = w[Len(long)] /\ w[0] = <<>>
      /\ \A n \in Nat : w[n + 1] = Inside(d, w[n], long[n + 1])
    BY <1>12 DEF Leads
<1>4. PICK J : J = K \cup {k} OBVIOUS
<1>5. path \in Seq(J) /\ k \in J BY <1>4
<1>6. /\ Len(path) \in Nat /\ Len(long) = Len(path) + 1 /\ long[Len(path) + 1] = k
      /\ \A i \in 1..Len(path) : long[i] = path[i]
    BY <1>2, <1>5
<1> DEFINE P == {n \in Nat : n <= Len(path) => v[n] = w[n]}
<1>7. 0 \in P BY <1>1, <1>3
<1>8. ASSUME NEW n \in Nat, n \in P PROVE n + 1 \in P
    <2>1. SUFFICES ASSUME n + 1 <= Len(path) PROVE v[n + 1] = w[n + 1] OBVIOUS
    <2>2. v[n] = w[n] /\ n + 1 \in 1..Len(path) BY <1>6, <1>8, <2>1
    <2>3. long[n + 1] = path[n + 1] BY <1>6, <2>2
    <2> QED BY <1>1, <1>3, <2>2, <2>3
<1>9. Nat \subseteq P
    <2> HIDE DEF P
    <2> QED BY <1>7, <1>8, Inductive
<1>10. v[Len(path)] = w[Len(path)] BY <1>6, <1>9
<1>11. w[Len(path) + 1] = Inside(d, w[Len(path)], long[Len(path) + 1]) BY <1>3, <1>6
<1> QED BY <1>1, <1>2, <1>3, <1>6, <1>10, <1>11

\* The root is above every path.
LEMMA LookupRoot ==
    ASSUME NEW d
    PROVE  lookupHierSymbol(d, <<>>) = <<>>
<1>1. PICK way : Leads(d, <<>>, way) BY LookupSteps
<1>2. Len(<<>>) = 0 OBVIOUS
<1> QED BY <1>1, <1>2 DEF Leads

\* A lookup below the root finds a symbol of the design or nothing.
LEMMA InsideKnown ==
    ASSUME NEW d, NEW sym, NEW name
    PROVE  Inside(d, sym, name) \in DOMAIN d \cup {None}
BY DEF Inside, Member

\* All that items may stand for, and their names.
Places(d) ==
    UNION {{[default |-> m, sym |-> q] : q \in DOMAIN TreeOf(d, m)} : m \in Interfaces \cup {None}}
ItemNames(d) == {Last(x.sym) : x \in Places(d)} \cup Modules
Items(d) == [path : Seq(ItemNames(d)), place : Places(d) \cup {InDesign(None)}]

\* The items below an item are of these.
LEMMA ItemsKnown ==
    ASSUME NEW d, NEW item \in Items(d)
    PROVE  ItemsBelow(d, item) \subseteq Items(d)
<1>1. SUFFICES ASSUME NEW y \in ItemsBelow(d, item) PROVE y \in Items(d) OBVIOUS
<1>2. PICK place : place = Opened(d, item) OBVIOUS
<1>3. PICK x \in getChildrenForScopeSymbol(d, place) : y = ItemOf(Append(item.path, Last(x.sym)), x)
    <2>1. place.sym # None BY <1>1, <1>2 DEF ItemsBelow
    <2> QED BY <1>1, <1>2, <2>1 DEF ItemsBelow
<1>4. x \in Places(d)
    <2>1. PICK default, q : x = [default |-> default, sym |-> q] /\ q \in DOMAIN TreeOf(d, default)
        BY DEF getChildrenForScopeSymbol, getScopeChildren
    <2>2. CASE default = None BY <2>1, <2>2 DEF Places
    <2>3. CASE default # None
        <3>1. CASE default \in Interfaces BY <2>1, <3>1 DEF Places
        <3>2. CASE default \notin Interfaces
            <4>1. TreeOf(d, default) = <<>> BY <2>3, <3>2 DEF TreeOf
            <4>2. DOMAIN <<>> = {} OBVIOUS
            <4> QED BY <2>1, <4>1, <4>2
        <3> QED BY <3>1, <3>2
    <2> QED BY <2>2, <2>3
<1>5. PICK K : K = ItemNames(d) OBVIOUS
<1>6. item.path \in Seq(K) BY <1>5 DEF Items
<1>7. Last(x.sym) \in K BY <1>4, <1>5 DEF ItemNames
<1>8. Append(item.path, Last(x.sym)) \in Seq(K) BY <1>6, <1>7
<1> QED BY <1>3, <1>4, <1>5, <1>8 DEF Items, ItemOf

\* So are those at the root.
LEMMA RootsKnown ==
    ASSUME NEW d
    PROVE  RootItems(d) \subseteq Items(d)
<1>1. PICK K : K = ItemNames(d) OBVIOUS
<1>2. ASSUME NEW m \in Modules PROVE <<m>> \in Seq(ItemNames(d))
    <2>1. m \in K BY <1>1 DEF ItemNames
    <2>2. <<m>> \in Seq(K) BY <2>1
    <2> QED BY <1>1, <2>2
<1>3. ASSUME NEW m \in Tops(d) PROVE ItemOf(<<m>>, InDesign(<<m>>)) \in Items(d)
    <2>1. m \in Modules /\ <<m>> \in DOMAIN TreeOf(d, None) BY <1>3 DEF Tops, TreeOf
    <2>2. InDesign(<<m>>) \in Places(d) BY <2>1 DEF Places, InDesign
    <2> QED BY <1>2, <2>1, <2>2 DEF Items, ItemOf
<1>4. ASSUME NEW m \in ShownPackages PROVE ItemOf(<<m>>, InDesign(None)) \in Items(d)
    <2>1. m \in Modules BY DesignAssumption DEF ShownPackages
    <2> QED BY <1>2, <2>1 DEF Items, ItemOf
<1> QED BY <1>3, <1>4 DEF RootItems

\* The levels of collect satisfy their equations.
LevelBelow(d, S) == UNION {ItemsBelow(d, x) : x \in S}
LEMMA Levels ==
    ASSUME NEW d
    PROVE  \E level :
              /\ collect(d) = {x.path : x \in UNION {level[n] : n \in 0..Depth}}
              /\ level[0] = RootItems(d)
              /\ \A n \in Nat : level[n + 1] = LevelBelow(d, level[n])
<1> DEFINE Def(f) == [n \in Nat |-> IF n = 0 THEN RootItems(d)
                                    ELSE UNION {ItemsBelow(d, x) : x \in f[n - 1]}]
           level == CHOOSE f : f = Def(f)
           A == SUBSET Items(d)
           step == [S \in A |-> LevelBelow(d, S)]
<1>1. collect(d) = {x.path : x \in UNION {level[n] : n \in 0..Depth}}
    BY DEF collect
<1>2. ASSUME NEW S \in A PROVE LevelBelow(d, S) \in A
    BY ItemsKnown DEF LevelBelow
<1>3. RootItems(d) \in A BY RootsKnown
<1>4. step \in [A -> A] BY <1>2
<1>5. PICK f \in [Nat -> A] : f[0] = RootItems(d) /\ \A n \in Nat : f[n + 1] = step[f[n]]
    <2> HIDE DEF A, step
    <2>1. Orbits(A, RootItems(d), step) # {} BY <1>3, <1>4, Iterates
    <2> QED BY <2>1 DEF Orbits
<1>6. f = Def(f)
    <2>1. ASSUME NEW n \in Nat, n # 0 PROVE f[n] = LevelBelow(d, f[n - 1])
        <3>1. n - 1 \in Nat /\ (n - 1) + 1 = n BY <2>1
        <3> QED BY <3>1, <1>5
    <2>2. ASSUME NEW n \in Nat PROVE f[n] = Def(f)[n]
        <3>1. CASE n = 0 BY <3>1, <1>5
        <3>2. CASE n # 0 BY <3>2, <2>1 DEF LevelBelow
        <3> QED BY <3>1, <3>2
    <2>3. DOMAIN Def(f) = Nat /\ DOMAIN f = Nat BY <1>5
    <2>4. Def(f) = [n \in Nat |-> Def(f)[n]] OBVIOUS
    <2>5. f = [n \in Nat |-> f[n]] BY <1>5
    <2> HIDE DEF Def
    <2> QED BY <2>2, <2>4, <2>5
<1> HIDE DEF Def
<1>7. level = Def(level)
    BY <1>6
<1>8. level[0] = RootItems(d) BY <1>7 DEF Def
<1>9. ASSUME NEW n \in Nat PROVE level[n + 1] = LevelBelow(d, level[n])
    <2>1. n + 1 \in Nat /\ n + 1 # 0 /\ (n + 1) - 1 = n OBVIOUS
    <2>2. level[n + 1] = Def(level)[n + 1] BY <1>7
    <2>3. Def(level)[n + 1] = LevelBelow(d, level[(n + 1) - 1])
        <3> HIDE DEF level
        <3> QED BY <2>1 DEF Def, LevelBelow
    <2> QED BY <2>1, <2>2, <2>3
<1> HIDE DEF level
<1> QED BY <1>1, <1>8, <1>9

\* Taking an appended item off again.
LEMMA Grown ==
    ASSUME NEW S, NEW q \in Seq(S), NEW k
    PROVE  /\ Last(Append(q, k)) = k /\ Parent(Append(q, k)) = q
           /\ Len(Append(q, k)) = Len(q) + 1
<1>1. q \in Seq(S \cup {k}) /\ k \in S \cup {k} OBVIOUS
<1>2. Len(Append(q, k)) = Len(q) + 1 /\ Append(q, k)[Len(q) + 1] = k BY <1>1
<1>3. SubSeq(Append(q, k), 1, Len(q)) = q BY <1>1
<1> QED BY <1>2, <1>3 DEF Last, Parent

\* What is above a path is above a longer one, and so is the path.
LEMMA AroundGrows ==
    ASSUME NEW K, NEW path \in Seq(K), NEW k
    PROVE  /\ Around(path) \subseteq Around(Append(path, k)) \ {Append(path, k)}
           /\ Len(path) >= 1 => path \in Around(Append(path, k)) \ {Append(path, k)}
<1>1. PICK long : long = Append(path, k) OBVIOUS
<1>2. PICK J : J = K \cup {k} OBVIOUS
<1>3. path \in Seq(J) /\ k \in J BY <1>2
<1>4. Len(path) \in Nat /\ Len(long) = Len(path) + 1 /\ long \in Seq(J) BY <1>1, <1>3
<1>5. ASSUME NEW i \in 1..Len(path) PROVE SubSeq(long, 1, i) = SubSeq(path, 1, i)
    BY <1>1, <1>3, <1>4
<1>6. ASSUME NEW i \in 1..Len(path)
      PROVE  SubSeq(path, 1, i) \in Around(long) \ {long}
    <2>1. Len(SubSeq(path, 1, i)) = i BY <1>3
    <2>2. i # Len(long) /\ i \in 1..Len(long) BY <1>4
    <2>3. SubSeq(path, 1, i) # long BY <2>1, <2>2
    <2> QED BY <1>5, <2>2, <2>3 DEF Around
<1>7. Around(path) \subseteq Around(long) \ {long} BY <1>6 DEF Around
<1>8. ASSUME Len(path) >= 1 PROVE path \in Around(long) \ {long}
    <2>1. path = SubSeq(path, 1, Len(path)) /\ Len(path) \in 1..Len(path) BY <1>3, <1>8
    <2> QED BY <1>6, <2>1
<1> QED BY <1>1, <1>7, <1>8

\* An item of collect is found under its path, or is below a port that is not connected, or is a
\* package.
Found(d, item) == item.place = InDesign(lookupHierSymbol(d, item.path)) /\ item.place.sym \in DOMAIN d
Dangling(d, item) ==
    /\ lookupHierSymbol(d, item.path) = None /\ Len(item.path) > 1
    /\ \E q \in Around(item.path) \ {item.path} : Unconnected(d, q)
Pack(item) == item.place = InDesign(None) /\ item.path \in {<<m>> : m \in ShownPackages}

\* An item below another one has its path and a name more.
LEMMA BelowItem ==
    ASSUME NEW d, NEW item, NEW y \in ItemsBelow(d, item)
    PROVE  \E z \in getChildrenForScopeSymbol(d, Opened(d, item)) :
              y = ItemOf(Append(item.path, Last(z.sym)), z)
BY DEF ItemsBelow

PathsBelow(d, item) == {y.path : y \in ItemsBelow(d, item)}

\* Below an item that is found come the items that the tree shows at its path.
LEMMA FoundBelow ==
    ASSUME NEW d, None \notin DOMAIN d, NEW K, NEW item, item.path \in Seq(K), Len(item.path) >= 1,
           Found(d, item)
    PROVE  /\ \A y \in ItemsBelow(d, item) :
                /\ Last(y.path) \in tryGetScopeChildren(d, item.path) /\ Parent(y.path) = item.path
                /\ Found(d, y) \/ Dangling(d, y)
           /\ \A k \in tryGetScopeChildren(d, item.path) : Append(item.path, k) \in PathsBelow(d, item)
<1>1. PICK path, sym : path = item.path /\ sym = lookupHierSymbol(d, path) OBVIOUS
<1>2. item.place = InDesign(sym) /\ item.place.sym = sym /\ sym \in DOMAIN d /\ sym # None
    BY <1>1 DEF Found, InDesign
<1>3. Opened(d, item) = InDesign(sym) BY <1>1, <1>2 DEF Opened
<1>4. InDesign(sym).sym = sym /\ InDesign(sym).default = None BY DEF InDesign
<1>5. path \in Seq(K) /\ path # <<>> /\ Len(path) >= 1 BY <1>1
<1> DEFINE C == getChildrenForScopeSymbol(d, InDesign(sym))
<1>6. tryGetScopeChildren(d, path) = {Last(x.sym) : x \in C}
    BY <1>1, <1>2, <1>5 DEF tryGetScopeChildren
<1>7. ItemsBelow(d, item) = {ItemOf(Append(path, Last(x.sym)), x) : x \in C}
    BY <1>1, <1>2, <1>3, <1>4 DEF ItemsBelow
<1>8. ASSUME NEW k \in tryGetScopeChildren(d, path)
      PROVE  Append(path, k) \in PathsBelow(d, item)
    <2>1. PICK x \in C : k = Last(x.sym) BY <1>6, <1>8
    <2>2. ItemOf(Append(path, Last(x.sym)), x) \in ItemsBelow(d, item) BY <1>7
    <2> QED BY <2>1, <2>2 DEF ItemOf, PathsBelow
<1>9. ASSUME NEW x \in C, NEW y, y = ItemOf(Append(path, Last(x.sym)), x)
      PROVE  Found(d, y) \/ Dangling(d, y)
    <2>1. y.path = Append(path, Last(x.sym)) /\ y.place = x BY <1>9 DEF ItemOf
    <2>2. lookupHierSymbol(d, y.path) = Inside(d, sym, Last(x.sym)) BY <1>1, <1>5, <2>1, LookupBelow
    <2>3. TreeOf(d, None) = d BY DEF TreeOf
    <2>4. PICK scope : scope = getInterfacePortScope(d, InDesign(sym)) OBVIOUS
    <2>5. PICK q : /\ x = [default |-> scope.default, sym |-> q]
                   /\ q \in getScopeChildren(TreeOf(d, scope.default), scope.sym)
                   /\ Offers(d, sym, Last(q))
        BY <1>4, <2>3, <2>4 DEF getChildrenForScopeSymbol
    <2>6. x.sym = q BY <2>5
    <2>7. CASE IsPort(d, sym) /\ ScopeOf(d, sym) = None
        <3>1. Inside(d, sym, Last(q)) = None BY <2>7 DEF Inside, Member
        <3>2. Unconnected(d, path) BY <1>1, <1>2, <2>7 DEF Unconnected
        <3>3. path \in Around(y.path) \ {y.path} BY <1>5, <2>1, AroundGrows
        <3>4. Len(y.path) > 1 BY <1>5, <2>1, Grown
        <3> QED BY <2>2, <2>6, <3>1, <3>2, <3>3, <3>4 DEF Dangling
    <2>8. CASE ~(IsPort(d, sym) /\ ScopeOf(d, sym) = None)
        <3>1. scope = [default |-> None, sym |-> ScopeOf(d, sym)]
            BY <1>4, <2>4, <2>8 DEF getInterfacePortScope
        <3>2. q \in DOMAIN d /\ q = Append(ScopeOf(d, sym), Last(q))
            BY <2>3, <2>5, <3>1 DEF getScopeChildren
        <3>3. ScopeOf(d, sym) # None BY <1>2, <2>8 DEF ScopeOf
        <3>4. Inside(d, sym, Last(q)) = q BY <1>2, <2>5, <3>2, <3>3 DEF Inside, Member
        <3>5. x = InDesign(q) BY <2>5, <3>1 DEF InDesign
        <3> QED BY <2>1, <2>2, <2>6, <3>2, <3>4, <3>5 DEF Found
    <2> QED BY <2>7, <2>8
<1> HIDE DEF C
<1>10. ASSUME NEW y \in ItemsBelow(d, item)
       PROVE  /\ Last(y.path) \in tryGetScopeChildren(d, path) /\ Parent(y.path) = path
              /\ Found(d, y) \/ Dangling(d, y)
    <2>1. PICK x \in C : y = ItemOf(Append(path, Last(x.sym)), x) BY <1>7
    <2>2. y.path = Append(path, Last(x.sym)) BY <2>1 DEF ItemOf
    <2>3. Last(y.path) = Last(x.sym) /\ Parent(y.path) = path BY <1>5, <2>2, Grown
    <2>4. Last(x.sym) \in tryGetScopeChildren(d, path) BY <1>6
    <2> QED BY <1>9, <2>1, <2>3, <2>4
<1> QED BY <1>1, <1>8, <1>10

\* What is below a port that is not connected stays there.
LEMMA OpenBelow ==
    ASSUME NEW d, NEW K, NEW item, item.path \in Seq(K), Dangling(d, item), NEW y \in ItemsBelow(d, item)
    PROVE  Dangling(d, y)
<1>1. PICK z : y = ItemOf(Append(item.path, Last(z.sym)), z) BY BelowItem
<1>2. PICK path, k : path = item.path /\ k = Last(z.sym) OBVIOUS
<1>3. y.path = Append(path, k) BY <1>1, <1>2 DEF ItemOf
<1>4. path \in Seq(K) /\ Len(path) > 1 /\ lookupHierSymbol(d, path) = None BY <1>2 DEF Dangling
<1>5. lookupHierSymbol(d, y.path) = None
    <2>1. lookupHierSymbol(d, y.path) = Inside(d, None, k) BY <1>3, <1>4, LookupBelow
    <2> QED BY <2>1 DEF Inside
<1>6. PICK q \in Around(path) \ {path} : Unconnected(d, q) BY <1>2 DEF Dangling
<1>7. q \in Around(y.path) \ {y.path} BY <1>3, <1>4, <1>6, AroundGrows
<1>8. Len(y.path) > 1 BY <1>3, <1>4, Grown
<1> QED BY <1>5, <1>6, <1>7, <1>8 DEF Dangling

\* Nothing is collected below a package.
LEMMA PackBelow ==
    ASSUME NEW d, NEW item, Pack(item)
    PROVE  ItemsBelow(d, item) = {}
<1>1. item.place.sym = None /\ IsPackage(item) BY DEF Pack, InDesign, IsPackage
<1>2. Opened(d, item) = item.place BY <1>1 DEF Opened, IsInstance
<1> QED BY <1>1, <1>2 DEF ItemsBelow

\* collect agrees with the tree.
LEMMA CollectAgrees ==
    ASSUME NEW d, None \notin DOMAIN d
    PROVE  /\ \A p \in collect(d) :
                \/ Last(p) \in tryGetScopeChildren(d, Parent(p))
                \/ \E q \in Around(p) \ {p} : Unconnected(d, q)
           /\ \A p \in collect(d) \cup {<<>>} : Len(p) <= Depth /\ p \notin {<<m>> : m \in Packages} =>
                \A k \in tryGetScopeChildren(d, p) : Append(p, k) \in collect(d)
<1>1. PICK level :
          /\ collect(d) = {x.path : x \in UNION {level[n] : n \in 0..Depth}}
          /\ level[0] = RootItems(d)
          /\ \A n \in Nat : level[n + 1] = LevelBelow(d, level[n])
    BY Levels
<1> DEFINE K == ItemNames(d)
           Good(x, n) == /\ x \in Items(d) /\ Len(x.path) = n + 1
                         /\ Found(d, x) \/ Dangling(d, x) \/ Pack(x)
           P == {n \in Nat : \A x \in level[n] : Good(x, n)}
<1>0. Depth \in Nat BY DesignAssumption
<1>2. \A x \in Items(d) : x.path \in Seq(K) BY DEF Items
<1>3. tryGetScopeChildren(d, <<>>) = Tops(d) \cup ShownPackages BY DEF tryGetScopeChildren
<1>4. \A m : /\ <<m>> \in Seq({m}) /\ Len(<<m>>) = 1 /\ Parent(<<m>>) = <<>>
             /\ Last(<<m>>) = m /\ Append(<<>>, m) = <<m>>
    BY DEF Parent, Last
<1>5. ASSUME NEW x \in RootItems(d)
      PROVE  /\ x \in Items(d)
             /\ Found(d, x) \/ Pack(x)
             /\ \E m \in Tops(d) \cup ShownPackages : x.path = <<m>>
    <2>1. x \in Items(d) BY RootsKnown
    <2>2. CASE \E m \in Tops(d) : x = ItemOf(<<m>>, InDesign(<<m>>))
        <3>1. PICK m \in Tops(d) : x = ItemOf(<<m>>, InDesign(<<m>>)) BY <2>2
        <3>2. <<m>> \in DOMAIN d BY DEF Tops
        <3>3. lookupHierSymbol(d, <<m>>) = Inside(d, <<>>, m)
            <4>1. <<>> \in Seq({m}) OBVIOUS
            <4>2. lookupHierSymbol(d, Append(<<>>, m)) = Inside(d, lookupHierSymbol(d, <<>>), m)
                BY <4>1, LookupBelow
            <4> QED BY <1>4, <4>2, LookupRoot
        <3>4. <<>> # None BY DesignAssumption
        <3>5. Inside(d, <<>>, m) = <<m>>
            <4>1. ~IsPort(d, <<>>) BY DEF IsPort
            <4>2. ScopeOf(d, <<>>) = <<>> /\ Offers(d, <<>>, m) BY <4>1 DEF ScopeOf, Offers
            <4> QED BY <1>4, <3>2, <3>4, <4>2 DEF Inside, Member
        <3>6. x.path = <<m>> /\ x.place = InDesign(<<m>>) /\ x.place.sym = <<m>>
            BY <3>1 DEF ItemOf, InDesign
        <3> QED BY <2>1, <3>2, <3>3, <3>5, <3>6 DEF Found
    <2>3. CASE \E m \in ShownPackages : x = ItemOf(<<m>>, InDesign(None))
        BY <2>1, <2>3 DEF Pack, ItemOf
    <2> QED BY <2>2, <2>3 DEF RootItems
<1>6. ASSUME NEW m \in Tops(d) \cup ShownPackages PROVE \E x \in RootItems(d) : x.path = <<m>>
    <2>1. \A place : ItemOf(<<m>>, place).path = <<m>> BY DEF ItemOf
    <2>2. m \in Tops(d) => ItemOf(<<m>>, InDesign(<<m>>)) \in RootItems(d) BY DEF RootItems
    <2>3. m \in ShownPackages => ItemOf(<<m>>, InDesign(None)) \in RootItems(d) BY DEF RootItems
    <2> QED BY <2>1, <2>2, <2>3
<1> HIDE DEF K
<1>7. ASSUME NEW n \in Nat, n \in P, NEW y \in level[n + 1]
      PROVE  \E x \in level[n] :
                /\ Good(x, n) /\ y \in ItemsBelow(d, x) /\ ~Pack(x)
                /\ Good(y, n + 1)
    <2>1. level[n + 1] = LevelBelow(d, level[n]) BY <1>1
    <2>2. PICK x \in level[n] : y \in ItemsBelow(d, x) BY <1>7, <2>1 DEF LevelBelow
    <2>3. Good(x, n) BY <1>7
    <2>4. x.path \in Seq(K) /\ y \in Items(d) BY <1>2, <2>2, <2>3, ItemsKnown
    <2>5. PICK z : y = ItemOf(Append(x.path, Last(z.sym)), z) BY <2>2, BelowItem
    <2>6. Len(y.path) = n + 2
        <3>1. y.path = Append(x.path, Last(z.sym)) BY <2>5 DEF ItemOf
        <3>2. Len(y.path) = Len(x.path) + 1 BY <2>4, <3>1, Grown
        <3> QED BY <2>3, <3>2
    <2>7. ~Pack(x) BY <2>2, PackBelow
    <2>8. Found(d, y) \/ Dangling(d, y)
        <3>1. CASE Found(d, x)
            <4>1. Len(x.path) >= 1 BY <2>3
            <4> QED BY <2>2, <2>4, <3>1, <4>1, FoundBelow
        <3>2. CASE Dangling(d, x) BY <2>2, <2>4, <3>2, OpenBelow
        <3> QED BY <2>3, <2>7, <3>1, <3>2
    <2> QED BY <2>2, <2>3, <2>4, <2>6, <2>7, <2>8
<1>8. \A n \in Nat : \A x \in level[n] : Good(x, n)
    <2>1. 0 \in P
        <3>1. ASSUME NEW x \in level[0] PROVE Good(x, 0)
            <4>1. x \in RootItems(d) BY <1>1
            <4>2. PICK m : x.path = <<m>> BY <1>5, <4>1
            <4>3. Len(x.path) = 0 + 1 BY <4>2
            <4> QED BY <1>5, <4>1, <4>3
        <3> QED BY <3>1
    <2>2. ASSUME NEW n \in Nat, n \in P PROVE n + 1 \in P
        <3>1. \A y \in level[n + 1] : Good(y, n + 1) BY <1>7, <2>2
        <3>2. n + 1 \in Nat OBVIOUS
        <3> QED BY <3>1, <3>2
    <2>3. Nat \subseteq P
        <3> HIDE DEF P
        <3> QED BY <2>1, <2>2, Inductive
    <2> QED BY <2>3
<1>9. ASSUME NEW p \in collect(d)
      PROVE  \/ Last(p) \in tryGetScopeChildren(d, Parent(p))
             \/ \E q \in Around(p) \ {p} : Unconnected(d, q)
    <2>1. PICK n \in 0..Depth : \E y \in level[n] : p = y.path BY <1>1
    <2>2. PICK y \in level[n] : p = y.path BY <2>1
    <2>3. CASE n = 0
        <3>1. PICK m \in Tops(d) \cup ShownPackages : p = <<m>> BY <1>1, <1>5, <2>2, <2>3
        <3> QED BY <1>3, <1>4, <3>1
    <2>4. CASE n # 0
        <3>1. n - 1 \in Nat /\ (n - 1) + 1 = n /\ n - 1 \in P BY <1>8, <2>4
        <3>2. PICK x \in level[n - 1] :
                Good(x, n - 1) /\ y \in ItemsBelow(d, x) /\ ~Pack(x) /\ Good(y, (n - 1) + 1)
            <4>1. y \in level[(n - 1) + 1] BY <2>2, <3>1
            <4> HIDE DEF Good, P
            <4> QED BY <1>7, <3>1, <4>1
        <3>3. x.path \in Seq(K) /\ Len(x.path) >= 1 BY <1>0, <1>2, <3>1, <3>2
        <3>4. CASE Found(d, x)
            <4>1. Last(y.path) \in tryGetScopeChildren(d, x.path) /\ Parent(y.path) = x.path
                BY <3>2, <3>3, <3>4, FoundBelow
            <4> QED BY <2>2, <4>1
        <3>5. CASE Dangling(d, x)
            <4>1. Dangling(d, y) BY <3>2, <3>3, <3>5, OpenBelow
            <4> QED BY <2>2, <4>1 DEF Dangling
        <3> QED BY <3>2, <3>4, <3>5
    <2> QED BY <2>3, <2>4
<1>10. ASSUME NEW p \in collect(d) \cup {<<>>}, Len(p) <= Depth, p \notin {<<m>> : m \in Packages},
              NEW k \in tryGetScopeChildren(d, p)
       PROVE  Append(p, k) \in collect(d)
    <2>1. CASE p = <<>>
        <3>1. k \in Tops(d) \cup ShownPackages BY <1>3, <1>10, <2>1
        <3>2. PICK x \in level[0] : x.path = <<k>> BY <1>1, <1>6, <3>1
        <3>3. 0 \in 0..Depth BY <1>0
        <3> QED BY <1>1, <1>4, <2>1, <3>2, <3>3
    <2>2. CASE p # <<>>
        <3>1. p \in collect(d) BY <2>2
        <3>2. PICK n \in 0..Depth : \E x \in level[n] : p = x.path BY <1>1, <3>1
        <3>3. PICK x \in level[n] : p = x.path BY <3>2
        <3>4. n \in Nat /\ Good(x, n) BY <1>0, <1>8
        <3>5. x.path \in Seq(K) BY <1>2, <3>4
        <3>6. CASE Found(d, x)
            <4>1. Len(x.path) >= 1 /\ n + 1 \in 0..Depth BY <1>0, <1>10, <3>3, <3>4
            <4>5. \A j \in tryGetScopeChildren(d, x.path) : Append(x.path, j) \in PathsBelow(d, x)
                BY <3>5, <3>6, <4>1, FoundBelow
            <4>2. PICK y \in ItemsBelow(d, x) : y.path = Append(p, k)
                BY <1>10, <3>3, <4>5 DEF PathsBelow
            <4>3. level[n + 1] = LevelBelow(d, level[n]) BY <1>1, <3>4
            <4>4. y \in level[n + 1] BY <4>3 DEF LevelBelow
            <4> QED BY <1>1, <4>1, <4>2, <4>4
        <3>7. CASE Dangling(d, x)
            <4>1. lookupHierSymbol(d, p) = None /\ Len(p) > 1 BY <3>3, <3>7 DEF Dangling
            <4>2. ASSUME NEW m PROVE p # <<m>>
                <5>1. SUFFICES ASSUME p = <<m>> PROVE FALSE OBVIOUS
                <5>2. PICK n1 : n1 = Len(p) /\ n1 > 1 BY <4>1
                <5>3. Len(<<m>>) = 1 OBVIOUS
                <5>4. n1 = 1 BY <5>1, <5>2, <5>3
                <5> QED BY <5>2, <5>4
            <4>3. tryGetScopeChildren(d, p) =
                    UNION {DOMAIN Body[m][built[m]] : m \in {m \in ShownPackages : p = <<m>>}}
                BY <2>2, <4>1 DEF tryGetScopeChildren
            <4> QED BY <1>10, <4>2, <4>3
        <3>8. CASE Pack(x)
            <4>1. p \in {<<m>> : m \in Packages} BY <3>3, <3>8 DEF Pack, ShownPackages
            <4> QED BY <1>10, <4>1
        <3> QED BY <3>4, <3>6, <3>7, <3>8
    <2> QED BY <2>1, <2>2
<1> QED BY <1>9, <1>10

\* The tree depends on the design and on the texts it was built from only.
LEMMA TreeUnchanged ==
    ASSUME design' = design, built' = built, NEW p
    PROVE  /\ tryGetScopeChildren(design, p)' = tryGetScopeChildren(design, p)
           /\ Unconnected(design, p)' = Unconnected(design, p)
BY DEF tryGetScopeChildren, getChildrenForScopeSymbol, TreeOf, ShownPackages, Declared, Unconnected

-----------------------------------------------------------------------------
(* Connections of interface ports.                                         *)

\* A connection leads to a symbol of the design or nowhere.
LEMMA ConnectionKnown ==
    ASSUME NEW d, NEW inst, NEW name
    PROVE  ConnectionOf(d, inst, name) \in DOMAIN d \cup {None}
BY DEF ConnectionOf

\* Following a connection stays in the design.
LEMMA ForwardedWay ==
    ASSUME NEW d, NEW way \in Seq(DOMAIN d), Len(way) >= 1
    PROVE  Forwarded(d, way) \in Seq(DOMAIN d) /\ Len(Forwarded(d, way)) >= 1
<1> DEFINE sym == Connection(d, Last(way))
<1>1. sym \in DOMAIN d \cup {None} BY ConnectionKnown DEF Connection
<1> HIDE DEF sym
<1>2. AppendKnown(way, sym) \in Seq(DOMAIN d) /\ Len(AppendKnown(way, sym)) >= 1
    <2>1. PICK D : D = DOMAIN d OBVIOUS
    <2>2. way \in Seq(D) /\ sym \in D \cup {None} BY <1>1, <2>1
    <2>3. AppendKnown(way, sym) \in Seq(D) /\ Len(AppendKnown(way, sym)) >= 1
        BY <2>2 DEF AppendKnown
    <2> QED BY <2>1, <2>3
<1> QED BY <1>2 DEF Forwarded, sym

\* resolveInterfaceConnection passes and ends at symbols of the design.
LEMMA Endpoints ==
    ASSUME NEW d, NEW port \in DOMAIN d, Len(port) \in Nat
    PROVE  LET c == resolveInterfaceConnection(d, port)
           IN  /\ c.sourcePath \in Seq(DOMAIN d) /\ c.resolvedEndpoint \in DOMAIN d \cup {None}
               /\ c.resolvedEndpoint # None =>
                    c.sourcePath # <<>> /\ c.resolvedEndpoint = Last(c.sourcePath)
<1> DEFINE Def(f) == [n \in Nat |-> IF n = 0 THEN <<port>> ELSE Forwarded(d, f[n - 1])]
           way == CHOOSE f : f = Def(f)
           A == {w \in Seq(DOMAIN d) : Len(w) >= 1}
           step == [w \in A |-> Forwarded(d, w)]
           P == {n \in Nat : way[n] \in A}
<1>1. resolveInterfaceConnection(d, port) = Resolved(Tail(way[Len(port)]))
    BY DEF resolveInterfaceConnection
<1>2. <<port>> \in A OBVIOUS
<1>3. ASSUME NEW w \in A PROVE Forwarded(d, w) \in A
    BY ForwardedWay
<1> HIDE DEF A
<1>4. PICK f \in [Nat -> A] : f[0] = <<port>> /\ \A n \in Nat : f[n + 1] = step[f[n]]
    <2>1. step \in [A -> A] BY <1>3
    <2> HIDE DEF step
    <2>2. Orbits(A, <<port>>, step) # {} BY <1>2, <2>1, Iterates
    <2> QED BY <2>2 DEF Orbits
<1>5. f = Def(f)
    <2>1. ASSUME NEW n \in Nat PROVE f[n] = Def(f)[n]
        <3>1. CASE n = 0 BY <3>1, <1>4
        <3>2. CASE n # 0
            <4>1. n - 1 \in Nat /\ (n - 1) + 1 = n BY <3>2
            <4>2. f[(n - 1) + 1] = step[f[n - 1]] BY <4>1, <1>4
            <4> QED BY <4>1, <4>2, <3>2, <1>4
        <3> QED BY <3>1, <3>2
    <2>2. Def(f) = [n \in Nat |-> Def(f)[n]] OBVIOUS
    <2>3. f = [n \in Nat |-> f[n]] BY <1>4
    <2> HIDE DEF Def
    <2> QED BY <2>1, <2>2, <2>3
<1> HIDE DEF Def
<1>6. way = Def(way) BY <1>5
<1> HIDE DEF way
<1>7. 0 \in P BY <1>2, <1>6 DEF Def
<1>8. ASSUME NEW n \in Nat, n \in P PROVE n + 1 \in P
    <2>1. n + 1 \in Nat /\ n + 1 # 0 /\ (n + 1) - 1 = n OBVIOUS
    <2>2. Def(way)[n + 1] = Forwarded(d, way[(n + 1) - 1]) BY <2>1 DEF Def
    <2>3. way[n + 1] = Forwarded(d, way[n]) BY <2>1, <2>2, <1>6
    <2> QED BY <2>1, <2>3, <1>3, <1>8
<1>9. way[Len(port)] \in A
    <2>1. Nat \subseteq P
        <3> HIDE DEF P
        <3> QED BY <1>7, <1>8, Inductive
    <2> QED BY <2>1
<1>10. PICK path : path = Tail(way[Len(port)]) OBVIOUS
<1>11. path \in Seq(DOMAIN d) /\ (path # <<>> => Last(path) \in DOMAIN d)
    <2>1. PICK D, w : D = DOMAIN d /\ w = way[Len(port)] OBVIOUS
    <2>2. w \in Seq(D) /\ Len(w) >= 1 BY <1>9, <2>1 DEF A
    <2>3. Tail(w) \in Seq(D) /\ (Tail(w) # <<>> => Last(Tail(w)) \in D) BY <2>2 DEF Last
    <2> QED BY <1>10, <2>1, <2>3
<1> QED BY <1>1, <1>10, <1>11 DEF Resolved

-----------------------------------------------------------------------------
(* Folds.                                                                  *)

\* The item that FoldLeft takes off a set of positions is the last.
LEMMA Greatest ==
    ASSUME NEW n \in Nat, NEW s \in SUBSET (1..n), n \in s
    PROVE  Max(s) = n
<1>1. \A y \in s : n >= y OBVIOUS
<1>2. \A x \in s : (\A y \in s : x >= y) => x = n OBVIOUS
<1>3. Max(s) \in s /\ \A y \in s : Max(s) >= y BY <1>1 DEF Max
<1> QED BY <1>2, <1>3

\* The functions that FoldLeft may choose for n steps from a.
FoldsOver(n, A, a, step) ==
    {f \in [SUBSET (1..n) -> A] :
        /\ f[{}] = a
        /\ \A s \in SUBSET (1..n) : s # {} => f[s] = step[Max(s)][f[s \ {Max(s)}]]}

\* There is one.
LEMMA FoldExists ==
    ASSUME NEW n \in Nat, NEW A, NEW a \in A, NEW step \in [1..n -> [A -> A]]
    PROVE  FoldsOver(n, A, a, step) # {}
<1> DEFINE P == {k \in Nat : k <= n => FoldsOver(k, A, a, step) # {}}
<1>1. 0 \in P
    <2>1. SUBSET (1..0) = {{}} OBVIOUS
    <2>2. [s \in SUBSET (1..0) |-> a] \in FoldsOver(0, A, a, step) BY <2>1 DEF FoldsOver
    <2> QED BY <2>2
<1>2. ASSUME NEW k \in Nat, k \in P PROVE k + 1 \in P
    <2>1. SUFFICES ASSUME k + 1 <= n PROVE FoldsOver(k + 1, A, a, step) # {} OBVIOUS
    <2>2. k + 1 \in 1..n /\ k + 1 \in Nat BY <2>1
    <2>3. PICK f : f \in FoldsOver(k, A, a, step) BY <1>2, <2>1
    <2> DEFINE g == [s \in SUBSET (1..(k + 1)) |->
                        IF k + 1 \in s THEN step[k + 1][f[s \ {k + 1}]] ELSE f[s]]
    <2>4. ASSUME NEW s \in SUBSET (1..(k + 1)) PROVE s \ {k + 1} \in SUBSET (1..k)
        OBVIOUS
    <2>5. f \in [SUBSET (1..k) -> A] /\ f[{}] = a BY <2>3 DEF FoldsOver
    <2>6. g \in [SUBSET (1..(k + 1)) -> A]
        <3>1. ASSUME NEW s \in SUBSET (1..(k + 1)) PROVE g[s] \in A
            <4>1. f[s \ {k + 1}] \in A BY <2>4, <2>5
            <4>2. step[k + 1] \in [A -> A] BY <2>2
            <4>3. CASE k + 1 \in s BY <4>1, <4>2, <4>3
            <4>4. CASE k + 1 \notin s
                <5>1. s = s \ {k + 1} BY <4>4
                <5> QED BY <4>1, <4>4, <5>1
            <4> QED BY <4>3, <4>4
        <3> QED BY <3>1
    <2>7. g[{}] = a BY <2>5
    <2>8. ASSUME NEW s \in SUBSET (1..(k + 1)), s # {}
          PROVE  g[s] = step[Max(s)][g[s \ {Max(s)}]]
        <3>1. CASE k + 1 \in s
            <4>1. Max(s) = k + 1 BY <3>1, <2>2, Greatest
            <4>2. s \ {k + 1} \in SUBSET (1..(k + 1)) /\ k + 1 \notin s \ {k + 1} OBVIOUS
            <4>3. g[s \ {k + 1}] = f[s \ {k + 1}] BY <4>2
            <4>4. g[s] = step[k + 1][f[s \ {k + 1}]] BY <3>1
            <4> QED BY <4>1, <4>3, <4>4
        <3>2. CASE k + 1 \notin s
            <4>1. s \in SUBSET (1..k) BY <3>2, <2>4
            <4>2. f[s] = step[Max(s)][f[s \ {Max(s)}]]
                <5>1. \A t \in SUBSET (1..k) : t # {} => f[t] = step[Max(t)][f[t \ {Max(t)}]]
                    BY <2>3 DEF FoldsOver
                <5> QED BY <4>1, <5>1, <2>8
            <4>3. PICK t : t = s \ {Max(s)} OBVIOUS
            <4>4. t \in SUBSET (1..(k + 1)) /\ k + 1 \notin t BY <4>3, <3>2
            <4>5. g[t] = f[t] /\ g[s] = f[s] BY <4>4, <3>2
            <4> QED BY <4>2, <4>3, <4>5
        <3> QED BY <3>1, <3>2
    <2> HIDE DEF g
    <2> QED BY <2>6, <2>7, <2>8 DEF FoldsOver
<1>3. Nat \subseteq P
    <2> HIDE DEF P
    <2> QED BY <1>1, <1>2, Inductive
<1> QED BY <1>3

\* A fold over numbers goes where each of its steps leads.
LEMMA FoldReaches ==
    ASSUME NEW n \in Nat, NEW A, NEW f, f[{}] \in A[0],
           \A k \in Nat : k < n /\ f[1..k] \in A[k] => f[1..(k + 1)] \in A[k + 1]
    PROVE  f[1..n] \in A[n]
<1> DEFINE P == {k \in Nat : k <= n => f[1..k] \in A[k]}
<1>1. 0 \in P
    <2>1. 1..0 = {} OBVIOUS
    <2> QED BY <2>1
<1>2. ASSUME NEW k \in Nat, k \in P PROVE k + 1 \in P
    <2>1. k + 1 <= n => k < n /\ k <= n OBVIOUS
    <2> QED BY <1>2, <2>1
<1>3. Nat \subseteq P
    <2> HIDE DEF P
    <2> QED BY <1>1, <1>2, Inductive
<1> QED BY <1>3

\* A fold stays where each of its steps stays.
LEMMA FoldStays ==
    ASSUME NEW n \in Nat, NEW A, NEW f, f[{}] \in A,
           \A s \in SUBSET (1..n) : s # {} /\ f[s \ {Max(s)}] \in A => f[s] \in A
    PROVE  f[1..n] \in A
<1> DEFINE P == {k \in Nat : k <= n => f[1..k] \in A}
<1>1. 0 \in P
    <2>1. 1..0 = {} OBVIOUS
    <2> QED BY <2>1
<1>2. ASSUME NEW k \in Nat, k \in P PROVE k + 1 \in P
    <2>1. SUFFICES ASSUME k + 1 <= n PROVE f[1..(k + 1)] \in A OBVIOUS
    <2>2. PICK s : s = 1..(k + 1) OBVIOUS
    <2>3. s \in SUBSET (1..n) /\ s # {}
        <3>1. \A i \in s : i \in 1..n BY <2>1, <2>2
        <3>2. k + 1 \in s BY <2>2
        <3> QED BY <3>1, <3>2
    <2>4. Max(s) = k + 1
        <3>1. k + 1 \in Nat /\ s \in SUBSET (1..(k + 1)) /\ k + 1 \in s BY <2>2
        <3> QED BY <3>1, Greatest
    <2>5. s \ {k + 1} = 1..k BY <2>2
    <2>6. f[1..k] \in A BY <1>2, <2>1
    <2> QED BY <2>2, <2>3, <2>4, <2>5, <2>6
<1>3. Nat \subseteq P
    <2> HIDE DEF P
    <2> QED BY <1>1, <1>2, Inductive
<1> QED BY <1>3

-----------------------------------------------------------------------------
(* The documents that a compilation reads.                                 *)

\* Modules declared in documents, documents they name, documents with interfaces.
In(src, D) == {m \in Declared(src) : Doc[m] \in D}
NamedIn(src, D) == {Doc[n] : n \in (UNION {Names(Body[m][src[m]]) : m \in In(src, D)}) \cap Declared(src)}
OpenIn(src, D) == {d \in D : In(src, {d}) \cap Interfaces # {}}

\* What is named is a document.
LEMMA NamedDocs ==
    ASSUME NEW src, NEW D
    PROVE  NamedIn(src, D) \subseteq Docs
<1>1. SUFFICES ASSUME NEW x \in NamedIn(src, D) PROVE x \in Docs OBVIOUS
<1>2. PICK n \in Declared(src) : x = Doc[n] BY <1>1 DEF NamedIn
<1>3. n \in Modules BY DEF Declared
<1> QED BY <1>2, <1>3 DEF Docs

\* The rounds of getDependentTrees.
Reaching(src, doc, reach) ==
    /\ reach[0] = {doc} \cup NamedIn(src, {doc})
    /\ \A n \in Nat : reach[n + 1] = reach[n] \cup NamedIn(src, OpenIn(src, reach[n]))

\* They exist, and the last is the result.
LEMMA Reach ==
    ASSUME NEW src, NEW doc
    PROVE  \E reach : Reaching(src, doc, reach) /\ getDependentTrees(src, doc) = reach[Cardinality(Docs)]
<1> DEFINE Of(D) == {m \in Declared(src) : Doc[m] \in D}
           Named(D) == {Doc[n] : n \in (UNION {Names(Body[m][src[m]]) : m \in Of(D)}) \cap Declared(src)}
           Open(D) == {d \in D : Of({d}) \cap Interfaces # {}}
           Def(f) == [n \in Nat |-> IF n = 0 THEN {doc} \cup Named({doc})
                                    ELSE LET D == f[n - 1] IN D \cup Named(Open(D))]
           reach == CHOOSE f : f = Def(f)
           A == SUBSET (Docs \cup {doc})
           first == {doc} \cup NamedIn(src, {doc})
           Then(D) == D \cup NamedIn(src, OpenIn(src, D))
           step == [D \in A |-> Then(D)]
<1>1. getDependentTrees(src, doc) = reach[Cardinality(Docs)]
    BY DEF getDependentTrees
<1>2. \A D : Of(D) = In(src, D) BY DEF In
<1>3. \A D : Named(D) = NamedIn(src, D) BY DEF In, NamedIn
<1>4. \A D : Open(D) = OpenIn(src, D) BY DEF In, OpenIn
<1> HIDE DEF Of, Named, Open
<1>5. \A f : Def(f) = [n \in Nat |-> IF n = 0 THEN first ELSE Then(f[n - 1])]
    BY <1>3, <1>4
<1>6. first \in A BY NamedDocs
<1>7. \A D \in A : Then(D) \in A BY NamedDocs
<1> HIDE DEF A, first, Then, Def
<1>8. PICK f \in [Nat -> A] : f[0] = first /\ \A n \in Nat : f[n + 1] = step[f[n]]
    <2>1. step \in [A -> A] BY <1>7
    <2> HIDE DEF step
    <2>2. Orbits(A, first, step) # {} BY <1>6, <2>1, Iterates
    <2> QED BY <2>2 DEF Orbits
<1>9. f = Def(f)
    <2>1. ASSUME NEW n \in Nat PROVE f[n] = Def(f)[n]
        <3>1. CASE n = 0 BY <3>1, <1>5, <1>8
        <3>2. CASE n # 0
            <4>1. n - 1 \in Nat /\ (n - 1) + 1 = n BY <3>2
            <4>2. f[(n - 1) + 1] = step[f[n - 1]] BY <4>1, <1>8
            <4>3. f[n] = Then(f[n - 1]) BY <4>1, <4>2, <1>8
            <4> QED BY <4>3, <3>2, <1>5
        <3> QED BY <3>1, <3>2
    <2>2. Def(f) = [n \in Nat |-> Def(f)[n]] BY <1>5
    <2>3. f = [n \in Nat |-> f[n]] BY <1>8
    <2> QED BY <2>1, <2>2, <2>3
<1>10. reach = Def(reach) BY <1>9
<1> HIDE DEF reach
<1>11. reach[0] = first BY <1>5, <1>10
<1>12. ASSUME NEW n \in Nat PROVE reach[n + 1] = Then(reach[n])
    <2>1. n + 1 \in Nat /\ n + 1 # 0 /\ (n + 1) - 1 = n OBVIOUS
    <2>2. Def(reach)[n + 1] = Then(reach[(n + 1) - 1]) BY <2>1, <1>5
    <2> QED BY <2>1, <2>2, <1>10
<1>13. Reaching(src, doc, reach) BY <1>11, <1>12 DEF first, Then, Reaching
<1> QED BY <1>1, <1>13

\* A round never drops a document.
LEMMA TreesGrow ==
    ASSUME NEW reach, NEW src,
           \A n \in Nat : reach[n + 1] = reach[n] \cup NamedIn(src, OpenIn(src, reach[n])),
           NEW N \in Nat
    PROVE  \A n \in 0..N : reach[n] \subseteq reach[N]
<1> DEFINE P == {k \in Nat : \A n \in 0..k : reach[n] \subseteq reach[k]}
<1>1. 0 \in P OBVIOUS
<1>2. ASSUME NEW k \in Nat, k \in P PROVE k + 1 \in P
    <2>1. reach[k] \subseteq reach[k + 1] OBVIOUS
    <2>2. ASSUME NEW n \in 0..(k + 1) PROVE reach[n] \subseteq reach[k + 1]
        <3>1. CASE n = k + 1 BY <3>1
        <3>2. CASE n \in 0..k BY <3>2, <2>1, <1>2
        <3> QED BY <3>1, <3>2
    <2> QED BY <2>2
<1>3. Nat \subseteq P
    <2> HIDE DEF P
    <2> QED BY <1>1, <1>2, Inductive
<1> QED BY <1>3

\* An edit of one module changes nothing of what is named outside its document, as long as the
\* document itself is not named.
LEMMA NamedUnlessEdited ==
    ASSUME NEW m \in Modules, NEW src, NEW new, \A x \in Modules \ {m} : new[x] = src[x],
           NEW D, Doc[m] \notin D,
           Doc[m] \notin NamedIn(src, D), Doc[m] \notin NamedIn(new, D)
    PROVE  NamedIn(new, D) = NamedIn(src, D)
<1>1. In(new, D) = In(src, D) /\ \A x \in In(src, D) : x \in Modules \ {m}
    BY DEF In, Declared
<1> DEFINE S(s) == UNION {Names(Body[x][s[x]]) : x \in In(s, D)}
<1>2. S(new) = S(src)
    <2>1. \A x \in In(src, D) : new[x] = src[x] BY <1>1
    <2> QED BY <1>1, <2>1
<1>3. NamedIn(src, D) = {Doc[n] : n \in S(src) \cap Declared(src)}
      /\ NamedIn(new, D) = {Doc[n] : n \in S(new) \cap Declared(new)}
    BY DEF NamedIn
<1> HIDE DEF S
<1>4. m \notin S(src) \cap Declared(src) /\ m \notin S(new) \cap Declared(new)
    BY <1>3
<1>5. S(src) \cap Declared(src) = S(new) \cap Declared(new)
    BY <1>2, <1>4 DEF Declared
<1> QED BY <1>3, <1>5

\* Nor does it change which other documents have interfaces.
LEMMA OpenUnlessEdited ==
    ASSUME NEW m \in Modules, NEW src, NEW new, \A x \in Modules \ {m} : new[x] = src[x],
           NEW D, Doc[m] \notin D
    PROVE  OpenIn(new, D) = OpenIn(src, D)
<1>1. ASSUME NEW d \in D PROVE In(new, {d}) = In(src, {d})
    BY DEF In, Declared
<1> QED BY <1>1 DEF OpenIn

\* An edit of a document that a compilation neither read before nor reads now leaves what
\* the compilation reads as it was: what onDocDidChange does not invalidate stays valid.
LEMMA TreesUnlessEdited ==
    ASSUME NEW m \in Modules, NEW src, NEW new, \A x \in Modules \ {m} : new[x] = src[x],
           NEW doc,
           Doc[m] \notin getDependentTrees(src, doc), Doc[m] \notin getDependentTrees(new, doc)
    PROVE  getDependentTrees(new, doc) = getDependentTrees(src, doc)
<1> DEFINE N == Cardinality(Docs)
<1>1. N \in Nat BY DesignAssumption, FS_CardinalityType
<1>0. PICK r, q : /\ Reaching(src, doc, r) /\ getDependentTrees(src, doc) = r[N]
                  /\ Reaching(new, doc, q) /\ getDependentTrees(new, doc) = q[N]
    BY Reach
<1>2. /\ r[0] = {doc} \cup NamedIn(src, {doc})
      /\ \A n \in Nat : r[n + 1] = r[n] \cup NamedIn(src, OpenIn(src, r[n]))
    BY <1>0 DEF Reaching
<1>3. /\ q[0] = {doc} \cup NamedIn(new, {doc})
      /\ \A n \in Nat : q[n + 1] = q[n] \cup NamedIn(new, OpenIn(new, q[n]))
    BY <1>0 DEF Reaching
<1> HIDE DEF N
<1>4. \A n \in 0..N : Doc[m] \notin r[n] /\ Doc[m] \notin q[n]
    <2>1. \A n \in 0..N : r[n] \subseteq r[N] BY <1>1, <1>2, TreesGrow
    <2>2. \A n \in 0..N : q[n] \subseteq q[N] BY <1>1, <1>3, TreesGrow
    <2> QED BY <1>0, <2>1, <2>2
<1> DEFINE P == {n \in Nat : n <= N => q[n] = r[n]}
<1>5. 0 \in P
    <2>1. Doc[m] \notin r[0] /\ Doc[m] \notin q[0] BY <1>1, <1>4
    <2>2. NamedIn(new, {doc}) = NamedIn(src, {doc})
        BY <1>2, <1>3, <2>1, NamedUnlessEdited
    <2> QED BY <1>2, <1>3, <2>2
<1>6. ASSUME NEW n \in Nat, n \in P PROVE n + 1 \in P
    <2>1. SUFFICES ASSUME n + 1 <= N PROVE q[n + 1] = r[n + 1] OBVIOUS
    <2>2. n \in 0..N /\ n + 1 \in 0..N /\ q[n] = r[n] BY <1>1, <1>6, <2>1
    <2>3. OpenIn(new, r[n]) = OpenIn(src, r[n]) BY <1>4, <2>2, OpenUnlessEdited
    <2>4. PICK D : D = OpenIn(src, r[n]) OBVIOUS
    <2>5. r[n + 1] = r[n] \cup NamedIn(src, D) BY <1>2, <2>4
    <2>6. q[n + 1] = r[n] \cup NamedIn(new, D) BY <1>3, <2>2, <2>3, <2>4
    <2>7. Doc[m] \notin D BY <1>4, <2>2, <2>4 DEF OpenIn
    <2>8. Doc[m] \notin r[n + 1] /\ Doc[m] \notin q[n + 1] BY <1>4, <2>2
    <2>9. Doc[m] \notin NamedIn(src, D) /\ Doc[m] \notin NamedIn(new, D)
        BY <2>5, <2>6, <2>8
    <2>10. NamedIn(new, D) = NamedIn(src, D)
        BY <2>7, <2>9, NamedUnlessEdited
    <2> QED BY <2>5, <2>6, <2>10
<1>7. N \in P
    <2>1. Nat \subseteq P
        <3> HIDE DEF P
        <3> QED BY <1>5, <1>6, Inductive
    <2> QED BY <1>1, <2>1
<1> QED BY <1>0, <1>1, <1>7

-----------------------------------------------------------------------------
(* Elaboration.                                                            *)

\* The levels of Elaborate and the design that its nodes make.
TopNodes(tops) == {[path |-> <<t>>, at |-> [kind |-> "inst", of |-> t, ports |-> <<>>]] : t \in tops}
NodesBelow(src, S) ==
    {x \in UNION {LET u == Unfolds(src, y.at) IN
                  {[path |-> Append(y.path, k), at |-> u[k]] : k \in DOMAIN u} : y \in S} :
     Known(src, x.at)}
Unfolding(src, tops, level) ==
    /\ level[1] = TopNodes(tops)
    /\ \A n \in Nat \ {0} : level[n + 1] = NodesBelow(src, level[n])
Nodes(level) == UNION {level[n] : n \in 1..Depth}
Holding(nodes) == [p \in {x.path : x \in nodes} |-> (CHOOSE x \in nodes : x.path = p).at]

\* The levels exist, and the design is made of them.
LEMMA Elaboration ==
    ASSUME NEW src, NEW tops
    PROVE  \E level : Unfolding(src, tops, level) /\ Elaborate(src, tops) = Holding(Nodes(level))
<1> DEFINE Below(S) == {x \in UNION {LET u == Unfolds(src, y.at) IN
                                     {[path |-> Append(y.path, k), at |-> u[k]] : k \in DOMAIN u} :
                                     y \in S} : Known(src, x.at)}
           first == {[path |-> <<t>>, at |-> [kind |-> "inst", of |-> t, ports |-> <<>>]] : t \in tops}
           Def(f) == [n \in Nat |-> IF n <= 1 THEN first ELSE Below(f[n - 1])]
           level == CHOOSE f : f = Def(f)
           nodes == UNION {level[n] : n \in 1..Depth}
<1>1. Elaborate(src, tops) = Holding(nodes)
    BY DEF Elaborate, Holding
<1>2. first = TopNodes(tops) /\ \A S : Below(S) = NodesBelow(src, S)
    BY DEF TopNodes, NodesBelow
<1> HIDE DEF Below, first
<1> DEFINE Then(i, prev) == IF i <= 1 THEN first ELSE Below(prev)
           Upto(n, h) == h = [i \in 0..n |-> Then(i, h[i - 1])]
           P == {n \in Nat : \E h : Upto(n, h)}
           g(n) == CHOOSE h : Upto(n, h)
           f == [n \in Nat |-> g(n)[n]]
<1>3. 0 \in P
    <2> DEFINE h == [i \in 0..0 |-> first]
    <2>1. \A i \in 0..0 : Then(i, h[i - 1]) = first OBVIOUS
    <2> HIDE DEF Then
    <2>2. Upto(0, h) BY <2>1
    <2> QED BY <2>2
<1>4. ASSUME NEW n \in Nat, n \in P PROVE n + 1 \in P
    <2>1. PICK h : Upto(n, h) BY <1>4
    <2> DEFINE k == [i \in 0..(n + 1) |-> IF i = n + 1 THEN Then(n + 1, h[n]) ELSE h[i]]
    <2> HIDE DEF Then
    <2>2. ASSUME NEW i \in 0..(n + 1) PROVE k[i] = Then(i, k[i - 1])
        <3>1. CASE i = n + 1
            <4>1. n \in 0..(n + 1) /\ n # n + 1 /\ i - 1 = n BY <3>1
            <4>2. k[n] = h[n] BY <4>1
            <4> QED BY <3>1, <4>1, <4>2
        <3>2. CASE i \in 1..n
            <4>1. i - 1 \in 0..(n + 1) /\ i - 1 # n + 1 /\ i \in 0..n /\ i # n + 1 BY <3>2
            <4>2. k[i] = h[i] /\ k[i - 1] = h[i - 1] BY <4>1
            <4>3. h[i] = Then(i, h[i - 1]) BY <2>1, <4>1
            <4> QED BY <4>2, <4>3
        <3>3. CASE i = 0 /\ i # n + 1
            <4>1. 0 \in 0..n /\ 0 \in 0..(n + 1) OBVIOUS
            <4>2. k[0] = h[0] BY <3>3, <4>1
            <4>3. h[0] = Then(0, h[0 - 1]) BY <2>1, <4>1
            <4>4. \A a, b : Then(0, a) = Then(0, b) BY DEF Then
            <4> QED BY <3>3, <4>2, <4>3, <4>4
        <3> QED BY <3>1, <3>2, <3>3
    <2>3. Upto(n + 1, k)
        <3>1. k = [i \in 0..(n + 1) |-> k[i]] OBVIOUS
        <3> HIDE DEF k
        <3> QED BY <2>2, <3>1
    <2>4. n + 1 \in Nat OBVIOUS
    <2> HIDE DEF k, Upto
    <2> QED BY <2>3, <2>4
<1>5. \A n \in Nat : Upto(n, g(n))
    <2>1. Nat \subseteq P
        <3> HIDE DEF P
        <3> QED BY <1>3, <1>4, Inductive
    <2> QED BY <2>1
<1> HIDE DEF g
<1>6. ASSUME NEW n \in Nat PROVE g(n + 1)[n] = g(n)[n]
    <2> DEFINE Q == {i \in Nat : i <= n => g(n + 1)[i] = g(n)[i]}
    <2>1. Upto(n, g(n)) /\ Upto(n + 1, g(n + 1)) BY <1>5
    <2>2. 0 \in Q
        <3>1. 0 \in 0..n /\ 0 \in 0..(n + 1) OBVIOUS
        <3>2. g(n)[0] = Then(0, g(n)[0 - 1]) /\ g(n + 1)[0] = Then(0, g(n + 1)[0 - 1])
            <4> HIDE DEF Then
            <4> QED BY <2>1, <3>1
        <3> QED BY <3>2
    <2>3. ASSUME NEW i \in Nat, i \in Q PROVE i + 1 \in Q
        <3> HIDE DEF Then
        <3>1. SUFFICES ASSUME i + 1 <= n PROVE g(n + 1)[i + 1] = g(n)[i + 1] OBVIOUS
        <3>2. i + 1 \in 0..n /\ i + 1 \in 0..(n + 1) /\ (i + 1) - 1 = i BY <3>1
        <3>3. g(n + 1)[i] = g(n)[i] BY <2>3, <3>1
        <3>4. g(n)[i + 1] = Then(i + 1, g(n)[(i + 1) - 1]) BY <2>1, <3>2
        <3>5. g(n + 1)[i + 1] = Then(i + 1, g(n + 1)[(i + 1) - 1]) BY <2>1, <3>2
        <3> QED BY <3>2, <3>3, <3>4, <3>5
    <2>4. Nat \subseteq Q
        <3> HIDE DEF Q
        <3> QED BY <2>2, <2>3, Inductive
    <2> QED BY <2>4
<1>7. ASSUME NEW n \in Nat PROVE f[n] = Def(f)[n]
    <2>1. Upto(n, g(n)) /\ n \in 0..n BY <1>5
    <2>2. g(n)[n] = Then(n, g(n)[n - 1])
        <3> HIDE DEF Then
        <3> QED BY <2>1
    <2>3. CASE n <= 1 BY <2>2, <2>3
    <2>4. CASE n > 1
        <3>1. n - 1 \in Nat /\ (n - 1) + 1 = n /\ ~(n <= 1) BY <2>4
        <3>2. g((n - 1) + 1)[n - 1] = g(n - 1)[n - 1] BY <3>1, <1>6
        <3>3. g(n)[n - 1] = f[n - 1] BY <3>1, <3>2
        <3>4. f[n] = Below(g(n)[n - 1]) BY <2>2, <3>1
        <3>5. Def(f)[n] = Below(f[n - 1])
            <4>1. \A e : Def(e)[n] = Below(e[n - 1]) BY <3>1
            <4> HIDE DEF f, Def
            <4> QED BY <4>1
        <3> QED BY <3>3, <3>4, <3>5
    <2> QED BY <2>3, <2>4
<1>8. f = Def(f)
    <2>1. Def(f) = [n \in Nat |-> Def(f)[n]] /\ f = [n \in Nat |-> f[n]] OBVIOUS
    <2> HIDE DEF Def, f
    <2> QED BY <1>7, <2>1
<1> HIDE DEF Def, f
<1>9. level = Def(level) BY <1>8
<1> HIDE DEF level
<1>10. level[1] = first BY <1>9 DEF Def
<1>11. ASSUME NEW n \in Nat \ {0} PROVE level[n + 1] = Below(level[n])
    <2>1. n + 1 \in Nat /\ ~(n + 1 <= 1) /\ (n + 1) - 1 = n OBVIOUS
    <2>2. Def(level)[n + 1] = Below(level[(n + 1) - 1]) BY <2>1 DEF Def
    <2> QED BY <2>1, <2>2, <1>9
<1>12. Unfolding(src, tops, level) BY <1>2, <1>10, <1>11 DEF Unfolding
<1>13. nodes = Nodes(level) BY DEF Nodes
<1> HIDE DEF nodes
<1> QED BY <1>1, <1>12, <1>13

\* What is below a set of nodes.
LEMMA BelowNode ==
    ASSUME NEW src, NEW S, NEW x
    PROVE  x \in NodesBelow(src, S) <=>
             \E y \in S : \E k \in DOMAIN Unfolds(src, y.at) :
                /\ x = [path |-> Append(y.path, k), at |-> Unfolds(src, y.at)[k]]
                /\ Known(src, x.at)
BY DEF NodesBelow

\* A node of level n has a path of n items.
IsNode(x, n) ==
    /\ x = [path |-> x.path, at |-> x.at]
    /\ Len(x.path) = n /\ \E K : x.path \in Seq(K)

\* Every node is one of its level.
LEMMA NodePaths ==
    ASSUME NEW src, NEW tops, NEW level, Unfolding(src, tops, level)
    PROVE  \A n \in Nat \ {0} : \A x \in level[n] : IsNode(x, n)
<1> DEFINE Good(n) == \A x \in level[n] : IsNode(x, n)
           P == {n \in Nat : Good(n + 1)}
<1>1. 0 \in P
    <2>1. SUFFICES ASSUME NEW x \in level[1] PROVE IsNode(x, 1) OBVIOUS
    <2>2. PICK t \in tops : x = [path |-> <<t>>, at |-> [kind |-> "inst", of |-> t, ports |-> <<>>]]
        BY <2>1 DEF Unfolding, TopNodes
    <2>3. <<t>> \in Seq({t}) /\ Len(<<t>>) = 1 OBVIOUS
    <2> QED BY <2>2, <2>3 DEF IsNode
<1>2. ASSUME NEW n \in Nat, n \in P PROVE n + 1 \in P
    <2>0. n + 1 \in Nat \ {0} OBVIOUS
    <2>1. SUFFICES ASSUME NEW x \in level[(n + 1) + 1] PROVE IsNode(x, (n + 1) + 1) OBVIOUS
    <2>2. x \in NodesBelow(src, level[n + 1]) BY <2>0, <2>1 DEF Unfolding
    <2>3. PICK y \in level[n + 1] : \E k : \E a : x = [path |-> Append(y.path, k), at |-> a]
        BY <2>2, BelowNode
    <2>4. PICK k, a : x = [path |-> Append(y.path, k), at |-> a] BY <2>3
    <2>5. IsNode(y, n + 1) BY <1>2
    <2>6. PICK K : y.path \in Seq(K) /\ Len(y.path) = n + 1 BY <2>5 DEF IsNode
    <2>7. y.path \in Seq(K \cup {k}) /\ k \in K \cup {k} BY <2>6
    <2>8. Append(y.path, k) \in Seq(K \cup {k}) /\ Len(Append(y.path, k)) = (n + 1) + 1
        BY <2>6, <2>7
    <2> QED BY <2>4, <2>8 DEF IsNode
<1>3. Nat \subseteq P
    <2> HIDE DEF P
    <2> QED BY <1>1, <1>2, Inductive
<1>4. ASSUME NEW n \in Nat \ {0} PROVE Good(n)
    <2>1. n - 1 \in Nat /\ (n - 1) + 1 = n OBVIOUS
    <2>2. Good((n - 1) + 1) BY <1>3, <2>1
    <2> QED BY <2>1, <2>2
<1> QED BY <1>4

\* A path leads to one node.
LEMMA NodesUnique ==
    ASSUME NEW src, NEW tops, NEW level, Unfolding(src, tops, level)
    PROVE  \A n \in Nat \ {0} : \A x, y \in level[n] : x.path = y.path => x = y
<1> DEFINE Good(n) == \A x, y \in level[n] : x.path = y.path => x = y
           P == {n \in Nat : Good(n + 1)}
<1>1. 0 \in P
    <2>1. SUFFICES ASSUME NEW x \in level[1], NEW y \in level[1], x.path = y.path PROVE x = y
        OBVIOUS
    <2>2. PICK t \in tops : x = [path |-> <<t>>, at |-> [kind |-> "inst", of |-> t, ports |-> <<>>]]
        BY <2>1 DEF Unfolding, TopNodes
    <2>3. PICK u \in tops : y = [path |-> <<u>>, at |-> [kind |-> "inst", of |-> u, ports |-> <<>>]]
        BY <2>1 DEF Unfolding, TopNodes
    <2>4. t = u BY <2>1, <2>2, <2>3
    <2> QED BY <2>2, <2>3, <2>4
<1>2. ASSUME NEW n \in Nat, n \in P PROVE n + 1 \in P
    <2>0. n + 1 \in Nat \ {0} OBVIOUS
    <2>1. SUFFICES ASSUME NEW x \in level[(n + 1) + 1], NEW y \in level[(n + 1) + 1], x.path = y.path
                   PROVE  x = y
        OBVIOUS
    <2>2. x \in NodesBelow(src, level[n + 1]) /\ y \in NodesBelow(src, level[n + 1])
        BY <2>0, <2>1 DEF Unfolding
    <2>3. PICK v \in level[n + 1] : \E k \in DOMAIN Unfolds(src, v.at) :
                x = [path |-> Append(v.path, k), at |-> Unfolds(src, v.at)[k]]
        BY <2>2, BelowNode
    <2>4. PICK k : x = [path |-> Append(v.path, k), at |-> Unfolds(src, v.at)[k]] BY <2>3
    <2>5. PICK w \in level[n + 1] : \E j \in DOMAIN Unfolds(src, w.at) :
                y = [path |-> Append(w.path, j), at |-> Unfolds(src, w.at)[j]]
        BY <2>2, BelowNode
    <2>6. PICK j : y = [path |-> Append(w.path, j), at |-> Unfolds(src, w.at)[j]] BY <2>5
    <2>7. IsNode(v, n + 1) /\ IsNode(w, n + 1) BY <2>0, NodePaths
    <2>8. Append(v.path, k) = Append(w.path, j) BY <2>1, <2>4, <2>6
    <2>9. v.path = w.path /\ k = j
        <3>1. PICK K : v.path \in Seq(K) BY <2>7 DEF IsNode
        <3>2. PICK J : w.path \in Seq(J) BY <2>7 DEF IsNode
        <3>3. Last(Append(v.path, k)) = k /\ Parent(Append(v.path, k)) = v.path BY <3>1, Grown
        <3>4. Last(Append(w.path, j)) = j /\ Parent(Append(w.path, j)) = w.path BY <3>2, Grown
        <3> QED BY <2>8, <3>3, <3>4
    <2>10. v = w BY <1>2, <2>9
    <2> QED BY <2>4, <2>6, <2>9, <2>10
<1>3. Nat \subseteq P
    <2> HIDE DEF P
    <2> QED BY <1>1, <1>2, Inductive
<1>4. ASSUME NEW n \in Nat \ {0} PROVE Good(n)
    <2>1. n - 1 \in Nat /\ (n - 1) + 1 = n OBVIOUS
    <2>2. Good((n - 1) + 1) BY <1>3, <2>1
    <2> QED BY <2>1, <2>2
<1> QED BY <1>4

\* What is around a node is a node.
LEMMA NodesAbove ==
    ASSUME NEW src, NEW tops, NEW level, Unfolding(src, tops, level)
    PROVE  \A n \in Nat \ {0} : \A x \in level[n] : \A i \in 1..n :
                \E y \in level[i] : y.path = SubSeq(x.path, 1, i)
<1> DEFINE Above(x, i) == \E y \in level[i] : y.path = SubSeq(x.path, 1, i)
           Good(n) == \A x \in level[n] : \A i \in 1..n : Above(x, i)
           P == {n \in Nat : Good(n + 1)}
<1>0. ASSUME NEW n \in Nat \ {0}, NEW x \in level[n] PROVE Above(x, n)
    <2>1. IsNode(x, n) BY NodePaths
    <2>2. PICK K : x.path \in Seq(K) /\ Len(x.path) = n BY <2>1 DEF IsNode
    <2>3. SubSeq(x.path, 1, n) = x.path BY <2>2
    <2> QED BY <2>3
<1>1. 0 \in P
    <2>1. ASSUME NEW x \in level[1], NEW i \in 1..1 PROVE Above(x, i)
        <3>1. i = 1 /\ 1 \in Nat \ {0} OBVIOUS
        <3> HIDE DEF Above
        <3> QED BY <3>1, <1>0
    <2> HIDE DEF Above
    <2> QED BY <2>1
<1>2. ASSUME NEW n \in Nat, n \in P PROVE n + 1 \in P
    <2>0. n + 1 \in Nat \ {0} /\ (n + 1) + 1 \in Nat \ {0} OBVIOUS
    <2>1. ASSUME NEW x \in level[(n + 1) + 1], NEW i \in 1..((n + 1) + 1) PROVE Above(x, i)
        <3>1. CASE i = (n + 1) + 1
            <4> HIDE DEF Above
            <4> QED BY <2>0, <3>1, <1>0
        <3>2. CASE i \in 1..(n + 1)
            <4>1. x \in NodesBelow(src, level[n + 1]) BY <2>0 DEF Unfolding
            <4>2. PICK v \in level[n + 1] : \E k : \E a : x = [path |-> Append(v.path, k), at |-> a]
                BY <4>1, BelowNode
            <4>3. PICK k, a : x = [path |-> Append(v.path, k), at |-> a] BY <4>2
            <4>4. IsNode(v, n + 1) BY <2>0, NodePaths
            <4>5. PICK K : v.path \in Seq(K) /\ Len(v.path) = n + 1 BY <4>4 DEF IsNode
            <4>6. v.path \in Seq(K \cup {k}) /\ k \in K \cup {k} BY <4>5
            <4>7. SubSeq(Append(v.path, k), 1, i) = SubSeq(v.path, 1, i) BY <3>2, <4>5, <4>6
            <4>8. Above(v, i)
                <5> HIDE DEF Above
                <5> QED BY <1>2, <3>2
            <4> QED BY <4>3, <4>7, <4>8
        <3> QED BY <3>1, <3>2
    <2>2. n + 1 \in Nat OBVIOUS
    <2> HIDE DEF Above
    <2> QED BY <2>1, <2>2
<1>3. Nat \subseteq P
    <2> HIDE DEF P
    <2> QED BY <1>1, <1>2, Inductive
<1>4. ASSUME NEW n \in Nat \ {0} PROVE Good(n)
    <2>1. n - 1 \in Nat /\ (n - 1) + 1 = n OBVIOUS
    <2>2. Good((n - 1) + 1) BY <1>3, <2>1
    <2> QED BY <2>1, <2>2
<1> QED BY <1>4

\* A design is a tree: it holds what is around each of its symbols, only declared modules
\* have instances, and what a symbol unfolds to is below it.
Tree(src, d) ==
    /\ \A p \in DOMAIN d : Len(p) \in 1..Depth /\ \E K : p \in Seq(K)
    /\ \A p \in DOMAIN d : \A i \in 1..Len(p) : SubSeq(p, 1, i) \in DOMAIN d
    /\ \A p \in DOMAIN d : Known(src, d[p])
    /\ \A p \in DOMAIN d : \A k \in DOMAIN Unfolds(src, d[p]) :
        Len(p) < Depth /\ Known(src, Unfolds(src, d[p])[k]) =>
            Append(p, k) \in DOMAIN d /\ d[Append(p, k)] = Unfolds(src, d[p])[k]

\* It holds nothing else: its roots are instances, and every other symbol is what the one
\* around it unfolds to.
Rooted(src, d) ==
    \A p \in DOMAIN d :
        /\ Len(p) = 1 => d[p] = [kind |-> "inst", of |-> p[1], ports |-> <<>>]
        /\ Len(p) > 1 => LET at == d[SubSeq(p, 1, Len(p) - 1)]
                             k == p[Len(p)]
                         IN  k \in DOMAIN Unfolds(src, at) /\ d[p] = Unfolds(src, at)[k]

\* Elaboration makes a tree.
LEMMA ElaborateTree ==
    ASSUME NEW src, NEW tops, \A t \in tops : src[t] # None
    PROVE  Tree(src, Elaborate(src, tops)) /\ Rooted(src, Elaborate(src, tops))
<1>1. PICK level : Unfolding(src, tops, level) /\ Elaborate(src, tops) = Holding(Nodes(level))
    BY Elaboration
<1> DEFINE d == Holding(Nodes(level))
<1>2. Depth \in Nat BY DesignAssumption
<1>3. ASSUME NEW n \in 1..Depth, NEW x \in level[n]
      PROVE  IsNode(x, n) /\ x \in Nodes(level) /\ x.path \in DOMAIN d /\ d[x.path] = x.at
    <2>1. n \in Nat \ {0} BY <1>2
    <2>2. IsNode(x, n) BY <1>1, <2>1, NodePaths
    <2>3. x \in Nodes(level) BY DEF Nodes
    <2>4. x.path \in DOMAIN d BY <2>3 DEF Holding
    <2>5. ASSUME NEW y \in Nodes(level), y.path = x.path PROVE y = x
        <3>1. PICK i \in 1..Depth : y \in level[i] BY DEF Nodes
        <3>2. i \in Nat \ {0} BY <1>2
        <3>3. IsNode(y, i) BY <1>1, <3>1, <3>2, NodePaths
        <3>4. i = n BY <2>2, <2>5, <3>3 DEF IsNode
        <3> QED BY <1>1, <2>1, <2>5, <3>1, <3>4, NodesUnique
    <2>6. (CHOOSE y \in Nodes(level) : y.path = x.path) = x BY <2>3, <2>5
    <2>7. d[x.path] = (CHOOSE y \in Nodes(level) : y.path = x.path).at BY <2>4 DEF Holding
    <2> QED BY <2>2, <2>3, <2>4, <2>6, <2>7
<1>4. ASSUME NEW p \in DOMAIN d
      PROVE  \E n \in 1..Depth : \E x \in level[n] : x.path = p
    <2>1. PICK x \in Nodes(level) : x.path = p BY DEF Holding
    <2>2. PICK n \in 1..Depth : x \in level[n] BY DEF Nodes
    <2> QED BY <2>1, <2>2
<1> HIDE DEF d
<1>5. ASSUME NEW p \in DOMAIN d
      PROVE  /\ Len(p) \in 1..Depth /\ \E K : p \in Seq(K)
             /\ \A i \in 1..Len(p) : SubSeq(p, 1, i) \in DOMAIN d
             /\ Known(src, d[p])
             /\ \A k \in DOMAIN Unfolds(src, d[p]) :
                    Len(p) < Depth /\ Known(src, Unfolds(src, d[p])[k]) =>
                        Append(p, k) \in DOMAIN d /\ d[Append(p, k)] = Unfolds(src, d[p])[k]
    <2>1. PICK n \in 1..Depth : \E x \in level[n] : x.path = p BY <1>4
    <2>2. PICK x \in level[n] : x.path = p BY <2>1
    <2>3. IsNode(x, n) /\ d[p] = x.at BY <1>3, <2>2
    <2>4. Len(p) = n /\ \E K : p \in Seq(K) BY <2>2, <2>3 DEF IsNode
    <2>5. n \in Nat \ {0} BY <1>2
    <2>6. ASSUME NEW i \in 1..n PROVE SubSeq(p, 1, i) \in DOMAIN d
        <3>1. PICK y \in level[i] : y.path = SubSeq(x.path, 1, i)
            BY <1>1, <2>5, NodesAbove
        <3>2. i \in 1..Depth BY <1>2
        <3> QED BY <1>3, <2>2, <3>1, <3>2
    <2>7. Known(src, x.at)
        <3>1. CASE n = 1
            <4>1. PICK t \in tops : x = [path |-> <<t>>, at |-> [kind |-> "inst", of |-> t, ports |-> <<>>]]
                BY <3>1, <1>1 DEF Unfolding, TopNodes
            <4>2. x.at.of = t BY <4>1
            <4> QED BY <4>2 DEF Known
        <3>2. CASE n # 1
            <4>1. n - 1 \in Nat \ {0} /\ (n - 1) + 1 = n BY <2>5, <3>2
            <4>2. level[(n - 1) + 1] = NodesBelow(src, level[n - 1]) BY <1>1, <4>1 DEF Unfolding
            <4>3. x \in NodesBelow(src, level[n - 1]) BY <4>1, <4>2
            <4> QED BY <4>3, BelowNode
        <3> QED BY <3>1, <3>2
    <2>8. ASSUME NEW k \in DOMAIN Unfolds(src, x.at), n < Depth, Known(src, Unfolds(src, x.at)[k])
          PROVE  Append(p, k) \in DOMAIN d /\ d[Append(p, k)] = Unfolds(src, x.at)[k]
        <3>1. PICK y : y = [path |-> Append(x.path, k), at |-> Unfolds(src, x.at)[k]] OBVIOUS
        <3>2. y.path = Append(p, k) /\ y.at = Unfolds(src, x.at)[k] BY <2>2, <3>1
        <3>3. y \in NodesBelow(src, level[n]) BY <2>8, <3>1, <3>2, BelowNode
        <3>4. y \in level[n + 1] BY <1>1, <2>5, <3>3 DEF Unfolding
        <3>5. n + 1 \in 1..Depth BY <1>2, <2>8
        <3> QED BY <1>3, <3>2, <3>4, <3>5
    <2> QED BY <2>3, <2>4, <2>6, <2>7, <2>8
<1>6. Tree(src, d) BY <1>5 DEF Tree
<1>7. ASSUME NEW p \in DOMAIN d
      PROVE  /\ Len(p) = 1 => d[p] = [kind |-> "inst", of |-> p[1], ports |-> <<>>]
             /\ Len(p) > 1 => LET at == d[SubSeq(p, 1, Len(p) - 1)]
                                  k == p[Len(p)]
                              IN  k \in DOMAIN Unfolds(src, at) /\ d[p] = Unfolds(src, at)[k]
    <2>1. PICK n \in 1..Depth : \E x \in level[n] : x.path = p BY <1>4
    <2>2. PICK x \in level[n] : x.path = p BY <2>1
    <2>3. IsNode(x, n) /\ d[p] = x.at BY <1>3, <2>2
    <2>4. Len(p) = n /\ n \in Nat \ {0} BY <1>2, <2>2, <2>3 DEF IsNode
    <2>5. CASE n = 1
        <3>1. PICK t \in tops : x = [path |-> <<t>>, at |-> [kind |-> "inst", of |-> t, ports |-> <<>>]]
            BY <2>5, <1>1 DEF Unfolding, TopNodes
        <3>2. p = <<t>> /\ x.at = [kind |-> "inst", of |-> t, ports |-> <<>>] BY <2>2, <3>1
        <3> QED BY <2>3, <2>4, <2>5, <3>2
    <2>6. CASE n # 1
        <3>1. n - 1 \in Nat \ {0} /\ (n - 1) + 1 = n /\ n - 1 \in 1..Depth BY <1>2, <2>4, <2>6
        <3>2. level[(n - 1) + 1] = NodesBelow(src, level[n - 1]) BY <1>1, <3>1 DEF Unfolding
        <3>3. PICK y \in level[n - 1] : \E k \in DOMAIN Unfolds(src, y.at) :
                    x = [path |-> Append(y.path, k), at |-> Unfolds(src, y.at)[k]]
            BY <3>1, <3>2, BelowNode
        <3>4. PICK k \in DOMAIN Unfolds(src, y.at) :
                    x = [path |-> Append(y.path, k), at |-> Unfolds(src, y.at)[k]]
            BY <3>3
        <3>5. IsNode(y, n - 1) /\ d[y.path] = y.at BY <1>3, <3>1
        <3>6. PICK K : y.path \in Seq(K) /\ Len(y.path) = n - 1 BY <3>5 DEF IsNode
        <3>7. p = Append(y.path, k) /\ x.at = Unfolds(src, y.at)[k] BY <2>2, <3>4
        <3>8. y.path \in Seq(K \cup {k}) /\ k \in K \cup {k} BY <3>6
        <3>9. SubSeq(p, 1, n - 1) = y.path /\ p[n] = k BY <3>1, <3>6, <3>7, <3>8
        <3> QED BY <2>3, <2>4, <2>6, <3>5, <3>7, <3>9
    <2> QED BY <2>5, <2>6
<1>8. Rooted(src, d) BY <1>7 DEF Rooted
<1> QED BY <1>1, <1>6, <1>8 DEF d

-----------------------------------------------------------------------------
(* Active instances.                                                       *)

\* A bounded set of numbers has a greatest.
LEMMA BoundedMax ==
    ASSUME NEW N \in Nat, NEW S, S \subseteq 0..N, S # {}
    PROVE  \E x \in S : \A y \in S : y <= x
<1> DEFINE P == {k \in Nat : \A T : T \subseteq 0..k /\ T # {} => \E x \in T : \A y \in T : y <= x}
<1>1. 0 \in P OBVIOUS
<1>2. ASSUME NEW k \in Nat, k \in P PROVE k + 1 \in P
    <2>1. SUFFICES ASSUME NEW T, T \subseteq 0..(k + 1), T # {}
                   PROVE  \E x \in T : \A y \in T : y <= x
        OBVIOUS
    <2>2. CASE k + 1 \in T
        <3>1. \A y \in T : y <= k + 1 BY <2>1
        <3> QED BY <2>2, <3>1
    <2>3. CASE k + 1 \notin T
        <3>1. T \subseteq 0..k BY <2>1, <2>3
        <3> QED BY <1>2, <2>1, <3>1
    <2> QED BY <2>2, <2>3
<1>3. Nat \subseteq P
    <2> HIDE DEF P
    <2> QED BY <1>1, <1>2, Inductive
<1> QED BY <1>3

\* The last of a set of ranked names is one of them.
LEMMA LastAmong ==
    ASSUME NEW names, names \subseteq DOMAIN Rank, names # {}
    PROVE  LastOf(names) \in names
<1> DEFINE N == Cardinality(DOMAIN Rank)
           S == {Rank[a] : a \in names}
<1>1. N \in Nat BY DesignAssumption, FS_CardinalityType
<1>2. S \subseteq 0..N /\ S # {} BY DesignAssumption
<1>3. \E x \in S : \A y \in S : y <= x
    <2> HIDE DEF S, N
    <2> QED BY <1>1, <1>2, BoundedMax
<1>4. \E a \in names : \A b \in names : Rank[b] <= Rank[a] BY <1>3
<1> QED BY <1>4 DEF LastOf

\* The instance around a symbol is an instance of the design, the innermost around it.
LEMMA Enclosing ==
    ASSUME NEW src, NEW d, Tree(src, d), NEW p \in DOMAIN d,
           \/ getEnclosingInstance(d, p) # <<>>
           \/ \E q \in Around(p) \ {p} : d[q].kind = "inst"
    PROVE  LET inst == getEnclosingInstance(d, p) IN
           /\ inst # <<>> /\ inst \in DOMAIN d /\ inst \in Around(p) /\ d[inst].kind = "inst"
           /\ \A q \in Around(p) \ {p} : d[q].kind = "inst" => Len(q) <= Len(inst)
<1> DEFINE around == {q \in Around(p) \ {p} : d[q].kind = "inst"}
           S == {Len(q) : q \in around}
<1>1. getEnclosingInstance(d, p) =
          IF around = {} THEN <<>> ELSE CHOOSE q \in around : \A r \in around : Len(r) <= Len(q)
    BY DEF getEnclosingInstance
<1>2. Len(p) \in Nat BY DesignAssumption DEF Tree
<1>3. ASSUME NEW q \in around PROVE q \in DOMAIN d /\ Len(q) \in 0..Len(p) /\ q # <<>>
    <2>1. PICK K : p \in Seq(K) BY DEF Tree
    <2>2. PICK i \in 1..Len(p) : q = SubSeq(p, 1, i) BY DEF Around
    <2>3. Len(q) = i BY <2>1, <2>2
    <2>4. q \in DOMAIN d BY <2>2 DEF Tree
    <2>5. q # <<>> BY <2>3, <2>4
    <2> QED BY <1>2, <2>3, <2>4, <2>5
<1>4. around # {} BY <1>1
<1>5. \A q \in around : d[q].kind = "inst" /\ q \in Around(p) OBVIOUS
<1>9. \A q \in Around(p) \ {p} : d[q].kind = "inst" => q \in around OBVIOUS
<1> HIDE DEF around
<1>6. \E x \in S : \A y \in S : y <= x
    <2>1. S \subseteq 0..Len(p) /\ S # {} BY <1>3, <1>4
    <2> HIDE DEF S
    <2> QED BY <1>2, <2>1, BoundedMax
<1>7. \E q \in around : \A r \in around : Len(r) <= Len(q) BY <1>6
<1>8. /\ getEnclosingInstance(d, p) \in around
      /\ \A r \in around : Len(r) <= Len(getEnclosingInstance(d, p))
    BY <1>1, <1>4, <1>7
<1> QED BY <1>3, <1>5, <1>8, <1>9

\* ElaborationAssumption of one design, and the selections that ActiveExists allows in it.
Fits(src, d) ==
    \A p \in DOMAIN d :
        /\ p # None
        /\ Len(p) = Depth => DOMAIN Unfolds(src, d[p]) = {}
        /\ d[p].kind \in {"inst", "iteration"} =>
            \A k \in DOMAIN Unfolds(src, d[p]) :
                k \notin Indices /\ Unfolds(src, d[p])[k].kind # "iteration"
        /\ d[p].kind \in {"inst", "array"} => d[p].of \in Modules
        /\ d[p].kind = "inst" => DOMAIN d[p].ports \subseteq DOMAIN Rank
        /\ d[p].kind = "array" => d[p].range \subseteq DOMAIN Rank
Selections(d) ==
    {act \in [Modules -> DOMAIN d \cup {None}] :
        \A m \in Modules : LET P == InstancesOf(d, m) IN
            act[m] \in P \cup {None} /\ (Cardinality(P) = 1 => act[m] \in P)}

\* Selecting an instance of the design keeps the selections right.
LEMMA Selects ==
    ASSUME NEW d, NEW act \in Selections(d), NEW p \in DOMAIN d, d[p].kind = "inst"
    PROVE  [act EXCEPT ![d[p].of] = p] \in Selections(d)
<1>1. p \in InstancesOf(d, d[p].of) BY DEF InstancesOf
<1>2. act \in [Modules -> DOMAIN d \cup {None}] BY DEF Selections
<1>3. [act EXCEPT ![d[p].of] = p] \in [Modules -> DOMAIN d \cup {None}] BY <1>2
<1> QED BY <1>1, <1>2, <1>3 DEF Selections

\* What a connection selects is an instance of the design, of an array too.
LEMMA SelectsConnected ==
    ASSUME NEW src, NEW d, Tree(src, d), Fits(src, d), NEW sym \in DOMAIN d \cup {None},
           setConnectedInterface(d, sym) # None
    PROVE  /\ setConnectedInterface(d, sym) \in DOMAIN d
           /\ d[setConnectedInterface(d, sym)].kind = "inst"
<1> DEFINE end == EndpointOf(d, sym)
<1>1. sym \in DOMAIN d /\ setConnectedInterface(d, sym) = setActiveInterfaceInstance(d, end)
    BY DEF setConnectedInterface
<1>2. end \in DOMAIN d \cup {None}
    <2>1. Len(sym) \in Nat BY <1>1, DesignAssumption DEF Tree
    <2> QED BY <1>1, <2>1, Endpoints DEF EndpointOf
<1> HIDE DEF end
<1>3. end # None /\ end \in DOMAIN d BY <1>1, <1>2 DEF setActiveInterfaceInstance
<1>4. CASE d[end].kind = "inst"
    BY <1>1, <1>3, <1>4 DEF setActiveInterfaceInstance
<1>5. CASE d[end].kind # "inst"
    <2>1. d[end].kind = "array" /\ d[end].range # {}
        BY <1>1, <1>3, <1>5 DEF setActiveInterfaceInstance
    <2> DEFINE i == LastOf(d[end].range)
    <2>2. i \in d[end].range BY <1>3, <2>1, LastAmong DEF Fits
    <2>3. setConnectedInterface(d, sym) = Append(end, i)
        BY <1>1, <1>3, <2>1 DEF setActiveInterfaceInstance
    <2> HIDE DEF i
    <2>4. Unfolds(src, d[end]) =
            [j \in d[end].range |-> [kind |-> "inst", of |-> d[end].of, ports |-> d[end].ports]]
        BY <2>1 DEF Unfolds
    <2>5. i \in DOMAIN Unfolds(src, d[end])
          /\ Unfolds(src, d[end])[i] = [kind |-> "inst", of |-> d[end].of, ports |-> d[end].ports]
        BY <2>2, <2>4
    <2>6. Len(end) \in 1..Depth /\ Len(end) # Depth BY <1>3, <2>5 DEF Tree, Fits
    <2>7. Len(end) < Depth BY <2>6, DesignAssumption
    <2>8. Known(src, Unfolds(src, d[end])[i])
        <3>1. Known(src, d[end]) BY <1>3 DEF Tree
        <3>2. src[d[end].of] # None BY <2>1, <3>1 DEF Known
        <3> QED BY <2>5, <3>2 DEF Known
    <2>9. Append(end, i) \in DOMAIN d /\ d[Append(end, i)] = Unfolds(src, d[end])[i]
        BY <1>3, <2>5, <2>7, <2>8 DEF Tree
    <2> QED BY <2>3, <2>5, <2>9
<1> QED BY <1>4, <1>5

\* setConnectedInterfaceInstances keeps the selections right and changes only those of the
\* modules that the ports are connected to.
Connects(d, inst, m) ==
    \E n \in DOMAIN d[inst].ports :
        LET c == setConnectedInterface(d, ConnectionOf(d, inst, n)) IN c # None /\ d[c].of = m
LEMMA SelectsConnections ==
    ASSUME NEW src, NEW d, Tree(src, d), Fits(src, d), NEW act \in Selections(d),
           NEW inst \in DOMAIN d, d[inst].kind = "inst"
    PROVE  /\ setConnectedInterfaceInstances(act, d, inst) \in Selections(d)
           /\ \A m \in Modules : ~Connects(d, inst, m) =>
                setConnectedInterfaceInstances(act, d, inst)[m] = act[m]
<1> DEFINE Selected(name) == setConnectedInterface(d, ConnectionOf(d, inst, name))
           To(m) == {name \in DOMAIN d[inst].ports : Selected(name) # None /\ d[Selected(name)].of = m}
           new == [m \in DOMAIN act |-> IF To(m) = {} THEN act[m] ELSE Selected(LastOf(To(m)))]
<1>1. setConnectedInterfaceInstances(act, d, inst) = new
    BY DEF setConnectedInterfaceInstances
<1>2. act \in [Modules -> DOMAIN d \cup {None}] BY DEF Selections
<1>3. ASSUME NEW m \in Modules, To(m) # {} PROVE Selected(LastOf(To(m))) \in InstancesOf(d, m)
    <2>1. To(m) \subseteq DOMAIN Rank BY DEF Fits
    <2> DEFINE name == LastOf(To(m))
    <2>2. name \in To(m)
        <3> HIDE DEF To
        <3> QED BY <1>3, <2>1, LastAmong
    <2> HIDE DEF name
    <2>3. Selected(name) # None /\ d[Selected(name)].of = m BY <2>2
    <2>4. ConnectionOf(d, inst, name) \in DOMAIN d \cup {None} BY ConnectionKnown
    <2>5. Selected(name) \in DOMAIN d /\ d[Selected(name)].kind = "inst"
        BY <2>3, <2>4, SelectsConnected
    <2> HIDE DEF Selected
    <2> QED BY <2>3, <2>5 DEF InstancesOf, name
<1>0. ASSUME NEW m \in Modules, ~Connects(d, inst, m) PROVE To(m) = {}
    BY <1>0 DEF Connects
<1> HIDE DEF To, Selected
<1>4. ASSUME NEW m \in Modules
      PROVE  new[m] = act[m] \/ new[m] \in InstancesOf(d, m)
    BY <1>2, <1>3
<1>5. new \in [Modules -> DOMAIN d \cup {None}]
    <2>1. \A m \in Modules : new[m] \in DOMAIN d \cup {None} BY <1>2, <1>4 DEF InstancesOf
    <2>2. new = [m \in Modules |-> new[m]] BY <1>2
    <2> HIDE DEF new
    <2> QED BY <2>1, <2>2
<1>6. \A m \in Modules : ~Connects(d, inst, m) => new[m] = act[m] BY <1>0, <1>2
<1> HIDE DEF new
<1> QED BY <1>1, <1>4, <1>5, <1>6 DEF Selections

\* setActiveInstanceChain keeps the selections right and selects every instance on the way
\* that nothing further in overrides: after k steps, nothing up to k.
Overrides(d, t, i, j) ==
    LET r == SubSeq(t, 1, j)
        m == d[SubSeq(t, 1, i)].of
    IN  d[r].kind = "inst" /\ (d[r].of = m \/ Connects(d, r, m))
Reached(d, t, k) ==
    {act \in Selections(d) :
        \A i \in 1..k : LET q == SubSeq(t, 1, i) IN
            d[q].kind = "inst" /\ (\A j \in (i + 1)..k : ~Overrides(d, t, i, j)) => act[d[q].of] = q}

LEMMA ReachesFurther ==
    ASSUME NEW src, NEW d, Tree(src, d), Fits(src, d), NEW t \in DOMAIN d, NEW k \in Nat, k < Len(t),
           NEW act \in Reached(d, t, k), NEW p, p = SubSeq(t, 1, k + 1)
    PROVE  (IF d[p].kind # "inst" THEN act
            ELSE [setConnectedInterfaceInstances(act, d, p) EXCEPT ![d[p].of] = p])
           \in Reached(d, t, k + 1)
<1>1. Len(t) \in Nat BY DesignAssumption DEF Tree
<1>2. k + 1 \in 1..Len(t) BY <1>1
<1>3. p \in DOMAIN d BY <1>2 DEF Tree
<1>4. act \in Selections(d) BY DEF Reached
<1> DEFINE Q(i) == SubSeq(t, 1, i)
<1>5. ASSUME NEW i \in 1..k, d[Q(i)].kind = "inst", \A j \in (i + 1)..(k + 1) : ~Overrides(d, t, i, j)
      PROVE  act[d[Q(i)].of] = Q(i) /\ ~Overrides(d, t, i, k + 1) /\ d[Q(i)].of \in Modules
    <2>1. k + 1 \in (i + 1)..(k + 1) OBVIOUS
    <2>2. \A j \in (i + 1)..k : j \in (i + 1)..(k + 1) OBVIOUS
    <2>3. act[d[Q(i)].of] = Q(i) BY <1>5, <2>2 DEF Reached
    <2>4. Q(i) \in DOMAIN d
        <3>1. i \in 1..Len(t) BY <1>1
        <3> QED BY <3>1 DEF Tree
    <2>5. d[Q(i)].of \in Modules BY <1>5, <2>4 DEF Fits
    <2> QED BY <1>5, <2>1, <2>3, <2>5
<1>6. CASE d[p].kind # "inst"
    <2>1. ASSUME NEW i \in 1..(k + 1), d[Q(i)].kind = "inst",
                 \A j \in (i + 1)..(k + 1) : ~Overrides(d, t, i, j)
          PROVE  act[d[Q(i)].of] = Q(i)
        <3>1. i # k + 1 BY <1>6, <2>1
        <3>2. i \in 1..k BY <3>1
        <3> QED BY <1>5, <2>1, <3>2
    <2>2. act \in Reached(d, t, k + 1) BY <1>4, <2>1 DEF Reached
    <2> QED BY <1>6, <2>2
<1>7. CASE d[p].kind = "inst"
    <2> DEFINE mid == setConnectedInterfaceInstances(act, d, p)
               new == [mid EXCEPT ![d[p].of] = p]
    <2>1. mid \in Selections(d) /\ \A m \in Modules : ~Connects(d, p, m) => mid[m] = act[m]
        BY <1>3, <1>4, <1>7, SelectsConnections
    <2> HIDE DEF mid
    <2>2. new \in Selections(d) BY <1>3, <1>7, <2>1, Selects
    <2>3. d[p].of \in Modules BY <1>3, <1>7 DEF Fits
    <2>4. mid \in [Modules -> DOMAIN d \cup {None}] BY <2>1 DEF Selections
    <2>5. ASSUME NEW i \in 1..(k + 1), d[Q(i)].kind = "inst",
                 \A j \in (i + 1)..(k + 1) : ~Overrides(d, t, i, j)
          PROVE  new[d[Q(i)].of] = Q(i)
        <3>1. CASE i = k + 1 BY <2>3, <2>4, <3>1
        <3>2. CASE i # k + 1
            <4>1. i \in 1..k BY <3>2
            <4>2. act[d[Q(i)].of] = Q(i) /\ ~Overrides(d, t, i, k + 1) /\ d[Q(i)].of \in Modules
                BY <1>5, <2>5, <4>1
            <4>3. d[p].of # d[Q(i)].of /\ ~Connects(d, p, d[Q(i)].of)
                BY <1>7, <4>2 DEF Overrides
            <4>4. mid[d[Q(i)].of] = Q(i) BY <2>1, <4>2, <4>3
            <4> QED BY <2>4, <4>2, <4>3, <4>4
        <3> QED BY <3>1, <3>2
    <2> HIDE DEF new
    <2>6. new \in Reached(d, t, k + 1) BY <2>2, <2>5 DEF Reached
    <2> QED BY <1>7, <2>6 DEF new, mid
<1> QED BY <1>6, <1>7

LEMMA SelectsChain ==
    ASSUME NEW src, NEW d, Tree(src, d), Fits(src, d), NEW act \in Selections(d),
           NEW target \in DOMAIN d
    PROVE  setActiveInstanceChain(act, d, target) \in Reached(d, target, Len(target))
<1> DEFINE N == Len(target)
           A == Selections(d)
           Set(a, n) == LET p == SubSeq(target, 1, n) IN
                        IF d[p].kind # "inst" THEN a
                        ELSE [setConnectedInterfaceInstances(a, d, p) EXCEPT ![d[p].of] = p]
           seq == [n \in 1..N |-> n]
           Def(f) == [s \in SUBSET DOMAIN seq |->
                        IF s = {} THEN act ELSE Set(f[s \ {Max(s)}], seq[Max(s)])]
           iter == CHOOSE f : f = Def(f)
           step == [n \in 1..N |-> [a \in A |-> Set(a, n)]]
<1>1. setActiveInstanceChain(act, d, target) = iter[DOMAIN seq]
    BY DEF setActiveInstanceChain, FoldLeft, MapThenFoldSet
<1>2. N \in Nat BY DesignAssumption DEF Tree
<1>3. ASSUME NEW a \in A, NEW n \in 1..N PROVE Set(a, n) \in A
    <2> DEFINE p == SubSeq(target, 1, n)
    <2>1. p \in DOMAIN d BY DEF Tree
    <2> HIDE DEF p
    <2>2. CASE d[p].kind # "inst" BY <2>2 DEF p
    <2>3. CASE d[p].kind = "inst"
        <3>1. setConnectedInterfaceInstances(a, d, p) \in A BY <2>1, <2>3, SelectsConnections
        <3>2. [setConnectedInterfaceInstances(a, d, p) EXCEPT ![d[p].of] = p] \in A
            BY <2>1, <2>3, <3>1, Selects
        <3> QED BY <2>3, <3>2 DEF p
    <2> QED BY <2>2, <2>3
<1> HIDE DEF A, Set, N
<1>4. DOMAIN seq = 1..N /\ \A n \in 1..N : seq[n] = n OBVIOUS
<1>5. ASSUME NEW s \in SUBSET (1..N), s # {} PROVE Max(s) \in 1..N
    <2>1. PICK x \in s : \A y \in s : y <= x
        <3>1. s \subseteq 0..N BY <1>2
        <3> QED BY <1>2, <1>5, <3>1, BoundedMax
    <2>2. \A y \in s : x >= y BY <1>2, <2>1
    <2> QED BY <2>2 DEF Max
<1>6. PICK f : f \in FoldsOver(N, A, act, step)
    <2>1. act \in A BY DEF A
    <2>2. step \in [1..N -> [A -> A]] BY <1>3
    <2> HIDE DEF step
    <2> QED BY <1>2, <2>1, <2>2, FoldExists
<1>7. f = Def(f)
    <2>1. f \in [SUBSET (1..N) -> A] /\ f[{}] = act BY <1>6 DEF FoldsOver
    <2>2. ASSUME NEW s \in SUBSET (1..N), s # {} PROVE f[s] = Set(f[s \ {Max(s)}], seq[Max(s)])
        <3>1. f[s] = step[Max(s)][f[s \ {Max(s)}]]
            <4> HIDE DEF step
            <4> QED BY <1>6, <2>2 DEF FoldsOver
        <3>2. Max(s) \in 1..N BY <1>5, <2>2
        <3>3. f[s \ {Max(s)}] \in A BY <2>1
        <3> QED BY <1>4, <3>1, <3>2, <3>3
    <2>3. ASSUME NEW s \in SUBSET (1..N) PROVE f[s] = Def(f)[s]
        <3> HIDE DEF seq
        <3>1. CASE s = {} BY <1>4, <2>1, <3>1
        <3>2. CASE s # {} BY <1>4, <2>2, <3>2
        <3> QED BY <3>1, <3>2
    <2>4. f = [s \in SUBSET (1..N) |-> f[s]] BY <2>1
    <2>5. Def(f) = [s \in SUBSET (1..N) |-> Def(f)[s]] BY <1>4
    <2> HIDE DEF Def
    <2> QED BY <2>3, <2>4, <2>5
<1> HIDE DEF seq
<1>8. iter = Def(iter)
    <2> HIDE DEF Def
    <2> QED BY <1>7
<1> HIDE DEF iter
<1> DEFINE B == [k \in Nat |-> Reached(d, target, k)]
<1>9. iter[{}] \in B[0]
    <2>1. {} \in SUBSET (1..N) OBVIOUS
    <2>2. Def(iter)[{}] = act BY <1>4, <2>1
    <2>3. iter[{}] = act
        <3> HIDE DEF Def
        <3> QED BY <1>8, <2>2
    <2>4. act \in Reached(d, target, 0)
        <3>1. \A i \in 1..0 : FALSE OBVIOUS
        <3> QED BY <3>1 DEF Reached
    <2> QED BY <2>3, <2>4
<1>10. ASSUME NEW k \in Nat, k < N, iter[1..k] \in B[k] PROVE iter[1..(k + 1)] \in B[k + 1]
    <2>1. PICK s : s = 1..(k + 1) OBVIOUS
    <2>2. s \in SUBSET (1..N) /\ s # {}
        <3>1. \A i \in s : i \in 1..N BY <1>2, <1>10, <2>1
        <3>2. k + 1 \in s BY <2>1
        <3> QED BY <3>1, <3>2
    <2>3. Max(s) = k + 1
        <3>1. k + 1 \in Nat /\ s \in SUBSET (1..(k + 1)) /\ k + 1 \in s BY <2>1
        <3> QED BY <3>1, Greatest
    <2>4. s \ {k + 1} = 1..k BY <2>1
    <2>5. Def(iter)[s] = Set(iter[s \ {Max(s)}], seq[Max(s)]) BY <1>4, <2>2
    <2>6. seq[k + 1] = k + 1 BY <1>4, <2>1, <2>2
    <2>7. iter[s] = Set(iter[1..k], k + 1)
        <3> HIDE DEF Def
        <3> QED BY <1>8, <2>3, <2>4, <2>5, <2>6
    <2>8. iter[1..k] \in Reached(d, target, k) BY <1>10
    <2> HIDE DEF Def
    <2>9. Set(iter[1..k], k + 1) \in Reached(d, target, k + 1)
        BY <1>10, <2>8, ReachesFurther DEF Set, N
    <2> QED BY <2>1, <2>7, <2>9
<1>11. iter[1..N] \in B[N]
    <2> HIDE DEF Def, B
    <2> QED BY <1>2, <1>9, <1>10, FoldReaches
<1> QED BY <1>1, <1>2, <1>4, <1>11 DEF N

\* So does the chain around any symbol of the design,
LEMMA SelectsAround ==
    ASSUME NEW src, NEW d, Tree(src, d), Fits(src, d), NEW act \in Selections(d), NEW p \in DOMAIN d
    PROVE  ChainAround(act, d, p) \in Selections(d)
<1>1. CASE d[p].kind = "inst"
    <2>1. ChainTo(act, d, p) \in Selections(d) BY SelectsChain DEF ChainTo, Reached
    <2> QED BY <1>1, <2>1 DEF ChainAround
<1>2. CASE d[p].kind # "inst"
    <2> DEFINE inst == getEnclosingInstance(d, p)
    <2>1. inst = <<>> \/ inst \in DOMAIN d BY Enclosing
    <2> HIDE DEF inst
    <2>2. ChainTo(act, d, inst) \in Selections(d) BY <2>1, SelectsChain DEF ChainTo, Reached
    <2> QED BY <1>2, <2>2 DEF ChainAround, inst
<1> QED BY <1>1, <1>2

\* and it selects every instance around the symbol that nothing further in overrides,
LEMMA AroundIsSelected ==
    ASSUME NEW src, NEW d, Tree(src, d), Fits(src, d), NEW act \in Selections(d), NEW p \in DOMAIN d,
           NEW q \in Around(p), d[q].kind = "inst", ~Overridden(d, p, q)
    PROVE  ChainAround(act, d, p)[d[q].of] = q
<1>1. PICK K : p \in Seq(K) BY DEF Tree
<1>2. PICK i \in 1..Len(p) : q = SubSeq(p, 1, i) BY DEF Around
<1>3. Len(p) \in Nat BY <1>1
<1>4. ASSUME NEW m \in i..Len(p), NEW t, t = SubSeq(p, 1, m), t \in DOMAIN d
      PROVE  setActiveInstanceChain(act, d, t)[d[q].of] = q
    <2>1. Len(t) = m /\ m \in Nat /\ i \in 1..m BY <1>1, <1>3, <1>4
    <2>2. \A j \in 1..m : SubSeq(t, 1, j) = SubSeq(p, 1, j) BY <1>1, <1>3, <1>4
    <2>3. ASSUME NEW j \in (i + 1)..m PROVE ~Overrides(d, t, i, j)
        <3> DEFINE r == SubSeq(p, 1, j)
        <3>1. j \in 1..Len(p) /\ j \in 1..m /\ j > i BY <1>3, <1>4, <2>1
        <3>2. r \in Around(p) BY <3>1 DEF Around
        <3>3. Len(r) = j /\ Len(q) = i /\ SubSeq(r, 1, i) = q BY <1>1, <1>2, <3>1
        <3>4. IsUnder(r, q) BY <3>1, <3>3 DEF IsUnder
        <3>5. SubSeq(t, 1, j) = r /\ SubSeq(t, 1, i) = q BY <1>2, <2>1, <2>2, <3>1
        <3> HIDE DEF r
        <3>6. ~(d[r].kind = "inst" /\ (d[r].of = d[q].of \/ Connects(d, r, d[q].of)))
            BY <3>2, <3>4 DEF Overridden, Connects
        <3> QED BY <3>5, <3>6 DEF Overrides
    <2>4. setActiveInstanceChain(act, d, t) \in Reached(d, t, m) BY <1>4, <2>1, SelectsChain
    <2>5. SubSeq(t, 1, i) = q BY <1>2, <2>1, <2>2
    <2> QED BY <2>1, <2>3, <2>4, <2>5 DEF Reached
<1>5. CASE d[p].kind = "inst"
    <2>1. p = SubSeq(p, 1, Len(p)) /\ Len(p) \in i..Len(p) BY <1>1, <1>3
    <2>2. setActiveInstanceChain(act, d, p)[d[q].of] = q BY <1>4, <2>1
    <2>3. p # <<>> BY <1>1, <1>2
    <2> QED BY <1>5, <2>2, <2>3 DEF ChainAround, ChainTo
<1>6. CASE d[p].kind # "inst"
    <2> DEFINE inst == getEnclosingInstance(d, p)
    <2>1. q \in Around(p) \ {p} BY <1>6
    <2>2. /\ inst # <<>> /\ inst \in DOMAIN d /\ inst \in Around(p) /\ d[inst].kind = "inst"
          /\ Len(q) <= Len(inst)
        BY <2>1, Enclosing
    <2> HIDE DEF inst
    <2>3. PICK m \in 1..Len(p) : inst = SubSeq(p, 1, m) BY <2>2 DEF Around
    <2>4. m \in i..Len(p) BY <1>1, <1>2, <1>3, <2>2, <2>3
    <2>5. setActiveInstanceChain(act, d, inst)[d[q].of] = q BY <1>4, <2>2, <2>3, <2>4
    <2> QED BY <1>6, <2>2, <2>5 DEF ChainAround, ChainTo, inst
<1> QED BY <1>5, <1>6

\* and the chains around the ports that a connection is forwarded through keep them right.
LEMMA SelectsForwarded ==
    ASSUME NEW src, NEW d, Tree(src, d), Fits(src, d), NEW act \in Selections(d),
           NEW way \in Seq(DOMAIN d)
    PROVE  ChainAroundPorts(act, d, way) \in Selections(d)
<1> DEFINE N == Len(way)
           A == Selections(d)
           Set(a, p) == ChainAroundPort(a, d, p)
           Def(f) == [s \in SUBSET DOMAIN way |->
                        IF s = {} THEN act ELSE Set(f[s \ {Max(s)}], way[Max(s)])]
           iter == CHOOSE f : f = Def(f)
           step == [n \in 1..N |-> [a \in A |-> Set(a, way[n])]]
<1>1. ChainAroundPorts(act, d, way) = iter[DOMAIN way]
    BY DEF ChainAroundPorts, FoldLeft, MapThenFoldSet
<1>2. N \in Nat OBVIOUS
<1>3. ASSUME NEW a \in A, NEW p \in DOMAIN d PROVE Set(a, p) \in A
    BY SelectsAround DEF ChainAroundPort
<1> HIDE DEF A, Set, N
<1>4. DOMAIN way = 1..N /\ \A n \in 1..N : way[n] \in DOMAIN d BY DEF N
<1>5. ASSUME NEW s \in SUBSET (1..N), s # {} PROVE Max(s) \in 1..N
    <2>1. PICK x \in s : \A y \in s : y <= x
        <3>1. s \subseteq 0..N BY <1>2
        <3> QED BY <1>2, <1>5, <3>1, BoundedMax
    <2>2. \A y \in s : x >= y BY <1>2, <2>1
    <2> QED BY <2>2 DEF Max
<1>6. PICK f : f \in FoldsOver(N, A, act, step)
    <2>1. act \in A BY DEF A
    <2>2. step \in [1..N -> [A -> A]] BY <1>3, <1>4
    <2> HIDE DEF step
    <2> QED BY <1>2, <2>1, <2>2, FoldExists
<1>7. f = Def(f)
    <2>1. f \in [SUBSET (1..N) -> A] /\ f[{}] = act BY <1>6 DEF FoldsOver
    <2>2. ASSUME NEW s \in SUBSET (1..N), s # {} PROVE f[s] = Set(f[s \ {Max(s)}], way[Max(s)])
        <3>1. f[s] = step[Max(s)][f[s \ {Max(s)}]]
            <4> HIDE DEF step
            <4> QED BY <1>6, <2>2 DEF FoldsOver
        <3>2. Max(s) \in 1..N BY <1>5, <2>2
        <3>3. f[s \ {Max(s)}] \in A BY <2>1
        <3> QED BY <1>4, <3>1, <3>2, <3>3
    <2>3. ASSUME NEW s \in SUBSET (1..N) PROVE f[s] = Def(f)[s]
        <3>1. CASE s = {} BY <1>4, <2>1, <3>1
        <3>2. CASE s # {} BY <1>4, <2>2, <3>2
        <3> QED BY <3>1, <3>2
    <2>4. f = [s \in SUBSET (1..N) |-> f[s]] BY <2>1
    <2>5. Def(f) = [s \in SUBSET (1..N) |-> Def(f)[s]] BY <1>4
    <2> HIDE DEF Def
    <2> QED BY <2>3, <2>4, <2>5
<1>8. iter = Def(iter)
    <2> HIDE DEF Def
    <2> QED BY <1>7
<1> HIDE DEF iter
<1>9. iter[{}] \in A
    <2>1. {} \in SUBSET (1..N) OBVIOUS
    <2>2. Def(iter)[{}] = act BY <1>4, <2>1
    <2> QED BY <1>8, <2>2 DEF A
<1>10. ASSUME NEW s \in SUBSET (1..N), s # {}, iter[s \ {Max(s)}] \in A PROVE iter[s] \in A
    <2>1. Def(iter)[s] = Set(iter[s \ {Max(s)}], way[Max(s)]) BY <1>4, <1>10
    <2>2. way[Max(s)] \in DOMAIN d BY <1>4, <1>5, <1>10
    <2>3. iter[s] = Set(iter[s \ {Max(s)}], way[Max(s)])
        <3> HIDE DEF Def
        <3> QED BY <1>8, <2>1, <2>2
    <2> QED BY <1>3, <1>10, <2>2, <2>3
<1>11. iter[1..N] \in A
    <2> HIDE DEF Def
    <2> QED BY <1>2, <1>9, <1>10, FoldStays
<1> QED BY <1>1, <1>4, <1>11 DEF A

\* The design of every text is a tree that fits.
LEMMA DesignTree ==
    ASSUME NEW src \in Sources
    PROVE  /\ Tree(src, Elaborated(src)) /\ Fits(src, Elaborated(src))
           /\ Rooted(src, Elaborated(src))
<1> DEFINE tops == IF Top = None THEN Roots(src) ELSE {Top} \cap Declared(src)
<1>0. \A t \in tops : src[t] # None BY DEF Roots, Declared
<1>1. Elaborated(src) = Elaborate(src, tops) BY DEF Elaborated
<1> HIDE DEF tops
<1>2. Tree(src, Elaborated(src)) /\ Rooted(src, Elaborated(src)) BY <1>0, <1>1, ElaborateTree
<1> QED BY <1>2, ElaborationAssumption DEF Fits

\* syncActiveInstances makes selections right, whatever they were.
LEMMA SyncSelects ==
    ASSUME NEW act, NEW d
    PROVE  syncActiveInstances(act, d) \in Selections(d)
<1> DEFINE new == syncActiveInstances(act, d)
<1>1. ASSUME NEW m \in Modules
      PROVE  LET P == InstancesOf(d, m)
             IN  new[m] \in P \cup {None} /\ (Cardinality(P) = 1 => new[m] \in P)
    <2> DEFINE P == InstancesOf(d, m)
    <2>1. Cardinality(P) = 1 => P # {} BY FS_EmptySet
    <2>2. new[m] = IF act[m] \in P THEN act[m]
                   ELSE IF Cardinality(P) = 1 THEN CHOOSE p \in P : TRUE ELSE None
        BY DEF syncActiveInstances
    <2> HIDE DEF P, new
    <2>3. new[m] \in P \cup {None} /\ (Cardinality(P) = 1 => new[m] \in P) BY <2>1, <2>2
    <2> QED BY <2>3 DEF P
<1>2. new = [m \in Modules |-> new[m]] BY DEF syncActiveInstances
<1> HIDE DEF new
<1>3. new \in [Modules -> DOMAIN d \cup {None}] BY <1>1, <1>2 DEF InstancesOf
<1>4. new \in Selections(d) BY <1>1, <1>3 DEF Selections
<1> QED BY <1>4 DEF new

\* The inductive invariant: the design is that of the texts it was built from and the
\* selections are right in it; analyses are those that would be made now.
Current ==
    /\ source \in Sources /\ built \in Sources /\ design = Elaborated(built)
    /\ activeByModule \in Selections(design)
Bound ==
    /\ halfSet \in BOOLEAN
    /\ \A d \in Docs : analyses[d] = None \/ halfSet \/ analyses[d] = createActiveDesignContext(d)

\* An analysis would be made the same unless what it is made from has changed.
LEMMA ContextKept ==
    ASSUME built' = built, design' = design, activeByModule' = activeByModule,
           NEW d, getDependentTrees(source', d) = getDependentTrees(source, d),
           \A m \in Modules : Doc[m] \in getDependentTrees(source, d) => source'[m] = source[m]
    PROVE  createActiveDesignContext(d)' = createActiveDesignContext(d)
<1>1. \A m : bindInstance(m)' = bindInstance(m)
    BY DEF bindInstance, getActiveInstanceSymbol, ActiveAmong
<1> DEFINE M == {m \in Declared(source) \ Packages : Doc[m] \in getDependentTrees(source, d)}
<1>2. M' = M BY DEF Declared
<1>3. createActiveDesignContext(d) = [design |-> built, bindings |-> [m \in M |-> bindInstance(m)]]
    BY DEF createActiveDesignContext
<1>4. createActiveDesignContext(d)' =
        [design |-> built', bindings |-> [m \in M' |-> bindInstance(m)']]
    BY DEF createActiveDesignContext
<1> HIDE DEF M
<1> QED BY <1>1, <1>2, <1>3, <1>4

\* The path of a symbol leads to it: nothing is below a port in the design.
LEMMA LookupOfSymbol ==
    ASSUME Current, NEW path \in DOMAIN design
    PROVE  lookupHierSymbol(design, path) = path
<1>1. Tree(built, design) /\ Fits(built, design) /\ Rooted(built, design) BY DesignTree DEF Current
<1>2. PICK K : path \in Seq(K) BY <1>1 DEF Tree
<1>3. Len(path) \in Nat BY <1>2
<1>9. PICK way : Leads(design, path, way) BY LookupSteps
<1>4. /\ lookupHierSymbol(design, path) = way[Len(path)] /\ way[0] = <<>>
      /\ \A n \in Nat : way[n + 1] = Inside(design, way[n], path[n + 1])
    BY <1>9 DEF Leads
<1> DEFINE P == {n \in Nat : n <= Len(path) => way[n] = SubSeq(path, 1, n)}
<1>5. 0 \in P
    <2>1. SubSeq(path, 1, 0) = <<>> BY <1>2
    <2> QED BY <1>4, <2>1
<1>6. ASSUME NEW n \in Nat, n \in P PROVE n + 1 \in P
    <2>1. SUFFICES ASSUME n + 1 <= Len(path) PROVE way[n + 1] = SubSeq(path, 1, n + 1) OBVIOUS
    <2>2. PICK sym, next, k : /\ sym = SubSeq(path, 1, n) /\ next = SubSeq(path, 1, n + 1)
                              /\ k = path[n + 1]
        OBVIOUS
    <2>3. n + 1 \in 1..Len(path) /\ n <= Len(path) BY <1>3, <2>1
    <2>4. way[n] = sym /\ way[n + 1] = Inside(design, sym, k) BY <1>4, <1>6, <2>2, <2>3
    <2>5. next = Append(sym, k) /\ Len(next) = n + 1 /\ next[n + 1] = k
          /\ sym = SubSeq(next, 1, n)
        BY <1>2, <2>2, <2>3
    <2>6. next \in DOMAIN design BY <1>1, <2>2, <2>3 DEF Tree
    <2>7. sym # None /\ ~IsPort(design, sym)
        <3>1. CASE n = 0
            <4>1. sym = <<>> BY <1>2, <2>2, <3>1
            <4> QED BY <4>1, DesignAssumption DEF IsPort
        <3>2. CASE n # 0
            <4>1. n \in 1..Len(path) BY <2>3, <3>2
            <4>2. sym \in DOMAIN design BY <1>1, <2>2, <4>1 DEF Tree
            <4>3. k \in DOMAIN Unfolds(built, design[sym])
                <5>1. Len(next) > 1 /\ Len(next) - 1 = n BY <2>5, <3>2
                <5>2. next[Len(next)] = k /\ SubSeq(next, 1, Len(next) - 1) = sym BY <2>5, <5>1
                <5> QED BY <1>1, <2>6, <5>1, <5>2 DEF Rooted
            <4>4. design[sym].kind # "port"
                <5>1. SUFFICES ASSUME design[sym].kind = "port" PROVE FALSE OBVIOUS
                <5>2. Unfolds(built, design[sym]) = <<>> BY <5>1 DEF Unfolds
                <5>3. DOMAIN <<>> = {} OBVIOUS
                <5> QED BY <4>3, <5>2, <5>3
            <4> QED BY <1>1, <4>2, <4>4 DEF Fits, IsPort
        <3> QED BY <3>1, <3>2
    <2>8. ScopeOf(design, sym) = sym /\ Offers(design, sym, k) BY <2>7 DEF ScopeOf, Offers
    <2>9. Inside(design, sym, k) = next BY <2>5, <2>6, <2>7, <2>8 DEF Inside, Member
    <2> HIDE DEF P
    <2> QED BY <2>2, <2>4, <2>9
<1>7. Nat \subseteq P
    <2> HIDE DEF P
    <2> QED BY <1>5, <1>6, Inductive
<1>8. SubSeq(path, 1, Len(path)) = path BY <1>2
<1>10. PICK n : n = Len(path) /\ n \in Nat BY <1>3
<1>11. n \in P
    <2> HIDE DEF P
    <2> QED BY <1>7, <1>10
<1>12. way[n] = SubSeq(path, 1, n) BY <1>10, <1>11
<1> QED BY <1>4, <1>8, <1>10, <1>12

\* setActiveInstance keeps the selections right, and drops the analyses or is refused; what it
\* activates is selected.
ShownAs(d, p, act) ==
    p # None =>
        /\ p \in DOMAIN d
        /\ \A q \in Around(p) : d[q].kind = "inst" /\ ~Overridden(d, p, q) => act[d[q].of] = q
LEMMA ActivateSelects ==
    ASSUME Current, NEW path \in DOMAIN design, setActiveInstance(path)
    PROVE  /\ activeByModule' \in Selections(design)
           /\ ShownAs(design, picked', activeByModule')
           /\ \/ halfSet' = TRUE
              \/ analyses' = NoAnalyses /\ halfSet' = FALSE
<1> DEFINE connection == IF design[path].kind = "port" THEN resolveInterfaceConnection(design, path)
                         ELSE [sourcePath |-> <<>>, resolvedEndpoint |-> path]
           target == connection.resolvedEndpoint
           way == <<path>> \o connection.sourcePath
           forwarded == ChainAroundPorts(activeByModule, design, way)
<1>1. lookupHierSymbol(design, path) = path BY LookupOfSymbol
<1>2. /\ activeByModule' = IF target = None THEN forwarded ELSE ChainAround(forwarded, design, target)
      /\ IF target = None THEN halfSet' = TRUE /\ picked' = None /\ UNCHANGED analyses
         ELSE invalidateAnalysesAndRefreshClient /\ picked' = target
    BY <1>1 DEF setActiveInstance, ActivateSymbol, Activate
<1>3. Tree(built, design) /\ Fits(built, design) BY DesignTree DEF Current
<1>4. connection.sourcePath \in Seq(DOMAIN design) /\ target \in DOMAIN design \cup {None}
    <2>1. CASE design[path].kind = "port"
        <3>1. Len(path) \in Nat BY <1>3, DesignAssumption DEF Tree
        <3> QED BY <2>1, <3>1, Endpoints
    <2>2. CASE design[path].kind # "port" BY <2>2
    <2> QED BY <2>1, <2>2
<1> HIDE DEF connection
<1>5. way \in Seq(DOMAIN design)
    <2>1. PICK D, s : D = DOMAIN design /\ s = connection.sourcePath OBVIOUS
    <2>2. path \in D /\ s \in Seq(D) BY <1>4, <2>1
    <2>3. <<path>> \o s \in Seq(D) BY <2>2
    <2> QED BY <2>1, <2>3
<1>6. forwarded \in Selections(design)
    <2> HIDE DEF way
    <2> QED BY <1>3, <1>5, SelectsForwarded DEF Current
<1> HIDE DEF forwarded
<1>7. target # None => ChainAround(forwarded, design, target) \in Selections(design)
    BY <1>3, <1>4, <1>6, SelectsAround
<1> HIDE DEF target
<1>8. activeByModule' \in Selections(design) BY <1>2, <1>6, <1>7
<1>9. halfSet' = TRUE \/ (analyses' = NoAnalyses /\ halfSet' = FALSE)
    BY <1>2 DEF invalidateAnalysesAndRefreshClient
<1>10. ShownAs(design, picked', activeByModule')
    <2>1. SUFFICES ASSUME picked' # None
                   PROVE  /\ picked' \in DOMAIN design
                          /\ \A q \in Around(picked') :
                                design[q].kind = "inst" /\ ~Overridden(design, picked', q) =>
                                    activeByModule'[design[q].of] = q
        BY DEF ShownAs
    <2>2. target # None BY <1>2, <2>1
    <2>3. picked' = target /\ activeByModule' = ChainAround(forwarded, design, target)
        BY <1>2, <2>2
    <2>4. target \in DOMAIN design BY <1>4, <2>2 DEF target
    <2> QED BY <1>3, <1>6, <2>3, <2>4, AroundIsSelected
<1> QED BY <1>8, <1>9, <1>10

\* The invariant holds over edits, saves, activations, searches and analyses in any order.
Inv == Current /\ Bound
LEMMA InvHolds == Spec => []Inv
<1> USE DEF Inv
<1>1. Init => Inv
    <2>1. SUFFICES ASSUME Init PROVE Inv OBVIOUS
    <2>2. source \in Sources /\ built \in Sources /\ design = Elaborated(built)
        BY <2>1, DesignAssumption DEF Init
    <2>3. activeByModule \in Selections(design) BY <2>1, SyncSelects DEF Init
    <2>4. Bound BY <2>1 DEF Init, Bound, NoAnalyses
    <2> QED BY <2>2, <2>3, <2>4 DEF Current
<1>2. Inv /\ [Next]_vars => Inv'
    <2>1. SUFFICES ASSUME Current, Bound, [Next]_vars PROVE Current' /\ Bound' OBVIOUS
    <2>2. ASSUME NEW m \in Modules, NEW text \in Texts[m], onDocDidChange(m, text)
          PROVE  Current' /\ Bound'
        <3>1. /\ source' = [source EXCEPT ![m] = text]
              /\ built' = built /\ design' = design /\ activeByModule' = activeByModule
              /\ halfSet' = halfSet
            BY <2>2 DEF onDocDidChange, selection
        <3>2. source \in [Modules -> UNION {Texts[x] : x \in Modules}]
              /\ \A x \in Modules : source[x] \in Texts[x]
            BY <2>1 DEF Current, Sources
        <3>3. source' \in Sources
            <4>1. text \in UNION {Texts[x] : x \in Modules} OBVIOUS
            <4>2. source' \in [Modules -> UNION {Texts[x] : x \in Modules}] BY <3>1, <3>2, <4>1
            <4>3. \A x \in Modules : source'[x] \in Texts[x] BY <3>1, <3>2
            <4> QED BY <4>2, <4>3 DEF Sources
        <3>4. Current' BY <2>1, <3>1, <3>3 DEF Current
        <3>5. \A x \in Modules \ {m} : source'[x] = source[x] BY <3>1, <3>2
        <3>6. ASSUME NEW d \in Docs, analyses'[d] # None, ~halfSet'
              PROVE  analyses'[d] = createActiveDesignContext(d)'
            <4>1. /\ Doc[m] \notin getDependentTrees(source, d)
                  /\ Doc[m] \notin getDependentTrees(source', d)
                  /\ analyses'[d] = analyses[d]
                BY <2>2, <3>6 DEF onDocDidChange
            <4>2. getDependentTrees(source', d) = getDependentTrees(source, d)
                BY <3>5, <4>1, TreesUnlessEdited
            <4>3. \A x \in Modules : Doc[x] \in getDependentTrees(source, d) => source'[x] = source[x]
                BY <3>5, <4>1
            <4>4. createActiveDesignContext(d)' = createActiveDesignContext(d)
                BY <3>1, <4>2, <4>3, ContextKept
            <4>5. analyses[d] = createActiveDesignContext(d) BY <2>1, <3>1, <3>6, <4>1 DEF Bound
            <4> QED BY <4>1, <4>4, <4>5
        <3>7. Bound' BY <2>1, <3>1, <3>6 DEF Bound
        <3> QED BY <3>4, <3>7
    <2>3. ASSUME onDocDidSave PROVE Current' /\ Bound'
        <3>1. /\ built' = source /\ design' = Elaborated(source) /\ source' = source
              /\ activeByModule' = syncActiveInstances(activeByModule, design')
              /\ analyses' = NoAnalyses /\ halfSet' = FALSE
            BY <2>3 DEF onDocDidSave, refresh, invalidateAnalysesAndRefreshClient
        <3>2. activeByModule' \in Selections(design') BY <3>1, SyncSelects
        <3>3. Current' BY <2>1, <3>1, <3>2 DEF Current
        <3>4. Bound' BY <3>1 DEF Bound, NoAnalyses
        <3> QED BY <3>3, <3>4
    <2>4. ASSUME NEW path \in Activated \cap DOMAIN design, ActivateInstance(path)
          PROVE  Current' /\ Bound'
        <3>1. setActiveInstance(path) /\ source' = source /\ built' = built /\ design' = design
            BY <2>4 DEF ActivateInstance
        <3>2. /\ activeByModule' \in Selections(design)
              /\ halfSet' = TRUE \/ (analyses' = NoAnalyses /\ halfSet' = FALSE)
            BY <2>1, <3>1, ActivateSelects
        <3>3. Current' BY <2>1, <3>1, <3>2 DEF Current
        <3>4. Bound' BY <3>2 DEF Bound, NoAnalyses
        <3> QED BY <3>3, <3>4
    <2>5. ASSUME source' = source, built' = built, design' = design, activeByModule' = activeByModule
          PROVE  /\ Current'
                 /\ \A d : createActiveDesignContext(d)' = createActiveDesignContext(d)
        <3>1. Current' BY <2>1, <2>5 DEF Current
        <3> QED BY <2>5, <3>1, ContextKept
    <2>6. ASSUME NEW doc \in Docs, getAnalysis(doc) PROVE Current' /\ Bound'
        <3>1. /\ source' = source /\ built' = built /\ design' = design
              /\ activeByModule' = activeByModule /\ halfSet' = halfSet
              /\ analyses' = [analyses EXCEPT ![doc] = createActiveDesignContext(doc)]
            BY <2>6 DEF getAnalysis, selection
        <3>2. Current' /\ \A d : createActiveDesignContext(d)' = createActiveDesignContext(d)
            BY <2>5, <3>1
        <3>3. ASSUME NEW d \in Docs
              PROVE  analyses'[d] = analyses[d] \/ analyses'[d] = createActiveDesignContext(d)
            BY <3>1
        <3>4. Bound' BY <2>1, <3>1, <3>2, <3>3 DEF Bound
        <3> QED BY <3>2, <3>4
    <2>7. ASSUME UNCHANGED <<source, built, design, selection, analyses>> PROVE Current' /\ Bound'
        <3>1. /\ source' = source /\ built' = built /\ design' = design
              /\ activeByModule' = activeByModule /\ halfSet' = halfSet /\ analyses' = analyses
            BY <2>7 DEF selection
        <3>2. Current' /\ \A d : createActiveDesignContext(d)' = createActiveDesignContext(d)
            BY <2>5, <3>1
        <3>3. Bound' BY <2>1, <3>1, <3>2 DEF Bound
        <3> QED BY <3>2, <3>3
    <2> QED BY <2>1, <2>2, <2>3, <2>4, <2>6, <2>7 DEF Next, searchHierarchy, vars, selection
<1> HIDE DEF Inv
<1> QED BY <1>1, <1>2, PTL DEF Spec

\* The index of searchHierarchy always agrees with the tree of tryGetScopeChildren: the items that
\* come embedded in others are those that a lookup of their path leads to, through connected and
\* forwarded ports too, and refresh drops the index with the design it was collected from.
THEOREM SearchShowsTree == Spec => []SearchAgreesWithTree
<1>1. Init => SearchAgreesWithTree
    BY DEF Init, SearchAgreesWithTree
<1>2. Inv /\ SearchAgreesWithTree /\ [Next]_vars => SearchAgreesWithTree'
    <2>1. SUFFICES ASSUME Current, SearchAgreesWithTree, [Next]_vars PROVE SearchAgreesWithTree'
        BY DEF Inv
    <2>2. CASE onDocDidSave
        BY <2>2 DEF onDocDidSave, refresh, SearchAgreesWithTree
    <2>3. CASE searchHierarchy
        <3>1. design' = design /\ built' = built /\ searchItems' = collect(design)
            BY <2>3 DEF searchHierarchy
        <3>2. \A p : /\ tryGetScopeChildren(design, p)' = tryGetScopeChildren(design, p)
                     /\ Unconnected(design, p)' = Unconnected(design, p)
            BY <3>1, TreeUnchanged
        <3>3. None \notin DOMAIN design BY <2>1, DesignTree DEF Current, Fits
        <3> QED BY <3>1, <3>2, <3>3, CollectAgrees DEF SearchAgreesWithTree
    <2>4. CASE UNCHANGED <<design, built, searchItems>>
        <3>1. \A p : /\ tryGetScopeChildren(design, p)' = tryGetScopeChildren(design, p)
                     /\ Unconnected(design, p)' = Unconnected(design, p)
            BY <2>4, TreeUnchanged
        <3> QED BY <2>1, <2>4, <3>1 DEF SearchAgreesWithTree
    <2> QED BY <2>1, <2>2, <2>3, <2>4
        DEF Next, onDocDidChange, ActivateInstance, getAnalysis, vars
<1> HIDE DEF Inv
<1> QED BY <1>1, <1>2, InvHolds, PTL DEF Spec

\* Over edits, saves and activations in any order, no module has an active instance that the
\* design does not hold, a module with one instance has that one, and every cached analysis
\* is what createActiveDesignContext would make now, unless a refused activation came since.
THEOREM AnalysesAreBound == Spec => []AnalysesBoundToActive
<1>1. Inv => AnalysesBoundToActive
    BY DEF Inv, Current, Bound, Selections, AnalysesBoundToActive, ActiveExists
<1> QED BY <1>1, InvHolds, PTL

\* What setActiveInstance has activated stays active over edits and saves that leave it in
\* place: every module around it, and its own, has the deepest of its instances there, also
\* where an interface of that module is connected higher up.
THEOREM PickedIsActive == Spec => []PickedInstancesShown
<1> DEFINE Shown == ShownAs(design, picked, activeByModule)
<1>1. Init => Shown BY DEF Init, ShownAs
<1>2. Inv /\ Shown /\ [Next]_vars => Shown'
    <2>1. SUFFICES ASSUME Current, Shown, [Next]_vars PROVE Shown' BY DEF Inv
    <2>2. Tree(built, design) /\ Fits(built, design) BY <2>1, DesignTree DEF Current
    <2>3. ASSUME onDocDidSave PROVE Shown'
        <3>1. /\ activeByModule' = syncActiveInstances(activeByModule, design')
              /\ picked' = IF picked # None /\ LeftInPlace(picked, design') THEN picked ELSE None
            BY <2>3 DEF onDocDidSave, refresh
        <3>2. SUFFICES ASSUME picked' # None
                       PROVE  /\ picked' \in DOMAIN design'
                              /\ \A q \in Around(picked') :
                                    design'[q].kind = "inst" /\ ~Overridden(design', picked', q) =>
                                        activeByModule'[design'[q].of] = q
            BY DEF ShownAs
        <3>3. picked' = picked /\ picked # None /\ LeftInPlace(picked, design') BY <3>1, <3>2
        <3>4. picked \in DOMAIN design BY <2>1, <3>3 DEF ShownAs
        <3>5. picked \in Around(picked)
            <4>1. PICK K : picked \in Seq(K) BY <2>2, <3>4 DEF Tree
            <4>2. Len(picked) \in 1..Len(picked) BY <2>2, <3>4, DesignAssumption DEF Tree
            <4>3. picked = SubSeq(picked, 1, Len(picked)) BY <4>1
            <4> QED BY <4>2, <4>3 DEF Around
        <3>6. ASSUME NEW q \in Around(picked), design'[q].kind = "inst",
                     ~Overridden(design', picked, q)
              PROVE  activeByModule'[design'[q].of] = q
            <4>1. /\ q \in DOMAIN design' /\ design'[q] = design[q]
                  /\ ~Overridden(design, picked, q)
                BY <3>3, <3>6 DEF LeftInPlace
            <4>2. activeByModule[design[q].of] = q BY <2>1, <3>3, <3>6, <4>1 DEF ShownAs
            <4>3. q \in InstancesOf(design', design'[q].of) BY <3>6, <4>1 DEF InstancesOf
            <4>4. q \in DOMAIN design BY <2>2, <3>4 DEF Tree, Around
            <4>5. design'[q].of \in Modules BY <2>2, <3>6, <4>1, <4>4 DEF Fits
            <4> QED BY <3>1, <4>1, <4>2, <4>3, <4>5 DEF syncActiveInstances
        <3>7. picked \in DOMAIN design' BY <3>3, <3>5 DEF LeftInPlace
        <3> QED BY <3>3, <3>6, <3>7
    <2>4. ASSUME NEW path \in Activated \cap DOMAIN design, ActivateInstance(path) PROVE Shown'
        BY <2>1, <2>4, ActivateSelects DEF ActivateInstance
    <2>5. CASE UNCHANGED <<design, selection>> BY <2>1, <2>5 DEF selection, ShownAs, Overridden
    <2> QED BY <2>1, <2>3, <2>4, <2>5
        DEF Next, onDocDidChange, searchHierarchy, getAnalysis, vars, selection
<1>3. Inv /\ Shown => PickedInstancesShown
    <2>1. SUFFICES ASSUME Current, Shown, picked # None, NEW q \in Around(picked),
                          design[q].kind = "inst", ~Overridden(design, picked, q)
                   PROVE  getActiveInstanceSymbol(design[q].of) = q
        BY DEF Inv, PickedInstancesShown
    <2>2. Tree(built, design) BY <2>1, DesignTree DEF Current
    <2>3. q \in DOMAIN design BY <2>1, <2>2 DEF Tree, Around, ShownAs
    <2>4. q \in InstancesOf(design, design[q].of) BY <2>1, <2>3 DEF InstancesOf
    <2>5. activeByModule[design[q].of] = q BY <2>1 DEF ShownAs
    <2> QED BY <2>4, <2>5 DEF getActiveInstanceSymbol, ActiveAmong
<1> HIDE DEF Inv, Shown
<1> QED BY <1>1, <1>2, <1>3, InvHolds, PTL DEF Spec

-----------------------------------------------------------------------------
(* Locations.                                                              *)

\* What a symbol unfolds to is below it.
LEMMA UnfoldsBelow ==
    ASSUME NEW src, NEW d, Tree(src, d), NEW p \in DOMAIN d, NEW k \in DOMAIN Unfolds(src, d[p]),
           Len(p) < Depth, Known(src, Unfolds(src, d[p])[k])
    PROVE  Append(p, k) \in DOMAIN d /\ d[Append(p, k)] = Unfolds(src, d[p])[k]
BY DEF Tree

\* A symbol on the way to another is what the one before it unfolds to.
LEMMA OnTheWay ==
    ASSUME NEW src, NEW d, Tree(src, d), Rooted(src, d), NEW p \in DOMAIN d, NEW i \in Nat \ {0},
           i < Len(p)
    PROVE  LET at == d[SubSeq(p, 1, i)] IN
           /\ p[i + 1] \in DOMAIN Unfolds(src, at)
           /\ d[SubSeq(p, 1, i + 1)] = Unfolds(src, at)[p[i + 1]]
<1>1. PICK K : p \in Seq(K) BY DEF Tree
<1> DEFINE b == SubSeq(p, 1, i + 1)
<1>2. i + 1 \in 1..Len(p) BY <1>1
<1>3. b \in DOMAIN d BY <1>2 DEF Tree
<1>4. Len(b) = i + 1 /\ b[i + 1] = p[i + 1] /\ SubSeq(b, 1, i) = SubSeq(p, 1, i)
    BY <1>1, <1>2
<1>5. Len(b) > 1 /\ Len(b) - 1 = i BY <1>4
<1> HIDE DEF b
<1>6. LET at == d[SubSeq(b, 1, Len(b) - 1)]
          k == b[Len(b)]
      IN  k \in DOMAIN Unfolds(src, at) /\ d[b] = Unfolds(src, at)[k]
    BY <1>3, <1>5 DEF Rooted
<1> QED BY <1>4, <1>5, <1>6 DEF b

\* What is below an instance in one design is below its module in another that has this module
\* as a root and was built from the same texts of the modules on the way.
LEMMA BelowModule ==
    ASSUME NEW src, NEW d, Tree(src, d), Rooted(src, d),
           NEW read, NEW e, Tree(read, e), Rooted(read, e),
           NEW p \in DOMAIN d, NEW n \in 1..Len(p), NEW m,
           d[SubSeq(p, 1, n)].kind = "inst", m = d[SubSeq(p, 1, n)].of, <<m>> \in DOMAIN e,
           \A i \in n..Len(p) : LET at == d[SubSeq(p, 1, i)] IN
               at.kind \in {"inst", "array"} => read[at.of] = src[at.of]
    PROVE  <<m>> \o SubSeq(p, n + 1, Len(p)) \in DOMAIN e
<1>1. PICK K0 : p \in Seq(K0) BY DEF Tree
<1>2. PICK K : K = K0 \cup {m} OBVIOUS
<1>3. p \in Seq(K) /\ m \in K /\ Len(p) \in Nat /\ n \in Nat \ {0} /\ n <= Len(p) BY <1>1, <1>2
<1> DEFINE At(j) == d[SubSeq(p, 1, n + j)]
           W(j) == <<m>> \o SubSeq(p, n + 1, n + j)
           Good(j) == W(j) \in DOMAIN e /\ Unfolds(read, e[W(j)]) = Unfolds(src, At(j))
           P == {j \in Nat : n + j <= Len(p) => Good(j)}
<1>4. ASSUME NEW j \in Nat, n + j <= Len(p), NEW at, at = At(j) PROVE Unfolds(read, at) = Unfolds(src, at)
    <2>1. n + j \in n..Len(p) BY <1>3, <1>4
    <2>2. at.kind \in {"inst", "array"} => read[at.of] = src[at.of] BY <1>4, <2>1
    <2> QED BY <2>2 DEF Unfolds
<1>5. 0 \in P
    <2>1. W(0) = <<m>>
        <3>1. n + 0 = n OBVIOUS
        <3>2. SubSeq(p, n + 1, n) = << >> BY <1>3
        <3>3. <<m>> \o << >> = <<m>> OBVIOUS
        <3> QED BY <3>1, <3>2, <3>3
    <2>2. Len(<<m>>) = 1 /\ <<m>>[1] = m OBVIOUS
    <2>3. e[<<m>>] = [kind |-> "inst", of |-> m, ports |-> <<>>] BY <2>2 DEF Rooted
    <2>4. At(0).kind = "inst" /\ At(0).of = m BY <1>3
    <2>5. Unfolds(read, e[<<m>>]) = Body[m][read[m]] BY <2>3 DEF Unfolds
    <2>6. Unfolds(read, At(0)) = Body[m][read[m]] BY <2>4 DEF Unfolds
    <2>7. Unfolds(read, At(0)) = Unfolds(src, At(0)) BY <1>3, <1>4
    <2> HIDE DEF At, W
    <2> QED BY <2>1, <2>5, <2>6, <2>7
<1>6. ASSUME NEW j \in Nat, j \in P PROVE j + 1 \in P
    <2>1. SUFFICES ASSUME n + (j + 1) <= Len(p) PROVE Good(j + 1) OBVIOUS
    <2>2. n + j < Len(p) /\ n + j <= Len(p) /\ n + j \in Nat \ {0} /\ (n + j) + 1 = n + (j + 1)
        BY <1>3, <2>1
    <2>3. Good(j) BY <1>6, <2>2
    <2> DEFINE k == p[n + j + 1]
    <2>4. k \in DOMAIN Unfolds(src, At(j)) /\ At(j + 1) = Unfolds(src, At(j))[k]
        BY <2>2, OnTheWay
    <2>5. Append(W(j), k) = W(j + 1) /\ Len(W(j)) = 1 + j BY <1>3, <2>2
    <2>6. SubSeq(p, 1, n + (j + 1)) \in DOMAIN d
        <3>1. n + (j + 1) \in 1..Len(p) BY <1>3, <2>1
        <3> QED BY <3>1 DEF Tree
    <2>7. Known(read, At(j + 1))
        <3>1. Known(src, At(j + 1)) BY <2>6 DEF Tree
        <3>2. n + (j + 1) \in n..Len(p) BY <1>3, <2>1
        <3>3. At(j + 1).kind \in {"inst", "array"} => read[At(j + 1).of] = src[At(j + 1).of]
            BY <3>2
        <3> HIDE DEF At
        <3> QED BY <3>1, <3>3 DEF Known
    <2>8. Len(W(j)) < Depth
        <3>1. Len(p) \in 1..Depth BY DEF Tree
        <3> QED BY <1>3, <2>1, <2>5, <3>1, DesignAssumption
    <2>9. Unfolds(read, At(j + 1)) = Unfolds(src, At(j + 1)) BY <1>4, <2>1
    <2> HIDE DEF At, W, k
    <2>10. W(j + 1) \in DOMAIN e /\ e[W(j + 1)] = At(j + 1)
        <3>1. PICK w : w = W(j) OBVIOUS
        <3>2. w \in DOMAIN e /\ Unfolds(read, e[w]) = Unfolds(src, At(j)) BY <2>3, <3>1
        <3>3. k \in DOMAIN Unfolds(read, e[w]) /\ Unfolds(read, e[w])[k] = At(j + 1)
            BY <2>4, <3>2
        <3>4. Append(w, k) \in DOMAIN e /\ e[Append(w, k)] = Unfolds(read, e[w])[k]
            BY <2>7, <2>8, <3>1, <3>2, <3>3, UnfoldsBelow
        <3> QED BY <2>5, <3>1, <3>3, <3>4
    <2> QED BY <2>9, <2>10
<1>7. Nat \subseteq P
    <2> HIDE DEF P
    <2> QED BY <1>5, <1>6, Inductive
<1>8. Len(p) - n \in Nat /\ n + (Len(p) - n) = Len(p) BY <1>3
<1> HIDE DEF At
<1> QED BY <1>7, <1>8

\* A document is among those that its own compilation reads.
LEMMA ReadsItself ==
    ASSUME NEW src, NEW doc
    PROVE  doc \in getDependentTrees(src, doc)
<1>1. PICK reach : Reaching(src, doc, reach) /\ getDependentTrees(src, doc) = reach[Cardinality(Docs)]
    BY Reach
<1>2. Cardinality(Docs) \in Nat BY DesignAssumption, FS_CardinalityType
<1>3. doc \in reach[0] BY <1>1 DEF Reaching
<1>4. reach[0] \subseteq reach[Cardinality(Docs)]
    <2>1. 0 \in 0..Cardinality(Docs) BY <1>2
    <2> QED BY <1>1, <1>2, <2>1, TreesGrow DEF Reaching
<1> QED BY <1>1, <1>3, <1>4

\* Whatever has been edited since the last save, getHierLocation answers from the current text
\* for a symbol that is still there, if the compilation of the document of a module around it
\* has that module as a top and reads the modules on the way: toShallowSymbol finds it there.
THEOREM LocationsAreCurrent == Spec => []LocationsFollowEdits
<1> DEFINE Fresh == shallow = [d \in Docs |-> ShallowCompilation(source, d)]
<1>1. Init => Fresh BY DEF Init
<1>2. Fresh /\ [Next]_vars => Fresh'
    <2>1. SUFFICES ASSUME Fresh, [Next]_vars PROVE Fresh' OBVIOUS
    <2>2. ASSUME NEW m \in Modules, NEW text \in Texts[m], onDocDidChange(m, text) PROVE Fresh'
        BY <2>2 DEF onDocDidChange
    <2>3. CASE UNCHANGED <<source, shallow>> BY <2>1, <2>3
    <2> QED BY <2>1, <2>2, <2>3
        DEF Next, onDocDidSave, ActivateInstance, searchHierarchy, getAnalysis, vars
<1>3. Inv /\ Fresh => LocationsFollowEdits
    <2> DEFINE new == Elaborated(source)
    <2>1. SUFFICES ASSUME Current, Fresh, NEW p \in DOMAIN design \cap DOMAIN new,
                          NEW q \in Around(p) \ {p}, ReachedFrom(new, p, q),
                          design[q].kind = "inst", design[q].of = new[q].of,
                          Original[new[q].of] # None
                   PROVE  getHierLocation(p) = "current"
        BY DEF Inv, LocationsFollowEdits
    <2>2. Tree(source, new) /\ Fits(source, new) /\ Rooted(source, new)
        BY <2>1, DesignTree DEF Current
    <2> HIDE DEF new
    <2>3. PICK K : p \in Seq(K) BY <2>2 DEF Tree
    <2>4. PICK n \in 1..Len(p) : q = SubSeq(p, 1, n) BY <2>1 DEF Around
    <2>5. Len(q) = n /\ Len(p) \in Nat BY <2>3, <2>4
    <2>6. q \in DOMAIN new /\ \A i \in 1..Len(p) : SubSeq(p, 1, i) \in DOMAIN new
        BY <2>2, <2>4 DEF Tree
    <2> DEFINE m == new[q].of
               doc == Doc[m]
               trees == getDependentTrees(source, doc)
               read == [x \in Modules |-> IF Doc[x] \in trees THEN source[x] ELSE None]
               e == ShallowCompilation(source, doc)
    <2>7. new[q].kind = "inst" /\ m \in Modules BY <2>1, <2>2, <2>6 DEF ReachedFrom, Fits
    <2>8. shallow[doc] = e /\ doc \in trees BY <2>1, <2>7, ReadsItself DEF Docs
    <2>9. Tree(read, e) /\ Rooted(read, e)
        <3>1. e = Elaborate(read, Roots(read)) BY DEF ShallowCompilation
        <3>2. \A t \in Roots(read) : read[t] # None BY DEF Roots, Declared
        <3> HIDE DEF read, e
        <3> QED BY <3>1, <3>2, ElaborateTree
    <2>10. ASSUME NEW i \in n..Len(p), new[SubSeq(p, 1, i)].kind \in {"inst", "array"}
           PROVE  read[new[SubSeq(p, 1, i)].of] = source[new[SubSeq(p, 1, i)].of]
        <3> DEFINE r == SubSeq(p, 1, i)
        <3>1. i \in 1..Len(p) BY <2>5
        <3>2. r \in DOMAIN new /\ r \in Around(p) BY <2>6, <3>1 DEF Around
        <3>3. new[r].of \in Modules BY <2>2, <2>10, <3>2 DEF Fits
        <3>4. Doc[new[r].of] \in trees
            <4>1. CASE i = n BY <2>4, <2>8, <4>1
            <4>2. CASE i # n
                <5>1. IsUnder(r, q) BY <2>3, <2>4, <2>5, <3>1, <4>2 DEF IsUnder
                <5> HIDE DEF r
                <5> QED BY <2>1, <2>10, <3>2, <5>1 DEF ReachedFrom, r
            <4> QED BY <4>1, <4>2
        <3> QED BY <3>3, <3>4
    <2>11. <<m>> \in DOMAIN e BY <2>1, <2>8 DEF ReachedFrom
    <2> HIDE DEF read, e, trees
    <2>12. <<m>> \o SubSeq(p, n + 1, Len(p)) \in DOMAIN e
        BY <2>2, <2>4, <2>7, <2>9, <2>10, <2>11, BelowModule
    <2>13. <<design[q].of>> \o Relative(p, q) \in DOMAIN shallow[Doc[design[q].of]]
        BY <2>1, <2>5, <2>8, <2>12 DEF Relative
    <2> QED BY <2>1, <2>13 DEF getHierLocation, toShallowSymbol
<1> HIDE DEF Inv, Fresh
<1> QED BY <1>1, <1>2, <1>3, InvHolds, PTL DEF Spec

-----------------------------------------------------------------------------
(* Generate loops.                                                         *)

\* Only loops have iterations.
LEMMA IterationInLoop ==
    ASSUME NEW src, NEW d, Tree(src, d), Rooted(src, d), Fits(src, d),
           NEW q \in DOMAIN d, d[q].kind = "iteration"
    PROVE  /\ Len(q) > 1 /\ Parent(q) \in DOMAIN d /\ d[Parent(q)].kind = "loop"
           /\ Last(q) \in d[Parent(q)].range /\ q = Append(Parent(q), Last(q))
<1>1. PICK K : q \in Seq(K) BY DEF Tree
<1>2. Len(q) \in Nat /\ Len(q) >= 1 BY <1>1, DesignAssumption DEF Tree
<1>3. Len(q) # 1
    <2>1. SUFFICES ASSUME Len(q) = 1 PROVE FALSE OBVIOUS
    <2>2. d[q] = [kind |-> "inst", of |-> q[1], ports |-> <<>>] BY <2>1 DEF Rooted
    <2>3. d[q].kind = "inst" BY <2>2
    <2> QED BY <2>3
<1>4. Len(q) > 1 /\ Len(q) - 1 \in 1..Len(q)
    <2>1. PICK n \in Nat : n = Len(q) BY <1>2
    <2>2. n > 1 /\ n - 1 \in 1..n BY <1>2, <1>3, <2>1
    <2> QED BY <2>1, <2>2
<1> DEFINE a == SubSeq(q, 1, Len(q) - 1)
           k == q[Len(q)]
<1>5. a \in DOMAIN d BY <1>4 DEF Tree
<1>6. k \in DOMAIN Unfolds(src, d[a]) /\ d[q] = Unfolds(src, d[a])[k] BY <1>4 DEF Rooted
<1>7. Parent(q) = a /\ Last(q) = k /\ q = Append(a, k) BY <1>1, <1>4 DEF Parent, Last
<1> HIDE DEF a, k
<1>8. d[a].kind \notin {"inst", "iteration"} BY <1>5, <1>6 DEF Fits
<1>9. CASE d[a].kind = "array"
    <2>1. Unfolds(src, d[a]) =
            [i \in d[a].range |-> [kind |-> "inst", of |-> d[a].of, ports |-> d[a].ports]]
        BY <1>9 DEF Unfolds
    <2>2. d[q].kind = "inst" BY <1>6, <2>1
    <2> QED BY <2>2
<1>10. CASE d[a].kind = "loop"
    <2>1. DOMAIN Unfolds(src, d[a]) = d[a].range BY <1>10 DEF Unfolds
    <2> QED BY <1>4, <1>5, <1>6, <1>7, <1>10, <2>1
<1>11. CASE d[a].kind \notin {"inst", "iteration", "array", "loop"}
    <2>1. Unfolds(src, d[a]) = <<>> BY <1>11 DEF Unfolds
    <2> QED BY <1>6, <2>1
<1> QED BY <1>8, <1>9, <1>10, <1>11

\* Every iteration around p is the active one of its loop.
LoopsActive(d, p, gen) ==
    \A q \in Around(p) : d[q].kind = "iteration" => Parent(q) \in DOMAIN gen /\ gen[Parent(q)] = q

\* What activeGenerate may become by activations in a design.
Scopes(d, gen) ==
    LET X == DOMAIN gen \cup DOMAIN d
        Y == DOMAIN d \cup {gen[a] : a \in DOMAIN gen}
    IN  (UNION {[S -> Y] : S \in SUBSET X}) \cup {gen}

\* setActiveGenerateScopes activates every iteration around a symbol.
LEMMA SetsScopes ==
    ASSUME NEW src, NEW d, Tree(src, d), Rooted(src, d), Fits(src, d), NEW p \in DOMAIN d,
           NEW gen, NEW g \in Scopes(d, gen)
    PROVE  /\ setActiveGenerateScopes(g, d, p) \in Scopes(d, gen)
           /\ LoopsActive(d, p, setActiveGenerateScopes(g, d, p))
<1> DEFINE X == DOMAIN gen \cup DOMAIN d
           Y == DOMAIN d \cup {gen[a] : a \in DOMAIN gen}
           new == {q \in Around(p) : d[q].kind = "iteration"}
           S == DOMAIN g \cup {Parent(q) : q \in new}
           h == [a \in S |-> IF \E q \in new : Parent(q) = a THEN CHOOSE q \in new : Parent(q) = a
                             ELSE g[a]]
<1>1. setActiveGenerateScopes(g, d, p) = h BY DEF setActiveGenerateScopes
<1>2. DOMAIN g \subseteq X /\ \A a \in DOMAIN g : g[a] \in Y
    <2>1. CASE g = gen BY <2>1
    <2>2. CASE g # gen
        <3>1. PICK T \in SUBSET X : g \in [T -> Y] BY <2>2 DEF Scopes
        <3> QED BY <3>1
    <2> QED BY <2>1, <2>2
<1>3. ASSUME NEW q \in new PROVE q \in DOMAIN d /\ Parent(q) \in DOMAIN d /\ q = Append(Parent(q), Last(q))
    <2>1. q \in DOMAIN d BY DEF Around, Tree
    <2> QED BY <2>1, IterationInLoop
<1>4. ASSUME NEW q \in new, NEW r \in new, Parent(q) = Parent(r) PROVE q = r
    <2>1. PICK K : p \in Seq(K) BY DEF Tree
    <2>2. PICK i \in 1..Len(p) : q = SubSeq(p, 1, i) BY DEF Around
    <2>3. PICK j \in 1..Len(p) : r = SubSeq(p, 1, j) BY DEF Around
    <2>4. Len(q) = i /\ Len(r) = j BY <2>1, <2>2, <2>3
    <2>5. Len(q) > 1 /\ Len(r) > 1 BY <1>3, IterationInLoop
    <2>6. Len(Parent(q)) = i - 1 /\ Len(Parent(r)) = j - 1
        BY <2>1, <2>2, <2>3, <2>4, <2>5 DEF Parent
    <2>7. i = j BY <1>4, <2>6
    <2> QED BY <2>2, <2>3, <2>7
<1> HIDE DEF new
<1>5. S \subseteq X BY <1>2, <1>3
<1>6. ASSUME NEW a \in S PROVE h[a] \in Y
    <2>1. CASE \E q \in new : Parent(q) = a
        <3>1. (CHOOSE q \in new : Parent(q) = a) \in new BY <2>1
        <3>2. h[a] \in new BY <2>1, <3>1
        <3> QED BY <1>3, <3>2
    <2>2. CASE ~\E q \in new : Parent(q) = a
        <3>1. a \in DOMAIN g /\ h[a] = g[a] BY <1>6, <2>2
        <3> QED BY <1>2, <3>1
    <2> QED BY <2>1, <2>2
<1>7. h \in Scopes(d, gen)
    <2>1. h = [a \in S |-> h[a]] OBVIOUS
    <2> HIDE DEF h
    <2>2. h \in [S -> Y] BY <1>6, <2>1
    <2> HIDE DEF S
    <2> QED BY <1>5, <2>2 DEF Scopes
<1>8. ASSUME NEW q \in new PROVE Parent(q) \in DOMAIN h /\ h[Parent(q)] = q
    <2>1. Parent(q) \in S OBVIOUS
    <2>2. (CHOOSE r \in new : Parent(r) = Parent(q)) = q BY <1>4
    <2>3. h[Parent(q)] = CHOOSE r \in new : Parent(r) = Parent(q) BY <2>1
    <2> QED BY <2>1, <2>2, <2>3
<1> HIDE DEF h
<1>9. LoopsActive(d, p, h) BY <1>8 DEF LoopsActive, new
<1> QED BY <1>1, <1>7, <1>9

\* Of the symbols that an activation passes, the last has its iterations active.
LEMMA SetsScopesAround ==
    ASSUME NEW src, NEW d, Tree(src, d), Rooted(src, d), Fits(src, d), NEW gen,
           NEW way \in Seq(DOMAIN d), Len(way) > 0
    PROVE  LoopsActive(d, way[Len(way)], ScopesAround(gen, d, way))
<1> DEFINE N == Len(way)
           A == Scopes(d, gen)
           Set(g, p) == setActiveGenerateScopes(g, d, p)
           Def(f) == [s \in SUBSET DOMAIN way |->
                        IF s = {} THEN gen ELSE Set(f[s \ {Max(s)}], way[Max(s)])]
           iter == CHOOSE f : f = Def(f)
           step == [n \in 1..N |-> [g \in A |-> Set(g, way[n])]]
<1>1. ScopesAround(gen, d, way) = iter[DOMAIN way]
    BY DEF ScopesAround, FoldLeft, MapThenFoldSet
<1>2. N \in Nat /\ N >= 1 OBVIOUS
<1>3. ASSUME NEW g \in A, NEW p \in DOMAIN d PROVE Set(g, p) \in A /\ LoopsActive(d, p, Set(g, p))
    BY SetsScopes
<1> HIDE DEF A, Set, N
<1>4. DOMAIN way = 1..N /\ \A n \in 1..N : way[n] \in DOMAIN d BY DEF N
<1>5. ASSUME NEW s \in SUBSET (1..N), s # {} PROVE Max(s) \in 1..N
    <2>1. PICK x \in s : \A y \in s : y <= x
        <3>1. s \subseteq 0..N BY <1>2
        <3> QED BY <1>2, <1>5, <3>1, BoundedMax
    <2>2. \A y \in s : x >= y BY <1>2, <2>1
    <2> QED BY <2>2 DEF Max
<1>6. PICK f : f \in FoldsOver(N, A, gen, step)
    <2>1. gen \in A BY DEF A, Scopes
    <2>2. step \in [1..N -> [A -> A]] BY <1>3, <1>4
    <2> HIDE DEF step
    <2> QED BY <1>2, <2>1, <2>2, FoldExists
<1>7. f = Def(f)
    <2>1. f \in [SUBSET (1..N) -> A] /\ f[{}] = gen BY <1>6 DEF FoldsOver
    <2>2. ASSUME NEW s \in SUBSET (1..N), s # {} PROVE f[s] = Set(f[s \ {Max(s)}], way[Max(s)])
        <3>1. f[s] = step[Max(s)][f[s \ {Max(s)}]]
            <4> HIDE DEF step
            <4> QED BY <1>6, <2>2 DEF FoldsOver
        <3>2. Max(s) \in 1..N BY <1>5, <2>2
        <3>3. f[s \ {Max(s)}] \in A BY <2>1
        <3> QED BY <1>4, <3>1, <3>2, <3>3
    <2>3. ASSUME NEW s \in SUBSET (1..N) PROVE f[s] = Def(f)[s]
        <3>1. CASE s = {} BY <1>4, <2>1, <3>1
        <3>2. CASE s # {} BY <1>4, <2>2, <3>2
        <3> QED BY <3>1, <3>2
    <2>4. f = [s \in SUBSET (1..N) |-> f[s]] BY <2>1
    <2>5. Def(f) = [s \in SUBSET (1..N) |-> Def(f)[s]] BY <1>4
    <2> HIDE DEF Def
    <2> QED BY <2>3, <2>4, <2>5
<1>8. iter = Def(iter)
    <2> HIDE DEF Def
    <2> QED BY <1>7
<1> HIDE DEF iter
<1>9. ASSUME NEW s \in SUBSET (1..N), s # {}
      PROVE  Max(s) \in 1..N /\ iter[s] = Set(iter[s \ {Max(s)}], way[Max(s)])
    <2>1. Def(iter)[s] = Set(iter[s \ {Max(s)}], way[Max(s)]) BY <1>4, <1>9
    <2> HIDE DEF Def
    <2> QED BY <1>5, <1>8, <1>9, <2>1
<1>10. iter[{}] \in A
    <2>1. {} \in SUBSET (1..N) OBVIOUS
    <2>2. Def(iter)[{}] = gen BY <1>4, <2>1
    <2> QED BY <1>8, <2>2 DEF A, Scopes
<1>11. PICK M \in Nat : N = M + 1
    <2>1. N - 1 \in Nat /\ N = (N - 1) + 1 BY <1>2
    <2> QED BY <2>1
<1>12. iter[1..M] \in A
    <2>1. ASSUME NEW s \in SUBSET (1..M), s # {}, iter[s \ {Max(s)}] \in A PROVE iter[s] \in A
        <3>1. s \in SUBSET (1..N) BY <1>11
        <3> HIDE DEF Def
        <3> QED BY <1>3, <1>4, <1>9, <2>1, <3>1
    <2> HIDE DEF Def
    <2> QED BY <1>10, <2>1, FoldStays
<1>13. Max(1..N) = N /\ (1..N) \ {N} = 1..M /\ 1..N # {} /\ N \in 1..N
    <2>1. N \in Nat /\ (1..N) \in SUBSET (1..N) /\ N \in 1..N BY <1>2
    <2>2. Max(1..N) = N BY <2>1, Greatest
    <2>3. (1..N) \ {N} = 1..M BY <1>11
    <2> QED BY <2>1, <2>2, <2>3
<1>14. iter[1..N] = Set(iter[1..M], way[N])
    <2> HIDE DEF Def
    <2> QED BY <1>9, <1>13
<1>15. LoopsActive(d, way[N], iter[1..N]) BY <1>3, <1>4, <1>12, <1>13, <1>14
<1> QED BY <1>1, <1>4, <1>15 DEF N

\* Two sequences of one length that differ have a first place where they do.
LEMMA FirstDifference ==
    ASSUME NEW K, NEW s \in Seq(K), NEW t \in Seq(K), Len(s) = Len(t), s # t
    PROVE  \E j \in 1..Len(s) : s[j] # t[j] /\ \A i \in 1..(j - 1) : s[i] = t[i]
<1> DEFINE N == Len(s)
           D == {N - j : j \in {j \in 1..N : s[j] # t[j]}}
<1>1. N \in Nat OBVIOUS
<1>2. \E j \in 1..N : s[j] # t[j] OBVIOUS
<1>3. D \subseteq 0..N /\ D # {} BY <1>1, <1>2
<1>4. PICK x \in D : \A y \in D : y <= x
    <2> HIDE DEF D
    <2> QED BY <1>1, <1>3, BoundedMax
<1>5. PICK j \in 1..N : x = N - j /\ s[j] # t[j] BY <1>4
<1>6. ASSUME NEW i \in 1..(j - 1) PROVE s[i] = t[i]
    <2>1. SUFFICES ASSUME s[i] # t[i] PROVE FALSE OBVIOUS
    <2>2. i \in 1..N BY <1>1
    <2>3. N - i \in D BY <2>1, <2>2
    <2>4. N - i <= N - j BY <1>4, <1>5, <2>3
    <2> QED BY <1>1, <2>4
<1> QED BY <1>5, <1>6

\* Arrays of one loop below one instance differ in an iteration of a loop around both.
LEMMA ArraysPart ==
    ASSUME NEW src, NEW d, Tree(src, d), Rooted(src, d), Fits(src, d), NEW inst \in DOMAIN d,
           NEW loop, NEW a \in collectGenerateArrays(d, inst, loop),
           NEW b \in collectGenerateArrays(d, inst, loop), a # b
    PROVE  \E r \in Around(a) : \E s \in Around(b) :
               /\ d[r].kind = "iteration" /\ d[s].kind = "iteration"
               /\ Parent(r) = Parent(s) /\ r # s
<1>1. /\ a \in DOMAIN d /\ d[a].kind = "loop" /\ IsUnder(a, inst)
      /\ getEnclosingInstance(d, a) = inst /\ Syntax(Relative(a, inst)) = loop
      /\ b \in DOMAIN d /\ d[b].kind = "loop" /\ IsUnder(b, inst)
      /\ getEnclosingInstance(d, b) = inst /\ Syntax(Relative(b, inst)) = loop
    BY DEF collectGenerateArrays
<1>2. PICK Ka : a \in Seq(Ka) BY <1>1 DEF Tree
<1>3. PICK Kb : b \in Seq(Kb) BY <1>1 DEF Tree
<1>4. PICK K : K = Ka \cup Kb OBVIOUS
<1>5. a \in Seq(K) /\ b \in Seq(K) BY <1>2, <1>3, <1>4
<1>6. PICK n \in Nat : n = Len(inst) /\ n >= 1 BY DesignAssumption DEF Tree
<1>7. /\ Len(a) \in Nat /\ Len(a) > n /\ SubSeq(a, 1, n) = inst
      /\ Len(b) \in Nat /\ Len(b) > n /\ SubSeq(b, 1, n) = inst
    BY <1>1, <1>5, <1>6 DEF IsUnder
<1> DEFINE u == SubSeq(a, n + 1, Len(a))
           v == SubSeq(b, n + 1, Len(b))
<1>8. /\ DOMAIN u = 1..(Len(a) - n) /\ \A i \in 1..(Len(a) - n) : u[i] = a[n + i]
      /\ DOMAIN v = 1..(Len(b) - n) /\ \A i \in 1..(Len(b) - n) : v[i] = b[n + i]
    BY <1>5, <1>6, <1>7
<1>9. Relative(a, inst) = u /\ Relative(b, inst) = v BY <1>6 DEF Relative
<1> HIDE DEF u, v
<1>10. [i \in DOMAIN u |-> {u[i]} \ Indices] = [i \in DOMAIN v |-> {v[i]} \ Indices]
    BY <1>1, <1>9 DEF Syntax
<1>11. DOMAIN u = DOMAIN v /\ \A i \in DOMAIN u : {u[i]} \ Indices = {v[i]} \ Indices
    <2>1. PICK f, g : f = [i \in DOMAIN u |-> {u[i]} \ Indices] /\ g = [i \in DOMAIN v |-> {v[i]} \ Indices]
        OBVIOUS
    <2>2. f = g BY <1>10, <2>1
    <2>3. DOMAIN f = DOMAIN u /\ DOMAIN g = DOMAIN v BY <2>1
    <2>4. \A i \in DOMAIN u : f[i] = {u[i]} \ Indices BY <2>1
    <2>5. \A i \in DOMAIN v : g[i] = {v[i]} \ Indices BY <2>1
    <2> QED BY <2>2, <2>3, <2>4, <2>5
<1>12. Len(b) = Len(a)
    <2>0. Len(a) - n \in Nat /\ Len(b) - n \in Nat BY <1>6, <1>7
    <2>1. PICK x \in Nat, y \in Nat : x = Len(a) - n /\ y = Len(b) - n BY <2>0
    <2>2. 1..x = 1..y BY <1>8, <1>11, <2>1
    <2>3. x \in 1..x /\ y \in 1..y BY <1>6, <1>7, <2>1
    <2>4. x = y BY <2>2, <2>3
    <2> QED BY <1>6, <1>7, <2>1, <2>4
<1>13. PICK j \in 1..Len(a) : a[j] # b[j] /\ \A i \in 1..(j - 1) : a[i] = b[i]
    BY <1>5, <1>12, FirstDifference
<1>14. j > n
    <2>1. \A i \in 1..n : a[i] = SubSeq(a, 1, n)[i] /\ b[i] = SubSeq(b, 1, n)[i]
        BY <1>5, <1>6, <1>7
    <2>2. \A i \in 1..n : a[i] = b[i] BY <1>7, <2>1
    <2> QED BY <1>6, <1>7, <1>13, <2>2
<1>15. a[j] \in Indices
    <2>1. PICK i \in 1..(Len(a) - n) : j = n + i
        <3>1. j - n \in 1..(Len(a) - n) /\ j = n + (j - n) BY <1>6, <1>7, <1>14
        <3> QED BY <3>1
    <2>2. {a[j]} \ Indices = {b[j]} \ Indices BY <1>8, <1>11, <1>12, <2>1
    <2> QED BY <1>13, <2>2
<1>16. PICK k \in Nat \ {0} : j = k + 1 /\ k < Len(a) /\ k < Len(b) /\ k >= n
    <2>1. j - 1 \in Nat \ {0} /\ j = (j - 1) + 1 /\ j - 1 < Len(a) /\ j - 1 >= n
        BY <1>6, <1>7, <1>14
    <2> QED BY <1>12, <2>1
<1> DEFINE c == SubSeq(a, 1, k)
           r == SubSeq(a, 1, k + 1)
           s == SubSeq(b, 1, k + 1)
<1>17. SubSeq(b, 1, k) = c
    <2>1. \A i \in 1..k : a[i] = b[i] BY <1>13, <1>16
    <2>2. Len(SubSeq(b, 1, k)) = k /\ Len(c) = k /\ SubSeq(b, 1, k) \in Seq(K) /\ c \in Seq(K)
        BY <1>5, <1>16
    <2>3. \A i \in 1..k : SubSeq(b, 1, k)[i] = b[i] /\ c[i] = a[i] BY <1>5, <1>16
    <2> QED BY <2>1, <2>2, <2>3
<1>18. /\ a[k + 1] \in DOMAIN Unfolds(src, d[c]) /\ d[r] = Unfolds(src, d[c])[a[k + 1]]
       /\ b[k + 1] \in DOMAIN Unfolds(src, d[c]) /\ d[s] = Unfolds(src, d[c])[b[k + 1]]
    <2>1. /\ a[k + 1] \in DOMAIN Unfolds(src, d[SubSeq(a, 1, k)])
          /\ d[SubSeq(a, 1, k + 1)] = Unfolds(src, d[SubSeq(a, 1, k)])[a[k + 1]]
        BY <1>1, <1>16, OnTheWay
    <2>2. /\ b[k + 1] \in DOMAIN Unfolds(src, d[SubSeq(b, 1, k)])
          /\ d[SubSeq(b, 1, k + 1)] = Unfolds(src, d[SubSeq(b, 1, k)])[b[k + 1]]
        BY <1>1, <1>16, OnTheWay
    <2> QED BY <1>17, <2>1, <2>2
<1>19. Parent(r) = c /\ Parent(s) = c /\ r # s /\ Len(r) = k + 1
    <2>1. Len(r) = k + 1 /\ Len(s) = k + 1 /\ r[k + 1] = a[k + 1] /\ s[k + 1] = b[k + 1]
        BY <1>5, <1>16
    <2>2. SubSeq(r, 1, k) = c /\ SubSeq(s, 1, k) = SubSeq(b, 1, k) BY <1>5, <1>16
    <2>3. (k + 1) - 1 = k OBVIOUS
    <2> HIDE DEF r, s, c
    <2> QED BY <1>13, <1>16, <1>17, <2>1, <2>2, <2>3 DEF Parent
<1>20. c \in DOMAIN d
    <2>1. k \in 1..Len(a) BY <1>7, <1>16
    <2> QED BY <1>1, <2>1 DEF Tree
<1>21. r \in Around(a) /\ s \in Around(b)
    <2>1. k + 1 \in 1..Len(a) /\ k + 1 \in 1..Len(b) BY <1>7, <1>16
    <2> QED BY <2>1 DEF Around
<1> HIDE DEF r, s, c
<1>22. d[c].kind \notin {"inst", "iteration"} BY <1>15, <1>16, <1>18, <1>20 DEF Fits
<1>23. d[c].kind # "array"
    <2>1. SUFFICES ASSUME d[c].kind = "array" PROVE FALSE OBVIOUS
    <2>2. Unfolds(src, d[c]) =
            [i \in d[c].range |-> [kind |-> "inst", of |-> d[c].of, ports |-> d[c].ports]]
        BY <2>1 DEF Unfolds
    <2>3. d[r].kind = "inst" BY <1>18, <2>2
    <2>4. r \in Around(a) \ {a} BY <1>1, <1>21, <2>3
    <2>5. Len(r) <= Len(inst) BY <1>1, <2>3, <2>4, Enclosing
    <2> QED BY <1>6, <1>16, <1>19, <2>5
<1>24. d[c].kind = "loop"
    <2>1. SUFFICES ASSUME d[c].kind # "loop" PROVE FALSE OBVIOUS
    <2>2. Unfolds(src, d[c]) = <<>> BY <1>22, <1>23, <2>1 DEF Unfolds
    <2> QED BY <1>18, <2>2
<1>25. d[r].kind = "iteration" /\ d[s].kind = "iteration"
    <2>1. Unfolds(src, d[c]) = [i \in d[c].range |-> [kind |-> "iteration", members |-> d[c].members]]
        BY <1>24 DEF Unfolds
    <2> QED BY <1>18, <2>1
<1> QED BY <1>19, <1>21, <1>25

\* What is around a path is finite in number.
LEMMA AroundFinite ==
    ASSUME NEW p, Len(p) \in Nat
    PROVE  IsFiniteSet(Around(p))
<1> DEFINE f == [i \in 1..Len(p) |-> SubSeq(p, 1, i)]
<1>1. f \in Surjection(1..Len(p), Around(p)) BY DEF Surjection, Around
<1>2. IsFiniteSet(1..Len(p)) BY FS_Interval
<1> HIDE DEF f
<1> QED BY <1>1, <1>2, FS_Surjection

\* An array with an active ancestor chain is lower in order than one without.
LEMMA LowerKey ==
    ASSUME NEW K, NEW a \in Seq(K), NEW b \in Seq(K), NEW x, NEW y
    PROVE  /\ Lower(<<0, x>> \o Ranks(a), <<1, y>> \o Ranks(b))
           /\ ~Lower(<<1, y>> \o Ranks(b), <<0, x>> \o Ranks(a))
<1>1. PICK s, t, S : /\ s = Ranks(a) /\ t = Ranks(b)
                     /\ S = {Rank[k] : k \in K} \cup {0, 1, x, y}
    OBVIOUS
<1>2. s \in Seq(S) /\ t \in Seq(S) BY <1>1 DEF Ranks
<1> DEFINE u == <<0, x>> \o s
           v == <<1, y>> \o t
<1>3. <<0, x>> \in Seq(S) /\ <<1, y>> \in Seq(S) BY <1>1
<1>4. /\ Len(u) = 2 + Len(s) /\ u[1] = 0 /\ Len(s) \in Nat
      /\ Len(v) = 2 + Len(t) /\ v[1] = 1 /\ Len(t) \in Nat
    BY <1>2, <1>3
<1> HIDE DEF u, v
<1>5. Lower(u, v)
    <2>1. 1 \in 1..(Len(u) + 1) /\ 1 # Len(u) + 1 /\ 1 <= Len(v) /\ u[1] < v[1] BY <1>4
    <2>2. \A i \in 1..(1 - 1) : i <= Len(v) /\ u[i] = v[i] OBVIOUS
    <2> QED BY <2>1, <2>2 DEF Lower
<1>6. ~Lower(v, u)
    <2>1. SUFFICES ASSUME NEW n \in 1..(Len(v) + 1),
                          \A i \in 1..(n - 1) : i <= Len(u) /\ v[i] = u[i],
                          IF n = Len(v) + 1 THEN Len(u) >= n ELSE n <= Len(u) /\ v[n] < u[n]
                   PROVE  FALSE
        BY DEF Lower
    <2>2. n = 1
        <3>1. SUFFICES ASSUME n # 1 PROVE FALSE OBVIOUS
        <3>2. 1 \in 1..(n - 1) BY <1>4, <3>1
        <3> QED BY <1>4, <2>1, <3>2
    <2> QED BY <1>4, <2>1, <2>2
<1> QED BY <1>1, <1>5, <1>6 DEF u, v

\* A loop around p whose iterations are active shows the one that p is in, if the instance
\* around it is the active one: no other array of the loop has only active iterations around.
LEMMA LoopIsShown ==
    ASSUME Tree(built, design), Rooted(built, design), Fits(built, design),
           NEW p \in DOMAIN design, LoopsActive(design, p, activeGenerate),
           NEW q \in Around(p), design[q].kind = "iteration",
           NEW inst, inst = getEnclosingInstance(design, q),
           getActiveInstanceSymbol(design[inst].of) = inst
    PROVE  getActiveGenerateLoop(design[inst].of, Syntax(Relative(Parent(q), inst))) = q
<1> DEFINE a == Parent(q)
           loop == Syntax(Relative(a, inst))
           arrays == collectGenerateArrays(design, inst, loop)
<1>1. PICK K : p \in Seq(K) BY DEF Tree
<1>2. PICK n \in 1..Len(p) : q = SubSeq(p, 1, n) BY DEF Around
<1>3. q \in DOMAIN design /\ q \in Seq(K) /\ Len(q) = n /\ n \in Nat BY <1>1, <1>2 DEF Tree
<1>4. /\ n > 1 /\ a \in DOMAIN design /\ design[a].kind = "loop"
      /\ Last(q) \in design[a].range /\ q = Append(a, Last(q))
    BY <1>3, IterationInLoop
<1>5. a = SubSeq(p, 1, n - 1) /\ a = SubSeq(q, 1, n - 1) /\ a \in Seq(K) /\ Len(a) = n - 1
    BY <1>1, <1>2, <1>3, <1>4 DEF Parent
<1>6. Around(q) \ {q} = Around(a)
    <2>1. ASSUME NEW x \in Around(a) PROVE x \in Around(q) \ {q}
        <3>1. PICK i \in 1..Len(a) : x = SubSeq(a, 1, i) BY DEF Around
        <3>2. i \in 1..Len(q) /\ i # n /\ i \in 1..(n - 1) BY <1>3, <1>4, <1>5, <3>1
        <3>3. x = SubSeq(q, 1, i) BY <1>3, <1>5, <3>1, <3>2
        <3>4. Len(x) = i BY <1>3, <3>2, <3>3
        <3>5. x # q BY <1>3, <3>2, <3>4
        <3> QED BY <3>2, <3>3, <3>5 DEF Around
    <2>2. ASSUME NEW x \in Around(q) \ {q} PROVE x \in Around(a)
        <3>1. PICK i \in 1..Len(q) : x = SubSeq(q, 1, i) BY DEF Around
        <3>2. SubSeq(q, 1, n) = q BY <1>3
        <3>3. i # n BY <2>2, <3>1, <3>2
        <3>4. i \in 1..Len(a) /\ x = SubSeq(a, 1, i) BY <1>3, <1>4, <1>5, <3>1, <3>3
        <3> QED BY <3>4 DEF Around
    <2> QED BY <2>1, <2>2
<1>7. Around(a) \subseteq Around(p)
    <2>1. ASSUME NEW x \in Around(a) PROVE x \in Around(p)
        <3>1. PICK i \in 1..Len(a) : x = SubSeq(a, 1, i) BY DEF Around
        <3>2. x = SubSeq(p, 1, i) /\ i \in 1..Len(p) BY <1>1, <1>2, <1>3, <1>4, <1>5, <3>1
        <3> QED BY <3>2 DEF Around
    <2> QED BY <2>1
<1>8. a \in Around(a)
    <2>1. Len(a) \in 1..Len(a) /\ a = SubSeq(a, 1, Len(a)) BY <1>3, <1>4, <1>5
    <2> QED BY <2>1 DEF Around
<1> HIDE DEF a
<1>9. getEnclosingInstance(design, a) = inst
    <2>1. {r \in Around(q) \ {q} : design[r].kind = "inst"} =
            {r \in Around(a) \ {a} : design[r].kind = "inst"}
        BY <1>4, <1>6
    <2>2. PICK S : S = {r \in Around(q) \ {q} : design[r].kind = "inst"} OBVIOUS
    <2>3. getEnclosingInstance(design, q) =
            IF S = {} THEN <<>> ELSE CHOOSE r \in S : \A s \in S : Len(s) <= Len(r)
        BY <2>2 DEF getEnclosingInstance
    <2>4. PICK T : T = {r \in Around(a) \ {a} : design[r].kind = "inst"} OBVIOUS
    <2>5. getEnclosingInstance(design, a) =
            IF T = {} THEN <<>> ELSE CHOOSE r \in T : \A s \in T : Len(s) <= Len(r)
        BY <2>4 DEF getEnclosingInstance
    <2>6. S = T BY <2>1, <2>2, <2>4
    <2> QED BY <2>3, <2>5, <2>6
<1>10. inst \in DOMAIN design /\ inst \in Around(a) /\ design[inst].kind = "inst"
    <2>1. PICK t : t = SubSeq(q, 1, 1) OBVIOUS
    <2>2. t \in Around(q) /\ Len(t) = 1 /\ t \in DOMAIN design
        <3>1. 1 \in 1..Len(q) BY <1>3, <1>4
        <3>2. t \in Around(q) BY <2>1, <3>1 DEF Around
        <3>3. Len(t) = 1 BY <1>3, <2>1, <3>1
        <3>4. t \in DOMAIN design BY <1>3, <2>1, <3>1 DEF Tree
        <3> QED BY <3>2, <3>3, <3>4
    <2>3. design[t] = [kind |-> "inst", of |-> t[1], ports |-> <<>>] BY <2>2 DEF Rooted
    <2>4. design[t].kind = "inst" BY <2>3
    <2>5. t \in Around(q) \ {q} BY <2>2, <2>4
    <2>6. inst \in DOMAIN design /\ inst \in Around(q) /\ design[inst].kind = "inst"
        BY <1>3, <2>4, <2>5, Enclosing
    <2> QED BY <1>6, <2>6
<1>11. IsUnder(a, inst)
    <2>1. PICK i \in 1..Len(a) : inst = SubSeq(a, 1, i) BY <1>10 DEF Around
    <2>2. SubSeq(a, 1, Len(a)) = a BY <1>5
    <2>3. i # Len(a) BY <1>4, <1>10, <2>1, <2>2
    <2>4. Len(inst) = i /\ Len(a) > i BY <1>3, <1>5, <2>1, <2>3
    <2> QED BY <2>1, <2>4 DEF IsUnder
<1>12. a \in arrays BY <1>4, <1>9, <1>11 DEF collectGenerateArrays
<1>13. getActiveAncestorCount(design, a) # None
    <2> DEFINE around == {r \in Around(a) : /\ design[r].kind = "iteration"
                                            /\ Parent(r) \in DOMAIN activeGenerate}
    <2>1. ~\E r \in around : activeGenerate[Parent(r)] # r BY <1>7 DEF LoopsActive
    <2>2. IsFiniteSet(around)
        <3>1. IsFiniteSet(Around(a)) BY <1>3, <1>4, <1>5, AroundFinite
        <3>2. around \in SUBSET Around(a) OBVIOUS
        <3> HIDE DEF around
        <3> QED BY <3>1, <3>2, FS_Subset
    <2>3. Cardinality(around) \in Nat
        <3> HIDE DEF around
        <3> QED BY <2>2, FS_CardinalityType
    <2>4. getActiveAncestorCount(design, a) = Cardinality(around)
        BY <2>1 DEF getActiveAncestorCount
    <2> HIDE DEF around
    <2> QED BY <2>3, <2>4, DesignAssumption
<1>14. ASSUME NEW b \in arrays, b # a PROVE getActiveAncestorCount(design, b) = None
    <2>1. PICK r \in Around(a), s \in Around(b) :
            /\ design[r].kind = "iteration" /\ design[s].kind = "iteration"
            /\ Parent(r) = Parent(s) /\ r # s
        BY <1>10, <1>12, <1>14, ArraysPart
    <2>2. Parent(s) \in DOMAIN activeGenerate /\ activeGenerate[Parent(s)] # s
        BY <1>7, <2>1 DEF LoopsActive
    <2> QED BY <2>1, <2>2 DEF getActiveAncestorCount
<1> DEFINE Count(x) == getActiveAncestorCount(design, x)
           Key(x) == (IF Count(x) = None THEN <<1, Depth>> ELSE <<0, Depth - Count(x)>>) \o Ranks(x)
<1>15. ASSUME NEW b \in arrays, b # a PROVE Lower(Key(a), Key(b)) /\ ~Lower(Key(b), Key(a))
    <2>1. b \in DOMAIN design BY DEF collectGenerateArrays
    <2>2. PICK J0 : b \in Seq(J0) BY <2>1 DEF Tree
    <2>3. PICK J : J = K \cup J0 OBVIOUS
    <2>4. a \in Seq(J) /\ b \in Seq(J) BY <1>5, <2>2, <2>3
    <2>5. Key(a) = <<0, Depth - Count(a)>> \o Ranks(a) /\ Key(b) = <<1, Depth>> \o Ranks(b)
        BY <1>13, <1>14, <1>15
    <2> HIDE DEF Key, Count
    <2> QED BY <2>4, <2>5, LowerKey
<1>16. chooseGenerateArray(design, arrays) = a
    <2>1. chooseGenerateArray(design, arrays) =
            CHOOSE x \in arrays : \A y \in arrays \ {x} : Lower(Key(x), Key(y))
        BY DEF chooseGenerateArray
    <2> HIDE DEF Key, arrays
    <2>2. \A y \in arrays \ {a} : Lower(Key(a), Key(y)) BY <1>15
    <2>3. \A x \in arrays : (\A y \in arrays \ {x} : Lower(Key(x), Key(y))) => x = a
        BY <1>12, <1>15
    <2> QED BY <1>12, <2>1, <2>2, <2>3
<1>17. ActiveEntry(design, a) = q
    <2>1. q \in Around(p) /\ a \in DOMAIN activeGenerate /\ activeGenerate[a] = q
        BY DEF LoopsActive, a
    <2>2. q \in {Append(a, i) : i \in design[a].range} BY <1>4
    <2> QED BY <2>1, <2>2 DEF ActiveEntry
<1>18. inst # None BY <1>10 DEF Fits
<1> HIDE DEF arrays
<1>19. ActiveOfArrays(design, arrays) = q BY <1>12, <1>16, <1>17 DEF ActiveOfArrays
<1> HIDE DEF loop
<1>20. getActiveGenerateLoop(design[inst].of, loop) = q
    BY <1>18, <1>19 DEF getActiveGenerateLoop, arrays
<1> QED BY <1>20 DEF loop, a

\* setActiveInstance activates the iterations around what it activates, which is the last symbol
\* on its way there.
LEMMA ActivateScopes ==
    ASSUME Current, NEW path \in DOMAIN design, setActiveInstance(path), picked' # None
    PROVE  picked' \in DOMAIN design /\ LoopsActive(design, picked', activeGenerate')
<1> DEFINE connection == IF design[path].kind = "port" THEN resolveInterfaceConnection(design, path)
                         ELSE [sourcePath |-> <<>>, resolvedEndpoint |-> path]
           target == connection.resolvedEndpoint
           rest == connection.sourcePath
           way == <<path>> \o rest
<1>1. lookupHierSymbol(design, path) = path BY LookupOfSymbol
<1>2. /\ activeGenerate' = ScopesAround(activeGenerate, design, way)
      /\ target = None => picked' = None
      /\ target # None => picked' = target
    BY <1>1 DEF setActiveInstance, ActivateSymbol, Activate
<1>3. Tree(built, design) /\ Fits(built, design) /\ Rooted(built, design) BY DesignTree DEF Current
<1>4. target # None /\ picked' = target BY <1>2
<1>5. /\ rest \in Seq(DOMAIN design) /\ target \in DOMAIN design
      /\ \/ rest = <<>> /\ target = path
         \/ rest # <<>> /\ target = Last(rest)
    <2>1. CASE design[path].kind = "port"
        <3>1. Len(path) \in Nat BY <1>3, DesignAssumption DEF Tree
        <3> QED BY <1>4, <2>1, <3>1, Endpoints
    <2>2. CASE design[path].kind # "port" BY <2>2
    <2> QED BY <2>1, <2>2
<1> HIDE DEF connection, target, rest
<1>6. way \in Seq(DOMAIN design) /\ Len(way) > 0 /\ way[Len(way)] = target
    <2>1. PICK D, s : D = DOMAIN design /\ s = rest OBVIOUS
    <2>2. path \in D /\ s \in Seq(D) BY <1>5, <2>1
    <2>3. <<path>> \o s \in Seq(D) /\ Len(<<path>> \o s) = 1 + Len(s) /\ Len(s) \in Nat BY <2>2
    <2>4. CASE s = <<>>
        <3>1. <<path>> \o s = <<path>> BY <2>4
        <3> QED BY <1>5, <2>1, <2>3, <2>4, <3>1
    <2>5. CASE s # <<>>
        <3>1. Len(s) >= 1 BY <2>2, <2>5
        <3>2. (<<path>> \o s)[1 + Len(s)] = s[Len(s)] BY <2>2, <3>1
        <3>3. target = s[Len(s)] BY <1>5, <2>1, <2>5 DEF Last
        <3> QED BY <2>1, <2>3, <3>1, <3>2, <3>3
    <2> QED BY <2>4, <2>5
<1> HIDE DEF way
<1>7. LoopsActive(design, way[Len(way)], ScopesAround(activeGenerate, design, way))
    BY <1>3, <1>6, SetsScopesAround
<1> QED BY <1>2, <1>4, <1>5, <1>6, <1>7

\* And every loop around what setActiveInstance has activated shows the iteration that it is in,
\* whatever was activated before and whatever the loop is nested in, as long as the instance with
\* the loop is the active one of its module: with the active instances, all that was picked is
\* shown, over edits and saves that leave it in place.
THEOREM PickedStaysShown == Spec => []PickedIsShown
<1> DEFINE Looped == picked # None => picked \in DOMAIN design /\ LoopsActive(design, picked, activeGenerate)
<1>1. Init => Looped BY DEF Init
<1>2. Inv /\ Looped /\ [Next]_vars => Looped'
    <2>1. SUFFICES ASSUME Current, Looped, [Next]_vars, picked' # None
                   PROVE  picked' \in DOMAIN design' /\ LoopsActive(design', picked', activeGenerate')
        BY DEF Inv
    <2>2. Tree(built, design) BY <2>1, DesignTree DEF Current
    <2>3. ASSUME onDocDidSave
          PROVE  picked' \in DOMAIN design' /\ LoopsActive(design', picked', activeGenerate')
        <3>1. /\ picked' = picked /\ picked # None /\ LeftInPlace(picked, design')
              /\ activeGenerate' = activeGenerate
            BY <2>1, <2>3 DEF onDocDidSave, refresh
        <3>2. picked \in DOMAIN design BY <2>1, <3>1
        <3>3. picked \in Around(picked)
            <4>1. PICK K : picked \in Seq(K) BY <2>2, <3>2 DEF Tree
            <4>2. Len(picked) \in 1..Len(picked) BY <2>2, <3>2, DesignAssumption DEF Tree
            <4>3. picked = SubSeq(picked, 1, Len(picked)) BY <4>1
            <4> QED BY <4>2, <4>3 DEF Around
        <3>4. \A q \in Around(picked) : q \in DOMAIN design' /\ design'[q] = design[q]
            BY <3>1 DEF LeftInPlace
        <3>5. LoopsActive(design, picked, activeGenerate) BY <2>1, <3>1
        <3>6. LoopsActive(design', picked, activeGenerate) BY <3>4, <3>5 DEF LoopsActive
        <3> QED BY <3>1, <3>3, <3>4, <3>6
    <2>4. ASSUME NEW path \in Activated \cap DOMAIN design, ActivateInstance(path)
          PROVE  picked' \in DOMAIN design' /\ LoopsActive(design', picked', activeGenerate')
        BY <2>1, <2>4, ActivateScopes DEF ActivateInstance
    <2>5. CASE UNCHANGED <<design, selection>> BY <2>1, <2>5 DEF selection, LoopsActive
    <2> QED BY <2>1, <2>3, <2>4, <2>5
        DEF Next, onDocDidChange, searchHierarchy, getAnalysis, vars, selection
<1>3. Inv /\ Looped => PickedLoopsShown
    <2>1. SUFFICES ASSUME Current, Looped, picked # None, NEW q \in Around(picked),
                          NEW inst, inst = getEnclosingInstance(design, q),
                          design[q].kind = "iteration", getActiveInstanceSymbol(design[inst].of) = inst
                   PROVE  getActiveGenerateLoop(design[inst].of, Syntax(Relative(Parent(q), inst))) = q
        BY DEF Inv, PickedLoopsShown
    <2>2. Tree(built, design) /\ Rooted(built, design) /\ Fits(built, design)
        BY <2>1, DesignTree DEF Current
    <2> QED BY <2>1, <2>2, LoopIsShown
<1>4. PickedInstancesShown /\ PickedLoopsShown => PickedIsShown BY DEF PickedIsShown
<1> HIDE DEF Inv, Looped
<1> QED BY <1>1, <1>2, <1>3, <1>4, InvHolds, PickedIsActive, PTL DEF Spec
=============================================================================
