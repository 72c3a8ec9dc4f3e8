------------------------------ MODULE MCIncludes ------------------------------
(* Questions about the directories that are crawled and about includes.        *)
EXTENDS MCCompletions

D == INSTANCE Crawl

-----------------------------------------------------------------------------
(* Auto-configuration: a workspace w with generated directories named o, and   *)
(* an index root x outside of it that has a directory of that name too.        *)

Root == <<"w">>
Folders == {<<>>, <<"w">>, <<"w", "a">>, <<"w", "a", "o">>, <<"w", "b">>, <<"w", "b", "o">>, <<"x">>, <<"x", "o">>}
Sources == {<<"w", "a", "s">>, <<"w", "a", "o", "g">>, <<"w", "b", "o", "g">>, <<"x", "o", "s">>}
IgnoredPaths == {{}, {<<"w", "a", "o">>}, {<<"w", "b">>}, {<<"w", "a", "o">>, <<"w", "b", "o">>},
                 {<<"w", "a", "o", "g">>, <<"w", "b", "o">>}}
Entry(dirs, names, paths) == [dirs |-> dirs, names |-> names, paths |-> paths]
OwnEntries == {<<>>, <<Entry({Root}, {}, {<<"w", "b", "o">>})>>, <<Entry({Root, <<"x">>}, {}, {})>>,
               <<Entry({<<"w", "a">>}, {"o"}, {}), Entry({<<"w", "b">>}, {}, {})>>}

AskAutoConfigure ==
    /\ question = None
    /\ \E sources \in SUBSET Sources : \E tracked \in SUBSET {f \in sources : D!Under(f, Root)} :
       \E ignored \in IgnoredPaths, submodules \in {{}, {<<"w", "b">>}}, own \in OwnEntries,
          inherited \in {<<>>, <<Entry({<<"x">>}, {}, {})>>}, crowded \in {1, 100} :
         question' = [about |-> "autoConfigure", own |-> own, inherited |-> inherited,
                      disk |-> [dirs |-> Folders, sources |-> sources,
                                others |-> [d \in Folders |-> IF d = <<"w", "b">> THEN crowded ELSE 1]],
                      repo |-> [tracked |-> {f \in tracked : ~\E s \in submodules : D!Under(f, s)},
                                submodules |-> submodules, ignored |-> ignored]]

Indexed(config) == D!startIndexing(question.disk, config, Root).files
Reconfigured(own) == D!autoConfigure(question.disk, own, question.inherited, question.repo, Root)
Wanted(f) == \/ f \in question.repo.tracked \/ ~D!checkIgnore(question.repo, Root, f)
             \/ ~D!Under(f, Root) \/ \E s \in question.repo.submodules : D!Under(f, s)
KeepsSources(before, after) == after \subseteq before /\ {f \in before : Wanted(f)} \subseteq after
Settled(written) ==
    /\ KeepsSources(Indexed(question.own \o question.inherited), Indexed(written \o question.inherited))
    /\ Reconfigured(written) = written

\* Auto-configuration never takes a source out of the index that Git tracks or does not
\* ignore, neither by narrowing the roots nor by an excluded name that occurs elsewhere, in
\* a submodule or under another root; and it settles: done again it changes nothing.
AutoConfigureKeepsSources ==
    question # None /\ question.about = "autoConfigure" => Settled(Reconfigured(question.own))

-----------------------------------------------------------------------------
(* Suggested roots, over all sizes of the directories.                         *)

Below == {<<"w", "a">>, <<"w", "a", "o">>, <<"w", "a", "p">>, <<"w", "b">>}

AskRoots ==
    /\ question = None
    /\ \E sized \in [Below -> {0, 40, 700}], with \in SUBSET Below :
         question' = [about |-> "roots", index |-> [files |-> {d \o <<"s">> : d \in with},
                                                    counts |-> [d \in Below \cup {Root} |-> IF d = Root THEN 2 ELSE sized[d]]]]

\* The suggested directories hold every source, none is inside another, and no other choice
\* of directories costs less.
RootsAreCheapest ==
    question # None /\ question.about = "roots" =>
        LET index == question.index
            penalty == D!RootPenalty(index, Root)
            chosen == D!getSuggestedIndexDirectories(index, Root)
            covers(S) == \A f \in index.files : \E d \in S : D!Under(f, d)
            total(d) == MapThenSumSet(LAMBDA e : index.counts[e], {e \in Below : D!Under(e, d)})
            cost(S) == MapThenSumSet(LAMBDA d : total(d) + penalty, S)
            apart(S) == \A d, e \in S : d # e => ~D!Under(d, e)
        IN covers(chosen) /\ apart(chosen)
           /\ \A S \in SUBSET Below : covers(S) => cost(chosen) <= cost(S)

\* Auto-configuration narrows the index without losing a source, at the least cost
\* (SlangServer::autoConfigure, Indexer::getSuggestedIndexDirectories).
AutoConfigureFits == AutoConfigureKeepsSources /\ RootsAreCheapest

-----------------------------------------------------------------------------
(* Includes: sources s and t include headers g and h, that exist in one or in  *)
(* two directories and include each other.                                     *)

Spelt(n) == <<n>>
Heads == {<<"a", "h">>, <<"b", "h">>, <<"a", "g">>, <<"c", "g">>}
PathRank == <<"a", "s">> :> 1 @@ <<"b", "t">> :> 2 @@ <<"a", "g">> :> 3 @@ <<"a", "h">> :> 4
            @@ <<"b", "h">> :> 5 @@ <<"c", "g">> :> 6
I == INSTANCE Includes WITH Rank <- PathRank

IncludeLists == {<<Spelt("h")>>, <<Spelt("h"), Spelt("h")>>, <<Spelt("g"), Spelt("h")>>}
SearchDirs == {<<<<>>, <<>>>>, <<<<<<"b">>>>, <<>>>>, <<<<>>, <<<<"c">>>>>>}
IncludeWorkspaces ==
    {[files |-> <<"a", "s">> :> ls @@ <<"b", "t">> :> lt
                @@ [x \in hs |-> IF x[2] = "h" /\ nested THEN <<Spelt("g")>> ELSE <<>>],
      indexed |-> hs \cup {<<"a", "s">>, <<"b", "t">>}, configured |-> dirs[1], global |-> dirs[2],
      build |-> build, macroOnly |-> {}] :
        <<ls, lt, hs, nested, dirs, build>> \in
            IncludeLists \X {<<>>, <<Spelt("h")>>, <<Spelt("g"), Spelt("h")>>} \X (SUBSET Heads \ {{}}) \X BOOLEAN
            \X SearchDirs \X {{}, {<<"a", "s">>}}}

RootFiles == {<<"a", "s">>, <<"b", "t">>}
\* The index after both sources were parsed.
Including(ws, trees) ==
    [h \in DOMAIN ws.files |-> UNION {{t[i].from : i \in {j \in DOMAIN t : t[j].buffer = h}} : t \in {trees[f] : f \in RootFiles}}]
IncludeQuestion(ws, trees) == [about |-> "includes", ws |-> ws, trees |-> trees, including |-> Including(ws, trees)]
AskIncludes ==
    /\ question = None
    /\ \E ws \in IncludeWorkspaces :
         question' = IncludeQuestion(ws, [f \in RootFiles |-> I!parseShallowTree(ws, f)])

UniqueNames(F) == \A f, g \in F : Last(f) = Last(g) => f = g

SameInAnyOrder(ws, written) ==
    \A p, q \in written, n \in {"g", "h"}, f \in RootFiles :
        I!readHeader(ws, Spelt(n), f, ws.configured \o p) = I!readHeader(ws, Spelt(n), f, ws.configured \o q)
KeepsTargets(ws, f, tree) ==
    \A i \in DOMAIN tree :
        \/ tree[i].buffer = I!findTarget(ws, tree[i]).target
        \/ tree[i].buffer = None /\ (f \in ws.build \/ ~UniqueNames(ws.indexed))

\* Inferred include directories never lead an include to another file than the search
\* without them, or else the nearest indexed file: and where no header name occurs twice they
\* lead every include to its file, the includes of headers found that way too.  The include
\* directories that auto-configuration writes give the same files in every order.
IncludesKeepTargets ==
    question # None /\ question.about = "includes" =>
        LET ws == question.ws IN
        /\ \A dirs \in {{<<"a">>, <<"b">>}, {<<"a">>, <<"b">>, <<"c">>}} :
             SameInAnyOrder(ws, SetToSeqs(I!AddedIncdirs(ws, dirs)))
        /\ \A f \in RootFiles : KeepsTargets(ws, f, question.trees[f])

\* Directives that lead from the sources to h.
Occurrences(trees, h) ==
    UNION {LET here == SelectSeq(trees[f], LAMBDA d : d.buffer = h)
           IN {<<f, n>> : n \in 0..(Len(here) - 1)} : f \in RootFiles}

Place(c) == <<c.source, c.occurrence>>
NoSelections == [h \in {} |-> None]
\* After o was chosen for h: its own context, and those of the headers it includes.
Honours(contexts, o) == Len(contexts) = 1 /\ Place(contexts[1]) = o
Inherits(one, all, known, o) ==
    /\ one = SubSeq(all, 1, 1)
    /\ (\E p \in known : p[1] = o[1]) => one[1].source = o[1]
ChoiceHonoured(ws, including, trees, h, o, chosen) ==
    LET Contexts(g, only) == I!getIncludeContexts(ws, including, chosen, g, only) IN
    /\ Honours(Contexts(h, TRUE), o)
    /\ \A g \in {x \in DOMAIN ws.files : h \in including[x]} :
         Inherits(Contexts(g, TRUE), Contexts(g, FALSE), Occurrences(trees, g), o)
ContextsHonoured(ws, including, trees) ==
    \A h \in DOMAIN ws.files :
        /\ {Place(c) : c \in ToSet(I!getIncludeContexts(ws, including, NoSelections, h, FALSE))} = Occurrences(trees, h)
        /\ \A o \in Occurrences(trees, h) :
             ChoiceHonoured(ws, including, trees, h, o,
                 I!setIncludeContext(ws, including, NoSelections, h, [source |-> o[1], occurrence |-> o[2]]))

\* The contexts of a header are all places where the sources include it; choosing one of
\* them is honoured by the next analysis, and by that of the headers it includes in turn.
ContextIsHonoured ==
    question # None /\ question.about = "includes" =>
        ContextsHonoured(question.ws, question.including, question.trees)

\* Includes lead to the same files whatever was inferred for them, and headers are analysed
\* in the context that was chosen (ServerDriver::parseShallowTree, getIncludeContexts).
IncludesAreStable == IncludesKeepTargets /\ ContextIsHonoured
=============================================================================
