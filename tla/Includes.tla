------------------------------- MODULE Includes -------------------------------
(* Where the `include directives of a document lead, and in which of its        *)
(* sources a header is analysed.                                                *)
(*                                                                              *)
(* A path is a sequence of names.  ws.files gives the spellings that each file  *)
(* includes, in order, without `..'; ws.indexed are the files of the index,     *)
(* ws.configured and ws.global the include directories that slang searches,     *)
(* ws.build the sources of the build.                                           *)
EXTENDS Integers, FiniteSets, Sequences, SequencesExt

CONSTANTS None, Rank    \* Rank: the order of the paths

Dir(p) == Front(p)
Ends(p, spelling) == IsSuffix(spelling, p)
Common(d, e) == Len(LongestCommonPrefix({d, e}))
Distance(f, g) == Len(Dir(f)) + Len(Dir(g)) - 2 * Common(Dir(f), Dir(g))
Sorted(F) == SetToSortSeq(F, LAMBDA f, g : Rank[f] < Rank[g])
PushNew(seq, x) == IF x \in ToSet(seq) THEN seq ELSE Append(seq, x)

-----------------------------------------------------------------------------
(* Search.                                                                      *)

\* The first file found beside the including file, in the given directories and in the
\* global ones.
FirstIn(ws, spelling, dirs) ==
    LET found == SelectSeq(dirs, LAMBDA d : d \o spelling \in DOMAIN ws.files)
    IN IF found = <<>> THEN None ELSE Head(found) \o spelling
readHeader(ws, spelling, from, paths) == FirstIn(ws, spelling, <<Dir(from)>> \o paths \o ws.global)

Nearest(C, from) ==
    IF C = {} THEN None
    ELSE Head(Sorted({f \in C : \A g \in C : Distance(f, from) <= Distance(g, from)}))
getNearestFileForInclude(ws, spelling, from) ==
    Nearest({f \in ws.indexed : Ends(f, spelling) /\ f \in DOMAIN ws.files}, from)

RECURSIVE Directives(_, _, _)
Include(spelling, f, buffer, below) == <<[path |-> spelling, from |-> f, buffer |-> buffer]>> \o below
Found(ws, spelling, f, buffer, paths) ==
    Include(spelling, f, buffer, IF buffer = None THEN <<>> ELSE Directives(ws, buffer, paths))
\* The directives of the tree of f, those of an included file after the one that includes it.
Directives(ws, f, paths) ==
    FlattenSeq([i \in DOMAIN ws.files[f] |->
        Found(ws, ws.files[f][i], f, readHeader(ws, ws.files[f][i], f, paths), paths)])

TargetOf(ws, include, normal) ==
    [normal |-> normal # None,
     target |-> IF normal # None THEN normal ELSE getNearestFileForInclude(ws, include.path, include.from)]
findTarget(ws, include) == TargetOf(ws, include, readHeader(ws, include.path, include.from, ws.configured))

\* The directory from which spelling leads to target.
SearchDir(target, spelling) == SubSeq(target, 1, Len(target) - Len(spelling))

\* The directories from which the includes that are found now, or that are not, are found.
AddDir(dirs, include, found, normal) ==
    IF found.target = None \/ found.normal # normal THEN dirs
    ELSE PushNew(dirs, SearchDir(found.target, include.path))
Propose(ws, tree, start, normal) ==
    FoldLeft(LAMBDA dirs, include : AddDir(dirs, include, findTarget(ws, include), normal), start, tree)
\* The tree with the proposed directories, those that lead to what is found already first.
Reparse(ws, f, tree, proposed) ==
    Directives(ws, f, FoldLeft(PushNew, Propose(ws, tree, ws.configured, TRUE), proposed))

Compatible(ws, tree) ==
    \A i \in DOMAIN tree : tree[i].buffer # None => tree[i].buffer = findTarget(ws, tree[i]).target

\* A bug: the new tree is not compared with the expected targets.
InferDirs_unchecked(ws, f, tree, inferred) ==
    LET proposed == Propose(ws, tree, inferred, FALSE)
    IN IF proposed = inferred THEN tree ELSE Reparse(ws, f, tree, proposed)

\* Directories are inferred until no include asks for one, or until one of them would lead
\* an include elsewhere.
RECURSIVE InferDirs(_, _, _, _)
Inferred(ws, f, tree, proposed, candidate) ==
    IF Compatible(ws, candidate) THEN InferDirs(ws, f, candidate, proposed) ELSE tree
InferDirs(ws, f, tree, inferred) ==
    LET proposed == Propose(ws, tree, inferred, FALSE)
    IN IF proposed = inferred THEN tree
       ELSE Inferred(ws, f, tree, proposed, Reparse(ws, f, tree, proposed))

InferFrom(ws, f, tree) == IF f \in ws.build THEN tree ELSE InferDirs(ws, f, tree, <<>>)
parseShallowTree(ws, f) == InferFrom(ws, f, Directives(ws, f, ws.configured))

-----------------------------------------------------------------------------
(* Include directories that auto-configuration adds.                            *)

\* The directories from which a name leads to another file than from one of the others, or
\* from a configured one.
getConflictingIncludeDirectories(ws, dirs, configured) ==
    {d \in dirs : \E f \in {g \in ws.indexed : IsPrefix(d, g)} :
        LET relative == SubSeq(f, Len(d) + 1, Len(f)) IN
        \/ \E e \in dirs \ {d} : e \o relative \in ws.indexed
        \/ \E c \in configured \ {d} : c \o relative \in DOMAIN ws.files}

\* The inferred directories that are written to the configuration.
AddedIncdirs(ws, dirs) ==
    LET configured == ToSet(ws.configured) IN
    dirs \ (configured \cup getConflictingIncludeDirectories(ws, dirs, configured))

-----------------------------------------------------------------------------
(* Contexts of a header.                                                        *)

RECURSIVE Visit(_, _, _)
\* The files reached from the pending ones along including, breadth first.
Visit(including, pending, visited) ==
    IF pending = <<>> THEN visited
    ELSE LET f == Head(pending) IN
         IF f \in ToSet(visited) THEN Visit(including, Tail(pending), visited)
         ELSE Visit(including, Tail(pending) \o Sorted(including[f]), Append(visited, f))

\* The first element that is in S goes in front of all others.
ToFront(seq, S) ==
    IF ToSet(seq) \cap S = {} THEN seq
    ELSE LET i == CHOOSE j \in DOMAIN seq : seq[j] \in S /\ \A k \in 1..(j - 1) : seq[k] \notin S
         IN <<seq[i]>> \o RemoveAt(seq, i)

\* The directives of source that lead to h, numbered.
Numbered(source, here) ==
    [i \in DOMAIN here |-> [source |-> source, occurrence |-> i - 1, from |-> here[i].from]]
ContextsIn(ws, source, h) ==
    Numbered(source, SelectSeq(parseShallowTree(ws, source), LAMBDA d : d.buffer = h))

\* The choice made for h, or for the first of the files that include it that has one.
Preferred(selections, chosen, h) ==
    IF chosen = <<>> THEN None
    ELSE [source |-> selections[chosen[1]].source,
          occurrence |-> IF chosen[1] = h THEN selections[h].occurrence ELSE 0]
IsPreferred(preferred, context) ==
    /\ preferred # None /\ context.source = preferred.source
    /\ context.occurrence = preferred.occurrence

\* The first of them only, if only the selected one is asked for.
Limit(seq, selectedOnly) == IF selectedOnly THEN SubSeq(seq, 1, 1) ELSE seq
PreferredFirst(contexts, preferred) == ToFront(contexts, {c \in ToSet(contexts) : IsPreferred(preferred, c)})
ContextsFrom(ws, sources, h, preferred, selectedOnly) ==
    LET all == [i \in DOMAIN sources |-> ContextsIn(ws, sources[i], h)]
        used == SelectSeq(all, LAMBDA c : c # <<>>)
    IN PreferredFirst(FlattenSeq(Limit(used, selectedOnly)), preferred)
ContextsOf(ws, including, visited, preferred, h, selectedOnly) ==
    LET roots == {f \in ToSet(visited) \ {h} : including[f] = {}}
        first == IF preferred = None THEN {} ELSE {preferred.source}
    IN Limit(ContextsFrom(ws, ToFront(Sorted(roots), first), h, preferred, selectedOnly), selectedOnly)
ContextsVia(ws, including, selections, visited, h, selectedOnly) ==
    LET chosen == SelectSeq(visited, LAMBDA f : f \in DOMAIN selections)
    IN ContextsOf(ws, including, visited, Preferred(selections, chosen, h), h, selectedOnly)
getIncludeContexts(ws, including, selections, h, selectedOnly) ==
    IF including[h] = {} \/ h \in ws.macroOnly \/ h \notin DOMAIN ws.files THEN <<>>
    ELSE ContextsVia(ws, including, selections, Visit(including, <<h>>, <<>>), h, selectedOnly)

Select(contexts, selections, h, selection) ==
    IF \A i \in DOMAIN contexts : ~IsPreferred(selection, contexts[i]) THEN selections
    ELSE [f \in DOMAIN selections \cup {h} |-> IF f = h THEN selection ELSE selections[f]]
setIncludeContext(ws, including, selections, h, selection) ==
    Select(getIncludeContexts(ws, including, selections, h, FALSE), selections, h, selection)
=============================================================================
