-------------------------------- MODULE Crawl --------------------------------
(* Which directories the index crawls, and what auto-configuration writes      *)
(* about them: the Git ignore rules that become exclusions, the directories    *)
(* suggested as roots of the index, and the include directories it adds.       *)
(*                                                                             *)
(* A path is a sequence of names below the root of the file system.  A disk    *)
(* has directories, SystemVerilog sources and, per directory, a number of      *)
(* other entries.  An entry of the index configuration has roots, excluded     *)
(* names and excluded paths.  A repository has tracked files, submodules and   *)
(* the paths that a rule ignores; the name of such a path stands for its rule. *)
EXTENDS Integers, FiniteSets, FiniteSetsExt, Sequences, SequencesExt

Dir(p) == Front(p)
Name(p) == Last(p)
Under(p, d) == IsPrefix(d, p)
Overlap(p, d) == Under(p, d) \/ Under(d, p)
\* The directories above p that are below root.
Parents(p, root) == {SubSeq(p, 1, n) : n \in (Len(root) + 1)..(Len(p) - 1)}

-----------------------------------------------------------------------------
(* The crawl.                                                                  *)

NoFiles == [files |-> {}, counted |-> {}]

\* The sources below dir, and the directories whose entries were counted.
collectFilesFromDirectory(disk, dir, names, paths) ==
    LET entered == {d \in disk.dirs :
                       /\ Under(d, dir)
                       /\ \A n \in (Len(dir) + 1)..Len(d) : d[n] \notin names /\ SubSeq(d, 1, n) \notin paths}
    IN IF dir \notin disk.dirs \/ ToSet(dir) \cap names # {} \/ \E q \in paths : Under(dir, q)
       THEN NoFiles
       ELSE [files |-> {f \in disk.sources : Dir(f) \in entered}, counted |-> entered]

\* Entries of a directory: its subdirectories, its sources and its other entries.
Entries(disk, d) ==
    disk.others[d] + Cardinality({p \in disk.dirs \cup disk.sources : Len(p) > 0 /\ Dir(p) = d})

usesDefaultWorkspaceIndex(config, root) ==
    \A i \in DOMAIN config : config[i].dirs # {} /\ \A d \in config[i].dirs : ~Overlap(d, root)

Crawls(disk, config, root) ==
    (IF usesDefaultWorkspaceIndex(config, root)
     THEN {collectFilesFromDirectory(disk, root, {}, {})} ELSE {})
    \cup UNION {{collectFilesFromDirectory(disk, d, config[i].names, config[i].paths) :
                    d \in config[i].dirs} : i \in DOMAIN config}
IndexOf(disk, crawls) ==
    [files |-> UNION {c.files : c \in crawls},
     counts |-> [d \in {e \in UNION {c.counted : c \in crawls} : Entries(disk, e) > 0} |-> Entries(disk, d)]]
startIndexing(disk, config, root) == IndexOf(disk, Crawls(disk, config, root))

\* The index without the excluded directories.
excludeDirectories(index, dirs) ==
    LET kept(p) == ~\E d \in dirs : Under(p, d) IN
    [files |-> {f \in index.files : kept(Dir(f))},
     counts |-> [d \in {e \in DOMAIN index.counts : kept(e)} |-> index.counts[d]]]

-----------------------------------------------------------------------------
(* Roots that are worth a crawl of their own.                                  *)

TakesWhole(hasSources, below, parentCost, cost) == hasSources \/ (below # {} /\ parentCost <= cost)

\* The cheapest directories below d that hold all sources below d; d itself when it has
\* sources, or when its crawl costs no more than theirs.
RECURSIVE selectRoots(_, _, _, _, _)
selectRoots(index, known, penalty, root, d) ==
    LET children == {selectRoots(index, known, penalty, root, e) :
                        e \in {k \in known : Len(k) = Len(d) + 1 /\ Under(k, d)}}
        below == UNION {c.dirs : c \in children}
        entries == (IF d \in DOMAIN index.counts THEN index.counts[d] ELSE 0)
                   + FoldSet(LAMBDA c, n : c.entries + n, 0, children)
        cost == FoldSet(LAMBDA c, n : c.cost + n, 0, children)
        whole == d # root /\ TakesWhole(\E f \in index.files : Dir(f) = d, below, entries + penalty, cost)
    IN [at |-> d, entries |-> entries,
        cost |-> IF whole THEN entries + penalty ELSE cost,
        dirs |-> IF whole THEN {d} ELSE below]

\* Every further root has to save a twentieth of the entries, and at least 32.
RootPenalty(index, root) ==
    LET inside == {d \in DOMAIN index.counts : Under(d, root)} IN
    Max({32, FoldSet(LAMBDA d, n : index.counts[d] + n, 0, inside) \div 20})

getSuggestedIndexDirectories(index, root) ==
    LET sources == {Dir(f) : f \in {g \in index.files : Under(g, root)}}
        named == sources \cup {d \in DOMAIN index.counts : Under(d, root)}
        known == {root} \cup named \cup UNION {Parents(d, root) : d \in named}
    IN IF DOMAIN index.counts = {} \/ root \in sources THEN {}
       ELSE selectRoots(index, known, RootPenalty(index, root), root, root).dirs

-----------------------------------------------------------------------------
(* Git ignore rules.                                                           *)

\* A rule that matches a directory holds for all below it.
checkIgnore(repo, root, p) == \E n \in (Len(root) + 1)..Len(p) : SubSeq(p, 1, n) \in repo.ignored

WithParents(P, root) == P \cup UNION {Parents(p, root) : p \in P}

\* A bug: the sources outside of the workspace are not considered.
ProtectedNames_inside(root, outside, protected) == ToSet(root) \cup {Name(d) : d \in protected}

\* The names that must not be excluded, because a directory that has to stay has them.
ProtectedNames(root, outside, protected) ==
    ToSet(root) \cup UNION {ToSet(Dir(f)) : f \in outside} \cup {Name(d) : d \in protected}

\* The indexed files and the directories that may be excluded, and those of the directories
\* whose name may be excluded wherever it occurs.
getGitIgnoreMatches(index, root, excluded, repo) ==
    LET inside(P) == {p \in P : Under(p, root) /\ p # root}
        files == inside(index.files)
        outside == index.files \ files
        directories == WithParents(inside(DOMAIN index.counts \cup excluded), root)
                       \cup UNION {Parents(f, root) : f \in files}
        tracked == repo.tracked \cup repo.submodules
        guarded == repo.submodules \cup UNION {Parents(t, root) : t \in tracked}
        queries == {p \in (files \ tracked) \cup (directories \ guarded) :
                       ~\E s \in repo.submodules : Under(p, s)}
        ignored == {p \in queries : checkIgnore(repo, root, p)}
        protected == guarded \cup UNION {Parents(f, root) : f \in files \ ignored}
        candidates == (ignored \cap directories) \ protected
        selected == {d \in candidates : Parents(d, root) \cap candidates = {}}
    IN [files |-> ignored \cap files, directories |-> selected,
        names |-> {Name(d) : d \in selected} \ ProtectedNames(root, outside, protected)]

-----------------------------------------------------------------------------
(* Auto-configuration.                                                         *)

indexesDirectory(entry, d) == \E r \in entry.dirs : Overlap(d, r)

\* An entry whose root is the workspace crawls the suggested directories instead.
Narrowed(entry, root, suggested) ==
    IF suggested = {} \/ root \notin entry.dirs THEN entry
    ELSE [entry EXCEPT !.dirs = (@ \ {root}) \cup suggested]
\* An excluded name replaces the excluded paths below the directory it was found for.
Excluding(entry, dirs, names) ==
    LET here == {d \in dirs : indexesDirectory(entry, d)}
        byName == {d \in here : Name(d) \in names}
    IN [entry EXCEPT !.names = @ \cup {Name(d) : d \in byName},
                     !.paths = {p \in @ : ~\E d \in byName : Under(p, d)} \cup (here \ byName)]

\* The entries with the directories to exclude and the suggested roots.
Written(own, entries, suggested, inferred, names, root) ==
    LET written == [i \in DOMAIN entries |-> Excluding(Narrowed(entries[i], root, suggested), inferred, names)]
    IN IF suggested = {} /\ written = entries THEN own ELSE written
Configured(own, inherited, entries, matches, crawled, root) ==
    LET inferred == {d \in matches.directories :
                        /\ ~\E i \in DOMAIN inherited : indexesDirectory(inherited[i], d)
                        /\ \E i \in DOMAIN entries : indexesDirectory(entries[i], d)}
        missing(entry, d) ==
            /\ indexesDirectory(entry, d)
            /\ IF Name(d) \in matches.names THEN Name(d) \notin entry.names ELSE d \notin entry.paths
        index == IF \E i \in DOMAIN entries, d \in inferred : missing(entries[i], d)
                 THEN excludeDirectories(crawled, inferred) ELSE crawled
        suggested == IF \E i \in DOMAIN entries : root \in entries[i].dirs
                     THEN getSuggestedIndexDirectories(index, root) ELSE {}
    IN Written(own, entries, suggested, inferred, matches.names, root)
\* The workspace's entries of the index configuration after auto-configuration; the entries
\* of the user's configuration come after them and are not written.
autoConfigure(disk, own, inherited, repo, root) ==
    LET config == own \o inherited
        entries == IF usesDefaultWorkspaceIndex(config, root)
                   THEN Append(own, [dirs |-> {root}, names |-> {}, paths |-> {}]) ELSE own
        crawled == startIndexing(disk, config, root)
        matches == getGitIgnoreMatches(crawled, root, UNION {own[i].paths : i \in DOMAIN own}, repo)
    IN Configured(own, inherited, entries, matches, crawled, root)
=============================================================================
