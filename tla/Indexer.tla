------------------------------- MODULE Indexer -------------------------------
(***************************************************************************)
(* The workspace index: which files declare, reference or include a name.  *)
(* It is filled by a scan, by the watcher's reports and by saves, and is   *)
(* kept as maps from names to files that have to agree with the entry      *)
(* stored for each file; the answers about includers are cached as well.   *)
(*                                                                         *)
(* Paths are sequences of names without links, so that a path is its       *)
(* canonical form.  The text of a file is abstracted to the names in it.   *)
(* Every operation holds the write guard, so each is one step; only the    *)
(* walk of startIndexing, before the guard is taken, is a step of its own. *)
(***************************************************************************)
EXTENDS Naturals, Sequences, FiniteSets

CONSTANTS Files,        \* paths of SystemVerilog files
          HeaderFiles,  \* those with extension .svh or .vh
          Rank,         \* lexicographic order of the paths
          Names,        \* names of symbols, macros, files and directories
          Contents,     \* Contents[f]: texts that f can have
          Absent,       \* files that do not exist at the start
          Scopes,       \* sets of files that configurations index
          Builds,       \* sets of files that build files list
          SearchDirs,   \* include directories of the driver
          Missing, None,
          MaxSteps      \* bound: changes of files and of the configuration

Kinds == {"symbols", "macros", "references", "headers"}
Paths == Seq(Names)
Text == [modules : SUBSET Names, classes : SUBSET Names, others : SUBSET Names,
         macros : SUBSET Names, uses : SUBSET Names, includes : SUBSET Paths]
\* IndexedPath: what the index stores for a file.
Entry == [symbols : SUBSET Names, macros : SUBSET Names, references : SUBSET Names,
          headers : SUBSET Names, includes : SUBSET Paths]

ASSUME IndexerAssumption ==
    /\ IsFiniteSet(Files) /\ Files \subseteq Paths \ {<<>>}
    /\ HeaderFiles \subseteq Files /\ Rank \in [Files -> Nat]
    /\ \A f, g \in Files : Rank[f] = Rank[g] => f = g
    /\ Contents \in [Files -> SUBSET Text] /\ Missing \notin Text
    /\ Scopes \cup Builds \subseteq SUBSET Files
    /\ None \notin Entry /\ \A S \in SUBSET Files : S # None
    /\ MaxSteps \in Nat

VARIABLES
    disk,       \* texts of the files, or Missing
    known,      \* files whose existence the client has reported
    unseen,     \* files changed since the last report
    inbox,      \* messages of the client
    scope,      \* files that the configuration indexes
    pending,    \* m_configReloadPending
    listing,    \* result of the walk of a scan that has not read the files yet
    index,      \* Indexer
    missed,     \* history: files whose reports were dropped and not made up for
    steps

vars == <<disk, known, unseen, inbox, scope, pending, listing, index, missed, steps>>

-----------------------------------------------------------------------------
(* Paths.                                                                  *)

Parent(p) == SubSeq(p, 1, Len(p) - 1)
FileName(p) == p[Len(p)]
Ends(p, suffix) ==
    /\ Len(suffix) <= Len(p)
    /\ SubSeq(p, Len(p) - Len(suffix) + 1, Len(p)) = suffix
\* The number of leading names that two directories share.
Common(d, e) ==
    Cardinality({n \in 1..Len(d) : n <= Len(e) /\ SubSeq(d, 1, n) = SubSeq(e, 1, n)})
Distance(f, g) ==
    LET d == Parent(f) e == Parent(g) IN Len(d) + Len(e) - 2 * Common(d, e)
Exists(f) == f \in Files /\ disk[f] # Missing
Beside(f, spelling) == Parent(f) \o spelling

\* The files of C nearest to source.
nearestFiles(source, C) ==
    {f \in C : \A g \in C : Distance(f, source) <= Distance(g, source)}
First(C) == CHOOSE f \in C : \A g \in C : Rank[f] <= Rank[g]

nearestInclude(spelling, source, C) ==
    LET found == nearestFiles(source, {f \in C : Ends(f, spelling) /\ Exists(f)})
    IN IF found = {} THEN None ELSE First(found)

-----------------------------------------------------------------------------
(* What a file contributes.                                                *)

Nothing == [symbols |-> {}, macros |-> {}, references |-> {}, headers |-> {}, includes |-> {}]

extractFromRoot(c) == [Nothing EXCEPT !.symbols = c.modules, !.references = c.uses]
extractHeaderSymbols(f, c) ==
    IF c.classes # {} \/ f \in HeaderFiles THEN c.classes \cup c.others ELSE {}
extractMacros(c) == c.macros

\* What a scan or a report reads: nothing of a file that cannot be read, and macros
\* only if there is neither a module nor a class.
indexPaths(f, c) ==
    IF c = Missing THEN Nothing
    ELSE [(IF c.modules # {} THEN extractFromRoot(c) ELSE Nothing)
          EXCEPT !.macros = IF c.modules \cup c.classes = {} THEN extractMacros(c) ELSE {},
                 !.headers = extractHeaderSymbols(f, c),
                 !.includes = c.includes]

\* What a saved document contributes: macros also beside a class.
SavedEntry(f, c) ==
    [extractFromRoot(c) EXCEPT !.macros = IF c.modules = {} THEN extractMacros(c) ELSE {},
                               !.headers = extractHeaderSymbols(f, c),
                               !.includes = c.includes]

-----------------------------------------------------------------------------
(* The index s:                                                            *)
(*   entry      indexedFiles              refs     includeReferences_      *)
(*   maps       the maps from names       parsed   includedFiles_          *)
(*   includers  includers_                cache    resolvedIncluders_      *)
(*   scanned    includeToFiles_           dirs     includeDirectories_     *)

EmptyCache == [f \in Files |-> None]
EmptyIndex ==
    [entry |-> [f \in Files |-> None], maps |-> [k \in Kinds |-> [n \in Names |-> {}]],
     refs |-> [n \in Names |-> {}], parsed |-> [f \in Files |-> None],
     includers |-> [f \in Files |-> {}], cache |-> EmptyCache, scanned |-> {}, dirs |-> {}]

IncludeNames(e) == {FileName(spelling) : spelling \in e.includes}

\* The files of F whose entries have the name n of kind k, or include a file named n;
\* those that were parsed and include t.
Listed(entry, F, k, n) == {f \in F : entry[f] # None /\ n \in entry[f][k]}
Referring(entry, F, n) == {f \in F : entry[f] # None /\ n \in IncludeNames(entry[f])}
Including(parsed, F, t) == {p \in F : parsed[p] # None /\ t \in parsed[p]}

\* tree[p] become the files that p includes, for each p in its domain.
replaceIncludes(s, tree) ==
    [s EXCEPT
        !.cache = EmptyCache,
        !.includers = [t \in Files |-> (@[t] \ Including(s.parsed, DOMAIN tree, t))
                                       \cup {p \in DOMAIN tree : t \in tree[p]}],
        !.parsed = [p \in Files |-> IF p \in DOMAIN tree THEN tree[p] ELSE @[p]]]

\* Variant: header symbols are forgotten.
removePathFromIndex_keepHeaders(s, F) ==
    [s EXCEPT
        !.cache = IF F = {} THEN @ ELSE EmptyCache,
        !.includers = [t \in Files |-> @[t] \ Including(s.parsed, F, t)],
        !.parsed = [p \in Files |-> IF p \in F THEN None ELSE @[p]],
        !.refs = [n \in Names |-> @[n] \ Referring(s.entry, F, n)],
        !.maps = [k \in Kinds |-> [n \in Names |->
                    IF k = "headers" THEN @[k][n] ELSE @[k][n] \ Listed(s.entry, F, k, n)]],
        !.entry = [f \in Files |-> IF f \in F THEN None ELSE @[f]]]
\* The removal of every path of F.  What is removed for one path is what its own entry
\* and its own includes name, so that the order does not matter.
removePathFromIndex(s, F) ==
    [s EXCEPT
        !.cache = IF F = {} THEN @ ELSE EmptyCache,
        !.includers = [t \in Files |-> @[t] \ Including(s.parsed, F, t)],
        !.parsed = [p \in Files |-> IF p \in F THEN None ELSE @[p]],
        !.refs = [n \in Names |-> @[n] \ Referring(s.entry, F, n)],
        !.maps = [k \in Kinds |-> [n \in Names |-> @[k][n] \ Listed(s.entry, F, k, n)]],
        !.entry = [f \in Files |-> IF f \in F THEN None ELSE @[f]]]

\* The entries new[f] of the paths f of F, which replace the ones stored for them.
indexPath(s, F, new) ==
    [removePathFromIndex(s, F) EXCEPT
        !.entry = [f \in Files |-> IF f \in F THEN new[f] ELSE @[f]],
        !.refs = [n \in Names |-> @[n] \cup Referring(new, F, n)],
        !.maps = [k \in Kinds |-> [n \in Names |-> @[k][n] \cup Listed(new, F, k, n)]]]

addDocuments(s, F) == indexPath(s, F, [f \in F |-> indexPaths(f, disk[f])])

-----------------------------------------------------------------------------
(* Questions.                                                              *)

getFilesForSymbol(s, n) == s.maps["symbols"][n]
getHeadersForSymbol(s, n) == s.maps["headers"][n]
getFilesForMacro(s, n) == s.maps["macros"][n]
getFilesReferencingSymbol(s, n) == s.maps["references"][n]

\* A single declaration is the answer wherever it is.
getNearestSymbolLocs(s, n, source) ==
    LET found == getFilesForSymbol(s, n) IN
    IF Cardinality(found) = 1 THEN found ELSE nearestFiles(source, found)

getFilesForInclude(s, spelling) == {f \in s.scanned : Ends(f, spelling)}
getNearestFileForInclude(s, spelling, source) ==
    nearestInclude(spelling, source, {f \in s.scanned : FileName(f) = FileName(spelling)})

\* Where a file that was not parsed is taken to include spelling from.
Speculated(s, f, spelling) ==
    IF Exists(Beside(f, spelling)) THEN Beside(f, spelling)
    ELSE getNearestFileForInclude(s, spelling, f)

\* Parsed includes, and guesses for the files that were not parsed.
ResolveIncluders(s, h) ==
    s.includers[h] \cup
    {f \in s.refs[FileName(h)] :
        /\ s.parsed[f] = None
        /\ \E spelling \in s.entry[f].includes :
              FileName(spelling) = FileName(h) /\ Speculated(s, f, spelling) = h}

\* Answer and cache of getFilesIncluding.
getFilesIncluding(s, h) ==
    IF s.cache[h] # None THEN s
    ELSE [s EXCEPT !.cache[h] = ResolveIncluders(s, h)]

hasPotentialIncluders(s, h) == s.refs[FileName(h)] # {} \/ s.includers[h] # {}

-----------------------------------------------------------------------------
(* Scans.                                                                  *)

\* The directories from which an include that is not beside its file would be found,
\* where exactly one scanned file can be meant.
inferIncludeSearchDirectories(s, F) ==
    LET meant(sp) == {g \in getFilesForInclude(s, sp) : Exists(g)}
        apart(f) == {sp \in s.entry[f].includes :
                        ~Exists(Beside(f, sp)) /\ Cardinality(meant(sp)) = 1}
        directory(g, sp) == SubSeq(g, 1, Len(g) - Len(sp))
    IN UNION {{directory(CHOOSE g \in meant(sp) : TRUE, sp) : sp \in apart(f)} : f \in F}

\* Entries of files outside F stay, without their include references.
indexAndReport(s, F, infer) ==
    LET cleared == [s EXCEPT !.refs = [n \in Names |-> {}],
                             !.parsed = [f \in Files |-> None],
                             !.includers = [f \in Files |-> {}],
                             !.cache = EmptyCache]
        filled == [addDocuments(cleared, F) EXCEPT !.scanned = F]
    IN [filled EXCEPT !.dirs = IF infer THEN inferIncludeSearchDirectories(filled, F) ELSE {}]

excludeDirectories(s, E) ==
    LET pruned == removePathFromIndex([s EXCEPT !.scanned = @ \ E],
                                      {f \in E : s.entry[f] # None})
        F == {f \in pruned.scanned : pruned.entry[f] # None}
    IN [pruned EXCEPT !.dirs = inferIncludeSearchDirectories(pruned, F)]

-----------------------------------------------------------------------------
(* The parsed tree of a driver.                                            *)

\* The file that slang finds for an include, or None.
Found(f, spelling) ==
    LET paths == {d \o spelling : d \in SearchDirs} IN
    IF Exists(Beside(f, spelling)) THEN Beside(f, spelling)
    ELSE IF \E p \in paths : Exists(p) THEN CHOOSE p \in paths : Exists(p) ELSE None
Includes(f) ==
    IF ~Exists(f) THEN {} ELSE {Found(f, sp) : sp \in disk[f].includes} \ {None}
\* The buffers of the trees of the files F: F, what they include, and so on.
Buffers(F) ==
    {g \in Files : \A R \in SUBSET Files :
        F \subseteq R /\ (\A p \in R : Includes(p) \subseteq R) => g \in R}
\* The trees of F, each parsed from the same files: which is taken last does not matter.
updateIncludes(s, F) == replaceIncludes(s, [p \in Buffers(F) |-> Includes(p)])

\* A driver that was created has parsed the files of its build.
DriverCreated(s, B) ==
    LET F == {f \in B : Exists(f)} IN IF F = {} THEN s ELSE updateIncludes(s, F)

\* onDocDidSave of f, whose tree is that of root: f itself, or a file that includes it.
updateDocument(s, f, c, root) ==
    updateIncludes(indexPath(s, {f}, [g \in {f} |-> SavedEntry(g, c)]), {root})

-----------------------------------------------------------------------------
(* Steps.                                                                  *)

Init ==
    /\ disk \in [Files -> (UNION {Contents[f] : f \in Files}) \cup {Missing}]
    /\ \A f \in Files : IF f \in Absent THEN disk[f] = Missing ELSE disk[f] \in Contents[f]
    /\ known = {f \in Files : disk[f] # Missing}
    /\ unseen = {} /\ inbox = <<>>
    /\ scope \in Scopes /\ pending = FALSE
    /\ index = EmptyIndex
    /\ listing = {f \in scope : Exists(f)}
    /\ missed = {} /\ steps = 0

Step == steps < MaxSteps /\ steps' = steps + 1
Idle == listing = None

\* A file is written, created or deleted by anything but the editor.
DiskChanges(f, c) ==
    /\ Step /\ c # disk[f]
    /\ disk' = [disk EXCEPT ![f] = c]
    /\ unseen' = unseen \cup {f}
    /\ UNCHANGED <<known, inbox, scope, pending, listing, index, missed>>

\* The editor writes a file and says so.
Saves(f, c) ==
    /\ Step /\ c # Missing
    /\ disk' = [disk EXCEPT ![f] = c]
    /\ unseen' = unseen \cup {f}
    /\ inbox' = Append(inbox, [type |-> "save", file |-> f, text |-> c])
    /\ UNCHANGED <<known, scope, pending, listing, index, missed>>

\* The watcher reports all that changed; config says that a configuration file did too.
Reports(config) ==
    /\ IF config THEN Step ELSE unseen # {} /\ UNCHANGED steps
    /\ inbox' = Append(inbox, [type |-> "watched", config |-> config,
                               files |-> unseen, created |-> unseen \ known,
                               deleted |-> {f \in unseen : ~Exists(f)}])
    /\ known' = {f \in Files : Exists(f)}
    /\ unseen' = {}
    /\ UNCHANGED <<disk, scope, pending, listing, index, missed>>

Received(type) == Idle /\ inbox # <<>> /\ Head(inbox).type = type /\ inbox' = Tail(inbox)

HandleSave ==
    /\ Received("save")
    /\ \E root \in {Head(inbox).file} \cup ResolveIncluders(index, Head(inbox).file) :
          index' = updateDocument(index, Head(inbox).file, Head(inbox).text, root)
    /\ UNCHANGED <<disk, known, unseen, scope, pending, listing, missed, steps>>

\* Variant: a file that is gone stays in the index.
onWatchedFiles_keepDeleted(s, m) ==
    LET changed == m.files \ (m.created \cup m.deleted)
        removed == removePathFromIndex(s, changed)
    IN addDocuments(removed, (m.created \ m.deleted) \cup {f \in changed : Exists(f)})
\* Indexer::onWorkspaceDidChangeWatchedFiles.
onWatchedFiles(s, m) ==
    LET changed == m.files \ (m.created \cup m.deleted)
        removed == removePathFromIndex(s, changed \cup m.deleted)
    IN addDocuments(removed, (m.created \ m.deleted) \cup {f \in changed : Exists(f)})

HandleWatched ==
    /\ Received("watched") /\ ~pending /\ ~Head(inbox).config
    /\ index' = onWatchedFiles(index, Head(inbox))
    /\ missed' = missed \ Head(inbox).files
    /\ UNCHANGED <<disk, known, unseen, scope, pending, listing, steps>>

\* A changed configuration, or any report while a reload is pending, starts a reload;
\* the other files of the report do not reach the index.
HandleReload(valid) ==
    /\ Received("watched") /\ (pending \/ Head(inbox).config)
    /\ pending' = ~valid
    /\ missed' = missed \cup Head(inbox).files
    /\ IF valid THEN /\ \E S \in Scopes : scope' = S /\ listing' = {f \in S : Exists(f)}
                     /\ \E B \in Builds : index' = DriverCreated(index, B)
                ELSE UNCHANGED <<scope, listing, index>>
    /\ UNCHANGED <<disk, known, unseen, steps>>

\* setBuildFile and setTopLevel create a driver and do not scan.
SelectsBuild(B) ==
    /\ Idle /\ Step
    /\ index' = DriverCreated(index, B)
    /\ UNCHANGED <<disk, known, unseen, inbox, scope, pending, listing, missed>>

\* startIndexing, after its walk.
Scan ==
    /\ ~Idle
    /\ index' = indexAndReport(index, listing, FALSE)
    /\ missed' = missed \ listing
    /\ listing' = None
    /\ UNCHANGED <<disk, known, unseen, inbox, scope, pending, steps>>

\* autoConfigure scans with inference and takes ignored directories out.
AutoConfigure(E) ==
    /\ Idle /\ Step
    /\ LET F == {f \in scope : Exists(f)}
           scan == indexAndReport(index, F, TRUE)
       IN /\ index' = IF E = {} THEN scan ELSE excludeDirectories(scan, E)
          /\ missed' = missed \ (F \cup E)
    /\ scope' = scope \ E
    /\ UNCHANGED <<disk, known, unseen, inbox, pending, listing>>

\* A request asks for the files that include h.
Asks(h) ==
    /\ Idle /\ hasPotentialIncluders(index, h)
    /\ index' = getFilesIncluding(index, h)
    /\ UNCHANGED <<disk, known, unseen, inbox, scope, pending, listing, missed, steps>>

Next ==
    \/ \E f \in Files : \E c \in Contents[f] \cup {Missing} : DiskChanges(f, c) \/ Saves(f, c)
    \/ \E config \in BOOLEAN : Reports(config)
    \/ HandleSave \/ HandleWatched \/ Scan
    \/ \E valid \in BOOLEAN : HandleReload(valid)
    \/ \E E \in {{}} \cup {{f \in Files : Parent(f) = Parent(g)} : g \in Files} : AutoConfigure(E)
    \/ \E B \in Builds : SelectsBuild(B)
    \/ \E h \in Files : Asks(h)

Spec == Init /\ [][Next]_vars

-----------------------------------------------------------------------------
(* Properties.                                                             *)

Index ==
    [entry : [Files -> Entry \cup {None}], maps : [Kinds -> [Names -> SUBSET Files]],
     refs : [Names -> SUBSET Files], parsed : [Files -> (SUBSET Files) \cup {None}],
     includers : [Files -> SUBSET Files], cache : [Files -> (SUBSET Files) \cup {None}],
     scanned : SUBSET Files, dirs : SUBSET Paths]
Messages ==
    [type : {"save"}, file : Files, text : Text]
    \cup [type : {"watched"}, config : BOOLEAN, files : SUBSET Files,
          created : SUBSET Files, deleted : SUBSET Files]

TypeOK ==
    /\ disk \in [Files -> Text \cup {Missing}]
    /\ known \subseteq Files /\ unseen \subseteq Files /\ inbox \in Seq(Messages)
    /\ scope \subseteq Files /\ pending \in BOOLEAN /\ listing \in (SUBSET Files) \cup {None}
    /\ index \in Index /\ missed \subseteq Files /\ steps \in Nat

\* Every map of the index is the inverse of the stored entries, so that nothing is left
\* of a file that was removed or indexed again; an include reference always has the
\* entry that getFilesIncluding reads with at(), and includers_ inverts includedFiles_.
Exact(s) ==
    /\ \A k \in Kinds, n \in Names : s.maps[k][n] = Listed(s.entry, Files, k, n)
    /\ \A n \in Names : s.refs[n] \subseteq Referring(s.entry, Files, n)
    /\ \A t \in Files : s.includers[t] = Including(s.parsed, Files, t)
MapsAreExact == Exact(index)

Settled == Idle /\ inbox = <<>> /\ unseen = {} /\ ~pending

\* Once all reports are handled, a cached answer of getFilesIncluding is the one that
\* would be computed: whatever can change the answer has dropped the cache.
CacheIsFresh ==
    Settled => \A h \in Files : index.cache[h] \in {None, ResolveIncluders(index, h)}

Declares(f, k) == IF Exists(f) THEN indexPaths(f, disk[f])[k] ELSE {}
\* Once all reports are handled, the lookups answer from the files as they are: nothing
\* that is gone, everything in the configured directories, and the nearest declaration.
\* Excepted are files whose reports a reload swallowed and no scan has read since.  The
\* cached answers are no older than the maps.
AnswersAreCurrent ==
    /\ CacheIsFresh
    /\ Settled => \A n \in Names :
         /\ \A f \in Files \ missed, k \in Kinds :
               /\ f \in index.maps[k][n] => n \in Declares(f, k)
               /\ f \in scope /\ n \in Declares(f, k) => f \in index.maps[k][n]
         /\ \A source \in Files : \A f \in getNearestSymbolLocs(index, n, source) :
               \A g \in scope \ missed : n \in Declares(g, "symbols") =>
                   Distance(f, source) <= Distance(g, source)
=============================================================================
