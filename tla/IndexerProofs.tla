---------------------------- MODULE IndexerProofs ----------------------------
(***************************************************************************)
(* Proofs about the workspace index.                                       *)
(***************************************************************************)
EXTENDS Indexer, FiniteSetTheorems, SequenceTheorems, TLAPS

-----------------------------------------------------------------------------
(* The inductive invariant.                                                *)

Reported(i, f) == inbox[i].type = "watched" /\ f \in inbox[i].files
\* The watcher has still to report f, or its report is behind place i of the inbox.
ReportedAfter(i, f) == f \in unseen \/ \E j \in DOMAIN inbox : i < j /\ Reported(j, f)

\* What the index stores for f is what a scan would read from it now; nothing at all is
\* stored only for a file that does not exist or is not to be indexed.
Fits(e, f, c, S) ==
    IF e = None THEN f \notin S \/ c = Missing
    ELSE \A k \in Kinds : e[k] = IF c = Missing THEN {} ELSE indexPaths(f, c)[k]
Current(f) == Fits(index.entry[f], f, disk[f], scope)

\* A file whose entry is not current will be read by the scan under way, or is going to
\* be reported, or is one that a reload passed over.
StaleIsAwaited ==
    \A f \in Files \ missed :
        Current(f) \/ ReportedAfter(0, f) \/ (~Idle /\ f \in listing)

\* The editor's own write of a saved file is reported behind the save.
SavesAreReported ==
    \A i \in DOMAIN inbox :
        inbox[i].type = "save" => ReportedAfter(i, inbox[i].file)

\* A report tells of its own files, and a file that it says is gone either is or is
\* reported again behind it.
DeletedAreGone ==
    \A i \in DOMAIN inbox : inbox[i].type = "watched" =>
        /\ inbox[i].created \cup inbox[i].deleted \subseteq inbox[i].files
        /\ inbox[i].config \/ inbox[i].files # {}
        /\ \A f \in inbox[i].deleted : ~Exists(f) \/ ReportedAfter(i, f)

\* Something is under way that drops the cache.
WillDrop == pending \/ ~Idle \/ \E f \in Files : ReportedAfter(0, f)
StaleIsDropped ==
    \A h \in Files : index.cache[h] \in {None, ResolveIncluders(index, h)} \/ WillDrop

-----------------------------------------------------------------------------
(* What the operations do to an index.                                     *)

LEMMA EntriesAreTyped ==
    ASSUME NEW f \in Files, NEW c \in Text \cup {Missing}
    PROVE  indexPaths(f, c) \in Entry /\ (c # Missing => SavedEntry(f, c) \in Entry)
<1> USE IndexerAssumption DEF Text, Entry, Nothing, extractFromRoot, extractMacros,
        extractHeaderSymbols
<1>1. c # Missing => SavedEntry(f, c) \in Entry  BY DEF SavedEntry
<1>2. CASE c = Missing  BY <1>1, <1>2 DEF indexPaths
<1>3. CASE c # Missing /\ c.modules # {}  BY <1>1, <1>3 DEF indexPaths
<1>4. CASE c # Missing /\ c.modules = {}  BY <1>1, <1>4 DEF indexPaths
<1> QED  BY <1>2, <1>3, <1>4

LEMMA EmptyIndexIsExact == EmptyIndex \in Index /\ Exact(EmptyIndex)
BY IndexerAssumption DEF EmptyIndex, EmptyCache, Index, Exact, Listed, Referring, Including

LEMMA ReplaceIncludesExact ==
    ASSUME NEW s \in Index, Exact(s), NEW D \in SUBSET Files, NEW tree \in [D -> SUBSET Files]
    PROVE  LET r == replaceIncludes(s, tree) IN
           /\ r \in Index /\ Exact(r)
           /\ r.entry = s.entry /\ r.cache = EmptyCache
<1>1. PICK r : r = replaceIncludes(s, tree)  OBVIOUS
<1> USE DEF replaceIncludes
<1>2. DOMAIN tree = D  OBVIOUS
<1>3. r \in Index /\ r.entry = s.entry /\ r.cache = EmptyCache /\ r.maps = s.maps /\ r.refs = s.refs
  BY <1>1, <1>2 DEF Index, EmptyCache
<1>4. \A t \in Files : r.includers[t] = Including(r.parsed, Files, t)
  <2> TAKE t \in Files
  <2>1. s.includers[t] = Including(s.parsed, Files, t)  BY DEF Exact
  <2>2. r.includers[t] = (s.includers[t] \ Including(s.parsed, D, t)) \cup {p \in D : t \in tree[p]}
    BY <1>1, <1>2 DEF Index
  <2>3. \A p \in Files : r.parsed[p] = IF p \in D THEN tree[p] ELSE s.parsed[p]
    BY <1>1, <1>2 DEF Index
  <2>4. \A p \in D : tree[p] # None  BY IndexerAssumption
  <2> QED  BY <2>1, <2>2, <2>3, <2>4 DEF Including
<1> QED  BY <1>1, <1>3, <1>4 DEF Exact

LEMMA RemoveExact ==
    ASSUME NEW s \in Index, Exact(s), NEW F \in SUBSET Files
    PROVE  LET r == removePathFromIndex(s, F) IN
           /\ r \in Index /\ Exact(r)
           /\ \A f \in Files : r.entry[f] = IF f \in F THEN None ELSE s.entry[f]
           /\ r.cache = IF F = {} THEN s.cache ELSE EmptyCache
<1>1. PICK r : r = removePathFromIndex(s, F)  OBVIOUS
<1> USE DEF removePathFromIndex
<1>2. r \in Index /\ r.cache = IF F = {} THEN s.cache ELSE EmptyCache
  <2>1. PICK en, ma, re, pa, ic, ca :
          /\ r = [s EXCEPT !.cache = ca, !.includers = ic, !.parsed = pa, !.refs = re,
                           !.maps = ma, !.entry = en]
          /\ ca = IF F = {} THEN s.cache ELSE EmptyCache
          /\ ic = [t \in Files |-> s.includers[t] \ Including(s.parsed, F, t)]
          /\ pa = [p \in Files |-> IF p \in F THEN None ELSE s.parsed[p]]
          /\ re = [n \in Names |-> s.refs[n] \ Referring(s.entry, F, n)]
          /\ ma = [k \in Kinds |-> [n \in Names |-> s.maps[k][n] \ Listed(s.entry, F, k, n)]]
          /\ en = [f \in Files |-> IF f \in F THEN None ELSE s.entry[f]]
    BY <1>1
  <2>2. ca \in [Files -> (SUBSET Files) \cup {None}]  BY <2>1 DEF Index, EmptyCache
  <2>3. ic \in [Files -> SUBSET Files]  BY <2>1 DEF Index
  <2>4. pa \in [Files -> (SUBSET Files) \cup {None}]  BY <2>1 DEF Index
  <2>5. re \in [Names -> SUBSET Files]  BY <2>1 DEF Index
  <2>6. ma \in [Kinds -> [Names -> SUBSET Files]]  BY <2>1 DEF Index
  <2>7. en \in [Files -> Entry \cup {None}]  BY <2>1 DEF Index
  <2>8. r = [s EXCEPT !.cache = ca, !.includers = ic, !.parsed = pa, !.refs = re,
                      !.maps = ma, !.entry = en]
    BY <2>1
  <2>9. r \in Index /\ r.cache = ca
    BY <2>2, <2>3, <2>4, <2>5, <2>6, <2>7, <2>8 DEF Index
  <2> QED  BY <2>1, <2>9
<1>3. \A f \in Files : r.entry[f] = IF f \in F THEN None ELSE s.entry[f]  BY <1>1 DEF Index
<1>4. \A f \in Files : r.parsed[f] = IF f \in F THEN None ELSE s.parsed[f]  BY <1>1 DEF Index
<1>5. \A k \in Kinds, n \in Names : r.maps[k][n] = Listed(r.entry, Files, k, n)
  <2> TAKE k \in Kinds, n \in Names
  <2>1. r.maps[k][n] = s.maps[k][n] \ Listed(s.entry, F, k, n)  BY <1>1 DEF Index
  <2>2. s.maps[k][n] = Listed(s.entry, Files, k, n)  BY DEF Exact
  <2> QED  BY <1>3, <2>1, <2>2 DEF Listed
<1>6. \A n \in Names : r.refs[n] \subseteq Referring(r.entry, Files, n)
  <2> TAKE n \in Names
  <2>1. r.refs[n] = s.refs[n] \ Referring(s.entry, F, n)  BY <1>1 DEF Index
  <2>2. s.refs[n] \subseteq Referring(s.entry, Files, n)  BY DEF Exact
  <2> QED  BY <1>3, <2>1, <2>2 DEF Referring
<1>7. \A t \in Files : r.includers[t] = Including(r.parsed, Files, t)
  <2> TAKE t \in Files
  <2>1. r.includers[t] = s.includers[t] \ Including(s.parsed, F, t)  BY <1>1 DEF Index
  <2>2. s.includers[t] = Including(s.parsed, Files, t)  BY DEF Exact
  <2> QED  BY <1>4, <2>1, <2>2 DEF Including
<1> QED  BY <1>1, <1>2, <1>3, <1>5, <1>6, <1>7 DEF Exact

LEMMA IndexPathExact ==
    ASSUME NEW s \in Index, Exact(s), NEW F \in SUBSET Files, NEW new \in [F -> Entry]
    PROVE  LET r == indexPath(s, F, new) IN
           /\ r \in Index /\ Exact(r)
           /\ \A f \in Files : r.entry[f] = IF f \in F THEN new[f] ELSE s.entry[f]
           /\ r.cache = IF F = {} THEN s.cache ELSE EmptyCache
           /\ r.scanned = s.scanned
<1>1. PICK q : q = removePathFromIndex(s, F)  OBVIOUS
<1>2. /\ q \in Index /\ Exact(q)
      /\ \A f \in Files : q.entry[f] = IF f \in F THEN None ELSE s.entry[f]
      /\ q.cache = IF F = {} THEN s.cache ELSE EmptyCache
  BY <1>1, RemoveExact
<1>3. q.scanned = s.scanned  BY <1>1 DEF removePathFromIndex, Index
<1>4. PICK r : r = indexPath(s, F, new)  OBVIOUS
<1>5. r = [q EXCEPT
        !.entry = [f \in Files |-> IF f \in F THEN new[f] ELSE @[f]],
        !.refs = [n \in Names |-> @[n] \cup Referring(new, F, n)],
        !.maps = [k \in Kinds |-> [n \in Names |-> @[k][n] \cup Listed(new, F, k, n)]]]
  BY <1>1, <1>4 DEF indexPath
<1>6. r \in Index /\ r.cache = q.cache /\ r.scanned = q.scanned /\ r.parsed = q.parsed
      /\ r.includers = q.includers
  <2>1. \A n \in Names : Referring(new, F, n) \subseteq Files  BY DEF Referring
  <2>2. \A k \in Kinds, n \in Names : Listed(new, F, k, n) \subseteq Files  BY DEF Listed
  <2>3. PICK en, ma, re :
          /\ r = [q EXCEPT !.entry = en, !.refs = re, !.maps = ma]
          /\ en = [f \in Files |-> IF f \in F THEN new[f] ELSE q.entry[f]]
          /\ re = [n \in Names |-> q.refs[n] \cup Referring(new, F, n)]
          /\ ma = [k \in Kinds |-> [n \in Names |-> q.maps[k][n] \cup Listed(new, F, k, n)]]
    BY <1>5
  <2>4. en \in [Files -> Entry \cup {None}]  BY <1>2, <2>3 DEF Index
  <2>5. re \in [Names -> SUBSET Files]  BY <1>2, <2>1, <2>3 DEF Index
  <2>6. ma \in [Kinds -> [Names -> SUBSET Files]]  BY <1>2, <2>2, <2>3 DEF Index
  <2>7. r = [q EXCEPT !.entry = en, !.refs = re, !.maps = ma]  BY <2>3
  <2> QED  BY <1>2, <2>4, <2>5, <2>6, <2>7 DEF Index
<1>7. \A f \in Files : r.entry[f] = IF f \in F THEN new[f] ELSE q.entry[f]
  BY <1>2, <1>5 DEF Index
<1>8. \A f \in F : new[f] # None  BY IndexerAssumption
<1>9. \A k \in Kinds, n \in Names : r.maps[k][n] = Listed(r.entry, Files, k, n)
  <2> TAKE k \in Kinds, n \in Names
  <2>1. r.maps[k][n] = q.maps[k][n] \cup Listed(new, F, k, n)  BY <1>2, <1>5 DEF Index
  <2>2. q.maps[k][n] = Listed(q.entry, Files, k, n)  BY <1>2 DEF Exact
  <2> QED  BY <1>2, <1>7, <1>8, <2>1, <2>2 DEF Listed
<1>10. \A n \in Names : r.refs[n] \subseteq Referring(r.entry, Files, n)
  <2> TAKE n \in Names
  <2>1. r.refs[n] = q.refs[n] \cup Referring(new, F, n)  BY <1>2, <1>5 DEF Index
  <2>2. q.refs[n] \subseteq Referring(q.entry, Files, n)  BY <1>2 DEF Exact
  <2> QED  BY <1>2, <1>7, <1>8, <2>1, <2>2 DEF Referring
<1> QED  BY <1>2, <1>3, <1>4, <1>6, <1>7, <1>9, <1>10 DEF Exact

LEMMA AddDocumentsExact ==
    ASSUME disk \in [Files -> Text \cup {Missing}],
           NEW s \in Index, Exact(s), NEW F \in SUBSET Files
    PROVE  LET r == addDocuments(s, F) IN
           /\ r \in Index /\ Exact(r)
           /\ \A f \in Files : r.entry[f] = IF f \in F THEN indexPaths(f, disk[f]) ELSE s.entry[f]
           /\ r.cache = IF F = {} THEN s.cache ELSE EmptyCache
           /\ r.scanned = s.scanned
<1>1. PICK new : new = [f \in F |-> indexPaths(f, disk[f])]  OBVIOUS
<1>2. new \in [F -> Entry]
  <2>1. \A f \in F : disk[f] \in Text \cup {Missing}  OBVIOUS
  <2>2. \A f \in F : indexPaths(f, disk[f]) \in Entry  BY <2>1, EntriesAreTyped
  <2> QED  BY <1>1, <2>2
<1>3. addDocuments(s, F) = indexPath(s, F, new)  BY <1>1 DEF addDocuments
<1>4. \A f \in F : new[f] = indexPaths(f, disk[f])  BY <1>1
<1> QED  BY <1>2, <1>3, <1>4, IndexPathExact

LEMMA IncludesAreFiles == ASSUME NEW f PROVE Includes(f) \subseteq Files
<1>1. \A sp : Found(f, sp) \in Files \cup {None}  BY DEF Found, Exists
<1> QED  BY <1>1 DEF Includes

LEMMA UpdateIncludesExact ==
    ASSUME NEW s \in Index, Exact(s), NEW F
    PROVE  LET r == updateIncludes(s, F) IN
           /\ r \in Index /\ Exact(r)
           /\ r.entry = s.entry /\ r.cache = EmptyCache
<1>1. PICK D : D = Buffers(F)  OBVIOUS
<1>2. D \in SUBSET Files  BY <1>1 DEF Buffers
<1>3. PICK tree : tree = [p \in D |-> Includes(p)]  OBVIOUS
<1>4. tree \in [D -> SUBSET Files]  BY <1>3, IncludesAreFiles
<1>5. updateIncludes(s, F) = replaceIncludes(s, tree)  BY <1>1, <1>3 DEF updateIncludes
<1> QED  BY <1>2, <1>4, <1>5, ReplaceIncludesExact

LEMMA DriverCreatedExact ==
    ASSUME NEW s \in Index, Exact(s), NEW B
    PROVE  LET r == DriverCreated(s, B) IN
           /\ r \in Index /\ Exact(r) /\ r.entry = s.entry
           /\ r = s \/ r.cache = EmptyCache
<1>1. PICK F : F = {f \in B : Exists(f)}  OBVIOUS
<1>2. DriverCreated(s, B) = IF F = {} THEN s ELSE updateIncludes(s, F)
  BY <1>1 DEF DriverCreated
<1> QED  BY <1>2, UpdateIncludesExact

LEMMA UpdateDocumentExact ==
    ASSUME NEW s \in Index, Exact(s), NEW f \in Files, NEW c \in Text, NEW root
    PROVE  LET r == updateDocument(s, f, c, root) IN
           /\ r \in Index /\ Exact(r)
           /\ \A g \in Files \ {f} : r.entry[g] = s.entry[g]
           /\ r.cache = EmptyCache
<1>1. PICK new : new = [g \in {f} |-> SavedEntry(g, c)]  OBVIOUS
<1>2. new \in [{f} -> Entry]  BY <1>1, EntriesAreTyped, IndexerAssumption
<1>3. {f} \in SUBSET Files  OBVIOUS
<1>4. PICK q : q = indexPath(s, {f}, new)  OBVIOUS
<1>5. q \in Index /\ Exact(q) /\ \A g \in Files \ {f} : q.entry[g] = s.entry[g]
  BY <1>2, <1>3, <1>4, IndexPathExact
<1>6. updateDocument(s, f, c, root) = updateIncludes(q, {root})
  BY <1>1, <1>4 DEF updateDocument
<1> QED  BY <1>5, <1>6, UpdateIncludesExact

LEMMA InferredArePaths ==
    ASSUME NEW s \in Index, NEW F \in SUBSET Files, \A f \in F : s.entry[f] # None
    PROVE  inferIncludeSearchDirectories(s, F) \subseteq Paths
<1> DEFINE meant(sp) == {g \in getFilesForInclude(s, sp) : Exists(g)}
           apart(f) == {sp \in s.entry[f].includes :
                           ~Exists(Beside(f, sp)) /\ Cardinality(meant(sp)) = 1}
           directory(g, sp) == SubSeq(g, 1, Len(g) - Len(sp))
<1>1. ASSUME NEW f \in F, NEW sp \in apart(f)
      PROVE  directory(CHOOSE g \in meant(sp) : TRUE, sp) \in Paths
  <2>1. s.entry[f] \in Entry  BY DEF Index
  <2>2. sp \in Paths  BY <2>1 DEF Entry
  <2>3. meant(sp) # {}  BY FS_EmptySet
  <2>4. PICK g : g = CHOOSE h \in meant(sp) : TRUE  OBVIOUS
  <2>5. g \in meant(sp)  BY <2>3, <2>4
  <2>6. g \in Paths /\ Len(sp) <= Len(g)
    BY <2>5, IndexerAssumption DEF getFilesForInclude, Ends, Index
  <2>7. 1 \in 1..(Len(g) + 1) /\ (Len(g) - Len(sp)) \in (1 - 1)..Len(g)
    BY <2>2, <2>6 DEF Paths
  <2>8. SubSeq(g, 1, Len(g) - Len(sp)) \in Paths  BY <2>6, <2>7, SubSeqProperties DEF Paths
  <2> QED  BY <2>4, <2>8
<1>2. inferIncludeSearchDirectories(s, F)
        = UNION {{directory(CHOOSE g \in meant(sp) : TRUE, sp) : sp \in apart(f)} : f \in F}
  BY DEF inferIncludeSearchDirectories
<1> HIDE DEF meant, apart, directory
<1> QED  BY <1>1, <1>2

LEMMA IndexAndReportExact ==
    ASSUME disk \in [Files -> Text \cup {Missing}],
           NEW s \in Index, Exact(s), NEW F \in SUBSET Files, NEW infer \in BOOLEAN
    PROVE  LET r == indexAndReport(s, F, infer) IN
           /\ r \in Index /\ Exact(r)
           /\ \A f \in Files : r.entry[f] = IF f \in F THEN indexPaths(f, disk[f]) ELSE s.entry[f]
           /\ r.cache = EmptyCache
<1>1. PICK q : q = [s EXCEPT !.refs = [n \in Names |-> {}], !.parsed = [f \in Files |-> None],
                             !.includers = [f \in Files |-> {}], !.cache = EmptyCache]
  OBVIOUS
<1>2. q \in Index /\ q.entry = s.entry /\ q.cache = EmptyCache /\ q.maps = s.maps
      /\ q.refs = [n \in Names |-> {}] /\ q.parsed = [f \in Files |-> None]
      /\ q.includers = [f \in Files |-> {}]
  BY <1>1 DEF Index, EmptyCache
<1>3. Exact(q)
  <2>1. \A t \in Files : Including(q.parsed, Files, t) = {}  BY <1>2 DEF Including
  <2> QED  BY <1>2, <2>1 DEF Exact
<1>4. PICK u : u = addDocuments(q, F)  OBVIOUS
<1>5. /\ u \in Index /\ Exact(u) /\ u.cache = EmptyCache
      /\ \A f \in Files : u.entry[f] = IF f \in F THEN indexPaths(f, disk[f]) ELSE q.entry[f]
  BY <1>2, <1>3, <1>4, AddDocumentsExact
<1>6. PICK v : v = [u EXCEPT !.scanned = F]  OBVIOUS
<1>7. v \in Index /\ v.entry = u.entry /\ v.cache = u.cache /\ v.maps = u.maps
      /\ v.refs = u.refs /\ v.parsed = u.parsed /\ v.includers = u.includers
  BY <1>5, <1>6 DEF Index
<1>8. \A f \in F : v.entry[f] # None
  <2>1. \A f \in F : disk[f] \in Text \cup {Missing}  OBVIOUS
  <2>2. \A f \in F : indexPaths(f, disk[f]) \in Entry  BY <2>1, EntriesAreTyped
  <2> QED  BY <1>5, <1>7, <2>2, IndexerAssumption
<1>9. PICK D : D = IF infer THEN inferIncludeSearchDirectories(v, F) ELSE {}  OBVIOUS
<1>10. D \subseteq Paths  BY <1>7, <1>8, <1>9, InferredArePaths
<1>11. PICK r : r = [v EXCEPT !.dirs = D]  OBVIOUS
<1>12. r \in Index /\ r.entry = v.entry /\ r.cache = v.cache /\ r.maps = v.maps
      /\ r.refs = v.refs /\ r.parsed = v.parsed /\ r.includers = v.includers
  BY <1>7, <1>10, <1>11 DEF Index
<1>13. indexAndReport(s, F, infer) = r
  BY <1>1, <1>4, <1>6, <1>9, <1>11 DEF indexAndReport
<1>14. Exact(r)  BY <1>5, <1>7, <1>12 DEF Exact
<1> QED  BY <1>2, <1>5, <1>7, <1>12, <1>13, <1>14

LEMMA ExcludeExact ==
    ASSUME NEW s \in Index, Exact(s), s.cache = EmptyCache, NEW E \in SUBSET Files
    PROVE  LET r == excludeDirectories(s, E) IN
           /\ r \in Index /\ Exact(r)
           /\ \A f \in Files : r.entry[f] = IF f \in E THEN None ELSE s.entry[f]
           /\ r.cache = EmptyCache
<1>1. PICK q : q = [s EXCEPT !.scanned = @ \ E]  OBVIOUS
<1>2. q \in Index /\ q.entry = s.entry /\ q.cache = s.cache /\ q.maps = s.maps
      /\ q.refs = s.refs /\ q.parsed = s.parsed /\ q.includers = s.includers
  BY <1>1 DEF Index
<1>3. Exact(q)  BY <1>2 DEF Exact
<1>4. PICK G : G = {f \in E : s.entry[f] # None}  OBVIOUS
<1>5. PICK u : u = removePathFromIndex(q, G)  OBVIOUS
<1>6. /\ u \in Index /\ Exact(u) /\ u.cache = EmptyCache
      /\ \A f \in Files : u.entry[f] = IF f \in G THEN None ELSE q.entry[f]
  <2>1. G \in SUBSET Files  BY <1>4
  <2> QED  BY <1>2, <1>3, <1>5, <2>1, RemoveExact
<1>7. PICK F : F = {f \in u.scanned : u.entry[f] # None}  OBVIOUS
<1>8. PICK D : D = inferIncludeSearchDirectories(u, F)  OBVIOUS
<1>9. D \subseteq Paths
  <2>1. F \in SUBSET Files /\ \A f \in F : u.entry[f] # None  BY <1>6, <1>7 DEF Index
  <2> QED  BY <1>6, <1>8, <2>1, InferredArePaths
<1>10. PICK r : r = [u EXCEPT !.dirs = D]  OBVIOUS
<1>11. r \in Index /\ r.entry = u.entry /\ r.cache = u.cache /\ r.maps = u.maps
       /\ r.refs = u.refs /\ r.parsed = u.parsed /\ r.includers = u.includers
  BY <1>6, <1>9, <1>10 DEF Index
<1>12. excludeDirectories(s, E) = r
  BY <1>1, <1>4, <1>5, <1>7, <1>8, <1>10 DEF excludeDirectories
<1>13. Exact(r)  BY <1>6, <1>11 DEF Exact
<1>14. \A f \in Files : r.entry[f] = IF f \in E THEN None ELSE s.entry[f]
  BY <1>2, <1>4, <1>6, <1>11
<1> QED  BY <1>6, <1>11, <1>12, <1>13, <1>14

Updates == [type : {"watched"}, config : BOOLEAN, files : SUBSET Files,
            created : SUBSET Files, deleted : SUBSET Files]

LEMMA OnWatchedFilesExact ==
    ASSUME disk \in [Files -> Text \cup {Missing}],
           NEW s \in Index, Exact(s), NEW m \in Updates,
           m.created \cup m.deleted \subseteq m.files, m.files # {}
    PROVE  LET r == onWatchedFiles(s, m) IN
           /\ r \in Index /\ Exact(r) /\ r.cache = EmptyCache
           /\ \A f \in Files \ m.files : r.entry[f] = s.entry[f]
           /\ \A f \in m.files : \/ r.entry[f] = indexPaths(f, disk[f])
                                 \/ r.entry[f] = None /\ (f \in m.deleted \/ ~Exists(f))
<1>1. PICK C : C = m.files \ (m.created \cup m.deleted)  OBVIOUS
<1>2. PICK G : G = C \cup m.deleted  OBVIOUS
<1>3. PICK A : A = (m.created \ m.deleted) \cup {f \in C : Exists(f)}  OBVIOUS
<1>4. G \in SUBSET Files /\ A \in SUBSET Files /\ G \subseteq m.files /\ A \subseteq m.files
  BY <1>1, <1>2, <1>3 DEF Updates
<1>5. PICK u : u = removePathFromIndex(s, G)  OBVIOUS
<1>6. /\ u \in Index /\ Exact(u) /\ u.cache = IF G = {} THEN s.cache ELSE EmptyCache
      /\ \A f \in Files : u.entry[f] = IF f \in G THEN None ELSE s.entry[f]
  BY <1>4, <1>5, RemoveExact
<1>7. PICK r : r = addDocuments(u, A)  OBVIOUS
<1>8. /\ r \in Index /\ Exact(r) /\ r.cache = IF A = {} THEN u.cache ELSE EmptyCache
      /\ \A f \in Files : r.entry[f] = IF f \in A THEN indexPaths(f, disk[f]) ELSE u.entry[f]
  BY <1>4, <1>6, <1>7, AddDocumentsExact
<1>9. onWatchedFiles(s, m) = r  BY <1>1, <1>2, <1>3, <1>5, <1>7 DEF onWatchedFiles
<1>10. r.cache = EmptyCache
  <2>1. G # {} \/ A # {}  BY <1>1, <1>2, <1>3
  <2> QED  BY <1>6, <1>8, <2>1
<1>11. \A f \in Files \ m.files : r.entry[f] = s.entry[f]  BY <1>4, <1>6, <1>8
<1>12. ASSUME NEW f \in m.files
       PROVE  \/ r.entry[f] = indexPaths(f, disk[f])
              \/ r.entry[f] = None /\ (f \in m.deleted \/ ~Exists(f))
  <2>1. f \in Files  BY DEF Updates
  <2>2. CASE f \in A  BY <1>8, <2>1, <2>2
  <2>3. CASE f \notin A
    <3>1. f \in G /\ (f \in m.deleted \/ ~Exists(f))  BY <1>1, <1>2, <1>3, <2>3
    <3> QED  BY <1>6, <1>8, <2>1, <2>3, <3>1
  <2> QED  BY <2>2, <2>3
<1> QED  BY <1>8, <1>9, <1>10, <1>11, <1>12

-----------------------------------------------------------------------------
(* Types and exactness.                                                    *)

LEMMA InitExact == Init => TypeOK /\ MapsAreExact
<1> SUFFICES ASSUME Init PROVE TypeOK /\ MapsAreExact  OBVIOUS
<1>1. disk \in [Files -> Text \cup {Missing}]  BY IndexerAssumption DEF Init
<1>2. scope \subseteq Files /\ listing \in SUBSET Files  BY IndexerAssumption DEF Init
<1>3. inbox \in Seq(Messages)  BY DEF Init
<1>5. known \subseteq Files /\ unseen \subseteq Files /\ missed \subseteq Files  BY DEF Init
<1>6. pending \in BOOLEAN /\ steps \in Nat  BY DEF Init
<1>4. index = EmptyIndex  BY DEF Init
<1> QED  BY <1>1, <1>2, <1>3, <1>4, <1>5, <1>6, EmptyIndexIsExact DEF TypeOK, MapsAreExact

LEMMA HeadOfInbox ==
    ASSUME TypeOK, NEW type, Received(type)
    PROVE  /\ Len(inbox) \in Nat \ {0} /\ 1 \in DOMAIN inbox
           /\ Head(inbox) = inbox[1] /\ Head(inbox) \in Messages
           /\ inbox[1].type = type
           /\ inbox' = Tail(inbox) /\ inbox' \in Seq(Messages)
           /\ Len(inbox') = Len(inbox) - 1
           /\ \A i \in 1..Len(inbox') : inbox'[i] = inbox[i + 1]
           /\ Idle
BY HeadTailProperties DEF TypeOK, Received

LEMMA WatchedMessage ==
    ASSUME NEW m \in Messages, m.type = "watched" PROVE m \in Updates
BY DEF Messages, Updates

LEMMA SaveMessage ==
    ASSUME NEW m \in Messages, m.type = "save" PROVE m.file \in Files /\ m.text \in Text
BY DEF Messages

LEMMA ResolvedAreFiles ==
    ASSUME NEW s \in Index, NEW h \in Files PROVE ResolveIncluders(s, h) \subseteq Files
<1>1. h \in Seq(Names) /\ h # <<>>  BY IndexerAssumption DEF Paths
<1>2. Len(h) \in 1..Len(h)  BY <1>1, EmptySeq
<1>3. FileName(h) \in Names  BY <1>1, <1>2 DEF FileName
<1> QED  BY <1>3 DEF ResolveIncluders, Index

LEMMA ExactStep ==
    ASSUME TypeOK, MapsAreExact, DeletedAreGone, [Next]_vars
    PROVE  TypeOK' /\ MapsAreExact'
<1>0. disk \in [Files -> Text \cup {Missing}] /\ index \in Index /\ Exact(index)
  BY DEF TypeOK, MapsAreExact
<1>1. ASSUME NEW f \in Files, NEW c \in Contents[f] \cup {Missing}, DiskChanges(f, c)
      PROVE  TypeOK' /\ MapsAreExact'
  <2>1. c \in Text \cup {Missing}  BY IndexerAssumption
  <2>2. index' = index  BY <1>1 DEF DiskChanges
  <2>3. disk' \in [Files -> Text \cup {Missing}]  BY <1>0, <1>1, <2>1 DEF DiskChanges
  <2>4. TypeOK'  BY <1>1, <2>3, IndexerAssumption DEF DiskChanges, Step, TypeOK
  <2> QED  BY <1>0, <2>2, <2>4 DEF MapsAreExact
<1>2. ASSUME NEW f \in Files, NEW c \in Contents[f] \cup {Missing}, Saves(f, c)
      PROVE  TypeOK' /\ MapsAreExact'
  <2>1. c \in Text  BY <1>2, IndexerAssumption DEF Saves
  <2>2. index' = index  BY <1>2 DEF Saves
  <2>3. disk' \in [Files -> Text \cup {Missing}]  BY <1>0, <1>2, <2>1 DEF Saves
  <2>4. [type |-> "save", file |-> f, text |-> c] \in Messages  BY <2>1 DEF Messages
  <2>5. inbox' \in Seq(Messages)  BY <1>2, <2>4 DEF Saves, TypeOK
  <2>6. TypeOK'  BY <1>2, <2>3, <2>5, IndexerAssumption DEF Saves, Step, TypeOK
  <2> QED  BY <1>0, <2>2, <2>6 DEF MapsAreExact
<1>3. ASSUME NEW config \in BOOLEAN, Reports(config)
      PROVE  TypeOK' /\ MapsAreExact'
  <2>1. PICK m : m = [type |-> "watched", config |-> config,
                      files |-> unseen, created |-> unseen \ known,
                      deleted |-> {f \in unseen : ~Exists(f)}]
    OBVIOUS
  <2>2. m \in Messages  BY <2>1 DEF Messages, TypeOK
  <2>3. inbox' = Append(inbox, m)  BY <1>3, <2>1 DEF Reports
  <2>4. inbox' \in Seq(Messages)  BY <2>2, <2>3 DEF TypeOK
  <2>5. known' \subseteq Files /\ unseen' = {} /\ steps' \in Nat
    BY <1>3, IndexerAssumption DEF Reports, Step, TypeOK
  <2>6. UNCHANGED <<disk, scope, pending, listing, index, missed>>  BY <1>3 DEF Reports
  <2>7. TypeOK'  BY <2>4, <2>5, <2>6 DEF TypeOK
  <2> QED  BY <1>0, <2>6, <2>7 DEF MapsAreExact
<1>4. ASSUME HandleSave PROVE TypeOK' /\ MapsAreExact'
  <2>1. Received("save")  BY <1>4 DEF HandleSave
  <2>2. Head(inbox) \in Messages /\ Head(inbox).type = "save" /\ inbox' \in Seq(Messages)
    BY <2>1, HeadOfInbox
  <2>3. Head(inbox).file \in Files /\ Head(inbox).text \in Text  BY <2>2, SaveMessage
  <2>4. PICK f, c, root : f = Head(inbox).file /\ c = Head(inbox).text
                          /\ index' = updateDocument(index, f, c, root)
    BY <1>4 DEF HandleSave
  <2>5. index' \in Index /\ Exact(index')  BY <1>0, <2>3, <2>4, UpdateDocumentExact
  <2>6. UNCHANGED <<disk, known, unseen, scope, pending, listing, missed, steps>>
    BY <1>4 DEF HandleSave
  <2>7. TypeOK'  BY <2>2, <2>5, <2>6 DEF TypeOK
  <2> QED  BY <2>5, <2>7 DEF MapsAreExact
<1>5. ASSUME HandleWatched PROVE TypeOK' /\ MapsAreExact'
  <2>1. Received("watched") /\ ~Head(inbox).config  BY <1>5 DEF HandleWatched
  <2>2. Head(inbox) = inbox[1] /\ 1 \in DOMAIN inbox /\ inbox[1].type = "watched"
        /\ inbox' \in Seq(Messages) /\ Head(inbox) \in Messages
    BY <2>1, HeadOfInbox
  <2>3. PICK m : m = Head(inbox)  OBVIOUS
  <2>4. m \in Updates  BY <2>2, <2>3, WatchedMessage
  <2>5. m.created \cup m.deleted \subseteq m.files /\ m.files # {}
    BY <2>1, <2>2, <2>3 DEF DeletedAreGone
  <2>6. index' = onWatchedFiles(index, m) /\ missed' = missed \ m.files
    BY <1>5, <2>3 DEF HandleWatched
  <2>7. index' \in Index /\ Exact(index')  BY <1>0, <2>4, <2>5, <2>6, OnWatchedFilesExact
  <2>8. UNCHANGED <<disk, known, unseen, scope, pending, listing, steps>>
    BY <1>5 DEF HandleWatched
  <2>9. TypeOK'  BY <2>2, <2>6, <2>7, <2>8 DEF TypeOK
  <2> QED  BY <2>7, <2>9 DEF MapsAreExact
<1>6. ASSUME Scan PROVE TypeOK' /\ MapsAreExact'
  <2>1. listing \in SUBSET Files  BY <1>6 DEF Scan, Idle, TypeOK
  <2>2. index' = indexAndReport(index, listing, FALSE)  BY <1>6 DEF Scan
  <2>3. index' \in Index /\ Exact(index')  BY <1>0, <2>1, <2>2, IndexAndReportExact
  <2>4. TypeOK'  BY <1>6, <2>3 DEF Scan, TypeOK
  <2> QED  BY <2>3, <2>4 DEF MapsAreExact
<1>7. ASSUME NEW valid \in BOOLEAN, HandleReload(valid) PROVE TypeOK' /\ MapsAreExact'
  <2>1. Received("watched")  BY <1>7 DEF HandleReload
  <2>2. Head(inbox) \in Messages /\ Head(inbox).type = "watched" /\ inbox' \in Seq(Messages)
    BY <2>1, HeadOfInbox
  <2>3. Head(inbox).files \subseteq Files  BY <2>2, WatchedMessage DEF Updates
  <2>4. missed' \subseteq Files /\ pending' \in BOOLEAN
    BY <1>7, <2>3 DEF HandleReload, TypeOK
  <2>5. /\ scope' \subseteq Files /\ listing' \in (SUBSET Files) \cup {None}
        /\ index' \in Index /\ Exact(index')
    <3>1. CASE valid
      <4>1. PICK S \in Scopes : scope' = S /\ listing' = {f \in S : Exists(f)}
        BY <1>7, <3>1 DEF HandleReload
      <4>2. PICK B \in Builds : index' = DriverCreated(index, B)
        BY <1>7, <3>1 DEF HandleReload
      <4>3. index' \in Index /\ Exact(index')  BY <1>0, <4>2, DriverCreatedExact
      <4> QED  BY <4>1, <4>3, IndexerAssumption
    <3>2. CASE ~valid
      <4>1. UNCHANGED <<scope, listing, index>>  BY <1>7, <3>2 DEF HandleReload
      <4> QED  BY <1>0, <4>1 DEF TypeOK
    <3> QED  BY <3>1, <3>2
  <2>6. UNCHANGED <<disk, known, unseen, steps>>  BY <1>7 DEF HandleReload
  <2>7. TypeOK'  BY <2>2, <2>4, <2>5, <2>6 DEF TypeOK
  <2> QED  BY <2>5, <2>7 DEF MapsAreExact
<1>8. ASSUME NEW E \in SUBSET Files, AutoConfigure(E) PROVE TypeOK' /\ MapsAreExact'
  <2>1. PICK F : F = {f \in scope : Exists(f)}  OBVIOUS
  <2>2. PICK q : q = indexAndReport(index, F, TRUE)  OBVIOUS
  <2>3. F \in SUBSET Files  BY <2>1 DEF TypeOK
  <2>4. q \in Index /\ Exact(q) /\ q.cache = EmptyCache
    BY <1>0, <2>2, <2>3, IndexAndReportExact
  <2>5. index' = (IF E = {} THEN q ELSE excludeDirectories(q, E))
        /\ missed' = missed \ (F \cup E) /\ scope' = scope \ E
    BY <1>8, <2>1, <2>2 DEF AutoConfigure
  <2>6. index' \in Index /\ Exact(index')  BY <2>4, <2>5, ExcludeExact
  <2>7. /\ UNCHANGED <<disk, known, unseen, inbox, pending, listing>>
        /\ steps' \in Nat
    BY <1>8 DEF AutoConfigure, Step, TypeOK
  <2>8. scope' \subseteq Files /\ missed' \subseteq Files  BY <2>5 DEF TypeOK
  <2>9. TypeOK'  BY <2>6, <2>7, <2>8 DEF TypeOK
  <2> QED  BY <2>6, <2>9 DEF MapsAreExact
<1>9. ASSUME NEW B \in Builds, SelectsBuild(B) PROVE TypeOK' /\ MapsAreExact'
  <2>1. index' = DriverCreated(index, B)  BY <1>9 DEF SelectsBuild
  <2>2. index' \in Index /\ Exact(index')  BY <1>0, <2>1, DriverCreatedExact
  <2>3. TypeOK'  BY <1>9, <2>2, IndexerAssumption DEF SelectsBuild, Step, TypeOK
  <2> QED  BY <2>2, <2>3 DEF MapsAreExact
<1>10. ASSUME NEW h \in Files, Asks(h) PROVE TypeOK' /\ MapsAreExact'
  <2>1. index' = getFilesIncluding(index, h)  BY <1>10 DEF Asks
  <2>2. PICK A : A = ResolveIncluders(index, h)  OBVIOUS
  <2>3. A \subseteq Files  BY <1>0, <2>2, ResolvedAreFiles
  <2>4. PICK C : C = [index.cache EXCEPT ![h] = A]  OBVIOUS
  <2>8. C \in [Files -> (SUBSET Files) \cup {None}]  BY <1>0, <2>3, <2>4 DEF Index
  <2>9. index' = index \/ index' = [index EXCEPT !.cache = C]
    BY <2>1, <2>2, <2>4 DEF getFilesIncluding
  <2>5. index' \in Index /\ index'.entry = index.entry /\ index'.maps = index.maps
        /\ index'.refs = index.refs /\ index'.parsed = index.parsed
        /\ index'.includers = index.includers
    BY <1>0, <2>8, <2>9 DEF Index
  <2>6. Exact(index')  BY <1>0, <2>5 DEF Exact
  <2>7. TypeOK'  BY <1>10, <2>5 DEF Asks, TypeOK
  <2> QED  BY <2>6, <2>7 DEF MapsAreExact
<1>11. ASSUME UNCHANGED vars PROVE TypeOK' /\ MapsAreExact'
  <2>1. TypeOK'  BY <1>11 DEF vars, TypeOK
  <2>2. index' = index  BY <1>11 DEF vars
  <2> QED  BY <1>0, <2>1, <2>2 DEF MapsAreExact
<1> QED  BY <1>1, <1>2, <1>3, <1>4, <1>5, <1>6, <1>7, <1>8, <1>9, <1>10, <1>11 DEF Next

-----------------------------------------------------------------------------
(* Reports that are still to come.                                         *)

LEMMA SentKeepsReports ==
    ASSUME TypeOK, NEW m \in Messages, inbox' = Append(inbox, m),
           unseen \subseteq unseen' \/ (m.type = "watched" /\ unseen \subseteq m.files),
           NEW i \in 0..Len(inbox), NEW f, ReportedAfter(i, f)
    PROVE  ReportedAfter(i, f)'
<1>1. PICK n : n = Len(inbox) + 1  OBVIOUS
<1>2. n \in Nat /\ i < n /\ DOMAIN inbox = 1..(n - 1)  BY <1>1 DEF TypeOK
<1>3. DOMAIN inbox' = 1..n /\ inbox'[n] = m /\ \A j \in DOMAIN inbox : inbox'[j] = inbox[j]
  BY <1>1 DEF TypeOK
<1>4. CASE f \in unseen
  <2>1. CASE f \in unseen'  BY <2>1 DEF ReportedAfter
  <2>2. CASE m.type = "watched" /\ f \in m.files
    <3>1. n \in DOMAIN inbox' /\ i < n  BY <1>2, <1>3
    <3>2. inbox'[n].type = "watched" /\ f \in inbox'[n].files  BY <1>3, <2>2
    <3> QED  BY <3>1, <3>2 DEF ReportedAfter, Reported
  <2> QED  BY <1>4, <2>1, <2>2
<1>5. CASE f \notin unseen
  <2>1. PICK j \in DOMAIN inbox : i < j /\ Reported(j, f)  BY <1>5 DEF ReportedAfter
  <2>2. j \in DOMAIN inbox' /\ inbox'[j] = inbox[j]  BY <1>2, <1>3
  <2> QED  BY <2>1, <2>2 DEF ReportedAfter, Reported
<1> QED  BY <1>4, <1>5

LEMMA ReceivedKeepsReports ==
    ASSUME TypeOK, NEW type, Received(type), unseen' = unseen,
           NEW i \in Nat, NEW f, ReportedAfter(i + 1, f)
    PROVE  ReportedAfter(i, f)'
<1>1. CASE f \in unseen  BY <1>1 DEF ReportedAfter
<1>2. CASE f \notin unseen
  <2>1. PICK j \in DOMAIN inbox : i + 1 < j /\ Reported(j, f)  BY <1>2 DEF ReportedAfter
  <2>2. j \in 1..Len(inbox)  BY DEF TypeOK
  <2>3. PICK k : k = j - 1  OBVIOUS
  <2>4. k \in 1..(Len(inbox) - 1) /\ i < k  BY <2>1, <2>2, <2>3, HeadOfInbox
  <2>5. k \in DOMAIN inbox' /\ inbox'[k] = inbox[j]
    <3>1. inbox' \in Seq(Messages) /\ k \in 1..Len(inbox')  BY <2>4, HeadOfInbox
    <3>2. inbox'[k] = inbox[k + 1]  BY <3>1, HeadOfInbox
    <3> QED  BY <2>2, <2>3, <3>1, <3>2
  <2> QED  BY <2>1, <2>4, <2>5 DEF ReportedAfter, Reported
<1> QED  BY <1>1, <1>2

\* A report that is not the one received is still behind it.
LEMMA OthersStayReported ==
    ASSUME TypeOK, NEW type, Received(type), unseen' = unseen,
           NEW f, ReportedAfter(0, f), ~Reported(1, f)
    PROVE  ReportedAfter(0, f)'
<1>1. ReportedAfter(1, f)
  <2>1. CASE f \in unseen  BY <2>1 DEF ReportedAfter
  <2>2. CASE f \notin unseen
    <3>1. PICK j \in DOMAIN inbox : 0 < j /\ Reported(j, f)  BY <2>2 DEF ReportedAfter
    <3>2. j \in Nat /\ j # 1  BY <3>1 DEF TypeOK
    <3> QED  BY <3>1, <3>2 DEF ReportedAfter
  <2> QED  BY <2>1, <2>2
<1>2. ReportedAfter(0 + 1, f)  BY <1>1
<1> QED  BY <1>2, ReceivedKeepsReports

\* Saves and deletions wait for the same reports while neither files nor messages change.
LEMMA QuietKeepsOrder ==
    ASSUME SavesAreReported, DeletedAreGone, UNCHANGED <<disk, unseen, inbox>>
    PROVE  SavesAreReported' /\ DeletedAreGone'
BY DEF SavesAreReported, DeletedAreGone, ReportedAfter, Reported, Exists

LEMMA ReceivedKeepsOrder ==
    ASSUME TypeOK, SavesAreReported, DeletedAreGone,
           NEW type, Received(type), UNCHANGED <<disk, unseen>>
    PROVE  SavesAreReported' /\ DeletedAreGone'
<1>1. ASSUME NEW i \in DOMAIN inbox'
      PROVE  i \in Nat /\ i + 1 \in DOMAIN inbox /\ inbox'[i] = inbox[i + 1]
  <2>1. inbox' \in Seq(Messages) /\ i \in 1..Len(inbox')  BY HeadOfInbox
  <2>2. Len(inbox') = Len(inbox) - 1 /\ Len(inbox) \in Nat /\ inbox'[i] = inbox[i + 1]
    BY <2>1, HeadOfInbox
  <2> QED  BY <2>1, <2>2 DEF TypeOK
<1>2. SavesAreReported'
  <2>1. ASSUME NEW i \in DOMAIN inbox', inbox'[i].type = "save"
        PROVE  \/ inbox'[i].file \in unseen'
               \/ \E j \in DOMAIN inbox' :
                     i < j /\ inbox'[j].type = "watched" /\ inbox'[i].file \in inbox'[j].files
    <3>1. PICK f : f = inbox'[i].file  OBVIOUS
    <3>2. ReportedAfter(i + 1, f)  BY <1>1, <2>1, <3>1 DEF SavesAreReported
    <3>3. ReportedAfter(i, f)'  BY <1>1, <3>2, ReceivedKeepsReports
    <3> QED  BY <3>1, <3>3 DEF ReportedAfter, Reported
  <2> QED  BY <2>1 DEF SavesAreReported, ReportedAfter, Reported
<1>3. DeletedAreGone'
  <2>1. ASSUME NEW i \in DOMAIN inbox', inbox'[i].type = "watched"
        PROVE  /\ inbox'[i].created \cup inbox'[i].deleted \subseteq inbox'[i].files
               /\ inbox'[i].config \/ inbox'[i].files # {}
               /\ \A f \in inbox'[i].deleted : ~Exists(f)' \/ ReportedAfter(i, f)'
    <3>1. i + 1 \in DOMAIN inbox /\ inbox'[i] = inbox[i + 1] /\ i \in Nat  BY <1>1
    <3>2. /\ inbox'[i].created \cup inbox'[i].deleted \subseteq inbox'[i].files
          /\ inbox'[i].config \/ inbox'[i].files # {}
          /\ \A f \in inbox'[i].deleted : ~Exists(f) \/ ReportedAfter(i + 1, f)
      BY <2>1, <3>1 DEF DeletedAreGone
    <3>3. ASSUME NEW f \in inbox'[i].deleted PROVE ~Exists(f)' \/ ReportedAfter(i, f)'
      <4>1. CASE ~Exists(f)  BY <4>1 DEF Exists
      <4>2. CASE ReportedAfter(i + 1, f)  BY <3>1, <4>2, ReceivedKeepsReports
      <4> QED  BY <3>2, <4>1, <4>2
    <3> QED  BY <3>2, <3>3
  <2> QED  BY <2>1 DEF DeletedAreGone
<1> QED  BY <1>2, <1>3

\* The same for the steps of the client: DiskChanges, Saves and Reports.
LEMMA SentKeepsOrder ==
    ASSUME TypeOK, SavesAreReported, DeletedAreGone,
           NEW m \in Messages, inbox' = Append(inbox, m),
           unseen \subseteq unseen' \/ (m.type = "watched" /\ unseen \subseteq m.files),
           \A f \in Files : Exists(f)' => Exists(f) \/ f \in unseen',
           m.type = "save" => m.file \in unseen',
           m.type = "watched" =>
               /\ m.created \cup m.deleted \subseteq m.files /\ (m.config \/ m.files # {})
               /\ \A f \in m.deleted : ~Exists(f)'
    PROVE  SavesAreReported' /\ DeletedAreGone'
<1>1. PICK n : n = Len(inbox) + 1  OBVIOUS
<1>2. n \in Nat /\ DOMAIN inbox = 1..(n - 1) /\ DOMAIN inbox' = 1..n /\ inbox'[n] = m
  BY <1>1 DEF TypeOK
<1>3. \A i \in DOMAIN inbox : i \in 0..Len(inbox) /\ inbox'[i] = inbox[i]
  BY DEF TypeOK
<1>4. \A i \in DOMAIN inbox' : i = n \/ i \in DOMAIN inbox  BY <1>2
<1>5. SavesAreReported'
  <2>1. ASSUME NEW i \in DOMAIN inbox', inbox'[i].type = "save"
        PROVE  \/ inbox'[i].file \in unseen'
               \/ \E j \in DOMAIN inbox' :
                     i < j /\ inbox'[j].type = "watched" /\ inbox'[i].file \in inbox'[j].files
    <3>1. CASE i = n  BY <1>2, <2>1, <3>1
    <3>2. CASE i \in DOMAIN inbox
      <4>1. PICK f : f = inbox'[i].file  OBVIOUS
      <4>2. ReportedAfter(i, f)  BY <1>3, <2>1, <3>2, <4>1 DEF SavesAreReported
      <4>3. i \in 0..Len(inbox)  BY <1>3, <3>2
      <4>4. ReportedAfter(i, f)'  BY <4>2, <4>3, SentKeepsReports
      <4> QED  BY <4>1, <4>4 DEF ReportedAfter, Reported
    <3> QED  BY <1>4, <3>1, <3>2
  <2> QED  BY <2>1 DEF SavesAreReported, ReportedAfter, Reported
<1>6. DeletedAreGone'
  <2>1. ASSUME NEW i \in DOMAIN inbox', inbox'[i].type = "watched"
        PROVE  /\ inbox'[i].created \cup inbox'[i].deleted \subseteq inbox'[i].files
               /\ inbox'[i].config \/ inbox'[i].files # {}
               /\ \A f \in inbox'[i].deleted : ~Exists(f)' \/ ReportedAfter(i, f)'
    <3>1. CASE i = n  BY <1>2, <2>1, <3>1
    <3>2. CASE i \in DOMAIN inbox
      <4>1. i \in 0..Len(inbox) /\ inbox'[i] = inbox[i]  BY <1>3, <3>2
      <4>2. /\ inbox'[i].created \cup inbox'[i].deleted \subseteq inbox'[i].files
            /\ inbox'[i].config \/ inbox'[i].files # {}
            /\ \A f \in inbox'[i].deleted : ~Exists(f) \/ ReportedAfter(i, f)
        BY <2>1, <3>2, <4>1 DEF DeletedAreGone
      <4>3. ASSUME NEW f \in inbox'[i].deleted PROVE ~Exists(f)' \/ ReportedAfter(i, f)'
        <5>1. f \in Files \/ ~Exists(f)'  BY DEF Exists
        <5>2. CASE ReportedAfter(i, f)  BY <4>1, <5>2, SentKeepsReports
        <5>3. CASE f \in unseen'  BY <5>3 DEF ReportedAfter
        <5> QED  BY <4>2, <5>1, <5>2, <5>3
      <4> QED  BY <4>2, <4>3
    <3> QED  BY <1>4, <3>1, <3>2
  <2> QED  BY <2>1 DEF DeletedAreGone
<1> QED  BY <1>5, <1>6

LEMMA ChangeKeepsOrder ==
    ASSUME SavesAreReported, DeletedAreGone, inbox' = inbox, unseen \subseteq unseen',
           \A f \in Files : Exists(f)' => Exists(f) \/ f \in unseen'
    PROVE  SavesAreReported' /\ DeletedAreGone'
<1>1. \A i, f : ReportedAfter(i, f) => ReportedAfter(i, f)'  BY DEF ReportedAfter, Reported
<1>2. SavesAreReported'  BY DEF SavesAreReported, ReportedAfter, Reported
<1>3. \A f : Exists(f)' => f \in Files  BY DEF Exists
<1>4. \A i, f : f \in unseen' => ReportedAfter(i, f)'  BY DEF ReportedAfter
<1>5. DeletedAreGone'
  <2> SUFFICES ASSUME NEW i \in DOMAIN inbox, inbox[i].type = "watched"
               PROVE  /\ inbox[i].created \cup inbox[i].deleted \subseteq inbox[i].files
                      /\ inbox[i].config \/ inbox[i].files # {}
                      /\ \A f \in inbox[i].deleted : ~Exists(f)' \/ ReportedAfter(i, f)'
    BY DEF DeletedAreGone
  <2> QED  BY <1>1, <1>3, <1>4 DEF DeletedAreGone
<1> QED  BY <1>2, <1>5

LEMMA OrderStep ==
    ASSUME TypeOK, TypeOK', SavesAreReported, DeletedAreGone, [Next]_vars
    PROVE  SavesAreReported' /\ DeletedAreGone'
<1>1. ASSUME NEW f \in Files, NEW c \in Contents[f] \cup {Missing}, DiskChanges(f, c)
      PROVE  SavesAreReported' /\ DeletedAreGone'
  <2>1. inbox' = inbox /\ unseen' = unseen \cup {f} /\ disk' = [disk EXCEPT ![f] = c]
    BY <1>1 DEF DiskChanges
  <2>2. \A g \in Files : Exists(g)' => Exists(g) \/ g \in unseen'  BY <2>1 DEF Exists, TypeOK
  <2> QED  BY <2>1, <2>2, ChangeKeepsOrder
<1>2. ASSUME NEW f \in Files, NEW c \in Contents[f] \cup {Missing}, Saves(f, c)
      PROVE  SavesAreReported' /\ DeletedAreGone'
  <2>1. PICK m : m = [type |-> "save", file |-> f, text |-> c]  OBVIOUS
  <2>2. inbox' = Append(inbox, m) /\ unseen' = unseen \cup {f} /\ disk' = [disk EXCEPT ![f] = c]
    BY <1>2, <2>1 DEF Saves
  <2>3. m \in Messages /\ m.type = "save" /\ m.file = f
    BY <1>2, <2>1, IndexerAssumption DEF Messages, Saves
  <2>4. \A g \in Files : Exists(g)' => Exists(g) \/ g \in unseen'  BY <2>2 DEF Exists, TypeOK
  <2> QED  BY <2>2, <2>3, <2>4, SentKeepsOrder
<1>3. ASSUME NEW config \in BOOLEAN, Reports(config) PROVE SavesAreReported' /\ DeletedAreGone'
  <2>1. PICK m : m = [type |-> "watched", config |-> config,
                      files |-> unseen, created |-> unseen \ known,
                      deleted |-> {f \in unseen : ~Exists(f)}]
    OBVIOUS
  <2>2. m \in Messages /\ m.type = "watched" /\ m.files = unseen
        /\ m.created \cup m.deleted \subseteq m.files
        /\ m.config = config /\ m.deleted = {f \in unseen : ~Exists(f)}
    BY <2>1 DEF Messages, TypeOK
  <2>3. inbox' = Append(inbox, m) /\ disk' = disk /\ (config \/ unseen # {})
    BY <1>3, <2>1 DEF Reports
  <2>4. \A f : Exists(f)' <=> Exists(f)  BY <2>3 DEF Exists
  <2> QED  BY <2>2, <2>3, <2>4, SentKeepsOrder
<1>4. ASSUME HandleSave PROVE SavesAreReported' /\ DeletedAreGone'
  BY <1>4, ReceivedKeepsOrder DEF HandleSave
<1>5. ASSUME HandleWatched PROVE SavesAreReported' /\ DeletedAreGone'
  BY <1>5, ReceivedKeepsOrder DEF HandleWatched
<1>6. ASSUME NEW valid \in BOOLEAN, HandleReload(valid) PROVE SavesAreReported' /\ DeletedAreGone'
  BY <1>6, ReceivedKeepsOrder DEF HandleReload
<1>7. ASSUME Scan PROVE SavesAreReported' /\ DeletedAreGone'
  BY <1>7, QuietKeepsOrder DEF Scan
<1>8. ASSUME NEW E, AutoConfigure(E) PROVE SavesAreReported' /\ DeletedAreGone'
  BY <1>8, QuietKeepsOrder DEF AutoConfigure
<1>9. ASSUME NEW B, SelectsBuild(B) PROVE SavesAreReported' /\ DeletedAreGone'
  BY <1>9, QuietKeepsOrder DEF SelectsBuild
<1>10. ASSUME NEW h, Asks(h) PROVE SavesAreReported' /\ DeletedAreGone'
  BY <1>10, QuietKeepsOrder DEF Asks
<1>11. ASSUME UNCHANGED vars PROVE SavesAreReported' /\ DeletedAreGone'
  BY <1>11, QuietKeepsOrder DEF vars
<1> QED  BY <1>1, <1>2, <1>3, <1>4, <1>5, <1>6, <1>7, <1>8, <1>9, <1>10, <1>11 DEF Next

-----------------------------------------------------------------------------
(* The maps and every answer from them.                                    *)

ExactInv == TypeOK /\ MapsAreExact /\ SavesAreReported /\ DeletedAreGone

LEMMA ExactInvariance == Spec => []ExactInv
<1>1. Init => ExactInv
  <2>1. Init => SavesAreReported /\ DeletedAreGone
    BY DEF Init, SavesAreReported, DeletedAreGone
  <2> QED  BY <2>1, InitExact DEF ExactInv
<1>2. ExactInv /\ [Next]_vars => ExactInv'  BY ExactStep, OrderStep DEF ExactInv
<1> QED  BY <1>1, <1>2, PTL DEF Spec

\* The state keeps its type: every file of an index, of a report and of a scan is one of
\* the workspace, and every stored entry is one that the parser can produce.
THEOREM TypeCorrect == Spec => []TypeOK
<1>1. ExactInv => TypeOK  BY DEF ExactInv
<1> QED  BY <1>1, ExactInvariance, PTL

\* However scans, saves, reports, reloads and drivers interleave, the maps of Indexer are
\* the inverses of the entries stored in indexedFiles: removePathFromIndex leaves nothing
\* of a file behind, and getFilesIncluding always finds the entry it reads with at().
THEOREM IndexIsExact == Spec => []MapsAreExact
<1>1. ExactInv => MapsAreExact  BY DEF ExactInv
<1> QED  BY <1>1, ExactInvariance, PTL

-----------------------------------------------------------------------------
(* Entries that are not current.                                           *)

LEMMA ReadFits ==
    ASSUME NEW f \in Files, NEW c \in Text \cup {Missing}, NEW S
    PROVE  Fits(indexPaths(f, c), f, c, S)
<1>1. indexPaths(f, c) # None  BY EntriesAreTyped, IndexerAssumption
<1>2. CASE c = Missing  BY <1>1, <1>2 DEF Fits, indexPaths, Nothing, Kinds
<1>3. CASE c # Missing  BY <1>1, <1>3 DEF Fits
<1> QED  BY <1>2, <1>3

LEMMA ExistsIffText == ASSUME NEW f \in Files PROVE Exists(f) <=> disk[f] # Missing
BY DEF Exists

\* One file at a time: f was not awaited in vain, and is current or awaited again.
Awaited(f) == Current(f) \/ ReportedAfter(0, f) \/ (~Idle /\ f \in listing)

LEMMA EntriesKept ==
    ASSUME NEW f \in Files, StaleIsAwaited, f \notin missed,
           index'.entry[f] = index.entry[f],
           UNCHANGED <<disk, unseen, inbox, scope, listing>>
    PROVE  Awaited(f)'
<1>1. Awaited(f)  BY DEF StaleIsAwaited, Awaited
<1> QED  BY <1>1 DEF Awaited, Current, ReportedAfter, Reported, Idle

LEMMA AwaitedStep ==
    ASSUME TypeOK, MapsAreExact, SavesAreReported, DeletedAreGone, StaleIsAwaited, [Next]_vars
    PROVE  StaleIsAwaited'
<1> SUFFICES ASSUME NEW f \in Files, f \notin missed' PROVE Awaited(f)'
  BY DEF StaleIsAwaited, Awaited
<1>0. /\ disk \in [Files -> Text \cup {Missing}] /\ index \in Index /\ Exact(index)
      /\ disk[f] \in Text \cup {Missing}
  BY DEF TypeOK, MapsAreExact
<1>a. f \notin missed => Awaited(f)  BY DEF StaleIsAwaited, Awaited
<1>1. ASSUME NEW g \in Files, NEW c \in Contents[g] \cup {Missing}, DiskChanges(g, c)
      PROVE  Awaited(f)'
  <2>1. /\ disk' = [disk EXCEPT ![g] = c] /\ unseen' = unseen \cup {g}
        /\ UNCHANGED <<inbox, scope, listing, index, missed>>
    BY <1>1 DEF DiskChanges
  <2>2. CASE f = g  BY <2>1, <2>2 DEF Awaited, ReportedAfter
  <2>3. CASE f # g
    <3>1. disk'[f] = disk[f]  BY <1>0, <2>1, <2>3
    <3> QED  BY <1>a, <2>1, <3>1 DEF Awaited, Current, ReportedAfter, Reported, Idle
  <2> QED  BY <2>2, <2>3
<1>2. ASSUME NEW g \in Files, NEW c \in Contents[g] \cup {Missing}, Saves(g, c)
      PROVE  Awaited(f)'
  <2>1. PICK m : m = [type |-> "save", file |-> g, text |-> c]  OBVIOUS
  <2>2. /\ disk' = [disk EXCEPT ![g] = c] /\ unseen' = unseen \cup {g}
        /\ inbox' = Append(inbox, m)
        /\ UNCHANGED <<scope, listing, index, missed>>
    BY <1>2, <2>1 DEF Saves
  <2>3. m \in Messages  BY <1>2, <2>1, IndexerAssumption DEF Messages, Saves
  <2>4. CASE f = g  BY <2>2, <2>4 DEF Awaited, ReportedAfter
  <2>5. CASE f # g
    <3>1. disk'[f] = disk[f]  BY <1>0, <2>2, <2>5
    <3>2. 0 \in 0..Len(inbox)  BY DEF TypeOK
    <3>3. ReportedAfter(0, f) => ReportedAfter(0, f)'  BY <2>2, <2>3, <3>2, SentKeepsReports
    <3> QED  BY <1>a, <2>2, <3>1, <3>3 DEF Awaited, Current, Idle
  <2> QED  BY <2>4, <2>5
<1>3. ASSUME NEW config \in BOOLEAN, Reports(config) PROVE Awaited(f)'
  <2>1. PICK m : m = [type |-> "watched", config |-> config,
                      files |-> unseen, created |-> unseen \ known,
                      deleted |-> {g \in unseen : ~Exists(g)}]
    OBVIOUS
  <2>2. m \in Messages /\ m.type = "watched" /\ m.files = unseen
    BY <2>1 DEF Messages, TypeOK
  <2>3. inbox' = Append(inbox, m) /\ UNCHANGED <<disk, scope, listing, index, missed>>
    BY <1>3, <2>1 DEF Reports
  <2>4. 0 \in 0..Len(inbox)  BY DEF TypeOK
  <2>5. ReportedAfter(0, f) => ReportedAfter(0, f)'  BY <2>2, <2>3, <2>4, SentKeepsReports
  <2> QED  BY <1>a, <2>3, <2>5 DEF Awaited, Current, Idle
<1>4. ASSUME HandleSave PROVE Awaited(f)'
  <2>1. Received("save") /\ UNCHANGED <<disk, unseen, scope, listing, missed>>
    BY <1>4 DEF HandleSave
  <2>2. Head(inbox) = inbox[1] /\ 1 \in DOMAIN inbox /\ inbox[1].type = "save" /\ Idle
        /\ Head(inbox) \in Messages
    BY <2>1, HeadOfInbox
  <2>3. Head(inbox).file \in Files /\ Head(inbox).text \in Text  BY <2>2, SaveMessage
  <2>4. PICK g, c, root : g = Head(inbox).file /\ c = Head(inbox).text
                          /\ index' = updateDocument(index, g, c, root)
    BY <1>4 DEF HandleSave
  <2>5. \A x \in Files \ {g} : index'.entry[x] = index.entry[x]
    BY <1>0, <2>3, <2>4, UpdateDocumentExact
  <2>6. CASE f = g
    <3>1. ReportedAfter(0 + 1, f)  BY <2>2, <2>4, <2>6 DEF SavesAreReported
    <3>2. ReportedAfter(0, f)'  BY <2>1, <3>1, ReceivedKeepsReports
    <3> QED  BY <3>2 DEF Awaited
  <2>7. CASE f # g
    <3>1. ~Reported(1, f)  BY <2>2 DEF Reported
    <3>2. ReportedAfter(0, f) => ReportedAfter(0, f)'  BY <2>1, <3>1, OthersStayReported
    <3>3. index'.entry[f] = index.entry[f]  BY <2>5, <2>7
    <3> QED  BY <1>a, <2>1, <2>2, <3>2, <3>3 DEF Awaited, Current
  <2> QED  BY <2>6, <2>7
<1>5. ASSUME HandleWatched PROVE Awaited(f)'
  <2>1. Received("watched") /\ ~Head(inbox).config
        /\ UNCHANGED <<disk, unseen, scope, listing>>
    BY <1>5 DEF HandleWatched
  <2>2. Head(inbox) = inbox[1] /\ 1 \in DOMAIN inbox /\ inbox[1].type = "watched"
        /\ Head(inbox) \in Messages /\ Idle
    BY <2>1, HeadOfInbox
  <2>3. PICK m : m = Head(inbox)  OBVIOUS
  <2>4. m \in Updates  BY <2>2, <2>3, WatchedMessage
  <2>5. /\ m.created \cup m.deleted \subseteq m.files /\ m.files # {}
        /\ \A g \in m.deleted : ~Exists(g) \/ ReportedAfter(1, g)
    BY <2>1, <2>2, <2>3 DEF DeletedAreGone
  <2>6. index' = onWatchedFiles(index, m) /\ missed' = missed \ m.files
    BY <1>5, <2>3 DEF HandleWatched
  <2>7. /\ \A g \in Files \ m.files : index'.entry[g] = index.entry[g]
        /\ \A g \in m.files : \/ index'.entry[g] = indexPaths(g, disk[g])
                              \/ index'.entry[g] = None /\ (g \in m.deleted \/ ~Exists(g))
    BY <1>0, <2>4, <2>5, <2>6, OnWatchedFilesExact
  <2>8. CASE f \notin m.files
    <3>1. ~Reported(1, f)  BY <2>2, <2>3, <2>8 DEF Reported
    <3>2. ReportedAfter(0, f) => ReportedAfter(0, f)'  BY <2>1, <3>1, OthersStayReported
    <3>3. index'.entry[f] = index.entry[f] /\ f \notin missed  BY <2>6, <2>7, <2>8
    <3> QED  BY <1>a, <2>1, <2>2, <3>2, <3>3 DEF Awaited, Current
  <2>9. CASE f \in m.files /\ index'.entry[f] = indexPaths(f, disk[f])
    <3>1. Fits(index'.entry[f], f, disk'[f], scope')  BY <1>0, <2>1, <2>9, ReadFits
    <3> QED  BY <3>1 DEF Awaited, Current
  <2>10. CASE f \in m.files /\ index'.entry[f] = None /\ ~Exists(f)
    <3>1. Fits(index'.entry[f], f, disk'[f], scope')  BY <2>1, <2>10, ExistsIffText DEF Fits
    <3> QED  BY <3>1 DEF Awaited, Current
  <2>11. CASE f \in m.deleted /\ ReportedAfter(1, f)
    <3>1. ReportedAfter(0 + 1, f)  BY <2>11
    <3>2. ReportedAfter(0, f)'  BY <2>1, <3>1, ReceivedKeepsReports
    <3> QED  BY <3>2 DEF Awaited
  <2> QED  BY <2>5, <2>7, <2>8, <2>9, <2>10, <2>11
<1>6. ASSUME NEW valid \in BOOLEAN, HandleReload(valid) PROVE Awaited(f)'
  <2>1. Received("watched") /\ missed' = missed \cup Head(inbox).files
        /\ UNCHANGED <<disk, unseen>>
    BY <1>6 DEF HandleReload
  <2>2. Head(inbox) = inbox[1] /\ Idle  BY <2>1, HeadOfInbox
  <2>3. f \notin missed /\ ~Reported(1, f)  BY <2>1, <2>2 DEF Reported
  <2>4. ReportedAfter(0, f) => ReportedAfter(0, f)'  BY <2>1, <2>3, OthersStayReported
  <2>5. CASE valid
    <3>1. PICK S \in Scopes : scope' = S /\ listing' = {g \in S : Exists(g)}
      BY <1>6, <2>5 DEF HandleReload
    <3>2. PICK B \in Builds : index' = DriverCreated(index, B)
      BY <1>6, <2>5 DEF HandleReload
    <3>3. index'.entry = index.entry  BY <1>0, <3>2, DriverCreatedExact
    <3>4. listing' # None  BY <3>1, IndexerAssumption
    <3>5. CASE f \in S /\ Exists(f)  BY <3>1, <3>4, <3>5 DEF Awaited, Idle
    <3>6. CASE Current(f) /\ ~(f \in S /\ Exists(f))
      <4>1. Fits(index'.entry[f], f, disk'[f], scope')
        BY <2>1, <3>1, <3>3, <3>6, ExistsIffText DEF Current, Fits
      <4> QED  BY <4>1 DEF Awaited, Current
    <3>7. CASE ReportedAfter(0, f)  BY <2>4, <3>7 DEF Awaited
    <3> QED  BY <1>a, <2>2, <2>3, <3>5, <3>6, <3>7 DEF Awaited
  <2>6. CASE ~valid
    <3>1. UNCHANGED <<scope, listing, index>>  BY <1>6, <2>6 DEF HandleReload
    <3> QED  BY <1>a, <2>1, <2>2, <2>3, <2>4, <3>1 DEF Awaited, Current
  <2> QED  BY <2>5, <2>6
<1>7. ASSUME Scan PROVE Awaited(f)'
  <2>1. listing \in SUBSET Files  BY <1>7 DEF Scan, Idle, TypeOK
  <2>2. index' = indexAndReport(index, listing, FALSE) /\ missed' = missed \ listing
        /\ UNCHANGED <<disk, unseen, inbox, scope>>
    BY <1>7 DEF Scan
  <2>3. index'.entry[f] = IF f \in listing THEN indexPaths(f, disk[f]) ELSE index.entry[f]
    BY <1>0, <2>1, <2>2, IndexAndReportExact
  <2>4. CASE f \in listing
    <3>1. Fits(index'.entry[f], f, disk'[f], scope')  BY <1>0, <2>2, <2>3, <2>4, ReadFits
    <3> QED  BY <3>1 DEF Awaited, Current
  <2>5. CASE f \notin listing
    <3>1. Current(f) \/ ReportedAfter(0, f)  BY <1>a, <2>2, <2>5 DEF Awaited
    <3> QED  BY <2>2, <2>3, <2>5, <3>1 DEF Awaited, Current, ReportedAfter, Reported
  <2> QED  BY <2>4, <2>5
<1>8. ASSUME NEW E \in SUBSET Files, AutoConfigure(E) PROVE Awaited(f)'
  <2>1. PICK F : F = {g \in scope : Exists(g)}  OBVIOUS
  <2>2. PICK q : q = indexAndReport(index, F, TRUE)  OBVIOUS
  <2>3. F \in SUBSET Files  BY <2>1 DEF TypeOK
  <2>4. /\ q \in Index /\ Exact(q) /\ q.cache = EmptyCache
        /\ q.entry[f] = IF f \in F THEN indexPaths(f, disk[f]) ELSE index.entry[f]
    <3>1. PICK infer \in BOOLEAN : infer = TRUE  OBVIOUS
    <3>2. q = indexAndReport(index, F, infer)  BY <2>2, <3>1
    <3>3. q.entry[f] = IF f \in F THEN indexPaths(f, disk[f]) ELSE index.entry[f]
      BY <1>0, <2>3, <3>2, IndexAndReportExact
    <3>4. q \in Index /\ Exact(q) /\ q.cache = EmptyCache
      BY <1>0, <2>3, <3>2, IndexAndReportExact
    <3> QED  BY <3>3, <3>4
  <2>5. /\ index' = IF E = {} THEN q ELSE excludeDirectories(q, E)
        /\ missed' = missed \ (F \cup E) /\ scope' = scope \ E
        /\ UNCHANGED <<disk, unseen, inbox, listing>>
    BY <1>8, <2>1, <2>2 DEF AutoConfigure
  <2>6. index'.entry[f] = IF f \in E THEN None ELSE q.entry[f]  BY <2>4, <2>5, ExcludeExact
  <2>7. CASE f \in E
    <3>1. Fits(index'.entry[f], f, disk'[f], scope')  BY <2>5, <2>6, <2>7 DEF Fits
    <3> QED  BY <3>1 DEF Awaited, Current
  <2>8. CASE f \notin E /\ f \in F
    <3>1. Fits(index'.entry[f], f, disk'[f], scope')
      BY <1>0, <2>4, <2>5, <2>6, <2>8, ReadFits
    <3> QED  BY <3>1 DEF Awaited, Current
  <2>9. CASE f \notin E /\ f \notin F
    <3>1. index'.entry[f] = index.entry[f] /\ f \notin missed  BY <2>4, <2>5, <2>6, <2>9
    <3>2. Current(f) => Current(f)'  BY <2>5, <2>9, <3>1 DEF Current, Fits
    <3> QED  BY <1>a, <2>5, <3>1, <3>2 DEF Awaited, ReportedAfter, Reported, Idle
  <2> QED  BY <2>7, <2>8, <2>9
<1>9. ASSUME NEW B \in Builds, SelectsBuild(B) PROVE Awaited(f)'
  <2>1. /\ index' = DriverCreated(index, B)
        /\ UNCHANGED <<disk, unseen, inbox, scope, listing, missed>>
    BY <1>9 DEF SelectsBuild
  <2>2. index'.entry = index.entry  BY <1>0, <2>1, DriverCreatedExact
  <2> QED  BY <2>1, <2>2, EntriesKept
<1>10. ASSUME NEW h \in Files, Asks(h) PROVE Awaited(f)'
  <2>1. /\ index' = getFilesIncluding(index, h)
        /\ UNCHANGED <<disk, unseen, inbox, scope, listing, missed>>
    BY <1>10 DEF Asks
  <2>2. index'.entry = index.entry  BY <1>0, <2>1 DEF getFilesIncluding, Index
  <2> QED  BY <2>1, <2>2, EntriesKept
<1>11. ASSUME UNCHANGED vars PROVE Awaited(f)'
  BY <1>11, EntriesKept DEF vars
<1> QED  BY <1>1, <1>2, <1>3, <1>4, <1>5, <1>6, <1>7, <1>8, <1>9, <1>10, <1>11 DEF Next

-----------------------------------------------------------------------------
(* Cached answers.                                                         *)

\* An answer depends on the files that exist and on nothing of the index but these.
LEMMA SameResolved ==
    ASSUME disk' = disk, index'.includers = index.includers, index'.refs = index.refs,
           index'.parsed = index.parsed, index'.entry = index.entry,
           index'.scanned = index.scanned, NEW h
    PROVE  ResolveIncluders(index, h)' = ResolveIncluders(index, h)
<1>1. \A f : Exists(f)' <=> Exists(f)  BY DEF Exists
<1>2. ASSUME NEW sp, NEW f, NEW C
      PROVE  nearestInclude(sp, f, C)' = nearestInclude(sp, f, C)
  <2>1. {g \in C : Ends(g, sp) /\ Exists(g)'} = {g \in C : Ends(g, sp) /\ Exists(g)}  BY <1>1
  <2> QED  BY <2>1 DEF nearestInclude
<1>3. ASSUME NEW sp, NEW f PROVE Speculated(index, f, sp)' = Speculated(index, f, sp)
  <2>1. PICK C : C = {g \in index.scanned : FileName(g) = FileName(sp)}  OBVIOUS
  <2>2. C = {g \in index'.scanned : FileName(g) = FileName(sp)}  BY <2>1
  <2>3. nearestInclude(sp, f, C)' = nearestInclude(sp, f, C)  BY <1>2
  <2>4. getNearestFileForInclude(index, sp, f) = nearestInclude(sp, f, C)
    BY <2>1 DEF getNearestFileForInclude
  <2>5. getNearestFileForInclude(index, sp, f)' = nearestInclude(sp, f, C)'
    BY <2>2 DEF getNearestFileForInclude
  <2>6. Exists(Beside(f, sp))' <=> Exists(Beside(f, sp))  BY DEF Exists, Beside
  <2> QED  BY <2>3, <2>4, <2>5, <2>6 DEF Speculated
<1> QED  BY <1>3 DEF ResolveIncluders

LEMMA DroppedStep ==
    ASSUME TypeOK, MapsAreExact, DeletedAreGone, StaleIsDropped, [Next]_vars
    PROVE  StaleIsDropped'
<1>0. /\ disk \in [Files -> Text \cup {Missing}] /\ index \in Index /\ Exact(index)
  BY DEF TypeOK, MapsAreExact
<1>a. ASSUME index'.cache = EmptyCache PROVE StaleIsDropped'
  BY <1>a DEF StaleIsDropped, EmptyCache
<1>b. ASSUME WillDrop' PROVE StaleIsDropped'  BY <1>b DEF StaleIsDropped
<1>c. ASSUME UNCHANGED <<disk, index>>, WillDrop => WillDrop' PROVE StaleIsDropped'
  <2>1. \A h \in Files : ResolveIncluders(index, h)' = ResolveIncluders(index, h)
    BY <1>c, SameResolved
  <2> QED  BY <1>c, <2>1 DEF StaleIsDropped
<1>1. ASSUME NEW f \in Files, NEW c \in Contents[f] \cup {Missing}, DiskChanges(f, c) \/ Saves(f, c)
      PROVE  StaleIsDropped'
  <2>1. f \in unseen'  BY <1>1 DEF DiskChanges, Saves
  <2>2. ReportedAfter(0, f)'  BY <2>1 DEF ReportedAfter
  <2> QED  BY <1>b, <2>2 DEF WillDrop
<1>2. ASSUME NEW config \in BOOLEAN, Reports(config) PROVE StaleIsDropped'
  <2>1. PICK m : m = [type |-> "watched", config |-> config,
                      files |-> unseen, created |-> unseen \ known,
                      deleted |-> {g \in unseen : ~Exists(g)}]
    OBVIOUS
  <2>2. m \in Messages /\ m.type = "watched" /\ m.files = unseen
    BY <2>1 DEF Messages, TypeOK
  <2>3. inbox' = Append(inbox, m) /\ UNCHANGED <<disk, pending, listing, index>>
    BY <1>2, <2>1 DEF Reports
  <2>4. 0 \in 0..Len(inbox)  BY DEF TypeOK
  <2>5. \A f \in Files : ReportedAfter(0, f) => ReportedAfter(0, f)'
    BY <2>2, <2>3, <2>4, SentKeepsReports
  <2>6. WillDrop => WillDrop'  BY <2>3, <2>5 DEF WillDrop, Idle
  <2> QED  BY <1>c, <2>3, <2>6
<1>3. ASSUME HandleSave PROVE StaleIsDropped'
  <2>1. Received("save")  BY <1>3 DEF HandleSave
  <2>2. Head(inbox) \in Messages /\ Head(inbox).type = "save"  BY <2>1, HeadOfInbox
  <2>3. Head(inbox).file \in Files /\ Head(inbox).text \in Text  BY <2>2, SaveMessage
  <2>4. PICK g, c, root : g = Head(inbox).file /\ c = Head(inbox).text
                          /\ index' = updateDocument(index, g, c, root)
    BY <1>3 DEF HandleSave
  <2>5. index'.cache = EmptyCache  BY <1>0, <2>3, <2>4, UpdateDocumentExact
  <2> QED  BY <1>a, <2>5
<1>4. ASSUME HandleWatched PROVE StaleIsDropped'
  <2>1. Received("watched") /\ ~Head(inbox).config  BY <1>4 DEF HandleWatched
  <2>2. Head(inbox) = inbox[1] /\ 1 \in DOMAIN inbox /\ inbox[1].type = "watched"
        /\ Head(inbox) \in Messages
    BY <2>1, HeadOfInbox
  <2>3. PICK m : m = Head(inbox)  OBVIOUS
  <2>4. m \in Updates  BY <2>2, <2>3, WatchedMessage
  <2>5. m.created \cup m.deleted \subseteq m.files /\ m.files # {}
    BY <2>1, <2>2, <2>3 DEF DeletedAreGone
  <2>6. index' = onWatchedFiles(index, m)  BY <1>4, <2>3 DEF HandleWatched
  <2>7. index'.cache = EmptyCache  BY <1>0, <2>4, <2>5, <2>6, OnWatchedFilesExact
  <2> QED  BY <1>a, <2>7
<1>5. ASSUME NEW valid \in BOOLEAN, HandleReload(valid) PROVE StaleIsDropped'
  <2>1. CASE valid
    <3>1. PICK S \in Scopes : listing' = {g \in S : Exists(g)}
      BY <1>5, <2>1 DEF HandleReload
    <3>2. listing' # None  BY <3>1, IndexerAssumption
    <3> QED  BY <1>b, <3>2 DEF WillDrop, Idle
  <2>2. CASE ~valid
    <3>1. pending'  BY <1>5, <2>2 DEF HandleReload
    <3> QED  BY <1>b, <3>1 DEF WillDrop
  <2> QED  BY <2>1, <2>2
<1>6. ASSUME Scan PROVE StaleIsDropped'
  <2>1. listing \in SUBSET Files  BY <1>6 DEF Scan, Idle, TypeOK
  <2>2. index' = indexAndReport(index, listing, FALSE)  BY <1>6 DEF Scan
  <2>3. index'.cache = EmptyCache  BY <1>0, <2>1, <2>2, IndexAndReportExact
  <2> QED  BY <1>a, <2>3
<1>7. ASSUME NEW E \in SUBSET Files, AutoConfigure(E) PROVE StaleIsDropped'
  <2>1. PICK F : F = {g \in scope : Exists(g)}  OBVIOUS
  <2>2. PICK q : q = indexAndReport(index, F, TRUE)  OBVIOUS
  <2>3. F \in SUBSET Files  BY <2>1 DEF TypeOK
  <2>4. q \in Index /\ Exact(q) /\ q.cache = EmptyCache
    BY <1>0, <2>2, <2>3, IndexAndReportExact
  <2>5. index' = IF E = {} THEN q ELSE excludeDirectories(q, E)
    BY <1>7, <2>1, <2>2 DEF AutoConfigure
  <2>6. index'.cache = EmptyCache  BY <2>4, <2>5, ExcludeExact
  <2> QED  BY <1>a, <2>6
<1>8. ASSUME NEW B \in Builds, SelectsBuild(B) PROVE StaleIsDropped'
  <2>1. index' = DriverCreated(index, B) /\ UNCHANGED <<disk, unseen, inbox, pending, listing>>
    BY <1>8 DEF SelectsBuild
  <2>2. index' = index \/ index'.cache = EmptyCache  BY <1>0, <2>1, DriverCreatedExact
  <2>3. WillDrop => WillDrop'  BY <2>1 DEF WillDrop, Idle, ReportedAfter, Reported
  <2> QED  BY <1>a, <1>c, <2>1, <2>2, <2>3
<1>9. ASSUME NEW h \in Files, Asks(h) PROVE StaleIsDropped'
  <2>1. index' = getFilesIncluding(index, h) /\ UNCHANGED <<disk, unseen, inbox, pending, listing>>
    BY <1>9 DEF Asks
  <2>2. WillDrop => WillDrop'  BY <2>1 DEF WillDrop, Idle, ReportedAfter, Reported
  <2>3. PICK A : A = ResolveIncluders(index, h)  OBVIOUS
  <2>4. CASE index' = index  BY <1>c, <2>1, <2>2, <2>4
  <2>5. CASE index' = [index EXCEPT !.cache[h] = A]
    <3>1. PICK C : C = [index.cache EXCEPT ![h] = A]  OBVIOUS
    <3>2. index' = [index EXCEPT !.cache = C]  BY <2>5, <3>1
    <3>3. index'.includers = index.includers /\ index'.refs = index.refs
          /\ index'.parsed = index.parsed /\ index'.entry = index.entry
          /\ index'.scanned = index.scanned /\ index'.cache = C
      BY <1>0, <3>2 DEF Index
    <3>4. \A g \in Files : ResolveIncluders(index, g)' = ResolveIncluders(index, g)
      BY <2>1, <3>3, SameResolved
    <3>5. \A g \in Files : C[g] = IF g = h THEN A ELSE index.cache[g]  BY <1>0, <3>1 DEF Index
    <3>6. ASSUME NEW g \in Files
          PROVE  index'.cache[g] \in {None, ResolveIncluders(index, g)'} \/ WillDrop'
      <4>1. CASE g = h  BY <2>3, <3>3, <3>4, <3>5, <4>1
      <4>2. CASE g # h
        <5>1. index'.cache[g] = index.cache[g]  BY <3>3, <3>5, <4>2
        <5> QED  BY <2>2, <3>4, <5>1 DEF StaleIsDropped
      <4> QED  BY <4>1, <4>2
    <3> QED  BY <3>6 DEF StaleIsDropped
  <2> QED  BY <2>1, <2>3, <2>4, <2>5 DEF getFilesIncluding
<1>10. ASSUME UNCHANGED vars PROVE StaleIsDropped'
  <2>1. WillDrop => WillDrop'  BY <1>10 DEF vars, WillDrop, Idle, ReportedAfter, Reported
  <2> QED  BY <1>c, <1>10, <2>1 DEF vars
<1> QED  BY <1>1, <1>2, <1>3, <1>4, <1>5, <1>6, <1>7, <1>8, <1>9, <1>10 DEF Next

-----------------------------------------------------------------------------
(* Answers.                                                                *)

LEMMA DistancesCompare == ASSUME NEW f \in Files, NEW g \in Files PROVE Distance(f, g) \in Int
<1>1. ASSUME NEW p \in Files PROVE Parent(p) \in Seq(Names)
  <2>1. p \in Seq(Names) /\ p # <<>>  BY IndexerAssumption DEF Paths
  <2>2. Len(p) \in Nat /\ Len(p) # 0  BY <2>1, EmptySeq
  <2>3. 1 \in 1..(Len(p) + 1) /\ (Len(p) - 1) \in (1 - 1)..Len(p)  BY <2>2
  <2> QED  BY <2>1, <2>3, SubSeqProperties DEF Parent
<1>2. PICK d, e : d = Parent(f) /\ e = Parent(g)  OBVIOUS
<1>3. Len(d) \in Nat /\ Len(e) \in Nat  BY <1>1, <1>2
<1>4. Common(d, e) \in Nat
  <2>1. PICK S : S = {n \in 1..Len(d) : n <= Len(e) /\ SubSeq(d, 1, n) = SubSeq(e, 1, n)}
    OBVIOUS
  <2>2. IsFiniteSet(1..Len(d))  BY <1>3, FS_Interval
  <2>3. IsFiniteSet(S)  BY <2>1, <2>2, FS_Subset
  <2>4. Cardinality(S) \in Nat  BY <2>3, FS_CardinalityType
  <2> QED  BY <2>1, <2>4 DEF Common
<1>5. Distance(f, g) = Len(d) + Len(e) - 2 * Common(d, e)  BY <1>2 DEF Distance
<1> QED  BY <1>3, <1>4, <1>5

IndexInv == ExactInv /\ StaleIsAwaited /\ StaleIsDropped

LEMMA IndexInvariance == Spec => []IndexInv
<1>1. Init => IndexInv
  <2> SUFFICES ASSUME Init PROVE IndexInv  OBVIOUS
  <2>1. ExactInv
    <3>1. SavesAreReported /\ DeletedAreGone  BY DEF Init, SavesAreReported, DeletedAreGone
    <3> QED  BY <3>1, InitExact DEF ExactInv
  <2>2. \A f \in Files : index.entry[f] = None /\ index.cache[f] = None
    BY DEF Init, EmptyIndex, EmptyCache
  <2>3. StaleIsDropped  BY <2>2 DEF StaleIsDropped
  <2>4. ASSUME NEW f \in Files PROVE Current(f) \/ (~Idle /\ f \in listing)
    <3>1. scope \in Scopes /\ listing = {g \in scope : Exists(g)}  BY DEF Init
    <3>2. listing # None  BY <3>1, IndexerAssumption
    <3>3. f \in listing \/ f \notin scope \/ disk[f] = Missing  BY <3>1, ExistsIffText
    <3> QED  BY <2>2, <3>2, <3>3 DEF Current, Fits, Idle
  <2> QED  BY <2>1, <2>3, <2>4 DEF IndexInv, StaleIsAwaited
<1>2. IndexInv /\ [Next]_vars => IndexInv'
  BY ExactStep, OrderStep, AwaitedStep, DroppedStep DEF IndexInv, ExactInv
<1> QED  BY <1>1, <1>2, PTL DEF Spec

LEMMA SettledIsCurrent ==
    ASSUME IndexInv, Settled
    PROVE  /\ \A f \in Files \ missed : Current(f)
           /\ \A h \in Files : index.cache[h] \in {None, ResolveIncluders(index, h)}
<1>1. \A f : ~ReportedAfter(0, f)  BY DEF Settled, ReportedAfter
<1>2. ~WillDrop  BY <1>1 DEF WillDrop, Settled
<1> QED  BY <1>1, <1>2 DEF IndexInv, StaleIsAwaited, StaleIsDropped, Settled

LEMMA MapsFollowFiles ==
    ASSUME IndexInv, Settled, NEW n \in Names, NEW f \in Files \ missed, NEW k \in Kinds
    PROVE  /\ f \in index.maps[k][n] => n \in Declares(f, k)
           /\ f \in scope /\ n \in Declares(f, k) => f \in index.maps[k][n]
<1>1. Current(f)  BY SettledIsCurrent
<1>2. f \in index.maps[k][n] <=> index.entry[f] # None /\ n \in index.entry[f][k]
  BY DEF IndexInv, ExactInv, MapsAreExact, Exact, Listed
<1>3. Declares(f, k) = IF disk[f] = Missing THEN {} ELSE indexPaths(f, disk[f])[k]
  BY ExistsIffText DEF Declares
<1>4. CASE index.entry[f] = None  BY <1>1, <1>2, <1>3, <1>4 DEF Current, Fits
<1>5. CASE index.entry[f] # None  BY <1>1, <1>2, <1>3, <1>5 DEF Current, Fits
<1> QED  BY <1>4, <1>5

\* Once every report has been handled, and whatever order saves, reports, reloads, scans
\* and builds came in, lookups answer from the files as they are: a name is found in the
\* files that declare it and in no other, the location offered is a nearest one, and a
\* cached list of includers is the one that would be computed.
THEOREM LookupsAreCurrent == Spec => []AnswersAreCurrent
<1>1. IndexInv => AnswersAreCurrent
  <2> SUFFICES ASSUME IndexInv PROVE AnswersAreCurrent  OBVIOUS
  <2>1. CacheIsFresh  BY SettledIsCurrent DEF CacheIsFresh
  <2>2. ASSUME Settled, NEW n \in Names, NEW source \in Files,
               NEW f \in getNearestSymbolLocs(index, n, source),
               NEW g \in scope \ missed, n \in Declares(g, "symbols")
        PROVE  Distance(f, source) <= Distance(g, source)
    <3>1. PICK found : found = index.maps["symbols"][n]  OBVIOUS
    <3>2. "symbols" \in Kinds  BY DEF Kinds
    <3>3. index \in Index /\ scope \subseteq Files  BY DEF IndexInv, ExactInv, TypeOK
    <3>4. found \subseteq Files  BY <3>1, <3>2, <3>3 DEF Index
    <3>5. g \in found  BY <2>2, <3>1, <3>2, <3>3, MapsFollowFiles
    <3>6. getNearestSymbolLocs(index, n, source)
            = IF Cardinality(found) = 1 THEN found ELSE nearestFiles(source, found)
      BY <3>1 DEF getNearestSymbolLocs, getFilesForSymbol
    <3>7. CASE Cardinality(found) = 1
      <4>1. IsFiniteSet(found)  BY <3>4, FS_Subset, IndexerAssumption
      <4>2. \E x : found = {x}  BY <3>7, <4>1, FS_Singleton
      <4>3. f = g  BY <3>5, <3>6, <3>7, <4>2
      <4>4. Distance(g, source) \in Int  BY <3>4, <3>5, DistancesCompare
      <4> QED  BY <4>3, <4>4
    <3>8. CASE Cardinality(found) # 1  BY <3>5, <3>6, <3>8 DEF nearestFiles
    <3> QED  BY <3>7, <3>8
  <2> QED  BY <2>1, <2>2, MapsFollowFiles DEF AnswersAreCurrent
<1> QED  BY <1>1, IndexInvariance, PTL
=============================================================================
