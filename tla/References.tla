----------------------------- MODULE References -----------------------------
(***************************************************************************)
(* Definitions, references and rename over a workspace of several files:   *)
(* which symbols a token denotes in the shallow analysis of its file       *)
(* (SymbolIndexer and getSymbolsAtToken), which declarations the index     *)
(* adds (getDefinitionInfoAt), and the tokens that getDocReferences finds  *)
(* for it in all files.                                                    *)
(*                                                                         *)
(* The text of a file maps the names of its packages and modules to        *)
(*   [kind, members, imports, insts, uses, scoped]                         *)
(* with imports <<package, item>> (item Star or a member), insts           *)
(* <<module, port, style>> of named port connections (style "short" for    *)
(* .port, "named" for .port(expr)), uses of plain names, and scoped names  *)
(* <<package, member>>.                                                    *)
(***************************************************************************)
EXTENDS Naturals, FiniteSets, Sequences, SequencesExt

CONSTANTS Files,
          Distance,   \* of two files: the steps between their directories
          Rank,       \* order of the files in the index
          Star,
          None

\* A symbol is where it is declared: a unit, or (name # None) a member of it.
Sym(f, u, n) == [file |-> f, unit |-> u, name |-> n]
IsUnit(s) == s.name = None
NameOf(s) == IF IsUnit(s) THEN s.unit ELSE s.name

-----------------------------------------------------------------------------
(* Tokens, as the SyntaxIndexer collects them.                             *)

Token(f, u, role, n, of) == [file |-> f, unit |-> u, role |-> role, name |-> n, of |-> of]
UnitTokens(f, u, text) ==
    {Token(f, u, "unit", u, None)}
    \cup {Token(f, u, "member", n, None) : n \in text.members}
    \cup {Token(f, u, "use", n, None) : n \in text.uses}
    \cup UNION {{Token(f, u, "importPackage", i[1], None)} \cup
                (IF i[2] = Star THEN {} ELSE {Token(f, u, "importItem", i[2], i[1])})
                : i \in text.imports}
    \cup UNION {{Token(f, u, "type", i[1], None), Token(f, u, i[3], i[2], i[1])} : i \in text.insts}
    \cup UNION {{Token(f, u, "scope", s[1], None), Token(f, u, "scoped", s[2], s[1])} : s \in text.scoped}
collected(ws, f) == UNION {UnitTokens(f, u, ws.text[f][u]) : u \in DOMAIN ws.text[f]}
AllTokens(ws) == UNION {collected(ws, f) : f \in Files}

\* The names that a file refers to, in its parser metadata and in the index.
referencedSymbols(ws, f) ==
    {t.name : t \in {t \in collected(ws, f) : t.role \in {"type", "importPackage", "scope"}}}
getFilesForSymbol(ws, n) == {f \in Files : n \in DOMAIN ws.text[f]}
getFilesReferencingSymbol(ws, n) == {f \in Files : n \in referencedSymbols(ws, f)}
getNearestSymbolLocs(ws, n, source) ==
    LET found == getFilesForSymbol(ws, n) IN
    {f \in found : \A g \in found : Distance[f, source] <= Distance[g, source]}
FirstFile(F) == IF F = {} THEN None ELSE CHOOSE f \in F : \A g \in F : Rank[f] <= Rank[g]
getNearestSymbolLoc(ws, n, source) == FirstFile(getNearestSymbolLocs(ws, n, source))

-----------------------------------------------------------------------------
(* The shallow analysis of a file.                                         *)

Units(ws) == {Sym(f, u, None) : f \in Files, u \in UNION {DOMAIN ws.text[g] : g \in Files}}
\* As many rounds as any work list over the units can need.
Rounds(ws) == [i \in 1..Cardinality({s \in Units(ws) : s.unit \in DOMAIN ws.text[s.file]}) |-> i]
Declared(ws, T) == UNION {DOMAIN ws.text[g] : g \in T}
\* The files read for names that are not declared yet; those with packages ask for more.
getDependentTrees(ws, f) ==
    LET Asks(T) == {g \in T : g = f \/ \E u \in DOMAIN ws.text[g] : ws.text[g][u].kind = "package"}
        Load(T, step) ==
            T \cup (UNION {{getNearestSymbolLoc(ws, n, g) :
                             n \in referencedSymbols(ws, g) \ Declared(ws, T)} : g \in Asks(T)} \ {None})
    IN FoldLeft(Load, {f}, Rounds(ws))

\* A workspace with the files that the analysis of each file reads.
Analysed(text) ==
    [text |-> text, trees |-> [f \in Files |-> getDependentTrees([text |-> text], f)]]

tryGetDefinition(ws, f, n) ==
    LET found == {g \in ws.trees[f] : n \in DOMAIN ws.text[g]} IN
    IF n \in DOMAIN ws.text[f] THEN {Sym(f, n, None)}
    ELSE IF found = {} THEN {} ELSE {Sym(CHOOSE g \in found : TRUE, n, None)}
\* The member n of a package or module, found in the analysis of f.
find(ws, f, u, n) ==
    {Sym(d.file, u, n) : d \in {d \in tryGetDefinition(ws, f, u) : n \in ws.text[d.file][u].members}}
\* A name in a unit: its members, then explicit and wildcard imports, then definitions.
OrElse(S, T) == IF S # {} THEN S ELSE T
Imported(ws, f, u, n, item) == UNION {find(ws, f, i[1], n) : i \in {i \in ws.text[f][u].imports : i[2] = item}}
lookupName(ws, f, u, n) ==
    IF n \in ws.text[f][u].members THEN {Sym(f, u, n)}
    ELSE OrElse(Imported(ws, f, u, n, n), OrElse(Imported(ws, f, u, n, Star), tryGetDefinition(ws, f, n)))

\* Variant: a short connection denotes its port only.
indexInstanceSyntax_formalOnly(ws, t) == find(ws, t.file, t.of, t.name)
\* indexInstanceSyntax: .port denotes the port and, if it is short, the name outside too.
indexInstanceSyntax(ws, t) ==
    find(ws, t.file, t.of, t.name) \cup
    (IF t.role = "short" THEN lookupName(ws, t.file, t.unit, t.name) ELSE {})

getSymbolsAtToken(ws, t) ==
    CASE t.role = "unit" -> {Sym(t.file, t.unit, None)}
      [] t.role = "member" -> {Sym(t.file, t.unit, t.name)}
      [] t.role = "use" -> lookupName(ws, t.file, t.unit, t.name)
      [] t.role \in {"type", "importPackage", "scope"} -> tryGetDefinition(ws, t.file, t.name)
      [] t.role \in {"importItem", "scoped"} -> find(ws, t.file, t.of, t.name)
      [] t.role \in {"short", "named"} -> indexInstanceSyntax(ws, t)

\* getDefinitionInfoAt: a unit that the file does not declare is every declaration of the
\* name and kind that is nearest to the file.
DefinitionInfo(ws, t, local, nearest) ==
    LET units == {s \in local : IsUnit(s)}
        KindOf(s) == ws.text[s.file][s.unit].kind
    IN IF local # {} /\ (units = {} \/ \E s \in units : s.file = t.file) THEN local
       ELSE {s \in local : IsUnit(s) /\ nearest # {} => s.file \in nearest} \cup
            {s \in {Sym(g, t.name, None) : g \in nearest} :
                local = {} \/ \E r \in units : KindOf(r) = KindOf(s)}
getDefinitionInfoAt(ws, t) ==
    DefinitionInfo(ws, t, getSymbolsAtToken(ws, t), getNearestSymbolLocs(ws, t.name, t.file))

-----------------------------------------------------------------------------
(* References.                                                             *)

\* The tokens of a file that have the name and denote the symbol.
addLocalReferences(ws, f, target, name) ==
    {t \in collected(ws, f) : t.name = name /\ target \in getSymbolsAtToken(ws, t)}

ImportsAll(ws, f, package) == \E u \in DOMAIN ws.text[f] : <<package, Star>> \in ws.text[f][u].imports
addMemberReferences(ws, target) ==
    UNION {IF ws.text[target.file][target.unit].kind = "package" /\ ~ImportsAll(ws, f, target.unit)
           THEN {t \in collected(ws, f) :
                    t.role = "scoped" /\ t.of = target.unit /\ t.name = target.name}
           ELSE addLocalReferences(ws, f, target, target.name)
           : f \in getFilesReferencingSymbol(ws, target.unit) \ {target.file}}

\* References to a unit in other files are found by its name in the metadata.
processReferencingFiles(ws, target) ==
    LET roles == IF ws.text[target.file][target.unit].kind = "package" THEN {"importPackage", "scope"}
                 ELSE {"type"}
    IN UNION {{t \in collected(ws, f) : t.role \in roles /\ t.name = target.unit}
              : f \in getFilesReferencingSymbol(ws, target.unit) \ {target.file}}

ReferencesByName(ws, target, name) ==
    addLocalReferences(ws, target.file, target, name) \cup
    IF IsUnit(target) THEN processReferencingFiles(ws, target) ELSE addMemberReferences(ws, target)
\* What one target adds; where the unit has several declarations, only what is defined by it.
ReferencesOf(ws, target, name) ==
    {t \in ReferencesByName(ws, target, name) :
        Cardinality(getFilesForSymbol(ws, target.unit)) > 1 => target \in getDefinitionInfoAt(ws, t)}

Targets(symbols, units) ==
    IF (symbols = {} \/ \E s \in symbols : IsUnit(s)) /\ units # {} THEN units ELSE symbols
addTargetsAt(ws, t) ==
    Targets(getSymbolsAtToken(ws, t), {s \in getDefinitionInfoAt(ws, t) : IsUnit(s)})

\* Targets are worked off until no reference in an analysed file adds one.  analysed: the
\* documents with an analysis; documents whose references were looked up get one.
getDocReferences(ws, token, analysed) ==
    LET Looked(s) == {s.file} \cup (IF IsUnit(s) THEN {} ELSE
                        {f \in getFilesReferencingSymbol(ws, s.unit) :
                            ws.text[s.file][s.unit].kind = "package" => ImportsAll(ws, f, s.unit)})
        Add(T, step) ==
            T \cup UNION {UNION {addTargetsAt(ws, t) :
                             t \in {t \in ReferencesOf(ws, s, token.name) :
                                       t.file \in analysed \cup {token.file} \cup UNION {Looked(r) : r \in T}}}
                          : s \in T}
        targets == FoldLeft(Add, addTargetsAt(ws, token), Rounds(ws))
    IN UNION {ReferencesOf(ws, s, token.name) : s \in targets}
getDocRename(ws, token, analysed) == getDocReferences(ws, token, analysed)

\* A single lookup of .port selects the port.
getSymbolAtToken(ws, t) ==
    LET symbols == getSymbolsAtToken(ws, t)
        formal == {s \in symbols : s.unit = t.of}
    IN IF t.role = "short" /\ formal # {} THEN formal ELSE symbols
getDocDocumentHighlight(ws, t) ==
    UNION {addLocalReferences(ws, t.file, s, NameOf(s)) : s \in getSymbolAtToken(ws, t)}

-----------------------------------------------------------------------------
(* What the references should be.                                          *)

\* .port denotes the port and the name outside, whichever of them is asked for.
Denoted(ws, t) ==
    IF t.role = "short" THEN find(ws, t.file, t.of, t.name) \cup lookupName(ws, t.file, t.unit, t.name)
    ELSE addTargetsAt(ws, t)
Denotations(ws) == [t \in AllTokens(ws) |-> Denoted(ws, t)]
\* The tokens tied to t: they denote a common symbol, directly or through other tokens.
Tied(denoted, t, rounds) ==
    LET Grow(S, step) == S \cup UNION {D \in Range(denoted) : D \cap S # {}}
        symbols == FoldLeft(Grow, denoted[t], rounds)
    IN {u \in DOMAIN denoted : denoted[u] \cap symbols # {}}
=============================================================================
