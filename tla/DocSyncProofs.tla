---------------------------- MODULE DocSyncProofs ----------------------------
(***************************************************************************)
(* Theorems about DocSync, for every set of files, dependencies between    *)
(* them, build, texts and bounds.                                          *)
(***************************************************************************)
EXTENDS DocSync, SequenceTheorems, TLAPS

About(m, k, f) == m.kind = k /\ m.files = {f}

\* Whoever sends the message at position i of q has f open, when o are the documents that
\* are open before the first one is handled.
Ready(q, o, f, i) ==
    /\ f \in o \/ \E j \in 1..(i - 1) : About(q[j], "open", f)
    /\ \A k \in 1..(i - 1) : About(q[k], "close", f) =>
          \E j \in (k + 1)..(i - 1) : About(q[j], "open", f)

\* The messages before position i of q make x of the text of f.
Current(q, t, r, f, i, x) ==
    \/ \E j \in 1..(i - 1) :
          /\ CarriesText(q[j], f) /\ q[j].text = x
          /\ \A k \in (j + 1)..(i - 1) : ~CarriesText(q[k], f)
    \/ /\ \A j \in 1..(i - 1) : ~CarriesText(q[j], f)
       /\ f \in r \/ t[f] = x

Protocol ==
    /\ \A i \in 1..Len(inbox), f \in Files :
          About(inbox[i], "change", f) \/ About(inbox[i], "save", f) =>
              Ready(inbox, open, f, i)
    /\ \A f \in Files : editor[f] # NoText => Ready(inbox, open, f, Len(inbox) + 1)

Chain ==
    /\ \A i \in 1..Len(inbox), f \in Files :
          About(inbox[i], "change", f) /\ (i > 1 \/ stage = "idle") =>
              Current(inbox, text, rejected, f, i, inbox[i].base)
    /\ \A f \in Files : editor[f] # NoText =>
          Current(inbox, text, rejected, f, Len(inbox) + 1, editor[f])
    /\ stage # "idle" => \A f \in Files \ rejected :
          Head(inbox).files = {f} => text[f] = Head(inbox).text

Staged ==
    /\ stage # "idle" => Head(inbox).files \subseteq docs
    /\ stage \in {"cleared", "parsed", "issued"} => Head(inbox).files \subseteq dirty
    /\ stage = "issued" => \A f \in Head(inbox).files :
          /\ diagnostics[f] # NoReport /\ diagnostics[f].kind = "shallow"
          /\ \A d \in Reads(f) : diagnostics[f].read[d] = text[d]
    /\ stage \in {"parsed", "issued"} => Head(inbox).files \subseteq valid

ChangeWaits(f) == \E i \in 1..Len(inbox) : About(inbox[i], "change", f)

BuildLoaded == \A f \in Build : text[f] # NoText

CaughtUp ==
    Exploring => \A f \in open \ rejected : ~ChangeWaits(f) =>
        /\ f \notin dirty
        /\ diagnostics[f] # NoReport
        /\ diagnostics[f].kind = "shallow" /\ diagnostics[f].read[f] = text[f]

\* Without a build the list of an open document with an analysis is that of the buffers,
\* but for an analysis a request made and for files that were missing.
Fresh ==
    Exploring =>
      \A f \in (open \cap valid) \ (rejected \cup asked) : ~ChangeWaits(f) =>
         \A d \in Reads(f) : diagnostics[f].read[d] \in {text[d], NoText}

-----------------------------------------------------------------------------
(* Messages and reports.                                                   *)

LEMMA MessageFields ==
    ASSUME NEW m \in Messages
    PROVE  /\ m.files \subseteq Files
           /\ m.kind # "watched" => \E f \in Files : m.files = {f}
           /\ m.kind \in {"open", "change", "save"} => m.text \in Texts
           /\ m.kind = "change" => m.base \in Texts
           /\ m.kind = "watched" => m.deleted \subseteq Files
           /\ m.kind \in {"open", "change", "save", "close", "query", "watched"}
    BY DEF Messages

LEMMA ReadsFiles == ASSUME NEW f \in Files PROVE Reads(f) \subseteq Files /\ f \in Reads(f)
    BY DocSyncAssumption DEF Reads

LEMMA ContentType ==
    ASSUME disk \in [Files -> Contents], NEW t \in [Files -> Contents], NEW g \in Files
    PROVE  Content(t, g) \in Contents
    BY DEF Content

\* Reports are not the empty list, and have the fields the client sees.
LEMMA ReportFields ==
    ASSUME disk \in [Files -> Contents], NEW t \in [Files -> Contents], NEW F \in SUBSET Files,
           NEW k \in {"shallow", "parse", "design"}
    PROVE  /\ Report(k, t, F) # NoReport
           /\ Report(k, t, F).kind = k
           /\ Report(k, t, F).read \in [F -> Contents]
           /\ \A g \in F : Report(k, t, F).read[g] = Content(t, g)
           /\ Report(k, t, F) \in [kind : {k}, read : [F -> Contents]]
<1>1. [g \in F |-> Content(t, g)] \in [F -> Contents]
    BY ContentType
<1>2. Report(k, t, F) = [kind |-> k, read |-> [g \in F |-> Content(t, g)]]
    BY DEF Report
<1>3. Report(k, t, F) \in [kind : {k}, read : [F -> Contents]]
    BY <1>1, <1>2
<1>4. Report(k, t, F) \in [kind : {"shallow", "parse", "design"},
                           read : UNION {[G -> Texts \cup {NoText}] : G \in SUBSET Files}]
    BY <1>3 DEF Contents
<1>5. QED
    BY <1>1, <1>2, <1>3, <1>4, DocSyncAssumption

LEMMA ReportTypes ==
    ASSUME disk \in [Files -> Contents], NEW t \in [Files -> Contents]
    PROVE  /\ \A f \in Files : /\ ShallowReport(t, f) \in Reports(f)
                               /\ ParseReport(t, f) \in Reports(f)
           /\ \A f \in Files : DesignReport(t) \in Reports(f)
<1>1. ASSUME NEW f \in Files PROVE ShallowReport(t, f) \in Reports(f)
    BY ReadsFiles, ReportFields DEF ShallowReport, Reports
<1>2. ASSUME NEW f \in Files PROVE ParseReport(t, f) \in Reports(f)
    BY ReportFields DEF ParseReport, Reports
<1>3. ASSUME NEW f \in Files PROVE DesignReport(t) \in Reports(f)
    BY ReportFields, DocSyncAssumption DEF DesignReport, Reports
<1>4. QED
    BY <1>1, <1>2, <1>3

\* The head of the inbox, and what is behind it.
\* The report of IssueSemantic.
LEMMA SemanticReport ==
    ASSUME TypeOK, NEW f \in Files,
           NEW r, r = [kind |-> "shallow", read |-> [g \in Reads(f) |-> text[g]]]
    PROVE  /\ r \in Reports(f) /\ r # NoReport /\ r.kind = "shallow"
           /\ \A d \in Reads(f) : r.read[d] = text[d]
<1>1. Reads(f) \in SUBSET Files /\ text \in [Files -> Contents]
    BY ReadsFiles DEF TypeOK
<1>2. PICK m : m = [g \in Reads(f) |-> text[g]]
    OBVIOUS
<1>3. m \in [Reads(f) -> Contents]
    BY <1>1, <1>2
<1>4. r = [kind |-> "shallow", read |-> m]
    BY <1>2
<1>5. r \in [kind : {"shallow"}, read : [Reads(f) -> Contents]]
    BY <1>3, <1>4
<1>6. r # NoReport
  <2>1. m \in UNION {[F -> Texts \cup {NoText}] : F \in SUBSET Files}
      BY <1>1, <1>3 DEF Contents
  <2>2. r \in [kind : {"shallow", "parse", "design"},
               read : UNION {[F -> Texts \cup {NoText}] : F \in SUBSET Files}]
      BY <1>4, <2>1
  <2>3. QED
      BY <2>2, DocSyncAssumption
<1>7. QED
    BY <1>2, <1>4, <1>5, <1>6 DEF Reports

LEMMA InboxHead ==
    ASSUME TypeOK, inbox # <<>>
    PROVE  /\ Head(inbox) \in Messages /\ Head(inbox) = inbox[1]
           /\ Len(inbox) \in Nat /\ Len(inbox) >= 1
           /\ Tail(inbox) \in Seq(Messages) /\ Len(Tail(inbox)) = Len(inbox) - 1
           /\ \A i \in 1..(Len(inbox) - 1) : Tail(inbox)[i] = inbox[i + 1]
    BY HeadTailProperties, LenProperties DEF TypeOK

\* The file a message other than a watcher report is about.
LEMMA FileOfHead ==
    ASSUME TypeOK, inbox # <<>>, Head(inbox).kind # "watched"
    PROVE  TheFile \in Files /\ Head(inbox).files = {TheFile}
<1>1. PICK f \in Files : Head(inbox).files = {f}
    BY InboxHead, MessageFields
<1>2. TheFile = f
    BY <1>1 DEF TheFile
<1>3. QED
    BY <1>1, <1>2

-----------------------------------------------------------------------------
(* Loading and analysing documents.                                        *)

\* Only what was not loaded gets another text.
LEMMA LoadedText ==
    ASSUME TypeOK, NEW t \in [Files -> Contents], NEW F \in SUBSET Files
    PROVE  /\ Loaded(t, F) \in [Files -> Contents]
           /\ \A g \in Files : t[g] # NoText => Loaded(t, F)[g] = t[g]
           /\ \A f \in F : \A g \in Reads(f) : Loaded(t, F)[g] = Content(t, g)
           /\ \A g \in Files : Loaded(t, F)[g] \in {t[g], Content(t, g)}
<1>1. \A g \in Files : Content(t, g) \in Contents
    BY ContentType DEF TypeOK
<1>2. \A f \in F : Reads(f) \subseteq ReadBy(F) /\ Reads(f) \subseteq Files
    BY ReadsFiles DEF ReadBy
<1>3. \A g \in Files : t[g] # NoText => Content(t, g) = t[g]
    BY DEF Content
<1>4. QED
    BY <1>1, <1>2, <1>3 DEF Loaded

\* A document is loaded.
LEMMA DocumentsLoaded ==
    ASSUME TypeOK, NEW t \in [Files -> Contents], NEW F \in SUBSET Files,
           \A g \in docs \cup F : t[g] # NoText
    PROVE  /\ docs \cup F \subseteq Documents(t, F) /\ Documents(t, F) \subseteq Files
           /\ \A g \in Documents(t, F) : Loaded(t, F)[g] # NoText
<1>1. ReadBy(F) \subseteq Files
    BY ReadsFiles DEF ReadBy
<1>2. docs \subseteq Files
    BY DEF TypeOK
<1>3. docs \cup F \subseteq Documents(t, F) /\ Documents(t, F) \subseteq Files
    BY <1>1, <1>2 DEF Documents
<1>4. ASSUME NEW g \in Documents(t, F) PROVE Loaded(t, F)[g] # NoText
  <2>1. CASE g \in docs \cup F
      BY <1>3, <2>1, LoadedText
  <2>2. CASE g \in ReadBy(F) /\ Content(t, g) # NoText
      BY <1>1, <2>2 DEF Loaded
  <2>3. QED
      BY <2>1, <2>2 DEF Documents
<1>5. QED
    BY <1>3, <1>4

\* analyzeDocument for the documents of F: their lists are those of the new buffers, and
\* are sent; the files of C lose theirs.
LEMMA Analysed ==
    ASSUME TypeOK, NEW t \in [Files -> Contents], NEW F \in SUBSET Files, NEW v \in SUBSET docs,
           NEW C \in SUBSET Files, \A g \in docs \cup F : t[g] # NoText,
           analyzeDocuments(F, t, v, C)
    PROVE  /\ docs \subseteq docs' /\ F \subseteq docs' /\ docs' \subseteq Files
           /\ text' = Loaded(t, F) /\ text' \in [Files -> Contents]
           /\ \A g \in docs' : text'[g] # NoText
           /\ valid' = v \cup F /\ valid' \subseteq docs'
           /\ diagnostics' \in [Files -> UNION {Reports(f) : f \in Files}]
           /\ shown' \in [Files -> UNION {Reports(f) : f \in Files}]
           /\ \A f \in Files : diagnostics'[f] \in Reports(f) /\ shown'[f] \in Reports(f)
           /\ dirty' \subseteq dirty \cup C
           /\ PublishedUnlessDirty => PublishedUnlessDirty'
<1> DEFINE d == [f \in Files |-> IF f \in F THEN ShallowReport(t, f) ELSE Cleared(C)[f]]
<1>1. /\ docs' = Documents(t, F) /\ text' = Loaded(t, F) /\ valid' = v \cup F
      /\ diagnostics' = d
      /\ F = {} => dirty' = dirty \cup C /\ shown' = shown
      /\ F # {} => dirty' = {} /\ shown' = [f \in Files |->
                      IF f \in dirty \cup F \cup C THEN d[f] ELSE shown[f]]
    BY DEF analyzeDocuments, pushDiags
<1>2. /\ docs \subseteq docs' /\ F \subseteq docs' /\ docs' \subseteq Files
      /\ text' \in [Files -> Contents]
      /\ \A g \in docs' : text'[g] # NoText
      /\ valid' \subseteq docs'
    BY <1>1, LoadedText, DocumentsLoaded
<1>3. \A f \in Files : /\ f \in F => d[f] = ShallowReport(t, f)
                       /\ f \in C \ F => d[f] = NoReport
                       /\ f \notin F \cup C => d[f] = diagnostics[f]
    BY DEF Cleared
<1>4. \A f \in Files : d[f] \in Reports(f)
  <2>1. \A f \in Files : NoReport \in Reports(f) /\ diagnostics[f] \in Reports(f)
      BY DEF Reports, TypeOK
  <2>2. \A f \in Files : ShallowReport(t, f) \in Reports(f)
      BY ReportTypes DEF TypeOK
  <2>3. QED
      BY <1>3, <2>1, <2>2
<1>5. \A f \in Files : shown'[f] \in Reports(f) /\ shown[f] \in Reports(f)
    BY <1>1, <1>4 DEF TypeOK
<1>6. shown' \in [Files -> UNION {Reports(f) : f \in Files}]
  <2>1. CASE F = {}
      BY <1>1, <2>1 DEF TypeOK
  <2>2. CASE F # {}
    <3>1. shown' = [f \in Files |-> shown'[f]]
        BY <1>1, <2>2
    <3>2. QED
        BY <1>5, <3>1
  <2>3. QED
      BY <2>1, <2>2
<1>7. diagnostics' \in [Files -> UNION {Reports(f) : f \in Files}]
    BY <1>1, <1>4
<1>8. dirty' \subseteq dirty \cup C
    BY <1>1
<1>9. ASSUME PublishedUnlessDirty, NEW f \in Files \ dirty'
      PROVE  shown'[f] = diagnostics'[f]
    BY <1>1, <1>3, <1>9 DEF PublishedUnlessDirty
<1>10. PublishedUnlessDirty => PublishedUnlessDirty'
    BY <1>9 DEF PublishedUnlessDirty
<1> HIDE DEF d
<1>11. \A f \in Files : diagnostics'[f] \in Reports(f) /\ shown'[f] \in Reports(f)
    BY <1>1, <1>4, <1>5
<1>12. QED
    BY <1>1, <1>2, <1>6, <1>7, <1>8, <1>10, <1>11

-----------------------------------------------------------------------------
(* The handlers: the types of what they store.                             *)

DocTypes ==
    /\ docs \subseteq Files /\ open \subseteq docs /\ valid \subseteq docs
    /\ text \in [Files -> Contents] /\ \A f \in docs : text[f] # NoText

DiagTypes ==
    /\ diagnostics \in [Files -> UNION {Reports(f) : f \in Files}]
    /\ shown \in [Files -> UNION {Reports(f) : f \in Files}]
    /\ \A f \in Files : diagnostics[f] \in Reports(f) /\ shown[f] \in Reports(f)
    /\ dirty \subseteq Files

LEMMA SplitTypes == TypeOK => DocTypes /\ DiagTypes
    BY DEF TypeOK, DocTypes, DiagTypes

\* A document that is open is asked to change or to be saved.
LEMMA HeadIsOpen ==
    ASSUME TypeOK, Protocol, inbox # <<>>, Head(inbox).kind \in {"change", "save"}
    PROVE  TheFile \in open
<1>1. TheFile \in Files /\ Head(inbox).files = {TheFile}
    BY FileOfHead
<1>2. inbox[1] = Head(inbox) /\ 1 \in 1..Len(inbox)
    BY InboxHead
<1>3. Ready(inbox, open, TheFile, 1)
    BY <1>1, <1>2 DEF Protocol, About
<1>4. QED
    BY <1>3 DEF Ready

LEMMA Valids ==
    ASSUME TypeOK
    PROVE  /\ \A f, t : StillValid(f, t) \subseteq valid
           /\ \A v : StaleOpen(v) \subseteq open /\ StaleOpen(v) \subseteq docs
    BY DEF StillValid, StaleOpen

LEMMA AnalysedTypes ==
    ASSUME TypeOK, NEW t \in [Files -> Contents], NEW F \in SUBSET Files, NEW v \in SUBSET docs,
           NEW C \in SUBSET Files, \A g \in docs \cup F : t[g] # NoText,
           analyzeDocuments(F, t, v, C)
    PROVE  /\ docs \subseteq docs' /\ F \subseteq docs' /\ docs' \subseteq Files
           /\ text' \in [Files -> Contents] /\ \A g \in docs' : text'[g] # NoText
           /\ \A g \in Files : t[g] # NoText => text'[g] = t[g]
           /\ valid' \subseteq docs' /\ DiagTypes'
           /\ PublishedUnlessDirty => PublishedUnlessDirty'
<1>1. dirty \subseteq Files
    BY DEF TypeOK
<1>2. /\ docs \subseteq docs' /\ F \subseteq docs' /\ docs' \subseteq Files
      /\ text' = Loaded(t, F) /\ text' \in [Files -> Contents]
      /\ \A g \in docs' : text'[g] # NoText
      /\ valid' \subseteq docs' /\ dirty' \subseteq dirty \cup C
    BY Analysed
<1>3. /\ diagnostics' \in [Files -> UNION {Reports(g) : g \in Files}]
      /\ shown' \in [Files -> UNION {Reports(g) : g \in Files}]
      /\ \A g \in Files : diagnostics'[g] \in Reports(g) /\ shown'[g] \in Reports(g)
      /\ PublishedUnlessDirty => PublishedUnlessDirty'
    BY Analysed
<1>4. DiagTypes'
    BY <1>1, <1>2, <1>3 DEF DiagTypes
<1>5. \A g \in Files : t[g] # NoText => text'[g] = t[g]
    BY <1>2, LoadedText
<1>6. QED
    BY <1>2, <1>3, <1>4, <1>5

LEMMA OpenTypes ==
    ASSUME TypeOK, openDocument
    PROVE  /\ DocTypes' /\ DiagTypes' /\ docs \subseteq docs'
           /\ text'[TheFile] = Head(inbox).text
           /\ \A g \in Files \ {TheFile} : text[g] # NoText => text'[g] = text[g]
           /\ PublishedUnlessDirty => PublishedUnlessDirty'
<1> DEFINE f == TheFile
           t == Head(inbox).text
<1>1. f \in Files /\ t \in Texts /\ open' = open \cup {f} /\ t # NoText
    BY FileOfHead, InboxHead, MessageFields, DocSyncAssumption DEF openDocument, Handling
<1>2. CASE KeepsDesign(f, t)
  <2>1. PICK F \in SUBSET {f} : /\ docs' = Documents(text, F) \cup {f}
                                /\ text' = Loaded(text, F) /\ valid' = valid \cup F
                                /\ UNCHANGED diagVars
      BY <1>2 DEF openDocument
  <2>2. text[f] = t /\ text[f] # NoText
      BY <1>1, <1>2 DEF KeepsDesign
  <2>3. F \in SUBSET Files /\ \A g \in docs \cup F : text[g] # NoText
      BY <1>1, <2>2 DEF TypeOK
  <2>4. text \in [Files -> Contents]
      BY DEF TypeOK
  <2>a. /\ Loaded(text, F) \in [Files -> Contents]
        /\ \A g \in Files : text[g] # NoText => Loaded(text, F)[g] = text[g]
        /\ docs \cup F \subseteq Documents(text, F) /\ Documents(text, F) \subseteq Files
        /\ \A g \in Documents(text, F) : Loaded(text, F)[g] # NoText
      BY <2>3, <2>4, LoadedText, DocumentsLoaded
  <2>b. open \subseteq docs /\ valid \subseteq docs
      BY DEF TypeOK
  <2> HIDE DEF f, t
  <2>5. DocTypes'
      BY <1>1, <2>1, <2>2, <2>a, <2>b DEF DocTypes
  <2>6. /\ docs \subseteq docs' /\ text'[f] = t
        /\ \A g \in Files : text[g] # NoText => text'[g] = text[g]
      BY <1>1, <2>1, <2>2, <2>a
  <2>7. DiagTypes' /\ (PublishedUnlessDirty => PublishedUnlessDirty')
      BY <2>1 DEF TypeOK, DiagTypes, diagVars, PublishedUnlessDirty
  <2>8. QED
      BY <2>5, <2>6, <2>7 DEF f, t
<1>3. CASE ~KeepsDesign(f, t)
  <2>1. PICK u \in [Files -> Contents] : u = [text EXCEPT ![f] = t]
      BY <1>1 DEF TypeOK, Contents
  <2>2. PICK v \in SUBSET docs : v = StillValid(f, t)
      BY Valids DEF TypeOK
  <2>3. PICK F \in SUBSET Files, C \in SUBSET Files : F = {f} /\ C = {}
      BY <1>1
  <2>4. analyzeDocuments(F, u, v, C)
      BY <1>3, <2>1, <2>2, <2>3 DEF openDocument
  <2>5. /\ u[f] = t /\ \A g \in Files \ {f} : u[g] = text[g]
        /\ \A g \in docs \cup F : u[g] # NoText
      BY <1>1, <2>1, <2>3 DEF TypeOK
  <2> HIDE DEF f, t
  <2>6. /\ docs \subseteq docs' /\ F \subseteq docs' /\ docs' \subseteq Files
        /\ text' \in [Files -> Contents] /\ \A g \in docs' : text'[g] # NoText
        /\ \A g \in Files : u[g] # NoText => text'[g] = u[g]
        /\ valid' \subseteq docs' /\ DiagTypes'
        /\ PublishedUnlessDirty => PublishedUnlessDirty'
      BY <2>4, <2>5, AnalysedTypes
  <2>7. open \subseteq docs
      BY DEF TypeOK
  <2>8. DocTypes'
      BY <1>1, <2>3, <2>6, <2>7 DEF DocTypes
  <2>9. text'[f] = t /\ \A g \in Files \ {f} : text[g] # NoText => text'[g] = text[g]
      BY <1>1, <2>5, <2>6
  <2>10. QED
      BY <2>6, <2>8, <2>9 DEF f, t
<1>4. QED
    BY <1>2, <1>3

\* The document that is saved has the saved text afterwards; no other loaded buffer
\* is touched.
LEMMA SaveTypes ==
    ASSUME TypeOK, Protocol, onDocDidSave
    PROVE  /\ DocTypes' /\ DiagTypes' /\ docs \subseteq docs' /\ open' = open
           /\ rejected' = rejected \ {TheFile}
           /\ text'[TheFile] = Head(inbox).text
           /\ \A g \in Files \ {TheFile} : text[g] # NoText => text'[g] = text[g]
           /\ PublishedUnlessDirty => PublishedUnlessDirty'
<1> DEFINE f == TheFile
           t == Head(inbox).text
<1>1. f \in Files /\ t \in Texts /\ t # NoText /\ f \in open /\ f \in docs
    BY FileOfHead, InboxHead, MessageFields, HeadIsOpen, DocSyncAssumption
       DEF onDocDidSave, Handling, TypeOK
<1>2. PICK u \in [Files -> Contents] : u = [text EXCEPT ![f] = t]
    BY <1>1 DEF TypeOK, Contents
<1>3. u = Saved(f, t)
    BY <1>2 DEF Saved
<1>4. /\ u[f] = t /\ \A g \in Files \ {f} : u[g] = text[g]
      /\ \A g \in docs : u[g] # NoText
    BY <1>1, <1>2 DEF TypeOK
<1>5. rejected' = rejected \ {f} /\ open' = open
    BY <1>1 DEF onDocDidSave, docVars
<1>a. open \subseteq docs /\ docs \subseteq Files
    BY DEF TypeOK
<1>6. CASE Exploring
  <2>1. PICK v \in SUBSET docs : v = StillValid(f, t)
      BY Valids DEF TypeOK
  <2>2. PICK F \in SUBSET Files, C \in SUBSET Files : F = {f} \cup StaleOpen(v) /\ C = {}
      BY <1>1, <1>a, Valids
  <2>3. analyzeDocuments(F, u, v, C)
      BY <1>1, <1>3, <1>6, <2>1, <2>2 DEF onDocDidSave
  <2>4. \A g \in docs \cup F : u[g] # NoText
      BY <1>1, <1>4, <2>2, Valids
  <2> HIDE DEF f, t
  <2>5. /\ docs \subseteq docs' /\ docs' \subseteq Files
        /\ text' \in [Files -> Contents] /\ \A g \in docs' : text'[g] # NoText
        /\ \A g \in Files : u[g] # NoText => text'[g] = u[g]
        /\ valid' \subseteq docs' /\ DiagTypes'
        /\ PublishedUnlessDirty => PublishedUnlessDirty'
      BY <2>3, <2>4, AnalysedTypes
  <2>6. DocTypes'
      BY <1>5, <1>a, <2>5 DEF DocTypes
  <2>7. text'[f] = t /\ \A g \in Files \ {f} : text[g] # NoText => text'[g] = text[g]
      BY <1>1, <1>4, <2>5
  <2>8. QED
      BY <1>5, <2>5, <2>6, <2>7 DEF f, t
<1>7. CASE ~Exploring
  <2> DEFINE had == {g \in Files : diagnostics[g] # NoReport}
             d == [g \in Files |-> IF g \in Build THEN DesignReport(u)
                                   ELSE IF g \in docs THEN ParseReport(u, g) ELSE NoReport]
  <2>1. PICK F \in SUBSET {f} : /\ docs' = Documents(u, F) \cup {f}
                                /\ text' = Loaded(u, F) /\ valid' = F
                                /\ pushDiags(d, dirty \cup had \cup Build \cup docs)
    <3>1. PICK F \in SUBSET {f} : F = IF InactiveRegions THEN {f} ELSE {}
        OBVIOUS
    <3>2. QED
        BY <1>1, <1>3, <1>7, <3>1 DEF onDocDidSave
  <2>2. F \in SUBSET Files /\ \A g \in docs \cup F : u[g] # NoText
      BY <1>1, <1>4
  <2>3. /\ Loaded(u, F) \in [Files -> Contents]
        /\ \A g \in Files : u[g] # NoText => Loaded(u, F)[g] = u[g]
        /\ docs \cup F \subseteq Documents(u, F) /\ Documents(u, F) \subseteq Files
        /\ \A g \in Documents(u, F) : Loaded(u, F)[g] # NoText
      BY <2>2, LoadedText, DocumentsLoaded
  <2>4. \A g \in Files : d[g] \in Reports(g)
    <3>1. \A g \in Files : /\ DesignReport(u) \in Reports(g) /\ ParseReport(u, g) \in Reports(g)
                           /\ NoReport \in Reports(g)
        BY ReportTypes DEF TypeOK, Reports
    <3>2. QED
        BY <3>1
  <2>5. /\ diagnostics' = d /\ dirty' = {}
        /\ shown' = [g \in Files |-> IF g \in dirty \cup had \cup Build \cup docs THEN d[g]
                                     ELSE shown[g]]
      BY <2>1 DEF pushDiags
  <2>6. PublishedUnlessDirty => PublishedUnlessDirty'
    <3>1. ASSUME PublishedUnlessDirty, NEW g \in Files PROVE shown'[g] = diagnostics'[g]
        BY <2>5, <3>1 DEF PublishedUnlessDirty
    <3>2. QED
        BY <3>1 DEF PublishedUnlessDirty
  <2>7. DiagTypes'
    <3>1. \A g \in Files : shown[g] \in Reports(g)
        BY DEF TypeOK
    <3>2. \A g \in Files : diagnostics'[g] \in Reports(g) /\ shown'[g] \in Reports(g)
        BY <2>4, <2>5, <3>1
    <3>3. /\ diagnostics' = [g \in Files |-> diagnostics'[g]]
          /\ shown' = [g \in Files |-> shown'[g]]
        BY <2>5
    <3>4. QED
        BY <2>5, <3>2, <3>3 DEF DiagTypes
  <2> HIDE DEF f, t, d, had
  <2>8. DocTypes' /\ docs \subseteq docs'
      BY <1>1, <1>4, <1>5, <1>a, <2>1, <2>3 DEF DocTypes
  <2>9. text'[f] = t /\ \A g \in Files \ {f} : text[g] # NoText => text'[g] = text[g]
      BY <1>1, <1>4, <2>1, <2>3
  <2>10. QED
      BY <1>5, <2>6, <2>7, <2>8, <2>9 DEF f, t
<1>8. QED
    BY <1>6, <1>7

\* What a report of the watcher analyses: the buffers are read again first, those of the
\* files that last names; no open one is among them; every open document that reads one
\* of them is analysed.
LEMMA WatchedAnalysis ==
    ASSUME TypeOK, onWatchedFiles
    PROVE  \E u \in [Files -> Contents], v \in SUBSET docs, F \in SUBSET Files, C \in SUBSET Files :
              /\ analyzeDocuments(F, u, v, C)
              /\ F \subseteq docs /\ C \cap open = {} /\ StaleOpen(v) \subseteq F
              /\ F \subseteq last'.files \cup open /\ last'.files \subseteq Head(inbox).files
              /\ \A g \in docs \cup F : u[g] # NoText
              /\ \A g \in Files : text[g] # NoText => u[g] # NoText
              /\ \A g \in Files \ last'.files : u[g] = text[g]
              /\ v = valid \ InvalidatedBy(last'.files)
              /\ last'.files \subseteq Files \ open
              /\ Build # {} => C = {}
<1> DEFINE gone == Head(inbox).deleted
           reload == Reloadable(Head(inbox).files \ gone)
           still == valid \ InvalidatedBy(reload)
<1>1. open \subseteq docs /\ docs \subseteq Files /\ valid \subseteq docs
    BY DEF TypeOK
<1>2. gone \subseteq Files /\ Head(inbox).files \subseteq Files
    BY InboxHead, MessageFields DEF onWatchedFiles, Handling
<1>3. /\ reload \subseteq Files \ open /\ reload \subseteq Head(inbox).files
      /\ \A g \in reload : disk[g] # NoText /\ disk[g] \in Contents
    BY <1>2 DEF Reloadable, TypeOK
<1>4. PICK u \in [Files -> Contents] :
        u = [g \in Files |-> IF g \in reload THEN disk[g] ELSE text[g]]
    BY <1>3 DEF TypeOK
<1>5. PICK v \in SUBSET docs : v = still
    BY <1>1
<1>6. PICK F \in SUBSET Files : F = (reload \cap docs) \cup StaleOpen(still)
    BY <1>1, Valids
<1>7. PICK C \in SUBSET Files : C = IF Exploring THEN gone \ open ELSE {}
    BY <1>2
<1>8. analyzeDocuments(F, u, v, C) /\ last'.files = reload
    BY <1>4, <1>5, <1>6, <1>7 DEF onWatchedFiles, DoneAbout
<1>9. /\ \A g \in Files \ reload : u[g] = text[g]
      /\ \A g \in reload : u[g] # NoText
    BY <1>3, <1>4
<1>10. /\ F \subseteq docs /\ C \cap open = {} /\ StaleOpen(v) \subseteq F
       /\ F \subseteq reload \cup open /\ (Build # {} => C = {})
    BY <1>5, <1>6, <1>7, Valids DEF Exploring
<1>11. /\ \A g \in docs \cup F : u[g] # NoText
       /\ \A g \in Files : text[g] # NoText => u[g] # NoText
    BY <1>1, <1>3, <1>9, <1>10 DEF TypeOK
<1>12. PICK R : R = reload
    OBVIOUS
<1>13. /\ last'.files = R /\ R \subseteq Files \ open /\ R \subseteq Head(inbox).files
       /\ v = valid \ InvalidatedBy(R) /\ F \subseteq R \cup open
       /\ \A g \in Files \ R : u[g] = text[g]
    BY <1>3, <1>5, <1>8, <1>9, <1>10, <1>12
<1> HIDE DEF gone, reload, still
<1>14. QED
    BY <1>8, <1>10, <1>11, <1>13

\* A report of the watcher touches no buffer of an open document.
LEMMA WatchedTypes ==
    ASSUME TypeOK, onWatchedFiles
    PROVE  /\ DocTypes' /\ DiagTypes' /\ docs \subseteq docs' /\ open' = open
           /\ \A g \in open : text'[g] = text[g]
           /\ \A g \in Files : text[g] # NoText => text'[g] # NoText
           /\ PublishedUnlessDirty => PublishedUnlessDirty'
<1>1. open \subseteq docs /\ docs \subseteq Files /\ open' = open
    BY DEF TypeOK, onWatchedFiles
<1>2. PICK u \in [Files -> Contents], v \in SUBSET docs, F \in SUBSET Files, C \in SUBSET Files :
        /\ analyzeDocuments(F, u, v, C)
        /\ \A g \in docs \cup F : u[g] # NoText
        /\ \A g \in Files : text[g] # NoText => u[g] # NoText
        /\ \A g \in open : u[g] = text[g]
    BY <1>1, WatchedAnalysis
<1>3. /\ docs \subseteq docs' /\ docs' \subseteq Files
      /\ text' \in [Files -> Contents] /\ \A g \in docs' : text'[g] # NoText
      /\ \A g \in Files : u[g] # NoText => text'[g] = u[g]
      /\ valid' \subseteq docs' /\ DiagTypes'
      /\ PublishedUnlessDirty => PublishedUnlessDirty'
    BY <1>2, AnalysedTypes
<1>4. DocTypes'
    BY <1>1, <1>3 DEF DocTypes
<1>5. /\ \A g \in open : text'[g] = text[g]
      /\ \A g \in Files : text[g] # NoText => text'[g] # NoText
    BY <1>1, <1>2, <1>3
<1>6. QED
    BY <1>1, <1>3, <1>4, <1>5

\* An analysis that is not published: of a request, or of a change on its way.
LEMMA AnalysisTypes ==
    ASSUME TypeOK, NEW f \in Files, text[f] # NoText \/ Content(text, f) # NoText,
           docs' = Documents(text, {f}), text' = Loaded(text, {f}), valid' = valid \cup {f},
           open' = open
    PROVE  /\ DocTypes' /\ docs \subseteq docs'
           /\ \A g \in Files : text[g] # NoText => text'[g] = text[g]
<1>1. text \in [Files -> Contents] /\ Content(text, f) # NoText /\ {f} \in SUBSET Files
    BY DEF TypeOK, Content
<1>2. /\ Loaded(text, {f}) \in [Files -> Contents]
      /\ \A g \in Files : text[g] # NoText => Loaded(text, {f})[g] = text[g]
    BY <1>1, LoadedText
<1>3. ReadBy({f}) = Reads(f) /\ Reads(f) \subseteq Files /\ f \in Reads(f)
    BY ReadsFiles DEF ReadBy
<1>4. docs' = docs \cup {f} \cup {g \in Reads(f) \ Headers : Content(text, g) # NoText}
    BY <1>3 DEF Documents
<1>5. \A g \in Reads(f) : text'[g] = Content(text, g)
    BY <1>3 DEF Loaded
<1>6. open \subseteq docs /\ valid \subseteq docs /\ docs \subseteq Files
      /\ \A g \in docs : text[g] # NoText
    BY DEF TypeOK
<1>7. \A g \in docs' : text'[g] # NoText
    BY <1>1, <1>2, <1>3, <1>4, <1>5, <1>6
<1>8. QED
    BY <1>1, <1>2, <1>3, <1>4, <1>6, <1>7 DEF DocTypes

LEMMA DoneTypes ==
    ASSUME TypeOK, inbox # <<>>, NEW F, DoneAbout(F)
    PROVE  inbox' \in Seq(Messages) /\ Len(inbox') <= MaxInbox /\ stage' = "idle"
    BY InboxHead, DocSyncAssumption DEF DoneAbout, TypeOK

\* Only a document is analysed by a request.
LEMMA AskedTypes ==
    ASSUME TypeOK, Server
    PROVE  asked' \subseteq Files
<1>1. CASE openDocument \/ getAnalysis \/ onDocDidSave
  <2>1. TheFile \in Files
      BY <1>1, FileOfHead DEF openDocument, getAnalysis, onDocDidSave, Handling
  <2>2. asked' \subseteq asked \cup {TheFile}
      BY <1>1 DEF openDocument, getAnalysis, onDocDidSave, analyzeDocuments, docVars
  <2>3. QED
      BY <2>1, <2>2 DEF TypeOK
<1>2. CASE ~(openDocument \/ getAnalysis \/ onDocDidSave)
  <2>1. asked' \subseteq asked
      BY <1>2 DEF Server, ApplyChange, SupersededChange, ClearDiagnostics, IssueParse,
           IssueSemantic, PublishChange, closeDocument, onWatchedFiles, analyzeDocuments, docVars
  <2>2. QED
      BY <2>1 DEF TypeOK
<1>3. QED
    BY <1>1, <1>2

LEMMA ServerTypes ==
    ASSUME TypeOK, Protocol, Staged, Server
    PROVE  TypeOK'
<1> DEFINE Queue == /\ inbox' \in Seq(Messages) /\ Len(inbox') <= MaxInbox
                    /\ stage' \in {"idle", "applied", "cleared", "parsed", "issued"}
                    /\ stage' # "idle" => inbox' # <<>> /\ Head(inbox').kind = "change"
<1>1. SUFFICES /\ Queue /\ DocTypes' /\ DiagTypes' /\ rejected' \subseteq open'
               /\ UNCHANGED clientVars
    BY AskedTypes DEF TypeOK, DocTypes, DiagTypes, clientVars
<1>2. DocTypes /\ DiagTypes /\ rejected \subseteq open
    BY SplitTypes DEF TypeOK
<1>3. UNCHANGED clientVars
    BY DEF Server, openDocument, ApplyChange, SupersededChange, ClearDiagnostics, IssueParse,
           IssueSemantic, PublishChange, onDocDidSave, closeDocument, onWatchedFiles, getAnalysis
<1>4. CASE openDocument
  <2>1. Queue
      BY <1>4, DoneTypes DEF openDocument, Handling, Done
  <2>2. rejected' \subseteq open'
      BY <1>2, <1>4 DEF openDocument
  <2>3. QED
      BY <1>3, <1>4, <2>1, <2>2, OpenTypes
<1>5. CASE onDocDidSave
  <2>1. Queue
      BY <1>5, DoneTypes DEF onDocDidSave, Handling, Done
  <2>2. QED
      BY <1>2, <1>3, <1>5, <2>1, SaveTypes
<1>6. CASE onWatchedFiles
  <2>1. Queue
      BY <1>6, DoneTypes DEF onWatchedFiles, Handling
  <2>2. rejected' \subseteq open'
      BY <1>2, <1>6 DEF onWatchedFiles
  <2>3. QED
      BY <1>3, <1>6, <2>1, <2>2, WatchedTypes
<1>7. CASE closeDocument
  <2>1. Queue
      BY <1>7, DoneTypes DEF closeDocument, Handling, Done
  <2>2. DocTypes' /\ rejected' \subseteq open'
      BY <1>2, <1>7 DEF closeDocument, DocTypes
  <2>3. Head(inbox).files \subseteq Files
      BY <1>7, InboxHead, MessageFields DEF closeDocument, Handling
  <2>4. CASE Exploring
    <3>1. \A g \in Files : Cleared(Head(inbox).files)[g] \in Reports(g)
        BY <1>2 DEF Cleared, Reports, DiagTypes
    <3>2. Cleared(Head(inbox).files) \in [Files -> UNION {Reports(f) : f \in Files}]
        BY <3>1 DEF Cleared
    <3>3. /\ diagnostics' = Cleared(Head(inbox).files)
          /\ dirty' = dirty \cup Head(inbox).files /\ shown' = shown
        BY <1>7, <2>4 DEF closeDocument
    <3>4. QED
        BY <1>2, <1>3, <2>1, <2>2, <2>3, <3>1, <3>2, <3>3 DEF DiagTypes
  <2>5. CASE ~Exploring
      BY <1>2, <1>3, <1>7, <2>1, <2>2, <2>5 DEF closeDocument, diagVars, DiagTypes
  <2>6. QED
      BY <2>4, <2>5
<1>8. CASE getAnalysis
  <2>1. Queue
      BY <1>8, DoneTypes DEF getAnalysis, Handling, Done
  <2>2. DiagTypes' /\ rejected' \subseteq open' /\ open' = open
      BY <1>2, <1>8 DEF getAnalysis, diagVars, DiagTypes
  <2>3. TheFile \in Files
      BY <1>8, FileOfHead DEF getAnalysis, Handling
  <2>4. CASE Content(text, TheFile) = NoText \/ TheFile \in valid
    <3>1. UNCHANGED <<docs, text, valid>>
        BY <1>8, <2>4 DEF getAnalysis
    <3>2. QED
        BY <1>2, <1>3, <2>1, <2>2, <3>1 DEF DocTypes
  <2>5. CASE ~(Content(text, TheFile) = NoText \/ TheFile \in valid)
    <3>1. DocTypes'
        BY <1>8, <2>2, <2>3, <2>5, AnalysisTypes DEF getAnalysis
    <3>2. QED
        BY <1>3, <2>1, <2>2, <3>1
  <2>6. QED
      BY <2>4, <2>5
<1>9. CASE stage # "idle" /\ UNCHANGED <<inbox, open, rejected>>
           /\ (ClearDiagnostics \/ IssueParse \/ IssueSemantic)
  <2>1. inbox # <<>> /\ Head(inbox).kind = "change" /\ Queue
      BY <1>9 DEF TypeOK, ClearDiagnostics, IssueParse, IssueSemantic
  <2>2. TheFile \in Files /\ TheFile \in docs /\ Head(inbox).files = {TheFile}
      BY <1>9, <2>1, FileOfHead DEF Staged
  <2>3. text \in [Files -> Contents] /\ text[TheFile] # NoText
      BY <1>2, <2>2 DEF DocTypes
  <2>4. CASE ClearDiagnostics
    <3>1. \A g \in Files : Cleared({TheFile})[g] \in Reports(g)
        BY <1>2 DEF Cleared, Reports, DiagTypes
    <3>2. Cleared({TheFile}) \in [Files -> UNION {Reports(f) : f \in Files}]
        BY <3>1 DEF Cleared
    <3>3. DiagTypes'
        BY <1>2, <2>2, <2>4, <3>1, <3>2 DEF ClearDiagnostics, DiagTypes
    <3>4. DocTypes'
        BY <1>2, <2>4 DEF ClearDiagnostics, docVars, DocTypes
    <3>5. QED
        BY <1>2, <1>3, <1>9, <2>1, <3>3, <3>4
  <2>5. CASE IssueParse
    <3>1. DocTypes'
        BY <2>2, <2>3, <2>5, AnalysisTypes DEF IssueParse
    <3>2. PICK r \in Reports(TheFile) : r = ParseReport(text, TheFile)
        BY <2>2, <2>3, ReportTypes DEF TypeOK
    <3>3. diagnostics' = [diagnostics EXCEPT ![TheFile] = r] /\ UNCHANGED <<shown, dirty>>
        BY <2>5, <3>2 DEF IssueParse
    <3>4. DiagTypes'
        BY <1>2, <2>2, <3>3 DEF DiagTypes
    <3>5. QED
        BY <1>2, <1>3, <1>9, <2>1, <3>1, <3>4
  <2>6. CASE IssueSemantic
    <3>1. DocTypes'
        BY <1>2, <2>6 DEF IssueSemantic, docVars, DocTypes
    <3>2. PICK r \in Reports(TheFile) :
               r = [kind |-> "shallow", read |-> [g \in Reads(TheFile) |-> text[g]]]
        BY <2>2, SemanticReport
    <3>3. diagnostics' = [diagnostics EXCEPT ![TheFile] = r] /\ UNCHANGED <<shown, dirty>>
        BY <2>6, <3>2 DEF IssueSemantic
    <3>4. DiagTypes'
        BY <1>2, <2>2, <3>3 DEF DiagTypes
    <3>5. QED
        BY <1>2, <1>3, <1>9, <2>1, <3>1, <3>4
  <2>7. QED
      BY <1>9, <2>4, <2>5, <2>6
<1>10. CASE SupersededChange
  <2>1. inbox # <<>>
      BY <1>10 DEF TypeOK, SupersededChange
  <2>2. Queue
      BY <1>10, <2>1, DoneTypes DEF SupersededChange, Done
  <2>3. QED
      BY <1>2, <1>3, <1>10, <2>2 DEF SupersededChange, docVars, diagVars, DocTypes, DiagTypes
<1>11. CASE PublishChange
  <2>1. inbox # <<>>
      BY <1>11 DEF TypeOK, PublishChange
  <2>2. Queue
      BY <1>11, <2>1, DoneTypes DEF PublishChange, Done
  <2>3. DiagTypes'
    <3>1. /\ diagnostics' = diagnostics /\ dirty' = {}
          /\ shown' = [f \in Files |-> IF f \in dirty THEN diagnostics[f] ELSE shown[f]]
        BY <1>11 DEF PublishChange, pushDiags
    <3>2. \A f \in Files : diagnostics'[f] \in Reports(f) /\ shown'[f] \in Reports(f)
        BY <1>2, <3>1 DEF DiagTypes
    <3>3. shown' = [f \in Files |-> shown'[f]]
        BY <3>1
    <3>4. shown' \in [Files -> UNION {Reports(f) : f \in Files}]
        BY <3>2, <3>3
    <3>5. QED
        BY <1>2, <3>1, <3>2, <3>4 DEF DiagTypes
  <2>4. QED
      BY <1>2, <1>3, <1>11, <2>2, <2>3 DEF PublishChange, docVars, DocTypes
<1>12. CASE ApplyChange
  <2>1. inbox # <<>> /\ Head(inbox).kind = "change" /\ DiagTypes' /\ open' = open
      BY <1>2, <1>12 DEF ApplyChange, Handling, diagVars, DiagTypes
  <2>2. TheFile \in Files /\ TheFile \in open /\ Head(inbox).text \in Texts
      BY <2>1, FileOfHead, HeadIsOpen, InboxHead, MessageFields
  <2>3. CASE stage' = "applied" /\ \E t \in Edited(Head(inbox)) :
             /\ text' = [text EXCEPT ![TheFile] = t] /\ valid' = valid \ InvalidatedBy({TheFile})
             /\ docs' = docs \cup {TheFile}
             /\ UNCHANGED <<inbox, rejected, last>>
    <3>1. PICK t \in Texts : text' = [text EXCEPT ![TheFile] = t]
        BY <2>2, <2>3 DEF Edited
    <3>2. DocTypes'
        BY <1>2, <2>1, <2>2, <2>3, <3>1, DocSyncAssumption DEF DocTypes, Contents
    <3>3. Queue
        BY <2>1, <2>3 DEF TypeOK
    <3>4. QED
        BY <1>2, <1>3, <2>1, <2>3, <3>2, <3>3
  <2>4. CASE rejected' = rejected \cup {TheFile} /\ Done /\ UNCHANGED <<docs, text, valid>>
    <3>1. Queue
        BY <2>1, <2>4, DoneTypes DEF Done
    <3>2. QED
        BY <1>2, <1>3, <2>1, <2>2, <2>4, <3>1 DEF DocTypes
  <2>5. QED
      BY <1>12, <2>3, <2>4 DEF ApplyChange
<1>13. CASE ClearDiagnostics \/ IssueParse \/ IssueSemantic
  <2>1. stage # "idle" /\ UNCHANGED <<inbox, open, rejected>>
      BY <1>13 DEF ClearDiagnostics, IssueParse, IssueSemantic, docVars
  <2>2. QED
      BY <1>9, <1>13, <2>1
<1>14. QED
    BY <1>4, <1>5, <1>6, <1>7, <1>8, <1>10, <1>11, <1>12, <1>13 DEF Server

-----------------------------------------------------------------------------
(* Messages that are appended to a queue, and taken from it.               *)

LEMMA Appended ==
    ASSUME NEW M, NEW q \in Seq(M), NEW m \in M
    PROVE  /\ Append(q, m) \in Seq(M) /\ Len(Append(q, m)) = Len(q) + 1 /\ Len(q) \in Nat
           /\ \A i \in 1..Len(q) : Append(q, m)[i] = q[i]
           /\ Append(q, m)[Len(q) + 1] = m
    BY AppendProperties, LenProperties

LEMMA ReadyAppend ==
    ASSUME NEW M, NEW q \in Seq(M), NEW m \in M, NEW o, NEW f, NEW i \in 1..(Len(q) + 1),
           Ready(q, o, f, i)
    PROVE  Ready(Append(q, m), o, f, i)
<1>1. PICK p : p = Append(q, m)
    OBVIOUS
<1>2. i \in Nat /\ \A j \in 1..(i - 1) : p[j] = q[j]
    BY <1>1, Appended
<1>3. \A k \in 1..(i - 1) : k + 1 \in Nat /\ (k + 1)..(i - 1) \subseteq 1..(i - 1)
    BY <1>2
<1>4. Ready(p, o, f, i)
    BY <1>2, <1>3 DEF Ready
<1>5. QED
    BY <1>1, <1>4

LEMMA ReadyNext ==
    ASSUME NEW M, NEW q \in Seq(M), NEW m \in M, NEW o, NEW f,
           (Ready(q, o, f, Len(q) + 1) /\ ~About(m, "close", f)) \/ About(m, "open", f)
    PROVE  Ready(Append(q, m), o, f, Len(q) + 2)
<1>1. PICK p, n : p = Append(q, m) /\ n = Len(q)
    OBVIOUS
<1>2. n \in Nat /\ p[n + 1] = m /\ \A j \in 1..n : p[j] = q[j]
    BY <1>1, Appended
<1>3. CASE About(m, "open", f)
  <2>1. About(p[n + 1], "open", f) /\ n + 1 \in 1..(n + 2 - 1) /\ ~About(p[n + 1], "close", f)
      BY <1>2, <1>3 DEF About
  <2>2. \A k \in 1..(n + 2 - 1) : About(p[k], "close", f) => n + 1 \in (k + 1)..(n + 2 - 1)
    <3>1. ASSUME NEW k \in 1..(n + 2 - 1), About(p[k], "close", f) PROVE k \in Nat /\ k < n + 1
        BY <1>2, <2>1, <3>1
    <3>2. QED
        BY <1>2, <3>1
  <2>3. Ready(p, o, f, n + 2)
      BY <1>2, <2>1, <2>2 DEF Ready
  <2>4. QED
      BY <1>1, <2>3
<1>4. CASE Ready(q, o, f, Len(q) + 1) /\ ~About(m, "close", f)
  <2>1. /\ f \in o \/ \E j \in 1..n : About(p[j], "open", f)
        /\ \A k \in 1..n : About(p[k], "close", f) => \E j \in (k + 1)..n : About(p[j], "open", f)
    <3>1. n + 1 - 1 = n /\ \A k \in 1..n : k + 1 \in Nat /\ (k + 1)..n \subseteq 1..n
        BY <1>2
    <3>2. /\ f \in o \/ \E j \in 1..n : About(q[j], "open", f)
          /\ \A k \in 1..n : About(q[k], "close", f) => \E j \in (k + 1)..n : About(q[j], "open", f)
        BY <1>1, <1>4, <3>1 DEF Ready
    <3>3. QED
        BY <1>2, <3>1, <3>2
  <2>2. n + 2 - 1 = n + 1 /\ ~About(p[n + 1], "close", f)
      BY <1>2, <1>4
  <2>3. \A k \in 1..(n + 1) : k \in 1..n \/ k = n + 1
      BY <1>2
  <2>4. \A k \in 1..n : (k + 1)..n \subseteq (k + 1)..(n + 1) /\ 1..n \subseteq 1..(n + 1)
      BY <1>2
  <2>5. f \in o \/ \E j \in 1..(n + 1) : About(p[j], "open", f)
      BY <1>2, <2>1
  <2>6. \A k \in 1..(n + 1) : About(p[k], "close", f) =>
            \E j \in (k + 1)..(n + 1) : About(p[j], "open", f)
      BY <2>1, <2>2, <2>3, <2>4
  <2>7. Ready(p, o, f, n + 2)
      BY <1>2, <2>2, <2>5, <2>6 DEF Ready
  <2>8. QED
      BY <1>1, <2>7
<1>5. QED
    BY <1>3, <1>4

\* o and p are the documents that are open before and after the first message.
LEMMA ReadyTail ==
    ASSUME NEW M, NEW q \in Seq(M), q # <<>>, NEW o, NEW p, NEW f, NEW i \in 1..Len(q),
           Ready(q, o, f, i + 1),
           ~About(q[1], "close", f) /\ (f \in o \/ About(q[1], "open", f)) => f \in p
    PROVE  Ready(Tail(q), p, f, i)
<1>1. PICK s : s = Tail(q)
    OBVIOUS
<1>2. Len(q) \in Nat /\ i \in Nat /\ \A j \in 1..(Len(q) - 1) : s[j] = q[j + 1]
    BY <1>1, HeadTailProperties, LenProperties
<1>3. /\ f \in o \/ \E j \in 1..i : About(q[j], "open", f)
      /\ \A k \in 1..i : About(q[k], "close", f) => \E j \in (k + 1)..i : About(q[j], "open", f)
    BY <1>2 DEF Ready
<1>4. \A j \in 2..i : j - 1 \in 1..(i - 1) /\ s[j - 1] = q[j]
    BY <1>2
<1>5. f \in p \/ \E j \in 1..(i - 1) : About(s[j], "open", f)
  <2>1. CASE \E j \in 2..i : About(q[j], "open", f)
      BY <1>4, <2>1
  <2>2. CASE ~ \E j \in 2..i : About(q[j], "open", f)
    <3>1. 1 \in 1..i /\ \A j \in 1..i : j = 1 \/ j \in 2..i
        BY <1>2
    <3>2. ~About(q[1], "close", f)
        BY <1>3, <2>2, <3>1
    <3>3. QED
        BY <1>3, <2>2, <3>1, <3>2
  <2>3. QED
      BY <2>1, <2>2
<1>6. ASSUME NEW k \in 1..(i - 1), About(s[k], "close", f)
      PROVE  \E j \in (k + 1)..(i - 1) : About(s[j], "open", f)
  <2>1. k + 1 \in 1..i /\ About(q[k + 1], "close", f) /\ k \in Nat
      BY <1>2, <1>6
  <2>2. PICK j \in (k + 1 + 1)..i : About(q[j], "open", f)
      BY <1>3, <2>1
  <2>3. j \in 2..i /\ j - 1 \in (k + 1)..(i - 1)
      BY <1>2, <2>1
  <2>4. QED
      BY <1>4, <2>2, <2>3
<1>7. Ready(s, p, f, i)
    BY <1>5, <1>6 DEF Ready
<1>8. QED
    BY <1>1, <1>7

LEMMA CurrentAppend ==
    ASSUME NEW M, NEW q \in Seq(M), NEW m \in M, NEW t, NEW r, NEW f, NEW x,
           NEW i \in 1..(Len(q) + 1), Current(q, t, r, f, i, x)
    PROVE  Current(Append(q, m), t, r, f, i, x)
<1>1. PICK p : p = Append(q, m)
    OBVIOUS
<1>2. i \in Nat /\ \A j \in 1..(i - 1) : p[j] = q[j]
    BY <1>1, Appended
<1>3. \A j \in 1..(i - 1) : j + 1 \in Nat /\ (j + 1)..(i - 1) \subseteq 1..(i - 1)
    BY <1>2
<1>4. Current(p, t, r, f, i, x)
    BY <1>2, <1>3 DEF Current
<1>5. QED
    BY <1>1, <1>4

\* The message behind the last one: it carries x itself, or leaves the text alone.
LEMMA CurrentNext ==
    ASSUME NEW M, NEW q \in Seq(M), NEW m \in M, NEW t, NEW r, NEW f, NEW x,
           \/ CarriesText(m, f) /\ m.text = x
           \/ ~CarriesText(m, f) /\ Current(q, t, r, f, Len(q) + 1, x)
    PROVE  Current(Append(q, m), t, r, f, Len(q) + 2, x)
<1>1. PICK p, n : p = Append(q, m) /\ n = Len(q)
    OBVIOUS
<1>2. n \in Nat /\ p[n + 1] = m /\ \A j \in 1..n : p[j] = q[j]
    BY <1>1, Appended
<1>3. n + 2 - 1 = n + 1 /\ n + 1 - 1 = n /\ n + 1 \in 1..(n + 1)
    BY <1>2
<1>4. CASE CarriesText(m, f) /\ m.text = x
  <2>1. (n + 1 + 1)..(n + 1) = {}
      BY <1>2
  <2>2. Current(p, t, r, f, n + 2, x)
      BY <1>2, <1>3, <1>4, <2>1 DEF Current
  <2>3. QED
      BY <1>1, <2>2
<1>5. CASE ~CarriesText(m, f) /\ Current(q, t, r, f, Len(q) + 1, x)
  <2>1. \A k \in 1..(n + 1) : k \in 1..n \/ k = n + 1
      BY <1>2
  <2>2. \A j \in 1..n : /\ j \in 1..(n + 1) /\ (j + 1)..(n + 1) \subseteq 1..(n + 1)
                        /\ (j + 1)..n \subseteq 1..n
                        /\ \A k \in (j + 1)..(n + 1) : k \in (j + 1)..n \/ k = n + 1
      BY <1>2
  <2>3. CASE \E j \in 1..n : /\ CarriesText(q[j], f) /\ q[j].text = x
                             /\ \A k \in (j + 1)..n : ~CarriesText(q[k], f)
    <3>1. PICK j \in 1..n : /\ CarriesText(q[j], f) /\ q[j].text = x
                            /\ \A k \in (j + 1)..n : ~CarriesText(q[k], f)
        BY <2>3
    <3>2. /\ CarriesText(p[j], f) /\ p[j].text = x /\ j \in 1..(n + 1)
          /\ \A k \in (j + 1)..(n + 1) : ~CarriesText(p[k], f)
        BY <1>2, <1>5, <2>2, <3>1
    <3>3. Current(p, t, r, f, n + 2, x)
        BY <1>2, <1>3, <3>2 DEF Current
    <3>4. QED
        BY <1>1, <3>3
  <2>4. CASE (\A j \in 1..n : ~CarriesText(q[j], f)) /\ (f \in r \/ t[f] = x)
    <3>1. \A j \in 1..(n + 1) : ~CarriesText(p[j], f)
        BY <1>2, <1>5, <2>1, <2>4
    <3>2. Current(p, t, r, f, n + 2, x)
        BY <1>2, <1>3, <2>4, <3>1 DEF Current
    <3>3. QED
        BY <1>1, <3>2
  <2>5. QED
      BY <1>1, <1>3, <1>5, <2>3, <2>4 DEF Current
<1>6. QED
    BY <1>4, <1>5

\* The first message is handled: t, r are the buffers and refusals before it, u, s those
\* after it.
LEMMA CurrentTail ==
    ASSUME NEW M, NEW q \in Seq(M), q # <<>>, NEW t, NEW r, NEW u, NEW s, NEW f, NEW x,
           NEW i \in 1..Len(q), Current(q, t, r, f, i + 1, x),
           CarriesText(q[1], f) /\ q[1].text = x => f \in s \/ u[f] = x,
           (\A j \in 1..i : ~CarriesText(q[j], f)) /\ (f \in r \/ t[f] = x) => f \in s \/ u[f] = x
    PROVE  Current(Tail(q), u, s, f, i, x)
<1>1. PICK p : p = Tail(q)
    OBVIOUS
<1>2. Len(q) \in Nat /\ i \in Nat /\ i >= 1 /\ \A j \in 1..(Len(q) - 1) : p[j] = q[j + 1]
    BY <1>1, HeadTailProperties, LenProperties
<1>3. i + 1 - 1 = i /\ 1 \in 1..i /\ \A j \in 1..(i - 1) : p[j] = q[j + 1] /\ j + 1 \in 2..i
    BY <1>2
<1>4. CASE \E j \in 1..i : /\ CarriesText(q[j], f) /\ q[j].text = x
                           /\ \A k \in (j + 1)..i : ~CarriesText(q[k], f)
  <2>1. PICK j \in 1..i : /\ CarriesText(q[j], f) /\ q[j].text = x
                          /\ \A k \in (j + 1)..i : ~CarriesText(q[k], f)
      BY <1>4
  <2>2. CASE j = 1
    <3>1. \A k \in 1..(i - 1) : ~CarriesText(p[k], f)
        BY <1>2, <1>3, <2>1, <2>2
    <3>2. f \in s \/ u[f] = x
        BY <2>1, <2>2
    <3>3. Current(p, u, s, f, i, x)
        BY <3>1, <3>2 DEF Current
    <3>4. QED
        BY <1>1, <3>3
  <2>3. CASE j # 1
    <3>1. j - 1 \in 1..(i - 1) /\ p[j - 1] = q[j] /\ j \in Nat
        BY <1>2, <2>3
    <3>2. \A k \in (j - 1 + 1)..(i - 1) : p[k] = q[k + 1] /\ k + 1 \in (j + 1)..i
        BY <1>2, <3>1
    <3>3. \A k \in (j - 1 + 1)..(i - 1) : ~CarriesText(p[k], f)
        BY <2>1, <3>2
    <3>4. Current(p, u, s, f, i, x)
        BY <2>1, <3>1, <3>3 DEF Current
    <3>5. QED
        BY <1>1, <3>4
  <2>4. QED
      BY <2>2, <2>3
<1>5. CASE (\A j \in 1..i : ~CarriesText(q[j], f)) /\ (f \in r \/ t[f] = x)
  <2>1. \A k \in 1..(i - 1) : ~CarriesText(p[k], f)
      BY <1>2, <1>3, <1>5
  <2>2. Current(p, u, s, f, i, x)
      BY <1>5, <2>1 DEF Current
  <2>3. QED
      BY <1>1, <2>2
<1>6. \/ \E j \in 1..i : /\ CarriesText(q[j], f) /\ q[j].text = x
                         /\ \A k \in (j + 1)..i : ~CarriesText(q[k], f)
      \/ (\A j \in 1..i : ~CarriesText(q[j], f)) /\ (f \in r \/ t[f] = x)
    BY <1>2 DEF Current
<1>7. QED
    BY <1>4, <1>5, <1>6

\* What every step of the client does.
ClientEffect(m) ==
    /\ inbox' = Append(inbox, m) /\ Len(inbox) < MaxInbox
    /\ \A f \in Files :
         /\ About(m, "change", f) => editor[f] # NoText /\ m.base = editor[f]
         /\ About(m, "save", f) => editor[f] # NoText
         /\ CarriesText(m, f) => editor'[f] = m.text
         /\ editor'[f] # NoText =>
              /\ ~About(m, "close", f)
              /\ editor[f] # NoText \/ About(m, "open", f)
              /\ ~CarriesText(m, f) => editor'[f] = editor[f]

LEMMA ClientSteps ==
    ASSUME TypeOK, Client
    PROVE  /\ UNCHANGED <<stage, docVars, diagVars, rejected, last>>
           /\ editor' \in [Files -> Contents] /\ disk' \in [Files -> Contents]
           /\ unseen' \subseteq Watched /\ steps' \in 0..MaxSteps
           /\ UNCHANGED <<inbox, editor>> \/ \E m \in Messages : ClientEffect(m)
<1>1. ASSUME NEW m, Send(m)
      PROVE  /\ UNCHANGED <<stage, docVars, diagVars, rejected, last>>
             /\ steps' \in 0..MaxSteps /\ inbox' = Append(inbox, m) /\ Len(inbox) < MaxInbox
    BY <1>1, DocSyncAssumption DEF Send, TypeOK
<1>2. editor \in [Files -> Contents] /\ disk \in [Files -> Contents] /\ unseen \subseteq Watched
    BY DEF TypeOK
<1> DEFINE Goal == /\ UNCHANGED <<stage, docVars, diagVars, rejected, last>>
                   /\ editor' \in [Files -> Contents] /\ disk' \in [Files -> Contents]
                   /\ unseen' \subseteq Watched /\ steps' \in 0..MaxSteps
                   /\ UNCHANGED <<inbox, editor>> \/ \E m \in Messages : ClientEffect(m)
<1>3. ASSUME NEW f \in Files, ClientOpens(f) PROVE Goal
  <2>1. PICK m \in Messages : /\ m = [kind |-> "open", files |-> {f}, text |-> disk[f]]
                              /\ Send(m)
      BY <1>2, <1>3 DEF ClientOpens, Messages, Contents
  <2>2. m.kind = "open" /\ m.files = {f} /\ m.text = disk[f]
      BY <2>1
  <2>3. editor' = [editor EXCEPT ![f] = disk[f]] /\ UNCHANGED <<disk, unseen>>
      BY <1>3 DEF ClientOpens
  <2>4. ClientEffect(m)
      BY <1>1, <1>2, <2>1, <2>2, <2>3 DEF ClientEffect, About, CarriesText
  <2>5. QED
      BY <1>1, <1>2, <2>1, <2>3, <2>4
<1>4. ASSUME NEW f \in Files, NEW t \in Texts, ClientEdits(f, t) PROVE Goal
  <2>1. PICK m \in Messages :
          m = [kind |-> "change", files |-> {f}, text |-> t, base |-> editor[f]] /\ Send(m)
      BY <1>2, <1>4 DEF ClientEdits, Messages, Contents
  <2>2. m.kind = "change" /\ m.files = {f} /\ m.text = t /\ m.base = editor[f]
      BY <2>1
  <2>3. editor' = [editor EXCEPT ![f] = t] /\ UNCHANGED <<disk, unseen>> /\ editor[f] # NoText
      BY <1>4 DEF ClientEdits
  <2>4. ClientEffect(m)
      BY <1>1, <1>2, <2>1, <2>2, <2>3 DEF ClientEffect, About, CarriesText
  <2>5. QED
      BY <1>1, <1>2, <2>1, <2>3, <2>4 DEF Contents
<1>5. ASSUME NEW f \in Files, ClientSaves(f) PROVE Goal
  <2>1. PICK m \in Messages : /\ m = [kind |-> "save", files |-> {f}, text |-> editor[f]]
                              /\ Send(m)
      BY <1>2, <1>5 DEF ClientSaves, Messages, Contents
  <2>2. m.kind = "save" /\ m.files = {f} /\ m.text = editor[f]
      BY <2>1
  <2>3. /\ disk' = [disk EXCEPT ![f] = editor[f]] /\ unseen' = unseen \cup ({f} \cap Watched)
        /\ editor[f] # NoText /\ editor' = editor
      BY <1>5 DEF ClientSaves
  <2>4. ClientEffect(m)
      BY <1>1, <1>2, <2>1, <2>2, <2>3 DEF ClientEffect, About, CarriesText
  <2>5. QED
      BY <1>1, <1>2, <2>1, <2>3, <2>4
<1>6. ASSUME NEW f \in Files, ClientCloses(f) PROVE Goal
  <2>1. PICK m \in Messages : /\ m = [kind |-> "close", files |-> {f}, text |-> NoText]
                              /\ Send(m)
      BY <1>6 DEF ClientCloses, Messages
  <2>2. m.kind = "close" /\ m.files = {f}
      BY <2>1
  <2>3. editor' = [editor EXCEPT ![f] = NoText] /\ UNCHANGED <<disk, unseen>>
      BY <1>6 DEF ClientCloses
  <2>4. ClientEffect(m)
      BY <1>1, <1>2, <2>1, <2>2, <2>3 DEF ClientEffect, About, CarriesText
  <2>5. QED
      BY <1>1, <1>2, <2>1, <2>3, <2>4 DEF Contents
<1>7. ASSUME NEW f \in Files, ClientQueries(f) PROVE Goal
  <2>1. PICK m \in Messages : /\ m = [kind |-> "query", files |-> {f}, text |-> NoText]
                              /\ Send(m)
      BY <1>7 DEF ClientQueries, Messages
  <2>2. m.kind = "query" /\ UNCHANGED <<editor, disk, unseen>>
      BY <1>7, <2>1 DEF ClientQueries
  <2>3. ClientEffect(m)
      BY <1>1, <2>1, <2>2 DEF ClientEffect, About, CarriesText
  <2>4. QED
      BY <1>1, <1>2, <2>1, <2>2, <2>3
<1>8. ASSUME NEW f \in Files, NEW t \in Texts \cup {NoText}, DiskChanges(f, t) PROVE Goal
    BY <1>2, <1>8, DocSyncAssumption DEF DiskChanges, TypeOK, Contents
<1>9. ASSUME ClientReportsFiles PROVE Goal
  <2>1. PICK m \in Messages :
          /\ m = [kind |-> "watched", files |-> unseen, text |-> NoText,
                  deleted |-> {f \in unseen : disk[f] = NoText}]
          /\ Send(m)
      BY <1>2, <1>9, DocSyncAssumption DEF ClientReportsFiles, Messages
  <2>2. m.kind = "watched" /\ UNCHANGED <<editor, disk>> /\ unseen' = {}
      BY <1>9, <2>1 DEF ClientReportsFiles
  <2>3. ClientEffect(m)
      BY <1>1, <2>1, <2>2 DEF ClientEffect, About, CarriesText
  <2>4. QED
      BY <1>1, <1>2, <2>1, <2>2, <2>3
<1>10. QED
    BY <1>3, <1>4, <1>5, <1>6, <1>7, <1>8, <1>9 DEF Client

-----------------------------------------------------------------------------
(* The order of messages, and the texts they carry.                        *)

LEMMA ClientProtocol ==
    ASSUME TypeOK, Protocol, Client
    PROVE  Protocol'
<1>1. open' = open /\ (UNCHANGED <<inbox, editor>> \/ \E m \in Messages : ClientEffect(m))
    BY ClientSteps DEF docVars
<1>2. CASE UNCHANGED <<inbox, editor>>
    BY <1>1, <1>2 DEF Protocol
<1>3. CASE \E m \in Messages : ClientEffect(m)
  <2>1. PICK m \in Messages : ClientEffect(m)
      BY <1>3
  <2>2. PICK q \in Seq(Messages), n \in Nat : q = inbox /\ n = Len(q) /\ inbox' = Append(q, m)
      BY <2>1, LenProperties DEF ClientEffect, TypeOK
  <2>3. /\ Len(inbox') = n + 1 /\ inbox'[n + 1] = m
        /\ \A i \in 1..n : inbox'[i] = q[i]
      BY <2>2, Appended
  <2>4. ASSUME NEW i \in 1..Len(inbox'), NEW f \in Files,
               About(inbox'[i], "change", f) \/ About(inbox'[i], "save", f)
        PROVE  Ready(inbox', open', f, i)
    <3>1. CASE i \in 1..n
      <4>1. Ready(q, open, f, i)
          BY <2>2, <2>3, <2>4, <3>1 DEF Protocol
      <4>2. i \in 1..(Len(q) + 1)
          BY <2>2, <3>1
      <4>3. QED
          BY <1>1, <2>2, <4>1, <4>2, ReadyAppend
    <3>2. CASE i = n + 1
      <4>1. editor[f] # NoText
          BY <2>1, <2>3, <2>4, <3>2 DEF ClientEffect
      <4>2. Ready(q, open, f, i)
          BY <2>2, <3>2, <4>1 DEF Protocol
      <4>3. i \in 1..(Len(q) + 1)
          BY <2>2, <3>2
      <4>4. QED
          BY <1>1, <2>2, <4>2, <4>3, ReadyAppend
    <3>3. i \in 1..n \/ i = n + 1
        BY <2>2, <2>3
    <3>4. QED
        BY <3>1, <3>2, <3>3
  <2>5. ASSUME NEW f \in Files, editor'[f] # NoText
        PROVE  Ready(inbox', open', f, Len(inbox') + 1)
    <3>1. ~About(m, "close", f) /\ (editor[f] # NoText \/ About(m, "open", f))
        BY <2>1, <2>5 DEF ClientEffect
    <3>2. (Ready(q, open, f, Len(q) + 1) /\ ~About(m, "close", f)) \/ About(m, "open", f)
        BY <2>2, <3>1 DEF Protocol
    <3>3. Ready(Append(q, m), open, f, Len(q) + 2)
        BY <3>2, ReadyNext
    <3>4. Len(inbox') + 1 = Len(q) + 2
        BY <2>2, <2>3
    <3>5. QED
        BY <1>1, <2>2, <3>3, <3>4
  <2>6. QED
      BY <2>4, <2>5 DEF Protocol
<1>4. QED
    BY <1>1, <1>2, <1>3

LEMMA ClientChain ==
    ASSUME TypeOK, Protocol, Chain, Client
    PROVE  Chain'
<1>1. /\ UNCHANGED <<stage, text, rejected>>
      /\ UNCHANGED <<inbox, editor>> \/ \E m \in Messages : ClientEffect(m)
    BY ClientSteps DEF docVars
<1>2. CASE UNCHANGED <<inbox, editor>>
    BY <1>1, <1>2 DEF Chain
<1>3. CASE \E m \in Messages : ClientEffect(m)
  <2>1. PICK m \in Messages : ClientEffect(m)
      BY <1>3
  <2>2. PICK q \in Seq(Messages), n \in Nat : q = inbox /\ n = Len(q) /\ inbox' = Append(q, m)
      BY <2>1, LenProperties DEF ClientEffect, TypeOK
  <2>3. /\ Len(inbox') = n + 1 /\ inbox'[n + 1] = m
        /\ \A i \in 1..n : inbox'[i] = q[i]
      BY <2>2, Appended
  <2>4. ASSUME NEW i \in 1..Len(inbox'), NEW f \in Files, About(inbox'[i], "change", f),
               i > 1 \/ stage' = "idle"
        PROVE  Current(inbox', text', rejected', f, i, inbox'[i].base)
    <3>1. CASE i \in 1..n
      <4>1. Current(q, text, rejected, f, i, q[i].base)
          BY <1>1, <2>2, <2>3, <2>4, <3>1 DEF Chain
      <4>2. i \in 1..(Len(q) + 1) /\ inbox'[i] = q[i]
          BY <2>2, <2>3, <3>1
      <4>3. Current(Append(q, m), text, rejected, f, i, q[i].base)
          BY <4>1, <4>2, CurrentAppend
      <4>4. QED
          BY <1>1, <2>2, <4>2, <4>3
    <3>2. CASE i = n + 1
      <4>1. editor[f] # NoText /\ m.base = editor[f] /\ inbox'[i] = m
          BY <2>1, <2>3, <2>4, <3>2 DEF ClientEffect
      <4>2. Current(q, text, rejected, f, i, editor[f])
          BY <2>2, <3>2, <4>1 DEF Chain
      <4>3. i \in 1..(Len(q) + 1)
          BY <2>2, <3>2
      <4>4. Current(Append(q, m), text, rejected, f, i, editor[f])
          BY <4>2, <4>3, CurrentAppend
      <4>5. QED
          BY <1>1, <2>2, <4>1, <4>4
    <3>3. i \in 1..n \/ i = n + 1
        BY <2>2, <2>3
    <3>4. QED
        BY <3>1, <3>2, <3>3
  <2>5. ASSUME NEW f \in Files, editor'[f] # NoText
        PROVE  Current(inbox', text', rejected', f, Len(inbox') + 1, editor'[f])
    <3>1. /\ CarriesText(m, f) => m.text = editor'[f]
          /\ ~CarriesText(m, f) => editor'[f] = editor[f] /\ editor[f] # NoText
        BY <2>1, <2>5 DEF ClientEffect
    <3>2. \/ CarriesText(m, f) /\ m.text = editor'[f]
          \/ ~CarriesText(m, f) /\ Current(q, text, rejected, f, Len(q) + 1, editor'[f])
        BY <2>2, <3>1 DEF Chain
    <3>3. Current(Append(q, m), text, rejected, f, Len(q) + 2, editor'[f])
        BY <3>2, CurrentNext
    <3>4. Len(inbox') + 1 = Len(q) + 2
        BY <2>2, <2>3
    <3>5. QED
        BY <1>1, <2>2, <3>3, <3>4
  <2>6. stage' # "idle" => \A f \in Files \ rejected' :
            Head(inbox').files = {f} => text'[f] = Head(inbox').text
    <3>1. stage # "idle" => inbox # <<>> /\ n >= 1
        BY <2>2, EmptySeq DEF TypeOK
    <3>2. stage # "idle" => Head(inbox') = Head(inbox)
        BY <2>2, <2>3, <3>1
    <3>3. QED
        BY <1>1, <3>2 DEF Chain
  <2>7. QED
      BY <2>4, <2>5, <2>6 DEF Chain
<1>4. QED
    BY <1>1, <1>2, <1>3

\* The head of the inbox is handled.
LEMMA HandledProtocol ==
    ASSUME TypeOK, Protocol, inbox # <<>>, inbox' = Tail(inbox), editor' = editor,
           \A f \in Files : /\ ~About(Head(inbox), "close", f)
                            /\ f \in open \/ About(Head(inbox), "open", f)
                            => f \in open'
    PROVE  Protocol'
<1>1. PICK q \in Seq(Messages), n \in Nat : q = inbox /\ n = Len(q) /\ n >= 1 /\ q # <<>>
    BY InboxHead DEF TypeOK
<1>2. /\ inbox' = Tail(q) /\ Len(inbox') = n - 1 /\ Head(inbox) = q[1]
      /\ \A i \in 1..(n - 1) : inbox'[i] = q[i + 1]
    BY <1>1, InboxHead
<1>3. ASSUME NEW i \in 1..n, NEW f \in Files, Ready(q, open, f, i + 1)
      PROVE  Ready(inbox', open', f, i)
    BY <1>1, <1>2, <1>3, ReadyTail
<1>4. ASSUME NEW i \in 1..Len(inbox'), NEW f \in Files,
             About(inbox'[i], "change", f) \/ About(inbox'[i], "save", f)
      PROVE  Ready(inbox', open', f, i)
  <2>1. i \in 1..n /\ i + 1 \in 1..Len(q) /\ inbox'[i] = q[i + 1]
      BY <1>1, <1>2
  <2>2. Ready(q, open, f, i + 1)
      BY <1>1, <1>4, <2>1 DEF Protocol
  <2>3. QED
      BY <1>3, <2>1, <2>2
<1>5. ASSUME NEW f \in Files, editor'[f] # NoText
      PROVE  Ready(inbox', open', f, Len(inbox') + 1)
  <2>1. Ready(q, open, f, n + 1)
      BY <1>1, <1>5 DEF Protocol
  <2>2. n \in 1..n /\ Len(inbox') + 1 = n
      BY <1>1, <1>2
  <2>3. QED
      BY <1>3, <2>1, <2>2
<1>6. QED
    BY <1>4, <1>5 DEF Protocol

\* A file that nobody gives a text before position i was open all the time.
LEMMA OpenThroughout ==
    ASSUME NEW q, NEW o, NEW f, NEW i \in Nat, i >= 1, Ready(q, o, f, i + 1),
           \A j \in 1..i : ~CarriesText(q[j], f)
    PROVE  f \in o /\ ~About(q[1], "close", f)
<1>1. \A j \in 1..i : ~About(q[j], "open", f)
    BY DEF CarriesText, About
<1>2. i + 1 - 1 = i /\ 1 \in 1..i /\ (1 + 1)..i \subseteq 1..i
    OBVIOUS
<1>3. QED
    BY <1>1, <1>2 DEF Ready

LEMMA HandledChain ==
    ASSUME TypeOK, Protocol, Chain, inbox # <<>>, inbox' = Tail(inbox), stage' = "idle",
           editor' = editor,
           \A f \in Files : CarriesText(Head(inbox), f) =>
               f \in rejected' \/ text'[f] = Head(inbox).text,
           \A f \in open : ~CarriesText(Head(inbox), f) /\ ~About(Head(inbox), "close", f) =>
               text'[f] = text[f] /\ (f \in rejected => f \in rejected')
    PROVE  Chain'
<1>1. PICK q \in Seq(Messages), n \in Nat : q = inbox /\ n = Len(q) /\ n >= 1 /\ q # <<>>
    BY InboxHead DEF TypeOK
<1>2. /\ inbox' = Tail(q) /\ Len(inbox') = n - 1 /\ Head(inbox) = q[1]
      /\ \A i \in 1..(n - 1) : inbox'[i] = q[i + 1]
    BY <1>1, InboxHead
<1>3. ASSUME NEW i \in 1..n, NEW f \in Files, NEW x, Ready(q, open, f, i + 1),
             Current(q, text, rejected, f, i + 1, x)
      PROVE  Current(inbox', text', rejected', f, i, x)
  <2>1. CarriesText(q[1], f) /\ q[1].text = x => f \in rejected' \/ text'[f] = x
      BY <1>2
  <2>2. ASSUME \A j \in 1..i : ~CarriesText(q[j], f), f \in rejected \/ text[f] = x
        PROVE  f \in rejected' \/ text'[f] = x
    <3>1. i \in Nat /\ i >= 1 /\ 1 \in 1..i
        BY <1>1
    <3>2. f \in open /\ ~About(q[1], "close", f) /\ ~CarriesText(q[1], f)
        BY <1>3, <2>2, <3>1, OpenThroughout
    <3>3. QED
        BY <1>2, <2>2, <3>2
  <2>3. i \in 1..Len(q)
      BY <1>1
  <2>4. Current(Tail(q), text', rejected', f, i, x)
      BY <1>1, <1>3, <2>1, <2>2, <2>3, CurrentTail
  <2>5. QED
      BY <1>2, <2>4
<1>4. ASSUME NEW i \in 1..Len(inbox'), NEW f \in Files, About(inbox'[i], "change", f)
      PROVE  Current(inbox', text', rejected', f, i, inbox'[i].base)
  <2>1. i \in 1..n /\ i + 1 \in 1..Len(q) /\ inbox'[i] = q[i + 1] /\ i + 1 > 1
      BY <1>1, <1>2
  <2>2. Ready(q, open, f, i + 1) /\ Current(q, text, rejected, f, i + 1, q[i + 1].base)
      BY <1>1, <1>4, <2>1 DEF Protocol, Chain
  <2>3. QED
      BY <1>3, <2>1, <2>2
<1>5. ASSUME NEW f \in Files, editor'[f] # NoText
      PROVE  Current(inbox', text', rejected', f, Len(inbox') + 1, editor'[f])
  <2>1. Ready(q, open, f, n + 1) /\ Current(q, text, rejected, f, n + 1, editor'[f])
      BY <1>1, <1>5 DEF Protocol, Chain
  <2>2. n \in 1..n /\ Len(inbox') + 1 = n
      BY <1>1, <1>2
  <2>3. QED
      BY <1>3, <2>1, <2>2
<1>6. QED
    BY <1>4, <1>5 DEF Chain

\* A didChange goes on: its text is in the buffer, and no other loaded buffer changes.
LEMMA GoesOnChain ==
    ASSUME TypeOK, Protocol, Chain, inbox # <<>>, Head(inbox).kind = "change", stage' # "idle",
           UNCHANGED <<inbox, editor, rejected>>,
           \A f \in Files : text[f] # NoText /\ Head(inbox).files # {f} => text'[f] = text[f],
           \A f \in Files \ rejected : Head(inbox).files = {f} => text'[f] = Head(inbox).text
    PROVE  Chain'
<1>1. Len(inbox) \in Nat /\ Len(inbox) >= 1 /\ Head(inbox) = inbox[1]
    BY InboxHead
<1>2. ASSUME NEW i \in Nat, i > 1, NEW f \in Files, NEW x \in Texts,
             Current(inbox, text, rejected, f, i, x)
      PROVE  Current(inbox, text', rejected, f, i, x)
  <2>1. CASE Head(inbox).files = {f}
    <3>1. CarriesText(inbox[1], f) /\ 1 \in 1..(i - 1)
        BY <1>1, <1>2, <2>1 DEF CarriesText
    <3>2. QED
        BY <1>2, <3>1 DEF Current
  <2>2. CASE Head(inbox).files # {f}
    <3>1. text[f] = x => text'[f] = x
        BY <2>2, DocSyncAssumption
    <3>2. QED
        BY <1>2, <3>1 DEF Current
  <2>3. QED
      BY <2>1, <2>2
<1>3. ASSUME NEW i \in 1..Len(inbox), NEW f \in Files, About(inbox[i], "change", f), i > 1
      PROVE  Current(inbox, text', rejected, f, i, inbox[i].base)
  <2>1. Current(inbox, text, rejected, f, i, inbox[i].base) /\ i \in Nat
      BY <1>1, <1>3 DEF Chain
  <2>2. inbox[i] \in Messages
      BY DEF TypeOK
  <2>3. inbox[i].base \in Texts
      BY <1>3, <2>2, MessageFields DEF About
  <2>4. QED
      BY <1>2, <1>3, <2>1, <2>3
<1>4. ASSUME NEW f \in Files, editor[f] # NoText
      PROVE  Current(inbox, text', rejected, f, Len(inbox) + 1, editor[f])
  <2>1. Current(inbox, text, rejected, f, Len(inbox) + 1, editor[f]) /\ editor[f] \in Texts
      BY <1>4 DEF Chain, TypeOK, Contents
  <2>2. Len(inbox) + 1 \in Nat /\ Len(inbox) + 1 > 1
      BY <1>1
  <2>3. QED
      BY <1>2, <2>1, <2>2
<1>5. QED
    BY <1>3, <1>4 DEF Chain

\* A step of the server ends the message at the head, or goes on with a didChange.
LEMMA ServerQueue ==
    ASSUME TypeOK, Server
    PROVE  /\ inbox # <<>> /\ UNCHANGED clientVars
           /\ \/ inbox' = Tail(inbox) /\ stage' = "idle" /\ last'.kind = Head(inbox).kind
              \/ /\ inbox' = inbox /\ stage' # "idle" /\ Head(inbox).kind = "change"
                 /\ UNCHANGED <<open, rejected>>
                 /\ \/ ApplyChange
                    \/ ClearDiagnostics \/ IssueParse \/ IssueSemantic
           /\ \A f \in Files : /\ ~About(Head(inbox), "close", f)
                               /\ f \in open \/ About(Head(inbox), "open", f)
                               => f \in open'
<1>1. ASSUME NEW F, DoneAbout(F)
      PROVE  inbox' = Tail(inbox) /\ stage' = "idle" /\ last'.kind = Head(inbox).kind
    BY <1>1 DEF DoneAbout
<1>2. stage # "idle" => inbox # <<>> /\ Head(inbox).kind = "change"
    BY DEF TypeOK
<1>3. CASE openDocument
  <2>1. Head(inbox).files = {TheFile} /\ open' = open \cup {TheFile} /\ inbox # <<>>
      BY <1>3, FileOfHead DEF openDocument, Handling
  <2>2. \A f \in Files : f \in open \/ About(Head(inbox), "open", f) => f \in open'
      BY <2>1 DEF About
  <2>3. QED
      BY <1>1, <1>3, <2>1, <2>2 DEF openDocument, Done
<1>4. CASE ApplyChange
  <2>1. open' = open /\ inbox # <<>> /\ Head(inbox).kind = "change" /\ UNCHANGED clientVars
      BY <1>4 DEF ApplyChange, Handling
  <2>2. \A f \in Files : ~About(Head(inbox), "open", f)
      BY <2>1 DEF About
  <2>3. \/ inbox' = Tail(inbox) /\ stage' = "idle" /\ last'.kind = Head(inbox).kind
        \/ inbox' = inbox /\ stage' # "idle" /\ rejected' = rejected
      BY <1>1, <1>4 DEF ApplyChange, Done
  <2>4. QED
      BY <1>4, <2>1, <2>2, <2>3
<1>5. CASE SupersededChange \/ PublishChange
  <2>1. stage # "idle" /\ open' = open /\ Done /\ UNCHANGED clientVars
      BY <1>5 DEF SupersededChange, PublishChange, docVars
  <2>2. \A f \in Files : ~About(Head(inbox), "open", f)
      BY <1>2, <2>1 DEF About
  <2>3. QED
      BY <1>1, <1>2, <2>1, <2>2 DEF Done
<1>6. CASE ClearDiagnostics \/ IssueParse \/ IssueSemantic
  <2>1. stage # "idle" /\ stage' # "idle" /\ UNCHANGED <<open, rejected, inbox, clientVars>>
      BY <1>6 DEF ClearDiagnostics, IssueParse, IssueSemantic, docVars
  <2>2. \A f \in Files : ~About(Head(inbox), "open", f)
      BY <1>2, <2>1 DEF About
  <2>3. QED
      BY <1>2, <1>6, <2>1, <2>2
<1>7. CASE onDocDidSave
  <2>1. open' = open /\ inbox # <<>> /\ Head(inbox).kind = "save" /\ Done /\ UNCHANGED clientVars
      BY <1>7 DEF onDocDidSave, Handling, docVars
  <2>2. \A f \in Files : ~About(Head(inbox), "open", f)
      BY <2>1 DEF About
  <2>3. QED
      BY <1>1, <2>1, <2>2 DEF Done
<1>8. CASE closeDocument
  <2>1. /\ Head(inbox).files = {TheFile} /\ open' = open \ {TheFile} /\ inbox # <<>>
        /\ Head(inbox).kind = "close" /\ Done /\ UNCHANGED clientVars
      BY <1>8, FileOfHead DEF closeDocument, Handling
  <2>2. \A f \in Files : /\ ~About(Head(inbox), "close", f)
                         /\ f \in open \/ About(Head(inbox), "open", f)
                         => f \in open'
      BY <2>1 DEF About
  <2>3. QED
      BY <1>1, <2>1, <2>2 DEF Done
<1>9. CASE onWatchedFiles \/ getAnalysis
  <2>1. /\ open' = open /\ inbox # <<>> /\ Head(inbox).kind \in {"watched", "query"}
        /\ UNCHANGED clientVars /\ \E F : DoneAbout(F)
      BY <1>9 DEF onWatchedFiles, getAnalysis, Handling, Done
  <2>2. \A f \in Files : ~About(Head(inbox), "open", f)
      BY <2>1 DEF About
  <2>3. QED
      BY <1>1, <2>1, <2>2
<1>10. QED
    BY <1>3, <1>4, <1>5, <1>6, <1>7, <1>8, <1>9 DEF Server

LEMMA ServerProtocol ==
    ASSUME TypeOK, Protocol, Server
    PROVE  Protocol'
<1>1. inbox # <<>> /\ editor' = editor
    BY ServerQueue DEF clientVars
<1>2. CASE inbox' = Tail(inbox)
    BY <1>1, <1>2, ServerQueue, HandledProtocol
<1>3. CASE inbox' = inbox /\ open' = open
    BY <1>1, <1>3 DEF Protocol
<1>4. QED
    BY <1>2, <1>3, ServerQueue

\* The only handlers that change a loaded buffer are those of messages that carry a text,
\* and the watcher's for files that are not open.
LEMMA ServerChain ==
    ASSUME TypeOK, Protocol, Chain, Staged, Server
    PROVE  Chain'
<1>1. inbox # <<>> /\ editor' = editor /\ DocTypes
    BY ServerQueue, SplitTypes DEF clientVars
<1>2. stage # "idle" => Head(inbox).kind = "change"
    BY DEF TypeOK
<1>3. CASE openDocument
  <2>1. /\ Head(inbox).files = {TheFile} /\ inbox' = Tail(inbox)
        /\ stage' = "idle" /\ rejected' = rejected
      BY <1>1, <1>3, FileOfHead DEF openDocument, Handling, Done, DoneAbout
  <2>2. \A f \in Files : CarriesText(Head(inbox), f) => text'[f] = Head(inbox).text
      BY <1>3, <2>1, OpenTypes DEF CarriesText
  <2>3. \A f \in open : ~CarriesText(Head(inbox), f) => text'[f] = text[f]
    <3>1. Head(inbox).kind = "open"
        BY <1>3 DEF openDocument, Handling
    <3>2. \A f \in open : f \in Files /\ text[f] # NoText
        BY <1>1 DEF DocTypes
    <3>3. QED
        BY <1>3, <2>1, <3>1, <3>2, OpenTypes DEF CarriesText
  <2>4. QED
      BY <1>1, <2>1, <2>2, <2>3, HandledChain
<1>4. CASE onDocDidSave
  <2>1. Head(inbox).files = {TheFile} /\ inbox' = Tail(inbox) /\ stage' = "idle"
      BY <1>1, <1>4, FileOfHead DEF onDocDidSave, Handling, Done, DoneAbout
  <2>2. \A f \in Files : CarriesText(Head(inbox), f) => text'[f] = Head(inbox).text
      BY <1>4, <2>1, SaveTypes DEF CarriesText
  <2>3. \A f \in open : ~CarriesText(Head(inbox), f) =>
            text'[f] = text[f] /\ (f \in rejected => f \in rejected')
    <3>1. Head(inbox).kind = "save"
        BY <1>4 DEF onDocDidSave, Handling
    <3>2. \A f \in open : f \in Files /\ text[f] # NoText
        BY <1>1 DEF DocTypes
    <3>3. QED
        BY <1>4, <2>1, <3>1, <3>2, SaveTypes DEF CarriesText
  <2>4. QED
      BY <1>1, <2>1, <2>2, <2>3, HandledChain
<1>5. CASE onWatchedFiles \/ getAnalysis
  <2>1. /\ inbox' = Tail(inbox) /\ stage' = "idle" /\ rejected' = rejected
        /\ Head(inbox).kind \in {"watched", "query"}
      BY <1>5 DEF onWatchedFiles, getAnalysis, Handling, Done, DoneAbout
  <2>2. \A f : ~CarriesText(Head(inbox), f)
      BY <2>1 DEF CarriesText
  <2>3. \A f \in open : text'[f] = text[f]
    <3>1. CASE onWatchedFiles
        BY <3>1, WatchedTypes
    <3>2. CASE getAnalysis
      <4>1. text' = text \/ text' = Loaded(text, {TheFile})
          BY <3>2 DEF getAnalysis
      <4>2. TheFile \in Files /\ text \in [Files -> Contents]
          BY <1>1, <3>2, FileOfHead DEF getAnalysis, Handling, DocTypes
      <4>3. \A f \in open : f \in Files /\ text[f] # NoText
          BY <1>1 DEF DocTypes
      <4>4. QED
          BY <4>1, <4>2, <4>3, LoadedText
    <3>3. QED
        BY <1>5, <3>1, <3>2
  <2>4. QED
      BY <1>1, <2>1, <2>2, <2>3, HandledChain
<1>6. CASE closeDocument
  <2>1. /\ inbox' = Tail(inbox) /\ stage' = "idle" /\ text' = text
        /\ rejected' = rejected \ {TheFile} /\ Head(inbox).files = {TheFile}
        /\ Head(inbox).kind = "close"
      BY <1>1, <1>6, FileOfHead DEF closeDocument, Handling, Done, DoneAbout
  <2>2. \A f : ~CarriesText(Head(inbox), f)
      BY <2>1 DEF CarriesText
  <2>3. \A f \in open : ~About(Head(inbox), "close", f) => (f \in rejected => f \in rejected')
      BY <2>1 DEF About
  <2>4. QED
      BY <1>1, <2>1, <2>2, <2>3, HandledChain
<1>7. CASE SupersededChange \/ PublishChange
  <2>1. /\ inbox' = Tail(inbox) /\ stage' = "idle" /\ text' = text /\ rejected' = rejected
        /\ stage # "idle"
      BY <1>7 DEF SupersededChange, PublishChange, Done, DoneAbout, docVars
  <2>2. \A f \in Files : CarriesText(Head(inbox), f) =>
            f \in rejected' \/ text'[f] = Head(inbox).text
      BY <2>1 DEF CarriesText, Chain
  <2>3. QED
      BY <1>1, <2>1, <2>2, HandledChain
<1>8. CASE ApplyChange /\ inbox' = Tail(inbox) /\ stage' = "idle"
  <2>1. Head(inbox).files = {TheFile} /\ Head(inbox).kind = "change"
      BY <1>1, <1>8, FileOfHead DEF ApplyChange, Handling
  <2>2. rejected' = rejected \cup {TheFile} /\ text' = text
      BY <1>8 DEF ApplyChange
  <2>3. \A f \in Files : CarriesText(Head(inbox), f) => f \in rejected'
      BY <2>1, <2>2 DEF CarriesText
  <2>4. QED
      BY <1>1, <1>8, <2>2, <2>3, HandledChain
<1>9. CASE ApplyChange /\ inbox' = inbox /\ stage' # "idle" /\ rejected' = rejected
  <2>1. /\ Head(inbox).files = {TheFile} /\ Head(inbox).kind = "change" /\ stage = "idle"
        /\ TheFile \in Files /\ Head(inbox) = inbox[1] /\ 1 \in 1..Len(inbox)
      BY <1>1, <1>9, FileOfHead, InboxHead DEF ApplyChange, Handling
  <2>2. PICK t \in Edited(Head(inbox)) : text' = [text EXCEPT ![TheFile] = t]
      BY <1>9 DEF ApplyChange, Done, DoneAbout
  <2>3. TheFile \notin rejected => text[TheFile] = Head(inbox).base
    <3>1. Current(inbox, text, rejected, TheFile, 1, inbox[1].base)
        BY <2>1 DEF Chain, About
    <3>2. QED
        BY <2>1, <3>1 DEF Current
  <2>4. \A f \in Files \ rejected : Head(inbox).files = {f} => text'[f] = Head(inbox).text
    <3>1. text \in [Files -> Contents]
        BY <1>1 DEF DocTypes
    <3>2. TheFile \notin rejected => t = Head(inbox).text
        BY <2>2, <2>3 DEF Edited
    <3>3. QED
        BY <2>1, <2>2, <3>1, <3>2
  <2>5. \A f \in Files : Head(inbox).files # {f} => text'[f] = text[f]
      BY <1>1, <2>1, <2>2 DEF DocTypes
  <2>6. QED
      BY <1>1, <1>9, <2>1, <2>4, <2>5, GoesOnChain
<1>10. CASE ClearDiagnostics \/ IssueParse \/ IssueSemantic
  <2>1. stage # "idle" /\ stage' # "idle" /\ UNCHANGED <<inbox, rejected>>
      BY <1>10 DEF ClearDiagnostics, IssueParse, IssueSemantic
  <2>2. TheFile \in Files /\ Head(inbox).files = {TheFile} /\ TheFile \in docs
      BY <1>1, <1>2, <2>1, FileOfHead DEF Staged
  <2>3. text' = text \/ text' = Loaded(text, {TheFile})
      BY <1>10 DEF ClearDiagnostics, IssueParse, IssueSemantic, docVars
  <2>4. text \in [Files -> Contents] /\ text[TheFile] # NoText
      BY <1>1, <2>2 DEF DocTypes
  <2>5. \A f \in Files : text[f] # NoText => text'[f] = text[f]
      BY <2>2, <2>3, <2>4, LoadedText
  <2>6. \A f \in Files \ rejected : Head(inbox).files = {f} => text'[f] = Head(inbox).text
      BY <2>1, <2>2, <2>4, <2>5 DEF Chain
  <2>7. QED
      BY <1>1, <1>2, <2>1, <2>5, <2>6, GoesOnChain
<1>11. ApplyChange => \/ inbox' = Tail(inbox) /\ stage' = "idle"
                      \/ inbox' = inbox /\ stage' # "idle" /\ rejected' = rejected
    BY ServerQueue
<1>12. QED
    BY <1>3, <1>4, <1>5, <1>6, <1>7, <1>8, <1>9, <1>10, <1>11 DEF Server

-----------------------------------------------------------------------------
(* The stages of a didChange, loaded buffers, and what is published.       *)

LEMMA ClientHead ==
    ASSUME TypeOK, Client, inbox # <<>>
    PROVE  inbox' # <<>> /\ Head(inbox') = Head(inbox)
<1>1. UNCHANGED inbox \/ \E m \in Messages : inbox' = Append(inbox, m)
    BY ClientSteps DEF ClientEffect
<1>2. inbox \in Seq(Messages)
    BY DEF TypeOK
<1>3. ASSUME NEW m \in Messages, inbox' = Append(inbox, m)
      PROVE  inbox' # <<>> /\ Head(inbox') = Head(inbox)
    BY <1>2, <1>3
<1>4. QED
    BY <1>1, <1>3

LEMMA StagedStep ==
    ASSUME TypeOK, Protocol, Staged, Next
    PROVE  Staged'
<1>1. CASE Client
  <2>1. UNCHANGED <<stage, docs, dirty, valid, text, diagnostics>>
      BY <1>1, ClientSteps DEF docVars, diagVars
  <2>2. stage # "idle" => Head(inbox') = Head(inbox)
      BY <1>1, ClientHead DEF TypeOK
  <2>3. QED
      BY <2>1, <2>2 DEF Staged
<1>2. CASE Server /\ stage' = "idle"
    BY <1>2 DEF Staged
<1>3. CASE Server /\ stage' # "idle"
  <2>1. /\ inbox # <<>> /\ inbox' = inbox /\ Head(inbox).kind = "change"
        /\ ApplyChange \/ ClearDiagnostics \/ IssueParse \/ IssueSemantic
      BY <1>3, ServerQueue
  <2>2. TheFile \in Files /\ Head(inbox).files = {TheFile} /\ Head(inbox') = Head(inbox)
      BY <2>1, FileOfHead
  <2>3. CASE ApplyChange
    <3>1. docs' = docs \cup {TheFile} /\ stage' = "applied"
        BY <1>3, <2>3 DEF ApplyChange, Done, DoneAbout
    <3>2. QED
        BY <2>2, <3>1 DEF Staged
  <2>4. CASE ClearDiagnostics
      BY <2>2, <2>4 DEF ClearDiagnostics, docVars, Staged
  <2>5. CASE IssueParse
    <3>1. /\ docs \subseteq docs' /\ dirty' = dirty /\ valid' = valid \cup {TheFile}
          /\ stage = "cleared" /\ stage' = "parsed"
        BY <2>5 DEF IssueParse, Documents
    <3>2. QED
        BY <2>2, <3>1 DEF Staged
  <2>6. CASE IssueSemantic
    <3>1. PICK r : r = [kind |-> "shallow", read |-> [g \in Reads(TheFile) |-> text[g]]]
        OBVIOUS
    <3>2. /\ UNCHANGED <<docs, valid, dirty, text>> /\ stage = "parsed" /\ stage' = "issued"
          /\ diagnostics' = [diagnostics EXCEPT ![TheFile] = r]
        BY <2>6, <3>1 DEF IssueSemantic, docVars
    <3>3. diagnostics'[TheFile] = r
        BY <2>2, <3>2 DEF TypeOK
    <3>4. r # NoReport /\ r.kind = "shallow" /\ \A d \in Reads(TheFile) : r.read[d] = text[d]
        BY <2>2, <3>1, SemanticReport
    <3>5. QED
        BY <2>2, <3>2, <3>3, <3>4 DEF Staged
  <2>7. QED
      BY <2>1, <2>3, <2>4, <2>5, <2>6
<1>4. QED
    BY <1>1, <1>2, <1>3 DEF Next

\* A buffer that is loaded stays loaded, and that of a document that is open and does not
\* get a text stays what it is.
LEMMA BuffersStay ==
    ASSUME TypeOK, Protocol, Staged, Server
    PROVE  /\ \A g \in Files : text[g] # NoText => text'[g] # NoText
           /\ \A g \in open : ~CarriesText(Head(inbox), g) => text'[g] = text[g]
           /\ docs \subseteq docs'
<1>1. inbox # <<>> /\ DocTypes
    BY ServerQueue, SplitTypes
<1>2. \A g \in open : g \in Files /\ text[g] # NoText
    BY <1>1 DEF DocTypes
<1>3. stage # "idle" => Head(inbox).kind = "change"
    BY DEF TypeOK
<1>4. CASE openDocument
  <2>1. /\ Head(inbox).files = {TheFile} /\ Head(inbox).kind = "open"
        /\ Head(inbox).text \in Texts /\ TheFile \in Files
      BY <1>1, <1>4, FileOfHead, InboxHead, MessageFields DEF openDocument, Handling
  <2>2. QED
      BY <1>2, <1>4, <2>1, OpenTypes, DocSyncAssumption DEF CarriesText
<1>5. CASE onDocDidSave
  <2>1. /\ Head(inbox).files = {TheFile} /\ Head(inbox).kind = "save"
        /\ Head(inbox).text \in Texts /\ TheFile \in Files
      BY <1>1, <1>5, FileOfHead, InboxHead, MessageFields DEF onDocDidSave, Handling
  <2>2. QED
      BY <1>2, <1>5, <2>1, SaveTypes, DocSyncAssumption DEF CarriesText
<1>6. CASE onWatchedFiles
    BY <1>6, WatchedTypes
<1>7. CASE getAnalysis \/ IssueParse
  <2>1. TheFile \in Files /\ text \in [Files -> Contents]
    <3>1. Head(inbox).kind # "watched"
        BY <1>3, <1>7 DEF getAnalysis, IssueParse, Handling
    <3>2. QED
        BY <1>1, <3>1, FileOfHead DEF DocTypes
  <2>2. text' = text \/ text' = Loaded(text, {TheFile})
      BY <1>7 DEF getAnalysis, IssueParse
  <2>3. docs \subseteq docs'
      BY <1>7 DEF getAnalysis, IssueParse, Documents
  <2>4. QED
      BY <1>2, <2>1, <2>2, <2>3, LoadedText
<1>8. CASE ApplyChange
  <2>1. /\ Head(inbox).files = {TheFile} /\ Head(inbox).kind = "change"
        /\ Head(inbox).text \in Texts /\ TheFile \in Files
      BY <1>1, <1>8, FileOfHead, InboxHead, MessageFields DEF ApplyChange, Handling
  <2>2. text' = text \/ \E t \in Texts : text' = [text EXCEPT ![TheFile] = t]
      BY <1>8, <2>1 DEF ApplyChange, Edited
  <2>3. docs \subseteq docs'
      BY <1>8 DEF ApplyChange
  <2>4. QED
      BY <1>1, <1>2, <2>1, <2>2, <2>3, DocSyncAssumption DEF CarriesText, DocTypes
<1>9. CASE SupersededChange \/ ClearDiagnostics \/ IssueSemantic \/ PublishChange \/ closeDocument
    BY <1>9 DEF SupersededChange, ClearDiagnostics, IssueSemantic, PublishChange, closeDocument,
                docVars
<1>10. QED
    BY <1>4, <1>5, <1>6, <1>7, <1>8, <1>9 DEF Server

LEMMA PublishedStep ==
    ASSUME TypeOK, Protocol, Staged, PublishedUnlessDirty, Next
    PROVE  PublishedUnlessDirty'
<1>1. CASE Client
    BY <1>1, ClientSteps DEF diagVars, PublishedUnlessDirty
<1>2. CASE openDocument
    BY <1>2, OpenTypes
<1>3. CASE onDocDidSave
    BY <1>3, SaveTypes
<1>4. CASE onWatchedFiles
    BY <1>4, WatchedTypes
<1>5. CASE ApplyChange \/ SupersededChange \/ getAnalysis
    BY <1>5 DEF ApplyChange, SupersededChange, getAnalysis, diagVars, PublishedUnlessDirty
<1>6. CASE ClearDiagnostics
    BY <1>6 DEF ClearDiagnostics, Cleared, PublishedUnlessDirty
<1>7. CASE IssueParse \/ IssueSemantic
  <2>1. stage \in {"cleared", "parsed"} /\ inbox # <<>> /\ Head(inbox).kind = "change"
      BY <1>7 DEF IssueParse, IssueSemantic, TypeOK
  <2>2. TheFile \in Files /\ TheFile \in dirty
      BY <2>1, FileOfHead DEF Staged
  <2>3. PICK r : /\ diagnostics' = [diagnostics EXCEPT ![TheFile] = r]
                 /\ UNCHANGED <<shown, dirty>>
      BY <1>7 DEF IssueParse, IssueSemantic
  <2>4. QED
      BY <2>2, <2>3 DEF PublishedUnlessDirty, TypeOK
<1>8. CASE PublishChange
    BY <1>8 DEF PublishChange, pushDiags, PublishedUnlessDirty
<1>9. CASE closeDocument
  <2>1. CASE Exploring
      BY <1>9, <2>1 DEF closeDocument, Cleared, PublishedUnlessDirty
  <2>2. CASE ~Exploring
      BY <1>9, <2>2 DEF closeDocument, diagVars, PublishedUnlessDirty
  <2>3. QED
      BY <2>1, <2>2
<1>10. QED
    BY <1>1, <1>2, <1>3, <1>4, <1>5, <1>6, <1>7, <1>8, <1>9 DEF Next, Server

-----------------------------------------------------------------------------
(* The invariant of documents and buffers.                                 *)

DocInv == TypeOK /\ Protocol /\ Chain /\ Staged /\ BuildLoaded /\ PublishedUnlessDirty

LEMMA ClientTypes ==
    ASSUME TypeOK, Client
    PROVE  TypeOK'
<1>1. /\ UNCHANGED <<stage, docVars, diagVars, rejected, last>>
      /\ editor' \in [Files -> Contents] /\ disk' \in [Files -> Contents]
      /\ unseen' \subseteq Watched /\ steps' \in 0..MaxSteps
    BY ClientSteps
<1>2. inbox' \in Seq(Messages) /\ Len(inbox') <= MaxInbox
  <2>1. CASE UNCHANGED inbox
      BY <2>1 DEF TypeOK
  <2>2. ASSUME NEW m \in Messages, ClientEffect(m)
        PROVE  inbox' \in Seq(Messages) /\ Len(inbox') <= MaxInbox
    <3>1. inbox' = Append(inbox, m) /\ Len(inbox) < MaxInbox /\ inbox \in Seq(Messages)
        BY <2>2 DEF ClientEffect, TypeOK
    <3>2. QED
        BY <3>1, Appended, DocSyncAssumption
  <2>3. QED
      BY <2>1, <2>2, ClientSteps
<1>3. stage' # "idle" => inbox' # <<>> /\ Head(inbox').kind = "change"
    BY <1>1, ClientHead DEF TypeOK
<1>4. DocTypes' /\ DiagTypes' /\ rejected' \subseteq open'
    BY <1>1, SplitTypes DEF DocTypes, DiagTypes, docVars, diagVars, TypeOK
<1>5. stage' \in {"idle", "applied", "cleared", "parsed", "issued"} /\ asked' \subseteq Files
    BY <1>1 DEF TypeOK, docVars
<1>6. QED
    BY <1>1, <1>2, <1>3, <1>4, <1>5 DEF TypeOK, DocTypes, DiagTypes

LEMMA DocInvInit == Init => DocInv
<1> SUFFICES ASSUME Init PROVE DocInv
    OBVIOUS
<1>1. disk \in [Files -> Contents] /\ text \in [Files -> Contents] /\ editor \in [Files -> Contents]
    BY DEF Init, Contents
<1>2. \A f \in Build : text[f] \in Texts /\ text[f] # NoText
    BY DocSyncAssumption DEF Init
<1>3. inbox = <<>> /\ Len(inbox) = 0 /\ inbox \in Seq(Messages) /\ Len(inbox) <= MaxInbox
    BY DocSyncAssumption DEF Init
<1>4. \A f \in Files : diagnostics[f] \in Reports(f)
  <2>1. \A f \in Files : DesignReport(text) \in Reports(f) /\ NoReport \in Reports(f)
      BY <1>1, ReportTypes DEF Reports
  <2>2. QED
      BY <2>1 DEF Init
<1>5. DiagTypes /\ PublishedUnlessDirty
  <2>1. /\ diagnostics = [f \in Files |-> diagnostics[f]] /\ shown = diagnostics /\ dirty = {}
      BY DEF Init
  <2>2. QED
      BY <1>4, <2>1 DEF DiagTypes, PublishedUnlessDirty
<1>6. DocTypes
    BY <1>1, <1>2, DocSyncAssumption DEF DocTypes, Init
<1>7. TypeOK
  <2>1. unseen = {} /\ stage = "idle" /\ rejected = {} /\ asked = {} /\ steps = 0
      BY DEF Init
  <2>2. QED
      BY <1>1, <1>3, <1>5, <1>6, <2>1, DocSyncAssumption DEF TypeOK, DocTypes, DiagTypes
<1>8. \A f \in Files : editor[f] = NoText
    BY DEF Init
<1>9. Protocol /\ Chain /\ Staged
  <2>1. stage = "idle" /\ \A i \in 1..Len(inbox) : FALSE
      BY <1>3 DEF Init
  <2>2. QED
      BY <1>8, <2>1 DEF Protocol, Chain, Staged
<1>10. QED
    BY <1>2, <1>5, <1>7, <1>9 DEF DocInv, BuildLoaded

LEMMA DocInvStep == DocInv /\ [Next]_vars => DocInv'
<1> SUFFICES ASSUME DocInv, [Next]_vars PROVE DocInv'
    OBVIOUS
<1> USE DEF DocInv
<1>1. CASE Client
  <2>1. BuildLoaded'
      BY <1>1, ClientSteps DEF docVars, BuildLoaded
  <2>2. Staged' /\ PublishedUnlessDirty'
      BY <1>1, StagedStep, PublishedStep DEF Next
  <2>3. QED
      BY <1>1, <2>1, <2>2, ClientTypes, ClientProtocol, ClientChain
<1>2. CASE Server
  <2>1. BuildLoaded'
      BY <1>2, BuffersStay, DocSyncAssumption DEF BuildLoaded
  <2>2. Staged' /\ PublishedUnlessDirty'
      BY <1>2, StagedStep, PublishedStep DEF Next
  <2>3. QED
      BY <1>2, <2>1, <2>2, ServerTypes, ServerProtocol, ServerChain
<1>3. CASE UNCHANGED vars
  <2>1. TypeOK' /\ Protocol' /\ Chain'
      BY <1>3 DEF vars, TypeOK, Protocol, Chain
  <2>2. Staged' /\ BuildLoaded' /\ PublishedUnlessDirty'
      BY <1>3 DEF vars, Staged, BuildLoaded, PublishedUnlessDirty
  <2>3. QED
      BY <2>1, <2>2
<1>4. QED
    BY <1>1, <1>2, <1>3 DEF Next

LEMMA DocInvAlways == SafetySpec => []DocInv
    BY DocInvInit, DocInvStep, PTL DEF SafetySpec

\* Type correctness: a document is loaded, an open one is a document, and only an open
\* one has refused a change.
THEOREM TypeCorrect == SafetySpec => []TypeOK
<1>1. DocInv => TypeOK
    BY DEF DocInv
<1>2. QED
    BY <1>1, DocInvAlways, PTL

LEMMA OwnsOpen == DocInv => EditorOwnsOpen
<1> SUFFICES ASSUME DocInv, NEW f \in Files, editor[f] # NoText, f \notin rejected
             PROVE  \/ /\ f \in open /\ text[f] = editor[f]
                       /\ \A i \in 1..Len(inbox) : ~CarriesText(inbox[i], f)
                    \/ \E i \in 1..Len(inbox) :
                         /\ CarriesText(inbox[i], f) /\ inbox[i].text = editor[f]
                         /\ \A j \in i + 1..Len(inbox) : ~CarriesText(inbox[j], f)
    BY DEF EditorOwnsOpen
<1>1. PICK n \in Nat : n = Len(inbox)
    BY LenProperties DEF DocInv, TypeOK
<1>2. Ready(inbox, open, f, n + 1) /\ Current(inbox, text, rejected, f, n + 1, editor[f])
    BY <1>1 DEF DocInv, Protocol, Chain
<1>3. n + 1 - 1 = n
    BY <1>1
<1>4. CASE \E j \in 1..n : /\ CarriesText(inbox[j], f) /\ inbox[j].text = editor[f]
                           /\ \A k \in (j + 1)..n : ~CarriesText(inbox[k], f)
    BY <1>1, <1>4
<1>5. CASE (\A j \in 1..n : ~CarriesText(inbox[j], f)) /\ (f \in rejected \/ text[f] = editor[f])
  <2>1. \A j \in 1..n : ~About(inbox[j], "open", f)
      BY <1>5 DEF CarriesText, About
  <2>2. f \in open
      BY <1>2, <1>3, <2>1 DEF Ready
  <2>3. QED
      BY <1>1, <1>5, <2>2
<1>6. QED
    BY <1>1, <1>2, <1>4, <1>5 DEF Current

\* No step of the server, and no order of messages, takes an open document away from its
\* editor: its buffer is the editor's text, or becomes it through the messages on their
\* way (openDocument, onDocDidChange, onDocDidSave, onWorkspaceDidChangeWatchedFiles).
THEOREM EditorKeepsDocument == SafetySpec => []EditorOwnsOpen
    BY DocInvAlways, OwnsOpen, PTL

-----------------------------------------------------------------------------
(* Watched files.                                                          *)

WatchedShown ==
    stage = "idle" /\ last.kind = "watched" =>
        \A d \in last.files, f \in open : d \in Reads(f) =>
            shown[f] # NoReport /\ d \in DOMAIN shown[f].read /\ shown[f].read[d] = text[d]

LEMMA WatchedShownStep ==
    ASSUME DocInv, WatchedShown, [Next]_vars
    PROVE  WatchedShown'
<1>1. TypeOK /\ Protocol /\ Staged
    BY DEF DocInv
<1>2. CASE Client
    BY <1>1, <1>2, ClientSteps DEF docVars, diagVars, WatchedShown
<1>3. CASE UNCHANGED vars
    BY <1>3 DEF vars, WatchedShown
<1>4. CASE Server /\ Head(inbox).kind # "watched"
    BY <1>1, <1>4, ServerQueue DEF WatchedShown
<1>5. CASE onWatchedFiles
  <2>1. /\ open \subseteq docs /\ docs \subseteq Files /\ valid \subseteq docs /\ open' = open
        /\ last'.kind = "watched"
      BY <1>1, <1>5 DEF TypeOK, onWatchedFiles, Handling, DoneAbout
  <2>2. PICK u \in [Files -> Contents], v \in SUBSET docs, F \in SUBSET Files, C \in SUBSET Files :
          /\ analyzeDocuments(F, u, v, C) /\ StaleOpen(v) \subseteq F
          /\ \A g \in docs \cup F : u[g] # NoText
          /\ v = valid \ InvalidatedBy(last'.files)
      BY <1>1, <1>5, WatchedAnalysis
  <2>3. text' = Loaded(u, F) /\ \A f \in F : shown'[f] = ShallowReport(u, f)
    <3>1. TypeOK /\ analyzeDocuments(F, u, v, C) /\ \A g \in docs \cup F : u[g] # NoText
        BY <1>1, <2>2
    <3>2. /\ u \in [Files -> Contents] /\ v \in SUBSET docs
          /\ F \in SUBSET Files /\ C \in SUBSET Files
        BY <2>2
    <3>3. text' = Loaded(u, F)
        BY <3>1 DEF analyzeDocuments
    <3>4. ASSUME NEW f \in F PROVE shown'[f] = ShallowReport(u, f)
        BY <3>1, <3>2 DEF analyzeDocuments, pushDiags
    <3>5. QED
        BY <3>3, <3>4
  <2>4. ASSUME NEW d \in last'.files, NEW f \in open, d \in Reads(f)
        PROVE  shown'[f] # NoReport /\ d \in DOMAIN shown'[f].read /\ shown'[f].read[d] = text'[d]
    <3>1. f \in F
      <4>1. f \in InvalidatedBy(last'.files)
          BY <2>1, <2>4 DEF InvalidatedBy
      <4>2. f \in StaleOpen(v)
          BY <2>1, <2>2, <4>1 DEF StaleOpen
      <4>3. QED
          BY <2>2, <4>2
    <3>2. Reads(f) \in SUBSET Files /\ disk \in [Files -> Contents]
        BY <1>1, <2>1, ReadsFiles DEF TypeOK
    <3>3. /\ shown'[f] # NoReport /\ shown'[f].read \in [Reads(f) -> Contents]
          /\ shown'[f].read[d] = Content(u, d)
        BY <2>3, <2>4, <3>1, <3>2, ReportFields DEF ShallowReport
    <3>4. text'[d] = Content(u, d)
        BY <1>1, <2>3, <2>4, <3>1, LoadedText
    <3>5. QED
        BY <2>4, <3>3, <3>4
  <2>5. \A d \in last'.files, f \in open' : d \in Reads(f) =>
            shown'[f] # NoReport /\ d \in DOMAIN shown'[f].read /\ shown'[f].read[d] = text'[d]
      BY <2>1, <2>4
  <2>6. QED
      BY <2>5 DEF WatchedShown
<1>6. Server /\ Head(inbox).kind = "watched" => onWatchedFiles
    BY <1>1 DEF Server, TypeOK, openDocument, ApplyChange, SupersededChange, ClearDiagnostics,
           IssueParse, IssueSemantic, PublishChange, onDocDidSave, closeDocument, getAnalysis,
           Handling
<1>7. QED
    BY <1>2, <1>3, <1>4, <1>5, <1>6 DEF Next

\* Whatever a report of the watcher had read again is in the diagnostics of every open
\* document that reads it, however many files changed at once, and no open document is
\* read again itself (onWorkspaceDidChangeWatchedFiles).
THEOREM WatchedFilesAreShown == SafetySpec => []WatchedRefreshes
<1>1. Init => WatchedShown
    BY DEF Init, WatchedShown
<1>2. DocInv /\ WatchedShown /\ [Next]_vars => WatchedShown'
    BY WatchedShownStep
<1>3. EditorOwnsOpen /\ WatchedShown => WatchedRefreshes
    BY DEF WatchedShown, WatchedRefreshes
<1>4. SafetySpec => []WatchedShown
    BY <1>1, <1>2, DocInvAlways, PTL DEF SafetySpec
<1>5. QED
    BY <1>3, <1>4, EditorKeepsDocument, PTL

-----------------------------------------------------------------------------
(* The design.                                                             *)

\* With a build, a save shows the diagnostics of one design on all its files.
LEMMA SavedDesign ==
    ASSUME DocInv, onDocDidSave, NEW f \in Build
    PROVE  /\ shown'[f] = [kind |-> "design", read |-> [g \in Build |-> text'[g]]]
           /\ shown'[f] # NoReport
<1> DEFINE h == TheFile
           t == Head(inbox).text
<1>1. TypeOK /\ Protocol /\ BuildLoaded /\ Build \subseteq Files /\ ~Exploring
    BY DocSyncAssumption DEF DocInv, Exploring
<1>2. h \in Files /\ t \in Texts /\ t # NoText /\ h \in open
    BY <1>1, FileOfHead, InboxHead, MessageFields, HeadIsOpen, DocSyncAssumption
       DEF onDocDidSave, Handling
<1>3. PICK u \in [Files -> Contents] : u = [text EXCEPT ![h] = t]
    BY <1>1, <1>2 DEF TypeOK, Contents
<1>4. u = Saved(h, t) /\ \A g \in Build : u[g] # NoText
    BY <1>1, <1>2, <1>3 DEF Saved, BuildLoaded, TypeOK
<1>5. shown'[f] = DesignReport(u)
    BY <1>1, <1>2, <1>4 DEF onDocDidSave, pushDiags
<1>6. \A g \in Build : text'[g] = u[g]
  <2>1. PICK F \in SUBSET Files : text' = Loaded(u, F)
    <3>1. PICK F \in SUBSET Files : F = IF InactiveRegions THEN {h} ELSE {}
        BY <1>2
    <3>2. QED
        BY <1>1, <1>2, <1>4, <3>1 DEF onDocDidSave
  <2>2. QED
      BY <1>1, <1>4, <2>1, LoadedText
<1>7. DesignReport(u) = [kind |-> "design", read |-> [g \in Build |-> u[g]]]
    BY <1>4 DEF DesignReport, Report, Content
<1>8. DesignReport(u) # NoReport
  <2>1. disk \in [Files -> Contents] /\ Build \in SUBSET Files
      BY <1>1 DEF TypeOK
  <2>2. Report("design", u, Build) # NoReport
      BY <2>1, ReportFields
  <2>3. QED
      BY <2>2 DEF DesignReport
<1>9. [g \in Build |-> u[g]] = [g \in Build |-> text'[g]]
    BY <1>6
<1>10. QED
    BY <1>5, <1>7, <1>8, <1>9

\* DesignShownAfterSave, for buffers that are loaded.
DesignShown ==
    stage = "idle" /\ last.kind = "save" /\ last.files \subseteq open =>
        \A f \in Build : shown[f] = [kind |-> "design", read |-> [g \in Build |-> text[g]]]

LEMMA DesignShownStep ==
    ASSUME DocInv, DesignShown, [Next]_vars
    PROVE  DesignShown'
<1>1. TypeOK
    BY DEF DocInv
<1>2. CASE Client
  <2>1. UNCHANGED <<stage, last, open, shown, text>>
      BY <1>1, <1>2, ClientSteps DEF docVars, diagVars
  <2>2. QED
      BY <2>1 DEF DesignShown
<1>3. CASE UNCHANGED vars
    BY <1>3 DEF vars, DesignShown
<1>4. CASE onDocDidSave
  <2>1. \A f \in Build : shown'[f] = [kind |-> "design", read |-> [g \in Build |-> text'[g]]]
      BY <1>4, SavedDesign
  <2>2. QED
      BY <2>1 DEF DesignShown
<1>5. CASE Server /\ ~onDocDidSave
  <2>1. Head(inbox).kind # "save"
      BY <1>1, <1>5 DEF Server, TypeOK, openDocument, ApplyChange, SupersededChange,
           ClearDiagnostics, IssueParse, IssueSemantic, PublishChange, onWatchedFiles,
           closeDocument,
           getAnalysis, Handling
  <2>2. QED
      BY <1>1, <1>5, <2>1, ServerQueue DEF DesignShown
<1>6. QED
    BY <1>2, <1>3, <1>4, <1>5 DEF Next

\* After a save with a build, every file of the build shows the one design made of all
\* current buffers, until the next message is handled (publishCompilationDiagnostics).
THEOREM OneDesignAfterSave == SafetySpec => []DesignShownAfterSave
<1>1. Init => DesignShown
    BY DEF Init, DesignShown
<1>2. DocInv /\ DesignShown /\ [Next]_vars => DesignShown'
    BY DesignShownStep
<1>3. ASSUME DocInv, DesignShown PROVE DesignShownAfterSave
  <2>1. DesignReport(text) = [kind |-> "design", read |-> [g \in Build |-> text[g]]]
      BY <1>3 DEF DocInv, BuildLoaded, DesignReport, Report, Content
  <2>2. QED
      BY <1>3, <2>1 DEF DesignShown, DesignShownAfterSave
<1>4. SafetySpec => []DesignShown
    BY <1>1, <1>2, DocInvAlways, PTL DEF SafetySpec
<1>5. QED
    BY <1>3, <1>4, DocInvAlways, PTL

LEMMA DesignKept ==
    ASSUME DocInv, Next, NEW f \in Build, f \notin dirty,
           shown[f] # NoReport /\ shown[f].kind = "design",
           shown'[f] = NoReport \/ shown'[f].kind # "design"
    PROVE  \/ /\ Head(inbox).files = {f} /\ Head(inbox).kind = "open"
              /\ Head(inbox).text # text[f]
           \/ Head(inbox).kind = "watched" /\ f \in open \cup Head(inbox).files
<1>1. TypeOK /\ Build \subseteq Files /\ f \in Files /\ ~Exploring /\ shown'[f] # shown[f]
    BY DocSyncAssumption DEF DocInv, Exploring
<1>2. CASE Client
    BY <1>1, <1>2, ClientSteps DEF diagVars
<1>3. CASE openDocument
  <2> DEFINE h == TheFile
             t == Head(inbox).text
  <2>1. /\ h \in Files /\ t \in Texts /\ t # NoText /\ Head(inbox).files = {h}
        /\ Head(inbox).kind = "open"
      BY <1>1, <1>3, FileOfHead, InboxHead, MessageFields, DocSyncAssumption
         DEF openDocument, Handling
  <2>2. ~KeepsDesign(h, t)
      BY <1>1, <1>3 DEF openDocument, diagVars
  <2>3. PICK u, v : analyzeDocuments({h}, u, v, {})
      BY <1>3, <2>2 DEF openDocument
  <2>4. h = f
      BY <1>1, <2>3 DEF analyzeDocuments, pushDiags
  <2>5. QED
      BY <2>1, <2>2, <2>4 DEF KeepsDesign
<1>4. CASE onDocDidSave
  <2>1. /\ shown'[f] = [kind |-> "design", read |-> [g \in Build |-> text'[g]]]
        /\ shown'[f] # NoReport
      BY <1>4, SavedDesign
  <2>2. QED
      BY <2>1
<1>5. CASE onWatchedFiles
  <2>1. PICK u, v, F, C : /\ analyzeDocuments(F, u, v, C) /\ C = {}
                          /\ F \subseteq last'.files \cup open
                          /\ last'.files \subseteq Head(inbox).files
      BY <1>1, <1>5, WatchedAnalysis
  <2>2. f \in F
      BY <1>1, <2>1 DEF analyzeDocuments, pushDiags
  <2>3. QED
      BY <1>5, <2>1, <2>2 DEF onWatchedFiles, Handling
<1>6. CASE PublishChange
    BY <1>1, <1>6 DEF PublishChange, pushDiags
<1>7. CASE \/ ApplyChange \/ SupersededChange \/ ClearDiagnostics \/ IssueParse \/ IssueSemantic
           \/ closeDocument \/ getAnalysis
    BY <1>1, <1>7 DEF ApplyChange, SupersededChange, ClearDiagnostics, IssueParse, IssueSemantic,
                      closeDocument, getAnalysis, diagVars
<1>8. QED
    BY <1>2, <1>3, <1>4, <1>5, <1>6, <1>7 DEF Next, Server

\* No step takes the design's diagnostics from a file of the build, except after an edit
\* of it, when it is opened with another text, or when the watcher's report has it
\* analysed (openDocument's matchesBuildSource, onWorkspaceDidChangeWatchedFiles).
THEOREM DesignStaysShown == SafetySpec => DesignKeptUntilEdited
<1>1. ASSUME DocInv, [Next]_vars
      PROVE  [\A f \in Build :
               /\ shown[f] # NoReport /\ shown[f].kind = "design"
               /\ shown'[f] = NoReport \/ shown'[f].kind # "design"
               => \/ f \in dirty
                  \/ /\ Head(inbox).files = {f} /\ Head(inbox).kind = "open"
                     /\ Head(inbox).text # text[f]
                  \/ Head(inbox).kind = "watched" /\ f \in open \cup Head(inbox).files]_vars
    BY <1>1, DesignKept
<1>2. QED
    BY <1>1, DocInvAlways, PTL DEF SafetySpec, DesignKeptUntilEdited

-----------------------------------------------------------------------------
(* Without a build: what an open document shows.                           *)

\* A handler leaves an open document with the diagnostics of its new buffers, ...
Refreshed(f) ==
    /\ f \notin dirty' /\ diagnostics'[f] # NoReport /\ diagnostics'[f].kind = "shallow"
    /\ \A d \in Reads(f) : diagnostics'[f].read[d] = text'[d]

\* ... or with those it had, and the same buffers.
Kept(f) ==
    /\ f \in open \ rejected /\ ~ChangeWaits(f)
    /\ diagnostics'[f] = diagnostics[f] /\ text'[f] = text[f] /\ (f \in dirty' => f \in dirty)
    /\ f \in valid' \ asked' =>
         f \in valid \ asked /\ \A d \in Reads(f) : text[d] # NoText => text'[d] = text[d]

LEMMA WaitsTail ==
    ASSUME TypeOK, inbox # <<>>, inbox' = Tail(inbox), NEW f, ~ChangeWaits(f)',
           ~About(Head(inbox), "change", f)
    PROVE  ~ChangeWaits(f)
<1>1. /\ Len(inbox) \in Nat /\ Len(inbox') = Len(inbox) - 1 /\ Head(inbox) = inbox[1]
      /\ \A i \in 1..(Len(inbox) - 1) : inbox'[i] = inbox[i + 1]
    BY InboxHead
<1>2. ASSUME NEW i \in 1..Len(inbox), About(inbox[i], "change", f) PROVE FALSE
  <2>1. i # 1
      BY <1>1, <1>2
  <2>2. i - 1 \in 1..Len(inbox') /\ i - 1 \in 1..(Len(inbox) - 1) /\ (i - 1) + 1 = i
      BY <1>1, <2>1
  <2>3. About(inbox'[i - 1], "change", f)
      BY <1>1, <1>2, <2>2
  <2>4. QED
      BY <2>2, <2>3 DEF ChangeWaits
<1>3. QED
    BY <1>2 DEF ChangeWaits

LEMMA AnalysedRefreshed ==
    ASSUME TypeOK, NEW t \in [Files -> Contents], NEW F \in SUBSET Files, NEW v \in SUBSET docs,
           NEW C \in SUBSET Files, \A g \in docs \cup F : t[g] # NoText,
           analyzeDocuments(F, t, v, C), NEW f \in F
    PROVE  Refreshed(f)
<1>1. diagnostics'[f] = ShallowReport(t, f) /\ dirty' = {} /\ text' = Loaded(t, F)
    BY DEF analyzeDocuments, pushDiags
<1>2. Reads(f) \in SUBSET Files /\ disk \in [Files -> Contents]
    BY ReadsFiles DEF TypeOK
<1>3. /\ diagnostics'[f] # NoReport /\ diagnostics'[f].kind = "shallow"
      /\ \A d \in Reads(f) : diagnostics'[f].read[d] = Content(t, d)
    BY <1>1, <1>2, ReportFields DEF ShallowReport
<1>4. \A d \in Reads(f) : text'[d] = Content(t, d)
    BY <1>1, LoadedText
<1>5. QED
    BY <1>1, <1>3, <1>4 DEF Refreshed

\* A document that another text of h leaves valid does not read h, or h keeps its text.
LEMMA StillValidKeeps ==
    ASSUME NEW f \in Files, NEW h, NEW t, f \in StillValid(h, t), h \in Reads(f)
    PROVE  f \in valid /\ text[h] \in {NoText, t}
    BY DEF StillValid, InvalidatedBy

\* A text of h arrives and the documents of F are analysed; f is not one of them.
LEMMA KeptBesides ==
    ASSUME TypeOK, NEW u \in [Files -> Contents], NEW F \in SUBSET Files, NEW v \in SUBSET docs,
           NEW C \in SUBSET Files, \A g \in docs \cup F : u[g] # NoText,
           analyzeDocuments(F, u, v, C), NEW h \in Files, NEW t \in Texts,
           u = [text EXCEPT ![h] = t], v = StillValid(h, t), C = {}, h \in F,
           NEW f \in open \ rejected, f \notin F, ~ChangeWaits(f)
    PROVE  Kept(f)
<1>1. f \in Files /\ f \in docs /\ text[f] # NoText /\ text \in [Files -> Contents] /\ f # h
    BY DEF TypeOK
<1>2. /\ text' = Loaded(u, F) /\ valid' = v \cup F /\ dirty' \subseteq dirty \cup C
      /\ diagnostics'[f] = diagnostics[f]
    BY <1>1 DEF analyzeDocuments, pushDiags, Cleared
<1>3. \A g \in Files : u[g] # NoText => text'[g] = u[g]
    BY <1>2, LoadedText
<1>4. u[h] = t /\ t # NoText /\ \A g \in Files \ {h} : u[g] = text[g]
    BY <1>1, DocSyncAssumption
<1>5. text'[f] = text[f]
    BY <1>1, <1>3, <1>4
<1>6. ASSUME f \in valid', NEW d \in Reads(f), text[d] # NoText
      PROVE  f \in valid /\ text'[d] = text[d]
  <2>1. d \in Files /\ f \in StillValid(h, t)
      BY <1>1, <1>2, <1>6, ReadsFiles
  <2>2. CASE d = h
    <3>1. f \in valid /\ text[h] \in {NoText, t}
        BY <1>1, <1>6, <2>1, <2>2, StillValidKeeps
    <3>2. QED
        BY <1>3, <1>4, <1>6, <2>1, <2>2, <3>1
  <2>3. CASE d # h
      BY <1>3, <1>4, <1>6, <2>1, <2>3 DEF StillValid
  <2>4. QED
      BY <2>2, <2>3
<1>7. f \in valid' \ asked' => f \in valid \ asked
    BY <1>2 DEF StillValid, analyzeDocuments
<1>8. QED
    BY <1>2, <1>5, <1>6, <1>7 DEF Kept

LEMMA RefreshedOrKept ==
    ASSUME DocInv, Exploring, Server, NEW f \in open' \ rejected', ~ChangeWaits(f)'
    PROVE  Refreshed(f) \/ Kept(f)
<1> DEFINE h == TheFile
           t == Head(inbox).text
<1>1. TypeOK /\ Protocol /\ Staged /\ DocTypes /\ inbox # <<>> /\ Build = {}
    BY ServerQueue, SplitTypes DEF DocInv, Exploring
<1>2. \A g \in open : g \in Files /\ g \in docs /\ text[g] # NoText
    BY <1>1 DEF DocTypes
<1>3. Head(inbox).kind # "watched" => h \in Files /\ Head(inbox).files = {h}
    BY <1>1, FileOfHead
<1>4. Head(inbox).kind \in {"open", "change", "save"} => t \in Texts
    BY <1>1, InboxHead, MessageFields
<1>5. stage # "idle" => Head(inbox).kind = "change"
    BY <1>1 DEF TypeOK
<1>6. inbox' = Tail(inbox) /\ ~About(Head(inbox), "change", f) => ~ChangeWaits(f)
    BY <1>1, WaitsTail
<1>7. inbox' = inbox => ~ChangeWaits(f) /\ ~About(Head(inbox), "change", f)
  <2>1. Head(inbox) = inbox[1] /\ 1 \in 1..Len(inbox)
      BY <1>1, InboxHead
  <2>2. QED
      BY <2>1 DEF ChangeWaits
<1>8. CASE openDocument
  <2>1. /\ Head(inbox).kind = "open" /\ open' = open \cup {h} /\ rejected' = rejected
        /\ inbox' = Tail(inbox) /\ ~KeepsDesign(h, t)
      BY <1>1, <1>8 DEF openDocument, Handling, KeepsDesign, Done, DoneAbout
  <2>2. PICK u \in [Files -> Contents] : u = [text EXCEPT ![h] = t]
      BY <1>1, <1>3, <1>4, <2>1 DEF DocTypes, Contents
  <2>3. PICK v \in SUBSET docs : v = StillValid(h, t)
      BY <1>1, Valids DEF DocTypes
  <2>4. PICK F \in SUBSET Files, C \in SUBSET Files : F = {h} /\ C = {}
      BY <1>3, <2>1
  <2>5. analyzeDocuments(F, u, v, C)
      BY <1>8, <2>1, <2>2, <2>3, <2>4 DEF openDocument
  <2>6. h \in Files /\ t \in Texts /\ \A g \in docs \cup F : u[g] # NoText
      BY <1>1, <1>3, <1>4, <2>1, <2>2, <2>4, DocSyncAssumption DEF DocTypes
  <2>7. CASE f = h
    <3>1. f \in F
        BY <2>4, <2>7
    <3>2. QED
        BY <1>1, <2>5, <2>6, <3>1, AnalysedRefreshed
  <2>8. CASE f # h
    <3>1. f \in open \ rejected /\ f \notin F /\ h \in F /\ ~ChangeWaits(f)
        BY <1>6, <2>1, <2>4, <2>8 DEF About
    <3> HIDE DEF h, t
    <3>2. QED
        BY <1>1, <2>2, <2>3, <2>4, <2>5, <2>6, <3>1, KeptBesides
  <2>9. QED
      BY <2>7, <2>8
<1>9. CASE onDocDidSave
  <2>1. Head(inbox).kind = "save" /\ inbox' = Tail(inbox) /\ h \in open
      BY <1>1, <1>9, HeadIsOpen DEF onDocDidSave, Handling, Done, DoneAbout
  <2>2. open' = open /\ rejected' = rejected \ {h}
      BY <1>9, <2>1 DEF onDocDidSave
  <2>3. PICK u \in [Files -> Contents] : u = [text EXCEPT ![h] = t]
      BY <1>1, <1>3, <1>4, <2>1 DEF DocTypes, Contents
  <2>4. PICK v \in SUBSET docs : v = StillValid(h, t)
      BY <1>1, Valids DEF DocTypes
  <2>5. PICK F \in SUBSET Files, C \in SUBSET Files : F = {h} \cup StaleOpen(v) /\ C = {}
      BY <1>1, <1>2, <1>3, <2>1, Valids
  <2>6. analyzeDocuments(F, u, v, C)
      BY <1>9, <2>1, <2>3, <2>4, <2>5 DEF onDocDidSave, Saved
  <2>7. h \in Files /\ t \in Texts /\ \A g \in docs \cup F : u[g] # NoText
    <3>1. F \subseteq docs
        BY <1>1, <1>2, <2>1, <2>5, Valids
    <3>2. QED
        BY <1>1, <1>3, <1>4, <2>1, <2>3, <3>1, DocSyncAssumption DEF DocTypes
  <2>8. CASE f \in F
      BY <1>1, <2>6, <2>7, <2>8, AnalysedRefreshed
  <2>9. CASE f \notin F
    <3>1. f \in open \ rejected /\ h \in F /\ ~ChangeWaits(f)
        BY <1>6, <2>1, <2>2, <2>5, <2>9 DEF About
    <3> HIDE DEF h, t
    <3>2. QED
      <4>1. C = {} /\ h \in F /\ f \in open \ rejected /\ ~ChangeWaits(f) /\ f \notin F
          BY <2>5, <2>9, <3>1
      <4>2. QED
          BY <1>1, <2>3, <2>4, <2>6, <2>7, <4>1, KeptBesides
  <2>10. QED
      BY <2>8, <2>9
<1>10. CASE onWatchedFiles
  <2>1. /\ Head(inbox).kind = "watched" /\ inbox' = Tail(inbox)
        /\ UNCHANGED <<open, rejected>>
      BY <1>10 DEF onWatchedFiles, Handling, DoneAbout
  <2>2. PICK u \in [Files -> Contents], v \in SUBSET docs, F \in SUBSET Files, C \in SUBSET Files :
          /\ analyzeDocuments(F, u, v, C) /\ C \cap open = {}
          /\ \A g \in docs \cup F : u[g] # NoText
          /\ \A g \in Files : text[g] # NoText => u[g] # NoText
          /\ \A g \in Files \ last'.files : u[g] = text[g]
          /\ v = valid \ InvalidatedBy(last'.files)
      BY <1>1, <1>10, WatchedAnalysis
  <2>3. CASE f \in F
      BY <1>1, <2>2, <2>3, AnalysedRefreshed
  <2>4. CASE f \notin F
    <3>1. f \in open \ rejected /\ ~ChangeWaits(f) /\ f \in Files
        BY <1>2, <1>6, <2>1 DEF About
    <3>2. /\ text' = Loaded(u, F) /\ valid' = v \cup F /\ dirty' \subseteq dirty \cup C
          /\ diagnostics'[f] = diagnostics[f]
        BY <2>2, <2>4, <3>1 DEF analyzeDocuments, pushDiags, Cleared
    <3>3. text'[f] = text[f]
        BY <1>1, <1>10, <3>1, WatchedTypes
    <3>4. \A g \in Files : u[g] # NoText => text'[g] = u[g]
        BY <1>1, <2>2, <3>2, LoadedText
    <3>5. ASSUME f \in valid', NEW d \in Reads(f), text[d] # NoText PROVE text'[d] = text[d]
      <4>1. d \in Files /\ f \notin InvalidatedBy(last'.files)
          BY <2>2, <2>4, <3>1, <3>2, <3>5, ReadsFiles
      <4>2. d \notin last'.files
          BY <3>1, <3>5, <4>1 DEF InvalidatedBy
      <4>3. QED
          BY <2>2, <3>4, <3>5, <4>1, <4>2
    <3>6. f \in valid' \ asked' => f \in valid \ asked
        BY <2>2, <2>4, <3>2 DEF analyzeDocuments
    <3>7. QED
        BY <3>1, <3>2, <2>2, <3>3, <3>5, <3>6 DEF Kept
  <2>5. QED
      BY <2>3, <2>4
<1>11. CASE getAnalysis
  <2>1. /\ Head(inbox).kind = "query" /\ inbox' = Tail(inbox)
        /\ UNCHANGED <<open, rejected, diagnostics, dirty>>
      BY <1>11 DEF getAnalysis, Handling, Done, DoneAbout, diagVars
  <2>2. f \in open \ rejected /\ ~ChangeWaits(f) /\ ~CarriesText(Head(inbox), f)
      BY <1>6, <2>1 DEF About, CarriesText
  <2>3. text'[f] = text[f]
      BY <1>1, <2>2, BuffersStay
  <2>4. ASSUME f \in valid' \ asked'
        PROVE  f \in valid \ asked /\ \A d \in Reads(f) : text[d] # NoText => text'[d] = text[d]
    <3>1. CASE UNCHANGED <<docs, text, valid, asked>>
        BY <2>4, <3>1
    <3>2. CASE /\ text' = Loaded(text, {h}) /\ valid' = valid \cup {h} /\ asked' = asked \cup {h}
      <4>1. h \in Files /\ f \in Files /\ text \in [Files -> Contents] /\ Reads(f) \subseteq Files
          BY <1>1, <1>2, <1>3, <2>1, <2>2, ReadsFiles DEF DocTypes
      <4>2. PICK F \in SUBSET Files : text' = Loaded(text, F)
          BY <3>2, <4>1
      <4>3. \A g \in Files : text[g] # NoText => text'[g] = text[g]
          BY <1>1, <4>1, <4>2, LoadedText
      <4>4. QED
          BY <2>4, <3>2, <4>1, <4>3
    <3>3. QED
        BY <1>11, <3>1, <3>2 DEF getAnalysis
  <2>5. QED
      BY <2>1, <2>2, <2>3, <2>4 DEF Kept
<1>12. CASE closeDocument
  <2>1. /\ Head(inbox).kind = "close" /\ inbox' = Tail(inbox) /\ UNCHANGED <<docs, text, valid, asked>>
        /\ open' = open \ {h} /\ rejected' = rejected \ {h}
        /\ diagnostics' = Cleared({h}) /\ dirty' = dirty \cup {h}
    <3>1. Head(inbox).kind = "close"
        BY <1>12 DEF closeDocument, Handling
    <3>2. Head(inbox).files = {h}
        BY <1>3, <3>1
    <3>3. QED
        BY <1>12, <3>1, <3>2 DEF closeDocument, Done, DoneAbout
  <2>2. f \in open \ rejected /\ ~ChangeWaits(f) /\ f # h /\ f \in Files
      BY <1>2, <1>6, <2>1 DEF About
  <2>3. diagnostics'[f] = diagnostics[f]
      BY <2>1, <2>2 DEF Cleared
  <2>4. QED
      BY <2>1, <2>2, <2>3 DEF Kept
<1>13. CASE ApplyChange \/ SupersededChange \/ PublishChange \/ ClearDiagnostics \/ IssueParse
            \/ IssueSemantic
  <2>1. /\ Head(inbox).kind = "change" /\ h \in Files /\ Head(inbox).files = {h}
        /\ open' = open
      BY <1>1, <1>3, <1>5, <1>13 DEF ApplyChange, SupersededChange, PublishChange,
           ClearDiagnostics, IssueParse, IssueSemantic, Handling, docVars
  <2>2. CASE f = h /\ inbox' = Tail(inbox)
    <3>1. CASE ApplyChange
        BY <1>7, <2>1, <2>2, <3>1 DEF ApplyChange, About
    <3>2. CASE SupersededChange
      <4>1. PICK i \in 2..Len(inbox) : About(inbox[i], "change", h)
          BY <2>1, <3>2 DEF SupersededChange, Superseded, About
      <4>2. /\ Len(inbox) \in Nat /\ Len(inbox') = Len(inbox) - 1
            /\ \A j \in 1..(Len(inbox) - 1) : inbox'[j] = inbox[j + 1]
          BY <1>1, <2>2, InboxHead
      <4>3. i - 1 \in 1..Len(inbox') /\ inbox'[i - 1] = inbox[i]
          BY <4>2
      <4>4. QED
          BY <2>2, <4>1, <4>3 DEF ChangeWaits
    <3>3. CASE PublishChange
      <4>1. stage = "issued" /\ UNCHANGED <<diagnostics, text>> /\ dirty' = {}
          BY <3>3 DEF PublishChange, pushDiags, docVars
      <4>2. QED
          BY <1>1, <2>1, <2>2, <4>1 DEF Staged, Refreshed
    <3>4. CASE ClearDiagnostics \/ IssueParse \/ IssueSemantic
      <4>1. inbox' = inbox
          BY <3>4 DEF ClearDiagnostics, IssueParse, IssueSemantic
      <4>2. QED
          BY <1>7, <2>1, <2>2, <4>1 DEF About
    <3>5. QED
        BY <1>13, <3>1, <3>2, <3>3, <3>4
  <2>3. inbox' = inbox => f # h
      BY <1>7, <2>1 DEF About
  <2>4. inbox' = Tail(inbox) \/ inbox' = inbox
      BY ServerQueue, <1>1
  <2>5. CASE f # h
    <3>1. ~ChangeWaits(f) /\ f \in Files /\ ~CarriesText(Head(inbox), f)
        BY <1>2, <1>6, <1>7, <2>1, <2>4, <2>5 DEF About, CarriesText
    <3>2. f \in open \ rejected
        BY <2>1, <2>5, <1>13 DEF ApplyChange, SupersededChange, PublishChange,
           ClearDiagnostics, IssueParse, IssueSemantic
    <3>3. text'[f] = text[f]
        BY <1>1, <3>1, <3>2, BuffersStay
    <3>4. diagnostics'[f] = diagnostics[f] /\ (f \in dirty' => f \in dirty)
      <4>1. CASE ApplyChange \/ SupersededChange \/ PublishChange
          BY <4>1 DEF ApplyChange, SupersededChange, PublishChange, pushDiags, diagVars
      <4>2. CASE ClearDiagnostics
          BY <2>5, <3>1, <4>2 DEF ClearDiagnostics, Cleared
      <4>3. CASE IssueParse \/ IssueSemantic
        <5>1. PICK r : diagnostics' = [diagnostics EXCEPT ![h] = r] /\ dirty' = dirty
            BY <4>3 DEF IssueParse, IssueSemantic
        <5>2. QED
            BY <1>1, <2>1, <2>5, <3>1, <5>1 DEF TypeOK
      <4>4. QED
          BY <1>13, <4>1, <4>2, <4>3
    <3>5. ASSUME f \in valid' \ asked'
          PROVE  f \in valid \ asked /\ \A d \in Reads(f) : text[d] # NoText => text'[d] = text[d]
      <4>1. CASE ApplyChange
        <5>1. CASE UNCHANGED <<text, valid, asked>>
            BY <3>5, <5>1
        <5>2. CASE \E x : /\ text' = [text EXCEPT ![h] = x]
                          /\ valid' = valid \ InvalidatedBy({h})
                          /\ asked' = asked \ InvalidatedBy({h})
          <6>1. f \in valid \ asked /\ h \notin Reads(f) /\ Reads(f) \subseteq Files
              BY <3>1, <3>5, <5>2, ReadsFiles DEF InvalidatedBy
          <6>2. QED
              BY <1>1, <5>2, <6>1 DEF DocTypes
        <5>3. QED
            BY <4>1, <5>1, <5>2 DEF ApplyChange
      <4>2. CASE IssueParse
        <5>1. f \in valid \ asked /\ text' = Loaded(text, {h})
            BY <2>5, <3>5, <4>2 DEF IssueParse
        <5>2. {h} \in SUBSET Files /\ text \in [Files -> Contents] /\ Reads(f) \subseteq Files
            BY <1>1, <2>1, <3>1, ReadsFiles DEF DocTypes
        <5>3. QED
            BY <1>1, <5>1, <5>2, LoadedText
      <4>3. CASE ~ApplyChange /\ ~IssueParse
          BY <1>13, <3>5, <4>3 DEF SupersededChange, PublishChange, ClearDiagnostics, IssueSemantic,
             docVars
      <4>4. QED
          BY <4>1, <4>2, <4>3
    <3>6. QED
        BY <3>1, <3>2, <3>3, <3>4, <3>5 DEF Kept
  <2>6. QED
      BY <2>2, <2>3, <2>4, <2>5
<1>14. QED
    BY <1>8, <1>9, <1>10, <1>11, <1>12, <1>13 DEF Server

LEMMA ClientWaits ==
    ASSUME TypeOK, Client, NEW f, ~ChangeWaits(f)'
    PROVE  ~ChangeWaits(f)
<1>1. UNCHANGED inbox \/ \E m \in Messages : inbox' = Append(inbox, m)
    BY ClientSteps DEF ClientEffect
<1>2. CASE UNCHANGED inbox
    BY <1>2 DEF ChangeWaits
<1>3. ASSUME NEW m \in Messages, inbox' = Append(inbox, m) PROVE ~ChangeWaits(f)
  <2>1. /\ Len(inbox) \in Nat /\ Len(inbox') = Len(inbox) + 1
        /\ \A i \in 1..Len(inbox) : inbox'[i] = inbox[i] /\ i \in 1..Len(inbox')
      BY <1>3, Appended DEF TypeOK
  <2>2. QED
      BY <2>1 DEF ChangeWaits
<1>4. QED
    BY <1>1, <1>2, <1>3

LEMMA CaughtUpStep ==
    ASSUME DocInv, CaughtUp, [Next]_vars
    PROVE  CaughtUp'
<1>1. SUFFICES ASSUME Exploring, NEW f \in open' \ rejected', ~ChangeWaits(f)'
               PROVE  /\ f \notin dirty' /\ diagnostics'[f] # NoReport
                      /\ diagnostics'[f].kind = "shallow" /\ diagnostics'[f].read[f] = text'[f]
    BY DEF CaughtUp, Exploring
<1>2. TypeOK /\ Protocol /\ Staged
    BY DEF DocInv
<1>3. CASE Client
  <2>1. UNCHANGED <<open, rejected, dirty, diagnostics, text>>
      BY <1>2, <1>3, ClientSteps DEF docVars, diagVars
  <2>2. ~ChangeWaits(f)
      BY <1>1, <1>2, <1>3, ClientWaits
  <2>3. QED
      BY <1>1, <2>1, <2>2 DEF CaughtUp
<1>4. CASE UNCHANGED vars
  <2>1. UNCHANGED <<open, rejected, dirty, diagnostics, text, inbox>>
      BY <1>4 DEF vars
  <2>2. ~ChangeWaits(f)
      BY <1>1, <2>1 DEF ChangeWaits
  <2>3. QED
      BY <1>1, <2>1, <2>2 DEF CaughtUp
<1>5. CASE Server
  <2>1. Refreshed(f) \/ Kept(f)
      BY <1>1, <1>5, RefreshedOrKept
  <2>2. CASE Refreshed(f)
    <3>1. DocTypes'
        BY <1>2, <1>5, ServerTypes DEF TypeOK, DocTypes
    <3>2. f \in Files /\ text'[f] # NoText
        BY <1>1, <3>1 DEF DocTypes
    <3>3. f \in Reads(f)
        BY <3>2, ReadsFiles
    <3>4. QED
        BY <2>2, <3>2, <3>3 DEF Refreshed
  <2>3. CASE Kept(f)
      BY <1>1, <2>3 DEF Kept, CaughtUp
  <2>4. QED
      BY <2>1, <2>2, <2>3
<1>6. QED
    BY <1>3, <1>4, <1>5 DEF Next

LEMMA CaughtUpAlways == SafetySpec => []CaughtUp
<1>1. Init => CaughtUp
    BY DEF Init, CaughtUp
<1>2. DocInv /\ CaughtUp /\ [Next]_vars => CaughtUp'
    BY CaughtUpStep
<1>3. QED
    BY <1>1, <1>2, DocInvAlways, PTL DEF SafetySpec

\* A list that is not published is marked dirty; and without a build, an open document for
\* which no change waits shows the complete diagnostics of its buffer, however many of its
\* analyses were superseded (RequestContext::throwIfCancelled, ServerDiagClient::pushDiags).
THEOREM DiagnosticsAlwaysCatchUp == SafetySpec => []DiagnosticsCatchUp
<1>1. ASSUME DocInv, CaughtUp PROVE DiagnosticsCatchUp
  <2>1. PublishedUnlessDirty /\ open \subseteq Files
      BY <1>1 DEF DocInv, TypeOK
  <2>2. ASSUME NEW f, NoChangeWaits(f) PROVE ~ChangeWaits(f)
      BY <2>2 DEF NoChangeWaits, ChangeWaits, About
  <2>3. ASSUME Exploring, NEW f \in open \ rejected, NoChangeWaits(f)
        PROVE  shown[f] # NoReport /\ shown[f].kind = "shallow" /\ shown[f].read[f] = text[f]
    <3>1. /\ f \notin dirty /\ diagnostics[f] # NoReport
          /\ diagnostics[f].kind = "shallow" /\ diagnostics[f].read[f] = text[f]
        BY <1>1, <2>2, <2>3 DEF CaughtUp
    <3>2. shown[f] = diagnostics[f]
        BY <2>1, <3>1 DEF PublishedUnlessDirty
    <3>3. QED
        BY <3>1, <3>2
  <2>4. QED
      BY <2>1, <2>3 DEF DiagnosticsCatchUp
<1>2. QED
    BY <1>1, DocInvAlways, CaughtUpAlways, PTL

-----------------------------------------------------------------------------
(* Without a build: what a save refreshes.                                 *)

LEMMA FreshStep ==
    ASSUME DocInv, Fresh, [Next]_vars
    PROVE  Fresh'
<1>1. SUFFICES ASSUME Exploring PROVE Fresh'
    BY DEF Fresh, Exploring
<1>2. TypeOK
    BY DEF DocInv
<1>3. CASE Client
  <2>1. UNCHANGED <<open, rejected, diagnostics, text, valid, asked>>
      BY <1>2, <1>3, ClientSteps DEF docVars, diagVars
  <2>2. \A f : ~ChangeWaits(f)' => ~ChangeWaits(f)
      BY <1>2, <1>3, ClientWaits
  <2>3. QED
      BY <1>1, <2>1, <2>2 DEF Fresh
<1>4. CASE UNCHANGED vars
    BY <1>4 DEF vars, Fresh, ChangeWaits
<1>5. CASE Server
  <2>1. ASSUME NEW f \in (open' \cap valid') \ (rejected' \cup asked'), ~ChangeWaits(f)',
               NEW d \in Reads(f)
        PROVE  diagnostics'[f].read[d] \in {text'[d], NoText}
    <3>1. Refreshed(f) \/ Kept(f)
        BY <1>1, <1>5, <2>1, RefreshedOrKept
    <3>2. CASE Refreshed(f)
        BY <2>1, <3>2 DEF Refreshed
    <3>3. CASE Kept(f)
      <4>1. /\ f \in (open \cap valid) \ (rejected \cup asked) /\ ~ChangeWaits(f)
            /\ diagnostics'[f] = diagnostics[f] /\ (text[d] # NoText => text'[d] = text[d])
          BY <2>1, <3>3 DEF Kept
      <4>2. diagnostics[f].read[d] \in {text[d], NoText}
          BY <1>1, <2>1, <4>1 DEF Fresh
      <4>3. QED
          BY <4>1, <4>2
    <3>4. QED
        BY <3>1, <3>2, <3>3
  <2>2. QED
      BY <2>1 DEF Fresh
<1>6. QED
    BY <1>3, <1>4, <1>5 DEF Next

\* A save leaves every open document with a valid analysis.
SavedValid == Exploring /\ stage = "idle" /\ last.kind = "save" => open \subseteq valid

LEMMA SavedValidStep ==
    ASSUME DocInv, SavedValid, [Next]_vars
    PROVE  SavedValid'
<1>1. TypeOK /\ Protocol
    BY DEF DocInv
<1>2. CASE Client
  <2>1. UNCHANGED <<stage, last, open, valid>>
      BY <1>1, <1>2, ClientSteps DEF docVars
  <2>2. QED
      BY <2>1 DEF SavedValid, Exploring
<1>3. CASE UNCHANGED vars
    BY <1>3 DEF vars, SavedValid, Exploring
<1>4. CASE onDocDidSave
  <2>1. TheFile \in open
      BY <1>1, <1>4, HeadIsOpen DEF onDocDidSave, Handling
  <2>2. open \subseteq docs
      BY <1>1 DEF TypeOK
  <2>3. Exploring => open' \subseteq valid'
      BY <1>4, <2>1, <2>2 DEF onDocDidSave, analyzeDocuments, StaleOpen
  <2>4. QED
      BY <2>3 DEF SavedValid, Exploring
<1>5. CASE Server /\ ~onDocDidSave
  <2>1. Head(inbox).kind # "save"
      BY <1>1, <1>5 DEF Server, TypeOK, openDocument, ApplyChange, SupersededChange,
           ClearDiagnostics, IssueParse, IssueSemantic, PublishChange, onWatchedFiles,
           closeDocument,
           getAnalysis, Handling
  <2>2. QED
      BY <1>1, <1>5, <2>1, ServerQueue DEF SavedValid
<1>6. QED
    BY <1>2, <1>3, <1>4, <1>5 DEF Next

\* Without a build, when a document is saved every open document that reads it shows the
\* diagnostics of what was saved (ServerDriver::onDocDidSave), whatever requests, edits,
\* closes, reports and changes on disk came before, but for one that a request has analysed
\* since it was published last and one analysed while the saved file was missing.
THEOREM SaveRefreshesReaders == SafetySpec => []SavedUnlessAsked
<1>1. Init => Fresh /\ SavedValid
    BY DEF Init, Fresh, SavedValid
<1>2. DocInv /\ Fresh /\ SavedValid /\ [Next]_vars => Fresh' /\ SavedValid'
    BY FreshStep, SavedValidStep
<1>3. ASSUME DocInv, CaughtUp, Fresh, SavedValid PROVE SavedUnlessAsked
  <2>1. SUFFICES ASSUME NEW d \in JustSaved, NEW f \in Files \ asked, OpenReader(f, d)
                 PROVE  shown[f] # NoReport /\ shown[f].read[d] \in {text[d], NoText}
      BY DEF SavedUnlessAsked
  <2>2. /\ Exploring /\ stage = "idle" /\ last.kind = "save"
        /\ f \in open \ rejected /\ d \in Reads(f) /\ ~ChangeWaits(f)
      BY <2>1 DEF JustSaved, OpenReader, NoChangeWaits, ChangeWaits, About
  <2>3. f \notin dirty /\ diagnostics[f] # NoReport
      BY <1>3, <2>2 DEF CaughtUp
  <2>4. diagnostics[f].read[d] \in {text[d], NoText}
      BY <1>3, <2>1, <2>2 DEF Fresh, SavedValid
  <2>5. shown[f] = diagnostics[f]
      BY <1>3, <2>1, <2>3 DEF DocInv, PublishedUnlessDirty
  <2>6. QED
      BY <2>3, <2>4, <2>5
<1>4. QED
    BY <1>1, <1>2, <1>3, DocInvAlways, CaughtUpAlways, PTL DEF SafetySpec
=============================================================================
