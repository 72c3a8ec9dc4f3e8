------------------------------- MODULE DocSync -------------------------------
(***************************************************************************)
(* Documents and their diagnostics: ServerDriver, SlangDoc and             *)
(* ServerDiagClient of slang-server, for one driver.                       *)
(*                                                                         *)
(* The client's messages wait in inbox (JsonRpc.tla's queue) and are       *)
(* handled in order.  A handler is one step, except didChange, which can   *)
(* be superseded at its checkpoints while the client goes on typing.       *)
(*                                                                         *)
(* A diagnostics list is abstracted to what it was computed from: a report *)
(* records the text of every file that the analysis read.  Two reports are *)
(* equal if and only if the analyses saw the same texts.                   *)
(***************************************************************************)
EXTENDS Naturals, Sequences, FiniteSets

CONSTANTS Files,
          Deps,        \* Deps[f]: the other files an analysis of f reads
          Headers,     \* included files: cached, but without a SlangDoc
          Build,       \* files of the selected build, {} when exploring
          Texts,       \* contents a file can have
          NoText,      \* "not loaded" / "not open in the editor"
          NoReport,    \* an empty diagnostics list
          Queries,     \* files the client asks about (hover, hints, ...)
          Rejects,     \* may a change be refused as out of range?
          External,    \* files changed on disk by other programs
          Watched,     \* files the client's watcher covers
          InactiveRegions, \* does the client show inactive regions?
          MaxInbox,    \* bound: messages waiting
          MaxSteps     \* bound: actions of the client

ASSUME DocSyncAssumption ==
    /\ Deps \in [Files -> SUBSET Files]
    /\ Headers \subseteq Files /\ Build \subseteq Files /\ Queries \subseteq Files
    /\ External \subseteq Files /\ Watched \subseteq Files
    /\ NoText \notin Texts
    /\ NoReport \notin [kind : {"shallow", "parse", "design"},
                        read : UNION {[F -> Texts \cup {NoText}] : F \in SUBSET Files}]
    /\ Rejects \in BOOLEAN /\ InactiveRegions \in BOOLEAN
    /\ MaxInbox \in Nat /\ MaxSteps \in Nat

VARIABLES
    editor,     \* the client's text of each open document
    disk,       \* file contents, NoText when there is no file
    unseen,     \* files written since the last watcher notification
    inbox,      \* messages the server has not finished
    stage,      \* how far the didChange at the head of inbox has come
    docs,       \* files with a SlangDoc
    open,       \* m_openDocs
    text,       \* the latest buffer of each file in the source manager
    valid,      \* documents with an analysis of the latest buffers
    asked,      \* history: those a request analysed, with nothing published since
    diagnostics,\* m_diagnostics
    dirty,      \* m_dirtyUris
    shown,      \* what the client displays
    rejected,   \* history: open documents that refused a change
    last,       \* history: the message handled last
    steps       \* actions of the client so far

clientVars == <<editor, disk, unseen, steps>>
docVars == <<docs, open, text, valid, asked>>
diagVars == <<diagnostics, dirty, shown>>
vars == <<editor, disk, unseen, inbox, stage, docs, open, text, valid, asked,
          diagnostics, dirty, shown, rejected, last, steps>>

Reads(f) == {f} \cup Deps[f]
Exploring == Build = {}

\* The text an analysis gets for g: the source manager's buffer, read from disk
\* the first time.
Content(t, g) == IF t[g] = NoText THEN disk[g] ELSE t[g]

Report(kind, t, F) == [kind |-> kind, read |-> [g \in F |-> Content(t, g)]]
ShallowReport(t, f) == Report("shallow", t, Reads(f))
ParseReport(t, f) == Report("parse", t, {f})

\* Variant: the design is built from the files on disk.
DesignReport_disk(t) == Report("design", [g \in Files |-> disk[g]], Build)
\* ServerCompilation::refresh: the trees of the documents, whatever is on disk.
DesignReport(t) == Report("design", t, Build)

\* Variant: only the document's own buffer is looked at.
InvalidatedBy_own(G) == G
\* hasValidBuffers: replacing the buffers of G costs every document that read one
\* of them its analysis.
InvalidatedBy(G) == {f \in Files : Reads(f) \cap G # {}}

Init ==
    /\ disk \in [Files -> Texts]
    /\ editor = [f \in Files |-> NoText]
    /\ unseen = {}
    /\ inbox = <<>>
    /\ stage = "idle"
    /\ docs = Build \ Headers
    /\ open = {}
    /\ text = [f \in Files |-> IF f \in Build THEN disk[f] ELSE NoText]
    /\ valid = {} /\ asked = {}
    /\ diagnostics = [f \in Files |-> IF f \in Build THEN DesignReport(text)
                                                     ELSE NoReport]
    /\ dirty = {}
    /\ shown = diagnostics
    /\ rejected = {}
    /\ last = [kind |-> "none", files |-> {}]
    /\ steps = 0

-----------------------------------------------------------------------------
(* The client.                                                             *)

Send(m) ==
    /\ steps < MaxSteps
    /\ steps' = steps + 1
    /\ Len(inbox) < MaxInbox
    /\ inbox' = Append(inbox, m)
    /\ UNCHANGED <<stage, docVars, diagVars, rejected, last>>

ClientOpens(f) ==
    /\ editor[f] = NoText /\ disk[f] # NoText
    /\ editor' = [editor EXCEPT ![f] = disk[f]]
    /\ Send([kind |-> "open", files |-> {f}, text |-> disk[f]])
    /\ UNCHANGED <<disk, unseen>>

\* An incremental edit: it makes t of the text before it, base.
ClientEdits(f, t) ==
    /\ editor[f] \notin {NoText, t}
    /\ editor' = [editor EXCEPT ![f] = t]
    /\ Send([kind |-> "change", files |-> {f}, text |-> t, base |-> editor[f]])
    /\ UNCHANGED <<disk, unseen>>

ClientSaves(f) ==
    /\ editor[f] # NoText
    /\ disk' = [disk EXCEPT ![f] = editor[f]]
    /\ unseen' = unseen \cup ({f} \cap Watched)
    /\ Send([kind |-> "save", files |-> {f}, text |-> editor[f]])
    /\ UNCHANGED editor

ClientCloses(f) ==
    /\ editor[f] # NoText
    /\ editor' = [editor EXCEPT ![f] = NoText]
    /\ Send([kind |-> "close", files |-> {f}, text |-> NoText])
    /\ UNCHANGED <<disk, unseen>>

\* Any request whose handler calls getAnalysis().
ClientQueries(f) ==
    /\ f \in Queries
    /\ Send([kind |-> "query", files |-> {f}, text |-> NoText])
    /\ UNCHANGED <<editor, disk, unseen>>

\* Another program writes a file, or deletes it (t = NoText); the watcher reports it some time later.
DiskChanges(f, t) ==
    /\ f \in External
    /\ disk[f] # t
    /\ steps < MaxSteps
    /\ steps' = steps + 1
    /\ disk' = [disk EXCEPT ![f] = t]
    /\ unseen' = unseen \cup ({f} \cap Watched)
    /\ UNCHANGED <<editor, inbox, stage, docVars, diagVars, rejected, last>>

\* A change and the deletion that followed it are reported as a deletion.
ClientReportsFiles ==
    /\ unseen # {}
    /\ unseen' = {}
    /\ Send([kind |-> "watched", files |-> unseen, text |-> NoText,
             deleted |-> {f \in unseen : disk[f] = NoText}])
    /\ UNCHANGED <<editor, disk>>

-----------------------------------------------------------------------------
(* ServerDriver, SlangDoc and ServerDiagClient.                            *)

Handling(k) == stage = "idle" /\ inbox # <<>> /\ Head(inbox).kind = k
TheFile == CHOOSE f \in Head(inbox).files : TRUE

\* The head of inbox is done; F are the files it was about.
DoneAbout(F) ==
    /\ inbox' = Tail(inbox)
    /\ last' = [kind |-> Head(inbox).kind, files |-> F]
    /\ stage' = "idle"
Done == DoneAbout(Head(inbox).files)

\* pushDiags: d is m_diagnostics, u are the dirty files; all of them are sent.
pushDiags(d, u) ==
    /\ diagnostics' = d
    /\ shown' = [f \in Files |-> IF f \in u THEN d[f] ELSE shown[f]]
    /\ dirty' = {}

\* clear(uri) for the files of F.
Cleared(F) == [f \in Files |-> IF f \in F THEN NoReport ELSE diagnostics[f]]

\* Buffers after everything the documents of F read was loaded.
ReadBy(F) == UNION {Reads(f) : f \in F}
Loaded(t, F) == [g \in Files |-> IF g \in ReadBy(F) THEN Content(t, g) ELSE t[g]]
\* getDocument: what is read becomes a document, unless it is included.
Documents(t, F) == docs \cup F \cup {g \in ReadBy(F) \ Headers : Content(t, g) # NoText}

\* analyzeDocument for every document of F, when the buffers are t, v the
\* documents with a valid analysis, and C the files closed on the way: each is
\* cleared, analysed and reported, and what is dirty is pushed.
analyzeDocuments(F, t, v, C) ==
    LET d == [f \in Files |-> IF f \in F THEN ShallowReport(t, f) ELSE Cleared(C)[f]] IN
    /\ docs' = Documents(t, F)
    /\ text' = Loaded(t, F)
    /\ valid' = v \cup F
    /\ asked' = (asked \cap v) \ F
    /\ IF F = {}
       THEN diagnostics' = d /\ dirty' = dirty \cup C /\ UNCHANGED shown
       ELSE pushDiags(d, dirty \cup F \cup C)

\* The documents that keep their analysis when the text of f becomes t.
StillValid(f, t) == IF text[f] \in {NoText, t} THEN valid
                                               ELSE valid \ InvalidatedBy({f})

\* Variant: no open document is looked at again.
StaleOpen_none(v) == {}
\* The open documents without a valid analysis.
StaleOpen(v) == (open \cap docs) \ v

\* Variant: build files get a shallow analysis when they are opened.
KeepsDesign_never(f, t) == FALSE
\* openDocument: matchesBuildSource.
KeepsDesign(f, t) == f \in Build /\ text[f] = t

\* openDocument: a file of the build that is opened unchanged keeps the
\* diagnostics of the design, but its inactive regions are collected.
openDocument ==
    /\ Handling("open")
    /\ LET f == TheFile
           t == Head(inbox).text
           analysed == IF InactiveRegions THEN {f} \ valid ELSE {}
       IN
       /\ open' = open \cup {f}
       /\ IF KeepsDesign(f, t)
          THEN /\ docs' = Documents(text, analysed) \cup {f}
               /\ text' = Loaded(text, analysed)
               /\ valid' = valid \cup analysed
               /\ asked' = asked \cup analysed
               /\ UNCHANGED diagVars
          ELSE analyzeDocuments({f}, [text EXCEPT ![f] = t], StillValid(f, t), {})
    /\ Done
    /\ UNCHANGED <<clientVars, rejected>>

\* Variant: the edits of a superseded change are skipped with its analysis.
Edited_unlessSuperseded(m) ==
    IF \E i \in 2..Len(inbox) : inbox[i].kind = "change" /\ inbox[i].files = m.files
    THEN {text[TheFile]}
    ELSE IF text[TheFile] = m.base THEN {m.text} ELSE Texts
\* SlangDoc::onChange: ranges refer to base; applied to another text they make
\* any text of it.
Edited(m) == IF text[TheFile] = m.base THEN {m.text} ELSE Texts

\* onDocDidChange, up to the first checkpoint.  An edit that is out of range
\* throws before anything is stored.
ApplyChange ==
    /\ Handling("change")
    /\ LET f == TheFile IN
       \/ \E t \in Edited(Head(inbox)) :
             /\ text' = [text EXCEPT ![f] = t]
             /\ valid' = valid \ InvalidatedBy({f})
             /\ asked' = asked \ InvalidatedBy({f})
             /\ docs' = docs \cup {f}
             /\ stage' = "applied"
             /\ UNCHANGED <<inbox, rejected, last>>
       \/ /\ Rejects
          /\ rejected' = rejected \cup {f}
          /\ Done
          /\ UNCHANGED <<docs, text, valid, asked>>
    /\ UNCHANGED <<clientVars, open, diagVars>>

\* Variant: a queued change of any document supersedes.
Superseded_any == \E i \in 2..Len(inbox) : inbox[i].kind = "change"
\* Variant: a change supersedes itself.
Superseded_self == \E i \in 1..Len(inbox) :
    inbox[i].kind = "change" /\ inbox[i].files = Head(inbox).files
\* registerContext cancels a didChange when a newer one of its file is read.
Superseded == \E i \in 2..Len(inbox) :
    inbox[i].kind = "change" /\ inbox[i].files = Head(inbox).files

\* throwIfCancelled, at every checkpoint: what was done so far stays.
SupersededChange ==
    /\ stage # "idle"
    /\ Superseded
    /\ Done
    /\ UNCHANGED <<clientVars, docVars, diagVars, rejected>>

\* analyzeDocument up to the checkpoint at the start of refreshAnalysis.
ClearDiagnostics ==
    /\ stage = "applied" /\ ~Superseded
    /\ diagnostics' = Cleared({TheFile})
    /\ dirty' = dirty \cup {TheFile}
    /\ stage' = "cleared"
    /\ UNCHANGED <<clientVars, inbox, docVars, shown, rejected, last>>

\* issueDiagnosticsTo: the analysis and the parse diagnostics ...
IssueParse ==
    /\ stage = "cleared" /\ ~Superseded
    /\ docs' = Documents(text, {TheFile})
    /\ text' = Loaded(text, {TheFile})
    /\ valid' = valid \cup {TheFile}
    /\ diagnostics' = [diagnostics EXCEPT ![TheFile] = ParseReport(text, TheFile)]
    /\ stage' = "parsed"
    /\ UNCHANGED <<clientVars, inbox, open, asked, dirty, shown, rejected, last>>

\* ... and then the semantic ones, of the same analysis: what was missing then is missing.
IssueSemantic ==
    /\ stage = "parsed" /\ ~Superseded
    /\ diagnostics' = [diagnostics EXCEPT ![TheFile] =
                         [kind |-> "shallow", read |-> [g \in Reads(TheFile) |-> text[g]]]]
    /\ stage' = "issued"
    /\ UNCHANGED <<clientVars, inbox, docVars, dirty, shown, rejected, last>>

PublishChange ==
    /\ stage = "issued" /\ ~Superseded
    /\ pushDiags(diagnostics, dirty)
    /\ Done
    /\ UNCHANGED <<clientVars, docVars, rejected>>

\* SlangServer::onDocDidSave overwrites a buffer that does not match.
Saved(f, t) == [text EXCEPT ![f] = t]

\* onDocDidSave: a text that does not match is adopted.  Without a build the
\* document and every open one whose analysis became invalid are analysed;
\* with one, the design is rebuilt, every list replaced and every analysis
\* dropped.
onDocDidSave ==
    /\ Handling("save")
    /\ LET f == TheFile
           t == Head(inbox).text
           buffers == Saved(f, t)
           still == StillValid(f, t)
           analysed == IF InactiveRegions THEN {f} ELSE {}
           had == {g \in Files : diagnostics[g] # NoReport}
       IN
       \/ f \notin open /\ UNCHANGED <<docVars, diagVars, rejected>>
       \/ /\ f \in open
          /\ rejected' = rejected \ {f}
          /\ UNCHANGED open
          /\ IF Exploring
             THEN analyzeDocuments({f} \cup StaleOpen(still), buffers, still, {})
             ELSE /\ docs' = Documents(buffers, analysed) \cup {f}
                  /\ text' = Loaded(buffers, analysed)
                  /\ valid' = analysed /\ asked' = analysed
                  /\ pushDiags([g \in Files |->
                                  IF g \in Build THEN DesignReport(buffers)
                                  ELSE IF g \in docs THEN ParseReport(buffers, g)
                                  ELSE NoReport],
                               dirty \cup had \cup Build \cup docs)
    /\ Done
    /\ UNCHANGED clientVars

\* closeDocument: the SlangDoc stays; the list is cleared, not pushed.
closeDocument ==
    /\ Handling("close")
    /\ open' = open \ Head(inbox).files
    /\ rejected' = rejected \ Head(inbox).files
    /\ IF Exploring THEN /\ diagnostics' = Cleared(Head(inbox).files)
                         /\ dirty' = dirty \cup Head(inbox).files
                         /\ UNCHANGED shown
                    ELSE UNCHANGED diagVars
    /\ Done
    /\ UNCHANGED <<clientVars, docs, text, valid, asked>>

\* Open documents belong to the editor; the cached buffers of the others are
\* read again, if the file can be read.
Reloadable(F) == {f \in F \ open : text[f] # NoText /\ disk[f] # NoText}

\* onWorkspaceDidChangeWatchedFiles: all buffers are reloaded first, then the
\* reloaded documents and the open ones that read them are analysed.  A deleted
\* file is a closed document.
onWatchedFiles ==
    /\ Handling("watched")
    /\ LET gone == Head(inbox).deleted
           reload == Reloadable(Head(inbox).files \ gone)
           buffers == [f \in Files |-> IF f \in reload THEN disk[f] ELSE text[f]]
           still == valid \ InvalidatedBy(reload)
           closed == IF Exploring THEN gone \ open ELSE {}
       IN /\ analyzeDocuments((reload \cap docs) \cup StaleOpen(still), buffers, still, closed)
          /\ DoneAbout(reload)
    /\ UNCHANGED <<clientVars, open, rejected>>

\* A request: getDocument and getAnalysis, with nothing published.  A document
\* that cannot be read is an error.
getAnalysis ==
    /\ Handling("query")
    /\ LET f == TheFile IN
       IF Content(text, f) = NoText \/ f \in valid THEN UNCHANGED <<docs, text, valid, asked>>
       ELSE /\ docs' = Documents(text, {f})
            /\ text' = Loaded(text, {f})
            /\ valid' = valid \cup {f}
            /\ asked' = asked \cup {f}
    /\ Done
    /\ UNCHANGED <<clientVars, open, diagVars, rejected>>

-----------------------------------------------------------------------------
Client ==
    \/ \E f \in Files : \/ ClientOpens(f) \/ ClientSaves(f) \/ ClientCloses(f)
                        \/ ClientQueries(f)
    \/ \E f \in Files, t \in Texts : ClientEdits(f, t)
    \/ \E f \in Files, t \in Texts \cup {NoText} : DiskChanges(f, t)
    \/ ClientReportsFiles

Server ==
    \/ openDocument \/ ApplyChange \/ SupersededChange \/ ClearDiagnostics
    \/ IssueParse \/ IssueSemantic \/ PublishChange \/ onDocDidSave \/ closeDocument \/ onWatchedFiles
    \/ getAnalysis

Next == Client \/ Server

SafetySpec == Init /\ [][Next]_vars
Spec == SafetySpec /\ WF_vars(Server)

-----------------------------------------------------------------------------
(* Properties.                                                             *)

Contents == Texts \cup {NoText}
Reports(f) == {NoReport}
    \cup [kind : {"shallow"}, read : [Reads(f) -> Contents]]
    \cup [kind : {"parse"}, read : [{f} -> Contents]]
    \cup [kind : {"design"}, read : [Build -> Contents]]
Messages == [kind : {"open", "save"}, files : {{f} : f \in Files}, text : Texts]
    \cup [kind : {"change"}, files : {{f} : f \in Files}, text : Texts, base : Texts]
    \cup [kind : {"close", "query"}, files : {{f} : f \in Files}, text : {NoText}]
    \cup [kind : {"watched"}, files : SUBSET Files, text : {NoText},
          deleted : SUBSET Files]

\* The state has its types, and a document with an analysis is a document whose
\* buffer is loaded.
TypeOK ==
    /\ editor \in [Files -> Contents] /\ disk \in [Files -> Contents]
    /\ unseen \subseteq Watched
    /\ inbox \in Seq(Messages) /\ Len(inbox) <= MaxInbox
    /\ stage \in {"idle", "applied", "cleared", "parsed", "issued"}
    /\ stage # "idle" => inbox # <<>> /\ Head(inbox).kind = "change"
    /\ docs \subseteq Files /\ open \subseteq docs /\ valid \subseteq docs
    /\ asked \subseteq Files
    /\ text \in [Files -> Contents]
    /\ \A f \in docs : text[f] # NoText
    /\ diagnostics \in [Files -> UNION {Reports(f) : f \in Files}]
    /\ shown \in [Files -> UNION {Reports(f) : f \in Files}]
    /\ \A f \in Files : diagnostics[f] \in Reports(f) /\ shown[f] \in Reports(f)
    /\ dirty \subseteq Files /\ rejected \subseteq open
    /\ steps \in 0..MaxSteps

\* The client shows the server's list of every file that is not marked dirty:
\* clear, report and pushDiags never lose a list, whatever a superseded change
\* left half done (ServerDiagClient).
PublishedUnlessDirty == \A f \in Files \ dirty : shown[f] = diagnostics[f]

CarriesText(m, f) == m.kind \in {"open", "change", "save"} /\ m.files = {f}

\* The buffer of an open document is the editor's text, or becomes it through the
\* messages on their way: no disk change, no request and no superseded or
\* interleaved handler takes a document away from its editor, unless it refused a
\* change, and then until it is saved (onDocDidChange,
\* onWorkspaceDidChangeWatchedFiles, onDocDidSave).
EditorOwnsOpen ==
    \A f \in Files : editor[f] # NoText /\ f \notin rejected =>
        \/ /\ f \in open /\ text[f] = editor[f]
           /\ \A i \in 1..Len(inbox) : ~CarriesText(inbox[i], f)
        \/ \E i \in 1..Len(inbox) :
             /\ CarriesText(inbox[i], f) /\ inbox[i].text = editor[f]
             /\ \A j \in i + 1..Len(inbox) : ~CarriesText(inbox[j], f)

NoChangeWaits(f) ==
    stage = "idle" /\ \A i \in 1..Len(inbox) : ~(inbox[i].kind = "change" /\ inbox[i].files = {f})

\* Without a build, once no change of an open document waits, the client shows
\* the complete diagnostics of its text: a superseded analysis is always made up
\* for by the change that superseded it (RequestContext::throwIfCancelled in
\* analyzeDocument), and no list is lost on the way.
DiagnosticsCatchUp ==
    /\ PublishedUnlessDirty
    /\ Exploring =>
        \A f \in open \ rejected : NoChangeWaits(f) =>
            shown[f] # NoReport /\ shown[f].kind = "shallow" /\ shown[f].read[f] = text[f]

\* f reads d, is open, and no change of it waits or was refused.
OpenReader(f, d) == f \in open \ rejected /\ d \in Reads(f) /\ NoChangeWaits(f)
JustSaved == IF Exploring /\ stage = "idle" /\ last.kind = "save" THEN last.files \cap open ELSE {}

\* The documentation's claim: saving a document refreshes the diagnostics of the open
\* documents that depend on it, without a build (ServerDriver::onDocDidSave).  The code
\* takes hasAnalysis() for "published", and a request analyses without publishing.
SavedRefreshes ==
    \A d \in JustSaved, f \in Files :
        OpenReader(f, d) => shown[f] # NoReport /\ shown[f].read[d] = text[d]

\* What a save does promise, whatever requests, other programs and superseded changes did
\* before it: each open document that depends on the saved one shows what was saved, but
\* for one that a request has analysed since it was published last (SlangDoc::getAnalysis)
\* and one that was analysed while the saved file was missing (ServerDriver::onDocDidSave
\* asks only hasAnalysis(), and loading a file invalidates nothing).
SavedUnlessAsked ==
    \A d \in JustSaved, f \in Files \ asked :
        OpenReader(f, d) => shown[f] # NoReport /\ shown[f].read[d] \in {text[d], NoText}

\* A reloaded buffer reaches the diagnostics of the open documents that read it,
\* even when several files changed at once, and takes no document away from its
\* editor (ServerDriver::onWorkspaceDidChangeWatchedFiles).
WatchedRefreshes ==
    /\ EditorOwnsOpen
    /\ stage = "idle" /\ last.kind = "watched" =>
        \A d \in last.files, f \in open :
            d \in Reads(f) /\ NoChangeWaits(f) =>
                              /\ shown[f] # NoReport
                              /\ d \in DOMAIN shown[f].read
                              /\ shown[f].read[d] = text[d]

\* After a save with a build, every file of the build shows the diagnostics of
\* one design: the one made of all current buffers, unsaved edits of other
\* documents included (publishCompilationDiagnostics).
DesignShownAfterSave ==
    stage = "idle" /\ last.kind = "save" /\ last.files \subseteq open =>
        \A f \in Build : shown[f] = DesignReport(text)

\* The diagnostics of the design stay until the file is edited, opened with another
\* text (openDocument's matchesBuildSource), or analysed because the watcher reported
\* it or, while it is open, a file.
DesignKeptUntilEdited ==
    [][\A f \in Build :
         /\ shown[f] # NoReport /\ shown[f].kind = "design"
         /\ shown'[f] = NoReport \/ shown'[f].kind # "design"
         => \/ f \in dirty
            \/ /\ Head(inbox).files = {f} /\ Head(inbox).kind = "open"
               /\ Head(inbox).text # text[f]
            \/ Head(inbox).kind = "watched" /\ f \in open \cup Head(inbox).files]_vars

\* Once the client rests, every document it has open shows the diagnostics of the
\* text in the editor: no edit is lost among superseded analyses.
EditsReachDiagnostics ==
    <>[](\A f \in Files : editor[f] # NoText /\ f \notin rejected =>
            shown[f] # NoReport /\ shown[f].read[f] = editor[f])
=============================================================================
