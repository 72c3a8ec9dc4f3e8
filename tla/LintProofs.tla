----------------------------- MODULE LintProofs ------------------------------
(***************************************************************************)
(* Proofs about Lint: runs do not overlap, every diagnostic is tracked,    *)
(* and a quiet linter has seen the last trigger.                           *)
(*                                                                         *)
(* The last one is not inductive: it says nothing while a run is in        *)
(* flight.  IInv adds what is known of that run, provided that no trigger  *)
(* waits behind it.                                                        *)
(***************************************************************************)
EXTENDS Lint, TLAPS

\* A trigger will be followed by a run that has not been started yet.
Behind(l) == l.pendingLint \/ l.rerunRequested

One(l) == IF l.running THEN \E r \in l.runs : l.runs = {r} ELSE l.runs = {}
Tracked(l) == l.reportedFiles = {f \in Files : l.diagnostics[f] # Clean}

\* found is what the tool says of the target t with the files as they are.
Says(t, found) == \A f \in Files : disk[f] # Gone => found[f] = Findings(t)[f]

InFlight(l) ==
    ~unheard /\ ~Behind(l) => \A r \in l.runs :
        /\ source \in Files => r.target = source
        /\ r.phase = "read" => Says(r.target, r.found)

Quiet(l) ==
    ~unheard /\ ~Behind(l) /\ ~l.running =>
        /\ l.last.how # "none" /\ source \in Files => l.last.target = source
        /\ l.last.how = "none" => source \notin Files
        /\ l.last.how = "applied" => l.last.target \in Files /\ Says(l.last.target, l.diagnostics)
        /\ l.last.how = "cleared" => \A f \in Files : l.diagnostics[f] = Clean

Good(l) ==
    /\ l \in LintStates
    /\ One(l)
    /\ l.rerunRequested => l.running
    /\ Tracked(l)
    /\ InFlight(l)
    /\ Quiet(l)

World ==
    /\ disk \in [Files -> Texts \cup {Gone}]
    /\ settings \in [enabled : BOOLEAN, path : Paths]
    /\ source \in Sources /\ active \in Editors
    /\ unheard \in BOOLEAN /\ steps \in 0..MaxSteps

IInv == World /\ Good(lint)

\* clearAll leaves nothing on screen and nothing tracked.
LEMMA ClearAllTracks ==
    ASSUME NEW l \in LintStates
    PROVE  /\ clearAll(l) \in LintStates
           /\ Tracked(clearAll(l))
           /\ \A f \in Files : clearAll(l).diagnostics[f] = Clean
           /\ clearAll(l).runs = l.runs
           /\ clearAll(l).running = l.running
           /\ clearAll(l).pendingLint = l.pendingLint
           /\ clearAll(l).rerunRequested = l.rerunRequested
           /\ clearAll(l).last = l.last
<1> DEFINE none == [f \in Files |-> Clean]
<1>1. none \in [Files -> Texts] BY DEF Texts
<1>2. clearAll(l) = [l EXCEPT !.diagnostics = none, !.reportedFiles = {}] BY DEF clearAll
<1> HIDE DEF none
<1>3. clearAll(l) \in LintStates BY <1>1, <1>2 DEF LintStates
<1>4. /\ clearAll(l).diagnostics = none /\ clearAll(l).reportedFiles = {}
      /\ clearAll(l).runs = l.runs /\ clearAll(l).running = l.running
      /\ clearAll(l).pendingLint = l.pendingLint
      /\ clearAll(l).rerunRequested = l.rerunRequested /\ clearAll(l).last = l.last
  BY <1>2 DEF LintStates
<1>5. \A f \in Files : clearAll(l).diagnostics[f] = Clean BY <1>4 DEF none
<1>6. Tracked(clearAll(l)) BY <1>4, <1>5 DEF Tracked
<1> QED BY <1>3, <1>4, <1>5, <1>6

\* A run that starts now is typed, and points at the selected top file.
LEMMA RunIsTyped ==
    ASSUME World, isLintableTarget(Target),
           NEW phase \in {"lookup", "tool"}, NEW path \in Paths
    PROVE  /\ Run(phase, path) \in Runs
           /\ Run(phase, path).phase = phase
           /\ source \in Files => Run(phase, path).target = source
<1>1. Target \in Files BY DEF isLintableTarget
<1>2. [f \in Files |-> Clean] \in [Files -> Texts] BY DEF Texts
<1>3. Run(phase, path) \in Runs BY <1>1, <1>2 DEF Run, Runs
<1>4. Run(phase, path).phase = phase /\ Run(phase, path).target = Target BY DEF Run
<1> QED BY <1>3, <1>4 DEF Target

\* An early return of lintTarget or lint() keeps the invariant, as long as
\* clearing really cleared.
LEMMA OverIsGood ==
    ASSUME World, NEW l \in LintStates, l.runs = {}, Tracked(l), ~l.rerunRequested,
           NEW how \in {"cleared", "skipped", "off", "noTool"},
           how = "cleared" => \A f \in Files : l.diagnostics[f] = Clean
    PROVE  Good(Over(l, how))
<1> DEFINE m == Over(l, how)
<1>1. Target \in Editors BY DEF World, Target, Editors
<1>2. [how |-> how, target |-> Target] \in [how : Outcomes, target : Editors]
  BY <1>1 DEF Outcomes
<1>3. m \in LintStates BY <1>2 DEF Over, LintStates
<1>4. /\ m.runs = {} /\ m.running = FALSE /\ m.rerunRequested = l.rerunRequested
      /\ m.last.how = how /\ m.last.target = Target
      /\ m.diagnostics = l.diagnostics /\ m.reportedFiles = l.reportedFiles
  BY DEF Over, LintStates
<1> HIDE DEF m
<1>5. One(m) BY <1>4 DEF One
<1>6. Tracked(m) BY <1>4 DEF Tracked
<1>7. InFlight(m) BY <1>4 DEF InFlight
<1>8. Quiet(m) BY <1>4 DEF Quiet, Target
<1>9. m.rerunRequested => m.running BY <1>4
<1> QED BY <1>3, <1>5, <1>6, <1>7, <1>8, <1>9 DEF Good, m

\* A run that starts now is in flight with the invariant.
LEMMA StartIsGood ==
    ASSUME World, NEW l \in LintStates, l.running, l.runs = {}, Tracked(l),
           ~l.rerunRequested, isLintableTarget(Target),
           NEW phase \in {"lookup", "tool"}, NEW path \in Paths
    PROVE  Good([l EXCEPT !.runs = @ \cup {Run(phase, path)}])
<1> DEFINE r == Run(phase, path)
           m == [l EXCEPT !.runs = @ \cup {r}]
<1>1. /\ r \in Runs /\ r.phase # "read"
      /\ source \in Files => r.target = source
  BY RunIsTyped
<1> HIDE DEF r
<1>2. m \in LintStates BY <1>1 DEF LintStates
<1>3. /\ m.runs = {r} /\ m.running = l.running /\ m.rerunRequested = l.rerunRequested
      /\ m.diagnostics = l.diagnostics /\ m.reportedFiles = l.reportedFiles
  BY DEF LintStates
<1> HIDE DEF m
<1>4. One(m) BY <1>3 DEF One
<1>5. Tracked(m) BY <1>3 DEF Tracked
<1>6. InFlight(m) BY <1>1, <1>3 DEF InFlight
<1>7. Quiet(m) BY <1>3 DEF Quiet
<1>8. m.rerunRequested => m.running BY <1>3
<1>9. Good(m) BY <1>2, <1>4, <1>5, <1>6, <1>7, <1>8 DEF Good
<1> QED BY <1>9 DEF m, r

\* Whatever lintTarget finds, what it leaves behind satisfies the invariant.
LEMMA LintTargetIsGood ==
    ASSUME World, NEW l \in LintStates, l.running, l.runs = {}, Tracked(l), ~l.rerunRequested
    PROVE  Good(lintTarget(l))
<1>1. CASE Target = None
  <2>1. lintTarget(l) = Over(clearAll(l), "cleared") BY <1>1 DEF lintTarget
  <2> QED BY <2>1, ClearAllTracks, OverIsGood
<1>2. CASE Target # None /\ ~isLintableTarget(Target)
  <2>1. lintTarget(l) = Over(l, "skipped") BY <1>2 DEF lintTarget
  <2> QED BY <2>1, OverIsGood
<1>3. CASE Target # None /\ isLintableTarget(Target) /\ ~settings.enabled
  <2>1. lintTarget(l) = Over(l, "off") BY <1>3 DEF lintTarget
  <2> QED BY <2>1, OverIsGood
<1>4. CASE /\ Target # None /\ isLintableTarget(Target) /\ settings.enabled
           /\ l.resolvedPath # None
  <2>1. lintTarget(l) = [l EXCEPT !.runs = @ \cup {Run("tool", l.resolvedPath)}]
    BY <1>4 DEF lintTarget
  <2>2. l.resolvedPath \in Paths BY <1>4 DEF LintStates
  <2> QED BY <1>4, <2>1, <2>2, StartIsGood
<1>5. CASE /\ Target # None /\ isLintableTarget(Target) /\ settings.enabled
           /\ l.resolvedPath = None /\ l.toolLookupFailed
  <2>1. lintTarget(l) = Over(l, "noTool") BY <1>5 DEF lintTarget
  <2> QED BY <2>1, OverIsGood
<1>6. CASE /\ Target # None /\ isLintableTarget(Target) /\ settings.enabled
           /\ l.resolvedPath = None /\ ~l.toolLookupFailed
  <2>1. lintTarget(l) = [l EXCEPT !.runs = @ \cup {Run("lookup", settings.path)}]
    BY <1>6 DEF lintTarget
  <2>2. settings.path \in Paths BY DEF World
  <2> QED BY <1>6, <2>1, <2>2, StartIsGood
<1> QED BY <1>1, <1>2, <1>3, <1>4, <1>5, <1>6

\* The end of a run keeps the invariant: either nothing waited behind it, or the
\* rerun starts from the state things are in by then.
LEMMA ReturnedIsGood ==
    ASSUME World, NEW l \in LintStates, Tracked(l), NEW r, l.runs = {r}, r \in Runs,
           NEW how \in {"noTool", "failed", "applied"},
           ~unheard /\ ~Behind(l) => (source \in Files => r.target = source),
           how = "applied" /\ ~unheard /\ ~Behind(l) => Says(r.target, l.diagnostics)
    PROVE  Good(Returned(l, r, how))
<1> DEFINE ended == [l EXCEPT !.runs = @ \ {r}, !.running = FALSE,
                              !.last = [how |-> how, target |-> r.target]]
           again == [ended EXCEPT !.rerunRequested = FALSE]
           restarted == [again EXCEPT !.running = TRUE]
<1>1. r.target \in Files BY DEF Runs
<1>2. [how |-> how, target |-> r.target] \in [how : Outcomes, target : Editors]
  BY <1>1 DEF Outcomes, Editors
<1>3. ended \in LintStates BY <1>2 DEF LintStates
<1>4. /\ ended.runs = {} /\ ended.running = FALSE
      /\ ended.rerunRequested = l.rerunRequested /\ ended.pendingLint = l.pendingLint
      /\ ended.last.how = how /\ ended.last.target = r.target
      /\ ended.diagnostics = l.diagnostics /\ ended.reportedFiles = l.reportedFiles
  BY DEF LintStates
<1>5. Returned(l, r, how) = IF l.rerunRequested THEN runLinters(again) ELSE ended
  BY DEF Returned
<1> HIDE DEF ended
<1>6. CASE ~l.rerunRequested
  <2>1. One(ended) BY <1>4 DEF One
  <2>2. Tracked(ended) BY <1>4 DEF Tracked
  <2>3. InFlight(ended) BY <1>4 DEF InFlight
  <2>4. Quiet(ended) BY <1>1, <1>4 DEF Quiet, Behind, Says
  <2>5. ended.rerunRequested => ended.running BY <1>4, <1>6
  <2>6. Good(ended) BY <1>3, <2>1, <2>2, <2>3, <2>4, <2>5 DEF Good
  <2> QED BY <1>5, <1>6, <2>6
<1>7. CASE l.rerunRequested
  <2>1. again \in LintStates BY <1>3 DEF LintStates
  <2>2. /\ again.runs = {} /\ again.running = FALSE /\ again.rerunRequested = FALSE
        /\ again.diagnostics = l.diagnostics /\ again.reportedFiles = l.reportedFiles
    BY <1>3, <1>4 DEF LintStates
  <2>3. runLinters(again) = lintTarget(restarted)
    <3>1. ~again.running BY <2>2
    <3> HIDE DEF again
    <3> QED BY <3>1 DEF runLinters
  <2> HIDE DEF again
  <2>4. restarted \in LintStates BY <2>1 DEF LintStates
  <2>5. /\ restarted.runs = {} /\ restarted.running = TRUE
        /\ restarted.rerunRequested = FALSE
        /\ restarted.diagnostics = l.diagnostics /\ restarted.reportedFiles = l.reportedFiles
    BY <2>1, <2>2 DEF LintStates
  <2> HIDE DEF restarted
  <2>6. Tracked(restarted) BY <2>5 DEF Tracked
  <2>7. restarted.running /\ ~restarted.rerunRequested BY <2>5
  <2>8. Good(lintTarget(restarted)) BY <2>4, <2>5, <2>6, <2>7, LintTargetIsGood
  <2> QED BY <1>5, <1>7, <2>3, <2>8
<1> QED BY <1>6, <1>7

\* The only run in flight, and what is known of it.
LEMMA TheRun ==
    ASSUME IInv, NEW r \in lint.runs
    PROVE  /\ lint.runs = {r} /\ r \in Runs /\ lint.running
           /\ ~unheard /\ ~Behind(lint) => (source \in Files => r.target = source)
           /\ ~unheard /\ ~Behind(lint) => (r.phase = "read" => Says(r.target, r.found))
<1>1. lint \in LintStates /\ One(lint) /\ InFlight(lint) BY DEF IInv, Good
<1>2. lint.running /\ lint.runs = {r} BY <1>1 DEF One
<1>3. r \in Runs BY <1>1 DEF LintStates
<1> QED BY <1>1, <1>2, <1>3 DEF InFlight

\* What a successful run applied is what the tool said, file by file.
LEMMA ApplyShowsFindings ==
    ASSUME NEW l \in LintStates, Tracked(l), NEW found \in [Files -> Texts]
    PROVE  /\ applyDiagnostics(l, found) \in LintStates
           /\ Tracked(applyDiagnostics(l, found))
           /\ \A f \in Files : applyDiagnostics(l, found).diagnostics[f] = found[f]
           /\ applyDiagnostics(l, found).runs = l.runs
           /\ applyDiagnostics(l, found).pendingLint = l.pendingLint
           /\ applyDiagnostics(l, found).rerunRequested = l.rerunRequested
<1> DEFINE shown == [f \in Files |-> IF f \in Located(found) THEN found[f]
                        ELSE IF f \in l.reportedFiles THEN Clean ELSE l.diagnostics[f]]
           m == applyDiagnostics(l, found)
<1>1. l.diagnostics \in [Files -> Texts] BY DEF LintStates
<1>2. shown \in [Files -> Texts] BY <1>1 DEF Texts
<1>3. Located(found) \in SUBSET Files BY DEF Located
<1>4. m = [l EXCEPT !.diagnostics = shown, !.reportedFiles = Located(found)]
  BY DEF applyDiagnostics
<1>5. \A f \in Files : shown[f] = found[f] BY DEF Tracked, Located
<1> HIDE DEF shown, m
<1>6. m \in LintStates BY <1>2, <1>3, <1>4 DEF LintStates
<1>7. /\ m.diagnostics = shown /\ m.reportedFiles = Located(found) /\ m.runs = l.runs
      /\ m.pendingLint = l.pendingLint /\ m.rerunRequested = l.rerunRequested
  BY <1>4 DEF LintStates
<1>8. Tracked(m) BY <1>5, <1>7 DEF Tracked, Located
<1> QED BY <1>5, <1>6, <1>7, <1>8 DEF m

\* A step that leaves the files, the selection and the saves alone.
LEMMA SameWorld ==
    ASSUME UNCHANGED <<disk, source, unheard>>, NEW m, Good(m), lint' = m
    PROVE  Good(lint)'
<1>1. One(lint)' BY DEF Good, One
<1>2. Tracked(lint)' BY DEF Good, Tracked
<1>3. Quiet(lint)' BY DEF Good, Quiet, Behind, Says, Findings
<1>4. InFlight(lint)' BY DEF Good, InFlight, Behind, Says, Findings
<1> QED BY <1>1, <1>2, <1>3, <1>4 DEF Good

\* With a trigger waiting, nothing is claimed of the run in flight.
LEMMA Scheduled ==
    ASSUME NEW l \in LintStates, One(l), l.rerunRequested => l.running, Tracked(l),
           lint' = scheduleLint(l)
    PROVE  Good(lint)'
<1>1. scheduleLint(l) \in LintStates BY DEF scheduleLint, LintStates
<1>2. /\ lint'.pendingLint = TRUE /\ lint'.runs = l.runs /\ lint'.running = l.running
      /\ lint'.rerunRequested = l.rerunRequested
      /\ lint'.diagnostics = l.diagnostics /\ lint'.reportedFiles = l.reportedFiles
  BY DEF scheduleLint, LintStates
<1>3. One(lint)' BY <1>2 DEF One
<1>4. Tracked(lint)' BY <1>2 DEF Tracked
<1>5. Quiet(lint)' BY <1>2 DEF Quiet, Behind
<1>6. InFlight(lint)' BY <1>2 DEF InFlight, Behind
<1>7. (lint.rerunRequested => lint.running)' BY <1>2
<1> QED BY <1>1, <1>3, <1>4, <1>5, <1>6, <1>7 DEF Good

LEMMA SaveKeeps == ASSUME IInv, NEW f \in Files, NEW text \in Texts, Save(f, text) PROVE IInv'
<1>1. World' BY LintAssumption DEF IInv, World, Save, UserActs
<1>2. lint' = lint /\ unheard' BY DEF Save
<1>3. One(lint)' /\ Tracked(lint)' BY <1>2 DEF IInv, Good, One, Tracked
<1>4. Quiet(lint)' /\ InFlight(lint)' BY <1>2 DEF Quiet, InFlight
<1> QED BY <1>1, <1>2, <1>3, <1>4 DEF IInv, Good

\* Says claims nothing of a file that is gone.
LEMMA DeleteKeeps == ASSUME IInv, NEW f \in Files, Delete(f) PROVE IInv'
<1>1. World' BY LintAssumption DEF IInv, World, Delete, UserActs
<1>2. UNCHANGED <<lint, source, unheard>> BY DEF Delete
<1>3. ASSUME NEW t \in Files, NEW found, Says(t, found) PROVE Says(t, found)'
  <2>1. \A g \in Files : disk'[g] # Gone => disk[g] # Gone /\ disk'[g] = disk[g]
    BY DEF Delete, IInv, World
  <2> QED BY <1>3, <2>1 DEF Says, Findings
<1>4. One(lint)' /\ Tracked(lint)' BY <1>2 DEF IInv, Good, One, Tracked
<1>5. Quiet(lint)'
  <2>1. Says(lint.last.target, lint.diagnostics) /\ lint.last.target \in Files
           => Says(lint.last.target, lint.diagnostics)' BY <1>2, <1>3 DEF Says, Findings
  <2> QED BY <1>2, <2>1 DEF IInv, Good, Quiet, Behind
<1>6. InFlight(lint)'
  <2>1. \A r \in lint.runs : r.target \in Files BY DEF IInv, Good, LintStates, Runs
  <2> QED BY <1>2, <1>3, <2>1 DEF IInv, Good, InFlight, Behind
<1> QED BY <1>1, <1>2, <1>4, <1>5, <1>6 DEF IInv, Good

LEMMA FocusKeeps == ASSUME IInv, NEW e \in Editors, Focus(e) PROVE IInv'
<1>1. World' BY LintAssumption DEF IInv, World, Focus, UserActs
<1>2. Good(lint)' BY SameWorld DEF IInv, Focus
<1> QED BY <1>1, <1>2 DEF IInv

LEMMA SourceKeeps == ASSUME IInv, NEW s \in Sources, setCompilationSource(s) PROVE IInv'
<1>1. World' BY LintAssumption DEF IInv, World, setCompilationSource, UserActs
<1>2. Good(lint)' BY Scheduled DEF IInv, Good, setCompilationSource
<1> QED BY <1>1, <1>2 DEF IInv

LEMMA ConfigKeeps ==
    ASSUME IInv, NEW s \in [enabled : BOOLEAN, path : Paths], ConfigUpdated(s) PROVE IInv'
<1>1. World' BY LintAssumption DEF IInv, World, ConfigUpdated, UserActs
<1> DEFINE c == clearAll(lint)
           m == onSettingsChanged(c)
<1>2. /\ c \in LintStates /\ Tracked(c) /\ c.runs = lint.runs /\ c.running = lint.running
      /\ c.rerunRequested = lint.rerunRequested
  BY ClearAllTracks DEF IInv, Good
<1> HIDE DEF c
<1>3. m \in LintStates BY <1>2 DEF onSettingsChanged, LintStates
<1>4. /\ m.runs = lint.runs /\ m.running = lint.running
      /\ m.rerunRequested = lint.rerunRequested
      /\ m.diagnostics = c.diagnostics /\ m.reportedFiles = c.reportedFiles
  BY <1>2 DEF onSettingsChanged, LintStates
<1>5. lint' = scheduleLint(m) BY DEF ConfigUpdated, c
<1> HIDE DEF m
<1>6. One(m) BY <1>4 DEF IInv, Good, One
<1>7. Tracked(m) BY <1>2, <1>4 DEF Tracked
<1>8. m.rerunRequested => m.running BY <1>4 DEF IInv, Good
<1>9. Good(lint)' BY <1>3, <1>5, <1>6, <1>7, <1>8, Scheduled
<1> QED BY <1>1, <1>9 DEF IInv

LEMMA DidSaveKeeps == ASSUME IInv, DidSave PROVE IInv'
<1>1. World' BY DEF IInv, World, DidSave
<1>2. Good(lint)' BY Scheduled DEF IInv, Good, DidSave
<1> QED BY <1>1, <1>2 DEF IInv

LEMMA DebounceKeeps == ASSUME IInv, DebounceFires PROVE IInv'
<1> DEFINE l == [lint EXCEPT !.pendingLint = FALSE]
           busy == [l EXCEPT !.rerunRequested = TRUE]
           started == [l EXCEPT !.running = TRUE]
<1>1. World' BY DEF IInv, World, DebounceFires
<1>2. lint \in LintStates BY DEF IInv, Good
<1>3. l \in LintStates BY <1>2 DEF LintStates
<1>4. /\ l.runs = lint.runs /\ l.running = lint.running
      /\ l.rerunRequested = lint.rerunRequested
      /\ l.diagnostics = lint.diagnostics /\ l.reportedFiles = lint.reportedFiles
  BY <1>2 DEF LintStates
<1>5. lint' = IF l.running THEN busy ELSE lintTarget(started)
  BY DEF DebounceFires, runLinters
<1> HIDE DEF l
<1>6. CASE l.running
  <2>1. busy \in LintStates BY <1>3 DEF LintStates
  <2>2. /\ busy.runs = lint.runs /\ busy.running = lint.running
        /\ busy.rerunRequested = TRUE
        /\ busy.diagnostics = lint.diagnostics /\ busy.reportedFiles = lint.reportedFiles
    BY <1>3, <1>4 DEF LintStates
  <2> HIDE DEF busy
  <2>3. One(busy) /\ Tracked(busy) BY <2>2 DEF IInv, Good, One, Tracked
  <2>4. Quiet(busy) /\ InFlight(busy) BY <2>2 DEF Quiet, InFlight, Behind
  <2>5. busy.rerunRequested => busy.running BY <1>4, <1>6, <2>2
  <2>6. Good(busy) BY <2>1, <2>3, <2>4, <2>5 DEF Good
  <2>7. Good(lint)' BY <1>5, <1>6, <2>6, SameWorld DEF DebounceFires
  <2> QED BY <1>1, <2>7 DEF IInv
<1>7. CASE ~l.running
  <2>1. started \in LintStates BY <1>3 DEF LintStates
  <2>2. /\ started.runs = lint.runs /\ started.running = TRUE
        /\ started.rerunRequested = lint.rerunRequested
        /\ started.diagnostics = lint.diagnostics
        /\ started.reportedFiles = lint.reportedFiles
    BY <1>3, <1>4 DEF LintStates
  <2> HIDE DEF started
  <2>3. lint.runs = {} /\ ~lint.rerunRequested BY <1>4, <1>7 DEF IInv, Good, One
  <2>4. Tracked(started) BY <2>2 DEF IInv, Good, Tracked
  <2>5. started.runs = {} /\ started.running /\ ~started.rerunRequested BY <2>2, <2>3
  <2>6. Good(lintTarget(started)) BY <2>1, <2>4, <2>5, LintTargetIsGood DEF IInv
  <2>7. Good(lint)' BY <1>5, <1>7, <2>6, SameWorld DEF DebounceFires
  <2> QED BY <1>1, <2>7 DEF IInv
<1> QED BY <1>6, <1>7

\* The run in flight moves on, with what is known of it after the step.
LEMMA MovesOn ==
    ASSUME IInv, NEW r \in lint.runs, NEW q \in Runs, NEW l \in LintStates,
           l.running = lint.running, l.rerunRequested = lint.rerunRequested,
           l.pendingLint = lint.pendingLint,
           l.diagnostics = lint.diagnostics, l.reportedFiles = lint.reportedFiles,
           l.runs = {q}, q.target = r.target,
           q.phase = "read" => Says(q.target, q.found)
    PROVE  Good(l)
<1>1. lint.running /\ (~unheard /\ ~Behind(lint) => (source \in Files => r.target = source))
  BY TheRun
<1>2. One(l) BY <1>1 DEF One
<1>3. Tracked(l) BY DEF IInv, Good, Tracked
<1>4. InFlight(l) BY <1>1 DEF InFlight, Behind
<1>5. Quiet(l) BY <1>1 DEF Quiet
<1>6. l.rerunRequested => l.running BY <1>1
<1> QED BY <1>2, <1>3, <1>4, <1>5, <1>6 DEF Good

LEMMA NotifyKeeps ==
    ASSUME NEW l \in LintStates, NEW message \in {NotFound, Failed}
    PROVE  /\ notifyOnce(l, message) \in LintStates
           /\ notifyOnce(l, message).runs = l.runs
           /\ notifyOnce(l, message).pendingLint = l.pendingLint
           /\ notifyOnce(l, message).rerunRequested = l.rerunRequested
           /\ notifyOnce(l, message).diagnostics = l.diagnostics
           /\ notifyOnce(l, message).reportedFiles = l.reportedFiles
BY DEF notifyOnce, LintStates

LEMMA LookupKeeps ==
    ASSUME IInv, NEW r \in lint.runs, NEW found \in BOOLEAN, toolPath(r, found) PROVE IInv'
<1>1. World' BY DEF IInv, World, toolPath
<1>2. lint \in LintStates /\ Tracked(lint) BY DEF IInv, Good
<1>3. /\ lint.runs = {r} /\ r \in Runs
      /\ ~unheard /\ ~Behind(lint) => (source \in Files => r.target = source)
  BY TheRun
<1>4. CASE found
  <2> DEFINE q == [r EXCEPT !.phase = "tool"]
             m == [lint EXCEPT !.resolvedPath = r.path, !.runs = (@ \ {r}) \cup {q}]
  <2>1. q \in Runs /\ q.target = r.target /\ q.phase = "tool" BY <1>3 DEF Runs
  <2>2. r.path \in Paths BY <1>3 DEF Runs
  <2>3. lint' = m BY <1>4 DEF toolPath
  <2> HIDE DEF q
  <2>4. m \in LintStates BY <1>2, <1>3, <2>1, <2>2 DEF LintStates
  <2>5. /\ m.running = lint.running /\ m.rerunRequested = lint.rerunRequested
        /\ m.pendingLint = lint.pendingLint
        /\ m.diagnostics = lint.diagnostics /\ m.reportedFiles = lint.reportedFiles
        /\ m.runs = {q}
    BY <1>2, <1>3 DEF LintStates
  <2> HIDE DEF m
  <2>6. Good(m) BY <2>1, <2>4, <2>5, MovesOn
  <2>7. Good(lint)' BY <2>3, <2>6, SameWorld DEF toolPath
  <2> QED BY <1>1, <2>7 DEF IInv
<1>5. CASE ~found
  <2> DEFINE l == [lint EXCEPT !.toolLookupFailed = TRUE]
             m == notifyOnce(l, NotFound)
  <2>1. l \in LintStates BY <1>2 DEF LintStates
  <2>2. /\ l.runs = lint.runs /\ l.pendingLint = lint.pendingLint
        /\ l.rerunRequested = lint.rerunRequested
        /\ l.diagnostics = lint.diagnostics /\ l.reportedFiles = lint.reportedFiles
    BY <1>2 DEF LintStates
  <2>3. lint' = Returned(m, r, "noTool") BY <1>5 DEF toolPath
  <2> HIDE DEF l
  <2>4. /\ m \in LintStates /\ m.runs = {r} /\ Tracked(m)
        /\ Behind(m) = Behind(lint)
    BY <1>2, <1>3, <2>1, <2>2, NotifyKeeps DEF Tracked, Behind
  <2> HIDE DEF m
  <2>5. Good(Returned(m, r, "noTool")) BY <1>3, <2>4, ReturnedIsGood DEF IInv
  <2>6. Good(lint)' BY <2>3, <2>5, SameWorld DEF toolPath
  <2> QED BY <1>1, <2>6 DEF IInv
<1> QED BY <1>4, <1>5

LEMMA ReadsKeeps == ASSUME IInv, NEW r \in lint.runs, ToolReads(r) PROVE IInv'
<1>1. World' BY DEF IInv, World, ToolReads
<1>2. lint \in LintStates BY DEF IInv, Good
<1>3. lint.runs = {r} /\ r \in Runs BY TheRun
<1> DEFINE found == Findings(r.target)
           q == [r EXCEPT !.phase = "read", !.found = found]
           m == [lint EXCEPT !.runs = (@ \ {r}) \cup {q}]
<1>4. found \in [Files -> Texts] BY DEF Findings, Texts, IInv, World
<1>5. Says(r.target, found) BY DEF Says
<1>6. lint' = m BY DEF ToolReads
<1> HIDE DEF found
<1>7. q \in Runs /\ q.target = r.target /\ q.found = found BY <1>3, <1>4 DEF Runs
<1>8. Says(q.target, q.found) BY <1>5, <1>7
<1> HIDE DEF q
<1>9. m \in LintStates BY <1>2, <1>3, <1>7 DEF LintStates
<1>10. /\ m.running = lint.running /\ m.rerunRequested = lint.rerunRequested
       /\ m.pendingLint = lint.pendingLint
       /\ m.diagnostics = lint.diagnostics /\ m.reportedFiles = lint.reportedFiles
       /\ m.runs = {q}
  BY <1>2, <1>3 DEF LintStates
<1> HIDE DEF m
<1>11. Good(m) BY <1>7, <1>8, <1>9, <1>10, MovesOn
<1>12. Good(lint)' BY <1>6, <1>11, SameWorld DEF ToolReads
<1> QED BY <1>1, <1>12 DEF IInv

LEMMA ExitsKeeps ==
    ASSUME IInv, NEW r \in lint.runs, NEW exit \in Exits, ToolExits(r, exit) PROVE IInv'
<1>1. World' BY DEF IInv, World, ToolExits
<1>2. lint \in LintStates /\ Tracked(lint) BY DEF IInv, Good
<1>3. /\ lint.runs = {r} /\ r \in Runs
      /\ ~unheard /\ ~Behind(lint) => (source \in Files => r.target = source)
      /\ ~unheard /\ ~Behind(lint) => (r.phase = "read" => Says(r.target, r.found))
  BY TheRun
<1>4. CASE runFailure(exit, r.found)
  <2> DEFINE m == notifyOnce(lint, Failed)
  <2>1. lint' = Returned(m, r, "failed") BY <1>4 DEF ToolExits
  <2>2. /\ m \in LintStates /\ m.runs = {r} /\ Tracked(m)
        /\ Behind(m) = Behind(lint)
    BY <1>2, <1>3, NotifyKeeps DEF Tracked, Behind
  <2> HIDE DEF m
  <2>3. Good(Returned(m, r, "failed")) BY <1>3, <2>2, ReturnedIsGood DEF IInv
  <2>4. Good(lint)' BY <2>1, <2>3, SameWorld DEF ToolExits
  <2> QED BY <1>1, <2>4 DEF IInv
<1>5. CASE ~runFailure(exit, r.found)
  <2> DEFINE m == applyDiagnostics(lint, r.found)
  <2>1. lint' = Returned(m, r, "applied") BY <1>5 DEF ToolExits
  <2>2. r.phase = "read" BY <1>5 DEF ToolExits, runFailure
  <2>3. r.found \in [Files -> Texts] BY <1>3 DEF Runs
  <2>4. /\ m \in LintStates /\ m.runs = {r} /\ Tracked(m)
        /\ \A f \in Files : m.diagnostics[f] = r.found[f]
        /\ Behind(m) = Behind(lint)
    BY <1>2, <1>3, <2>3, ApplyShowsFindings DEF Behind
  <2> HIDE DEF m
  <2>5. ~unheard /\ ~Behind(m) => Says(r.target, m.diagnostics)
    BY <1>3, <2>2, <2>4 DEF Says
  <2>6. Good(Returned(m, r, "applied")) BY <1>3, <2>4, <2>5, ReturnedIsGood DEF IInv
  <2>7. Good(lint)' BY <2>1, <2>6, SameWorld DEF ToolExits
  <2> QED BY <1>1, <2>7 DEF IInv
<1> QED BY <1>4, <1>5

LEMMA InitGood == Init => IInv
<1> SUFFICES ASSUME Init PROVE IInv OBVIOUS
<1> DEFINE none == [f \in Files |-> Clean]
<1>1. World
  <2>1. disk \in [Files -> Texts \cup {Gone}] BY DEF Init
  <2>2. steps \in 0..MaxSteps BY LintAssumption DEF Init
  <2>3. unheard \in BOOLEAN /\ source \in Sources BY DEF Init, Sources
  <2> QED BY <2>1, <2>2, <2>3 DEF Init, World
<1>2. none \in [Files -> Texts] /\ (\A f \in Files : none[f] = Clean) BY DEF Texts
<1>3. lint = [pendingLint |-> FALSE, running |-> FALSE, rerunRequested |-> FALSE, runs |-> {},
              resolvedPath |-> None, toolLookupFailed |-> FALSE, notified |-> {},
              diagnostics |-> none, reportedFiles |-> {},
              last |-> [how |-> "none", target |-> None]]
  BY DEF Init
<1> HIDE DEF none
<1>4. lint \in LintStates BY <1>2, <1>3 DEF LintStates, Outcomes, Editors
<1>5. One(lint) /\ InFlight(lint) BY <1>3 DEF One, InFlight, Behind
<1>6. Tracked(lint) BY <1>2, <1>3 DEF Tracked
<1>7. Quiet(lint) BY <1>3, LintAssumption DEF Quiet, Init
<1>8. lint.rerunRequested => lint.running BY <1>3
<1> QED BY <1>1, <1>4, <1>5, <1>6, <1>7, <1>8 DEF IInv, Good

\* Every step of the user and of the extension host preserves IInv.
LEMMA StepGood == IInv /\ [Next]_vars => IInv'
<1> SUFFICES ASSUME IInv, [Next]_vars PROVE IInv' OBVIOUS
<1>1. CASE UserStep
  BY <1>1, SaveKeeps, DeleteKeeps, FocusKeeps, SourceKeeps, ConfigKeeps DEF UserStep
<1>2. CASE HostStep
  BY <1>2, DidSaveKeeps, DebounceKeeps, LookupKeeps, ReadsKeeps, ExitsKeeps
  DEF HostStep, LookupStep, ToolStep
<1>3. CASE UNCHANGED vars
  <2>1. World' BY <1>3 DEF vars, IInv, World
  <2>2. Good(lint)' BY <1>3, SameWorld DEF vars, IInv
  <2> QED BY <2>1, <2>2 DEF IInv
<1> QED BY <1>1, <1>2, <1>3 DEF Next

LEMMA AlwaysGood == Spec => []IInv
BY InitGood, StepGood, PTL DEF Spec

\* The variables of the linter always have their types; in particular the tool
\* is only started over files (isLintableTarget).
THEOREM TypeCorrect == Spec => []TypeOK
<1>1. IInv => TypeOK BY DEF IInv, World, Good, TypeOK
<1> QED BY <1>1, AlwaysGood, PTL

\* However triggers, lookups and exits interleave, runLinters keeps to one run.
THEOREM RunsNeverOverlap == Spec => []OneRunAtATime
<1>1. IInv => OneRunAtATime BY DEF IInv, Good, One, OneRunAtATime
<1> QED BY <1>1, AlwaysGood, PTL

\* No diagnostic is ever out of reach of the next applyDiagnostics or clearAll.
THEOREM EveryDiagnosticIsTracked == Spec => []TrackedIsShown
<1>1. IInv => TrackedIsShown BY DEF IInv, Good, Tracked, TrackedIsShown
<1> QED BY <1>1, AlwaysGood, PTL

\* Neither the debounce nor a run in flight loses a trigger: a quiet linter
\* shows what the tool says of the saved files and of the selected top file.
THEOREM NoTriggerIsLost == Spec => []QuietIsCurrent
<1>1. IInv => QuietIsCurrent
  BY DEF IInv, Good, Quiet, Behind, Says, QuietIsCurrent, Idle
<1> QED BY <1>1, AlwaysGood, PTL
=============================================================================
