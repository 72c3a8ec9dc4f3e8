-------------------------------- MODULE Lint --------------------------------
(***************************************************************************)
(* External linting in the VS Code extension: LintManager, which debounces *)
(* the triggers and runs the linter over the current target, and           *)
(* ExternalLinter, which looks up the tool, runs it and keeps its          *)
(* diagnostics.                                                            *)
(*                                                                         *)
(* The extension host runs one callback at a time, so a step is what runs  *)
(* between two awaits that really wait: the debounce timer, the lookup of  *)
(* the tool and the tool's exit.  The fields of lint are those of the two  *)
(* objects; runs are the calls of lint() that have not returned.           *)
(***************************************************************************)
EXTENDS Naturals

CONSTANTS Files,
          Needs,      \* Needs[f]: the files the tool reads when it lints f
          Clean, Bad, \* contents without and with findings
          Gone,       \* contents of a file that is not on disk
          Untitled,   \* an editor whose document is not a file
          BuildFile,  \* a compilation source without a top file
          Paths,      \* values of slang.lint.verilator.path
          DefaultPath,\* the empty one: the tool is searched on the PATH
          None,
          MaxSteps    \* bound: actions of the user

Texts == Bad \cup {Clean}
Sources == Files \cup {BuildFile, None}
Editors == Files \cup {Untitled, None}

ASSUME LintAssumption ==
    /\ Needs \in [Files -> SUBSET Files]
    /\ \A f \in Files : f \in Needs[f]
    /\ Clean \notin Bad /\ Gone \notin Texts
    /\ {Untitled, BuildFile, None} \cap Files = {}
    /\ Untitled # None /\ BuildFile # None
    /\ DefaultPath \in Paths /\ None \notin Paths
    /\ MaxSteps \in Nat

VARIABLES
    disk,       \* contents of the files
    settings,   \* slang.lint.verilator
    source,     \* ProjectComponent.compilationSource
    active,     \* vscode.window.activeTextEditor
    unheard,    \* a document was saved and the extension host not told yet
    lint,       \* LintManager and its ExternalLinter
    steps       \* actions of the user so far

vars == <<disk, settings, source, active, unheard, lint, steps>>

-----------------------------------------------------------------------------
(* ExternalLinter.                                                         *)

clearAll(l) == [l EXCEPT !.diagnostics = [f \in Files |-> Clean], !.reportedFiles = {}]

onSettingsChanged(l) ==
    [l EXCEPT !.resolvedPath = None, !.toolLookupFailed = FALSE, !.notified = {}]

isLintableTarget(t) == t \in Files /\ disk[t] # Gone

\* What the tool prints for a target, grouped by file.
Findings(t) == [f \in Files |-> IF f \in Needs[t] /\ disk[f] # Gone THEN disk[f] ELSE Clean]
Located(found) == {f \in Files : found[f] # Clean}

\* How the process may end.  A linter that finds something exits with a status.
Exits == {"zero", "status", "killed", "spawnError"}
runFailure(exit, found) ==
    \/ exit \in {"killed", "spawnError"}
    \/ exit = "status" /\ Located(found) = {}

applyDiagnostics_keep(l, found) ==
    [l EXCEPT !.diagnostics = [f \in Files |-> IF f \in Located(found) THEN found[f] ELSE @[f]],
              !.reportedFiles = Located(found)]

\* Files of the previous run that are not in this one lose their diagnostics.
applyDiagnostics(l, found) ==
    [l EXCEPT !.diagnostics = [f \in Files |->
                  IF f \in Located(found) THEN found[f]
                  ELSE IF f \in l.reportedFiles THEN Clean ELSE @[f]],
              !.reportedFiles = Located(found)]

NotFound == "notFound"
Failed == "failed"
notifyOnce(l, message) == [l EXCEPT !.notified = @ \cup {message}]

-----------------------------------------------------------------------------
(* LintManager.                                                            *)

scheduleLint(l) == [l EXCEPT !.pendingLint = TRUE]

Target == IF source \in Files THEN source ELSE active

Run(phase, path) == [phase |-> phase, target |-> Target, path |-> path,
                     found |-> [f \in Files |-> Clean]]

\* A run that ended without waiting for anything.
Over(l, how) == [l EXCEPT !.running = FALSE, !.last = [how |-> how, target |-> Target]]

\* lintTarget and lint(), up to the first await that waits.
lintTarget(l) ==
    IF Target = None THEN Over(clearAll(l), "cleared")
    ELSE IF ~isLintableTarget(Target) THEN Over(l, "skipped")
    ELSE IF ~settings.enabled THEN Over(l, "off")
    ELSE IF l.resolvedPath # None
         THEN [l EXCEPT !.runs = @ \cup {Run("tool", l.resolvedPath)}]
    ELSE IF l.toolLookupFailed THEN Over(l, "noTool")
    ELSE [l EXCEPT !.runs = @ \cup {Run("lookup", settings.path)}]

runLinters_forget(l) == IF l.running THEN l ELSE lintTarget([l EXCEPT !.running = TRUE])
runLinters(l) ==
    IF l.running THEN [l EXCEPT !.rerunRequested = TRUE]
    ELSE lintTarget([l EXCEPT !.running = TRUE])

Returned_again(l, r, how) ==
    LET ended == [l EXCEPT !.runs = @ \ {r}, !.running = FALSE,
                           !.last = [how |-> how, target |-> r.target]] IN
    IF l.rerunRequested THEN runLinters(ended) ELSE ended

\* lint() returns: what follows the await in runLinters, up to the next one.
Returned(l, r, how) ==
    LET ended == [l EXCEPT !.runs = @ \ {r}, !.running = FALSE,
                           !.last = [how |-> how, target |-> r.target]] IN
    IF l.rerunRequested THEN runLinters([ended EXCEPT !.rerunRequested = FALSE]) ELSE ended

-----------------------------------------------------------------------------
(* Init: the linter is activated, and no document has been saved yet.      *)

Init ==
    /\ disk \in [Files -> Texts]
    /\ settings \in [enabled : BOOLEAN, path : Paths]
    /\ source = None
    /\ active \in Editors
    /\ unheard = FALSE
    /\ steps = 0
    /\ lint = [pendingLint |-> FALSE, running |-> FALSE, rerunRequested |-> FALSE, runs |-> {},
               resolvedPath |-> None, toolLookupFailed |-> FALSE, notified |-> {},
               diagnostics |-> [f \in Files |-> Clean], reportedFiles |-> {},
               last |-> [how |-> "none", target |-> None]]

-----------------------------------------------------------------------------
(* The user and the file system.                                           *)

UserActs == steps < MaxSteps /\ steps' = steps + 1

\* A document is saved; the extension host hears of it later.
Save(f, text) ==
    /\ UserActs
    /\ disk' = [disk EXCEPT ![f] = text]
    /\ unheard' = TRUE
    /\ UNCHANGED <<settings, source, active, lint>>

\* A file is deleted outside the editor; nobody is told.
Delete(f) ==
    /\ UserActs
    /\ disk[f] # Gone
    /\ disk' = [disk EXCEPT ![f] = Gone]
    /\ UNCHANGED <<settings, source, active, unheard, lint>>

\* Moving focus does not lint.
Focus(e) ==
    /\ UserActs
    /\ e # active
    /\ active' = e
    /\ UNCHANGED <<disk, settings, source, unheard, lint>>

setCompilationSource(s) ==
    /\ UserActs
    /\ s # source
    /\ source' = s
    /\ lint' = scheduleLint(lint)
    /\ UNCHANGED <<disk, settings, active, unheard>>

ConfigUpdated(s) ==
    /\ UserActs
    /\ s # settings
    /\ settings' = s
    /\ lint' = scheduleLint(onSettingsChanged(clearAll(lint)))
    /\ UNCHANGED <<disk, source, active, unheard>>

-----------------------------------------------------------------------------
(* Callbacks of the extension host.                                        *)

DidSave ==
    /\ unheard
    /\ unheard' = FALSE
    /\ lint' = scheduleLint(lint)
    /\ UNCHANGED <<disk, settings, source, active, steps>>

DebounceFires ==
    /\ lint.pendingLint
    /\ lint' = runLinters([lint EXCEPT !.pendingLint = FALSE])
    /\ UNCHANGED <<disk, settings, source, active, unheard, steps>>

\* resolveToolPath answers.  A configured path is taken as it is; found says
\* whether the tool is on the PATH.
toolPath(r, found) ==
    /\ r \in lint.runs /\ r.phase = "lookup"
    /\ found \/ r.path = DefaultPath
    /\ lint' = IF found
               THEN [lint EXCEPT !.resolvedPath = r.path,
                                 !.runs = (@ \ {r}) \cup {[r EXCEPT !.phase = "tool"]}]
               ELSE Returned(notifyOnce([lint EXCEPT !.toolLookupFailed = TRUE], NotFound),
                             r, "noTool")
    /\ UNCHANGED <<disk, settings, source, active, unheard, steps>>

\* The tool reads the files, at some time while it runs.
ToolReads(r) ==
    /\ r \in lint.runs /\ r.phase = "tool"
    /\ lint' = [lint EXCEPT !.runs = (@ \ {r}) \cup
                   {[r EXCEPT !.phase = "read", !.found = Findings(r.target)]}]
    /\ UNCHANGED <<disk, settings, source, active, unheard, steps>>

\* The tool exits, is killed after LINT_TIMEOUT_MS or was never started.
ToolExits(r, exit) ==
    /\ r \in lint.runs
    /\ \/ r.phase = "read" /\ exit # "spawnError"
       \/ r.phase = "tool" /\ exit \in {"killed", "spawnError"}
    /\ lint' = IF runFailure(exit, r.found)
               THEN Returned(notifyOnce(lint, Failed), r, "failed")
               ELSE Returned(applyDiagnostics(lint, r.found), r, "applied")
    /\ UNCHANGED <<disk, settings, source, active, unheard, steps>>

LookupStep == \E r \in lint.runs, found \in BOOLEAN : toolPath(r, found)
ToolStep == \E r \in lint.runs : ToolReads(r) \/ \E exit \in Exits : ToolExits(r, exit)
HostStep == DidSave \/ DebounceFires \/ LookupStep \/ ToolStep

UserStep ==
    \/ \E f \in Files : Delete(f) \/ \E text \in Texts : Save(f, text)
    \/ \E e \in Editors : Focus(e)
    \/ \E s \in Sources : setCompilationSource(s)
    \/ \E s \in [enabled : BOOLEAN, path : Paths] : ConfigUpdated(s)

Next == HostStep \/ UserStep

\* Timers fire, lookups return, and a tool exits or is killed by the timeout.
Spec == Init /\ [][Next]_vars
             /\ WF_vars(DidSave) /\ WF_vars(DebounceFires)
             /\ WF_vars(LookupStep) /\ WF_vars(ToolStep)

-----------------------------------------------------------------------------
(* Properties.                                                             *)

Idle == ~unheard /\ ~lint.pendingLint /\ ~lint.running /\ ~lint.rerunRequested

Runs == [phase : {"lookup", "tool", "read"}, target : Files, path : Paths,
         found : [Files -> Texts]]
Outcomes == {"none", "cleared", "skipped", "off", "noTool", "failed", "applied"}
LintStates ==
    [pendingLint : BOOLEAN, running : BOOLEAN, rerunRequested : BOOLEAN, runs : SUBSET Runs,
     resolvedPath : Paths \cup {None}, toolLookupFailed : BOOLEAN,
     notified : SUBSET {NotFound, Failed},
     diagnostics : [Files -> Texts], reportedFiles : SUBSET Files,
     last : [how : Outcomes, target : Editors]]

\* The variables have their types: the tool only ever runs over a file.
TypeOK ==
    /\ disk \in [Files -> Texts \cup {Gone}]
    /\ settings \in [enabled : BOOLEAN, path : Paths]
    /\ source \in Sources /\ active \in Editors
    /\ unheard \in BOOLEAN /\ steps \in 0..MaxSteps
    /\ lint \in LintStates

\* runLinters never has two runs of the tool at a time, so that results cannot
\* be applied in another order than the runs were started.
OneRunAtATime ==
    IF lint.running THEN \E r \in lint.runs : lint.runs = {r} ELSE lint.runs = {}

\* The linter remembers exactly the files that carry its diagnostics, whatever
\* clearAll did while a run was in flight: no diagnostic is out of reach of the
\* next applyDiagnostics.
TrackedIsShown == lint.reportedFiles = {f \in Files : lint.diagnostics[f] # Clean}

\* No trigger is lost to the debounce or to a run in flight: once nothing is
\* scheduled or running, the last run has seen the saved files and the selected
\* compilation, so what it applied is what the tool says of them now.
QuietIsCurrent ==
    Idle =>
    /\ lint.last.how # "none" /\ source \in Files => lint.last.target = source
    /\ lint.last.how = "applied" =>
          \A f \in Files : disk[f] # Gone =>
              lint.diagnostics[f] = Findings(lint.last.target)[f]
    /\ lint.last.how = "cleared" => \A f \in Files : lint.diagnostics[f] = Clean

\* Runs and reruns come to an end: rerunRequested does not feed itself.
SettlesDown == []<>Idle

\* The comment on onSettingsChanged: once settled, the executable in use is the
\* one of the settings the user has now.
SettingsArePickedUp == Idle => lint.resolvedPath \in {None, settings.path}
=============================================================================
