# A TLA+ model of slang-server

slang-server is a language server for SystemVerilog: a C++ process (`src/`, `include/`) that speaks
LSP over stdin/stdout, optionally the WCP protocol with a waveform viewer over a socket, and two
editor clients (`clients/vscode`, `clients/neovim`). The VS Code client of this fork also runs an
external Verilator linter by itself.

This directory holds TLA+ modules of its core, the TLC configurations that check them on small
instances, and TLAPS proofs that hold for every instance. `PROJECT.json` is the index: which module
models which lines, what each run checks, the hazards the properties are aimed at.

## 1. Inventory

| Component | State | Operations | What makes it correct |
|---|---|---|---|
| JSON-RPC message loop (`include/lsp/JsonRpcServer.h`, `JsonRpc.h`, `RequestContext.h`) | message queue, `inputFinished`, contexts of requests and changes, three mutexes, stdout | read, enqueue, cancel, process, respond, shut down | one response per request, in order; cancel and start do not race; a change is superseded by the newest only; whole frames; clean exit |
| Documents and diagnostics (`ServerDriver`, `SlangDoc`, `ServerDiagClient`) | open documents and their text, the analysis of each, diagnostics by file, dirty set, what was published | open, change, save, close, reload, watched files, publish | what the client shows matches the text; nothing stale survives close or a driver swap |
| Configuration and driver swap (`SlangServer`) | driver, config, build file, top level, pending reload | load/reload config, set build file/top/explore, add define, auto configure | a failed load changes nothing; a retry happens; a driver swap loses no document |
| Indexer (`Indexer`) | symbol, macro, reference and include maps, snapshot of each indexed file, cache of includers | index all, index/remove a path, open-document updates, watched files | the maps are the union of the indexed files; include maps are inverse; the cache is never stale |
| Active instances (`ServerCompilation`) | active instance per module, active generate scopes | set/get, refresh, sync | the active instance exists in the current design |
| Waveform client (`WcpClient`) | socket, receive buffer, thread, running flag | greet, receive loop, send, stop, restart | no message is delayed or lost; a session can be reopened |
| External linter (VS Code `LintManager`, `ExternalLinter`) | debounce timers, running/rerun flags, diagnostics, resolved tool path | schedule, lint, apply, clear, settings change | diagnostics on screen are those of the latest run; a setting change takes effect |
| Include resolution (`ServerDriver::parseShallowTree`, `getIncludeContexts`) | the selected context of each header | infer directories, list and choose contexts | an inferred directory never redirects an include; a choice is honoured |
| References, rename, cones, completions, hints, tokens, snippets, positions, URIs | none: questions about analyses that others keep | one answer each | the answer agrees with an independent definition of it |
| Hover, code actions, formatting, markdown, process launch, logging, Neovim client, VS Code views and installer | mostly none | texts put together from the syntax tree, or thin glue | result shape; not a matter of state |

Interaction. Every LSP handler runs on the worker thread under `serverStateMutex`; the WCP thread
takes the same mutex for its events; `$/cancelRequest` runs on the reader thread and only touches
contexts. Handlers call the driver, the driver calls documents, the diagnostics client and the
indexer; the diagnostics client writes notifications to stdout. The indexer has worker threads of
its own behind a read/write guard.

What is hard here: the reader/worker/WCP interleavings, cancellation and supersession, two-part
writes to stdout, swaps of the driver under open documents, retries of a configuration that failed
to load, caches keyed by include relations, and asynchronous runs of the linter that finish after
the settings changed.

## 2. Modules, state and actions

### RpcService, JsonRpc, JsonRpcProofs: the message loop

`RpcService` is the abstract promise: messages are accepted, and every request of a registered method
gets one response, in order. `JsonRpc` is `JsonRpcServer.h`: the reader and the worker each have a
program counter; a section of `queueMutex` or `cancellationMutex` is one step; `serverStateMutex` is a
variable. A frame is two steps (header, body) because `sendMessage` writes it with two insertions.
Message contents are abstracted to a kind (is the method registered, does its handler take a
`RequestContext`, is it a `didChange` and of which document). Handlers are abstracted to: publish,
return, throw, or notice cancellation. `JsonRpc` is shown to implement `RpcService` by a refinement
mapping (`ImplementsService`).

### DocSync, DocSyncProofs: documents and diagnostics

One `ServerDriver` with its `SlangDoc`s and its `ServerDiagClient`.

| Variable | Code |
|---|---|
| `docs`, `open` | `ServerDriver::docs`, `m_openDocs` |
| `text` | the latest buffer of each file in the source manager |
| `valid` | documents for which `hasAnalysis()` holds (every buffer it read is the latest) |
| `diagnostics`, `dirty`, `shown` | `m_diagnostics`, `m_dirtyUris`, and what the client has received |
| `editor`, `disk`, `unseen` | the client's texts, the file system, changes the watcher has not reported |
| `inbox`, `stage` | the queue of `JsonRpc`, and how far the `didChange` in progress has come |

A handler is one step, because handlers run one at a time under `serverStateMutex`. `didChange` is the
exception: it is cut at its cancellation checkpoints (`applied`, `cleared`, `parsed`, `issued`), where
a newer change may supersede it while the client goes on typing. An incremental edit carries the text
it was made from (`base`); applied to another buffer it makes the document differ from the editor. A diagnostics list is
abstracted to the texts that its analysis has read, so a property can say *of which texts* a list is.

### Workspace, WorkspaceProofs: configuration and driver

The three `server.json` layers, `loadConfig`, the watched reload with `m_configReloadPending`,
`setBuildFile`, `setTopLevel`, `addDefine`, `autoConfigure`, and the replacement of the driver with its
open documents. A driver is abstracted to what it was made of: kind, file, configuration, versions
read, and a generation number that marks its diagnostics in the client. Handlers are functions of the
server's record; each message is handled in one step. `CommandFiles` are the build files whose report
reloads: `registerFileWatchers` asks the driver's command file metadata, which has only files that were
read. The user's configuration file is edited but never reported (`WatchedLayers`); the server's `user`
is how it read it last. `threw` marks that `setTopLevel` stored a selection and then threw, because the
file could not be read.

### Lint, LintProofs: external linting in VS Code

`LintManager` and `ExternalLinter`. The extension host runs one callback at a time, so a step is what
runs between two awaits that really wait: the debounce timer, the lookup of the tool (`stat` or
`which`), and the exit of the tool. `runs` is a set, so that overlapping runs could be seen. When the
tool reads the files is a step of its own, at any time while it runs. A text is its findings; findings
without a location, arguments and their expansion are abstracted.

### Indexer, IndexerProofs: the workspace index

The maps from names to files, the entry stored for each file, the include graph with its reverse and the
cache of `getFilesIncluding`, in one record `index`; `disk`, `unseen` and `inbox` as in `DocSync`. Every
operation of the code holds the write guard and is one step (`addDocuments`, `removePathFromIndex`,
`replaceIncludes`, exclusions, saves, watched files, a driver that parses its files). The walk of
`startIndexing` happens before the guard is taken, so it is a step of its own and sees an older disk.
The loops over paths are written over sets: what is removed or added for a path is what its own entry
names, so the order does not matter. The buffers of a tree are the least set that holds the file and
what each of its members includes.
`missed` remembers the files whose report a configuration reload swallowed.

### Design, DesignProofs: the active design

`ServerCompilation` with `HierarchicalView.h` and the part of `ActiveDesignContext` that binds analyses
to instances. A module's text is its body; elaboration, which is slang's, unfolds it into a tree of
paths (`Elaborated`). Actions: edit, save (which refreshes the design), activation of an instance or a
generate iteration with the scopes and interfaces it drags along, search, analysis of a document.
`halfSet` marks an activation that was refused after it had changed a selection; `picked` is what was
activated last, until a save changes it or what is around it (`LeftInPlace`). Of a module that occurs
twice on the way to what was picked, and of an interface that is connected on the way, the deepest wins
(`Overridden`), as `setActiveInstanceChain` goes from the root down.

The hierarchy is read in two ways, as in the code. The tree (`tryGetScopeChildren`) looks every path up
from the root (`lookupHierSymbol`), through ports into the interface they are connected to, and asks for a
package when that finds nothing. The search (`collect`) starts from the same first items and goes on over
the items as they come, with what is embedded in them (`ItemsBelow`), looking up only instances by their
path (`Opened`), and does not go into packages, which come with no children. Both end in
`getScopeChildren`; a port gives the members of its modport, or of the default instance of its interface
when it is not connected (`getInterfacePortScope`). Arrays of interface ports, and modports that the
connection chooses, are left out.

### WcpClient, WcpProofs: the waveform viewer

`openWaveform` and `addToWaveform` on the worker, which holds the server's mutex while it waits for the
viewer, and the client thread, which takes it for each message. The byte stream is a sequence of tokens
that a receive cuts anywhere. The viewer may never connect, greet wrongly, or go at any time. `accept`
takes a viewer from the backlog that has connected and gone since. A `send` to a viewer that has gone may
pass unnoticed or raise SIGPIPE, which nothing in the repository ignores: then the server has ended
(`crashed`), as it has when a thread that nobody joined is destroyed.

### Questions that only read

Each of these modules defines an algorithm of the code as operators. The one variable, `question` of
`Questions`, is what a client asks; `MCQueries` asks one question per behaviour and compares the answer
with a definition made for the property. `Cones` (`AskCone`), `Completions` (`AskNames`), `Positions` and `Uri`
have a question and its property in the module itself, over any designs, documents, texts or paths, so that
`QuestionsProofs` can state them for all of them. `Positions` has two questions that grow: `AskEdit` starts a notification
with a text of the client and `AddChange` adds a change to it, of a range or of the whole text, stated in
the text that the change before it left; `AskTokens` and `AddToken` do the same for the tokens of a text
or of one of its ranges, which come in the order of the text (`PositionsSpec`). The module has the client
beside the server: texts are sequences of characters, of which `Bytes` and `UnitsOf` give the bytes and
UTF-16 units, `PlaceOf` counts lines and units, and `Decoded` and `Drawn` are what the client makes of an
answer and what it should. `Uri` has a client that names a file (`AskUri`), escaping what it has to and
any other characters but the slash.

| Module | Code | Compared with |
|---|---|---|
| `References` | `SymbolIndexer`, `getSymbolsAtToken`, `getDefinitionInfoAt`, `getDocReferences`, rename | the tokens that denote the symbol in any file, whatever was analysed before |
| `Cones`, `QuestionsProofs` | `ConeTracer.h`, `ReferenceIndexer.h` | duality: x drives y exactly if y is a load of x |
| `Positions`, `QuestionsProofs` | `Converters.cpp`, `SlangDoc::onChange`, `encodeSemanticTokens` | a client that counts lines and UTF-16 units over characters |
| `Completions`, `QuestionsProofs` | `CompletionDispatch`, `MemberCompletions`, `InstanceCompletions` | what the name resolves to; the shape of the text around the cursor |
| `Crawl` | `autoConfigure`, `getSuggestedIndexDirectories`, `getGitIgnoreMatches`, `collectFilesFromDirectory` | the files indexed before, and the cheapest of all covers |
| `Includes` | `parseShallowTree`, `getIncludeContexts`, `setIncludeContext`, include directories of `autoConfigure` | the search without the inferred directories; all occurrences of an include |
| `SemanticTokens` | `collectSemanticTokens`, `disabledRegions` | activity by counting directives; meaning by resolution |
| `Snippets` | `SnippetString.h`, `SystemTaskCompletions.cpp` | expansion as the editor does it |
| `Uri`, `QuestionsProofs` | `URI.cpp` | the file that the text names |
| `InlayHints` | `InlayHintCollector.cpp`, `SyntaxIndexer::visit` | the hints of the whole document that lie in the range |

### MC modules

`MCJsonRpc`, `MCDocSync`, `MCWorkspace`, `MCLint`, `MCIndexer` and `MCDesign` only name the constants of
the configurations: dependency and include relations, texts, designs, which files are watched.
`MCCompletions`, `MCIncludes`, `MCTokens`, `MCSnippets` and `MCHints` hold the inputs and the reference
definitions of the questions; each extends the one before, and `MCQueries` adds the rest and has the
next-state relation. No configuration replaces a definition.

## 3. What is checked

| Run | Module | Shows |
|---|---|---|
| `jsonrpc` | JsonRpc | three messages of every kind, cancellations and irregular input at every point of the two threads: registries are exact, a change is superseded exactly by a newer one, a cancelled request never starts, edits are never skipped, no wakeup is lost, the queue is drained before the exit, which happens, the abstract service is implemented (with liveness), and frames are whole but for those the code writes without the lock |
| `docsync_explore` | DocSync | edits of dependent documents, superseded at every checkpoint, refused edits, saves, requests, and files, a header among them, that change, vanish and come back on disk: buffers stay with the editor, lists reach the client, diagnostics catch up, what a report reloads is shown, and a save refreshes every dependent that no request has analysed |
| `docsync_design` | DocSync | with a build: a save shows one design everywhere, and it stays until an edit |
| `workspace_reload` | Workspace | commands, edits of the user's and the workspace's configuration, broken and missing build files, sources that cannot be read, and reports in every order: driver and selection agree, no report is lost, selection survives, a failed reload is retried until it succeeds |
| `lint_runs` | Lint | triggers against debounce, lookup and runs: no overlap, no orphaned diagnostic, a quiet linter has seen the last trigger, and it becomes quiet |
| `indexer` | Indexer | scans, saves, reports, reloads and drivers over three files: the maps are those of the entries, a cached answer is the one that would be computed, and once reports are handled lookups answer from the disk |
| `design` | Design | edits, saves, activations and searches over a design with interfaces, generate loops and a package: what was picked is shown, analyses follow the selection, the two traversals of the hierarchy agree, symbols are located in current texts |
| `wcp_session` | WcpClient | four messages of the viewer in any segments, three requests, a viewer that goes at any time: nothing is lost in packets, and an opened session is up or over in the end, or a signal has ended the server |
| `queries` | MCQueries | each question above against its reference definition |
| `lint_settings` | Lint | **violation**: settings changed during the lookup leave the old executable in use |
| `docsync_save` | DocSync | **violation**: a request on a dependent between the edit and the save of its dependency keeps the save from refreshing it |
| `hints_range` | MCQueries | **violation**: the hints of a part of a document lack those of a node that reaches into it, when a node inside that one has ended before |

Each property has a mutant in `PROJECT.json`: a variant of a definition (named `X_variant`, next to
`X`) with a plausible bug under which TLC finds the property violated.

Bounds. Each is a named constant.

- `JsonRpc`: three messages, so that a change can supersede one that is running while another request
  waits; two irregular inputs, four inputs in all (`MaxInputs`), so that one can meet three messages;
  two documents, to tell the keys of the registry apart.
- `DocSync`: `MaxSteps = 6` client actions and `MaxInbox = 3` are the fewest with which an edit can
  supersede one that superseded another, with a close and a reopening in the queue. Two texts are
  enough because properties compare texts only for equality. Two files give a dependency, three an
  included header.
- `Workspace`: `MaxSteps = 3` client actions suffice to break, repair and select; versions of a file
  wrap around two values, because only "the one on disk" matters.
- `Lint`: three user actions, for instance a save, a change of the settings during its lookup and
  another save during the rerun. One text with findings and one without.
- `Indexer`: three files of which two are headers and one is far away, three user actions: enough for a
  scan that started before a change and ends after its report.
- `Design`: five user actions; hierarchies of depth eight, with an interface passed down twice that has an
  instance and a loop of its own, an array of interfaces, a port of a modport, nested loops and a package.
- `WcpClient`: four events, so that two can wait in the buffer behind one that is being handled.
- `MCQueries`: texts of up to two characters over five classes of characters and five
  longer ones (`ClientContents`), four insertions, notifications of up to two changes and answers of up to
  two tokens (`MaxParts`); paths of up to three characters after the slash over eight, so that a name may look
  like an escape (`%25`), with every choice of what the client escapes; programs of two nested
  scopes and one package; five files; instantiations of three connections with calls in them. Longer inputs repeat the cases.

Deadlock is not checked where the client may stop (`DocSync`, `Workspace`, `Lint`, `Indexer`, `Design`,
`WcpClient`) and where a behaviour is one question (`MCQueries`); in `JsonRpc`
termination is a property of its own.

Fairness. `JsonRpc`: both threads keep running and handlers terminate (strong fairness, because a
handler may publish in between). `DocSync` and `Workspace`: the worker keeps handling messages, which
`Terminates` and `ImplementsService` of `JsonRpc` justify; in `Workspace` the client's watcher also
reports changes in the end, as LSP clients do. `Lint`: timers fire, lookups return, and a tool exits or
is killed after `LINT_TIMEOUT_MS`. `WcpClient`: the worker and the client thread keep running (weak
fairness); the viewer owes nothing. Nothing is assumed of the user or the client beyond that: it may
stop at any time.

### Disagreements met while modelling

The violation runs are the findings of `PROJECT.json`, each with the line it contradicts:

- `lint_settings`: `ExternalLinter.ts:147-148` says that changed settings are picked up;
- `docsync_save`: `docs/features/features.md:8` says that saving a dependency refreshes its dependents; a
  hover on the dependent between the edit and the save rebuilds its analysis without publishing it, and
  the save then skips it (`SavedRefreshes`). `SavedUnlessAsked`, which passes and is proved, is what the
  save does promise;
- `hints_range`: `InlayHintCollector.h:34` promises all hints in the range; the search back over nodes that
  begin before it stops at the first that ends before it, so a call inside an earlier connection hides the
  hints of the rest of the instantiation (`InRange`). All tests ask for the whole document.

The following behaviours are in the models, or were seen while reading, without a run of their own. A
property that they would violate states them as its exception, named here:

- `JsonRpcServer.h:217-218` says that callers of `notifyInternalError` hold `serverStateMutex`;
  `handleCancelRequest` calls `processMessage` on the reader without it, so a `$/cancelRequest` with
  unreadable params splits a frame, and so do the reader's refusals of malformed and late messages
  (`WellFramed` excepts the frames of the reader in `"errorBody"`);
- a document that was analysed while a file it depends on was missing counts as analysed when the file
  comes back, and a save of that file skips it (`NoText` in `SavedUnlessAsked`);
- `docs/features/features.md:6` says that the design's diagnostics come with each save; with a build, the
  watcher's report of the saved file replaces them by shallow ones on unedited documents, which
  `DesignKeptUntilEdited` therefore excepts (the run `docsync_design` has `Watched` files);
- `docs/start/config.md:15` says that the server watches all three configuration files; the user's
  `~/.slang/server.json` is not watched (`SlangServer.cpp:1363`), so that `CurrentUnlessPending` says of
  it only that it is as the server read it last (`Known`);
- the same line says that the build file is watched; one that was missing when the driver was made is not
  among the files it has read, and its creation reloads nothing (`SlangServer.cpp:1371`, `CommandFiles`;
  `CurrentUnlessPending` speaks of a build file that was read);
- `setTopLevel` on a file that cannot be read has stored the selection when `createFromTop` throws, and the
  old driver stays under the new selection (`SlangServer.cpp:410-414`; `~server.threw` in
  `ShownIsCurrent`);
- the tree shows the members of a package, and the search does not offer them (`handlePackage` gives an
  item without children); the search offers the members of an interface behind a port that is not
  connected, which come with their port, and the tree does not find them by their path (the two
  exceptions of `SearchAgreesWithTree`).

Seen in the question modules, whose properties state the exceptions where they meet them:

- `docs/features/features.md:187` says of positional arguments "Show the argument names"; the names of
  positional connections do not count an empty one, and those of positional parameters count the
  `localparam`s: what follows is labelled with its neighbour's name (`Connection`, `ParameterNames`; no
  property is about the names). Two named connections on one line end the hints of all later instances too;
- accepting the hint of a wildcard writes every port, also those connected beside it;
- a function call that begins with a parameterized class has the hints of the call only, because the map
  of nodes keeps the first node at an offset (`collectedHints`);
- imported members are sorted as members of the scope (`MemberCompletions.cpp:795`, `:813`), although
  `docs/features/features.md:93-96` and `CompletionDispatch.h:62-63` rank them after it;
- a module's name before `(` that is not an instantiation resolves to the snippet of an instance;
- an item that resolves to its label only is marked as a snippet with the label unescaped
  (`MemberCompletions.cpp:861`), and the names of subroutines with `$` are not escaped (`:507`);
- enum values are offered before a local of the same name; a shadowing member that the context filters
  out lets the outer one through; the search for an instance gives up after 500 tokens and then looks
  forward for any other;
- an index on the left of an assignment makes the whole assignment count as one that drives the indexing
  signal (`ConeTracer.h:99`), and labels of earlier items of a `case` count for the drivers of the later
  ones but not for the loads of the label (`OnlyIndexed` and `BehindLabel` are the exceptions);
- what a package imports by name is offered to those who import the package, exported or not
  (`MemberCompletions.cpp:771-775`); `Imported` counts it as exported;
- an import of one name (`import P::x`) is left out of the references of `x`;
- the text of a URI is kept decoded and sent as it is, so that paths with `%`, `?` or `#` do not come back
  from the client as they were;
- `LoadsTracer` follows the expression of an open port without asking for one (`ConeTracer.h:250`), where
  `DriversTracer` asks.

Seen in the other models:

- a linter switched off while its tool runs shows the diagnostics of that run until the next settings
  change (`ConfigUpdated`, then `ToolExits`, then a rerun that ends as `"off"`);
- `docs/features/features.md:43` says that linting runs "when you switch to another file while no
  top level is set"; the code deliberately does not (`LintManager.ts:58-61`, action `Focus`);
- `addDefine` restores a build file but neither a top level nor explore mode;
- a reload that is pending stays so when the user selects something else meanwhile;
- the text of a closed document stays in the source manager until its file is reported;
- a document's handler pushes every dirty list, also the parse-only one of another document;
- `setActiveInstance` changes selections before it finds that an interface port leads nowhere and returns
  an error (`halfSet`);
- an edit that turns an instance around the activated one into an instance of another module leaves that
  module's earlier selection in place, although the activated instance is still there
  (`syncActiveInstances`; `LeftInPlace` ends what was picked);
- a symbol none of whose enclosing modules is a top in the compilation of its own document, because the
  other modules that this compilation reads instantiate them all, is located in the text of the build and
  not in the edited one (`toShallowSymbol`; `ReachedFrom` is the exception);
- the socket's `accept` has no time limit and holds the server's mutex; a message to a viewer that has gone
  can end the process by SIGPIPE (`WcpClient.h:92`), and a session that ended is replaced by destroying a
  joinable thread, which ends it too (`accept`, `sendMessage`, `DestroySession`);
- a request for a method that is not registered is never answered (`JsonRpcServer.h:308`).

## 4. What is proved

The proofs hold for every value of the constants that satisfies the modules' assumptions
(`JsonRpcAssumption`, `LintAssumption`, `DocSyncAssumption`, `WorkspaceAssumption`, `WcpAssumption`,
`IndexerAssumption`, `DesignAssumption`, `ConesAssumption`, `CompletionsAssumption`), which only give the
constants their types and tell the special values apart: any number of files, messages, texts and steps. `ElaborationAssumption` of `Design` is about
the texts: hierarchies end before `Depth`, which is an arbitrary number, so that it cuts nothing off;
only loops have iterations, indices are no names of members, and ports and elements have an order. `ConesAssumption` says of a design what
slang's syntax tree and elaboration give: statements are built from statements, what a modport port
stands for stands for itself, and what is inside a module's port is a net or a variable. `MaxNesting` is
an arbitrary number there; both tracers go down to it. `CompletionsAssumption` gives programs their
shape: any number of scopes of the five kinds, members and packages; keywords are no identifiers, and the
library is finite. Where a theorem needs more, it says so as an `ASSUME` of its
own, and the reason is given below. Every strengthening was an invariant of a run before it was proved.

**JsonRpcProofs.** `TypeCorrect`; `ImplementsServiceSafety`, the safety part of the refinement;
`NoWakeupIsLost`; `FramesAreWhole`. The inductive invariant `ServiceInv` says that the queue holds
exactly the numbers after `cur`, that the result at hand fits the message, and that exactly the
requests left behind are answered; without it a step of the worker could answer a request twice.
`FramesAreWhole` (`WellFramed`) holds for every input: it needs that the worker, and the reader's catch
block, write only inside `serverStateMutex`; the reader's other frames are the property's exception.

On top of it: `ChangesAreSupersededExactly`, `CancelledRequestsNeverRun`,
`EditsAreNeverSkipped`. `ContextInv` gives the registries as functions of the messages: a context is
registered from its arrival until the worker has unregistered it (`ActiveExact`), the entry of a
document is the newest of its changes in flight (`PendingExact`), and what is cancelled was in flight
when it was (`CancelledExact`). `StartedExact` ties the place of the worker to the request it has
started, which is what the race between `$/cancelRequest` and `startRequest` is about, and
`NotificationsExact` says that exactly the notifications the worker has passed were handed over.

**LintProofs.** `TypeCorrect`, `RunsNeverOverlap`, `EveryDiagnosticIsTracked`, `NoTriggerIsLost`.
`QuietIsCurrent` says nothing while a run is in flight, so it is not inductive. `IInv` adds that a run
with no trigger waiting behind it is over the selected top file, and that what it has read is still
what is on disk. The two cases in which a run ends, with and without a rerun, are the lemma
`ReturnedIsGood`; the start of a run is `LintTargetIsGood`. A deletion is harmless because nothing is
claimed of a file that is gone (`DeleteKeeps`).

**DocSyncProofs.** `DocInv` is the conjunction of

- `Protocol` and `Chain`: the client's messages fit the state in which they will be handled, and the last
  message that carries text of a document carries the editor's text, with the base of each change the
  text before it. A message far back in the inbox has to be right now, or nothing could be said of the
  buffer when its turn comes;
- `Staged`: between the checkpoints of a change, the change at hand has been applied and is about an open
  document;
- `BuildLoaded`, and `PublishedUnlessDirty`: a list that the client does not have is marked.

`EditorKeepsDocument` (`EditorOwnsOpen`) follows from `Chain`. `DiagnosticsAlwaysCatchUp`
(`DiagnosticsCatchUp`) needs `CaughtUp`, which says the same of the server's own lists, and the lemma
`RefreshedOrKept`: a step either leaves the diagnostics of a document and what they were read from
alone, or ends with a complete analysis. `WatchedFilesAreShown`, `OneDesignAfterSave` and the action
property `DesignStaysShown` (`DesignKeptUntilEdited`) are about the step that handles a report, a save or
any message. `SaveRefreshesReaders` (`SavedUnlessAsked`) has no assumptions: requests and other programs
do what they like. `Fresh`: the list of an open document with an analysis is that of the buffers, but for an
analysis that a request made and for files that were missing; `SavedValid`: a save leaves every open
document with a valid analysis.

**WorkspaceProofs.** `Proper` says which drivers a server can have: of the selected build file or top
level or of neither, with the server's configuration. `SelectedDriverIsShown` (`ShownIsCurrent`) adds
`Selects`, that the selection is the driver's unless `setTopLevel` threw last. `NoReportIsLost`
(`CurrentUnlessPending`) rests on `StaleIsReported`: a watched configuration file, a build file that was
read or a closed source that the driver does not have as it is is pending, unseen by the watcher or in a
report on its way; and on `Closing`: if a document was opened with a text that is not on disk, its close
is followed by a report. `Outcome` says what a handler leaves: a reload is pending or everything has been
read, or nothing that was read has become older. Neither these nor `SelectionIsKept`
(`SelectionSurvives`) needs an assumption of its own.

**WcpProofs.** `NoMessageIsLost` (`NothingLostInPackets`): `WireInv` says that the bytes in the buffer and
on the wire encode the messages that were sent and not taken (`Encodes`), in the constructor and in the
thread, and what each of them holds while it takes one.

**IndexerProofs.** `IndexIsExact` (`MapsAreExact`): each operation of the index, from `replaceIncludes`
to `onWatchedFiles`, takes exact maps to exact maps (`Exact`) and is described by its effect on the
entries and on the cache (`RemoveExact`, `IndexPathExact`, ..., `OnWatchedFilesExact`); that a report
names its own files is part of the invariant. `LookupsAreCurrent` (`AnswersAreCurrent`) is about the
state in which all reports are handled, so the invariant has to say what is still to come in all others:
an entry that is not current belongs to a file that a scan under way will read, that is unseen or in a
report on its way, or that a reload passed over (`StaleIsAwaited`); the report of a save is behind the
save, whose entry may differ from what a scan reads (`SavesAreReported`); a file that a report calls
deleted is gone or is reported again behind it (`DeletedAreGone`); and a cached answer that is not the
one that would be computed is followed by something that drops the cache (`StaleIsDropped`).

**DesignProofs.** The algorithms of `Design` are recursive functions and folds, and TLAPS has no induction
over data that could be applied to them. The proofs go around it: `Inductive` derives induction over
numbers, for sets of numbers, from the least element of a set (`WFMin`); `Iterates` and `FoldExists`
show that the functions which a recursion or a `FoldLeft` chooses exist; what they compute is then bounded
by one induction each (`Levels` and `LookupSteps` for the hierarchy, `Reach` and `TreesUnlessEdited` for `getDependentTrees`,
`Elaboration` for `Elaborate`, `Endpoints` for the forwarding of interfaces, `FoldStays` and `FoldReaches`
for the selections). A design is a tree with nothing else in it (`Tree`, `Rooted`, `ElaborateTree`).
- `SearchShowsTree` (`SearchAgreesWithTree`): of every item that `collect` comes to, the path is looked up to
  the symbol that the item stands for (`Found`), or leads through a port that is not connected (`Dangling`),
  or is a package (`Pack`). `LookupSteps` and `LookupBelow` let a lookup go one name further; below a found
  item come the items that the tree shows at its path (`FoundBelow`), below a dangling one only dangling
  ones (`OpenBelow`), below a package none (`PackBelow`). `CollectAgrees` is the induction over the levels
  of `collect` (`Levels`), and has both directions. That the index is of the present design is the step of
  `refresh`.
- `AnalysesAreBound` (`AnalysesBoundToActive`): `Current` says that the design is the elaboration of the
  texts it was built from and that the active instances are `Selections` of it, which
  `setConnectedInterfaceInstances`, `setActiveInstanceChain` and `syncActiveInstances` preserve
  (`SelectsConnections`, `SelectsChain`, `SyncSelects`); `Bound`, that an analysis is the one that would
  be made now. An edit keeps the analyses of documents that do not read the edited one because it cannot
  change which documents they read (`TreesUnlessEdited`).
- `PickedStaysShown` (`PickedIsShown`) in two halves. After k steps of the chain every instance on the way
  that nothing up to k overrides is the active one of its module (`Reached`, `ReachesFurther`), so what is
  around the target is active (`PickedIsActive`). The iterations around it are the active ones of their
  loops (`SetsScopesAround`), and of the arrays that one loop of the text has below an instance, two
  differ first in an iteration of a loop around both (`ArraysPart`): all but one have an iteration around
  them that is not active, and `chooseGenerateArray` takes that one (`LoopIsShown`).
- `LocationsAreCurrent` (`LocationsFollowEdits`): what is below an instance in the elaboration of the
  current texts is below the module's name in a compilation that has this module as a root and reads the
  same texts (`BelowModule`).

**QuestionsProofs.** `Cones_Dual` (`ConesAreDual`): in every design, the loads of x are what x drives and the other way
round, but for indices of written elements and labels of earlier items. The two tracers go down the same
statements with different things in hand: the one for drivers carries the signals of all conditions on
the way, the one for loads only whether its root has been among them. `Simulated` relates any two such
descents: if the first visits are related and a related pair goes on to related pairs, then each visit of
the one has a related one of the other. It is used four times: an assignment that drives is one that is
reached, one that is reached has a visit of either tracer, and the conditions of a driving visit hold the
root exactly if it was found on the way of a loading one or is a label passed on that way. The rest is one
lemma each for processes and for ports, and that the containers asked for drivers and the ones asked for
loads are the same where it matters (`getDrivers`, `symbolToUses`). The levels of a descent are a
recursive function of a number, which `VisitLevels` shows to exist.

`Names_OfferWhatResolves` (`OffersWhatResolves`): in every document and at every cursor, a lexical answer
has exactly one item for a name that resolves to something there, made for what it resolves to, and none
for a name that does not. `addCompletions` is three folds inside each other, over scopes, over a scope's
wildcard imports and over members, all with one list and one set of names seen. `Settled(name, S)` are the
lists and sets that agree on S: the name is offered once for one of S and seen, or neither if S is empty.
`Pushes` says what one member does to such a list, and `Members`, `ImportsOne`, `ImportsAll` and
`ScopesAll` each say what their fold leaves: the list is settled for what was visible before, or, if that
was nothing, for what the fold's members declare (`Nearer`). What remains is that the definition by the
innermost scope is that choice made scope after scope (`NearStep`), that the list does not have the name
before the search starts (`Starts`), and that ranks and edits change neither label nor symbol
(`OffersKept`, `FinishOffers`). `FoldLeads` is the induction that every fold uses; `FoldExists` shows that
`FoldLeft` chooses a function at all.

The attempt to prove this corrected `Completions` twice: an explicit import in a block counts as declared
in its package, so it is offered wherever it stands, and the members of a class that come after the
cursor are left out like those of a block (`MemberCompletions.cpp:697-716`). The run now has such imports,
one from a package that does not exist.

`Positions_Agree` (`PositionsAgree`): after a notification with any number of changes of any text, the
buffer holds exactly the bytes of the client's text, and the answer for any tokens decodes to the tokens
that are inside a line and the range, at their lines and UTF-16 units. Both sides count along the text,
one in characters and the other in bytes, and each count is a recursive function. `PathExists` makes one
out of a step from a number to the next, `PlacesExist`, `BytesPath` and their like say what each count
does at every number, and `Sheet` puts them side by side for one text: the client's place, the byte
offset and the units at each character, and the line starts that the server has found up to each byte. From
the sheet follow `Positioned` and `Located`, that `toPosition` and `toSourceLocation` are inverse at every
place between two characters that is not inside a line ending. Then `AppliesRange` and `AppliesWhole` say that one change
takes the buffer of a text to that of the next text, `Leads` and `TokensLead` that folds of such steps get
where the steps get. The inductive invariant `PositionsInv` is that a notification has a history of texts,
each of whose buffers the next change takes to the next buffer (`Mirrored`), and that tokens are places
of their text (`Told`); the property alone is not inductive, since that the changes so far lead to the
buffer of the present text does not say what kind of changes they are. `PositionsAssumption` says that texts are
sequences of the five kinds of character, and that `None` is none of the values it stands beside. It is
the only assumption; `MaxParts` is arbitrary.

`Uri_NamesFile` (`UriNamesFile`): for every path and every choice of what a client escapes besides `%`, `?`
and `#`, the URI read from its text is the one that the server makes from the path, and has that path; and
what the server sends for a path without these three is read back as the same. `decode` and `Escape` are
recursive functions along a text. `EscapePath` and `DecodePath` give their values at every place, `Chunks`
says that what is escaped so far is what the whole begins with, and `DecodesEscape` walks both: where a
character of the path ends, the decoder has exactly the path so far and skips nothing. `EscapedPath` says that
the characters that end a path have gone and the first slash has not, from which `FileText` finds the parts
that the pattern of `URI::URI` takes (`StopsAt`). `UriAssumption` says that characters have different codes
of two hexadecimal digits, that the delimiters are characters which `encode` does not keep, but for the
slash, and that paths are absolute.

Two of the properties of `Design` were false in their earlier forms for some values of the constants, which the
instance of the run does not have; the attempts to prove them showed it. `Overridden`, `LeftInPlace` and
`ReachedFrom` state the exceptions, which the list of disagreements above describes.

Only model-checked:

- liveness under fairness, and `ENABLED`: `Terminates`, the liveness part of `ImplementsService`,
  `EditsReachDiagnostics`, `ReloadEventuallyApplies`, `SettlesDown`, `SessionSettles`;
- the other questions (`References`, `Crawl`, `Includes`, `SemanticTokens`, `Snippets`,
  `InlayHints`): `RECURSIVE` operators and recursion over texts and trees. No module with a theorem uses
  one of them. `KeepsSourceShape` of `Completions` is about the edits of all kinds of items and the
  answers to later requests; its exceptions are stated over the inputs of the run.

`TypeCorrect` of the proof modules and `RunsNeverOverlap` are proved and not part of a run.

## 5. Not modelled, and why

`PROJECT.json` lists every component with a reason. In short: hover texts, code actions, markdown and
the layout of code are strings put together from the syntax tree, which unit tests cover better; process
launch, logging and installation are I/O; LSP types and system task tables are generated; the outline of
a document is slang's tree as it is; `external/` is third party. The slang library itself is external: an
analysis is what it has read, an elaborated design is the unfolding of the bodies, and a lookup is the
search through the scopes that the language prescribes. Search scores of the hierarchy, arrays of
interface ports and modports chosen by a connection, and references
through macros, classes, modports and hierarchical names, are left out.

## 6. Plan

1. Done: `JsonRpc`, `RpcService`, `DocSync`, `Workspace`, `Lint`, `Indexer`, `Design`, `WcpClient` and the
   questions that only read; proofs of every safety property that a run checks of `JsonRpc`, `Lint`,
   `DocSync`, `Workspace`, `WcpClient`, `Indexer` and `Design`, of the cones, of the names that
   completion offers, of positions and of URIs.
2. `Project`: VS Code's compilation source against restarts of the server, composed with `Workspace`.
3. A composition of `JsonRpc`'s supersession with `DocSync`'s checkpoints, so that the stages of a
   change are driven by real contexts; the contexts of `Includes` in `DocSync`.
4. Proofs about more of the questions, along the lines of `QuestionsProofs`: their `RECURSIVE` operators
   have to become functions of a number first, and their inputs constants, as was done for `Positions`
   and `Uri` (`References` next).

## 7. Running

`tlc -config LintRuns.cfg MCLint` checks a run (the pairs are in `PROJECT.json`);
`tlapm LintProofs.tla` checks the proofs of a module, and so for the other `*Proofs` modules.
