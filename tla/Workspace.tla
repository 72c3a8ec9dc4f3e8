------------------------------ MODULE Workspace ------------------------------
(***************************************************************************)
(* The configuration of slang-server and the driver made from it:          *)
(* SlangServer's loadConfig, reload, setBuildFile, setTopLevel, addDefine  *)
(* and autoConfigure, Config::fromFiles and the creation of ServerDrivers. *)
(*                                                                         *)
(* Files are abstracted to versions.  A driver is abstracted to what it    *)
(* was made of: its kind, the configuration, and the versions it has read. *)
(* Messages wait in inbox; each is handled in one step, by the worker.     *)
(***************************************************************************)
EXTENDS Naturals, Sequences, FiniteSets

CONSTANTS Builds, Sources,
          Needs,       \* Needs[b]: the sources a build file lists
          Tops,        \* sources the client selects as top level
          Flags,       \* flags of configuration files
          BadFlags,    \* those that slang refuses
          Fragile,     \* build files and sources that can become unusable
          None, Missing, Broken,
          Written,     \* Written[l]: what is written to configuration file l
          Commands,    \* kinds of messages that the client sends
          MaxInbox,    \* bound: messages waiting
          MaxSteps     \* bound: actions of the client

Versions == {1, 2}
Settings == [build : Builds \cup {None}, flags : SUBSET Flags, incdirs : BOOLEAN]
AllLayers == {"workspace", "user", "local"}

ASSUME WorkspaceAssumption ==
    /\ Needs \in [Builds -> SUBSET Sources]
    /\ Tops \subseteq Sources /\ Fragile \subseteq Builds \cup Sources
    /\ BadFlags \subseteq Flags 
    /\ Written \in [AllLayers -> SUBSET (Settings \cup {Missing, Broken})]
    /\ None \notin Builds \cup Sources \cup Versions
    /\ Missing \notin Settings /\ Broken \notin Settings \cup {Missing}
    /\ MaxInbox \in Nat /\ MaxSteps \in Nat

VARIABLES
    conf,       \* the three server.json files
    disk,       \* versions of build files and sources; None: unusable, missing
    editor,     \* versions of the sources that the client has open
    unseen,     \* watched files changed since the last report
    inbox,      \* messages to the server
    server,     \* SlangServer, its driver, and what the client shows of it
    handled,    \* history: kind of the message handled last
    steps       \* actions of the client so far

vars == <<conf, disk, editor, unseen, inbox, server, handled, steps>>

-----------------------------------------------------------------------------
(* Config::fromFiles.                                                      *)

Present(c, l) == c[l] \notin {Missing, Broken}
Readable(c) == \A l \in AllLayers : c[l] # Broken
NoSettings == [build |-> None, flags |-> {}, incdirs |-> FALSE]
Of(c, l) == IF Present(c, l) THEN c[l] ELSE NoSettings

\* Later files override scalars, lists are appended; the flags are the
\* workspace's or else the user's, and the local ones.
fromFiles(c) ==
    LET w == Of(c, "workspace") u == Of(c, "user") x == Of(c, "local") IN
    [build   |-> IF x.build # None THEN x.build
                 ELSE IF u.build # None THEN u.build ELSE w.build,
     flags   |-> (IF w.flags # {} THEN w.flags ELSE u.flags) \cup x.flags,
     incdirs |-> w.incdirs \/ u.incdirs \/ x.incdirs]

-----------------------------------------------------------------------------
(* ServerDriver.  The handlers are functions of the server's state; s.driver*)
(* has the open documents of the client in s.open, with their versions.     *)

\* What parseAndLoadSources reads for a build file, the top level or nothing,
\* with the open documents copied over it.
ReadsOf(s, kind, file) ==
    LET F == IF kind = "build" THEN Needs[file]
             ELSE IF kind = "top" THEN {file} ELSE {}
    IN [f \in Sources |-> IF s.open[f] # None THEN s.open[f]
                          ELSE IF f \in F THEN disk[f] ELSE None]

\* parseAndLoadSources: its result.
Loads(cfg, kind, file) ==
    /\ cfg.flags \cap BadFlags = {}
    /\ kind = "build" => disk[file] # None /\ \A f \in Needs[file] : disk[f] # None

Driver(s, kind, file, cfg) ==
    [kind |-> kind, file |-> file, config |-> cfg, text |-> ReadsOf(s, kind, file),
     command |-> IF kind = "build" THEN disk[file] ELSE None,
     gen |-> s.driver.gen + 1]

\* The files a driver publishes diagnostics of.
Publishes(d) == {f \in Sources : d.text[f] # None}

\* Variant: the old driver's list is cleared when it is destroyed, last.
Replaced_late(s, d) ==
    [s EXCEPT !.driver = d, !.threw = FALSE, !.shown = [f \in Sources |-> 0]]
\* copyOpenDocumentsFrom clears the old driver's diagnostics first; the new
\* driver publishes, and the old one is destroyed with nothing left to clear.
Replaced(s, d) ==
    [s EXCEPT !.driver = d, !.threw = FALSE,
              !.shown = [f \in Sources |-> IF f \in Publishes(d) THEN d.gen ELSE 0]]

-----------------------------------------------------------------------------
(* SlangServer.                                                            *)

setExplore(s) ==
    Replaced([s EXCEPT !.buildfile = None, !.topFile = None],
             Driver(s, "explore", None, s.config))

setBuildFile(s, b) ==
    IF b = None THEN setExplore(s)
    ELSE Replaced([s EXCEPT !.buildfile = b, !.topFile = None],
                  Driver(s, "build", b, s.config))

\* A top level that cannot be read throws out of createFromTop: the selection was
\* made, the driver is still the old one, and both drivers' lists were cleared.
setTopLevel(s, t) ==
    LET chosen == [s EXCEPT !.buildfile = None, !.topFile = t] IN
    IF t = None THEN setExplore(s)
    ELSE IF disk[t] = None /\ s.open[t] = None
    THEN [chosen EXCEPT !.threw = TRUE, !.shown = [f \in Sources |-> 0]]
    ELSE Replaced(chosen, Driver(s, "top", t, s.config))

\* loadConfig: a reload keeps the selected build file.
Selected(s, cfg, strict) == IF strict /\ s.buildfile # None THEN s.buildfile ELSE cfg.build

\* loadConfig of the files c.  ok says whether it returned true; user is the user's file
\* as it was read last.
loadConfig(s, c, strict) ==
    LET cfg == fromFiles(c)
        file == Selected(s, cfg, strict)
        kind == IF file # None THEN "build" ELSE "explore"
    IN
    IF ~Readable(c) \/ (strict /\ ~Loads(cfg, kind, file))
    THEN [s EXCEPT !.ok = FALSE, !.user = c["user"]]
    ELSE Replaced([s EXCEPT !.ok = TRUE, !.config = cfg, !.user = c["user"],
                            !.buildfile = file, !.topFile = None, !.pending = FALSE],
                  Driver(s, kind, file, cfg))

\* Variant: a failed reload is not tried again.
reloadWatchedConfig_once(s) ==
    LET r == loadConfig(s, conf, TRUE) IN
    IF ~r.ok THEN r ELSE IF s.topFile # None THEN setTopLevel(r, s.topFile) ELSE r
reloadWatchedConfig(s) ==
    LET r == loadConfig(s, conf, TRUE) IN
    IF ~r.ok THEN [r EXCEPT !.pending = TRUE]
    ELSE IF s.topFile # None THEN setTopLevel(r, s.topFile) ELSE r

\* ServerDriver::onWorkspaceDidChangeWatchedFiles, for sources.
ReloadSources(s, F) ==
    [s EXCEPT !.driver.text = [f \in Sources |->
        IF f \in F /\ s.open[f] = None /\ @[f] # None /\ disk[f] # None THEN disk[f]
        ELSE @[f]]]

\* getCommandFileMetadata: the command files that the driver has read; one that could
\* not be read is not among them.
CommandFiles(d) == IF d.kind = "build" /\ d.command # None THEN {d.file} ELSE {}

\* FileWatchers::dispatch: configuration files first, then the build files that the
\* driver has read; either consumes the whole report.
dispatch(s, F) ==
    IF F \cap (AllLayers \cup CommandFiles(s.driver)) # {}
    THEN reloadWatchedConfig(s)
    ELSE ReloadSources(s, F \cap Sources)

\* Variant: a pending reload waits for a configuration file.
onWatchedFiles_dispatch(s, F) == dispatch(s, F)
\* onWorkspaceDidChangeWatchedFiles: a pending reload takes the report.
onWatchedFiles(s, F) == IF s.pending THEN reloadWatchedConfig(s) ELSE dispatch(s, F)

\* A document is opened: its text is the editor's.
openDocument(s, f, v) ==
    [s EXCEPT !.open[f] = v, !.driver.text[f] = v, !.shown[f] = s.driver.gen]

-----------------------------------------------------------------------------
Init ==
    /\ conf \in [AllLayers -> {Missing, Broken, NoSettings}
                              \cup {[NoSettings EXCEPT !.build = x] : x \in Builds}]
    /\ \A l \in AllLayers : conf[l] \in Written[l] \cup {Missing}
    /\ disk = [x \in Builds \cup Sources |-> 1]
    /\ editor = [f \in Sources |-> None]
    /\ unseen = {}
    /\ inbox = <<>>
    /\ LET cfg == IF Readable(conf) THEN fromFiles(conf) ELSE NoSettings
           kind == IF cfg.build # None THEN "build" ELSE "explore"
           blank == [config |-> cfg, user |-> conf["user"], buildfile |-> cfg.build,
                     topFile |-> None, pending |-> FALSE, threw |-> FALSE, open |-> [f \in Sources |-> None],
                     shown |-> [f \in Sources |-> 0], ok |-> TRUE,
                     driver |-> [gen |-> 0]]
       IN server = Replaced(blank, Driver(blank, kind, cfg.build, cfg))
    /\ handled = "none"
    /\ steps = 0

(* The client and the file system.                                         *)
Step == steps < MaxSteps /\ steps' = steps + 1
Send(m) ==
    /\ Step
    /\ m.kind \in Commands
    /\ Len(inbox) < MaxInbox
    /\ inbox' = Append(inbox, m)
    /\ UNCHANGED <<conf, disk, server, handled>>

\* registerFileWatchers: the workspace's two configuration files, build files
\* and sources; the user's configuration is outside the workspace.
WatchedLayers == {"workspace", "local"}

EditConfig(l, c) ==
    /\ Step
    /\ conf[l] # c
    /\ conf' = [conf EXCEPT ![l] = c]
    /\ unseen' = unseen \cup ({l} \cap WatchedLayers)
    /\ UNCHANGED <<disk, editor, inbox, server, handled>>

\* A build file or a source that no editor holds is written or made unusable.
EditFile(x, v) ==
    /\ Step
    /\ disk[x] # v
    /\ v = None => x \in Fragile
    /\ x \in Sources => editor[x] = None
    /\ disk' = [disk EXCEPT ![x] = v]
    /\ unseen' = unseen \cup {x}
    /\ UNCHANGED <<conf, editor, inbox, server, handled>>

ReportFiles ==
    /\ unseen # {}
    /\ Len(inbox) < MaxInbox
    /\ inbox' = Append(inbox, [kind |-> "watched", arg |-> unseen])
    /\ unseen' = {}
    /\ UNCHANGED <<conf, disk, editor, server, handled, steps>>

ClientOpens(f) ==
    /\ editor[f] = None /\ disk[f] # None
    /\ editor' = [editor EXCEPT ![f] = disk[f]]
    /\ Send([kind |-> "open", arg |-> f, version |-> disk[f]])
    /\ UNCHANGED unseen

ClientCloses(f) ==
    /\ editor[f] # None
    /\ editor' = [editor EXCEPT ![f] = None]
    /\ Send([kind |-> "close", arg |-> f])
    /\ UNCHANGED unseen

ClientCommands(k, a) ==
    /\ Send([kind |-> k, arg |-> a])
    /\ UNCHANGED <<editor, unseen>>

-----------------------------------------------------------------------------
(* The handlers.                                                           *)

Handling(k) == inbox # <<>> /\ Head(inbox).kind = k
Arg == Head(inbox).arg
\* The message is done, with the server in state s.
Done(s) ==
    /\ server' = [s EXCEPT !.ok = TRUE]
    /\ inbox' = Tail(inbox)
    /\ handled' = Head(inbox).kind
    /\ UNCHANGED <<disk, editor, steps>>
KeepFiles == UNCHANGED <<conf, unseen>>

HandleOpen == Handling("open") /\ Done(openDocument(server, Arg, Head(inbox).version)) /\ KeepFiles
HandleClose == Handling("close") /\ Done([server EXCEPT !.open[Arg] = None]) /\ KeepFiles
HandleSetBuildFile == Handling("setBuildFile") /\ Done(setBuildFile(server, Arg)) /\ KeepFiles
HandleSetTopLevel == Handling("setTopLevel") /\ Done(setTopLevel(server, Arg)) /\ KeepFiles
HandleWatched == Handling("watched") /\ Done(onWatchedFiles(server, Arg)) /\ KeepFiles

\* addDefine: the flag is written to the local file, over whatever could not be
\* read there; everything is loaded and the build file selected again.
addDefine ==
    /\ Handling("addDefine")
    /\ LET c == [conf EXCEPT !["local"] = [Of(conf, "local") EXCEPT !.flags = @ \cup {Arg}]]
           r == loadConfig(server, c, FALSE)
       IN /\ conf' = c
          /\ Done(IF server.buildfile # None THEN setBuildFile(r, server.buildfile) ELSE r)
    /\ unseen' = unseen \cup {"local"}

\* Variant: only the build file is selected again.
Restored_build(s, r) == IF s.buildfile # None THEN setBuildFile(r, s.buildfile) ELSE r
\* autoConfigure: what was selected is selected again.
Restored(s, r) ==
    LET b == IF s.buildfile # None THEN setBuildFile(r, s.buildfile) ELSE r IN
    IF s.topFile # None THEN setTopLevel(b, s.topFile) ELSE b

\* autoConfigure: nothing is written over a file that cannot be read, or when
\* nothing new was found.
autoConfigure ==
    /\ Handling("autoConfigure")
    /\ IF \/ conf["workspace"] = Broken
          \/ server.config.incdirs \/ Of(conf, "workspace").incdirs
       THEN Done(server) /\ KeepFiles
       ELSE LET c == [conf EXCEPT !["workspace"] =
                        [Of(conf, "workspace") EXCEPT !.incdirs = TRUE]]
            IN /\ conf' = c
               /\ unseen' = unseen \cup {"workspace"}
               /\ Done(Restored(server, loadConfig(server, c, FALSE)))

-----------------------------------------------------------------------------
Client ==
    \/ \E l \in AllLayers : \E c \in Written[l] : EditConfig(l, c)
    \/ \E x \in Builds \cup Sources, v \in Versions \cup {None} : EditFile(x, v)
    \/ \E f \in Sources : ClientOpens(f) \/ ClientCloses(f)
    \/ \E x \in Builds \cup {None} : ClientCommands("setBuildFile", x)
    \/ \E t \in Tops : ClientCommands("setTopLevel", t)
    \/ \E d \in Flags : ClientCommands("addDefine", d)
    \/ ClientCommands("autoConfigure", None)

Server ==
    \/ HandleOpen \/ HandleClose \/ HandleSetBuildFile \/ HandleSetTopLevel
    \/ HandleWatched \/ addDefine \/ autoConfigure

Next == Client \/ ReportFiles \/ Server

SafetySpec == Init /\ [][Next]_vars
\* The worker takes the next message: its handler, which every message has, is a step.
WorkerHandles == inbox # <<>> /\ inbox' = Tail(inbox)
Spec == SafetySpec /\ WF_inbox(WorkerHandles) /\ WF_vars(ReportFiles)
-----------------------------------------------------------------------------
(* Properties.                                                             *)

Contents == Versions \cup {None}
Watchable == WatchedLayers \cup Builds \cup Sources
Messages == [kind : {"watched"}, arg : SUBSET Watchable]
    \cup [kind : {"open"}, arg : Sources, version : Versions]
    \cup [kind : {"close"}, arg : Sources]
    \cup [kind : {"setBuildFile"}, arg : Builds \cup {None}]
    \cup [kind : {"setTopLevel"}, arg : Tops]
    \cup [kind : {"addDefine"}, arg : Flags]
    \cup [kind : {"autoConfigure"}, arg : {None}]
Drivers == [kind : {"explore", "build", "top"}, file : Builds \cup Sources \cup {None},
            config : Settings, text : [Sources -> Contents], command : Contents, gen : Nat]
Servers == [config : Settings, user : Settings \cup {Missing, Broken},
            buildfile : Builds \cup {None}, topFile : Tops \cup {None},
            pending : BOOLEAN, threw : BOOLEAN, open : [Sources -> Contents], shown : [Sources -> Nat],
            ok : BOOLEAN, driver : Drivers]

\* The state has its types, and the driver was made with the configuration of the
\* server.
TypeOK ==
    /\ conf \in [AllLayers -> Settings \cup {Missing, Broken}]
    /\ disk \in [Builds \cup Sources -> Contents]
    /\ editor \in [Sources -> Contents]
    /\ unseen \subseteq Watchable
    /\ inbox \in Seq(Messages) /\ Len(inbox) <= MaxInbox
    /\ server \in Servers /\ server.ok /\ server.driver.config = server.config
    /\ steps \in 0..MaxSteps

\* The driver is the one of the selection: whatever mixture of commands, reloads
\* and failures came before, at most one of m_buildfile and m_topFile is set, and
\* the driver was made for it.
SelectionIsDriver ==
    LET d == server.driver IN
    /\ server.buildfile # None => d.kind = "build" /\ d.file = server.buildfile
    /\ server.topFile # None => d.kind = "top" /\ d.file = server.topFile
    /\ server.buildfile = None /\ server.topFile = None => d.kind = "explore"

\* The client shows diagnostics of the current driver only: the old driver's lists are
\* gone and its destructor takes none of the new ones away (copyOpenDocumentsFrom,
\* ~ServerDriver).  The driver is the one of the selection and the client shows its
\* diagnostics of every open document, unless the last selection was of a top level
\* that could not be read: setTopLevel threw after it had stored it (threw), and only a
\* driver made later puts this right.
ShownIsCurrent ==
    /\ \A f \in Sources : server.shown[f] \in {0, server.driver.gen}
    /\ ~server.threw =>
        /\ SelectionIsDriver
        /\ \A f \in Sources : server.open[f] # None => server.shown[f] = server.driver.gen

\* The configuration files as far as the server can know them: no watcher looks at the
\* user's, which is known as it was when the server read it last.
Known == [conf EXCEPT !["user"] = server.user]

\* Once every change was reported and handled, and no reload is pending, the
\* driver has the configuration, and the build file and the closed sources that it
\* has read are those on disk: no report is lost to a failed reload or to the handler
\* that consumed it (FileWatchers::dispatch, m_configReloadPending).
CurrentUnlessPending ==
    LET d == server.driver IN
    inbox = <<>> /\ unseen = {} /\ ~server.pending =>
        /\ Readable(Known) => d.config = fromFiles(Known)
        /\ d.kind = "build" /\ None \notin {d.command, disk[d.file]} => d.command = disk[d.file]
        /\ \A f \in Sources :
             server.open[f] = None /\ None \notin {d.text[f], disk[f]} => d.text[f] = disk[f]

HandlesNow(kinds) ==
    inbox # <<>> /\ inbox' = Tail(inbox) /\ Head(inbox).kind \in kinds

\* A reload and auto-configure keep the build file or the top level that was
\* selected (reloadWatchedConfig, autoConfigure).
SelectionSurvives ==
    [][/\ HandlesNow({"watched", "autoConfigure"})
       /\ server.buildfile # None \/ server.topFile # None
       =>
            /\ server'.buildfile = server.buildfile
            /\ server'.topFile = server.topFile]_vars

\* Once the files rest and all of them can be loaded, they are loaded: a failed
\* reload is tried again until it succeeds, whichever file repaired it.
ReloadEventuallyApplies ==
    <>[](LET cfg == fromFiles(Known) IN
         /\ Readable(conf) /\ Readable(Known)
         /\ \A x \in Builds : Loads(cfg, "build", x)
         => server.driver.config = cfg /\ ~server.pending)
=============================================================================
