--------------------------- MODULE WorkspaceProofs ---------------------------
(***************************************************************************)
(* Theorems about Workspace, for every set of build files, sources,        *)
(* configuration files, flags and bounds.                                  *)
(***************************************************************************)
EXTENDS Workspace, SequenceTheorems, TLAPS

\* What holds of the server between two handlers and inside one: at most one of m_buildfile
\* and m_topFile is set, a driver for a build has a build file, and the driver has the text
\* of every open document.
Proper(s) ==
    /\ s \in Servers /\ s.driver.config = s.config
    /\ s.buildfile = None \/ s.topFile = None
    /\ s.driver.kind = "build" => s.driver.file \in Builds
    /\ \A f \in Sources : s.open[f] # None => s.driver.text[f] = s.open[f]

\* The driver is the one of the selection, and the client shows it: ShownIsCurrent of s.
Selects(s) ==
    /\ \A f \in Sources : s.shown[f] \in {0, s.driver.gen}
    /\ ~s.threw =>
        /\ s.buildfile # None => s.driver.kind = "build" /\ s.driver.file = s.buildfile
        /\ s.topFile # None => s.driver.kind = "top" /\ s.driver.file = s.topFile
        /\ s.buildfile = None /\ s.topFile = None => s.driver.kind = "explore"
        /\ \A f \in Sources : s.open[f] # None => s.shown[f] = s.driver.gen

\* What the driver has read is on disk.
StaleFile(s) == /\ s.driver.kind = "build" /\ None \notin {s.driver.command, disk[s.driver.file]}
                /\ s.driver.command # disk[s.driver.file]
StaleSource(s, f) == s.open[f] = None /\ None \notin {s.driver.text[f], disk[f]}
                     /\ s.driver.text[f] # disk[f]
UpToDate(s) == ~StaleFile(s) /\ \A f \in Sources : ~StaleSource(s, f)

\* The configuration files c as the server s can know them, and whether it has others.
KnownTo(c, s) == [c EXCEPT !["user"] = s.user]
StaleConfig(s, c) == Readable(KnownTo(c, s)) /\ s.config # fromFiles(KnownTo(c, s))

\* A report of x is on its way.
ReportsAt(i, x) == inbox[i].kind = "watched" /\ x \in inbox[i].arg
Reported(x) == x \in unseen \/ \E i \in 1..Len(inbox) : ReportsAt(i, x)

\* Everything that is stale is reported, unless a reload is pending.
StaleIsReported ==
    ~server.pending =>
        /\ StaleConfig(server, conf) => \E l \in WatchedLayers : Reported(l)
        /\ StaleFile(server) => Reported(server.driver.file)
        /\ \A f \in Sources : StaleSource(server, f) => Reported(f)

\* Message i of the inbox gives f the text v; 0 is what the server has open.
OpensAt(i, f, v) ==
    IF i = 0 THEN v = server.open[f] /\ v # None
    ELSE inbox[i].kind = "open" /\ inbox[i].arg = f /\ inbox[i].version = v
ClosesAt(k, f) == inbox[k].kind = "close" /\ inbox[k].arg = f

ClosedAfter(i, f) == \E k \in (i + 1)..Len(inbox) : ClosesAt(k, f)
ReportedAfter(i, f) ==
    \E k \in (i + 1)..Len(inbox) :
        ClosesAt(k, f) /\ (f \in unseen \/ \E j \in (k + 1)..Len(inbox) : ReportsAt(j, f))

\* A source that no editor holds is closed by a message on its way; and if it is not what
\* the editor had, a report comes after that message.
Closing ==
    \A i \in 0..Len(inbox), f \in Sources, v \in Versions : OpensAt(i, f, v) =>
        /\ editor[f] = None => ClosedAfter(i, f)
        /\ disk[f] \notin {None, v} => ReportedAfter(i, f)

-----------------------------------------------------------------------------
(* Configurations and drivers.                                             *)

LEMMA OfTypes ==
    ASSUME NEW c \in [AllLayers -> Settings \cup {Missing, Broken}], NEW l \in AllLayers
    PROVE  Of(c, l) \in Settings
<1>1. NoSettings \in Settings
    BY DEF NoSettings, Settings
<1>2. QED
    BY <1>1 DEF Of, Present

LEMMA FromFilesTypes ==
    ASSUME NEW c \in [AllLayers -> Settings \cup {Missing, Broken}]
    PROVE  fromFiles(c) \in Settings
<1>1. PICK w \in Settings, u \in Settings, x \in Settings :
         w = Of(c, "workspace") /\ u = Of(c, "user") /\ x = Of(c, "local")
    BY OfTypes DEF AllLayers
<1>2. fromFiles(c) =
        [build   |-> IF x.build # None THEN x.build
                     ELSE IF u.build # None THEN u.build ELSE w.build,
         flags   |-> (IF w.flags # {} THEN w.flags ELSE u.flags) \cup x.flags,
         incdirs |-> w.incdirs \/ u.incdirs \/ x.incdirs]
    BY <1>1 DEF fromFiles
<1>3. /\ w.build \in Builds \cup {None} /\ u.build \in Builds \cup {None}
      /\ x.build \in Builds \cup {None}
      /\ w.flags \in SUBSET Flags /\ u.flags \in SUBSET Flags /\ x.flags \in SUBSET Flags
      /\ w.incdirs \in BOOLEAN /\ u.incdirs \in BOOLEAN /\ x.incdirs \in BOOLEAN
    BY <1>1 DEF Settings
<1>4. PICK b \in Builds \cup {None}, F \in SUBSET Flags, i \in BOOLEAN :
        fromFiles(c) = [build |-> b, flags |-> F, incdirs |-> i]
    BY <1>2, <1>3
<1>5. QED
    BY <1>4 DEF Settings

DiskTypes == disk \in [Builds \cup Sources -> Contents]

\* A new driver has read the open documents from the editor and the others from disk.
LEMMA DriverFields ==
    ASSUME DiskTypes, NEW s, s.open \in [Sources -> Contents], s.driver.gen \in Nat,
           NEW kind \in {"explore", "build", "top"}, NEW file, NEW cfg \in Settings,
           kind = "build" => file \in Builds, kind = "top" => file \in Tops,
           kind = "explore" => file = None
    PROVE  LET d == Driver(s, kind, file, cfg) IN
           /\ d \in Drivers /\ d.kind = kind /\ d.file = file /\ d.config = cfg
           /\ d.gen = s.driver.gen + 1
           /\ kind = "build" => d.command = disk[file]
           /\ \A f \in Sources : /\ s.open[f] # None => d.text[f] = s.open[f]
                                 /\ s.open[f] = None => d.text[f] \in {None, disk[f]}
<1>1. /\ \A f \in Sources : /\ ReadsOf(s, kind, file)[f] \in Contents
                            /\ s.open[f] # None => ReadsOf(s, kind, file)[f] = s.open[f]
                            /\ s.open[f] = None => ReadsOf(s, kind, file)[f] \in {None, disk[f]}
      /\ ReadsOf(s, kind, file) \in [Sources -> Contents]
    BY DEF ReadsOf, DiskTypes, Contents
<1>2. file \in Builds \cup Sources \cup {None}
    BY WorkspaceAssumption
<1>3. PICK t \in [Sources -> Contents] : t = ReadsOf(s, kind, file)
    BY <1>1
<1>4. PICK x \in Contents : x = IF kind = "build" THEN disk[file] ELSE None
    BY DEF DiskTypes, Contents
<1>5. PICK n \in Nat : n = s.driver.gen + 1
    OBVIOUS
<1>6. Driver(s, kind, file, cfg) = [kind |-> kind, file |-> file, config |-> cfg, text |-> t,
                                    command |-> x, gen |-> n]
    BY <1>3, <1>4, <1>5 DEF Driver
<1>7. [kind |-> kind, file |-> file, config |-> cfg, text |-> t, command |-> x, gen |-> n]
        \in Drivers
    BY <1>2 DEF Drivers
<1>8. QED
    BY <1>1, <1>3, <1>4, <1>5, <1>6, <1>7

\* A server whose driver is replaced: the client shows what the new driver publishes.
LEMMA ReplacedFields ==
    ASSUME NEW s \in Servers, NEW d \in Drivers
    PROVE  LET r == Replaced(s, d) IN
           /\ r \in Servers /\ r.driver = d
           /\ r.config = s.config /\ r.buildfile = s.buildfile /\ r.topFile = s.topFile
           /\ r.pending = s.pending /\ r.open = s.open /\ r.ok = s.ok /\ r.user = s.user
           /\ \A f \in Sources : /\ r.shown[f] \in {0, d.gen}
                                 /\ d.text[f] # None => r.shown[f] = d.gen
<1>1. d.gen \in Nat
    BY DEF Drivers
<1>2. PICK h \in [Sources -> Nat] :
        h = [f \in Sources |-> IF f \in Publishes(d) THEN d.gen ELSE 0]
    BY <1>1
<1>3. Replaced(s, d) = [s EXCEPT !.driver = d, !.threw = FALSE, !.shown = h]
    BY <1>2 DEF Replaced
<1>4. \A f \in Sources : /\ h[f] \in {0, d.gen}
                         /\ d.text[f] # None => h[f] = d.gen
    BY <1>2 DEF Publishes
<1>5. QED
    BY <1>3, <1>4 DEF Servers

\* A driver is made for the selection b and t of s, with the configuration of s.
Remade(s, r, b, t) ==
    /\ Proper(r) /\ UpToDate(r) /\ Selects(r)
    /\ r.buildfile = b /\ r.topFile = t
    /\ r.open = s.open /\ r.ok = s.ok /\ r.pending = s.pending /\ r.config = s.config
    /\ r.user = s.user

LEMMA DriverRemade ==
    ASSUME DiskTypes, NEW s \in Servers, NEW kind \in {"explore", "build", "top"}, NEW file,
           kind = "build" => file \in Builds /\ s.buildfile = file /\ s.topFile = None,
           kind = "top" => file \in Tops /\ s.topFile = file /\ s.buildfile = None,
           kind = "explore" => file = None /\ s.buildfile = None /\ s.topFile = None,
           NEW s0, s0.open = s.open, s0.driver = s.driver
    PROVE  Remade(s, Replaced(s, Driver(s0, kind, file, s.config)), s.buildfile, s.topFile)
<1>1. s.config \in Settings /\ s.open \in [Sources -> Contents] /\ s.driver.gen \in Nat
    BY DEF Servers, Drivers
<1>2. PICK d : d = Driver(s0, kind, file, s.config)
    OBVIOUS
<1>3. /\ d \in Drivers /\ d.kind = kind /\ d.file = file /\ d.config = s.config
      /\ kind = "build" => d.command = disk[file]
      /\ \A f \in Sources : /\ s.open[f] # None => d.text[f] = s.open[f]
                            /\ s.open[f] = None => d.text[f] \in {None, disk[f]}
    BY <1>1, <1>2, DriverFields
<1>4. PICK r : r = Replaced(s, d)
    OBVIOUS
<1>5. /\ r \in Servers /\ r.driver = d
      /\ r.config = s.config /\ r.buildfile = s.buildfile /\ r.topFile = s.topFile
      /\ r.pending = s.pending /\ r.open = s.open /\ r.ok = s.ok /\ r.user = s.user
      /\ \A f \in Sources : /\ r.shown[f] \in {0, d.gen}
                            /\ d.text[f] # None => r.shown[f] = d.gen
    BY <1>3, <1>4, ReplacedFields
<1>6. None \notin Builds /\ None \notin Tops
    BY WorkspaceAssumption
<1>7. Proper(r)
    BY <1>3, <1>5, <1>6 DEF Proper
<1>8. UpToDate(r)
    BY <1>3, <1>5 DEF UpToDate, StaleFile, StaleSource
<1>9. Selects(r)
    BY <1>3, <1>5, <1>6 DEF Selects
<1>10. QED
    BY <1>2, <1>4, <1>5, <1>7, <1>8, <1>9 DEF Remade

LEMMA SetExplore ==
    ASSUME DiskTypes, NEW s \in Servers
    PROVE  Remade(s, setExplore(s), None, None)
<1>1. PICK u : u = [s EXCEPT !.buildfile = None, !.topFile = None]
    OBVIOUS
<1>2. /\ u \in Servers /\ u.buildfile = None /\ u.topFile = None /\ u.config = s.config
      /\ u.open = s.open /\ u.driver = s.driver /\ u.ok = s.ok /\ u.pending = s.pending
      /\ u.user = s.user
    BY <1>1 DEF Servers
<1>3. setExplore(s) = Replaced(u, Driver(s, "explore", None, u.config))
    BY <1>1, <1>2 DEF setExplore
<1>4. Remade(u, Replaced(u, Driver(s, "explore", None, u.config)), u.buildfile, u.topFile)
    BY <1>2, DriverRemade
<1>5. QED
    BY <1>2, <1>3, <1>4 DEF Remade

LEMMA SetBuildFile ==
    ASSUME DiskTypes, NEW s \in Servers, NEW b \in Builds \cup {None}
    PROVE  Remade(s, setBuildFile(s, b), b, None)
<1>1. CASE b = None
    BY <1>1, SetExplore DEF setBuildFile
<1>2. CASE b # None
  <2>1. PICK u : u = [s EXCEPT !.buildfile = b, !.topFile = None]
      OBVIOUS
  <2>2. /\ u \in Servers /\ u.buildfile = b /\ u.topFile = None /\ u.config = s.config
        /\ u.open = s.open /\ u.driver = s.driver /\ u.ok = s.ok /\ u.pending = s.pending
        /\ u.user = s.user
      BY <2>1 DEF Servers
  <2>3. setBuildFile(s, b) = Replaced(u, Driver(s, "build", b, u.config))
      BY <1>2, <2>1, <2>2 DEF setBuildFile
  <2>4. Remade(u, Replaced(u, Driver(s, "build", b, u.config)), u.buildfile, u.topFile)
      BY <1>2, <2>2, DriverRemade
  <2>5. QED
      BY <2>2, <2>3, <2>4 DEF Remade
<1>3. QED
    BY <1>1, <1>2

\* r has read everything that s has read.
NoStaler(s, r) ==
    /\ StaleFile(r) => StaleFile(s) /\ r.driver.file = s.driver.file
    /\ \A f \in Sources : StaleSource(r, f) => StaleSource(s, f)

\* A top level that cannot be read leaves the old driver.
LEMMA SetTopLevel ==
    ASSUME DiskTypes, NEW s, Proper(s), NEW t \in Tops
    PROVE  LET r == setTopLevel(s, t) IN
           /\ Proper(r) /\ NoStaler(s, r) /\ Selects(r)
           /\ UpToDate(s) => UpToDate(r)
           /\ r.buildfile = None /\ r.topFile = t /\ r.user = s.user
           /\ r.open = s.open /\ r.ok = s.ok /\ r.pending = s.pending /\ r.config = s.config
<1>1. t # None /\ t \in Sources /\ s \in Servers
    BY WorkspaceAssumption DEF Proper
<1>2. PICK u : u = [s EXCEPT !.buildfile = None, !.topFile = t]
    OBVIOUS
<1>3. /\ u \in Servers /\ u.buildfile = None /\ u.topFile = t /\ u.config = s.config
      /\ u.open = s.open /\ u.driver = s.driver /\ u.ok = s.ok /\ u.pending = s.pending
      /\ u.user = s.user
    BY <1>1, <1>2 DEF Servers
<1>4. CASE disk[t] = None /\ s.open[t] = None
  <2>1. PICK h \in [Sources -> Nat] : h = [f \in Sources |-> 0]
      OBVIOUS
  <2>2. setTopLevel(s, t) = [u EXCEPT !.threw = TRUE, !.shown = h]
      BY <1>1, <1>2, <1>4, <2>1 DEF setTopLevel
  <2>3. PICK r : r = [u EXCEPT !.threw = TRUE, !.shown = h]
      OBVIOUS
  <2>4. /\ r \in Servers /\ r.buildfile = None /\ r.topFile = t /\ r.config = s.config
        /\ r.open = s.open /\ r.driver = s.driver /\ r.ok = s.ok /\ r.pending = s.pending
        /\ r.user = s.user /\ r.threw = TRUE /\ r.shown = h
      BY <1>3, <2>3 DEF Servers
  <2>5. Proper(r) /\ NoStaler(s, r) /\ (UpToDate(s) => UpToDate(r)) /\ Selects(r)
      BY <2>1, <2>4 DEF Proper, NoStaler, UpToDate, StaleFile, StaleSource, Selects
  <2>6. QED
      BY <2>2, <2>3, <2>4, <2>5
<1>5. CASE ~(disk[t] = None /\ s.open[t] = None)
  <2>1. setTopLevel(s, t) = Replaced(u, Driver(s, "top", t, u.config))
      BY <1>1, <1>2, <1>3, <1>5 DEF setTopLevel
  <2>2. Remade(u, Replaced(u, Driver(s, "top", t, u.config)), u.buildfile, u.topFile)
      BY <1>3, DriverRemade
  <2>3. QED
      BY <1>3, <2>1, <2>2 DEF Remade, NoStaler, UpToDate
<1>6. QED
    BY <1>4, <1>5

ConfTypes(c) == c \in [AllLayers -> Settings \cup {Missing, Broken}]

\* A load that fails leaves the server as it was, but for the user's file that was read.
AfterFailedLoad(s, c) == [s EXCEPT !.ok = FALSE, !.user = c["user"]]

LEMMA LoadConfig ==
    ASSUME DiskTypes, NEW s \in Servers, NEW c, ConfTypes(c), NEW strict \in BOOLEAN
    PROVE  LET r == loadConfig(s, c, strict) IN
           /\ r.ok => /\ Proper(r) /\ UpToDate(r) /\ Selects(r)
                      /\ ~r.pending /\ r.config = fromFiles(c) /\ r.open = s.open
                      /\ r.topFile = None /\ r.buildfile = Selected(s, fromFiles(c), strict)
                      /\ r.user = c["user"]
           /\ ~r.ok => r = AfterFailedLoad(s, c)
           /\ ~strict => (r.ok <=> Readable(c))
<1> DEFINE r == loadConfig(s, c, strict)
<1>1. PICK cfg \in Settings : cfg = fromFiles(c)
    BY FromFilesTypes DEF ConfTypes
<1>2. PICK file \in Builds \cup {None} : file = Selected(s, cfg, strict)
    BY <1>1 DEF Selected, Settings, Servers
<1>3. PICK kind \in {"explore", "build"} : kind = IF file # None THEN "build" ELSE "explore"
    OBVIOUS
<1>4. CASE ~Readable(c) \/ (strict /\ ~Loads(cfg, kind, file))
  <2>1. r = [s EXCEPT !.ok = FALSE, !.user = c["user"]]
      BY <1>1, <1>2, <1>3, <1>4 DEF loadConfig
  <2>2. ~r.ok
      BY <2>1 DEF Servers
  <2>3. QED
      BY <1>4, <2>1, <2>2 DEF AfterFailedLoad
<1>5. CASE Readable(c) /\ ~(strict /\ ~Loads(cfg, kind, file))
  <2>1. PICK u : u = [s EXCEPT !.ok = TRUE, !.config = cfg, !.user = c["user"],
                               !.buildfile = file, !.topFile = None, !.pending = FALSE]
      OBVIOUS
  <2>2. /\ u \in Servers /\ u.buildfile = file /\ u.topFile = None /\ u.config = cfg
        /\ u.open = s.open /\ u.driver = s.driver /\ u.ok = TRUE /\ u.pending = FALSE
        /\ u.user = c["user"]
      BY <2>1 DEF Servers, ConfTypes, AllLayers
  <2>3. r = Replaced(u, Driver(s, kind, file, u.config))
      BY <1>1, <1>2, <1>3, <1>5, <2>1, <2>2 DEF loadConfig
  <2>4. Remade(u, Replaced(u, Driver(s, kind, file, u.config)), u.buildfile, u.topFile)
      BY <1>3, <2>2, DriverRemade
  <2>5. QED
      BY <1>1, <1>2, <1>5, <2>2, <2>3, <2>4 DEF Remade
<1>6. QED
    BY <1>4, <1>5

-----------------------------------------------------------------------------
(* What a handler makes of the server.                                     *)

\* After a handler, with configuration files c: a reload is pending, or the driver is up to
\* date and has these configuration files; or it has read everything that it had read before,
\* and there are no other configuration files that could be read.
Reloaded(r, c) == r.pending \/ (UpToDate(r) /\ ~StaleConfig(r, c))
Outcome(s, r, c) ==
    \/ Reloaded(r, c)
    \/ /\ ~s.pending /\ r.config = s.config /\ NoStaler(s, r)
       /\ \/ c = conf /\ r.user = s.user
          \/ ~Readable(KnownTo(c, r))

\* Files that have just been read are known.
LEMMA JustRead ==
    ASSUME NEW c, ConfTypes(c), NEW r, r.user = c["user"]
    PROVE  KnownTo(c, r) = c
    BY DEF ConfTypes, KnownTo

\* The server may forget whether its last load succeeded.
LEMMA OkFields ==
    ASSUME NEW s, Proper(s), NEW b \in BOOLEAN
    PROVE  LET r == [s EXCEPT !.ok = b] IN
           /\ Proper(r) /\ r.ok = b /\ r.config = s.config /\ r.buildfile = s.buildfile
           /\ r.topFile = s.topFile /\ r.pending = s.pending /\ r.open = s.open
           /\ r.shown = s.shown /\ r.driver = s.driver /\ r.user = s.user
           /\ (Selects(s) => Selects(r)) /\ NoStaler(s, r) /\ (UpToDate(s) => UpToDate(r))
<1>1. PICK r : r = [s EXCEPT !.ok = b]
    OBVIOUS
<1>2. /\ r \in Servers /\ r.ok = b /\ r.config = s.config /\ r.buildfile = s.buildfile
      /\ r.topFile = s.topFile /\ r.pending = s.pending /\ r.open = s.open
      /\ r.shown = s.shown /\ r.driver = s.driver /\ r.user = s.user /\ r.threw = s.threw
    BY <1>1 DEF Servers, Proper
<1>3. /\ Proper(r)
      /\ (Selects(s) => Selects(r)) /\ NoStaler(s, r) /\ (UpToDate(s) => UpToDate(r))
    BY <1>2 DEF Proper, Selects, NoStaler, UpToDate, StaleFile, StaleSource
<1>4. QED
    BY <1>1, <1>2, <1>3

LEMMA FailedLoad ==
    ASSUME NEW s, Proper(s), NEW c, ConfTypes(c), NEW r, r = AfterFailedLoad(s, c)
    PROVE  /\ Proper(r) /\ r.config = s.config /\ r.buildfile = s.buildfile
           /\ r.topFile = s.topFile /\ r.pending = s.pending /\ r.open = s.open
           /\ r.user = c["user"]
           /\ (Selects(s) => Selects(r)) /\ NoStaler(s, r) /\ (UpToDate(s) => UpToDate(r))
<1>1. /\ r \in Servers /\ r.config = s.config /\ r.buildfile = s.buildfile
      /\ r.topFile = s.topFile /\ r.pending = s.pending /\ r.open = s.open
      /\ r.shown = s.shown /\ r.driver = s.driver /\ r.threw = s.threw /\ r.user = c["user"]
    BY DEF Servers, Proper, ConfTypes, AllLayers, AfterFailedLoad
<1>2. /\ Proper(r)
      /\ (Selects(s) => Selects(r)) /\ NoStaler(s, r) /\ (UpToDate(s) => UpToDate(r))
    BY <1>1 DEF Proper, Selects, NoStaler, UpToDate, StaleFile, StaleSource
<1>3. QED
    BY <1>1, <1>2

\* What the handlers that replace the driver do to a server s: r keeps the open documents,
\* and the selection if there was one and keeps says so.
Result(s, r, c, keeps) ==
    /\ Proper(r) /\ Outcome(s, r, c) /\ r.open = s.open
    /\ Selects(s) => Selects(r)
    /\ keeps /\ (s.buildfile # None \/ s.topFile # None) =>
         r.buildfile = s.buildfile /\ r.topFile = s.topFile

LEMMA ReloadResult ==
    ASSUME DiskTypes, ConfTypes(conf), NEW s, Proper(s), s.ok
    PROVE  /\ Result(s, reloadWatchedConfig(s), conf, TRUE)
           /\ Reloaded(reloadWatchedConfig(s), conf)
<1>1. PICK r : r = loadConfig(s, conf, TRUE)
    OBVIOUS
<1>2. /\ r.ok => /\ Proper(r) /\ UpToDate(r) /\ Selects(r)
                 /\ ~r.pending /\ r.config = fromFiles(conf) /\ r.open = s.open
                 /\ r.topFile = None /\ r.buildfile = Selected(s, fromFiles(conf), TRUE)
                 /\ KnownTo(conf, r) = conf /\ r.user = conf["user"]
      /\ ~r.ok => r = AfterFailedLoad(s, conf)
  <2>1. s \in Servers /\ TRUE \in BOOLEAN
      BY DEF Proper
  <2>2. QED
    <3>1. LET r0 == loadConfig(s, conf, TRUE) IN
          /\ r0.ok => /\ Proper(r0) /\ UpToDate(r0) /\ Selects(r0)
                      /\ ~r0.pending /\ r0.config = fromFiles(conf) /\ r0.open = s.open
                      /\ r0.topFile = None /\ r0.buildfile = Selected(s, fromFiles(conf), TRUE)
                      /\ r0.user = conf["user"]
          /\ ~r0.ok => r0 = AfterFailedLoad(s, conf)
        BY <2>1, LoadConfig
    <3>2. r.user = conf["user"] => KnownTo(conf, r) = conf
        BY JustRead
    <3>3. QED
        BY <1>1, <3>1, <3>2
<1>3. CASE ~r.ok
  <2>1. PICK q : q = [r EXCEPT !.pending = TRUE]
      OBVIOUS
  <2>2. reloadWatchedConfig(s) = q
      BY <1>1, <1>3, <2>1 DEF reloadWatchedConfig
  <2>3. /\ q \in Servers /\ q.pending /\ q.config = s.config /\ q.buildfile = s.buildfile
        /\ q.topFile = s.topFile /\ q.open = s.open /\ q.shown = s.shown /\ q.driver = s.driver
        /\ q.threw = s.threw
      BY <1>2, <1>3, <2>1 DEF Proper, Servers, ConfTypes, AllLayers, AfterFailedLoad
  <2>4. Proper(q) /\ (Selects(s) => Selects(q))
      BY <2>3 DEF Proper, Selects
  <2>5. QED
      BY <2>2, <2>3, <2>4 DEF Result, Outcome, Reloaded
<1>4. CASE r.ok /\ s.topFile = None
  <2>1. reloadWatchedConfig(s) = r
      BY <1>1, <1>4 DEF reloadWatchedConfig
  <2>2. QED
      BY <1>2, <1>4, <2>1 DEF Result, Outcome, Reloaded, Selected, StaleConfig
<1>5. CASE r.ok /\ s.topFile # None
  <2>1. s.topFile \in Tops /\ s.buildfile = None
      BY <1>5 DEF Proper, Servers
  <2>2. PICK t \in Tops : t = s.topFile
      BY <2>1
  <2>3. PICK q : q = setTopLevel(r, t)
      OBVIOUS
  <2>4. reloadWatchedConfig(s) = q
      BY <1>1, <1>5, <2>2, <2>3 DEF reloadWatchedConfig
  <2>5. /\ Proper(q) /\ Selects(q) /\ UpToDate(q)
        /\ q.buildfile = None /\ q.topFile = t /\ q.open = r.open /\ q.config = r.config
        /\ KnownTo(conf, q) = conf
      BY <1>2, <1>5, <2>3, SetTopLevel, JustRead
  <2>6. QED
      BY <1>2, <1>5, <2>1, <2>2, <2>4, <2>5 DEF Result, Outcome, Reloaded, StaleConfig
<1>6. QED
    BY <1>3, <1>4, <1>5

\* A selection that is made by the client.
LEMMA SelectResult ==
    ASSUME DiskTypes, NEW s, Proper(s), NEW r, NEW b, NEW t,
           Remade(s, r, b, t)
    PROVE  Result(s, r, conf, FALSE)
    BY DEF Remade, Result, Outcome, Reloaded, NoStaler, UpToDate

\* autoConfigure and addDefine: the configuration is loaded, and the build file selected again.
Reselected(s, r) == IF s.buildfile # None THEN setBuildFile(r, s.buildfile) ELSE r

LEMMA LoadResult ==
    ASSUME DiskTypes, NEW c, ConfTypes(c), NEW s, Proper(s), s.ok
    PROVE  LET q == Reselected(s, loadConfig(s, c, FALSE)) IN
           /\ Result(s, q, c, FALSE)
           /\ s.buildfile # None => q.buildfile = s.buildfile /\ q.topFile = s.topFile
<1> DEFINE r == loadConfig(s, c, FALSE)
           q == Reselected(s, r)
<1>1. s \in Servers /\ s.buildfile \in Builds \cup {None}
    BY DEF Proper, Servers
<1>2. /\ r.ok => /\ Proper(r) /\ UpToDate(r) /\ Selects(r)
                 /\ ~r.pending /\ r.config = fromFiles(c) /\ r.open = s.open
                 /\ r.topFile = None /\ r.user = c["user"]
      /\ ~r.ok => r = AfterFailedLoad(s, c)
      /\ r.ok <=> Readable(c)
    BY <1>1, LoadConfig
<1>3. ~r.ok => /\ Proper(r) /\ r.config = s.config /\ r.buildfile = s.buildfile
               /\ r.topFile = s.topFile /\ r.pending = s.pending /\ r.open = s.open
               /\ (Selects(s) => Selects(r)) /\ NoStaler(s, r) /\ (UpToDate(s) => UpToDate(r))
               /\ r.user = c["user"]
  <2> HIDE DEF r
  <2>1. SUFFICES ASSUME r = AfterFailedLoad(s, c)
                 PROVE  /\ Proper(r) /\ r.config = s.config /\ r.buildfile = s.buildfile
                        /\ r.topFile = s.topFile /\ r.pending = s.pending /\ r.open = s.open
                        /\ r.user = c["user"]
                        /\ (Selects(s) => Selects(r)) /\ NoStaler(s, r)
                        /\ (UpToDate(s) => UpToDate(r))
      BY <1>2
  <2>2. QED
      BY <2>1, FailedLoad
<1>4. /\ s.buildfile = None => q = r
      /\ s.buildfile # None => q = setBuildFile(r, s.buildfile)
    BY DEF Reselected
<1> SUFFICES /\ Result(s, q, c, FALSE)
             /\ s.buildfile # None => q.buildfile = s.buildfile /\ q.topFile = s.topFile
    OBVIOUS
<1> HIDE DEF r, q
<1>5. CASE s.buildfile = None
  <2>1. q = r
      BY <1>4, <1>5
  <2>2. KnownTo(c, q) = c
      BY <1>2, <1>3, <2>1, JustRead
  <2>3. CASE r.ok
      BY <1>2, <1>5, <2>1, <2>2, <2>3 DEF Result, Outcome, Reloaded, StaleConfig
  <2>4. CASE ~r.ok
      BY <1>2, <1>3, <1>5, <2>1, <2>2, <2>4 DEF Result, Outcome, Reloaded
  <2>5. QED
      BY <2>3, <2>4
<1>6. CASE s.buildfile # None
  <2>1. r \in Servers
      BY <1>2, <1>3 DEF Proper
  <2>2. q = setBuildFile(r, s.buildfile) /\ s.topFile = None
      BY <1>4, <1>6 DEF Proper
  <2>3. Remade(r, q, s.buildfile, None)
      BY <1>1, <2>1, <2>2, SetBuildFile
  <2>4. /\ Proper(q) /\ UpToDate(q) /\ Selects(q) /\ q.buildfile = s.buildfile
        /\ q.topFile = s.topFile /\ q.open = r.open /\ q.pending = r.pending
        /\ q.config = r.config /\ NoStaler(s, q) /\ q.user = r.user
      BY <2>2, <2>3 DEF Remade, NoStaler, UpToDate
  <2>5. KnownTo(c, q) = c
      BY <1>2, <1>3, <2>4, JustRead
  <2>6. QED
      BY <1>2, <1>3, <1>6, <2>4, <2>5 DEF Result, Outcome, Reloaded, StaleConfig
<1>7. QED
    BY <1>5, <1>6

LEMMA NoStalerTransitive ==
    ASSUME NEW s, NEW q, NEW r, NoStaler(s, q), NoStaler(q, r)
    PROVE  NoStaler(s, r)
    BY DEF NoStaler

LEMMA DoneResult ==
    ASSUME NEW s, NEW q, NEW c, NEW keeps, Result(s, q, c, keeps), NEW r, r = [q EXCEPT !.ok = TRUE]
    PROVE  Result(s, r, c, keeps) /\ r.ok
<1>1. Proper(q)
    BY DEF Result
<1>2. /\ Proper(r) /\ r.ok = TRUE /\ r.config = q.config /\ r.buildfile = q.buildfile
      /\ r.topFile = q.topFile /\ r.pending = q.pending /\ r.open = q.open
      /\ (Selects(q) => Selects(r)) /\ NoStaler(q, r) /\ (UpToDate(q) => UpToDate(r))
      /\ r.user = q.user
    BY <1>1, OkFields
<1>3. Outcome(s, r, c)
    BY <1>2, NoStalerTransitive DEF Result, Outcome, Reloaded, StaleConfig, KnownTo
<1>4. QED
    BY <1>2, <1>3 DEF Result

LEMMA RestoredResult ==
    ASSUME DiskTypes, NEW c, ConfTypes(c), NEW s, Proper(s), s.ok
    PROVE  Result(s, Restored(s, loadConfig(s, c, FALSE)), c, TRUE)
<1>1. PICK r : r = loadConfig(s, c, FALSE)
    OBVIOUS
<1>2. PICK q : q = Reselected(s, r)
    OBVIOUS
<1>3. /\ Result(s, q, c, FALSE)
      /\ s.buildfile # None => q.buildfile = s.buildfile /\ q.topFile = s.topFile
    BY <1>1, <1>2, LoadResult
<1>4. CASE s.topFile = None
    BY <1>1, <1>2, <1>3, <1>4 DEF Restored, Reselected, Result
<1>5. CASE s.topFile # None
  <2>1. s.topFile \in Tops /\ s.buildfile = None /\ Proper(q)
      BY <1>3, <1>5 DEF Proper, Servers, Result
  <2>2. PICK t \in Tops : t = s.topFile
      BY <2>1
  <2>3. PICK p : p = setTopLevel(q, t)
      OBVIOUS
  <2>4. Restored(s, loadConfig(s, c, FALSE)) = p
      BY <1>1, <1>2, <1>5, <2>2, <2>3 DEF Restored, Reselected
  <2>5. /\ Proper(p) /\ NoStaler(q, p) /\ Selects(p)
        /\ UpToDate(q) => UpToDate(p)
        /\ p.buildfile = None /\ p.topFile = t /\ p.user = q.user
        /\ p.open = q.open /\ p.pending = q.pending /\ p.config = q.config
      BY <2>1, <2>3, SetTopLevel
  <2>6. Outcome(s, p, c)
      BY <1>3, <2>5, NoStalerTransitive DEF Result, Outcome, Reloaded, StaleConfig, KnownTo
  <2>7. QED
      BY <1>3, <2>1, <2>2, <2>4, <2>5, <2>6 DEF Result
<1>6. QED
    BY <1>4, <1>5

\* What the driver does with a report about sources.
LEMMA SourcesReloaded ==
    ASSUME DiskTypes, NEW s, Proper(s), NEW F
    PROVE  LET r == ReloadSources(s, F) IN
           /\ Proper(r) /\ r.open = s.open /\ r.pending = s.pending /\ r.user = s.user
           /\ r.config = s.config /\ r.buildfile = s.buildfile /\ r.topFile = s.topFile
           /\ r.driver.kind = s.driver.kind /\ r.driver.file = s.driver.file
           /\ NoStaler(s, r) /\ (Selects(s) => Selects(r))
           /\ \A f \in Sources \cap F : ~StaleSource(r, f)
<1>1. s \in Servers /\ s.driver \in Drivers /\ s.driver.text \in [Sources -> Contents]
    BY DEF Proper, Servers, Drivers
<1>2. PICK t : t = [f \in Sources |->
            IF f \in F /\ s.open[f] = None /\ s.driver.text[f] # None /\ disk[f] # None
            THEN disk[f] ELSE s.driver.text[f]]
    OBVIOUS
<1>3. t \in [Sources -> Contents]
    BY <1>1, <1>2 DEF DiskTypes
<1>4. PICK d : d = [s.driver EXCEPT !.text = t]
    OBVIOUS
<1>5. /\ d \in Drivers /\ d.kind = s.driver.kind /\ d.file = s.driver.file
      /\ d.config = s.driver.config /\ d.command = s.driver.command /\ d.gen = s.driver.gen
      /\ d.text = t
    BY <1>1, <1>3, <1>4 DEF Drivers
<1>6. PICK r : r = [s EXCEPT !.driver = d]
    OBVIOUS
<1>7. ReloadSources(s, F) = r
    BY <1>1, <1>2, <1>4, <1>6 DEF ReloadSources, Servers, Drivers
<1>8. /\ r \in Servers /\ r.open = s.open /\ r.pending = s.pending /\ r.user = s.user
      /\ r.config = s.config /\ r.buildfile = s.buildfile /\ r.topFile = s.topFile
      /\ r.shown = s.shown /\ r.driver = d /\ r.threw = s.threw
    BY <1>1, <1>5, <1>6 DEF Servers
<1>9. \A f \in Sources : /\ s.open[f] # None => t[f] = s.driver.text[f]
                         /\ t[f] # s.driver.text[f] => t[f] = disk[f]
                         /\ f \in F => s.open[f] # None \/ s.driver.text[f] = None
                                       \/ disk[f] = None \/ t[f] = disk[f]
    BY <1>2
<1>10. Proper(r) /\ (Selects(s) => Selects(r))
    BY <1>5, <1>8, <1>9 DEF Proper, Selects
<1>11. NoStaler(s, r)
    BY <1>5, <1>8, <1>9 DEF NoStaler, StaleFile, StaleSource
<1>12. \A f \in Sources \cap F : ~StaleSource(r, f)
    BY <1>2, <1>5, <1>8 DEF StaleSource
<1>13. QED
    BY <1>5, <1>7, <1>8, <1>10, <1>11, <1>12

\* A report is taken by a reload, or every source in it is read again.
LEMMA WatchedResult ==
    ASSUME DiskTypes, ConfTypes(conf), NEW s, Proper(s), s.ok, NEW F,
           NEW r, r = onWatchedFiles(s, F)
    PROVE  /\ Result(s, r, conf, TRUE)
           /\ \/ Reloaded(r, conf)
              \/ /\ ~s.pending /\ r.config = s.config /\ NoStaler(s, r) /\ F \cap AllLayers = {}
                 /\ (StaleFile(s) => s.driver.file \notin F) /\ r.user = s.user
                 /\ \A f \in Sources \cap F : ~StaleSource(r, f)
<1>1. CASE r = reloadWatchedConfig(s)
    BY <1>1, ReloadResult
<1>2. CASE r # reloadWatchedConfig(s)
  <2>1. /\ ~s.pending /\ F \cap AllLayers = {} /\ (StaleFile(s) => s.driver.file \notin F)
        /\ r = ReloadSources(s, F \cap Sources)
      BY <1>2 DEF onWatchedFiles, dispatch, CommandFiles, StaleFile
  <2>2. /\ Proper(r) /\ r.open = s.open /\ r.pending = s.pending /\ r.user = s.user
        /\ r.config = s.config /\ r.buildfile = s.buildfile /\ r.topFile = s.topFile
        /\ NoStaler(s, r) /\ (Selects(s) => Selects(r))
        /\ \A f \in Sources \cap (F \cap Sources) : ~StaleSource(r, f)
      BY <2>1, SourcesReloaded
  <2>3. QED
      BY <2>1, <2>2 DEF Result, Outcome
<1>3. QED
    BY <1>1, <1>2

-----------------------------------------------------------------------------
(* Steps of the server.                                                    *)

LEMMA MessageFields ==
    ASSUME NEW m \in Messages
    PROVE  /\ m.kind = "watched" => m.arg \subseteq Watchable
           /\ m.kind \in {"open", "close"} => m.arg \in Sources
           /\ m.kind = "open" => m.version \in Versions
           /\ m.kind = "setBuildFile" => m.arg \in Builds \cup {None}
           /\ m.kind = "setTopLevel" => m.arg \in Tops
           /\ m.kind = "addDefine" => m.arg \in Flags
    BY DEF Messages

LEMMA InboxHead ==
    ASSUME TypeOK, inbox # <<>>
    PROVE  /\ Head(inbox) \in Messages /\ Head(inbox) = inbox[1]
           /\ Len(inbox) \in Nat /\ Len(inbox) >= 1
           /\ Tail(inbox) \in Seq(Messages) /\ Len(Tail(inbox)) = Len(inbox) - 1
           /\ \A i \in 1..(Len(inbox) - 1) : Tail(inbox)[i] = inbox[i + 1]
    BY HeadTailProperties, LenProperties DEF TypeOK

\* A document is opened.
LEMMA Opened ==
    ASSUME NEW s, Proper(s), NEW f \in Sources, NEW v \in Versions
    PROVE  LET r == openDocument(s, f, v) IN
           /\ Proper(r) /\ r.open = [s.open EXCEPT ![f] = v] /\ r.pending = s.pending
           /\ r.config = s.config /\ NoStaler(s, r) /\ (Selects(s) => Selects(r))
           /\ r.user = s.user
<1>1. /\ s \in Servers /\ s.driver \in Drivers /\ s.driver.text \in [Sources -> Contents]
      /\ s.open \in [Sources -> Contents] /\ s.shown \in [Sources -> Nat] /\ s.driver.gen \in Nat
      /\ v \in Contents /\ v # None
    BY WorkspaceAssumption DEF Proper, Servers, Drivers, Contents
<1>2. PICK o \in [Sources -> Contents], t \in [Sources -> Contents], h \in [Sources -> Nat] :
        /\ o = [s.open EXCEPT ![f] = v] /\ t = [s.driver.text EXCEPT ![f] = v]
        /\ h = [s.shown EXCEPT ![f] = s.driver.gen]
    BY <1>1
<1>3. PICK d : d = [s.driver EXCEPT !.text = t]
    OBVIOUS
<1>4. /\ d \in Drivers /\ d.kind = s.driver.kind /\ d.file = s.driver.file
      /\ d.config = s.driver.config /\ d.command = s.driver.command /\ d.gen = s.driver.gen
      /\ d.text = t
    BY <1>1, <1>2, <1>3 DEF Drivers
<1>5. PICK r : r = [s EXCEPT !.open = o, !.driver = d, !.shown = h]
    OBVIOUS
<1>6. openDocument(s, f, v) = r
    BY <1>1, <1>2, <1>3, <1>5 DEF openDocument, Servers, Drivers
<1>7. /\ r \in Servers /\ r.open = o /\ r.pending = s.pending
      /\ r.config = s.config /\ r.buildfile = s.buildfile /\ r.topFile = s.topFile
      /\ r.shown = h /\ r.driver = d /\ r.user = s.user /\ r.threw = s.threw
    BY <1>1, <1>4, <1>5 DEF Servers
<1>8. /\ o[f] = v /\ t[f] = v /\ h[f] = s.driver.gen
      /\ \A g \in Sources \ {f} : o[g] = s.open[g] /\ t[g] = s.driver.text[g] /\ h[g] = s.shown[g]
    BY <1>1, <1>2
<1>9. Proper(r)
    BY <1>4, <1>7, <1>8 DEF Proper
<1>10. Selects(s) => Selects(r)
    BY <1>4, <1>7, <1>8 DEF Selects
<1>11. NoStaler(s, r)
    BY <1>1, <1>4, <1>7, <1>8 DEF NoStaler, StaleFile, StaleSource
<1>12. QED
    BY <1>2, <1>6, <1>7, <1>9, <1>10, <1>11

\* A document is closed: the driver keeps the text that the editor had.
LEMMA Closed ==
    ASSUME NEW s, Proper(s), NEW f \in Sources
    PROVE  LET r == [s EXCEPT !.open[f] = None] IN
           /\ Proper(r) /\ r.open = [s.open EXCEPT ![f] = None] /\ r.pending = s.pending
           /\ r.config = s.config /\ (Selects(s) => Selects(r)) /\ r.driver = s.driver
           /\ r.user = s.user
<1>1. s \in Servers /\ s.open \in [Sources -> Contents]
    BY DEF Proper, Servers
<1>2. PICK o \in [Sources -> Contents] : o = [s.open EXCEPT ![f] = None]
    BY <1>1 DEF Contents
<1>3. PICK r : r = [s EXCEPT !.open = o]
    OBVIOUS
<1>4. [s EXCEPT !.open[f] = None] = r
    BY <1>1, <1>2, <1>3 DEF Servers
<1>5. /\ r \in Servers /\ r.open = o /\ r.pending = s.pending
      /\ r.config = s.config /\ r.buildfile = s.buildfile /\ r.topFile = s.topFile
      /\ r.shown = s.shown /\ r.driver = s.driver /\ r.user = s.user /\ r.threw = s.threw
    BY <1>1, <1>3 DEF Servers
<1>6. \A g \in Sources : o[g] # None => s.open[g] = o[g]
    BY <1>1, <1>2
<1>7. Proper(r) /\ (Selects(s) => Selects(r))
    BY <1>5, <1>6 DEF Proper, Selects
<1>8. QED
    BY <1>2, <1>4, <1>5, <1>7

\* The parts of a handler's effect that the invariants need.
Frame ==
    /\ inbox # <<>> /\ inbox' = Tail(inbox) /\ UNCHANGED <<disk, editor, steps>>
    /\ ConfTypes(conf') /\ unseen \subseteq unseen' /\ unseen' \subseteq Watchable
Kept ==
    /\ Proper(server') /\ server'.ok /\ (Selects(server) => Selects(server'))
    /\ Head(inbox).kind \in {"watched", "autoConfigure"}
       /\ (server.buildfile # None \/ server.topFile # None) =>
         server'.buildfile = server.buildfile /\ server'.topFile = server.topFile
Effect ==
    \/ /\ Head(inbox).kind = "close" /\ UNCHANGED conf
       /\ server'.open = [server.open EXCEPT ![Arg] = None] /\ server'.pending = server.pending
       /\ server'.config = server.config /\ server'.driver = server.driver
       /\ server'.user = server.user
    \/ /\ Head(inbox).kind = "open" /\ Outcome(server, server', conf')
       /\ server'.open = [server.open EXCEPT ![Arg] = Head(inbox).version]
    \/ /\ Head(inbox).kind = "watched" /\ UNCHANGED conf /\ server'.open = server.open
       /\ \/ Reloaded(server', conf)
          \/ /\ ~server.pending /\ server'.config = server.config /\ NoStaler(server, server')
             /\ Arg \cap AllLayers = {}
             /\ (StaleFile(server) => server.driver.file \notin Arg)
             /\ server'.user = server.user
             /\ \A f \in Sources \cap Arg : ~StaleSource(server', f)
    \/ /\ Head(inbox).kind \notin {"open", "close", "watched"} /\ server'.open = server.open
       /\ Outcome(server, server', conf')

LEMMA ResultKept ==
    ASSUME TypeOK, inbox # <<>>, NEW r, NEW keeps, Result(server, r, conf', keeps),
           server' = [r EXCEPT !.ok = TRUE],
           Head(inbox).kind \notin {"open", "close", "watched"},
           Head(inbox).kind = "autoConfigure" => keeps
    PROVE  Kept /\ Effect
<1>1. Result(server, server', conf', keeps) /\ server'.ok
    BY DoneResult
<1>2. QED
    BY <1>1 DEF Result, Kept, Effect

LEMMA ServerStep ==
    ASSUME TypeOK, Proper(server), Server
    PROVE  Frame /\ Kept /\ Effect
<1>1. /\ DiskTypes /\ ConfTypes(conf) /\ server.ok /\ unseen \subseteq Watchable
      /\ server \in Servers
    BY DEF TypeOK, DiskTypes, ConfTypes
<1>2. inbox # <<>> => Head(inbox) \in Messages
    BY InboxHead
<1>3. CASE HandleOpen
  <2>1. /\ inbox # <<>> /\ Head(inbox).kind = "open" /\ Arg \in Sources
        /\ Head(inbox).version \in Versions
      BY <1>2, <1>3, MessageFields DEF HandleOpen, Handling, Arg
  <2>2. Frame
      BY <1>1, <1>3, <2>1 DEF HandleOpen, Done, KeepFiles, Frame
  <2>3. PICK r : r = openDocument(server, Arg, Head(inbox).version)
      OBVIOUS
  <2>4. /\ Proper(r) /\ r.open = [server.open EXCEPT ![Arg] = Head(inbox).version]
        /\ r.pending = server.pending /\ r.config = server.config /\ NoStaler(server, r)
        /\ (Selects(server) => Selects(r)) /\ r.user = server.user
      BY <2>1, <2>3, Opened
  <2>5. server' = [r EXCEPT !.ok = TRUE] /\ conf' = conf
      BY <1>3, <2>3 DEF HandleOpen, Done, KeepFiles
  <2>6. /\ Proper(server') /\ server'.ok /\ server'.config = r.config
        /\ server'.pending = r.pending /\ server'.open = r.open
        /\ (Selects(r) => Selects(server')) /\ NoStaler(r, server') /\ server'.user = r.user
      BY <2>4, <2>5, OkFields
  <2>7. Outcome(server, server', conf')
      BY <2>4, <2>5, <2>6, NoStalerTransitive DEF Outcome, Reloaded
  <2>8. QED
      BY <2>1, <2>2, <2>4, <2>5, <2>6, <2>7 DEF Kept, Effect
<1>4. CASE HandleClose
  <2>1. inbox # <<>> /\ Head(inbox).kind = "close" /\ Arg \in Sources
      BY <1>2, <1>4, MessageFields DEF HandleClose, Handling, Arg
  <2>2. Frame
      BY <1>1, <1>4, <2>1 DEF HandleClose, Done, KeepFiles, Frame
  <2>3. PICK r : r = [server EXCEPT !.open[Arg] = None]
      OBVIOUS
  <2>4. /\ Proper(r) /\ r.open = [server.open EXCEPT ![Arg] = None]
        /\ r.pending = server.pending /\ r.config = server.config /\ r.driver = server.driver
        /\ (Selects(server) => Selects(r)) /\ r.user = server.user
      BY <2>1, <2>3, Closed
  <2>5. server' = [r EXCEPT !.ok = TRUE] /\ conf' = conf
      BY <1>4, <2>3 DEF HandleClose, Done, KeepFiles
  <2>6. /\ Proper(server') /\ server'.ok /\ server'.config = r.config
        /\ server'.pending = r.pending /\ server'.open = r.open /\ server'.driver = r.driver
        /\ (Selects(r) => Selects(server')) /\ server'.user = r.user
      BY <2>4, <2>5, OkFields
  <2>7. QED
      BY <2>1, <2>2, <2>4, <2>5, <2>6 DEF Kept, Effect
<1>5. CASE HandleSetBuildFile
  <2>1. inbox # <<>> /\ Head(inbox).kind = "setBuildFile" /\ Arg \in Builds \cup {None}
      BY <1>2, <1>5, MessageFields DEF HandleSetBuildFile, Handling, Arg
  <2>2. Frame
      BY <1>1, <1>5, <2>1 DEF HandleSetBuildFile, Done, KeepFiles, Frame
  <2>3. PICK r : r = setBuildFile(server, Arg)
      OBVIOUS
  <2>4. Result(server, r, conf, FALSE)
    <3>1. Remade(server, r, Arg, None)
        BY <1>1, <2>1, <2>3, SetBuildFile
    <3>2. QED
        BY <1>1, <3>1, SelectResult
  <2>5. server' = [r EXCEPT !.ok = TRUE] /\ conf' = conf
      BY <1>5, <2>3 DEF HandleSetBuildFile, Done, KeepFiles
  <2>6. QED
      BY <2>1, <2>2, <2>4, <2>5, ResultKept
<1>6. CASE HandleSetTopLevel
  <2>1. inbox # <<>> /\ Head(inbox).kind = "setTopLevel" /\ Arg \in Tops
      BY <1>2, <1>6, MessageFields DEF HandleSetTopLevel, Handling, Arg
  <2>2. Frame
      BY <1>1, <1>6, <2>1 DEF HandleSetTopLevel, Done, KeepFiles, Frame
  <2>3. PICK r : r = setTopLevel(server, Arg)
      OBVIOUS
  <2>4. /\ Proper(r) /\ NoStaler(server, r) /\ Selects(r) /\ r.user = server.user
        /\ r.open = server.open /\ r.pending = server.pending /\ r.config = server.config
      BY <1>1, <2>1, <2>3, SetTopLevel
  <2>5. Result(server, r, conf, FALSE)
      BY <2>4 DEF Result, Outcome, Reloaded, StaleConfig, KnownTo
  <2>6. server' = [r EXCEPT !.ok = TRUE] /\ conf' = conf
      BY <1>6, <2>3 DEF HandleSetTopLevel, Done, KeepFiles
  <2>7. QED
      BY <2>1, <2>2, <2>5, <2>6, ResultKept
<1>7. CASE HandleWatched
  <2>1. inbox # <<>> /\ Head(inbox).kind = "watched"
      BY <1>7 DEF HandleWatched, Handling
  <2>2. Frame
      BY <1>1, <1>7, <2>1 DEF HandleWatched, Done, KeepFiles, Frame
  <2>3. PICK r : r = onWatchedFiles(server, Arg)
      OBVIOUS
  <2>4. /\ Result(server, r, conf, TRUE)
        /\ \/ Reloaded(r, conf)
           \/ /\ ~server.pending /\ r.config = server.config /\ NoStaler(server, r)
              /\ Arg \cap AllLayers = {}
              /\ (StaleFile(server) => server.driver.file \notin Arg) /\ r.user = server.user
              /\ \A f \in Sources \cap Arg : ~StaleSource(r, f)
      BY <1>1, <2>3, WatchedResult
  <2>5. server' = [r EXCEPT !.ok = TRUE] /\ conf' = conf
      BY <1>7, <2>3 DEF HandleWatched, Done, KeepFiles
  <2>6. Result(server, server', conf, TRUE) /\ server'.ok /\ Proper(r)
      BY <2>4, <2>5, DoneResult DEF Result
  <2>7. /\ server'.pending = r.pending /\ server'.config = r.config /\ NoStaler(r, server')
        /\ UpToDate(r) => UpToDate(server')
        /\ server'.user = r.user
      BY <2>5, <2>6, OkFields
  <2>8. Reloaded(r, conf) => Reloaded(server', conf)
      BY <2>7 DEF Reloaded, StaleConfig, KnownTo
  <2>9. /\ NoStaler(server, r) => NoStaler(server, server')
        /\ \A f \in Sources : ~StaleSource(r, f) => ~StaleSource(server', f)
      BY <2>7, NoStalerTransitive DEF NoStaler
  <2>10. Effect
      BY <2>1, <2>4, <2>5, <2>6, <2>7, <2>8, <2>9 DEF Effect, Result
  <2>11. Kept
      BY <2>6 DEF Result, Kept
  <2>12. QED
      BY <2>2, <2>10, <2>11
<1>8. CASE addDefine
  <2>1. inbox # <<>> /\ Head(inbox).kind = "addDefine" /\ Arg \in Flags
      BY <1>2, <1>8, MessageFields DEF addDefine, Handling, Arg
  <2>2. ConfTypes(conf') /\ unseen' = unseen \cup {"local"}
    <3>1. PICK x \in Settings : x = Of(conf, "local")
        BY <1>1, OfTypes DEF ConfTypes, AllLayers
    <3>2. [x EXCEPT !.flags = @ \cup {Arg}] \in Settings
        BY <2>1 DEF Settings
    <3>3. conf' = [conf EXCEPT !["local"] = [x EXCEPT !.flags = @ \cup {Arg}]]
        BY <1>8, <3>1 DEF addDefine
    <3>4. QED
        BY <1>1, <1>8, <3>2, <3>3 DEF ConfTypes, AllLayers, addDefine
  <2>3. Frame
      BY <1>1, <1>8, <2>1, <2>2 DEF addDefine, Done, Frame, Watchable, WatchedLayers
  <2>4. PICK r : r = Reselected(server, loadConfig(server, conf', FALSE))
      OBVIOUS
  <2>5. server' = [r EXCEPT !.ok = TRUE]
      BY <1>8, <2>4 DEF addDefine, Done, Reselected
  <2>6. Result(server, r, conf', FALSE)
      BY <1>1, <2>2, <2>4, LoadResult
  <2>7. QED
      BY <2>1, <2>3, <2>5, <2>6, ResultKept
<1>9. CASE autoConfigure
  <2>1. inbox # <<>> /\ Head(inbox).kind = "autoConfigure"
      BY <1>9 DEF autoConfigure, Handling
  <2>2. CASE Done(server) /\ KeepFiles
    <3>1. Frame
        BY <1>1, <2>1, <2>2 DEF Done, KeepFiles, Frame
    <3>2. Result(server, server, conf, TRUE) \/ server.pending
        BY DEF Result, Outcome, Reloaded, NoStaler
    <3>3. Result(server, server, conf, TRUE)
        BY <3>2 DEF Result, Outcome, Reloaded
    <3>4. QED
        BY <2>1, <2>2, <3>1, <3>3, ResultKept DEF Done, KeepFiles
  <2>3. CASE ~(Done(server) /\ KeepFiles)
    <3>1. /\ conf' = [conf EXCEPT !["workspace"] = [Of(conf, "workspace") EXCEPT !.incdirs = TRUE]]
          /\ unseen' = unseen \cup {"workspace"}
          /\ Done(Restored(server, loadConfig(server, conf', FALSE)))
        BY <1>9, <2>3 DEF autoConfigure
    <3>2. ConfTypes(conf')
      <4>1. PICK x \in Settings : x = Of(conf, "workspace")
          BY <1>1, OfTypes DEF ConfTypes, AllLayers
      <4>2. [x EXCEPT !.incdirs = TRUE] \in Settings
          BY DEF Settings
      <4>3. QED
          BY <1>1, <3>1, <4>1, <4>2 DEF ConfTypes, AllLayers
    <3>3. Frame
        BY <1>1, <2>1, <3>1, <3>2 DEF Done, Frame, Watchable, WatchedLayers
    <3>4. PICK r : r = Restored(server, loadConfig(server, conf', FALSE))
        OBVIOUS
    <3>5. Result(server, r, conf', TRUE)
        BY <1>1, <3>2, <3>4, RestoredResult
    <3>6. server' = [r EXCEPT !.ok = TRUE]
        BY <3>1, <3>4 DEF Done
    <3>7. QED
        BY <2>1, <3>3, <3>5, <3>6, ResultKept
  <2>4. QED
      BY <2>2, <2>3
<1>10. QED
    BY <1>3, <1>4, <1>5, <1>6, <1>7, <1>8, <1>9 DEF Server

-----------------------------------------------------------------------------
(* Steps of the client and of the file system.                             *)

LEMMA Appended ==
    ASSUME TypeOK, NEW m \in Messages
    PROVE  /\ Append(inbox, m) \in Seq(Messages) /\ Len(Append(inbox, m)) = Len(inbox) + 1
           /\ Len(inbox) \in Nat
           /\ \A i \in 1..Len(inbox) : Append(inbox, m)[i] = inbox[i]
           /\ Append(inbox, m)[Len(inbox) + 1] = m
    BY AppendProperties, LenProperties DEF TypeOK

\* A message is sent, other than a report of the watcher.
Sends(m) ==
    /\ m \in Messages /\ m.kind # "watched" /\ inbox' = Append(inbox, m) /\ Len(inbox) < MaxInbox
    /\ UNCHANGED <<conf, disk, server, unseen>>
    /\ \/ /\ m.kind \notin {"open", "close"} /\ UNCHANGED editor
       \/ \E f \in Sources :
            /\ m.kind = "close" /\ m.arg = f /\ editor' = [editor EXCEPT ![f] = None]
       \/ \E f \in Sources, v \in Versions :
            /\ m.kind = "open" /\ m.arg = f /\ m.version = v /\ disk[f] = v
            /\ editor' = [editor EXCEPT ![f] = v]

LEMMA ClientSteps ==
    ASSUME TypeOK, Client \/ ReportFiles
    PROVE  /\ steps' \in 0..MaxSteps
           /\ \/ \E l \in AllLayers, c \in Settings \cup {Missing, Broken} :
                   /\ conf' = [conf EXCEPT ![l] = c]
                   /\ unseen' = unseen \cup ({l} \cap WatchedLayers)
                   /\ UNCHANGED <<disk, editor, inbox, server>>
              \/ \E x \in Builds \cup Sources, v \in Contents :
                   /\ disk' = [disk EXCEPT ![x] = v] /\ unseen' = unseen \cup {x}
                   /\ v = None => x \in Fragile
                   /\ x \in Sources => editor[x] = None
                   /\ UNCHANGED <<conf, editor, inbox, server>>
              \/ \E m : Sends(m)
              \/ \E m \in Messages :
                   /\ m.kind = "watched" /\ m.arg = unseen /\ inbox' = Append(inbox, m)
                   /\ Len(inbox) < MaxInbox /\ unseen' = {}
                   /\ UNCHANGED <<conf, disk, editor, server>>
<1>1. Step => steps' \in 0..MaxSteps
    BY WorkspaceAssumption DEF Step, TypeOK
<1>2. CASE \E l \in AllLayers : \E c \in Written[l] : EditConfig(l, c)
    BY <1>1, <1>2, WorkspaceAssumption DEF EditConfig
<1>3. CASE \E x \in Builds \cup Sources, v \in Versions \cup {None} : EditFile(x, v)
    BY <1>1, <1>3 DEF EditFile, Contents
<1>4. ASSUME NEW f \in Sources, ClientOpens(f)
      PROVE  steps' \in 0..MaxSteps /\ \E m : Sends(m)
  <2>1. PICK v \in Versions : v = disk[f]
      BY <1>4 DEF ClientOpens, TypeOK, Contents
  <2>2. PICK m : m = [kind |-> "open", arg |-> f, version |-> v]
      OBVIOUS
  <2>3. m \in Messages /\ m.kind = "open" /\ m.arg = f /\ m.version = v
      BY <2>2 DEF Messages
  <2>4. Sends(m)
      BY <1>4, <2>1, <2>2, <2>3 DEF ClientOpens, Send, Sends
  <2>5. QED
      BY <1>1, <1>4, <2>4 DEF ClientOpens, Send
<1>5. ASSUME NEW f \in Sources, ClientCloses(f)
      PROVE  steps' \in 0..MaxSteps /\ \E m : Sends(m)
  <2>1. PICK m : m = [kind |-> "close", arg |-> f]
      OBVIOUS
  <2>2. m \in Messages /\ m.kind = "close" /\ m.arg = f
      BY <2>1 DEF Messages
  <2>3. Sends(m)
      BY <1>5, <2>1, <2>2 DEF ClientCloses, Send, Sends
  <2>4. QED
      BY <1>1, <1>5, <2>3 DEF ClientCloses, Send
<1>6. ASSUME NEW k, NEW a, ClientCommands(k, a),
             \/ k = "setBuildFile" /\ a \in Builds \cup {None}
             \/ k = "setTopLevel" /\ a \in Tops
             \/ k = "addDefine" /\ a \in Flags
             \/ k = "autoConfigure" /\ a = None
      PROVE  steps' \in 0..MaxSteps /\ \E m : Sends(m)
  <2>1. PICK m : m = [kind |-> k, arg |-> a]
      OBVIOUS
  <2>2. m \in Messages /\ m.kind = k
      BY <1>6, <2>1 DEF Messages
  <2>3. Sends(m)
      BY <1>6, <2>1, <2>2 DEF ClientCommands, Send, Sends
  <2>4. QED
      BY <1>1, <1>6, <2>3 DEF ClientCommands, Send
<1>7. CASE ReportFiles
  <2>1. PICK m : m = [kind |-> "watched", arg |-> unseen]
      OBVIOUS
  <2>2. m \in Messages /\ m.kind = "watched" /\ m.arg = unseen
      BY <2>1 DEF Messages, TypeOK
  <2>3. QED
      BY <1>7, <2>1, <2>2 DEF ReportFiles, TypeOK
<1>8. QED
    BY <1>2, <1>3, <1>4, <1>5, <1>6, <1>7 DEF Client

WsInv == TypeOK /\ Proper(server)

LEMMA WsInvStep ==
    ASSUME WsInv, [Next]_vars
    PROVE  WsInv'
<1>1. TypeOK /\ Proper(server)
    BY DEF WsInv
<1>2. CASE Server
  <2>1. Frame /\ Kept
      BY <1>1, <1>2, ServerStep
  <2>2. inbox' \in Seq(Messages) /\ Len(inbox') <= MaxInbox
      BY <1>1, <2>1, InboxHead, WorkspaceAssumption DEF TypeOK, Frame
  <2>3. server' \in Servers /\ server'.driver.config = server'.config
      BY <2>1 DEF Kept, Proper
  <2>4. TypeOK'
      BY <1>1, <2>1, <2>2, <2>3 DEF TypeOK, Frame, Kept, ConfTypes
  <2>5. QED
      BY <2>1, <2>4 DEF WsInv, Kept, Proper
<1>3. CASE Client \/ ReportFiles
  <2>1. ASSUME NEW m \in Messages, inbox' = Append(inbox, m), Len(inbox) < MaxInbox
        PROVE  inbox' \in Seq(Messages) /\ Len(inbox') <= MaxInbox
      BY <1>1, <2>1, Appended, WorkspaceAssumption
  <2>2. /\ conf' \in [AllLayers -> Settings \cup {Missing, Broken}]
        /\ disk' \in [Builds \cup Sources -> Contents]
        /\ editor' \in [Sources -> Contents]
        /\ unseen' \subseteq Watchable /\ server' = server
        /\ inbox' \in Seq(Messages) /\ Len(inbox') <= MaxInbox
        /\ steps' \in 0..MaxSteps
    <3>1. CASE \E l \in AllLayers, c \in Settings \cup {Missing, Broken} :
                   /\ conf' = [conf EXCEPT ![l] = c]
                   /\ unseen' = unseen \cup ({l} \cap WatchedLayers)
                   /\ UNCHANGED <<disk, editor, inbox, server>>
        BY <1>1, <1>3, <3>1, ClientSteps, WorkspaceAssumption DEF TypeOK, Watchable
    <3>2. CASE \E x \in Builds \cup Sources, v \in Contents :
                   /\ disk' = [disk EXCEPT ![x] = v] /\ unseen' = unseen \cup {x}
                   /\ UNCHANGED <<conf, editor, inbox, server>>
        BY <1>1, <1>3, <3>2, ClientSteps DEF TypeOK, Watchable
    <3>3. CASE \E m : Sends(m)
      <4>1. PICK m \in Messages : Sends(m)
          BY <3>3 DEF Sends
      <4>2. editor' \in [Sources -> Contents]
          BY <1>1, <4>1 DEF Sends, TypeOK, Contents
      <4>3. UNCHANGED <<conf, disk, server, unseen>>
          BY <4>1 DEF Sends
      <4>4. inbox' \in Seq(Messages) /\ Len(inbox') <= MaxInbox
          BY <2>1, <4>1 DEF Sends
      <4>5. steps' \in 0..MaxSteps
          BY <1>1, <1>3, ClientSteps
      <4>6. QED
          BY <1>1, <4>2, <4>3, <4>4, <4>5 DEF TypeOK
    <3>4. CASE \E m \in Messages :
                   /\ inbox' = Append(inbox, m) /\ Len(inbox) < MaxInbox /\ unseen' = {}
                   /\ UNCHANGED <<conf, disk, editor, server>>
      <4>1. inbox' \in Seq(Messages) /\ Len(inbox') <= MaxInbox
          BY <2>1, <3>4
      <4>2. steps' \in 0..MaxSteps
          BY <1>1, <1>3, ClientSteps
      <4>3. QED
          BY <1>1, <3>4, <4>1, <4>2 DEF TypeOK
    <3>5. QED
        BY <1>1, <1>3, <3>1, <3>2, <3>3, <3>4, ClientSteps
  <2>3. QED
      BY <1>1, <2>2 DEF WsInv, TypeOK, Proper
<1>4. CASE UNCHANGED vars
    BY <1>1, <1>4 DEF vars, WsInv, TypeOK, Proper
<1>5. QED
    BY <1>2, <1>3, <1>4 DEF Next

-----------------------------------------------------------------------------
(* The driver and what the client shows.                                   *)

\* The server starts with a driver for the build file of its configuration.
LEMMA InitialServer ==
    ASSUME Init
    PROVE  /\ TypeOK /\ Proper(server) /\ Selects(server) /\ UpToDate(server)
           /\ ~StaleConfig(server, conf)
           /\ \A f \in Sources : server.open[f] = None
<1>1. NoSettings \in Settings /\ \A x \in Builds : [NoSettings EXCEPT !.build = x] \in Settings
    BY DEF NoSettings, Settings
<1>2. ConfTypes(conf)
    BY <1>1 DEF Init, ConfTypes
<1>3. PICK cfg \in Settings : cfg = IF Readable(conf) THEN fromFiles(conf) ELSE NoSettings
    BY <1>1, <1>2, FromFilesTypes DEF ConfTypes
<1>4. PICK kind \in {"explore", "build", "top"} :
        kind = IF cfg.build # None THEN "build" ELSE "explore"
    OBVIOUS
<1>5. cfg.build \in Builds \cup {None}
    BY DEF Settings
<1>6. PICK o \in [Sources -> Contents] : o = [f \in Sources |-> None]
    BY DEF Contents
<1>7. PICK h \in [Sources -> Nat] : h = [f \in Sources |-> 0]
    OBVIOUS
<1>8. PICK blank : blank = [config |-> cfg, user |-> conf["user"], buildfile |-> cfg.build,
                            topFile |-> None, pending |-> FALSE, threw |-> FALSE, open |-> o, shown |-> h, ok |-> TRUE,
                            driver |-> [gen |-> 0]]
    OBVIOUS
<1>9. PICK d : d = Driver(blank, kind, cfg.build, cfg)
    OBVIOUS
<1>10. server = Replaced(blank, d)
    BY <1>3, <1>4, <1>6, <1>7, <1>8, <1>9 DEF Init
<1>11. DiskTypes
    BY DEF Init, DiskTypes, Contents, Versions
<1>12. /\ d \in Drivers /\ d.kind = kind /\ d.file = cfg.build /\ d.config = cfg
       /\ kind = "build" => d.command = disk[cfg.build]
       /\ \A f \in Sources : d.text[f] \in {None, disk[f]}
  <2>1. /\ blank.open \in [Sources -> Contents] /\ blank.driver.gen \in Nat
        /\ kind = "build" => cfg.build \in Builds
        /\ kind = "explore" => cfg.build = None
        /\ kind # "top"
      BY <1>4, <1>5, <1>8
  <2>2. /\ d \in Drivers /\ d.kind = kind /\ d.file = cfg.build /\ d.config = cfg
        /\ kind = "build" => d.command = disk[cfg.build]
        /\ \A f \in Sources : /\ blank.open[f] # None => d.text[f] = blank.open[f]
                              /\ blank.open[f] = None => d.text[f] \in {None, disk[f]}
      BY <1>9, <1>11, <2>1, DriverFields
  <2>3. \A f \in Sources : blank.open[f] = None
      BY <1>6, <1>8
  <2>4. QED
      BY <2>2, <2>3
<1>13. PICK s : s = [config |-> cfg, user |-> conf["user"], buildfile |-> cfg.build,
                     topFile |-> None, pending |-> FALSE, threw |-> FALSE, open |-> o, shown |-> h, ok |-> TRUE, driver |-> d]
    OBVIOUS
<1>14. /\ s \in Servers /\ s.config = cfg /\ s.buildfile = cfg.build /\ s.topFile = None
       /\ s.ok = TRUE /\ s.open = o /\ s.user = conf["user"]
    BY <1>2, <1>5, <1>12, <1>13 DEF Servers, ConfTypes, AllLayers
<1>15. server = Replaced(s, d)
  <2>1. PICK x : x = [f \in Sources |-> IF f \in Publishes(d) THEN d.gen ELSE 0]
      OBVIOUS
  <2>2. PICK r : r = [config |-> cfg, user |-> conf["user"], buildfile |-> cfg.build,
                      topFile |-> None, pending |-> FALSE, threw |-> FALSE, open |-> o, shown |-> x, ok |-> TRUE, driver |-> d]
      OBVIOUS
  <2>3. Replaced(blank, d) = r
    <3>1. Replaced(blank, d) = [blank EXCEPT !.driver = d, !.threw = FALSE, !.shown = x]
        BY <2>1 DEF Replaced
    <3>2. QED
        BY <1>8, <2>2, <3>1
  <2>4. Replaced(s, d) = r
    <3>1. Replaced(s, d) = [s EXCEPT !.driver = d, !.threw = FALSE, !.shown = x]
        BY <2>1 DEF Replaced
    <3>2. QED
        BY <1>13, <2>2, <3>1
  <2>5. QED
      BY <1>10, <2>3, <2>4
<1>16. /\ server \in Servers /\ server.driver = d /\ server.config = cfg
       /\ server.buildfile = cfg.build /\ server.topFile = None /\ server.ok = TRUE
       /\ server.open = o /\ server.user = conf["user"]
       /\ \A f \in Sources : server.shown[f] \in {0, d.gen}
  <2>1. /\ server \in Servers /\ server.driver = d /\ server.config = s.config
        /\ server.buildfile = s.buildfile /\ server.topFile = s.topFile /\ server.ok = s.ok
        /\ server.open = s.open /\ server.user = s.user
        /\ \A f \in Sources : server.shown[f] \in {0, d.gen}
      BY <1>12, <1>14, <1>15, ReplacedFields
  <2>2. QED
      BY <1>14, <2>1
<1>17. \A f \in Sources : server.open[f] = None
    BY <1>6, <1>16
<1>18. Proper(server) /\ Selects(server) /\ UpToDate(server)
    BY <1>4, <1>5, <1>12, <1>16, <1>17 DEF Proper, Selects, UpToDate, StaleFile, StaleSource
<1>19. TypeOK
  <2>1. inbox \in Seq(Messages) /\ Len(inbox) <= MaxInbox /\ unseen \subseteq Watchable
        /\ steps \in 0..MaxSteps
      BY WorkspaceAssumption DEF Init
  <2>2. editor \in [Sources -> Contents]
      BY DEF Init, Contents
  <2>3. QED
      BY <1>2, <1>11, <1>12, <1>16, <2>1, <2>2 DEF TypeOK, ConfTypes, DiskTypes
<1>20. ~StaleConfig(server, conf)
    BY <1>2, <1>3, <1>16, JustRead DEF StaleConfig
<1>21. QED
    BY <1>17, <1>18, <1>19, <1>20

LEMMA WsInvAlways == SafetySpec => []WsInv
<1>1. Init => WsInv
    BY InitialServer DEF WsInv
<1>2. WsInv /\ [Next]_vars => WsInv'
    BY WsInvStep
<1>3. QED
    BY <1>1, <1>2, PTL DEF SafetySpec

\* The variables keep their types, and the driver has the configuration of the server.
THEOREM TypeCorrect == SafetySpec => []TypeOK
<1>1. WsInv => TypeOK
    BY DEF WsInv
<1>2. QED
    BY <1>1, WsInvAlways, PTL

\* Whatever commands, reloads and failures came before, the client shows diagnostics of the
\* driver and of no other; and unless the last selection was of a top level that could not be
\* read, where createFromTop throws after the selection was stored, the driver is the one of
\* the selected build file or top level, with the diagnostics of every open document shown
\* (SlangServer::setBuildFile, setTopLevel and loadConfig, copyOpenDocumentsFrom).
THEOREM SelectedDriverIsShown == SafetySpec => []ShownIsCurrent
<1>1. Init => Selects(server)
    BY InitialServer
<1>2. ASSUME WsInv, Selects(server), [Next]_vars
      PROVE  Selects(server)'
  <2>1. TypeOK /\ Proper(server)
      BY <1>2 DEF WsInv
  <2>2. CASE Server
    <3>1. Selects(server')
        BY <1>2, <2>1, <2>2, ServerStep DEF Kept
    <3>2. QED
        BY <3>1 DEF Selects
  <2>3. CASE Client \/ ReportFiles
    <3>1. server' = server
      <4>1. CASE \E m : Sends(m)
          BY <4>1 DEF Sends
      <4>2. CASE ~\E m : Sends(m)
          BY <2>1, <2>3, <4>2, ClientSteps
      <4>3. QED
          BY <4>1, <4>2
    <3>2. QED
        BY <1>2, <3>1 DEF Selects
  <2>4. CASE UNCHANGED vars
      BY <1>2, <2>4 DEF vars, Selects
  <2>5. QED
      BY <1>2, <2>2, <2>3, <2>4 DEF Next
<1>3. Selects(server) => ShownIsCurrent
    BY DEF Selects, ShownIsCurrent, SelectionIsDriver
<1>4. QED
    BY <1>1, <1>2, <1>3, WsInvAlways, PTL DEF SafetySpec

\* A reload of the configuration and autoConfigure keep the build file or the top level that
\* was selected, also when the reload fails (reloadWatchedConfig, autoConfigure).
THEOREM SelectionIsKept == SafetySpec => SelectionSurvives
<1>1. ASSUME WsInv, [Next]_vars
      PROVE  [/\ HandlesNow({"watched", "autoConfigure"})
              /\ server.buildfile # None \/ server.topFile # None
              => /\ server'.buildfile = server.buildfile
                 /\ server'.topFile = server.topFile]_vars
  <2>1. TypeOK /\ Proper(server)
      BY <1>1 DEF WsInv
  <2>2. CASE Server
      BY <2>1, <2>2, ServerStep DEF Kept, HandlesNow
  <2>3. CASE Client \/ ReportFiles
    <3>1. server' = server
      <4>1. CASE \E m : Sends(m)
          BY <4>1 DEF Sends
      <4>2. CASE ~\E m : Sends(m)
          BY <2>1, <2>3, <4>2, ClientSteps
      <4>3. QED
          BY <4>1, <4>2
    <3>2. QED
        BY <3>1
  <2>4. QED
      BY <1>1, <2>2, <2>3 DEF Next
<1>2. QED
    BY <1>1, WsInvAlways, PTL DEF SafetySpec, SelectionSurvives

-----------------------------------------------------------------------------
(* What is stale is reported.                                              *)

LEMMA AfterTail ==
    ASSUME TypeOK, inbox # <<>>, inbox' = Tail(inbox), unseen \subseteq unseen',
           NEW i \in Nat, NEW f
    PROVE  /\ ClosedAfter(i + 1, f) => ClosedAfter(i, f)'
           /\ ReportedAfter(i + 1, f) => ReportedAfter(i, f)'
<1>1. /\ Len(inbox) \in Nat /\ Len(inbox') = Len(inbox) - 1
      /\ \A k \in 1..(Len(inbox) - 1) : inbox'[k] = inbox[k + 1]
    BY InboxHead
<1>2. ASSUME NEW k \in (i + 2)..Len(inbox)
      PROVE  k - 1 \in (i + 1)..Len(inbox') /\ inbox'[k - 1] = inbox[k] /\ k - 1 \in Nat
    BY <1>1
<1>3. (i + 1) + 1 = i + 2
    OBVIOUS
<1>4. ClosedAfter(i + 1, f) => ClosedAfter(i, f)'
    BY <1>2, <1>3 DEF ClosedAfter, ClosesAt
<1>5. ASSUME NEW k \in (i + 2)..Len(inbox), ClosesAt(k, f),
             f \in unseen \/ \E j \in (k + 1)..Len(inbox) : ReportsAt(j, f)
      PROVE  ReportedAfter(i, f)'
  <2>1. k - 1 \in (i + 1)..Len(inbox') /\ ClosesAt(k - 1, f)'
      BY <1>2, <1>5 DEF ClosesAt
  <2>2. CASE f \in unseen
      BY <2>1, <2>2 DEF ReportedAfter
  <2>3. ASSUME NEW j \in (k + 1)..Len(inbox), ReportsAt(j, f)
        PROVE  \E n \in ((k - 1) + 1)..Len(inbox') : ReportsAt(n, f)'
    <3>1. k \in Nat /\ j \in Nat /\ k >= i + 2 /\ j >= k + 1 /\ j <= Len(inbox)
        BY <1>1, <1>5, <2>3
    <3>2. j \in (i + 2)..Len(inbox)
        BY <1>1, <3>1
    <3>3. j - 1 \in ((k - 1) + 1)..Len(inbox')
        BY <1>1, <3>1
    <3>4. ReportsAt(j - 1, f)'
        BY <1>2, <2>3, <3>2 DEF ReportsAt
    <3>5. QED
        BY <3>3, <3>4
  <2>4. QED
      BY <1>5, <2>1, <2>2, <2>3 DEF ReportedAfter
<1>6. ReportedAfter(i + 1, f) => ReportedAfter(i, f)'
    BY <1>3, <1>5 DEF ReportedAfter
<1>7. QED
    BY <1>4, <1>6

LEMMA AfterAppend ==
    ASSUME TypeOK, NEW m \in Messages, inbox' = Append(inbox, m), NEW i \in Nat, NEW f,
           f \in unseen => f \in unseen' \/ (m.kind = "watched" /\ f \in m.arg)
    PROVE  /\ ClosedAfter(i, f) => ClosedAfter(i, f)'
           /\ ReportedAfter(i, f) => ReportedAfter(i, f)'
<1>1. /\ Len(inbox) \in Nat /\ Len(inbox') = Len(inbox) + 1
      /\ \A k \in 1..Len(inbox) : inbox'[k] = inbox[k]
      /\ inbox'[Len(inbox) + 1] = m
    BY Appended
<1>2. ClosedAfter(i, f) => ClosedAfter(i, f)'
    BY <1>1 DEF ClosedAfter, ClosesAt
<1>3. ASSUME NEW k \in (i + 1)..Len(inbox), ClosesAt(k, f),
             f \in unseen \/ \E j \in (k + 1)..Len(inbox) : ReportsAt(j, f)
      PROVE  ReportedAfter(i, f)'
  <2>1. k \in (i + 1)..Len(inbox') /\ ClosesAt(k, f)'
      BY <1>1, <1>3 DEF ClosesAt
  <2>2. CASE \E j \in (k + 1)..Len(inbox) : ReportsAt(j, f)
    <3>1. \E j \in (k + 1)..Len(inbox') : ReportsAt(j, f)'
        BY <1>1, <2>2 DEF ReportsAt
    <3>2. QED
        BY <2>1, <3>1 DEF ReportedAfter
  <2>3. CASE f \in unseen'
      BY <2>1, <2>3 DEF ReportedAfter
  <2>4. CASE m.kind = "watched" /\ f \in m.arg
    <3>1. PICK n \in Nat : n = Len(inbox) + 1
        BY <1>1
    <3>2. n \in (k + 1)..Len(inbox') /\ ReportsAt(n, f)'
        BY <1>1, <2>4, <3>1 DEF ReportsAt
    <3>3. QED
        BY <2>1, <3>2 DEF ReportedAfter
  <2>5. QED
      BY <1>3, <2>2, <2>3, <2>4
<1>4. QED
    BY <1>2, <1>3 DEF ReportedAfter

LEMMA ClosingServer ==
    ASSUME WsInv, Closing, Server
    PROVE  Closing'
<1>1. TypeOK /\ Proper(server)
    BY DEF WsInv
<1>2. Frame /\ Effect
    BY <1>1, ServerStep
<1>3. /\ inbox # <<>> /\ inbox' = Tail(inbox) /\ unseen \subseteq unseen'
      /\ disk' = disk /\ editor' = editor
    BY <1>2 DEF Frame
<1>4. /\ Len(inbox) \in Nat /\ Len(inbox) >= 1 /\ Len(inbox') = Len(inbox) - 1
      /\ \A k \in 1..(Len(inbox) - 1) : inbox'[k] = inbox[k + 1]
      /\ Head(inbox) \in Messages /\ Head(inbox) = inbox[1]
    BY <1>1, <1>3, InboxHead
<1>5. SUFFICES ASSUME NEW i \in 0..Len(inbox'), NEW f \in Sources, NEW v \in Versions,
                      OpensAt(i, f, v)'
               PROVE  /\ editor[f] = None => ClosedAfter(i, f)'
                      /\ disk[f] \notin {None, v} => ReportedAfter(i, f)'
    BY <1>3 DEF Closing
<1>6. CASE OpensAt(i + 1, f, v)
  <2>1. i \in Nat /\ i + 1 \in 0..Len(inbox)
      BY <1>4, <1>5
  <2>2. /\ editor[f] = None => ClosedAfter(i + 1, f)
        /\ disk[f] \notin {None, v} => ReportedAfter(i + 1, f)
      BY <1>6, <2>1 DEF Closing
  <2>3. QED
      BY <1>1, <1>3, <2>1, <2>2, AfterTail
<1>7. CASE i # 0
  <2>1. i \in 1..(Len(inbox) - 1) /\ i + 1 # 0
      BY <1>4, <1>5, <1>7
  <2>2. OpensAt(i + 1, f, v)
      BY <1>4, <1>5, <2>1 DEF OpensAt
  <2>3. QED
      BY <1>6, <2>2
<1>8. CASE i = 0
  <2>1. server'.open[f] = v /\ v # None
      BY <1>5, <1>8 DEF OpensAt
  <2>2. CASE Head(inbox).kind = "open" /\ Head(inbox).arg = f
    <3>1. server.open \in [Sources -> Contents]
        BY <1>1 DEF Proper, Servers
    <3>2. server'.open = [server.open EXCEPT ![f] = Head(inbox).version]
        BY <1>2, <2>2 DEF Effect, Arg
    <3>3. Head(inbox).version = v
        BY <2>1, <3>1, <3>2
    <3>4. OpensAt(1, f, v)
        BY <1>4, <2>2, <3>3 DEF OpensAt
    <3>5. QED
        BY <1>6, <1>8, <3>4
  <2>3. CASE ~(Head(inbox).kind = "open" /\ Head(inbox).arg = f)
    <3>1. server.open[f] = v /\ ~ClosesAt(1, f)
      <4>1. server.open \in [Sources -> Contents]
          BY <1>1 DEF Proper, Servers
      <4>2. QED
          BY <1>2, <1>4, <2>1, <2>3, <4>1 DEF Effect, Arg, ClosesAt
    <3>2. OpensAt(0, f, v) /\ 0 \in 0..Len(inbox)
        BY <1>4, <2>1, <3>1 DEF OpensAt
    <3>3. /\ editor[f] = None => ClosedAfter(0, f)
          /\ disk[f] \notin {None, v} => ReportedAfter(0, f)
        BY <3>2 DEF Closing
    <3>4. \A k \in (0 + 1)..Len(inbox) : ClosesAt(k, f) => k \in (1 + 1)..Len(inbox)
        BY <1>4, <3>1
    <3>5. /\ ClosedAfter(0, f) => ClosedAfter(0 + 1, f)
          /\ ReportedAfter(0, f) => ReportedAfter(0 + 1, f)
        BY <3>4 DEF ClosedAfter, ReportedAfter
    <3>6. QED
        BY <1>1, <1>3, <1>8, <3>3, <3>5, AfterTail
  <2>4. QED
      BY <2>2, <2>3
<1>9. QED
    BY <1>7, <1>8

LEMMA ClosingClient ==
    ASSUME WsInv, Closing, Client \/ ReportFiles
    PROVE  Closing'
<1>1. /\ TypeOK /\ Len(inbox) \in Nat /\ disk \in [Builds \cup Sources -> Contents]
      /\ editor \in [Sources -> Contents]
    BY LenProperties DEF WsInv, TypeOK
<1>2. CASE UNCHANGED <<disk, editor, inbox, server>> /\ unseen \subseteq unseen'
    BY <1>2 DEF Closing, OpensAt, ClosedAfter, ReportedAfter, ClosesAt, ReportsAt
<1>3. ASSUME NEW x \in Builds \cup Sources, NEW y \in Contents, disk' = [disk EXCEPT ![x] = y],
             unseen' = unseen \cup {x}, x \in Sources => editor[x] = None,
             UNCHANGED <<editor, inbox, server>>
      PROVE  Closing'
  <2>1. SUFFICES ASSUME NEW i \in 0..Len(inbox), NEW f \in Sources, NEW v \in Versions,
                        OpensAt(i, f, v)
                 PROVE  /\ editor[f] = None => ClosedAfter(i, f)
                        /\ disk'[f] \notin {None, v} => ReportedAfter(i, f)'
      BY <1>3 DEF Closing, OpensAt, ClosedAfter, ClosesAt
  <2>2. /\ editor[f] = None => ClosedAfter(i, f)
        /\ disk[f] \notin {None, v} => ReportedAfter(i, f)
      BY <2>1 DEF Closing
  <2>3. ReportedAfter(i, f) => ReportedAfter(i, f)'
      BY <1>3 DEF ReportedAfter, ClosesAt, ReportsAt
  <2>4. CASE f = x
    <3>1. ClosedAfter(i, f) /\ f \in unseen'
        BY <1>3, <2>2, <2>4
    <3>2. ReportedAfter(i, f)'
        BY <1>3, <3>1 DEF ReportedAfter, ClosedAfter, ClosesAt
    <3>3. QED
        BY <2>2, <3>2
  <2>5. CASE f # x
    <3>1. disk'[f] = disk[f]
        BY <1>1, <1>3, <2>5
    <3>2. QED
        BY <2>2, <2>3, <3>1
  <2>6. QED
      BY <2>4, <2>5
<1>4. ASSUME NEW m \in Messages, inbox' = Append(inbox, m), UNCHANGED <<disk, server>>,
             \A f \in unseen : f \in unseen' \/ (m.kind = "watched" /\ f \in m.arg),
             \A f \in Sources : editor'[f] = None =>
                 editor[f] = None \/ (m.kind = "close" /\ m.arg = f),
             m.kind = "open" => m.arg \in Sources /\ disk[m.arg] = m.version
                                /\ editor'[m.arg] # None
      PROVE  Closing'
  <2>1. PICK n \in Nat : n = Len(inbox) + 1
      BY <1>1
  <2>2. /\ Len(inbox') = n /\ inbox'[n] = m
        /\ \A k \in 1..Len(inbox) : inbox'[k] = inbox[k]
      BY <1>1, <1>4, <2>1, Appended
  <2>3. SUFFICES ASSUME NEW i \in 0..Len(inbox'), NEW f \in Sources, NEW v \in Versions,
                        OpensAt(i, f, v)'
                 PROVE  /\ editor'[f] = None => ClosedAfter(i, f)'
                        /\ disk[f] \notin {None, v} => ReportedAfter(i, f)'
      BY <1>4 DEF Closing
  <2>4. CASE i = n
    <3>1. m.kind = "open" /\ m.arg = f /\ m.version = v
        BY <2>1, <2>2, <2>3, <2>4 DEF OpensAt
    <3>2. QED
        BY <1>4, <3>1
  <2>5. CASE i # n
    <3>1. i \in 0..Len(inbox) /\ i \in Nat
        BY <1>1, <2>1, <2>2, <2>3, <2>5
    <3>2. OpensAt(i, f, v)
        BY <1>4, <2>2, <2>3, <3>1 DEF OpensAt
    <3>3. /\ editor[f] = None => ClosedAfter(i, f)
          /\ disk[f] \notin {None, v} => ReportedAfter(i, f)
        BY <3>1, <3>2 DEF Closing
    <3>4. /\ ClosedAfter(i, f) => ClosedAfter(i, f)'
          /\ ReportedAfter(i, f) => ReportedAfter(i, f)'
        BY <1>1, <1>4, <3>1, AfterAppend
    <3>5. m.kind = "close" /\ m.arg = f => ClosedAfter(i, f)'
      <4>1. n \in (i + 1)..Len(inbox')
          BY <1>1, <2>1, <2>2, <3>1
      <4>2. QED
          BY <2>2, <4>1 DEF ClosedAfter, ClosesAt
    <3>6. QED
        BY <1>4, <3>3, <3>4, <3>5
  <2>6. QED
      BY <2>4, <2>5
<1>5. ASSUME NEW m, Sends(m) PROVE Closing'
  <2>1. m \in Messages /\ inbox' = Append(inbox, m) /\ UNCHANGED <<disk, server, unseen>>
      BY <1>5 DEF Sends
  <2>2. \A v \in Versions : v # None
      BY WorkspaceAssumption
  <2>3. /\ \A f \in Sources : editor'[f] = None =>
             editor[f] = None \/ (m.kind = "close" /\ m.arg = f)
        /\ m.kind = "open" => m.arg \in Sources /\ disk[m.arg] = m.version
                              /\ editor'[m.arg] # None
      BY <1>1, <1>5, <2>2 DEF Sends
  <2>4. QED
      BY <1>4, <2>1, <2>3
<1>6. CASE \E l \in AllLayers, c \in Settings \cup {Missing, Broken} :
              /\ unseen' = unseen \cup ({l} \cap WatchedLayers)
              /\ UNCHANGED <<disk, editor, inbox, server>>
    BY <1>2, <1>6
<1>7. CASE \E m \in Messages :
              /\ m.kind = "watched" /\ m.arg = unseen /\ inbox' = Append(inbox, m)
              /\ UNCHANGED <<disk, editor, server>>
    BY <1>4, <1>7
<1>8. QED
    BY <1>1, <1>3, <1>5, <1>6, <1>7, ClientSteps

LEMMA ReportedTail ==
    ASSUME TypeOK, inbox # <<>>, inbox' = Tail(inbox), unseen \subseteq unseen', NEW x, Reported(x)
    PROVE  Reported(x)' \/ (Head(inbox).kind = "watched" /\ x \in Head(inbox).arg)
<1>1. /\ Len(inbox) \in Nat /\ Len(inbox') = Len(inbox) - 1 /\ Head(inbox) = inbox[1]
      /\ \A k \in 1..(Len(inbox) - 1) : inbox'[k] = inbox[k + 1]
    BY InboxHead
<1>2. CASE x \in unseen
    BY <1>2 DEF Reported
<1>3. ASSUME NEW i \in 1..Len(inbox), ReportsAt(i, x), i # 1 PROVE Reported(x)'
  <2>1. i - 1 \in 1..(Len(inbox) - 1) /\ (i - 1) + 1 = i
      BY <1>1, <1>3
  <2>2. inbox'[i - 1] = inbox[i]
      BY <1>1, <2>1
  <2>3. i - 1 \in 1..Len(inbox') /\ ReportsAt(i - 1, x)'
      BY <1>1, <1>3, <2>1, <2>2 DEF ReportsAt
  <2>4. QED
      BY <2>3 DEF Reported
<1>4. QED
    BY <1>1, <1>2, <1>3 DEF Reported, ReportsAt

\* After a reload nothing that a report has to tell is missing.
LEMMA ReloadedKnows ==
    ASSUME UNCHANGED disk, Reloaded(server', conf')
    PROVE  StaleIsReported'
<1>1. SUFFICES ASSUME ~server'.pending
               PROVE  /\ ~StaleConfig(server, conf)' /\ ~StaleFile(server)'
                      /\ \A f \in Sources : ~StaleSource(server, f)'
    BY DEF StaleIsReported
<1>2. ~StaleConfig(server', conf') /\ UpToDate(server')
    BY <1>1 DEF Reloaded
<1>3. ~StaleConfig(server, conf)'
    BY <1>2 DEF StaleConfig, KnownTo
<1>4. ~StaleFile(server)' /\ \A f \in Sources : ~StaleSource(server, f)'
    BY <1>2 DEF UpToDate, StaleFile, StaleSource
<1>5. QED
    BY <1>3, <1>4

\* A handler that is not about a report and not a close.
LEMMA StaleOutcome ==
    ASSUME StaleIsReported, UNCHANGED disk, Outcome(server, server', conf'),
           \A x : Reported(x) => Reported(x)'
    PROVE  StaleIsReported'
<1>1. CASE Reloaded(server', conf')
    BY <1>1, ReloadedKnows
<1>2. CASE /\ ~server.pending /\ server'.config = server.config /\ NoStaler(server, server')
           /\ \/ conf' = conf /\ server'.user = server.user
              \/ ~Readable(KnownTo(conf', server'))
  <2>1. StaleConfig(server', conf') => \E l \in WatchedLayers : Reported(l)'
    <3>1. CASE conf' = conf /\ server'.user = server.user
        BY <1>2, <3>1 DEF StaleIsReported, StaleConfig, KnownTo
    <3>2. CASE ~Readable(KnownTo(conf', server'))
        BY <3>2 DEF StaleConfig
    <3>3. QED
        BY <1>2, <3>1, <3>2
  <2>2. StaleFile(server') => Reported(server.driver.file)'
    <3>1. PICK y : y = server.driver.file
        OBVIOUS
    <3>2. StaleFile(server') => server'.driver.file = y /\ Reported(y)
        BY <1>2, <3>1 DEF NoStaler, StaleIsReported
    <3>3. Reported(y) => Reported(y)'
        OBVIOUS
    <3>4. QED
        BY <3>2, <3>3 DEF Reported, ReportsAt
  <2>3. \A f \in Sources : StaleSource(server', f) => Reported(f)'
      BY <1>2 DEF NoStaler, StaleIsReported
  <2>4. QED
      BY <2>1, <2>2, <2>3 DEF StaleIsReported, StaleFile, StaleSource, StaleConfig, KnownTo
<1>3. QED
    BY <1>1, <1>2 DEF Outcome

LEMMA StaleServer ==
    ASSUME WsInv, Closing, StaleIsReported, Server
    PROVE  StaleIsReported'
<1>1. TypeOK /\ Proper(server)
    BY DEF WsInv
<1>2. Frame /\ Effect
    BY <1>1, ServerStep
<1>3. inbox # <<>> /\ inbox' = Tail(inbox) /\ unseen \subseteq unseen' /\ disk' = disk
    BY <1>2 DEF Frame
<1>4. Head(inbox) \in Messages /\ Len(inbox) \in Nat
    BY <1>1, <1>3, InboxHead
<1>5. \A x : Reported(x) => Reported(x)' \/ (Head(inbox).kind = "watched" /\ x \in Arg)
    BY <1>1, <1>3, ReportedTail DEF Arg
<1>6. CASE Head(inbox).kind \notin {"close", "watched"}
  <2>1. Outcome(server, server', conf')
      BY <1>2, <1>6 DEF Effect
  <2>2. QED
      BY <1>3, <1>5, <1>6, <2>1, StaleOutcome
<1>7. PICK y : y = server.driver.file
    OBVIOUS
<1>8. CASE Head(inbox).kind = "close"
  <2>1. PICK g \in Sources : g = Arg
      BY <1>4, <1>8, MessageFields DEF Arg
  <2>2. /\ conf' = conf /\ server'.open = [server.open EXCEPT ![g] = None]
        /\ server'.pending = server.pending /\ server'.config = server.config
        /\ server'.user = server.user
        /\ server'.driver = server.driver /\ server.open \in [Sources -> Contents]
      BY <1>1, <1>2, <1>8, <2>1 DEF Effect, Proper, Servers
  <2>3. ASSUME NEW f \in Sources, ~server.pending, StaleSource(server', f) PROVE Reported(f)
    <3>1. CASE StaleSource(server, f)
        BY <2>3, <3>1 DEF StaleIsReported
    <3>2. CASE ~StaleSource(server, f)
      <4>1. /\ server.open[f] # None /\ server.driver.text[f] = server.open[f]
            /\ disk[f] \notin {None, server.open[f]}
          BY <1>1, <2>2, <2>3, <3>2 DEF StaleSource, Proper
      <4>2. PICK v \in Versions : v = server.open[f]
          BY <2>2, <4>1 DEF Contents
      <4>3. OpensAt(0, f, v) /\ 0 \in 0..Len(inbox)
          BY <1>4, <4>1, <4>2 DEF OpensAt
      <4>4. ReportedAfter(0, f)
          BY <4>1, <4>2, <4>3 DEF Closing
      <4>5. PICK k \in (0 + 1)..Len(inbox) :
              f \in unseen \/ \E j \in (k + 1)..Len(inbox) : ReportsAt(j, f)
          BY <4>4 DEF ReportedAfter
      <4>6. \A j \in (k + 1)..Len(inbox) : j \in 1..Len(inbox)
          BY <1>4, <4>5
      <4>7. QED
          BY <4>5, <4>6 DEF Reported
    <3>3. QED
        BY <3>1, <3>2
  <2>4. ~server.pending /\ StaleConfig(server, conf)
        => \E l \in WatchedLayers : Reported(l)'
      BY <1>5, <1>8 DEF StaleIsReported
  <2>5. ~server.pending /\ StaleFile(server) => Reported(y)'
      BY <1>5, <1>7, <1>8 DEF StaleIsReported
  <2>6. \A f \in Sources : ~server.pending /\ StaleSource(server', f) => Reported(f)'
      BY <1>5, <1>8, <2>3
  <2>7. StaleConfig(server, conf)' = StaleConfig(server, conf)
      BY <2>2 DEF StaleConfig, KnownTo
  <2>8. ~server.pending /\ StaleFile(server)' => Reported(server.driver.file)'
    <3>1. StaleFile(server)' => StaleFile(server)
        BY <1>3, <2>2 DEF StaleFile
    <3>2. server'.driver.file = y
        BY <1>7, <2>2
    <3>3. QED
        BY <2>5, <3>1, <3>2 DEF Reported, ReportsAt
  <2>9. \A f \in Sources : StaleSource(server, f)' => StaleSource(server', f)
      BY <1>3 DEF StaleSource
  <2>10. QED
      BY <2>2, <2>4, <2>6, <2>7, <2>8, <2>9 DEF StaleIsReported
<1>9. CASE Head(inbox).kind = "watched"
  <2>1. conf' = conf /\
        \/ Reloaded(server', conf)
        \/ /\ ~server.pending /\ server'.config = server.config /\ NoStaler(server, server')
           /\ Arg \cap AllLayers = {}
           /\ (StaleFile(server) => server.driver.file \notin Arg)
           /\ server'.user = server.user
           /\ \A f \in Sources \cap Arg : ~StaleSource(server', f)
      BY <1>2, <1>9 DEF Effect
  <2>2. CASE Reloaded(server', conf)
      BY <1>3, <2>1, <2>2, ReloadedKnows
  <2>3. CASE ~Reloaded(server', conf)
    <3>1. /\ ~server.pending /\ server'.config = server.config /\ NoStaler(server, server')
          /\ server'.user = server.user
          /\ \A l \in WatchedLayers : l \notin Arg
          /\ StaleFile(server) => y \notin Arg
          /\ \A f \in Sources : f \in Arg => ~StaleSource(server', f)
        BY <1>7, <2>1, <2>3 DEF WatchedLayers, AllLayers, StaleFile
    <3>2. StaleConfig(server, conf)
          => \E l \in WatchedLayers : Reported(l)'
        BY <1>5, <3>1 DEF StaleIsReported
    <3>3. StaleConfig(server, conf)' = StaleConfig(server, conf)
        BY <2>1, <3>1 DEF StaleConfig, KnownTo
    <3>4. StaleFile(server') => server'.driver.file = y /\ Reported(y)'
        BY <1>5, <1>7, <3>1 DEF NoStaler, StaleIsReported
    <3>5. \A f \in Sources : StaleSource(server', f) => Reported(f)'
        BY <1>5, <3>1 DEF NoStaler, StaleIsReported
    <3>6. StaleFile(server)' => Reported(server.driver.file)'
      <4>1. StaleFile(server)' => StaleFile(server')
          BY <1>3 DEF StaleFile
      <4>2. QED
          BY <3>4, <4>1 DEF Reported, ReportsAt
    <3>7. \A f \in Sources : StaleSource(server, f)' => StaleSource(server', f)
        BY <1>3 DEF StaleSource
    <3>8. QED
        BY <3>1, <3>2, <3>3, <3>5, <3>6, <3>7 DEF StaleIsReported
  <2>4. QED
      BY <2>2, <2>3
<1>10. QED
    BY <1>6, <1>8, <1>9

LEMMA StaleClient ==
    ASSUME WsInv, StaleIsReported, Client \/ ReportFiles
    PROVE  StaleIsReported'
<1>1. /\ TypeOK /\ Len(inbox) \in Nat /\ disk \in [Builds \cup Sources -> Contents]
      /\ Proper(server)
    BY LenProperties DEF WsInv, TypeOK
<1>2. ASSUME NEW m \in Messages, inbox' = Append(inbox, m),
             \A x \in unseen : x \in unseen' \/ (m.kind = "watched" /\ x \in m.arg)
      PROVE  \A x : Reported(x) => Reported(x)'
  <2>1. PICK n \in Nat : n = Len(inbox) + 1
      BY <1>1
  <2>2. /\ Len(inbox') = n /\ inbox'[n] = m /\ n \in 1..n
        /\ \A k \in 1..Len(inbox) : inbox'[k] = inbox[k] /\ k \in 1..n
      BY <1>1, <1>2, <2>1, Appended
  <2>3. QED
      BY <1>2, <2>2 DEF Reported, ReportsAt
<1>3. ASSUME UNCHANGED inbox, unseen \subseteq unseen' PROVE \A x : Reported(x) => Reported(x)'
    BY <1>3 DEF Reported, ReportsAt
<1>4. PICK y : y = server.driver.file
    OBVIOUS
<1>5. ASSUME UNCHANGED <<conf, disk, server>>, \A x : Reported(x) => Reported(x)'
      PROVE  StaleIsReported'
  <2>1. ~server.pending => /\ StaleConfig(server, conf)
                              => \E l \in WatchedLayers : Reported(l)'
                           /\ StaleFile(server) => Reported(y)'
                           /\ \A f \in Sources : StaleSource(server, f) => Reported(f)'
      BY <1>4, <1>5 DEF StaleIsReported
  <2>2. Reported(y)' => Reported(server.driver.file)'
      BY <1>4, <1>5 DEF Reported, ReportsAt
  <2>3. QED
      BY <1>5, <2>1, <2>2 DEF StaleIsReported, StaleFile, StaleSource, StaleConfig, KnownTo
<1>6. ASSUME NEW l \in AllLayers, NEW c, conf' = [conf EXCEPT ![l] = c],
             unseen' = unseen \cup ({l} \cap WatchedLayers), UNCHANGED <<disk, inbox, server>>
      PROVE  StaleIsReported'
  <2>1. ~server.pending => /\ StaleConfig(server, conf) => \E k \in WatchedLayers : Reported(k)'
                           /\ StaleFile(server) => Reported(y)'
                           /\ \A f \in Sources : StaleSource(server, f) => Reported(f)'
      BY <1>3, <1>4, <1>6 DEF StaleIsReported
  <2>2. Reported(y)' => Reported(server.driver.file)'
      BY <1>4, <1>6 DEF Reported, ReportsAt
  <2>3. CASE l \in WatchedLayers
    <3>1. Reported(l)'
        BY <1>6, <2>3 DEF Reported
    <3>2. QED
        BY <1>6, <2>1, <2>2, <2>3, <3>1 DEF StaleIsReported, StaleFile, StaleSource
  <2>4. CASE l \notin WatchedLayers
    <3>1. l = "user" /\ conf \in [AllLayers -> Settings \cup {Missing, Broken}]
        BY <1>1, <2>4 DEF AllLayers, WatchedLayers, TypeOK
    <3>2. KnownTo(conf', server) = KnownTo(conf, server)
        BY <1>6, <3>1 DEF KnownTo
    <3>3. StaleConfig(server, conf)' => StaleConfig(server, conf)
        BY <1>6, <3>2 DEF StaleConfig, KnownTo
    <3>4. QED
        BY <1>6, <2>1, <2>2, <3>3 DEF StaleIsReported, StaleFile, StaleSource
  <2>5. QED
      BY <2>3, <2>4
<1>7. ASSUME NEW x \in Builds \cup Sources, NEW v \in Contents, disk' = [disk EXCEPT ![x] = v],
             unseen' = unseen \cup {x}, UNCHANGED <<conf, inbox, server>>
      PROVE  StaleIsReported'
  <2>1. Reported(x)' /\ \A z : Reported(z) => Reported(z)'
      BY <1>3, <1>7 DEF Reported
  <2>2. \A z \in Builds \cup Sources : z # x => disk'[z] = disk[z]
      BY <1>1, <1>7
  <2>3. ~server.pending => /\ StaleConfig(server, conf)
                              => \E l \in WatchedLayers : Reported(l)'
                           /\ StaleFile(server) => Reported(y)'
                           /\ \A f \in Sources : StaleSource(server, f) => Reported(f)'
      BY <1>4, <2>1 DEF StaleIsReported
  <2>4. StaleFile(server)' => y = x \/ StaleFile(server)
      BY <1>1, <1>4, <1>7, <2>2 DEF StaleFile, Proper
  <2>5. \A f \in Sources : StaleSource(server, f)' => f = x \/ StaleSource(server, f)
      BY <1>7, <2>2 DEF StaleSource
  <2>6. Reported(y)' => Reported(server.driver.file)'
      BY <1>4, <1>7 DEF Reported, ReportsAt
  <2>7. StaleConfig(server, conf)' = StaleConfig(server, conf)
      BY <1>7 DEF StaleConfig, KnownTo
  <2>8. QED
      BY <1>7, <2>1, <2>3, <2>4, <2>5, <2>6, <2>7 DEF StaleIsReported
<1>8. ASSUME NEW m, Sends(m) PROVE StaleIsReported'
  <2>1. m \in Messages /\ inbox' = Append(inbox, m) /\ UNCHANGED <<conf, disk, server, unseen>>
      BY <1>8 DEF Sends
  <2>2. QED
      BY <1>2, <1>5, <2>1
<1>9. CASE \E m \in Messages :
              /\ m.kind = "watched" /\ m.arg = unseen /\ inbox' = Append(inbox, m)
              /\ UNCHANGED <<conf, disk, editor, server>>
    BY <1>2, <1>5, <1>9
<1>10. QED
    BY <1>1, <1>6, <1>7, <1>8, <1>9, ClientSteps

\* When every change was reported and handled and no reload is pending, the driver has the
\* configuration on disk, with the user's file as it was read last, and the build file and the
\* closed sources that it has read are those on disk: no report is lost to the handler that
\* consumed it, to a failed reload, to a document that was open when the file changed, or to
\* the order of close messages and reports (FileWatchers::dispatch, m_configReloadPending).
THEOREM NoReportIsLost == SafetySpec => []CurrentUnlessPending
<1>1. ASSUME Init PROVE Closing /\ StaleIsReported
  <2>1. /\ UpToDate(server) /\ ~StaleConfig(server, conf)
        /\ \A f \in Sources : server.open[f] = None
      BY <1>1, InitialServer
  <2>2. StaleIsReported
      BY <2>1 DEF StaleIsReported, UpToDate
  <2>3. Closing
    <3>1. inbox = <<>> /\ Len(inbox) = 0 /\ \A i \in 0..Len(inbox) : i = 0
        BY <1>1 DEF Init
    <3>2. QED
        BY <2>1, <3>1 DEF Closing, OpensAt
  <2>4. QED
      BY <2>2, <2>3
<1>2. ASSUME WsInv, Closing, StaleIsReported, [Next]_vars
      PROVE  Closing' /\ StaleIsReported'
  <2>1. CASE Server
      BY <1>2, <2>1, ClosingServer, StaleServer
  <2>2. CASE Client \/ ReportFiles
      BY <1>2, <2>2, ClosingClient, StaleClient
  <2>3. CASE UNCHANGED vars
    <3>1. UNCHANGED <<conf, disk, editor, inbox, unseen, server>>
        BY <2>3 DEF vars
    <3>2. Closing'
        BY <1>2, <3>1 DEF Closing, OpensAt, ClosedAfter, ReportedAfter, ClosesAt, ReportsAt
    <3>3. StaleIsReported'
        BY <1>2, <3>1 DEF StaleIsReported, StaleFile, StaleSource, Reported, ReportsAt,
           StaleConfig, KnownTo
    <3>4. QED
        BY <3>2, <3>3
  <2>4. QED
      BY <1>2, <2>1, <2>2, <2>3 DEF Next
<1>3. ASSUME WsInv, StaleIsReported PROVE CurrentUnlessPending
  <2>1. SUFFICES ASSUME inbox = <<>>, unseen = {}, ~server.pending
                 PROVE  /\ Readable(Known) => server.driver.config = fromFiles(Known)
                        /\ ~StaleFile(server) /\ \A f \in Sources : ~StaleSource(server, f)
      BY DEF CurrentUnlessPending, StaleFile, StaleSource
  <2>2. \A x : ~Reported(x)
      BY <2>1 DEF Reported
  <2>3. QED
      BY <1>3, <2>1, <2>2 DEF StaleIsReported, StaleConfig, KnownTo, Known, WsInv, TypeOK
<1>4. QED
    BY <1>1, <1>2, <1>3, WsInvAlways, PTL DEF SafetySpec
=============================================================================
