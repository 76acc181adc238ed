----------------------------- MODULE ServerInstall -----------------------------
(***************************************************************************)
(* do_install_server (server.rs): one call puts the program of a server of *)
(* the asked type and version into the server's directory and saves the    *)
(* profile as set up.  Most types are one downloaded server.jar; Forge and *)
(* NeoForge run an installer in a directory of its own, whose entries then *)
(* take the place of those in the server's directory, one rename each.     *)
(*                                                                         *)
(* A version is a positive number, 0 is an entry that is not there.        *)
(*                                                                         *)
(* Definitions marked FAULTY are variants, with a plausible bug, of the    *)
(* definition below them; no action uses them.                             *)
(***************************************************************************)
EXTENDS Naturals, FiniteSets

CONSTANTS
    Type,       \* some of Vanilla, Fabric, Paper, Spigot, Forge, SpongeForge, Terraria
    Version,    \* the versions of each
    Legacy,     \* those whose installer makes a launcher jar, no run script
    MaxFaults   \* bound: failing steps and crashes

IsLoader(type) == type \in {"Forge", "NeoForge"}
RunsInstaller(type) == IsLoader(type) \/ type = "SpongeForge"

\* Where the JARs of a type are kept (mods_dir), and where an install looks
\* for those of the old type.
Plugins == {"Paper", "Spigot"}
DirOf(type) == IF type \in Plugins THEN "plugins" ELSE "mods"
CleanedDir(type) == IF type = "Paper" THEN "plugins" ELSE "mods"

\* The JARs in its directory that a type can load, or does not look at.
Loads(type) ==
    CASE type \in {"Forge", "SpongeForge"} -> {"Forge", "SpongeForge"}
      [] type = "Fabric" -> {"Fabric"}
      [] type \in Plugins -> Plugins
      [] OTHER -> Type

Entry == {"libraries", "run", "launcher", "arguments"}
Absent == [e \in Entry |-> 0]
Files(v) == IF v \in Legacy THEN {"libraries", "launcher"} ELSE {"libraries", "run", "arguments"}

NoJar == [type |-> "none", version |-> 0]
TornJar == [type |-> "torn", version |-> 0]
Jar == [type : Type, version : Version] \cup {NoJar, TornJar}

Idle == [step |-> "idle", type |-> "none", version |-> 0]
Step == {"java", "jar", "build", "terraria", "clean", "fetch", "run", "commit", "undo", "back",
         "detect", "sponge", "switch", "common", "check", "save"}

VARIABLES
    cfg,        \* the saved profile
    jar,        \* server.jar, or the program of Terraria
    entry,      \* the version of each entry of the loader's runtime
    marker,     \* .lbby-modloader-version
    extras,     \* the types that the JARs in mods and in plugins are made for
    cache,      \* the versions whose installer is cached
    staged,     \* the entries in the installer's directory
    rollback,   \* .lbby-runtime-rollback: what was moved away
    installed,  \* the entries that this commit has put into place
    before,     \* history: the runtime when the commit began
    call,
    faults

runtime == <<entry, marker>>
commit == <<staged, rollback, installed, before>>
vars == <<cfg, jar, runtime, extras, cache, commit, call, faults>>

TypeOK ==
    /\ cfg \in [type : Type, version : Version, setup : BOOLEAN]
    /\ jar \in Jar
    /\ {entry, staged, rollback, before} \subseteq [Entry -> Version \cup {0}]
    /\ marker \in Version \cup {0}
    /\ extras \in [{"mods", "plugins"} -> SUBSET Type]
    /\ cache \subseteq Version
    /\ installed \subseteq Entry
    /\ call \in {Idle} \cup [step : Step, type : Type, version : Version]
    /\ faults \in 0..MaxFaults

Init ==
    /\ cfg \in [type : Type, version : Version, setup : {FALSE}]
    /\ jar = NoJar
    /\ entry = Absent
    /\ marker = 0
    /\ extras = [d \in {"mods", "plugins"} |-> {}]
    /\ cache = {}
    /\ staged = Absent
    /\ rollback = Absent
    /\ installed = {}
    /\ before = Absent
    /\ call = Idle
    /\ faults = 0

Works == UNCHANGED faults
Fails == faults < MaxFaults /\ faults' = faults + 1
Goto(step) == call' = [call EXCEPT !.step = step]
Return == call' = Idle

-----------------------------------------------------------------------------
\* detect_modloader_launch: the run script with the arguments file of the very
\* version in its libraries, or the launcher jar of the version.
DetectedScript(e, v) == e["run"] # 0 \/ e["launcher"] = v \* FAULTY
Detected(e, v) ==
    \/ e["run"] # 0 /\ e["libraries"] = v /\ v \notin Legacy
    \/ e["launcher"] = v

\* What a start would run is what the profile says.
Starts(c) ==
    IF IsLoader(c.type)
    THEN \/ entry["run"] # 0 /\ entry["libraries"] = c.version /\ c.version \notin Legacy
         \/ entry["launcher"] = c.version
    ELSE jar = [type |-> c.type, version |-> c.version]

-----------------------------------------------------------------------------
Begin(type, version) ==
    /\ call = Idle
    /\ call' = [step |-> IF type = "Terraria" THEN "terraria" ELSE "java", type |-> type, version |-> version]
    /\ UNCHANGED <<cfg, jar, runtime, extras, cache, commit, faults>>

\* The required Java is downloaded, or another of exactly that major is there.
Java ==
    /\ call.step = "java"
    /\ \/ Works /\ Goto(CASE RunsInstaller(call.type) -> "clean"
                          [] call.type = "Spigot" -> "build"
                          [] OTHER -> "jar")
       \/ Fails /\ Return
    /\ UNCHANGED <<cfg, jar, runtime, extras, cache, commit>>

\* download_to_file renames a finished download over the jar.
DownloadJar ==
    /\ call.step = "jar"
    /\ \/ Works /\ jar' = [type |-> call.type, version |-> call.version] /\ Goto("switch")
       \/ Fails /\ UNCHANGED jar /\ Return
    /\ UNCHANGED <<cfg, runtime, extras, cache, commit>>

\* BuildTools compiles in a temporary directory; its jar is copied into place.
Build ==
    /\ call.step = "build"
    /\ \/ Works /\ jar' = [type |-> call.type, version |-> call.version] /\ Goto("switch")
       \/ Fails /\ jar' \in {jar, TornJar} /\ Return
    /\ UNCHANGED <<cfg, runtime, extras, cache, commit>>

\* A tModLoader or Terraria that is already on the machine is copied, whether
\* the copy succeeds or not; SteamCMD downloads one otherwise.
Terraria ==
    /\ call.step = "terraria"
    /\ \/ Works /\ jar' = [type |-> call.type, version |-> call.version] /\ Goto("switch")
       \/ Fails /\ jar' = TornJar /\ Goto("switch")
       \/ Fails /\ UNCHANGED jar /\ Return
    /\ UNCHANGED <<cfg, runtime, extras, cache, commit>>

-----------------------------------------------------------------------------
(***************************************************************************)
(* install_modloader_transactional.                                        *)
(***************************************************************************)

\* Another version than that of the marker, or libraries without a marker.
NeedsClean == IF marker = 0 THEN entry["libraries"] # 0 ELSE marker # call.version

Clean ==
    /\ call.step = "clean"
    /\ \/ Works /\ NeedsClean /\ entry' = [entry EXCEPT !["run"] = 0, !["libraries"] = 0]
       \/ Works /\ ~NeedsClean /\ UNCHANGED entry
       \/ Fails /\ NeedsClean /\ entry' = [entry EXCEPT !["run"] = 0]
    /\ Goto("fetch")
    /\ UNCHANGED <<cfg, jar, marker, extras, cache, commit>>

\* cached_modloader_installer: a part of its own, checked, is renamed into the cache.
Fetch ==
    /\ call.step = "fetch"
    /\ \/ Works /\ cache' = cache \cup {call.version} /\ Goto("run")
       \/ Fails /\ call.version \notin cache /\ UNCHANGED cache /\ Return
    /\ UNCHANGED <<cfg, jar, runtime, extras, commit>>

\* The installer, in its own directory; it may end well with half of its files.
RunInstaller ==
    /\ call.step = "run"
    /\ \E made \in {Files(call.version), Files(call.version) \ {"libraries", "launcher"}} :
          LET files == [e \in Entry |-> IF e \in made THEN call.version ELSE 0]
          IN \/ /\ Works /\ Detected(files, call.version)
                /\ staged' = files
                /\ before' = entry
                /\ Goto("commit")
             \/ Works /\ ~Detected(files, call.version) /\ UNCHANGED <<staged, before>> /\ Return
             \/ Fails /\ UNCHANGED <<staged, before>> /\ Return
    /\ UNCHANGED <<cfg, jar, runtime, extras, cache, rollback, installed>>

-----------------------------------------------------------------------------
(***************************************************************************)
(* commit_modloader_runtime, an entry at a time, in no particular order.   *)
(***************************************************************************)

Waiting == {e \in Entry : staged[e] # 0} \ installed
Skipped(e) == e = "arguments" /\ entry[e] # 0

\* What is in the way is renamed into the rollback directory, and counted as
\* backed up at once; then the new entry is renamed into place.
CountedLate(e) == UNCHANGED rollback \* FAULTY
Counted(e) == rollback' = [rollback EXCEPT ![e] = entry[e]]

Place(e) ==
    /\ call.step = "commit"
    /\ e \in Waiting
    /\ IF Skipped(e)
       THEN /\ Works
            /\ staged' = [staged EXCEPT ![e] = 0]
            /\ UNCHANGED <<entry, rollback, installed, call>>
       ELSE /\ UNCHANGED staged
            /\ \/ /\ Works
                  /\ entry' = [entry EXCEPT ![e] = staged[e]]
                  /\ rollback' = [rollback EXCEPT ![e] = entry[e]]
                  /\ installed' = installed \cup {e}
                  /\ UNCHANGED call
               \/ /\ Fails
                  /\ UNCHANGED <<entry, rollback, installed>>
                  /\ Goto("undo")
               \/ /\ Fails
                  /\ entry' = [entry EXCEPT ![e] = 0]
                  /\ Counted(e)
                  /\ UNCHANGED installed
                  /\ Goto("undo")
    /\ UNCHANGED <<cfg, jar, marker, extras, cache, before>>

\* Both directories are removed when the commit is over.
Removed ==
    /\ staged' = Absent
    /\ rollback' = Absent
    /\ installed' = {}
    /\ before' = Absent

Placed ==
    /\ call.step = "commit"
    /\ Waiting = {}
    /\ Goto("detect")
    /\ Removed
    /\ UNCHANGED <<cfg, jar, runtime, extras, cache, faults>>

\* What was installed goes, as far as it can be removed ...
Undo ==
    /\ call.step = "undo"
    /\ \/ Works /\ entry' = [e \in Entry |-> IF e \in installed THEN 0 ELSE entry[e]]
       \/ Fails /\ UNCHANGED entry
    /\ Goto("back")
    /\ UNCHANGED <<cfg, jar, marker, extras, cache, commit>>

\* ... and what was moved away comes back, as far as it can be renamed; the
\* rollback directory is removed whether they did or not.
Back ==
    /\ call.step = "back"
    /\ \/ Works /\ entry' = [e \in Entry |-> IF rollback[e] # 0 THEN rollback[e] ELSE entry[e]]
       \/ Fails /\ UNCHANGED entry
    /\ Removed
    /\ Return
    /\ UNCHANGED <<cfg, jar, marker, extras, cache>>

\* The marker is written last, if it can be.
Detect ==
    /\ call.step = "detect"
    /\ IF Detected(entry, call.version)
       THEN /\ \/ Works /\ marker' = call.version
               \/ Fails /\ UNCHANGED marker
            /\ Goto(IF call.type = "SpongeForge" THEN "sponge" ELSE "switch")
       ELSE Works /\ UNCHANGED marker /\ Return
    /\ UNCHANGED <<cfg, jar, entry, extras, cache, commit>>

Sponge ==
    /\ call.step = "sponge"
    /\ \/ Works /\ extras' = [extras EXCEPT !["mods"] = @ \cup {"SpongeForge"}] /\ Goto("switch")
       \/ Fails /\ UNCHANGED extras /\ Return
    /\ UNCHANGED <<cfg, jar, runtime, cache, commit>>

-----------------------------------------------------------------------------
(***************************************************************************)
(* What all types have in common.                                          *)
(***************************************************************************)

\* The JARs of a set-up server of another type go, from its directory and
\* from that of the new type.
SwitchesLoader == cfg.setup /\ IsLoader(cfg.type) /\ IsLoader(call.type) \* FAULTY
Switches == cfg.setup /\ cfg.type # call.type
Emptied(d) == Switches /\ d \in {CleanedDir(cfg.type), CleanedDir(call.type)}

Switch ==
    /\ call.step = "switch"
    /\ extras' = [d \in {"mods", "plugins"} |->
          IF Emptied(d) THEN {} ELSE extras[d]]
    /\ Goto("common")
    /\ UNCHANGED <<cfg, jar, runtime, cache, commit, faults>>

\* The EULA, the properties, or the configuration of Terraria.
Common ==
    /\ call.step = "common"
    /\ \/ Works /\ Goto("check")
       \/ Fails /\ Return
    /\ UNCHANGED <<cfg, jar, runtime, extras, cache, commit>>

\* Is there something to start?  Of a server.jar only the size is looked at,
\* for SpongeForge too.
Check ==
    /\ call.step = "check"
    /\ IF (IF IsLoader(call.type) THEN Detected(entry, call.version) ELSE jar # NoJar)
       THEN Goto("save") ELSE Return
    /\ UNCHANGED <<cfg, jar, runtime, extras, cache, commit, faults>>

Save ==
    /\ call.step = "save"
    /\ \/ Works /\ cfg' = [type |-> call.type, version |-> call.version, setup |-> TRUE]
       \/ Fails /\ UNCHANGED cfg
    /\ Return
    /\ UNCHANGED <<jar, runtime, extras, cache, commit>>

\* The user adds a mod or a plugin made for the server.
AddExtra ==
    /\ call = Idle
    /\ cfg.setup
    /\ cfg.type \in Plugins \cup {"Fabric", "Forge", "SpongeForge"}
    /\ extras' = [extras EXCEPT ![DirOf(cfg.type)] = @ \cup {cfg.type}]
    /\ UNCHANGED <<cfg, jar, runtime, cache, commit, call, faults>>

\* Nobody looks at the two directories, named by an UUID, after a restart.
Crash ==
    /\ call # Idle
    /\ Fails
    /\ jar' \in {jar} \cup (IF call.step = "build" THEN {TornJar} ELSE {})
    /\ Return
    /\ Removed
    /\ UNCHANGED <<cfg, runtime, extras, cache>>

Next ==
    \/ \E type \in Type, version \in Version : Begin(type, version)
    \/ Java \/ DownloadJar \/ Build \/ Terraria
    \/ Clean \/ Fetch \/ RunInstaller
    \/ \E e \in Entry : Place(e)
    \/ Placed \/ Undo \/ Back \/ Detect \/ Sponge
    \/ Switch \/ Common \/ Check \/ Save \/ AddExtra \/ Crash

Spec == Init /\ [][Next]_vars

-----------------------------------------------------------------------------
\* A commit of a loader that fails in one rename leaves the runtime as it was.
RuntimeIsRestored ==
    [][call.step = "back" /\ faults' = 1 => entry' = before]_vars

\* When a profile is saved as set up, what a start would run is what it says.
SavedStarts ==
    [][cfg' # cfg /\ cfg'.type \notin {"SpongeForge", "Terraria"} => Starts(cfg)']_vars

\* A server of another type than the one before finds no mods or plugins in its
\* directory that it cannot load.
ExtrasFit ==
    [][cfg.setup /\ cfg'.type # cfg.type
       => extras'[DirOf(cfg'.type)] \subseteq Loads(cfg'.type)]_vars

(***************************************************************************)
(* Properties that the code does not have.                                 *)
(***************************************************************************)

\* A set-up server can be started until it is installed anew: today the clean
\* of another version's runtime comes before the download of the new one.
SetupStarts == call = Idle /\ cfg.setup => Starts(cfg)

\* A set-up SpongeForge has its Sponge: it is downloaded before the JARs of
\* the old type are removed, and a server.jar, which it does not need, is
\* asked for.
SpongeStays == [][cfg' # cfg /\ cfg'.type = "SpongeForge" => "SpongeForge" \in extras["mods"]]_vars
=============================================================================
