---------------------------- MODULE ModpackInstall ----------------------------
(***************************************************************************)
(* The modpack installers of mod_services.rs.  A Modrinth pack is put into *)
(* the live server, a step at a time.  A CurseForge pack, by its manifest  *)
(* or as a server pack, is built in a staging directory, booted there, and *)
(* takes the place of the live server only then.                           *)
(*                                                                         *)
(* The swap itself, its crashes and the answer to a pause are the subject  *)
(* of InstallTransaction and RecoveryFlow: here a commit is one step.  The *)
(* runtime that do_install_server makes is that of ServerInstall: here it  *)
(* is the name of a loader.  A mod is a name with the number of the call   *)
(* that brought it, 0 for none.                                            *)
(*                                                                         *)
(* A definition marked FAULTY is a variant, with a plausible bug, of the   *)
(* definition below it; no action uses it.                                 *)
(***************************************************************************)
EXTENDS Naturals, FiniteSets

CONSTANTS
    Mod,            \* mods; each JAR provides the mod it is named for
    ClientOnly,     \* those whose metadata says so
    Needs,          \* a mod |-> the mods it requires
    Loader,         \* "vanilla" and the loaders of the packs
    MaxInstalls,    \* bound: calls
    MaxFaults       \* bound: failing steps and crashes

None == [m \in Mod |-> 0]
In(mods) == {m \in Mod : mods[m] # 0}
Copies(mods) == {<<m, mods[m]>> : m \in In(mods)}
Without(mods, gone) == [m \in Mod |-> IF m \in gone THEN 0 ELSE mods[m]]
NoPack == [kind |-> "none", loader |-> "vanilla", mods |-> {}]

Step == {"idle", "backup", "prepare", "download", "overrides", "exclude", "repair", "state",
         "validate", "commit", "save", "paused"}

VARIABLES
    profile,    \* the loader that the active profile names
    loader,     \* the loader installed in the live server
    live,       \* its mods
    aside,      \* its .lbby-client-only-mods
    saved,      \* its .lbby-modpack-backups
    staged,     \* the mods in the staging directory
    kept,       \* mods in live servers that a commit has moved away
    pack,       \* the pack of the call
    missing,    \* the dependencies that its exclusion plan misses
    step,
    installs,
    had,        \* history: the live mods when the call began
    faults

server == <<loader, live, aside, saved>>
staging == <<staged, missing>>
vars == <<profile, server, staging, kept, pack, step, installs, had, faults>>

TypeOK ==
    /\ {profile, loader} \subseteq Loader
    /\ {live, staged} \subseteq [Mod -> 0..MaxInstalls + 1]
    /\ \A copies \in {aside, saved, kept, had} : copies \subseteq Mod \X (1..MaxInstalls + 1)
    /\ pack \in [kind : {"none", "modrinth", "manifest", "server"}, loader : Loader, mods : SUBSET Mod]
    /\ missing \subseteq Mod
    /\ step \in Step
    /\ installs \in 0..MaxInstalls
    /\ faults \in 0..MaxFaults

\* A server that was set up, with mods of its own.
Init ==
    /\ profile \in Loader
    /\ loader = profile
    /\ live \in {mods \in [Mod -> {0, 1}] : In(mods) \cap ClientOnly = {}}
    /\ aside = {}
    /\ saved = {}
    /\ staged = None
    /\ kept = {}
    /\ pack = NoPack
    /\ missing = {}
    /\ step = "idle"
    /\ installs = 0
    /\ had = {}
    /\ faults = 0

Works == UNCHANGED faults
Fails == faults < MaxFaults /\ faults' = faults + 1
Goto(s) == step' = s
Version == installs + 1

\* The call is over; what is left of a transaction is rolled back.
Return ==
    /\ step' = "idle"
    /\ staged' = None
    /\ missing' = {}
    /\ pack' = NoPack

-----------------------------------------------------------------------------
\* A server pack has no manifest: its loader is guessed from its libraries,
\* and only for a profile that names none.
Guessed(l) == IF profile = "vanilla" THEN l ELSE profile

\* A Modrinth manifest may say of a client-only mod that servers skip it.
Begin(kind, l, mods) ==
    /\ step = "idle"
    /\ installs < MaxInstalls
    /\ installs' = installs + 1
    /\ \E skipped \in SUBSET (mods \cap ClientOnly) :
          /\ kind # "modrinth" => skipped = {}
          /\ pack' = [kind |-> kind, mods |-> mods \ skipped,
                      loader |-> IF kind = "server" THEN Guessed(l) ELSE l]
    /\ had' = Copies(live)
    /\ Goto("backup")
    /\ UNCHANGED <<profile, server, staging, kept, faults>>

\* backup_modpack_targets: copies of mods, config and server.properties.
TargetsWithoutMods == {} \* FAULTY
Targets == Copies(live)

Backup ==
    /\ step = "backup"
    /\ \/ Works /\ saved' = saved \cup Targets /\ Goto("prepare") /\ UNCHANGED <<staging, pack>>
       \/ Fails /\ UNCHANGED saved /\ Return
    /\ UNCHANGED <<profile, loader, live, aside, kept, installs, had>>

\* prepare_modpack_server: do_install_server, in the live server or in the
\* staging directory, which saves the profile; the JARs of a server of another
\* type go.
Prepare ==
    /\ step = "prepare"
    /\ \/ /\ Works
          /\ profile' = pack.loader
          /\ IF pack.kind = "modrinth"
             THEN /\ loader' = pack.loader
                  /\ live' = IF profile # pack.loader THEN None ELSE live
             ELSE UNCHANGED <<loader, live>>
          /\ Goto("download")
          /\ UNCHANGED <<staging, pack>>
       \/ Fails /\ UNCHANGED <<profile, loader, live>> /\ Return
    /\ UNCHANGED <<aside, saved, kept, installs, had>>

-----------------------------------------------------------------------------
\* Modrinth: a file of the manifest after the other, each with its digest; the
\* first that fails ends the call, with the others in place.
DownloadFile(m) ==
    /\ step = "download"
    /\ pack.kind = "modrinth"
    /\ m \in pack.mods
    /\ \/ /\ Works
          /\ live' = [live EXCEPT ![m] = Version]
          /\ pack' = [pack EXCEPT !.mods = @ \ {m}]
          /\ UNCHANGED <<staging, step>>
       \/ Fails /\ UNCHANGED live /\ Return
    /\ UNCHANGED <<profile, loader, aside, saved, kept, installs, had>>

FilesDone ==
    /\ step = "download"
    /\ pack.kind = "modrinth"
    /\ pack.mods = {}
    /\ Goto("overrides")
    /\ UNCHANGED <<profile, server, staging, kept, pack, installs, had, faults>>

\* CurseForge: files that have no address or do not arrive are passed over, as
\* long as some file is there at the end.  A server pack is unpacked as it is.
DownloadAll ==
    /\ step = "download"
    /\ pack.kind # "modrinth"
    /\ \E got \in SUBSET pack.mods :
          /\ IF got = pack.mods THEN Works ELSE Fails
          /\ IF got # pack.mods /\ (got = {} \/ pack.kind = "server")
             THEN Return
             ELSE /\ staged' = [m \in Mod |-> IF m \in got THEN Version ELSE 0]
                  /\ Goto("overrides")
                  /\ UNCHANGED <<missing, pack>>
    /\ UNCHANGED <<profile, server, kept, installs, had>>

Overrides ==
    /\ step = "overrides"
    /\ \/ Works /\ Goto("exclude") /\ UNCHANGED <<staging, pack>>
       \/ Fails /\ Return
    /\ UNCHANGED <<profile, server, kept, installs, had>>

-----------------------------------------------------------------------------
\* mod_side.rs: the client-only mods go, and what needs one of them, in one round.
Quarantined(mods) ==
    LET client == In(mods) \cap ClientOnly
    IN client \cup {m \in In(mods) : Needs[m] \cap client # {}}

QuarantineLive ==
    /\ step = "exclude"
    /\ pack.kind = "modrinth"
    /\ \E gone \in SUBSET Quarantined(live) :
          /\ IF gone = Quarantined(live) THEN Works ELSE Fails
          /\ aside' = aside \cup {<<m, live[m]>> : m \in gone}
          /\ live' = Without(live, gone)
    /\ Return
    /\ UNCHANGED <<profile, loader, saved, kept, installs, had>>

\* What cannot be moved, of a server pack, is left where it is.
QuarantineStaged ==
    /\ step = "exclude"
    /\ pack.kind = "server"
    /\ \E gone \in SUBSET Quarantined(staged) :
          /\ IF gone = Quarantined(staged) THEN Works ELSE Fails
          /\ staged' = Without(staged, gone)
    /\ Goto("state")
    /\ UNCHANGED <<profile, server, missing, kept, pack, installs, had>>

\* The exclusion plan (ModMetadata): the client-only mods go, as far as each
\* can be moved; what a retained mod needs and no JAR provides is missing.
Retained == In(staged) \ ClientOnly
Missing == UNION {Needs[m] : m \in Retained} \ In(staged)

Exclude ==
    /\ step = "exclude"
    /\ pack.kind = "manifest"
    /\ \E gone \in SUBSET (In(staged) \cap ClientOnly) :
          /\ IF gone = In(staged) \cap ClientOnly THEN Works ELSE Fails
          /\ staged' = Without(staged, gone)
    /\ missing' = Missing
    /\ Goto("repair")
    /\ UNCHANGED <<profile, server, kept, pack, installs, had>>

\* The repair before the boot, MAX_REPAIR_ROUNDS = 1: the project of a missing
\* mod is looked up among those whose JARs are in the staging directory, so
\* nothing that is missing is ever found.
Mapped == In(staged)

Repair ==
    /\ step = "repair"
    /\ \E found \in SUBSET (missing \cap Mapped) :
          staged' = [m \in Mod |-> IF m \in found THEN Version ELSE staged[m]]
    /\ Goto("state")
    /\ UNCHANGED <<profile, server, missing, kept, pack, installs, had, faults>>

-----------------------------------------------------------------------------
\* copy_persistent_state, and the attempts made before a pause.
State ==
    /\ step = "state"
    /\ \/ Works /\ Goto("validate") /\ UNCHANGED <<staging, pack>>
       \/ Fails /\ Return
    /\ UNCHANGED <<profile, server, kept, installs, had>>

\* The orchestrator's outcomes; that it may ask the user is RecoveryFlow's.
Validate ==
    /\ step = "validate"
    /\ \/ Goto("commit") /\ UNCHANGED <<staging, pack>>
       \/ Goto("paused") /\ UNCHANGED <<staging, pack>>
       \/ Return
    /\ UNCHANGED <<profile, server, kept, installs, had, faults>>

\* resume_curseforge_install after an approval, or the rejection.
Resume ==
    /\ step = "paused"
    /\ \/ Goto("state") /\ UNCHANGED <<staging, pack>>
       \/ Return
    /\ UNCHANGED <<profile, server, kept, installs, had, faults>>

\* The whole directory is moved away, with its backups and its quarantine.
Commit ==
    /\ step = "commit"
    /\ \/ /\ Works
          /\ kept' = kept \cup Copies(live) \cup saved \cup aside
          /\ loader' = pack.loader
          /\ live' = staged
          /\ saved' = {}
          /\ aside' = {}
          /\ Goto("save")
          /\ UNCHANGED <<staging, pack>>
       \/ Fails /\ UNCHANGED <<server, kept>> /\ Return
    /\ UNCHANGED <<profile, installs, had>>

Save ==
    /\ step = "save"
    /\ \/ Works /\ profile' = pack.loader
       \/ Fails /\ UNCHANGED profile
    /\ Return
    /\ UNCHANGED <<server, kept, installs, had>>

\* The transactions that no call owns are rolled back at the next start, but
\* for those that wait for the user.
Crash ==
    /\ step \notin {"idle", "paused"}
    /\ Fails
    /\ Return
    /\ UNCHANGED <<profile, server, kept, installs, had>>

Next ==
    \/ \E kind \in {"modrinth", "manifest", "server"}, l \in Loader, mods \in SUBSET Mod :
          Begin(kind, l, mods)
    \/ Backup \/ Prepare
    \/ \E m \in Mod : DownloadFile(m)
    \/ FilesDone \/ DownloadAll \/ Overrides
    \/ QuarantineLive \/ QuarantineStaged \/ Exclude \/ Repair
    \/ State \/ Validate \/ Resume \/ Commit \/ Save \/ Crash

Spec == Init /\ [][Next]_vars

-----------------------------------------------------------------------------
\* Whatever a pack install overwrites, removes or sets aside, and wherever it
\* stops, a copy of each mod that was in the live server is on the disk.
OldModsAreKept ==
    had \subseteq Copies(live) \cup aside \cup saved \cup kept

(***************************************************************************)
(* Properties that the code does not have.                                 *)
(***************************************************************************)

\* install_transaction.rs:3-5 says that a failed install leaves the live
\* server untouched.  Its files, it does; but a start runs what the active
\* profile names, and that is the loader of the pack once the staging
\* directory is prepared.
LiveStartsAsBefore == step = "idle" => profile = loader

\* A server that a pack install has finished has no client-only mod.
ServedIsServerSide == step = "save" => In(live) \cap ClientOnly = {}
=============================================================================
