# Verification of lbby-core

lbby-core is the library behind a desktop application and an agent that run game servers (Minecraft,
Terraria and others) on the user's machine: it installs server programs, mods, plugins and modpacks,
boot-validates modpacks, recovers from crashes that a mod causes, starts, watches and restarts the server
process, and keeps profiles, backups, tunnels and statistics.  This directory holds TLA+ models of it, the
TLC instances that check them, and TLAPS proofs about them.  `src/` below is the repository; a place such as
`server.rs:187` is `src/src/server.rs`, line 187.

## 1. Inventory

The library has no process of its own.  A host (the application, the agent, or the LAN remote control
server of `remote.rs`) calls it from several tasks; the tasks share `AppState`, a struct of mutexes
(`app_state.rs`), and the file system.  Almost every mutex is taken and released several times in one
operation, so operations interleave between lock regions; almost every operation is a sequence of renames
and saves, so a crash may come between any two of them.

| Component | State | Operations | Module |
|---|---|---|---|
| Install transaction (`install_transaction.rs`) | `.lbby-staging/<server>-<txn>` with `transaction.json`, its `-backup`, the live directory | begin, world copy, pause, resume, rollback, Drop, commit | InstallTransaction |
| Startup reconciliation (`reconciliation.rs`) | none; reads staging and backups | discover, reconcile | InstallTransaction |
| Operation guard (`app_state.rs`) | `current_operation` | acquire (fails at once if taken), Drop | InstallTransaction, PluginLifecycle |
| Server lifecycle (`server.rs`) | `ServerManager`, pid file, session lock, the process | start, stop, force stop, restart, reader, automatic restart | ServerLifecycle |
| Tasks beside a server (`server.rs`, `stats.rs`) | players, samples, speed | reader, sampler, speed question | ServerMonitor |
| Server install (`server.rs`) | the server's program, loader runtime, `mods` and `plugins` | do_install_server | ServerInstall |
| Pregeneration (`server.rs`) | `PregenState` | start, batches, cancel | Pregeneration |
| Validation and recovery (`validation_orchestrator.rs`, `recovery_actions.rs`) | retry state in memory and on disk, `pending_recovery.json` | validate, repair, approve, reject, resume | RecoveryFlow |
| Mod quarantine (`recovery_actions.rs`) | `.lbby-quarantine`, its metadata, a lock for each server | record, preserve, list, restore | QuarantineRestore, QuarantineListing |
| Boot validation (`boot_validator.rs`) | the staged `server.properties`, its marker, the process | overlay, boot, read, stop, undo | BootValidation |
| Boot failure analysis (`boot_failure_analyzer.rs`, `dependency_resolver.rs`) | the staged mods | read a log, confirm, resolve, download, keep or remove | BootRepair |
| Crash attribution (`crash_attribution.rs`) | none | log and JAR index to a blamed mod | CrashAttribution |
| Loader advice (`loader_compat_advisor.rs`) | none | constraints to a verdict | ModMetadata |
| Mod metadata (`jar_metadata.rs`, `mod_compat.rs`, `dependency_graph.rs`) | none | merge metadata, build the graph, plan exclusions | ModMetadata |
| Runtime remediation (`runtime_remediator.rs`) | the configured Java, budgets | classify, choose, repair | RuntimeRepair |
| Java runtime (`java.rs`, `server_launch.rs`, `forge.rs`) | the shared Java directory | resolve, find, download, unpack | JavaRuntime |
| Mods (`mod_services.rs`) | `mods`, receipts | install, update, add, remove, auto-fix | ModOps |
| Modpack install (`mod_services.rs`) | the live and the staged tree | three installers | ModpackInstall |
| Modpack discovery (`modpack_discovery.rs`, `mod_services.rs`) | none | list and resolve versions, check a file, read a link | PackDiscovery |
| Mod side (`mod_side.rs`) | `mods`, the aside directory, a cache of safe files | scan | ModSide |
| Plugins (`plugin_services.rs`) | `plugins`, receipts, backups | install, update, batch, remove, add | PluginLifecycle, PluginCatalog |
| tModLoader mods (`tmod_services.rs`, `steamcmd.rs`) | `Mods`, `enabled.json`, `install.txt`, SteamCMD | import, toggle, Workshop, modpacks | TModMods |
| Backup (`backup.rs`) | archives, staging and rollback directories | create, restore | DirectoryBackup |
| Profiles and cache (`config.rs`, `file_cache.rs`) | `profiles.json`, a cache by its time, directories | load, change, save, profile operations | Profiles |
| Server properties (`minecraft_properties.rs`) | `server.properties` | patch, merge, create | ServerProperties |
| Tunnels and remote control (`cloudflare.rs`, `playit.rs`, `remote.rs`) | child process, tunnel state, saved address, token | start, stop, the waiter | RemoteAccess |
| Heartbeat and licence (`heartbeat.rs`, `license.rs`) | the stored licence, cadence | beat, activate, sign out | Heartbeat |
| Player statistics (`player_stats.rs`) | `players.db` | join, leave, death, reset of open sessions | PlayerStats |
| Player data (`player_actions.rs`) | two caches by file times | look up a UUID, read a player | PlayerData |
| Node API (`node_api.rs`) | an instance directory | prepare, start, stop, delete | NodeInstance |
| Atomic persistence (`atomic_persistence.rs`) | a target and its `.json.tmp` | write, read | AtomicPersistence |
| Terraria configuration, AutoMod pack, version lists, helpers and reports, smoke programs | | | see section 7 |

How they interact.  The installers of `mod_services.rs` begin a transaction, build a tree with what
ServerInstall and ModMetadata stand for, have it validated (RecoveryFlow, each boot of which is a
BootValidation, each failure of which is read by BootRepair, CrashAttribution and RuntimeRepair), and commit.  A
start of a server scans its mods (ModSide), finds a Java (JavaRuntime), patches `server.properties` and leaves
the tasks of ServerMonitor running.  Everything that is saved as JSON goes through AtomicPersistence, except
where a module says that it is written in place.

What is hard: two starts of one server, a stop that races an exit or an automatic restart, a restart that
has become stale while it slept (server); a crash or a failing operation between the two renames of a
commit, a marker that moves with its directory (transaction); budgets that must survive a pause, an
approval that arrives at the wrong time, a user's answer about a tree that has changed (recovery); a check
that is stale when its result is used (restore, plugins); a file under a name that another download owns
(mods, plugins, repair); a cache valid by a time that was read too late (profiles, players); a task that
outlives the thing it watches (monitor, tunnel, heartbeat).  PROJECT.json lists each of these hazards at its
line, with the properties that watch for it.

What makes each component correct, in words:

- *Transaction*: only a tree that was validated as it stands serves; no world, installed build or paused
  transaction is lost by a crash or a failure; a lost live directory is reported at the next start.
- *Server*: one server at a time, a status that agrees with it, a stop that ends it and is not mistaken for
  a crash, no stale automatic restart, no server without a reader; one sampler and one question of its speed.
  Each of these is what the code keeps of a server whose output it can read and that takes what is written to it;
  section 4 has what it does with the others.
- *Recovery*: every boot but the first is paid for by a repair, validations end, a pause has its question until
  the user rejects it, a resume runs what was approved; a commit is of the tree as it was built, without a
  validation's overlay.
- *Quarantine*: one provider of each mod, no lost record, no leftovers of a failed restore.
- *Diagnosis*: a repair keeps only a mod that was missing, an innocent mod is not offered for removal, an
  exclusion plan leaves no server mod without what it needs, a loader verdict agrees with every constraint.
- *Mods and plugins*: a file has the identity that its bytes earn, an install brings what it requires, an
  update that fails leaves a version (plugins do; mods do not, see section 4), one copy of each.
- *Files*: no two trees in one server, no half of a Java, a profile list or a marker; a change is not written over.
- *Services*: no second tunnel on a port, no session counted twice, no licence that lapses early, a dashboard
  and a player dialog that show what is there.

## 2. Modules

A module stands for one component; its actions carry the names of the functions they model.  Definitions
marked FAULTY are unused variants with a plausible bug: putting one in the place of the definition below it
must break the property that watches for the bug.  PROJECT.json maps every definition to its lines.  A
property that the code lacks is stated at the end of its module, under that heading, and explained in
section 4.

Common reductions: bytes are a model value that says whose they are; a version, a name or a date is a number
or a name; each file-system operation is one step, which works or fails, and so is each save (AtomicPersistence
says why), unless the code writes a file in place; a crash empties the memory of the component and leaves its
files.

### DirectorySwap, InstallTransaction

`DirectorySwap` is what replacing the server directory promises: a build that serves is only ever taken
down into a free slot, a build is put up on an empty path, or a kept one is brought back.

`InstallTransaction` models one server.  `live`, `staging[t]`, `backup[t]` and `marker[t]` are the
directories and `transaction.json` files; a tree is reduced to its build, whether a boot validation passed
on it *as it stands*, and the version of its world.  A flow is a call of the installer, of resume or of
reject; `meta[f]` is its `InstallTransaction` value, `pc[f]` the file-system operation it does next.  Each
operation succeeds or fails (`Works`, `Fails`), and `Crash` may come between any two: it empties memory and
nothing else.  `Save` recreates a missing staging directory, as `create_dir_all` does.  The error closures
of commit (put the backup back, forget the commit, save Building, let Drop roll back) are `CommitFails`,
`UndoCommit` and `Drop`.  `Play` is the game server saving its world, and `played` remembers
that it did since the last flow began.  `Reconcile`, `Seen` and
`BackupExists` are what the startup report computes from the disk.  `Approve` takes no guard, so it comes at any
time, as in the code; CommitIsPrepared says what keeps it from the tree that a running flow validates.

Reductions: a validation is one step with a free verdict (its loop is RecoveryFlow); the build is downloaded
in one step; a removal that fails may or may not have removed the marker.  `Reject` comes here while no flow runs,
though the code takes no guard for it either: a rejection that meets a resume is in RecoveryFlow, and section 4
has what it does.  A marker is readable and of this version's schema, since each save is whole or fails, so that
the phases Corrupt and UnsupportedSchema of the report do not come up.  That a marker is never
`Committed` while it is in staging is a fact of the model and of the code: the phase is set in memory after
the rename that takes the marker away, so the branch of reconciliation that cleans up committed stagings
does not run.

### ServerLifecycle

One game server.  `status, pid, stopRequested, generation` are the fields of `ServerManager`; an action is what
runs between taking and releasing its mutex.  A task is a call of the API, or the reader of a process, which may
turn into a start of its own.  `CanStart`, `IsStopped` and `MarkStarting` are three steps because the code takes
the lock three times.  `captured[p]` is what the reader of `p` captured at the end of the stream.  Processes are
`unborn`, `booting`, `listening`, `ready` (it has said so) or `dead`; while one listens, `check_port_available`
fails for another.  The operating system's part (`Exit`) is a free choice.

Two things that a game server may do have CONSTANTS of their own.  A process of `Hanging` may stop reading its
stdin (`Hang`): a write into its full pipe, which the code awaits with the mutex held (a stop at
`server.rs:781`, a console command at 744, the question for the speed, a batch of the pregeneration), waits
until the process ends, and `holder` is who waits (`RequestWaits`, `Command`).  A process of `Garbling` may write a
line that is not UTF-8, at which the loop of its reader ends as at its exit (`ReadError`, `server.rs:406`):
it runs on, is in `unread` from then on, and is no longer `Known`.

Two assumptions are CONSTANTS as well.  `Overlap`: calls may overlap, which the host's guard excludes and the
remote control server's calls do not (`remote.rs:610` takes no guard).  `Prompt`: exits and expired timers come
only when no task can run, and calls begin and go on only when nobody keeps the mutex either; it stands for the
runtime scheduling a ready task long before a three-second sleep or a user's next click.  A call that waits for
a hung server's mutex outlasts that, and section 4 has what happens when it wakes.  The properties that need one
of them are checked in `server_guarded`, and the ones that do not in `server`, where tasks are delayed at will.

### RecoveryFlow

Servers whose directories share a parent, their transactions, and one flow at a time (the guard).  `orch` is
the orchestrator's retry state; `staged` and `live` are the two places `.lbby-retry-state.json` is saved:
an install names the staged tree, a resume the live server, as `cfg2.server_path` does.  `loaded` remembers
what validation began with.  A boot succeeds or fails for a reason chosen freely; `Classify` decides as the
code does what a failure may lead to (dependency repair, runtime repair, a blamed mod, giving up).
`Approve` and `Reject` run at any time, also between two steps of a flow: neither takes a guard or looks at the
phase first.  A rejection removes the staging directory; a flow that has the transaction in memory does not notice,
and its next save of a marker makes the directory again.  `rejected` is the transactions that were rejected, and with
`boots` and `approvals`, which count per transaction, is read only by properties.

Reductions: a commit is one step (InstallTransaction has its steps); which Java versions and dependencies
were tried is abstracted to "another one is left", which is always possible, so the budgets alone bound the
loop, as they do in the worst case of the code.

### QuarantineRestore

One server, the metadata file of one transaction.  `shelf` holds the artifacts under each `.lbby-quarantine`
that the code addresses: beside the live server (`ListRoot`), and under the staging root
(`PreserveRoot`).  A call goes through the lock, the checks in the code's order, the copy, the second look at
the server's state, the rename, the read back and the save.  `meta[c]` is the metadata it loaded, which it
saves as a whole.  Installs and `record_quarantine` keep away from restores by the host's guard; a paused
install holds no guard, mods are deleted by hand, the game server starts and stops at any time.  The removal of a
temporary or an unverified file may fail like any other operation (`CleanUp`), which the code ignores; `left` is what
stayed so, until a later restore of the same file starts afresh.

Reductions: hash, identity, containment and client-only checks read data that no step changes.  `record_quarantine`
has no caller in the library; the model lets the host put an artifact beside the live server and call it.

### Boot: BootValidation, BootRepair, RuntimeRepair, CrashAttribution, ModMetadata

`BootValidation` is one boot of a staged tree and the boots after it: `props` and `marker` are
`server.properties` and the file in which the original waits while the validation's overlay is in its
place; `proc` is the process, `pc` where `validate` is.  Every way out (ready, failed, deadline, error) goes
through the undoing of the overlay; a host crash does not, and the next boot meets what it left.  A failed
clean-up is ignored, and the check before a commit fails open: what it cannot read it takes for clean (`Clean`,
`NoResidue`; `boot_validator.rs:686`, 706), and `unseen` says what that was.  A server may close its output without
exiting (`proc` "silent"); it is then waited for without a limit.

`BootRepair` begins with how a log is read: lines are sequences of words with their quotes, tried pattern by
pattern in the code's order.  Its actions are `attempt_boot_repair`: confirmation by metadata or by CurseForge's
relations, a project, a download into the staged mods, the check that the file declares the missing mod, the
removal of one that does not.  A copy that fails may leave a part of the file (`CopyFails`), and a removal that
fails leaves the whole one (`Discard`); `left` is what stayed so.  `RuntimeRepair` chooses between a missing mod
and a wrong Java and counts the boots and both kinds of repair.  `CrashAttribution` has an operator for each
parser of evidence, their scores and the verdict, and the checks before the user may have a JAR taken away.
`ModMetadata` merges the metadata of the loaders, builds the dependency graph, plans which client mods to
exclude, and, from what the mods or the lines of the log ask of the loader, parses constraints, intersects them
and judges the configured version.  `LogRequirements` is what a line of the log requires, by the marks before
and after its version: one requirement or none; the panic of the parser's `unwrap`
(`loader_compat_advisor.rs:508`) is none here, and a hazard without a property.

These are pure apart from BootRepair and RuntimeRepair: their properties compare the code's algorithm with a
declarative definition of its result (an intersection admits what both constraints admit; a plan is closed).

### Mods and plugins: ModOps, ModSide, ModpackInstall, PackDiscovery, PluginLifecycle, PluginCatalog

`ModOps` has the mods of a directory (`mods`), their receipts and backups; a call works off a list of downloads,
one file at a time, and binds what it has placed at the end.  A required dependency is named by project, by version or
by nothing; the last is skipped, as in the code, and an install promises nothing of it (`NamedProjects`).  What
was placed is read again for its receipt, which may fail.  `Modrinth` and `CurseForge` are projects with
versions that may be published between calls; a broken download and a hand-edited directory are free choices.
`ModSide` is the scan before a start: declared sides, Modrinth's answer by digest, dependents, and the cache of
files once found safe, keyed by name, size and time.  `ModpackInstall` has the three installers a step at a
time; a Modrinth pack is put into the live tree, the two kinds of CurseForge pack into a staged one.

`PluginLifecycle` has the `plugins` directory, the `.bak` files, the receipts, the temporary file of the
installs and what each call knows from its last scan (`snap`).  An update rotates: backup, write, retire,
cleanup, receipt; when the retiring of the old file fails, the removal of the new one may fail too.  Which
plugins a JAR describes, needs and fits is what `PluginCatalog` computes from its descriptors;
`MCPluginLifecycle` puts the two together.  A descriptor without a name, which passes the check after an update,
is not modelled.  `PackDiscovery` is the choice of a pack's version.

### Servers: ServerInstall, ServerMonitor, Pregeneration, JavaRuntime, NodeInstance

`ServerInstall` is `do_install_server` for a plain JAR, BuildTools and the loaders' installers with the commit
and rollback of their entries.  `ServerMonitor` has the three tasks that a start leaves behind and that look at
the status when they wake; time passes while a sample is taken, which walks the world and has no bound, so that
a sampler may outlive its server and the next start.  Only the reader's reset of the statistics, when it waits
for that sample's lock, is assumed to come before the next start.  `Pregeneration` walks the square batch by
batch, with cells as the code counts them and the width of `u32`; the look at the server and the write are two
steps, between which it may stop: the batch is then counted and not sent (`lost`).  `JavaRuntime` decides the
major, looks for a Java in the code's order and replaces the shared bundled one.  `NodeInstance` is the node's
own directory and its supervisor.

### Files and services: AtomicPersistence, DurableRegister, DirectoryBackup, Profiles, ServerProperties, RemoteAccess, Heartbeat, PlayerStats, PlayerData, TModMods, QuarantineListing

`AtomicPersistence` has the target, its sibling, the handles and what a loss of power may bring back;
`DurableRegister` is what that promises, and the first implements the second.  `DirectoryBackup` has the
archive and the swap of directories; a backup that fails half way leaves an archive that can be read (the writer
finishes it when it is dropped), of half a tree.  `Profiles` has `profiles.json`, its `.tmp`, the cache and the
directories; calls are load, change, save.  `ServerProperties` patches keys under a lock that the game server
does not take.  `RemoteAccess` has the tunnel's process, its waiter, which may report late, and the state that
both write; a start kills the strays of its port, or cannot (on Windows, without `pgrep`), and `missed` is those that it
left.  `Heartbeat` has time in units of the request's timeout.  `PlayerStats` has one statement of SQL a
step.  `PlayerData` has two caches valid by a file's time.  `TModMods` has two lists written in place.
`QuarantineListing` has the listing and a restore's checks over any small directory.

### Modules for TLC and TLAPS

`MCRecoveryFlow`, `MCQuarantineRestore`, `MCPluginLifecycle` and `MCModOps` define small instances;
InstallTransaction, ServerLifecycle and BootValidation need no more than their configurations.  `MCDiagnosis` runs
BootRepair and takes every input of the pure modules from small sets.  `MCServices` instantiates seventeen
machines that call none of each other; `which` says which of them moves in a behaviour, so that their states
add up and do not multiply.  Its constants are parameters of the machines, with the assumptions that their proofs
need, and get their small values in `MCServices.cfg`.

Theorems are in `InstallTransactionProofs`, `ServerLifecycleProofs`, `RecoveryFlowProofs`, `BootValidationProofs`,
`ModOpsProofs` and `PluginLifecycleProofs`, each about the module of its name, and in two modules about the machines
of MCServices: `ServiceFilesProofs` about those that leave something on the disk, and about QuarantineRestore, and
`ServiceTasksProofs` about those that go on beside a running server, and about BootRepair.  None of them reaches a
RECURSIVE operator.

## 3. Runs

| Run | Instance | Shows |
|---|---|---|
| `install` | 2 transactions, 2 flows, 3 failures, 2 world saves, a server played at any time | OnlyValidatedServes, NewestWorldIsKept, InstalledIsKept, PausedIsResumable, LostLiveIsReported, SwapKeepsNewestWorld, ImplementsSwap |
| `server` | 2 overlapping calls, 2 processes of which one may hang and the other be unreadable, 1 start marked by calls, no assumption on scheduling | StopReturns, EveryServerIsWatched |
| `server_guarded` | 1 call at a time, 3 processes of which one may hang and be unreadable, 2 automatic restarts in the window, prompt tasks | OneServer, StatusIsTrue, StopIsNotACrash, StopEndsProcess |
| `recovery` | 2 servers, a transaction each with 2 mods and 1, budgets 4 boots, 1 dependency and 1 runtime round, 2 user actions, 1 fault | CycleIsBounded, PausedHasRecovery, AppliedIsQuarantined, ResumeIsApproved, ValidationReturns |
| `restore` | 2 concurrent restores, 2 files of one mod, 2 failures | OneProvider, RestoredStays, FailureLeavesNothing |
| `boot` | 2 failures, 2 crashes | CommittedIsOriginal, ValidationEnds |
| `plugins` | 1 call at a time, 2 file names, 4 artifacts (3 of one plugin, an addon), 2 failures, 1 crash | TrustIsDeserved, UpdateKeepsPlugin, InstallIsUnique |
| `mods` | 3 calls, 4 projects two of which require each other, 1 edit by hand, 1 crash | IdentityIsEarned, InstallIsClosed, UpdateKeepsACopy, PlacedOnce |
| `diagnosis` | BootRepair with 3 projects and 2 mod ids; up to 3 JARs, 3 lines of a crash log, 4 words of a boot log, all pairs of constraints, plugin descriptors and published versions | RepairIsExact, PlansAreClosed, BlameIsPrecise, AdviceIsExact, ChoicesAreSound |
| `services` | 17 machines, the sizes in MCServices.cfg | NothingIsHalfOrLost, NothingIsTwiceOrMissed, EditsAreExact, SavesStay, InstallsAreSound |
| `mod_update_fails` | as `mods` | a counterexample of FailedUpdateKeepsMod |
| `recovery_rejected` | 1 transaction, 3 mods, budgets as `recovery`, nothing fails | a counterexample of RejectedIsRolledBack |

The last two expect a violation, and section 4 explains both.  LostLiveIsReported says something while no second
operation has failed, and SwapKeepsNewestWorld about a flow during which nobody plays: `failures` and the history
variable `played` tell these behaviours from the others of the same run.

The properties of `diagnosis` and `services` are conjunctions, one conjunct for each module:

| Property | Conjuncts |
|---|---|
| RepairIsExact | BootRepair: a repair that succeeds leaves one new file, which declares the missing mod; one that fails leaves none; but for what a failed copy or removal left |
| PlansAreClosed | ModMetadata: one JAR is one provider; a plan without obstacles leaves every mod what it requires, also after a removal without impact |
| BlameIsPrecise | CrashAttribution: two named mods blame none, a JAR offered for removal brings no other mod; BootRepair: a loader's line is read as what it says; QuarantineListing: what was set aside is listed and comes back |
| AdviceIsExact | ModMetadata: an intersection admits what both constraints admit, an advised version satisfies all, whether a JAR asks or a line of the log |
| ChoicesAreSound | PluginCatalog: merging loses no requirement, gate and later check agree, an applied update is not offered again; PackDiscovery: the newest fitting version is found |
| NothingIsHalfOrLost | DirectoryBackup: the server is one tree, the old one or that of the archive; JavaRuntime: the bundled Java is whole; Profiles: so is their file; NodeInstance: so is a prepared instance; AtomicPersistence: so is a saved target; ModpackInstall: replaced mods are kept; ModSide: a whole scan leaves no known client-only mod |
| NothingIsTwiceOrMissed | RuntimeRepair: no Java configured twice; RemoteAccess: one tunnel on a port, but for strays that a start could not find; Pregeneration: the square is covered once by what is counted; PlayerStats: playtime is that of the sessions; ServerMonitor: one sampler and one asker, unless a start follows the end of the last server, or of a sample that outlasted it, within their sleep; the players shown are those counted; Heartbeat: the dashboard is current; PlayerData: an answer is, too, and no cache is older than what it was read from |
| EditsAreExact | ServerProperties: the values of a patch that returned are in the file until the game server writes, and a patch touches no entry of another key; NodeInstance: a prepare keeps the user's arguments |
| SavesStay | Profiles: saved profiles stay; ServerProperties: defaults replace no file; TModMods: an unreadable list is not replaced; NodeInstance: what is stopped has ended, edited properties stay; Heartbeat: a licence lapses through its grace only; AtomicPersistence: a target is a register |
| InstallsAreSound | ServerInstall: a failed commit restores the runtime, what is set up starts, extras fit its type; TModMods: what is recorded was copied |

Why the bounds are enough to be interesting.  Two transactions are the least with which a backup of one holds
the build of another, a pause spans an install, and a marker travels twice.  Three failures are the least with
which both renames of a commit fail and so does the save after them.  Two processes are the least for a second
server, and three let an automatic restart, a manual start and a crash of either meet; that only one of them
hangs or cannot be read leaves others to be started after it and beside it.  The budgets of `recovery` keep the
relation that matters (one cycle stays below the global ceiling); one fault there is enough for a save to fail
at any of its places, or a crash between any two steps, and every fault leaves the flow at the disk, from where
the rest of the run is explored in full.  Two restores are the least for a race, two files of one mod for two
providers.  Two crashes let a boot meet an overlay that an earlier boot found as a leftover.  Three calls on the
mods are an install, a publication with its update, and a removal or repair of what these left; three artifacts
of one plugin under two file names let an update change the name, keep it, or meet a file that is there.  Three
JARs are the least for a chain in which the middle one is a client mod; two constraints for an intersection.
The machines of `services` have one failure or crash at any step (three where it is a file swap with a
rollback), and two of whatever can be confused with another: profiles, keys, ports, tunnels, versions, Workshop
items, stops of the server under a pregeneration.  The proofs lift most of the first results to every size.

Deadlock is checked in `server`, `server_guarded`, `restore` and `plugins`.  The other instances stop when their bounded
calls, versions or transaction ids are used up, so their configurations say CHECK_DEADLOCK FALSE.

## 4. Where the code does less than it, or its documentation, says

Three disagreements are findings of a run, the first two by its counterexample.

- `mod_update_fails`: "On failure, the old file is restored from a backup" (`mod_services.rs:2531`) is what
  the code says of a mod update; when the new version has the file's own name and its download
  fails, the backup is copied back over the old file and the destination, the same file, is then removed.
- `recovery_rejected`: after a rejection the "live server remains unchanged"
  (`docs/ARCHITECTURE_FREEZE_3O.md:69`).  A rejection while a resume of the same transaction is under way removes the
  staging tree, but not the resume's transaction, which makes the directory again at its next save and commits.
- `recovery`: the "target JAR quarantined (copied, not deleted)" says `docs/ARCHITECTURE_FREEZE_3O.md:64` (163
  again).  The code renames it out of the staged mods, and its own comment says "move, not delete"
  (`recovery_actions.rs:884`).  AppliedIsQuarantined states what the code does and the resume relies on, that an
  applied mod is out of the staged tree; QuarantineIsACopy, in the table below, is the document's word.

The following properties are stated in their modules; TLC finds each violated when it is put into the configuration
named in place of its properties (`services` properties by their instance's name). Those that a comment or a
document of the repository promises in so many words are quoted. Where the configuration gives a constant a value
that an assumption of MCServices excludes (2 callers, overlapping saves), that assumption is left out too: it names
what the theorems need and the code leaves to its host.

| Property (module) | Configuration | What happens |
|---|---|---|
| CommittedNeedsNoRecovery (InstallTransaction) | MCInstallTransaction | After two successful installs, startup reports the first as an interrupted commit: its marker, still saying Committing, moved with the staging directory into the live one and from there into a backup (`install_transaction.rs:304`). |
| PausedIsAnswerable | MCInstallTransaction | The paused first install of a server can be neither approved nor rejected: both look for an existing live directory (`recovery_actions.rs:1195`). |
| PathAlwaysServes | MCInstallTransaction | Between the renames of commit the live path is empty (`install_transaction.rs:291`; its comment at 265 says it never is). |
| FailedInstallDoesNotServe | MCInstallTransaction | The last write of commit fails with the new build live (`install_transaction.rs:321`). |
| NothingToPreserve | MCInstallTransaction | After a crash between the renames the next install copies no world (`install_transaction.rs:207`). |
| BackupIsNamed | MCInstallTransaction | A crash before the save at `install_transaction.rs:301` leaves a backup the report calls missing. |
| OneServer (ServerLifecycle) | MCServerLifecycle | Two overlapping starts both pass the check of the status before either marks it (`server.rs:187`). |
| AlwaysStops | MCServerLifecycle | Stop "waits up to 10 seconds for a clean exit, then force-kills" (`server.rs:697`), but the word "stop" is written, with the mutex held, before the ten seconds are counted (781, 803): a server that reads no stdin any more, with a full pipe, keeps that write waiting, and everybody who wants the mutex with it. |
| EndMeansExited | MCServerLifecycle | "Stream ended — server process exited" (`server.rs:493`), but the loop also ends at a line that is not UTF-8 (406); the server is then called stopped, its pid and pid file are forgotten, and the automatic restart may start a second one beside it. |
| StartableStarts | MCServerLifecycle | After a failed start the status is Error, which the first guard accepts and the second refuses (`server.rs:187`). |
| StoppedMeansStopped | MCServerLifecycle | A server runs on that the manager has forgotten: the first of two that were spawned, or one whose Starting a restart reset (`server.rs:725`). |
| StopBlocksUntilStopped | MCServerLifecycle | A stop during the launch returns in Stopping (`server.rs:797`; `remote.rs:648` says it blocks); if the start then fails, Stopping stays. |
| StatusIsTrue | MCServerGuarded, Prompt = FALSE | A reader that is late clears the status of the server that was started meanwhile (`server.rs:504`).  A hung server that is killed while a call of restart waits for its mutex makes two starts: the one that is refused resets the status that the other has set (725). |
| StaleRestartIsSkipped | MCServerGuarded, Prompt = FALSE | A start is marked between the check of the generation and the restart's own mark (`server.rs:569`). |
| LifecycleCeiling (RecoveryFlow) | MCRecoveryFlow | The install saves its retry state in the staged tree, the resume loads the live server's (`mod_services.rs:4265`), so that a lifecycle has more boots than the ceiling. |
| ActionBudget | MCRecoveryFlow with one server, `Single`, `Three`, 3 mods, budgets 6, 2, 2 | Every question restarts the count of user actions at zero (`validation_orchestrator.rs:716`). |
| QuarantineIsACopy | MCRecoveryFlow | An approval renames the JAR out of the staged mods (`recovery_actions.rs:1059`); the document has "copied, not deleted". |
| AppliedIsResumable | MCRecoveryFlow | An approval during another phase returns Applied and nothing can be resumed (`recovery_actions.rs:939`). |
| QuarantineIsListed (QuarantineRestore) | MCQuarantineRestore | The quarantine of an install is preserved under `.lbby-staging`, where no listing looks (`recovery_actions.rs:1325`). |
| OriginalSurvives (BootValidation) | MCBootValidation | A boot after a crash saves the overlay as if it were the original, which is then nowhere; the check before a commit refuses that tree. |
| NothingRemains | MCBootValidation | The check before a commit verifies "that no validation artifacts remain" (`boot_validator.rs:676`), but looks only if it can read (686, 706): a world whose removal failed goes live with the tree when the staging directory cannot be listed either. |
| AlwaysEnds | MCBootValidation | The validator "force-kills child on timeout/error" (`boot_validator.rs:14`), but waits without a limit for the exit of a server that has closed its output (462). |
| FullConstraintIsRead (MCDiagnosis) | MCDiagnosis | The fallback parses the "remaining text as full constraint" (`loader_compat_advisor.rs:524`), from which the marks were stripped before (497), so that ">=47" becomes exactly 47. |
| RepairIsReported (BootRepair) | MCDiagnosis | `repaired` is always false (`boot_failure_analyzer.rs:1044`), whatever was installed (the doc at 1053 says otherwise), so that a validation gives up after a repair that worked. |
| DependentsBlock (PluginLifecycle) | MCPluginLifecycle | Dependents are compared by plugin id with what descriptors name (`plugin_services.rs:2488`). |
| AlreadyInstalledIsInstalled | MCPluginLifecycle | A receipt whose file is gone answers AlreadyInstalled. |
| ServedStays (Properties) | MCServices | A patch rewrites the whole file from what it read; a change by the game server in between is undone. |
| ArchiveIsWhole (Backup) | MCServices | A backup that fails leaves half an archive under its name (`backup.rs:55`); the writer finishes it when it is dropped, so that it can be read, and is restored as a server. |
| NotReplaced (Saved) | MCServices | A corrupt profiles file is set aside, and the next load saves defaults (`config.rs:413`). |
| CacheIsCurrent (Saved) | MCServices, 2 faults or 2 callers | The time of a file is read after its content (`file_cache.rs:35`), and a load whose save failed caches the sanitised content. |
| RepairChangesJava (Remedy) | MCServices | A repair may configure the Java that is configured. |
| StopFindsTunnel (Tunnel) | MCServices | The waiter of an old tunnel writes over the state of a new one (`cloudflare.rs:272`). |
| BinaryIsWhole (Tunnel) | MCServices | A download that is cut short is the binary of the next start. |
| SetupStarts, SpongeStays (Server) | MCServices | The old runtime is cleaned before the new one is downloaded (`server.rs:2131`–2153); Sponge is downloaded before the old type's JARs go. |
| LiveStartsAsBefore (Modpack) | MCServices | The profile names the pack's loader from the moment the staging directory is prepared (`server.rs:1930`, `config.rs:661`), though the installation may fail (`install_transaction.rs:3`). |
| ServedIsServerSide (Modpack) | MCServices | A client-only mod whose move fails in the exclusion is left in the tree, and the pack is served with it. |
| DependentsGo (Side) | MCServices | A JAR once found safe is not looked at when what it needs is moved out. |
| InstalledIsOn (Terraria) | MCServices | A Workshop mod is installed but not enabled (`tmod_services.rs:287`). |
| DeathsCountOnce (Players) | MCServices | The row that an end makes has the deaths, which are then added (`player_stats.rs:141`). |
| EndedStays (Players) | MCServices, 2 callers | Two ends at once both find the session open (`player_stats.rs:117`). |
| EulaIsAccepted, PreparedIsAsked, ArgsAreStable (Node) | MCServices | The EULA is written for every specification (`node_api.rs:207`), a JAR of another version is reused (198), each prepare adds a blank line (146 says idempotent). |
| StoppedShowsNothing (Monitor) | MCServices | A sample under way when the server stops is written after the reset (`server.rs:619`). |
| RestartsAskOnce (Monitor) | MCServices, TPS = TPS_FIRST = 6 | Each restart adds a task that asks for the speed (`server.rs:659`). |
| RunningIsShown, LicenceIsWhole (Beat) | MCServices | A server whose lock is held when the snapshot is taken is reported as stopped (`heartbeat.rs:210`); the licence file is written in place (`license.rs:160`). |
| AnswerIsCurrent (Data) | MCServices, 2 callers | The caches are not keyed by profile, and a look-up reads what the other call stored (`player_actions.rs:202`). |
| ShownIsThere (Data) | MCServices, 2 writes | Data is kept under the time of a file that is gone (`player_actions.rs:342`). |
| EndedReleases, SquareFits, CountedWasSent (Chunks) | MCServices | A stop leaves chunks loaded; the side is multiplied as `u32` (`server.rs:3040`); the server is looked for under one lock and written to under another, and a batch that found it gone is counted all the same (3116). |
| UsedStays (Java) | MCServices, 2 callers | Two starts that need the same missing Java: one replaces the directory that the other uses. |
| TargetIsWhole (Stored) | MCServices with Overlap = TRUE, or SyncFails = TRUE | Overlapping saves of one target share the `.json.tmp` name (`atomic_persistence.rs:64`; 47 says never partially overwritten); after an ignored sync failure (84) a loss of power tears it. |

Further disagreements show in definitions, which are written as the code is, and not in a property:

- Catalogs: an install from Modrinth takes the oldest version of the best channel (`plugin_services.rs:2075`);
  an update from Modrinth may go from a newer beta to an older release; `paper-plugin.yml` dependencies are
  names with a record each.  A pack named by link or id is resolved to the first version in the list,
  whatever its channel or game (`mod_services.rs:2905`).  A version or loader that is not stated matches
  in the listing and not in the resolution; `NamesAgree` (PackDiscovery) fails for ids with trailing zeros
  (`mod_services.rs:4634`).
- Plugins: a hash that fails after the write answers Failed with the old file gone
  (`plugin_services.rs:3142`); a receipt file that cannot be read is saved without its other receipts
  (2541); a batch works from one scan.
- Mods: the bytes of an update are not verified; a receipts file of a newer version is written over;
  `remove_mod` is not awaited by the automatic fix.
- Logs: `MissingIsMod`, `RequesterIsKnown` and `NameIsWhole` (BootRepair) fail (`boot_failure_analyzer.rs:288`,
  326, 380); a library JAR mentioned twice outranks the mod a crash names once (CrashAttribution).
- Metadata: a NeoForge dependency of type "optional" without `mandatory` counts as required; dependents
  without an id do not block a removal.
- Quarantine: `EveryJarIsListed`, `RecordsAreFound`, `ModsAreMade` and `PendingIsOwn` (QuarantineListing)
  fail (`recovery_actions.rs:1723`, 656).
- Services: `AddressFits` (RemoteAccess) and `HeapFits` (NodeInstance, `node_api.rs:353`) are functions that
  fail for some argument; a late answer "revoked" removes a key that was activated since it was asked.

## 5. Fairness

Only liveness properties need it, and each specification states the least it can.

- ServerLifecycle: the runtime eventually polls every task that can run (weak fairness of `StartWork`,
  `StopWork`, `ReadWork`, and of `CommandFails`, a command whose write ends because its server did).  tokio's
  multi-threaded scheduler does so: a task that waits for a mutex or a pipe gives its thread back.  Nothing is assumed
  of the game process: it may never say Done, never exit and never read, and calls need not come.  So a
  write may keep the mutex for ever, and StopReturns and StopEndsProcess say "unless one does" (`Blocked`).
- RecoveryFlow: the flow's own steps.  That a boot returns is ValidationEnds of BootValidation, so
  ValidationReturns holds as far as that does.  The user owes no answer.
- BootValidation: the steps of `validate` and the clock.  Nothing is assumed of the server, so ValidationEnds says
  "unless it closes its output and stays".
- QuarantineRestore: a call that holds the lock goes on.  The run has no liveness property; it checks
  deadlock.
- InstallTransaction and all other modules need none; their properties are safety.

## 6. Proofs

All theorems hold for every value of the constants that satisfies the named assumptions (sentinels differ
from values, bounds are naturals, each project of ModOps requires finitely many, and `BudgetAssumption`, which the
code's constants satisfy) and the hypotheses that a theorem states.

**InstallTransactionProofs.**  The safety properties are not inductive: that only validated trees serve needs to
know that a flow in the middle of commit still has the tree it validated and a marker that says Committing on
disk; that in turn needs that no other flow runs (`OneFlow`, from the guard), that a running flow's transaction
is "open" (`FlowOwnsTxn`), that an approval, which no guard keeps away, finds no question that is still open
while a flow builds or validates (`CommitIsPrepared`), and that its backup slot is free before the swap
(`SlotIsFree`: otherwise a rename would overwrite a backup, and with it a world).  `Inv` is their conjunction
with the properties; `Invariance` proves it for each action, and `TypeCorrect`, `ValidatedServes`,
`WorldIsSafe`, `InstalledIsSafe`, `PausedIsSafe` follow.  `Refinement` shows that each step is a `DirectorySwap`
step or leaves the builds where they are.

Two more theorems stand at the end of the module.  `LostLiveIsFound`: as long as no second operation has failed, a
missing live directory is reported.  Its invariant says that an empty path with a backup has a transaction whose
two renames were cut short and whose marker says Committing, and that a flow gives up its marker only after the
tree is back.  `SwapsKeepTheWorld`: if nobody plays while a flow runs, its swap brings no older world: the staged
copy is as new as the live one from the copy to the rename, and a paused flow copies again when it is resumed.

**ServerLifecycleProofs.**  `TypeCorrect`, and `ServersAreWatched`: for any number of calls and processes, in
any interleaving and without the guard, a running server has a reader or the task that is about to start it,
unless its reader met a line that it could not read.  The invariant adds that a process is spawned once, and
that the task between spawn and register holds it.

The rest of the module has `ServersAreOne`, `StatusesAreTrue` and `StopsAreNoCrash`, for any number of
processes, restarts and generations, when calls do not overlap (`Overlap = FALSE`) and tasks are prompt (`Prompt
= TRUE`); they speak of the processes whose output is read (`Known`), while any of the others may run beside
them, and any process may hang with the mutex held.  At most one task decides at a time (`OneDecides`,
`DecidesAlone`); while one does, no other start is between its mark and its process; so who spawns finds no
server alive (`StartsAlone`).  `StopsAreNoCrash` adds that a stop that waits has its request standing when the
reader of its process looks.

**RecoveryFlowProofs.**  The invariant relates the flow to the question on disk: what a resume runs was approved
when it began, a blamed mod is in the staged tree unless an operation failed or the user rejected the
transaction, and every boot of a validation but one is matched by a repair.  A rejection may come at any step:
what the flow then says of the disk is said of transactions that were not rejected.  `CyclesAreBounded`,
`CeilingsNeedHistory`, `PausedIsAsked`, `AppliedIsOut`, `AskedIsThere` and `ResumesAreApproved` follow;
CeilingNeedsHistory and AskedModIsThere are proved without a run of their own.

**BootValidationProofs.**  `CommitsAreOriginal`, for any number of failing operations and crashes: a commit is of the
tree as it was built, but for what the check before it could not look at (`unseen`).  The
invariant follows what the original may have become: properties that are not the overlay are the original;
a marker that holds the overlay never meets restored properties; a marker that is missing when the
properties are to be restored means that there were none.  `UndoneAfterTheEnd`: the overlay is undone only
after the process has ended.

**ModOpsProofs.**  For any projects, versions, names and dependencies, any number of calls, edits by hand and
crashes.  `IInv` is inductive: receipts are earned (a provider's receipt names a project, and its digest is the
file it was written for; `ReceiptsAreEarned`), what is downloaded goes under a name of its project
(`DownloadFits`), the backup of a running update is the file that it found (`BackupIsTaken`), and a stack has a
task that places a project only after that project was visited (`StackIsFit`), which is why none is there
twice (`PlacesAreApart`, a part of `IInv`), and none comes back once it is done.  `IdentityHolds`, `UpdateKeeps` and
`PlacedOnceHolds` follow from it.  A dependency that is named by version has no such task: the code downloads it as
often as it is named.

`InstallCloses` rests on one more invariant, `VisitedIsClosed`: of every project that an install has visited,
its file is there or waits to be placed, and each of its requirements that names a project or a version was
visited, waits on the stack, is there or is on its way.  When the stack is empty nothing waits, so what is there
is closed; that it then contains the least closed set is set theory, since `Closure` is the intersection of all
closed sets that hold the project.  The theorem's hypothesis, `FileNamesAreApart`, says that no two projects
publish a file under the same name.  The code does not check that (the file name is the provider's,
`mod_services.rs:1859`), and where it fails one project's file replaces the other's; the instance of the run
satisfies it.

**PluginLifecycleProofs.**  `TypeCorrect` and `OneMutationHolds` for any calls that overlap in any way: `TInv` says
which operation each step belongs to and that a call past the guard holds it.  The other theorems suppose
`Overlap = FALSE`: installs, `add_plugin_safe` and `remove_plugin` take no guard, so that only the host can keep
them apart, and without that TLC finds each of the three properties violated (`Overlap = TRUE` in
MCPluginLifecycle, already with one call and an edit by hand).  Calls that do take the guard may still wait
beside one that runs, any step may fail and the process may die between any two.

`SInv` says what a call relies on: one at work is alone (`Alone`); an install's scan is what is on disk until its
copy; the bytes that passed `verify_provider_hash` are the artifact's; from the backup to the write the file
found is in its `.bak` (`Kept`), after the write the new one is in place (`InPlace`) and declares the name of
the old (`SamePlugin`); what is about to be saved as receipts is earned.  `TrustHolds` follows at once.
`UpdateKeeps` takes one step of the rotation after the other: until the write the copy is in the backup, which
`PutBack` brings back, and after it in the new file.  `InstallAddsNoTwin` joins two checks that the code
makes apart: an installed plugin of the same name either is bound to the same project, which is then
AlreadyInstalled, or it is not, which is an identity conflict.

**ServiceFilesProofs.**  First QuarantineRestore.  Between its check for other providers and its rename, a
restore relies on nobody else adding a mod, and between its load and its save of the metadata on nobody else
saving.  `RestoreInv` says so: who works holds the lock, no install runs meanwhile, the loaded metadata is what
is on disk, the check still holds; a file of a failed restore is gone or in `left`.  `ProvidersAreUnique`,
`RestoredStaysRestored` and `FailuresAreTidy` follow.

The rest is about the machines of MCServices that write files.  Each has an inductive invariant of its own:

| Machine | Invariant | Theorems |
|---|---|---|
| Stored (AtomicPersistence) | What a handle has written is where the handle points, and the file about to be renamed is whole and, if the power may go, on the disk. | SavesAreWhole, SavingRefinement (the target is a DurableRegister) |
| Java (JavaRuntime) | Nothing is at the bundled path until what is moved there is whole. | BundledJavaIsWhole |
| Backup (DirectoryBackup) | Once the server is moved away, a tree that was unpacked to its end waits for its place and the old one is whole, here or in what an earlier restore left. | RestoredServerIsOneTree |
| Modpack (ModpackInstall) | What the server had is live or saved; after the backup, saved or kept. | OldModsStay |
| Side (ModSide) | A file that the cache calls safe at its time is not one that is known to be unwanted. | ScanLeavesNoUnwanted |
| Node (NodeInstance) | What a prepare has checked holds as long as it goes on. | PreparedNodeIsWhole, StoppedNodeIsEnded |
| Saved (Profiles) | What a call is about to save has the listed profiles of the file but those it deletes, and its directory is whole before it is listed. | SavedProfilesAreWhole, SavedProfilesStay |
| Properties (ServerProperties) | The call that reads or writes holds the lock; until the game server writes, its text is the patch of the file that is there. | CreatedPropertiesStay, PatchesAreKept |
| Terraria (TModMods) | The list a call writes is the one it read, with its one change; of an item that is about to be recorded each mod is copied or waits to be. | ListOfModsIsKept, RecordedItemIsCopied |
| Server (ServerInstall) | While a commit works, each old entry is in its place or in the rollback; the program of what will be saved is there; no extras that the new type cannot load are left before the save. | RuntimeRestored, SavedServerStarts, ExtrasFitTheServer |
| Beat (Heartbeat) | The clock goes a step at a time, so that the grace of a key cannot pass between two looks. | LicenceLapsesByGrace |

`Parts` shows that a behaviour of MCServices is one of each machine, since a step moves one of them and leaves
the others alone.  With it the theorems add up to `NothingIsEverHalf`, `SavedStays` and `SoundInstalls`, each the
whole property of the run.

**ServiceTasksProofs.**  The same for the machines beside a running server, and for BootRepair:

| Machine | Invariant | Theorems |
|---|---|---|
| Players (PlayerStats) | The total of a player and what a call owes it (the session that it has ended and not yet added) are the sum over the ended sessions. | PlayedTimeIsOfSessions |
| Remedy (RuntimeRepair) | Every major that was configured is recorded, and none twice. | NoJavaTwice |
| Tunnel (RemoteAccess) | A start that has killed the processes of its port finds none alive there but those it had no means to find (`missed`). | PortHasOneTunnel |
| Monitor (ServerMonitor) | In `n` runs so far, only the tasks of the last have no longer to sleep than since they were left, or since the end of a sample that outlasted their server; the reader of the last server alone counts players. | OneTaskSamples, OneTaskAsks, PlayersShownAreCounted |
| Beat (Heartbeat) | The loop is late for what changed by no more than what it may sleep and ask, or the dashboard has it. | DashboardHasTheStatus |
| Data (PlayerData) | No cache and no call has content under a later time than its own, and every time of a file belongs to one profile. | AnswersAreCurrent, CachesAreCurrent |
| Chunks (Pregeneration) | The cells before the next batch, row after row, are those sent or lost, and their number is the count. | CompleteIsCovered |
| BootRepair | How far a repair is and what it has added by then, but for what a failed copy or removal left. | RepairAddsWhatItSays |

`NothingTwiceOrMissed` is the whole property of the run.

One lemma takes the place of an induction.  That a set of naturals has a least one (`NaturalsHaveALeast`) gives the
first of the numbers for which a statement would fail; with it are proved that the rounded root of Pregeneration
has the chunks asked for, that a fold over sessions adds each once (`Sums`: whatever order CHOOSE takes them in), and
that of several entries of a key in server.properties one is the last (`PropertiesHaveALast`).

The assumptions are in MCServices and are evaluated by its run.  Sentinels are no values.  `OneCallAtATime` is the
host's: it gives the calls of Java, Saved, Terraria, Tunnel and Players one at a time (section 4 has what
overlapping calls do).  `SavesAreAlone` is that saves of one marker follow each other and that either the
disk syncs or the power stays; markers are saved under the guard.  `KeysLast`: a key of a licence is active for
longer than the clock may jump between two looks.  `BeatSleeps` and `MonitorSleeps`: sleeps are
numbers with a largest one.  `ProfilesAreFinite`, `PropertiesAreSome`: what a user has is finite.  Patches of
server.properties and calls of the player dialog may overlap in any number.

**Model-checked only.**  Liveness (StopReturns, StopEndsProcess, ValidationReturns, ValidationEnds) stays with
TLC: the prover does not reason about fairness and ENABLED.  So do PlansAreClosed, BlameIsPrecise, AdviceIsExact and
ChoicesAreSound, which compare algorithms over sequences with their definitions: a proof would need an induction over
data that the installed provers cannot instantiate, and some of them are RECURSIVE.  EditsAreExact is proved in its
one half (`PatchesAreKept`); the other, what a node's prepare makes of a file of arguments line by line, is such an
algorithm too.

## 7. Not modelled, and why

PROJECT.json lists every component with its status and what is left out of each that is modelled in part.

- Terraria configuration (`terraria_config.rs`), AutoMod pack (`automodpack.rs`): a text file whose keys are replaced,
  and a JAR and an archive written in place.  Each has one writer and nobody that reads it back; what a
  crash does to a file written so is in ModOps and TModMods.
- Version lists (`version_fetch.rs`): HTTP requests whose answers become lists of names.
- Helpers, errors, reports (`helpers.rs`, `errors.rs`, `debug_report.rs`): formatting, texts, an archive of
  logs.  The download of a file and the check of a port are steps of the modules that use them.
- Smoke programs (`src/bin`): development binaries that drive the library.
- Within modelled files: console commands and their parsers, search and description texts, resource packs,
  enabling and disabling a file, the signatures and the device fingerprint of a licence, the list of revoked
  keys (fetched once), the parsing of archives, TOML and JSON, the arguments of a launch command.
- Composition: `services` runs its machines side by side without interleaving, since none calls another.  A
  validation's boots are free outcomes in RecoveryFlow, and a boot is modelled alone in BootValidation; a
  commit is one step in RecoveryFlow and ModpackInstall, and several in InstallTransaction.  The product of these
  would be out of TLC's reach, and each reduction is stated in its module.
