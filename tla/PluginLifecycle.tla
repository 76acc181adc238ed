--------------------------- MODULE PluginLifecycle ---------------------------
(***************************************************************************)
(* The plugins of one server (plugin_services.rs): install from a          *)
(* provider, update one or all, remove, add from a file.  The plugins      *)
(* directory, the backups that an update keeps in it, the receipts that    *)
(* bind a file to its provider and the temporary directory of the installs *)
(* are shared; updates and safe removals hold the OperationGuard, installs *)
(* and the plain add and remove do not.                                    *)
(*                                                                         *)
(* An artifact is the content of a JAR; its hash is the artifact itself.   *)
(* What an operation knows of the installed plugins is a scan its caller   *)
(* made before.  Whether the host overlaps the calls without a guard is a  *)
(* CONSTANT.                                                               *)
(*                                                                         *)
(* Definitions marked FAULTY are variants, with a plausible bug, of the    *)
(* definition below them; no action uses them.                             *)
(***************************************************************************)
EXTENDS Naturals, FiniteSets

CONSTANTS
    Call,           \* concurrent calls of the API
    File,           \* names of JAR files
    Artifact,       \* contents a provider or the user offers
    Project, Name,  \* provider projects, and names that descriptors declare
    Origin,         \* the project of each artifact
    NameOf,         \* the name its descriptor declares
    FileOf,         \* the file name its provider gives it
    Hashed,         \* artifacts the provider publishes a hash of
    Described,      \* artifacts with a plugin descriptor
    Admitted,       \* artifacts that pass check_candidate_compatibility
    Needs,          \* the names each artifact hard-depends on
    ByHand,         \* artifacts the user has as files
    Overlap,        \* may the host overlap calls that take no guard?
    MaxFailures,    \* bound: file-system operations and downloads that fail
    MaxCrashes,     \* bound: crashes of the host
    Missing, Torn,  \* no file, and a file that was not written completely
    NoCall, NoProject

ASSUME ConstantsAssumption ==
    /\ Origin \in [Artifact -> Project]
    /\ NameOf \in [Artifact -> Name]
    /\ FileOf \in [Artifact -> File]
    /\ Needs \in [Artifact -> SUBSET Name]
    /\ Hashed \subseteq Artifact /\ Described \subseteq Artifact /\ Admitted \subseteq Artifact
    /\ ByHand \subseteq Artifact
    /\ File # {}
    /\ File \cap Name = {}     \* an inventory id is no plugin's name
    /\ Overlap \in BOOLEAN
    /\ MaxFailures \in Nat /\ MaxCrashes \in Nat
    /\ Missing \notin Artifact /\ Torn \notin Artifact /\ Missing # Torn
    /\ NoCall \notin Call /\ NoProject \notin Project

Content == Artifact \cup {Missing, Torn}

\* A receipt: the project, and the hash of the file when it was written.
NoReceipt == [project |-> NoProject, hash |-> Missing]
Receipt == [project : Project \cup {NoProject}, hash : Content]

Operation == {"none", "install", "update", "remove"}
Step == {"idle", "guard", "download", "verify", "examine", "copy", "hash", "load",
         "save", "check", "fetch", "backup", "write", "retire", "cleanup", "unlink"}

VARIABLES
    plugins,    \* the plugins directory
    bak,        \* the <file>.bak files in it
    receipts,   \* .lbby-plugin-receipts.json
    temp,       \* <tmp>/lbby-plugin-install/, which all installs share
    guard,      \* the call that holds the PluginMutation guard
    pc,         \* where each call is
    job,        \* the operation, its file, its artifact, what a batch has left
    snap,       \* installed_plugins and receipts as the caller passed them
    store,      \* the receipts a call has loaded
    failures, crashes

disk == <<plugins, bak, receipts, temp>>
calls == <<guard, pc, job, snap, store>>
vars == <<disk, calls, failures, crashes>>

Job == [op : Operation, file : File, art : Content, todo : SUBSET File]
Scanned == [art : [File -> Content], trust : [File -> Project \cup {NoProject}],
            receipts : [File -> Receipt]]

NoReceipts == [f \in File |-> NoReceipt]
NoScan == [art |-> [f \in File |-> Missing], trust |-> [f \in File |-> NoProject],
           receipts |-> NoReceipts]
NoJob == [op |-> "none", file |-> CHOOSE f \in File : TRUE, art |-> Missing, todo |-> {}]

TypeOK ==
    /\ plugins \in [File -> Content]
    /\ bak \in [File -> Content]
    /\ receipts \in [File -> Receipt]
    /\ temp \in [File -> Content]
    /\ guard \in Call \cup {NoCall}
    /\ pc \in [Call -> Step]
    /\ job \in [Call -> Job]
    /\ snap \in [Call -> Scanned]
    /\ store \in [Call -> [File -> Receipt]]
    /\ failures \in 0..MaxFailures
    /\ crashes \in 0..MaxCrashes

Init ==
    /\ plugins = [f \in File |-> Missing]
    /\ bak = [f \in File |-> Missing]
    /\ receipts = NoReceipts
    /\ temp = [f \in File |-> Missing]
    /\ guard = NoCall
    /\ pc = [c \in Call |-> "idle"]
    /\ job = [c \in Call |-> NoJob]
    /\ snap = [c \in Call |-> NoScan]
    /\ store = [c \in Call |-> NoReceipts]
    /\ failures = 0
    /\ crashes = 0

-----------------------------------------------------------------------------
(***************************************************************************)
(* What a scan says, and what the checks conclude from it.                 *)
(***************************************************************************)

\* apply_receipt_trust: the project of a file whose hash is the receipt's.
Trust(f) ==
    IF plugins[f] \in Described /\ receipts[f].hash = plugins[f]
    THEN receipts[f].project ELSE NoProject

\* scan_plugin_directory, and the receipts the caller loads with it.
Scan == [art |-> plugins, trust |-> [f \in File |-> Trust(f)], receipts |-> receipts]

\* The installed plugins of a scan that declare a name.
Named(s, n) == {f \in File : s.art[f] \in Described /\ NameOf[s.art[f]] = n}

\* reconcile_plugin_identity: the project's installed file declares another
\* name, or another source's file declares the same.
IdentityOfProject(project, new, s, known) == \* FAULTY
    \E f \in File : /\ known[f].project = project
                   /\ s.art[f] \in Described
                   /\ NameOf[s.art[f]] # NameOf[new]
IdentityConflict(project, new, s, known) ==
    \/ \E f \in File :
        /\ known[f].project = project
        /\ s.art[f] \in Described
        /\ NameOf[s.art[f]] # NameOf[new]
    \/ \E f \in Named(s, NameOf[new]) : s.trust[f] # project

\* check_plugin_duplicate: a receipt of the project, or of these very bytes.
AlreadyInstalled(project, new, known) ==
    \E f \in File :
        \/ known[f].project = project
        \/ new \in Hashed /\ known[f].hash = new

\* The id of a plugin is a hash of its path; dependencies are names.
InventoryId(f) == f

\* check_remove_blockers over compute_plugin_dependency_graph.
DuplicateNames(s) == \E n \in Name : Cardinality(Named(s, n)) > 1
Dependents(s, f) ==
    {g \in File : s.art[g] \in Described /\ InventoryId(f) \in Needs[s.art[g]]}

-----------------------------------------------------------------------------
(***************************************************************************)
(* Helpers.                                                                *)
(***************************************************************************)

Works == UNCHANGED failures
Fails == failures < MaxFailures /\ failures' = failures + 1

Goto(c, step) == pc' = [pc EXCEPT ![c] = step]

\* The call returns; its guard, if it has one, is dropped.
Return(c) ==
    /\ Goto(c, "idle")
    /\ guard' = IF guard = c THEN NoCall ELSE guard
    /\ job' = [job EXCEPT ![c] = NoJob]
    /\ snap' = [snap EXCEPT ![c] = NoScan]
    /\ store' = [store EXCEPT ![c] = NoReceipts]

\* An update returns: update_all_plugins goes on with the next id, under the
\* same guard and with the same scan.
NextUpdate(c) ==
    IF job[c].todo = {} THEN Return(c)
    ELSE /\ \E f \in job[c].todo :
              job' = [job EXCEPT ![c] = [op |-> "update", file |-> f, art |-> Missing,
                                         todo |-> job[c].todo \ {f}]]
         /\ store' = [store EXCEPT ![c] = NoReceipts]
         /\ Goto(c, "check")
         /\ UNCHANGED <<guard, snap>>

\* An update ends with the next one of its batch, an install or removal with
\* its return.
Finish(c) == IF job[c].op = "update" THEN NextUpdate(c) ELSE Return(c)

Continue(c, step) == Goto(c, step) /\ UNCHANGED <<guard, job, snap, store>>

\* The name that a new file of the job gets.
Target(c) == FileOf[job[c].art]

\* Operations that take the guard may be called while others that do run.
Guarded == {"update", "remove"}
HostReady(op) ==
    Overlap \/ \A c \in Call : pc[c] = "idle" \/ {op, job[c].op} \subseteq Guarded

-----------------------------------------------------------------------------
(***************************************************************************)
(* The host calls: it scans, and passes the scan.                          *)
(***************************************************************************)

Begin(c, op, f, a, todo, step) ==
    /\ pc[c] = "idle"
    /\ HostReady(op)
    /\ job' = [job EXCEPT ![c] = [op |-> op, file |-> f, art |-> a, todo |-> todo]]
    /\ snap' = [snap EXCEPT ![c] = Scan]
    /\ Goto(c, step)
    /\ UNCHANGED <<disk, guard, store, failures, crashes>>

\* install_plugin_from_provider refuses what the server cannot run.
CallInstall(c, a) ==
    /\ a \in Admitted
    /\ Begin(c, "install", FileOf[a], a, {}, "download")

CallUpdate(c, f) == Begin(c, "update", f, Missing, {}, "guard")
CallUpdateAll(c, f) == Begin(c, "update", f, Missing, File \ {f}, "guard")
CallRemove(c, f) == Begin(c, "remove", f, Missing, {}, "guard")

\* require_plugin_mutation_ready fails at once if the slot is taken.
AcquireAnyway(c) == \* FAULTY
    /\ pc[c] = "guard"
    /\ guard' = c
    /\ Goto(c, IF job[c].op = "remove" THEN "unlink" ELSE "check")
    /\ UNCHANGED <<job, snap, store, disk, failures, crashes>>
Acquire(c) ==
    /\ pc[c] = "guard"
    /\ \/ /\ guard = NoCall
          /\ guard' = c
          /\ Goto(c, IF job[c].op = "remove" THEN "unlink" ELSE "check")
          /\ UNCHANGED <<job, snap, store>>
       \/ guard # NoCall /\ Return(c)
    /\ UNCHANGED <<disk, failures, crashes>>

-----------------------------------------------------------------------------
(***************************************************************************)
(* install_plugin_from_provider.                                           *)
(***************************************************************************)

\* What a provider's server may deliver for an artifact.
Delivered(a) == IF a \in Hashed THEN Artifact \cup {Torn} ELSE {a}

Download(c) ==
    /\ pc[c] = "download"
    /\ \/ /\ Works
          /\ \E bytes \in Delivered(job[c].art) : temp' = [temp EXCEPT ![Target(c)] = bytes]
          /\ Continue(c, "verify")
       \/ Fails /\ UNCHANGED temp /\ Return(c)
       \/ Fails /\ temp' = [temp EXCEPT ![Target(c)] = Torn] /\ Return(c)
    /\ UNCHANGED <<plugins, bak, receipts, crashes>>

\* verify_provider_hash: the bytes must be the ones published, if any are.
Unverified(bytes, a) == TRUE \* FAULTY
Verified(bytes, a) == a \in Hashed => bytes = a

Verify(c) ==
    /\ pc[c] = "verify"
    /\ IF Verified(temp[Target(c)], job[c].art)
       THEN Continue(c, "examine") /\ UNCHANGED temp
       ELSE Return(c) /\ temp' = [temp EXCEPT ![Target(c)] = Missing]
    /\ UNCHANGED <<plugins, bak, receipts, failures, crashes>>

\* The descriptors are read, the identity reconciled, duplicates refused; the
\* destination must be free.
Installable(c) ==
    LET new == temp[Target(c)] IN
    /\ new \in Described
    /\ ~IdentityConflict(Origin[job[c].art], new, snap[c], snap[c].receipts)
    /\ ~AlreadyInstalled(Origin[job[c].art], job[c].art, snap[c].receipts)
    /\ plugins[Target(c)] = Missing

Examine(c) ==
    /\ pc[c] = "examine"
    /\ IF Installable(c)
       THEN Continue(c, "copy") /\ UNCHANGED temp
       ELSE Return(c) /\ temp' = [temp EXCEPT ![Target(c)] = Missing]
    /\ UNCHANGED <<plugins, bak, receipts, failures, crashes>>

\* The copy into the plugins directory is not undone when it fails.
Copy(c) ==
    /\ pc[c] = "copy"
    /\ \/ Works /\ plugins' = [plugins EXCEPT ![Target(c)] = temp[Target(c)]]
          /\ Continue(c, "hash")
       \/ Fails /\ plugins' = [plugins EXCEPT ![Target(c)] = Torn] /\ Return(c)
       \/ Fails /\ UNCHANGED plugins /\ Return(c)
    /\ UNCHANGED <<bak, receipts, temp, crashes>>

\* The receipt will bind the hash of the file in place.
Hash(c) ==
    /\ pc[c] = "hash"
    /\ \/ /\ Works
          /\ plugins[Target(c)] # Missing
          /\ store' = [store EXCEPT ![c][Target(c)].hash = plugins[Target(c)]]
          /\ Goto(c, "load")
          /\ UNCHANGED <<guard, job, snap>>
       \/ Works /\ plugins[Target(c)] = Missing /\ Finish(c)
       \/ Fails /\ Finish(c)
    /\ UNCHANGED <<disk, crashes>>

-----------------------------------------------------------------------------
(***************************************************************************)
(* save_plugin_receipt: load the receipts (none, if the file cannot be     *)
(* read), replace the file's, save them all.                               *)
(***************************************************************************)

Stored(c, loaded) ==
    [loaded EXCEPT ![Target(c)] =
        [project |-> Origin[job[c].art], hash |-> store[c][Target(c)].hash]]

Load(c) ==
    /\ pc[c] = "load"
    /\ job[c].op \in {"install", "update"}
    /\ \/ Works /\ store' = [store EXCEPT ![c] = Stored(c, receipts)]
       \/ Fails /\ store' = [store EXCEPT ![c] = Stored(c, NoReceipts)]
    /\ Goto(c, "save")
    /\ UNCHANGED <<disk, guard, job, snap, crashes>>

Save(c) ==
    /\ pc[c] = "save"
    /\ \/ Works /\ receipts' = store[c]
       \/ Fails /\ UNCHANGED receipts
    /\ IF job[c].op = "install"
       THEN temp' = [temp EXCEPT ![Target(c)] = Missing] ELSE UNCHANGED temp
    /\ Finish(c)
    /\ UNCHANGED <<plugins, bak, crashes>>

-----------------------------------------------------------------------------
(***************************************************************************)
(* update_plugin_no_guard.                                                 *)
(***************************************************************************)

\* The plugin is looked up in the scan; its provider may offer another
\* version of it, or there is nothing to update.
Offered(c) ==
    LET f == job[c].file IN
    {a \in Artifact : /\ snap[c].art[f] # Missing
                      /\ Origin[a] = snap[c].trust[f]
                      /\ a # snap[c].art[f]}

Check(c) ==
    /\ pc[c] = "check"
    /\ \/ \E a \in Offered(c) :
            /\ job' = [job EXCEPT ![c].art = a]
            /\ Goto(c, "fetch")
            /\ UNCHANGED <<guard, snap, store>>
       \/ NextUpdate(c)
    /\ UNCHANGED <<disk, failures, crashes>>

\* What was delivered is verified, and must be the same plugin as the one in
\* the scan, from the same source, and one the server can run.  Receipts that
\* cannot be read count as none.  (A descriptor without a name, which would pass
\* for any plugin, is not in the model.)
Replaces(c, bytes, known) ==
    /\ Verified(bytes, job[c].art)
    /\ bytes \in Described
    /\ ~IdentityConflict(Origin[job[c].art], bytes, snap[c], known)
    /\ NameOf[bytes] = NameOf[snap[c].art[job[c].file]]
    /\ job[c].art \in Admitted

Fetch(c) ==
    /\ pc[c] = "fetch"
    /\ \/ \E bytes \in Delivered(job[c].art) :
            \E known \in {receipts, NoReceipts} :
                /\ IF known = receipts THEN Works ELSE Fails
                /\ IF Replaces(c, bytes, known) THEN Continue(c, "backup") ELSE NextUpdate(c)
       \/ Fails /\ NextUpdate(c)
    /\ UNCHANGED <<disk, crashes>>

\* The old file is copied to its backup ...
NoBackup(c) == \* FAULTY
    pc[c] = "backup" /\ Continue(c, "write") /\ UNCHANGED <<disk, failures, crashes>>
Backup(c) ==
    LET f == job[c].file IN
    /\ pc[c] = "backup"
    /\ \/ Works /\ plugins[f] = Missing /\ Continue(c, "write") /\ UNCHANGED bak
       \/ Works /\ plugins[f] # Missing /\ Continue(c, "write")
          /\ bak' = [bak EXCEPT ![f] = plugins[f]]
       \/ Fails /\ plugins[f] # Missing /\ NextUpdate(c)
          /\ bak' \in {bak, [bak EXCEPT ![f] = Torn]}
    /\ UNCHANGED <<plugins, receipts, temp, crashes>>

\* ... which a failure puts back, if it can.
PutBack(c, left) ==
    LET f == job[c].file IN
    \/ /\ bak[f] # Missing
       /\ plugins' = [left EXCEPT ![f] = bak[f]]
       /\ bak' = [bak EXCEPT ![f] = Missing]
       /\ failures < MaxFailures /\ failures' = failures + 1
    \/ /\ plugins' = left
       /\ UNCHANGED bak
       /\ LET n == IF bak[f] = Missing THEN 1 ELSE 2 IN
          failures + n <= MaxFailures /\ failures' = failures + n

\* The new file is written under its own name, which may be the old one's ...
Write(c) ==
    LET written(content) == [plugins EXCEPT ![Target(c)] = content] IN
    /\ pc[c] = "write"
    /\ \/ Works /\ plugins' = written(job[c].art) /\ UNCHANGED bak /\ Continue(c, "retire")
       \/ /\ \E left \in {plugins, written(Torn)} : PutBack(c, left)
          /\ NextUpdate(c)
    /\ UNCHANGED <<receipts, temp, crashes>>

\* ... the old one is removed if its name is another; if it cannot be, the new one
\* is, or stays too ...
Retire(c) ==
    LET f == job[c].file
        replaced == plugins[f] = Missing \/ f = Target(c)
        unwritten == [plugins EXCEPT ![Target(c)] = Missing]
    IN
    /\ pc[c] = "retire"
    /\ \/ Works /\ replaced /\ UNCHANGED <<plugins, bak>> /\ Continue(c, "cleanup")
       \/ Works /\ ~replaced /\ UNCHANGED bak /\ Continue(c, "cleanup")
          /\ plugins' = [plugins EXCEPT ![f] = Missing]
       \/ /\ ~replaced
          /\ \E left \in {plugins, unwritten} : PutBack(c, left)
          /\ NextUpdate(c)
    /\ UNCHANGED <<receipts, temp, crashes>>

\* ... and then the backup; a backup that stays is nobody's concern.
Cleanup(c) ==
    /\ pc[c] = "cleanup"
    /\ \/ Works /\ bak' = [bak EXCEPT ![job[c].file] = Missing]
       \/ Fails /\ UNCHANGED bak
    /\ Continue(c, "hash")
    /\ UNCHANGED <<plugins, receipts, temp, crashes>>

-----------------------------------------------------------------------------
(***************************************************************************)
(* remove_plugin_safe.                                                     *)
(***************************************************************************)

MayRemove(c) ==
    LET f == job[c].file IN
    /\ snap[c].art[f] # Missing
    /\ ~DuplicateNames(snap[c])
    /\ Dependents(snap[c], f) = {}

Unlink(c) ==
    LET f == job[c].file IN
    /\ pc[c] = "unlink"
    /\ \/ Works /\ MayRemove(c) /\ plugins' = [plugins EXCEPT ![f] = Missing] /\ Continue(c, "load")
       \/ Fails /\ plugins[f] # Missing /\ UNCHANGED plugins /\ Return(c)
       \/ Works /\ ~MayRemove(c) /\ UNCHANGED plugins /\ Return(c)
    /\ UNCHANGED <<bak, receipts, temp, crashes>>

\* The receipts are loaded twice: to see whether there is one, and to save
\* the others.
LoadForRemove(c) ==
    LET f == job[c].file
        without(loaded) == [loaded EXCEPT ![f] = NoReceipt]
    IN
    /\ pc[c] = "load"
    /\ job[c].op = "remove"
    /\ \/ /\ receipts[f] # NoReceipt
          /\ \/ Works /\ store' = [store EXCEPT ![c] = without(receipts)]
             \/ Fails /\ store' = [store EXCEPT ![c] = NoReceipts]
          /\ Goto(c, "save")
          /\ UNCHANGED <<guard, job, snap>>
       \/ Works /\ receipts[f] = NoReceipt /\ Return(c)
       \/ Fails /\ Return(c)
    /\ UNCHANGED <<disk, crashes>>

-----------------------------------------------------------------------------
(***************************************************************************)
(* add_plugin_safe and remove_plugin, which ask nobody, and a crash.       *)
(***************************************************************************)

\* Any readable JAR, under its own file name, in place of what is there.
Add(f, a) ==
    /\ HostReady("none")
    /\ plugins' = [plugins EXCEPT ![f] = a]
    /\ UNCHANGED <<bak, receipts, temp, calls, failures, crashes>>

Remove(f) ==
    /\ HostReady("none")
    /\ plugins[f] # Missing
    /\ plugins' = [plugins EXCEPT ![f] = Missing]
    /\ UNCHANGED <<bak, receipts, temp, calls, failures, crashes>>

Crash ==
    /\ crashes < MaxCrashes
    /\ crashes' = crashes + 1
    /\ guard' = NoCall
    /\ pc' = [c \in Call |-> "idle"]
    /\ job' = [c \in Call |-> NoJob]
    /\ snap' = [c \in Call |-> NoScan]
    /\ store' = [c \in Call |-> NoReceipts]
    /\ UNCHANGED <<disk, failures>>

-----------------------------------------------------------------------------
Install(c) == Download(c) \/ Verify(c) \/ Examine(c) \/ Copy(c)
Update(c) ==
    Check(c) \/ Fetch(c) \/ Backup(c) \/ Write(c) \/ Retire(c) \/ Cleanup(c)
RemoveSafe(c) == Unlink(c) \/ LoadForRemove(c)
Receipts(c) == Hash(c) \/ Load(c) \/ Save(c)

Next ==
    \/ \E c \in Call, a \in Artifact : CallInstall(c, a)
    \/ \E c \in Call, f \in File : CallUpdate(c, f) \/ CallUpdateAll(c, f) \/ CallRemove(c, f)
    \/ \E c \in Call : Acquire(c) \/ Install(c) \/ Update(c) \/ RemoveSafe(c) \/ Receipts(c)
    \/ \E f \in File, a \in ByHand : Add(f, a)
    \/ \E f \in File : Remove(f)
    \/ Crash

Spec == Init /\ [][Next]_vars

-----------------------------------------------------------------------------
(***************************************************************************)
(* Properties.                                                             *)
(***************************************************************************)

\* A plugin that a scan binds to a project is that project's: no failure,
\* crash or stale scan leaves a receipt that vouches for other bytes.
TrustIsDeserved ==
    \A f \in File : Trust(f) # NoProject => Trust(f) = Origin[plugins[f]]

\* "On failure at any step after download, the old artifact is preserved":
\* every step of an update leaves a copy of the plugin that it found, old or
\* new, live or backup, so a crash between two steps does too.
Holds(n, contents) == \E a \in contents \cap Described : NameOf[a] = n
Rotating(c) == pc[c] \in {"backup", "write", "retire", "cleanup", "hash"} /\ job[c].op = "update"
Found(c) ==
    {plugins[job[c].file]}
        \cup (IF pc[c] = "backup" THEN {} ELSE {bak[job[c].file]})
        \cup IF pc[c] \in {"cleanup", "hash"} THEN {plugins[Target(c)]} ELSE {}
UpdateKeepsPlugin ==
    [][\A c \in Call, f, t \in File, n \in Name :
         /\ Rotating(c) /\ f = job[c].file /\ t = Target(c)
         /\ n = NameOf[snap[c].art[f]] /\ Holds(n, Found(c))
         => Holds(n, {plugins'[f], bak'[f], plugins'[t]})]_vars

\* Of the operations that take the guard one runs at a time, from its first
\* look at the directory to its last receipt: an update or a removal never
\* sees a plugin in the middle of another's rotation.
OneMutation ==
    \A c, d \in Call :
        /\ pc[c] \notin {"idle", "guard"} /\ job[c].op \in Guarded
        /\ pc[d] \notin {"idle", "guard"} /\ job[d].op \in Guarded
        => c = d

\* An install never puts a second plugin of a name beside the first, whatever
\* became of the receipts: what has lost its receipt counts as another source.
InstallIsUnique ==
    [][\A c \in Call : pc[c] = "copy" =>
         \A f \in File : plugins'[f] \in Described /\ plugins'[f] # plugins[f] =>
            \A g \in File \ {f} : plugins[g] \in Described => NameOf[plugins[g]] # NameOf[plugins'[f]]]_vars

(***************************************************************************)
(* Properties that the code does not have.                                 *)
(***************************************************************************)

\* A removal is refused while an installed plugin needs the one it removes.
DependentsBlock ==
    [][\A c \in Call : \A f \in File :
         pc[c] = "unlink" /\ plugins[f] \in Described /\ plugins'[f] = Missing =>
            \A g \in File : snap[c].art[g] \in Described => NameOf[plugins[f]] \notin Needs[snap[c].art[g]]]_vars

\* An install that answers AlreadyInstalled finds the project installed.
AlreadyInstalledIsInstalled ==
    \A c \in Call : pc[c] = "examine" /\ AlreadyInstalled(Origin[job[c].art], job[c].art, snap[c].receipts)
        => \E f \in File : plugins[f] \in Artifact /\ Origin[plugins[f]] = Origin[job[c].art]
=============================================================================
