---------------------------------- MODULE ModOps ----------------------------------
(* The mods of one server directory: installing from Modrinth and CurseForge, the  *)
(* receipts that tie a file to the provider's version it came from, the search for *)
(* updates and the update itself, adding and removing by hand, the removal of      *)
(* client-only mods and the repair of missing dependencies (mod_services.rs).      *)
(* One call runs at a time (its callers hold the operation guard); the user edits   *)
(* the directory between two calls and the process may die inside one.              *)
EXTENDS Naturals, Sequences, FiniteSets

CONSTANTS
    Modrinth,       \* projects of the first provider
    CurseForge,     \* projects of the second provider
    Own,            \* a mod no provider knows
    NewestVersion,  \* [Projects -> Nat \ {0}]: the last version that may be published
    FileNameOf,     \* [Projects -> Seq(Names)]: the file name of each version
    Names,          \* file names in the mods directory
    Requires,       \* [Projects -> set of [project, by]]: by "project", "version" or "nothing"
    ClientOnly,     \* the mods whose JAR declares the client side
    Unhashed,       \* projects whose files come without a digest
    MaxCalls,       \* bound: calls of the interface
    MaxEdits,       \* bound: changes from outside between calls
    MaxCrashes      \* bound: deaths of the process

Projects == Modrinth \cup CurseForge
NoProject == "no_project"
Requirement == [project : Projects, by : {"project", "version", "nothing"}]

ASSUME ConstantsAssumption ==
    /\ Own \notin Projects /\ NoProject \notin Projects \cup {Own}
    /\ NewestVersion \in [Projects -> Nat \ {0}]
    /\ FileNameOf \in [Projects -> Seq(Names)]
    /\ \A p \in Projects : Len(FileNameOf[p]) = NewestVersion[p]
    /\ Requires \in [Projects \cup {Own} -> SUBSET Requirement]
    /\ \A p \in Projects : IsFiniteSet(Requires[p])
    /\ \A p \in Modrinth : \A d \in Requires[p] : d.project \in Modrinth

\* The file names of a project's versions.
NamesOf(p) == {FileNameOf[p][v] : v \in 1..NewestVersion[p]}

NoFile == [project |-> NoProject, version |-> 0, whole |-> FALSE]
NoHash == [project |-> NoProject, version |-> 0, whole |-> TRUE]
OwnFile == [project |-> Own, version |-> 1, whole |-> TRUE]
Jar(p, v, whole) == [project |-> p, version |-> v, whole |-> whole]
NoReceipt == [provider |-> "none", project |-> NoProject, version |-> 0, hash |-> NoHash]

VARIABLES
    files,      \* [Names -> a JAR or NoFile]: the live mods directory
    backups,    \* [Names -> a JAR or NoFile]: .lbby-backups/<name>.bak
    receipts,   \* [health, of]: .lbby-mod-receipts.json
    clients,    \* client_removed_mods.txt
    published,  \* [Projects -> version]: what the providers offer as best
    updates,    \* the result of the last check, kept by the interface
    call,       \* the call that runs, or the idle record
    spent       \* [calls, edits, crashes]: counters for the bounds

vars == <<files, backups, receipts, clients, published, updates, call, spent>>

NoDownload == [name |-> "", jar |-> NoFile, announced |-> FALSE, attempt |-> 0, then |-> ""]
Idle == [op |-> "none", stage |-> "idle", asked |-> NoProject, stack |-> <<>>,
         visited |-> {}, items |-> {}, item |-> NoProject, download |-> NoDownload,
         before |-> NoFile, failed |-> FALSE]

----------------------------------------------------------------------------------
(* Receipts. A file that cannot be parsed is copied aside and read as empty, one of *)
(* a later schema is read as empty; the next save writes over either.               *)
NoReceipts == [n \in Names |-> NoReceipt]
LoadReceipts == IF receipts.health = "good" THEN receipts.of ELSE NoReceipts
Saved(store) == [health |-> "good", of |-> store]
SaveModReceipt(name, r) == Saved([LoadReceipts EXCEPT ![name] = r])
DropReceipt(name) == Saved([LoadReceipts EXCEPT ![name] = NoReceipt])

\* FAULTY: the name alone decides.
BindsByName(r, jar) == r # NoReceipt

\* A receipt speaks for a file when its digest is the digest of the file; one
\* without a digest is believed for its name alone.
Binds(r, jar) == r # NoReceipt /\ (r.hash = NoHash \/ r.hash = jar)

\* The identity the list of installed mods shows for a file.
Identity(name) ==
    LET r == LoadReceipts[name] IN
    IF Binds(r, files[name]) THEN r ELSE NoReceipt

----------------------------------------------------------------------------------
(* Downloads. Three attempts; a broken stream ends the download at once. The bytes  *)
(* go to a temporary file, are compared with the announced digest and renamed.      *)
Begin(started) ==
    /\ call.op = "none" /\ spent.calls < MaxCalls
    /\ spent' = [spent EXCEPT !.calls = @ + 1]
    /\ call' = started

\* A call that has nothing to do but to answer, and one over several items.
AnswerOf(op, failed) == [Idle EXCEPT !.op = op, !.stage = "answer", !.failed = failed]
Items(op, items) == [Idle EXCEPT !.op = op, !.stage = "items", !.items = items]
On(op, stage, name) == [Idle EXCEPT !.op = op, !.stage = stage, !.item = name]

Go(stage) == call' = [call EXCEPT !.stage = stage]
Answer(failed) ==
    [Idle EXCEPT !.op = call.op, !.stage = "answer", !.failed = call.failed \/ failed,
                 !.asked = IF call.op = "modrinth" THEN call.asked ELSE @]

\* The next item of a call over several: nothing of the last one is kept.
NextItem(failed) ==
    [call EXCEPT !.stage = "items", !.item = NoProject, !.asked = NoProject,
                 !.before = NoFile, !.download = NoDownload, !.failed = @ \/ failed]

Fetch(name, jar, announced, then) ==
    [name |-> name, jar |-> jar, announced |-> announced, attempt |-> 1, then |-> then]

\* Where a call goes when its download fails.
AfterFailure ==
    CASE call.op = "update" -> [call EXCEPT !.stage = "restore"]
      [] call.op \in {"missing", "autofix"} -> NextItem(FALSE)
      [] OTHER -> Answer(TRUE)

AttemptFails ==
    /\ call.stage = "download"
    /\ call' = IF call.download.attempt < 3
               THEN [call EXCEPT !.download.attempt = @ + 1] ELSE AfterFailure
    /\ UNCHANGED <<files, backups, receipts, clients, published, updates, spent>>

Receive ==
    /\ call.stage = "download"
    /\ \E whole \in BOOLEAN :
          call' = [call EXCEPT !.stage = "received", !.download.jar.whole = whole]
    /\ UNCHANGED <<files, backups, receipts, clients, published, updates, spent>>

Verified(d) == d.announced => d.jar.whole

\* The stream breaks, the digest differs or the rename fails.
DownloadFails ==
    /\ call.stage = "received"
    /\ call' = AfterFailure
    /\ UNCHANGED <<files, backups, receipts, clients, published, updates, spent>>

Commit ==
    /\ call.stage = "received" /\ Verified(call.download)
    /\ files' = [files EXCEPT ![call.download.name] = call.download.jar]
    /\ call' = IF call.download.then = "items" THEN NextItem(FALSE)
               ELSE [call EXCEPT !.stage = call.download.then]
    /\ UNCHANGED <<backups, receipts, clients, published, updates, spent>>

----------------------------------------------------------------------------------
(* install_modrinth_mod: the required dependencies first, then the project; a       *)
(* project is visited once. The recursion is the stack of what is still to do.      *)
Visit(p) == [do |-> "visit", project |-> p, version |-> 0]
VisitVersion(p, v) == [do |-> "version", project |-> p, version |-> v]
Place(p, v) == [do |-> "place", project |-> p, version |-> v]

\* A required dependency of which the provider names neither project nor version
\* is passed over.
Named(p) == {d \in Requires[p] : d.by # "nothing"}
DependencyTask(d) ==
    IF d.by = "project" THEN Visit(d.project) ELSE VisitVersion(d.project, 1)

InstallModrinthMod(p) ==
    /\ p \in Modrinth
    /\ Begin([Idle EXCEPT !.op = "modrinth", !.stage = "stack", !.asked = p, !.stack = <<Visit(p)>>])
    /\ UNCHANGED <<files, backups, receipts, clients, published, updates>>

\* The orders in which the listed dependencies may come.
Orders(s) == {q \in [1..Cardinality(s) -> s] : \A d \in s : \E i \in DOMAIN q : q[i] = d}

\* FAULTY: the project goes first and its dependencies are left to the next install.
UnfoldAlone(p) == {<<Place(p, published[p])>>}

\* What a visit puts on the stack.
Unfold(p) ==
    {[i \in DOMAIN q |-> DependencyTask(q[i])] \o <<Place(p, published[p])>>
       : q \in Orders(Named(p))}

\* FAULTY: a project counts as visited when its file is there.
SeenWhenPlaced(visited, p) == visited

\* The set of projects already visited.
Seen(visited, p) == visited \cup {p}

VisitProject ==
    /\ call.stage = "stack" /\ call.stack # <<>>
    /\ LET task == Head(call.stack) IN
       /\ task.do = "visit"
       /\ \/ /\ task.project \in call.visited
             /\ call' = [call EXCEPT !.stack = Tail(@)]
          \/ /\ task.project \notin call.visited
             /\ \E work \in Unfold(task.project) :
                   call' = [call EXCEPT !.stack = work \o Tail(@),
                                        !.visited = Seen(@, task.project)]
          \/ /\ task.project \notin call.visited
             /\ call' = Answer(TRUE)
    /\ UNCHANGED <<files, backups, receipts, clients, published, updates, spent>>

\* A file of the stack is downloaded: with a receipt to follow, or, for a
\* dependency named by its version only, without one.
StartFile ==
    /\ call.stage = "stack" /\ call.stack # <<>>
    /\ LET task == Head(call.stack)
           p == task.project
           name == FileNameOf[p][task.version] IN
       /\ task.do # "visit"
       /\ call' = [call EXCEPT
            !.stage = "download",
            !.stack = IF task.do = "version" THEN Tail(@) ELSE @,
            !.download = Fetch(name, Jar(p, task.version, FALSE), p \notin Unhashed,
                               IF task.do = "version" THEN "stack" ELSE "receipt")]
    /\ UNCHANGED <<files, backups, receipts, clients, published, updates, spent>>

ReceiptOf(provider, p, v, hash) ==
    [provider |-> provider, project |-> p, version |-> v, hash |-> hash]

\* The receipt of a Modrinth file holds the provider's digest; when it cannot be
\* written the call only warns.
ModrinthReceipt ==
    /\ call.op = "modrinth" /\ call.stage = "receipt"
    /\ LET task == Head(call.stack)
           p == task.project
           hash == IF p \in Unhashed THEN NoHash ELSE Jar(p, task.version, TRUE) IN
       \/ receipts' = SaveModReceipt(call.download.name,
                                     ReceiptOf("modrinth", p, task.version, hash))
       \/ UNCHANGED receipts
    /\ call' = [call EXCEPT !.stage = "stack", !.stack = Tail(@), !.download = NoDownload]
    /\ UNCHANGED <<files, backups, clients, published, updates, spent>>

StackDone ==
    /\ call.stage = "stack" /\ call.stack = <<>>
    /\ call' = Answer(FALSE)
    /\ UNCHANGED <<files, backups, receipts, clients, published, updates, spent>>

----------------------------------------------------------------------------------
(* install_curseforge_mod: a project with a receipt whose file is still there is    *)
(* refused; the receipt holds the digest of the file that arrived.                  *)
AlreadyInstalled(p) ==
    \E n \in Names : LET r == LoadReceipts[n] IN
        r.provider = "curseforge" /\ r.project = p /\ files[n] # NoFile

InstallCurseForgeMod(p) ==
    /\ p \in CurseForge
    /\ \/ /\ AlreadyInstalled(p)
          /\ Begin(AnswerOf("curseforge", TRUE))
       \/ /\ ~AlreadyInstalled(p)
          /\ LET v == published[p] IN
             Begin([Idle EXCEPT !.op = "curseforge", !.stage = "download",
                !.download = Fetch(FileNameOf[p][v], Jar(p, v, FALSE),
                                   p \notin Unhashed, "receipt")])
    /\ UNCHANGED <<files, backups, receipts, clients, published, updates>>

CurseForgeReceipt ==
    /\ call.op = "curseforge" /\ call.stage = "receipt"
    /\ LET name == call.download.name
           jar == call.download.jar IN
       \/ /\ receipts' = SaveModReceipt(name,
                           ReceiptOf("curseforge", jar.project, jar.version, files[name]))
          /\ call' = Answer(FALSE)
       \/ UNCHANGED receipts /\ \E unread \in BOOLEAN : call' = Answer(unread)
    /\ UNCHANGED <<files, backups, clients, published, updates, spent>>

----------------------------------------------------------------------------------
(* check_mod_updates: a file whose receipt binds is compared with the newest        *)
(* version of its project; any other file is looked up at Modrinth by its digest.   *)
Tracked(n) ==
    Binds(LoadReceipts[n], files[n]) /\ LoadReceipts[n].provider \in {"modrinth", "curseforge"}

KnownByDigest(n) == files[n].project \in Modrinth /\ files[n].whole

UpdateOf(n) ==
    LET r == LoadReceipts[n] IN
    IF Tracked(n)
    THEN [name |-> n, provider |-> r.provider, project |-> r.project,
          version |-> published[r.project], have |-> r.version]
    ELSE [name |-> n, provider |-> "unknown", project |-> files[n].project,
          version |-> published[files[n].project], have |-> files[n].version]

\* Reached: the files whose provider answers with an address to download from.
CheckModUpdates ==
    /\ \E reached \in SUBSET {n \in Names : files[n] # NoFile
                                /\ (Tracked(n) \/ KnownByDigest(n))} :
          updates' = {u \in {UpdateOf(n) : n \in reached} : u.version # u.have}
    /\ Begin(AnswerOf("check", FALSE))
    /\ UNCHANGED <<files, backups, receipts, clients, published>>

----------------------------------------------------------------------------------
(* update_all_mods and update_one_mod: every listed update is tried, a failed one   *)
(* does not stop the others. The new version goes under the old file's name, its    *)
(* bytes are not compared with anything. On a failure the old file is copied back   *)
(* and then the destination, which has the same name, is deleted.                   *)
UpdateAllMods ==
    /\ updates # {}
    /\ Begin(Items("update", updates))
    /\ UNCHANGED <<files, backups, receipts, clients, published, updates>>

\* update_mod: the interface passes a name and an address, nothing about the project.
UpdateMod(n) ==
    /\ \E u \in updates : u.name = n
    /\ LET u == CHOOSE w \in updates : w.name = n IN
       Begin(Items("update", {[u EXCEPT !.provider = "legacy"]}))
    /\ UNCHANGED <<files, backups, receipts, clients, published, updates>>

\* FAULTY: the directory is prepared and nothing is copied.
BackupDirectoryOnly(n) == backups

\* The backup the update takes before it touches the file.
Backup(n) == [backups EXCEPT ![n] = files[n]]

StartUpdate ==
    /\ call.op = "update" /\ call.stage = "items"
    /\ \E u \in call.items :
       \/ /\ files[u.name] # NoFile
          /\ backups' = Backup(u.name)
          /\ call' = [call EXCEPT !.stage = "download", !.items = @ \ {u}, !.item = u.name,
                !.asked = u.provider, !.before = files[u.name],
                !.download = Fetch(u.name, Jar(u.project, u.version, FALSE), FALSE, "receipt")]
       \/ /\ UNCHANGED backups
          /\ call' = [call EXCEPT !.items = @ \ {u}, !.failed = TRUE]
    /\ UNCHANGED <<files, receipts, clients, published, updates, spent>>

CopyBack ==
    /\ call.stage = "restore"
    /\ \/ files' = [files EXCEPT ![call.item] = backups[call.item]]
       \/ UNCHANGED files
    /\ Go("delete")
    /\ UNCHANGED <<backups, receipts, clients, published, updates, spent>>

DeleteDestination ==
    /\ call.stage = "delete"
    /\ \/ files' = [files EXCEPT ![call.item] = NoFile]
       \/ UNCHANGED files
    /\ Go("restored")
    /\ UNCHANGED <<backups, receipts, clients, published, updates, spent>>

\* The error says that the old file was restored; the next update follows.
NextUpdate ==
    /\ call.stage = "restored"
    /\ call' = NextItem(TRUE)
    /\ UNCHANGED <<files, backups, receipts, clients, published, updates, spent>>

UpdateReceipt ==
    /\ call.op = "update" /\ call.stage = "receipt"
    /\ LET name == call.item
           jar == call.download.jar
           r == IF call.asked = "legacy" THEN ReceiptOf("unknown", NoProject, 0, files[name])
                ELSE ReceiptOf(call.asked, jar.project, jar.version, files[name]) IN
       \/ /\ receipts' = SaveModReceipt(name, r) \/ UNCHANGED receipts
          /\ backups' = [backups EXCEPT ![name] = NoFile]
          /\ call' = NextItem(FALSE)
       \/ UNCHANGED <<receipts, backups>> /\ call' = NextItem(TRUE)
    /\ UNCHANGED <<files, clients, published, updates, spent>>

ItemsDone ==
    /\ call.stage = "items" /\ call.items = {}
    /\ call' = Answer(FALSE)
    /\ UNCHANGED <<files, backups, receipts, clients, published, updates, spent>>

----------------------------------------------------------------------------------
(* By hand: add_mod, remove_mod, safe_remove_mod, remove_all_mods.                  *)
Readable(n) == files[n] # NoFile /\ files[n].whole
Needs(n) == {d.project : d \in Requires[files[n].project]}
Dependents(n) == {m \in Names \ {n} : Readable(m) /\ files[n].project \in Needs(m)}

\* The copy goes to a temporary name and must open as an archive.
AddMod(n, overwrite, whole) ==
    /\ IF (files[n] # NoFile /\ ~overwrite) \/ ~whole
       THEN Begin(AnswerOf("add", TRUE))
       ELSE Begin(On("add", "copied", n))
    /\ UNCHANGED <<files, backups, receipts, clients, published, updates>>

AddRename ==
    /\ call.stage = "copied"
    /\ \/ /\ files' = [files EXCEPT ![call.item] = OwnFile]
          /\ call' = Answer(FALSE)
       \/ /\ UNCHANGED files
          /\ call' = Answer(TRUE)
    /\ UNCHANGED <<backups, receipts, clients, published, updates, spent>>

RemoveMod(n) ==
    /\ Begin(On("remove", "remove", n))
    /\ UNCHANGED <<files, backups, receipts, clients, published, updates>>

\* A mod that another installed mod needs stays.
SafeRemoveMod(n) ==
    /\ files[n] # NoFile
    /\ IF Dependents(n) # {}
       THEN Begin(AnswerOf("safe", TRUE))
       ELSE Begin(On("safe", "remove", n))
    /\ UNCHANGED <<files, backups, receipts, clients, published, updates>>

RemoveFile ==
    /\ call.stage = "remove"
    /\ \/ /\ files[call.item] # NoFile
          /\ files' = [files EXCEPT ![call.item] = NoFile]
          /\ Go("unreceipt")
       \/ /\ UNCHANGED files
          /\ call' = Answer(TRUE)
    /\ UNCHANGED <<backups, receipts, clients, published, updates, spent>>

RemoveReceipt ==
    /\ call.stage = "unreceipt"
    /\ receipts' = DropReceipt(call.item) \/ UNCHANGED receipts
    /\ call' = Answer(FALSE)
    /\ UNCHANGED <<files, backups, clients, published, updates, spent>>

Present == {n \in Names : files[n] # NoFile}

\* The receipts stay.
RemoveAllMods ==
    /\ Begin(Items("clear", Present))
    /\ UNCHANGED <<files, backups, receipts, clients, published, updates>>

RemoveNext ==
    /\ call.op = "clear" /\ call.stage = "items"
    /\ \E n \in call.items :
       \/ /\ files' = [files EXCEPT ![n] = NoFile]
          /\ call' = [call EXCEPT !.items = @ \ {n}]
       \/ /\ UNCHANGED files
          /\ call' = Answer(TRUE)
    /\ UNCHANGED <<backups, receipts, clients, published, updates, spent>>

----------------------------------------------------------------------------------
(* remove_client_only_mods: the files go one by one, the list of what went is       *)
(* written after the last; it keeps a later repair from installing them again.      *)
RemoveClientOnlyMods ==
    /\ Begin(Items("clients", {n \in Names : Readable(n) /\ files[n].project \in ClientOnly}))
    /\ UNCHANGED <<files, backups, receipts, clients, published, updates>>

RemoveClientMod ==
    /\ call.op = "clients" /\ call.stage = "items"
    /\ \E n \in call.items :
       \/ /\ files' = [files EXCEPT ![n] = NoFile]
          /\ call' = [call EXCEPT !.items = @ \ {n}, !.visited = @ \cup {files[n].project},
                        !.stage = IF call.items = {n} THEN "list" ELSE @]
       \/ /\ UNCHANGED files
          /\ call' = [call EXCEPT !.items = @ \ {n},
                        !.stage = IF call.items = {n} THEN "list" ELSE @]
    /\ UNCHANGED <<backups, receipts, clients, published, updates, spent>>

SaveClientRemoved ==
    /\ call.stage = "list"
    /\ clients' = clients \cup call.visited \/ UNCHANGED clients
    /\ call' = Answer(FALSE)
    /\ UNCHANGED <<files, backups, receipts, published, updates, spent>>

----------------------------------------------------------------------------------
(* scan_missing_dependencies, install_missing_dependencies, auto_fix_dependencies:  *)
(* every missing mod is searched by its id and the first file of the first version  *)
(* is taken, without a digest and without a receipt. What the search returns is     *)
(* matched by parts of names, and a single hit is taken whatever its name: any      *)
(* project may be the answer. The old file of a mod whose version does not fit is   *)
(* not removed (the call of remove_mod is never awaited).                           *)
Needed == UNION {Needs(n) : n \in {m \in Names : Readable(m)}}
Provided == {files[n].project : n \in {m \in Names : Readable(m)}}
Missing == Needed \ Provided
Outdated == {p \in Needed \cap Provided : p \in Projects}

\* What the repair may not install again.
Wanted(ids) == ids \ clients

InstallMissing(ids) ==
    /\ ids # {}
    /\ Begin(Items("missing", Wanted(ids)))
    /\ UNCHANGED <<files, backups, receipts, clients, published, updates>>

AutoFix ==
    /\ \E misfits \in SUBSET Outdated :
          Begin(Items("autofix", Missing \cup misfits))
    /\ UNCHANGED <<files, backups, receipts, clients, published, updates>>

InstallNext ==
    /\ call.op \in {"missing", "autofix"} /\ call.stage = "items"
    /\ \E id \in call.items :
       \/ call' = [call EXCEPT !.items = @ \ {id}]
       \/ \E p \in Modrinth : LET v == published[p] IN
            call' = [call EXCEPT !.items = @ \ {id}, !.stage = "download",
                       !.download = Fetch(FileNameOf[p][v], Jar(p, v, FALSE), FALSE, "items")]
    /\ UNCHANGED <<files, backups, receipts, clients, published, updates, spent>>

----------------------------------------------------------------------------------
Return ==
    /\ call.stage = "answer"
    /\ call' = Idle
    /\ UNCHANGED <<files, backups, receipts, clients, published, updates, spent>>

\* Between two calls a provider publishes, or the receipts are damaged or written by
\* a later version of the program. (What a user does to the files by hand is what
\* AddMod with overwrite and RemoveAllMods do: the receipts stay.)
Publish ==
    /\ call.op = "none" /\ spent.edits < MaxEdits
    /\ spent' = [spent EXCEPT !.edits = @ + 1]
    /\ \E p \in Projects : published[p] < NewestVersion[p]
                        /\ published' = [published EXCEPT ![p] = @ + 1]
    /\ UNCHANGED <<files, backups, receipts, clients, updates, call>>

Spoil ==
    /\ call.op = "none" /\ spent.edits < MaxEdits
    /\ spent' = [spent EXCEPT !.edits = @ + 1]
    /\ receipts.health = "good"
    /\ \E h \in {"corrupt", "future"} : receipts' = [receipts EXCEPT !.health = h]
    /\ UNCHANGED <<files, backups, clients, published, updates, call>>

\* The process dies; the interface's list of updates goes with it.
Crash ==
    /\ call.op # "none" /\ spent.crashes < MaxCrashes
    /\ spent' = [spent EXCEPT !.crashes = @ + 1]
    /\ call' = Idle
    /\ updates' = {}
    /\ UNCHANGED <<files, backups, receipts, clients, published>>

Init ==
    /\ files = [n \in Names |-> NoFile]
    /\ backups = [n \in Names |-> NoFile]
    /\ receipts = [health |-> "good", of |-> NoReceipts]
    /\ clients = {}
    /\ published = [p \in Projects |-> 1]
    /\ updates = {}
    /\ call = Idle
    /\ spent = [calls |-> 0, edits |-> 0, crashes |-> 0]

Start ==
    \/ \E p \in Modrinth : InstallModrinthMod(p)
    \/ \E p \in CurseForge : InstallCurseForgeMod(p)
    \/ CheckModUpdates
    \/ UpdateAllMods
    \/ \E n \in Names : UpdateMod(n)
    \/ \E n \in Names, overwrite, whole \in BOOLEAN : AddMod(n, overwrite, whole)
    \/ \E n \in Names : RemoveMod(n)
    \/ \E n \in Names : SafeRemoveMod(n)
    \/ RemoveAllMods
    \/ RemoveClientOnlyMods
    \/ InstallMissing(Missing)
    \/ AutoFix

Step ==
    \/ AttemptFails \/ Receive \/ DownloadFails \/ Commit
    \/ VisitProject \/ StartFile \/ ModrinthReceipt \/ StackDone \/ CurseForgeReceipt
    \/ StartUpdate \/ CopyBack \/ DeleteDestination \/ NextUpdate \/ UpdateReceipt
    \/ ItemsDone \/ AddRename \/ RemoveFile \/ RemoveReceipt \/ RemoveNext
    \/ RemoveClientMod \/ SaveClientRemoved \/ InstallNext \/ Return

Next == Start \/ Step \/ Publish \/ Spoil \/ Crash

Spec == Init /\ [][Next]_vars

----------------------------------------------------------------------------------
Jars == {NoFile} \cup [project : Projects \cup {Own}, version : Nat, whole : BOOLEAN]

TypeOK ==
    /\ files \in [Names -> Jars]
    /\ backups \in [Names -> Jars]
    /\ receipts.health \in {"good", "corrupt", "future"}
    /\ clients \subseteq Projects \cup {Own}
    /\ published \in [Projects -> Nat]

\* A mod that is listed as a provider's version holds that version's file, whatever
\* was installed, updated, removed, edited or interrupted before: the receipt of
\* another file never speaks for it (enrich_mod_info; only receipts with a digest).
IdentityIsEarned ==
    \A n \in Names : files[n] # NoFile =>
        LET r == Identity(n) IN
        (r.provider \in {"modrinth", "curseforge"} /\ r.hash # NoHash)
            => files[n].project = r.project /\ files[n].version = r.version

\* The projects an install of p must bring: over the projects that are named as
\* required, and the versions that these name directly.
NamedProjects(q) == {d.project : d \in {e \in Requires[q] : e.by = "project"}}
Closed(t) == \A q \in t : NamedProjects(q) \subseteq t
Closure(p) == {q \in Projects : \A t \in SUBSET Projects : p \in t /\ Closed(t) => q \in t}
Needful(p) == Closure(p) \cup UNION {{d.project : d \in Named(q)} : q \in Closure(p)}

\* An install that answers without an error has brought the project and everything
\* that is named as required, also over a cycle of dependencies and after retries.
InstallIsClosed ==
    (call.op = "modrinth" /\ call.stage = "answer" /\ ~call.failed) =>
        \A q \in Needful(call.asked) : \E n \in Names : files[n].project = q

\* While an update runs, and after it failed, the file it found is still somewhere:
\* under its own name or as the backup.
UpdateKeepsACopy ==
    (call.op = "update" /\ call.stage \in {"download", "received", "receipt", "restore",
                                           "delete", "restored"}) =>
        call.before \in {files[call.item], backups[call.item]}

ToPlace(q) == \E i \in DOMAIN call.stack : call.stack[i].do = "place" /\ call.stack[i].project = q

PlacesAreApart ==
    \A i, j \in DOMAIN call.stack :
        (call.stack[i].do = "place" /\ call.stack[j].do = "place"
            /\ call.stack[i].project = call.stack[j].project) => i = j

PlacedIsDone ==
    call.op = "modrinth" /\ call'.op = "modrinth" =>
        \A q \in call.visited : ~ToPlace(q) => ~ToPlace(q)'

\* One install places each project that it visits once: there are no two places of a
\* project to come, and after its place none comes again. So projects that require
\* each other, or that several others require, do not make it run for ever. (What is
\* named by its version is not visited, and downloaded as often as it is named.)
PlacedOnce == [][PlacesAreApart' /\ PlacedIsDone]_vars

\* The message of a failed update ("Update failed and old file was restored") and the
\* comment of update_one_mod: after a failed update the old file is in its place.
FailedUpdateKeepsMod ==
    call.stage = "restored" => files[call.item] = call.before
==================================================================================
