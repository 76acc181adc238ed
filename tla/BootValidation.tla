---------------------------- MODULE BootValidation ----------------------------
(***************************************************************************)
(* One boot of a staged server, and the boots after it (boot_validator.rs, *)
(* with the check of validation_orchestrator.rs before a commit).  The     *)
(* staged server.properties is overlaid with a validation world and port;  *)
(* the original waits in a marker file.  The server is started, its output *)
(* read until it says that it is ready, then it is stopped, and the        *)
(* overlay is undone, on every way out.                                    *)
(*                                                                         *)
(* Another boot of the same tree follows a failed one, a repair, or a      *)
(* restart of the host, whose crash leaves the tree as it is.              *)
(*                                                                         *)
(* Definitions marked FAULTY are variants, with a plausible bug, of the    *)
(* definition below them; no action uses them.                             *)
(***************************************************************************)
EXTENDS Naturals

CONSTANTS
    MaxFailures,    \* bound: file-system operations that fail
    MaxCrashes      \* bound: crashes of the host

ASSUME BoundsAssumption == MaxFailures \in Nat /\ MaxCrashes \in Nat

\* A properties file: none, the modpack's, or one with the overlay.
Properties == {"none", "staged", "overlay"}

\* The server's process: it writes its output, may close it, and exits.
Process == {"none", "running", "silent", "exited"}
Residue == {"world", "marker", "props"}
Result == {"none", "success", "failed", "timeout"}
Step == {"idle", "prepare", "backup", "overlay", "launch", "read", "stop", "kill", "wait",
         "clean", "restore", "unmark", "verify"}

VARIABLES
    original,   \* server.properties as the build left it
    props,      \* server.properties in the staged tree
    marker,     \* .lbby-original-server.properties
    world,      \* is there a validation world?
    proc,       \* the server
    late,       \* has the validator's timeout passed?
    pc,         \* where do_validate is
    result,     \* what it will return
    backedUp,   \* props_backed_up of the overlay guard
    committed,  \* has a commit of the tree been allowed?
    unseen,     \* history: what the check before that commit could not look at
    failures, crashes

tree == <<original, props, marker, world>>
boot == <<proc, late>>
verdict == <<committed, unseen>>
bounds == <<failures, crashes>>
vars == <<tree, boot, pc, result, backedUp, verdict, bounds>>

TypeOK ==
    /\ original \in {"none", "staged"}
    /\ props \in Properties
    /\ marker \in Properties
    /\ world \in BOOLEAN
    /\ proc \in Process
    /\ late \in BOOLEAN
    /\ pc \in Step
    /\ result \in Result
    /\ backedUp \in BOOLEAN
    /\ committed \in BOOLEAN
    /\ unseen \subseteq Residue
    /\ failures \in 0..MaxFailures
    /\ crashes \in 0..MaxCrashes

Init ==
    /\ original \in {"none", "staged"}
    /\ props = original
    /\ marker = "none"
    /\ world = FALSE
    /\ proc = "none"
    /\ late = FALSE
    /\ pc = "idle"
    /\ result = "none"
    /\ backedUp = FALSE
    /\ committed = FALSE
    /\ unseen = {}
    /\ failures = 0
    /\ crashes = 0

-----------------------------------------------------------------------------
Works == UNCHANGED failures
Fails == failures < MaxFailures /\ failures' = failures + 1

Goto(step) == pc' = step
Outcome(r, step) == result' = r /\ Goto(step)

Idle ==
    /\ Goto("idle")
    /\ result' = "none"
    /\ backedUp' = FALSE
    /\ proc' = "none"
    /\ late' = FALSE

-----------------------------------------------------------------------------
(***************************************************************************)
(* The overlay.                                                            *)
(***************************************************************************)

Validate ==
    /\ pc = "idle"
    /\ ~committed
    /\ Goto("prepare")
    /\ UNCHANGED <<tree, boot, result, backedUp, verdict, bounds>>

\* Without an accepted EULA or a free port nothing is touched.
Prepare ==
    /\ pc = "prepare"
    /\ \/ Goto("backup") /\ UNCHANGED <<boot, result, backedUp>>
       \/ Idle
    /\ UNCHANGED <<tree, verdict, bounds>>

\* write_validation_properties_with_backup.  Should it fail, the guard cleans
\* the world but does not restore.
Backup ==
    /\ pc = "backup"
    /\ \/ /\ Works
          /\ marker' = IF props = "none" THEN marker ELSE props
          /\ Goto("overlay") /\ UNCHANGED result
       \/ Fails /\ Outcome("failed", "clean") /\ UNCHANGED marker
    /\ UNCHANGED <<original, props, world, boot, backedUp, verdict, crashes>>

Overlay ==
    /\ pc = "overlay"
    /\ \/ /\ Works
          /\ props' = "overlay"
          /\ backedUp' = TRUE
          /\ Goto("launch") /\ UNCHANGED result
       \/ Fails /\ Outcome("failed", "clean") /\ UNCHANGED <<props, backedUp>>
    /\ UNCHANGED <<original, marker, world, boot, verdict, crashes>>

\* build_launch_spec may find no Java, and spawn may fail.
Launch ==
    /\ pc = "launch"
    /\ \/ /\ proc' = "running"
          /\ late' = FALSE
          /\ Goto("read") /\ UNCHANGED result
       \/ Outcome("failed", "clean") /\ UNCHANGED boot
    /\ UNCHANGED <<tree, backedUp, verdict, bounds>>

-----------------------------------------------------------------------------
(***************************************************************************)
(* The server, and the clock.                                              *)
(***************************************************************************)

\* It creates the world of the overlay, writes, may close its output first,
\* and exits by itself or not.
MakeWorld ==
    /\ proc = "running"
    /\ ~world
    /\ world' = TRUE
    /\ UNCHANGED <<original, props, marker, boot, pc, result, backedUp, verdict, bounds>>

CloseOutput ==
    /\ proc = "running"
    /\ proc' = "silent"
    /\ UNCHANGED <<tree, late, pc, result, backedUp, verdict, bounds>>

Exit ==
    /\ proc \in {"running", "silent"}
    /\ proc' = "exited"
    /\ UNCHANGED <<tree, late, pc, result, backedUp, verdict, bounds>>

Elapse ==
    /\ pc = "read"
    /\ ~late
    /\ late' = TRUE
    /\ UNCHANGED <<tree, proc, pc, result, backedUp, verdict, bounds>>

-----------------------------------------------------------------------------
(***************************************************************************)
(* validate_with_launch: the reader looks at the clock before every line.  *)
(***************************************************************************)

NeverExpired == FALSE \* FAULTY
Expired == late

TimeOut ==
    /\ pc = "read"
    /\ Expired
    /\ Outcome("timeout", "kill")
    /\ UNCHANGED <<tree, boot, backedUp, verdict, bounds>>

\* A line, which may still wait in the pipe of a server that has exited: the
\* ready signal, an OutOfMemoryError, or any other.
ReadLine ==
    /\ pc = "read"
    /\ ~Expired
    /\ proc \in {"running", "exited"}
    /\ \/ Goto("stop") /\ UNCHANGED result
       \/ Outcome("failed", "kill")
       \/ UNCHANGED <<pc, result>>
    /\ UNCHANGED <<tree, boot, backedUp, verdict, bounds>>

\* The end of the output is taken for the end of the process, which is
\* waited for, without a limit: a server that closes its output and does not
\* exit keeps the validator here.
ReadEnd ==
    /\ pc = "read"
    /\ ~Expired
    /\ proc \in {"silent", "exited"}
    /\ Outcome("failed", "wait")
    /\ UNCHANGED <<tree, boot, backedUp, verdict, bounds>>

WaitForExit ==
    /\ pc = "wait"
    /\ proc = "exited"
    /\ Goto("clean")
    /\ UNCHANGED <<tree, boot, result, backedUp, verdict, bounds>>

\* The output is not UTF-8, or cannot be read.
ReadFails ==
    /\ pc = "read"
    /\ ~Expired
    /\ Fails
    /\ Outcome("failed", "kill")
    /\ UNCHANGED <<tree, boot, backedUp, verdict, crashes>>

\* Two seconds without a line: has the process ended?
NoLine ==
    /\ pc = "read"
    /\ ~Expired
    /\ proc = "exited"
    /\ Outcome("failed", "clean")
    /\ UNCHANGED <<tree, boot, backedUp, verdict, bounds>>

\* graceful_shutdown: a stop that is not sent or not obeyed in time is a kill;
\* the boot is a success either way.  Its five bytes are the first that the
\* server's input is given: their write does not wait.
NotKilled == UNCHANGED proc \* FAULTY
Killed == proc' = "exited"

Stop ==
    /\ pc = "stop"
    /\ \/ proc = "exited" /\ UNCHANGED proc
       \/ proc # "exited" /\ Killed
    /\ Outcome("success", "clean")
    /\ UNCHANGED <<tree, late, backedUp, verdict, bounds>>

Kill ==
    /\ pc = "kill"
    /\ Killed
    /\ Goto("clean")
    /\ UNCHANGED <<tree, late, result, backedUp, verdict, bounds>>

-----------------------------------------------------------------------------
(***************************************************************************)
(* The overlay guard: finish after a success, Drop otherwise.  Both clean  *)
(* the world, and restore the properties if they were backed up; an error  *)
(* turns a success into a failure.                                         *)
(***************************************************************************)

\* cleanup_validation_world ignores what it cannot remove.
CleanWorld ==
    /\ pc = "clean"
    /\ \/ Works /\ world' = FALSE
       \/ Fails /\ world /\ UNCHANGED world
    /\ IF backedUp THEN Goto("restore") /\ UNCHANGED <<boot, result, backedUp>> ELSE Idle
    /\ UNCHANGED <<original, props, marker, verdict, crashes>>

\* do_validate returns; a success is checked further.
Return ==
    IF result = "success" THEN Goto("verify") /\ UNCHANGED <<boot, result, backedUp>> ELSE Idle

\* restore_server_properties: from the marker, or, without one, by removal.
Restore ==
    /\ pc = "restore"
    /\ \/ Works /\ marker # "none" /\ props' = marker
          /\ Goto("unmark") /\ UNCHANGED <<boot, result, backedUp>>
       \/ Works /\ marker = "none" /\ props' = "none" /\ Return
       \/ Fails /\ UNCHANGED props /\ Idle
    /\ UNCHANGED <<original, marker, world, verdict, crashes>>

Unmark ==
    /\ pc = "unmark"
    /\ \/ Works /\ marker' = "none" /\ Return
       \/ Fails /\ UNCHANGED marker /\ Idle
    /\ UNCHANGED <<original, props, world, verdict, crashes>>

\* verify_validation_cleanup, before the commit.  What cannot be listed or read
\* is not looked at, and passes.
NoResidue(missed) == \* FAULTY
    /\ world => "world" \in missed
    /\ marker # "none" => "marker" \in missed
Clean(missed) ==
    /\ world => "world" \in missed
    /\ marker # "none" => "marker" \in missed
    /\ props = "overlay" => "props" \in missed

Verify ==
    /\ pc = "verify"
    /\ \E missed \in SUBSET Residue :
          /\ IF missed = {} THEN Works ELSE Fails
          /\ committed' = Clean(missed)
          /\ unseen' = IF Clean(missed) THEN missed ELSE {}
    /\ Idle
    /\ UNCHANGED <<tree, crashes>>

\* A crash takes neither the overlay nor the marker away; the server may
\* survive it, and is no part of a later validation.
Crash ==
    /\ crashes < MaxCrashes
    /\ pc # "idle"
    /\ crashes' = crashes + 1
    /\ Idle
    /\ UNCHANGED <<tree, verdict, failures>>

\* The next transaction builds a tree of its own.
NewTree ==
    /\ pc = "idle"
    /\ committed
    /\ committed' = FALSE
    /\ unseen' = {}
    /\ original' \in {"none", "staged"}
    /\ props' = original'
    /\ marker' = "none"
    /\ world' = FALSE
    /\ UNCHANGED <<boot, pc, result, backedUp, bounds>>

-----------------------------------------------------------------------------
Reader == TimeOut \/ ReadLine \/ ReadEnd \/ ReadFails \/ NoLine
Validator ==
    \/ Prepare \/ Backup \/ Overlay \/ Launch \/ Reader \/ WaitForExit \/ Stop \/ Kill
    \/ CleanWorld \/ Restore \/ Unmark \/ Verify
ServerProcess == MakeWorld \/ CloseOutput \/ Exit

Next == Validate \/ Validator \/ ServerProcess \/ Elapse \/ Crash \/ NewTree

Spec == Init /\ [][Next]_vars

\* The validator is scheduled, and the clock runs.  Nothing is assumed of the
\* server.
Fairness ==
    /\ WF_vars(Prepare) /\ WF_vars(Backup) /\ WF_vars(Overlay) /\ WF_vars(Launch)
    /\ WF_vars(TimeOut) /\ WF_vars(WaitForExit) /\ WF_vars(Stop) /\ WF_vars(Kill)
    /\ WF_vars(CleanWorld) /\ WF_vars(Restore) /\ WF_vars(Unmark) /\ WF_vars(Verify)
    /\ WF_vars(Elapse)
FairSpec == Spec /\ Fairness

-----------------------------------------------------------------------------
(***************************************************************************)
(* Properties.                                                             *)
(***************************************************************************)

\* A tree is committed with the properties that the build gave it, whatever
\* failed or crashed in the validations before: never with the overlay of
\* one, its world, or its marker, except for one that the last check could not
\* look at.
CommittedIsOriginal ==
    committed =>
        /\ props # original => props = "overlay" /\ "props" \in unseen
        /\ world => "world" \in unseen
        /\ marker # "none" => "marker" \in unseen

\* The overlay is undone only when the server that uses it has ended: nothing
\* writes to the tree after its last check.
EndedBeforeRestored == pc \in {"clean", "restore", "unmark", "verify"} => proc \in {"none", "exited"}

\* Every validation ends, whatever the server does, but for one thing: it may
\* close its output and never exit.
ValidationEnds == pc # "idle" ~> pc = "idle" \/ [](pc = "wait" /\ proc = "silent")

(***************************************************************************)
(* Properties that the code does not have.                                 *)
(***************************************************************************)

\* "Verify that no validation artifacts remain in the staging directory", before
\* the commit: a check that cannot look lets them pass.
NothingRemains == committed => props # "overlay" /\ ~world /\ marker = "none"

\* "Force-kills child on timeout/error": every validation ends, as the timeout
\* bounds it.
AlwaysEnds == pc # "idle" ~> pc = "idle"

\* The original properties are in the tree or in the marker, always.
OriginalSurvives == original \in {props, marker} \/ original = "none"
=============================================================================
