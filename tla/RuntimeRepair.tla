----------------------------- MODULE RuntimeRepair -----------------------------
(***************************************************************************)
(* What is done about a boot that failed (validation_orchestrator.rs,      *)
(* runtime_remediator.rs): the log is classified, one repair is chosen, a  *)
(* missing mod before a wrong Java, and the server is booted again.  Each  *)
(* kind of repair has a budget, and so have the boots.                     *)
(*                                                                         *)
(* A log is the set of what is found in it, with the Java major of the     *)
(* class files that it complains of, or 0.  The Java that an installation  *)
(* or a download provides is named by its major, a configured one that is  *)
(* no Java by 0.                                                           *)
(*                                                                         *)
(* Definitions marked FAULTY are variants, with a plausible bug, of the    *)
(* definition below them; no action uses them.                             *)
(***************************************************************************)
EXTENDS Naturals, Sequences, Functions

CONSTANTS
    Major,          \* the Java majors
    Known,          \* the major that the Minecraft version is known to need, or 0
    MaxBoots,       \* MAX_TOTAL_BOOT_ATTEMPTS
    MaxDependency,  \* MAX_BOOT_DEP_ROUNDS
    MaxRuntime      \* MAX_RUNTIME_ROUNDS

\* missing: a mod, with high confidence; blamed: a mod that the user may
\* quarantine; requirement: of a loader version.
Mark == {"missing", "wrong java", "out of memory", "loader", "no java", "requirement", "blamed"}
\* The class is read where the Java is wrong.
Log == {l \in [marks : SUBSET Mark, class : Major \cup {0}] :
            "wrong java" \in l.marks \/ l.class = 0}
NoLog == [marks |-> {}, class |-> 0]

Outcome == {"none", "validated", "cleanup", "limit", "failed", "loader", "runtime failed", "paused"}

VARIABLES
    java,       \* cfg.java_path
    boots, dependencies, runtimes,  \* the counters of ValidationRetryState
    tried,      \* attempted_java_majors; a path is attempted when its major is
    log,        \* of the last boot
    pc,         \* boot, decide, or done
    outcome,
    given       \* history: the majors that repairs configured, in this validation

vars == <<java, boots, dependencies, runtimes, tried, log, pc, outcome, given>>
counters == <<boots, dependencies, runtimes>>

TypeOK ==
    /\ java \in Major \cup {0}
    /\ boots \in 0..MaxBoots
    /\ dependencies \in 0..MaxDependency
    /\ runtimes \in 0..MaxRuntime
    /\ tried \subseteq Major
    /\ log \in Log
    /\ pc \in {"boot", "decide", "done"}
    /\ outcome \in Outcome
    /\ given \in Seq(Major)

Init ==
    /\ java \in Major \cup {0}
    /\ boots = 0
    /\ dependencies = 0
    /\ runtimes = 0
    /\ tried = {}
    /\ log = NoLog
    /\ pc = "boot"
    /\ outcome = "none"
    /\ given = <<>>

Finish(result) == pc' = "done" /\ outcome' = result

-----------------------------------------------------------------------------
\* analyze_runtime_issue: the first of its kinds that the log shows, and the
\* major that is required; an unknown requirement is of no use.
RequiredFor(class) == IF class > Known THEN class ELSE Known

Issue(l) ==
    CASE "wrong java" \in l.marks ->
           [kind |-> IF RequiredFor(l.class) = 0 THEN "unsupported" ELSE "wrong java",
            major |-> RequiredFor(l.class)]
      [] "wrong java" \notin l.marks /\ l.marks \cap {"out of memory", "loader"} # {} ->
           [kind |-> "diagnostic", major |-> 0]
      [] l.marks \cap {"wrong java", "out of memory", "loader"} = {} /\ "no java" \in l.marks ->
           [kind |-> IF Known = 0 THEN "unsupported" ELSE "no java", major |-> Known]
      [] OTHER -> [kind |-> "unsupported", major |-> 0]

\* classify_failure: a Java repair is chosen by the major for the wrong Java,
\* by the configured path for one that is not there.
WorthRuntime(l) ==
    /\ runtimes < MaxRuntime
    /\ \/ Issue(l).kind = "wrong java" /\ Issue(l).major \notin tried
       \/ Issue(l).kind = "no java" /\ java \notin tried

Decision(l) ==
    CASE "missing" \in l.marks /\ dependencies < MaxDependency -> "dependency"
      [] ~("missing" \in l.marks /\ dependencies < MaxDependency) /\ WorthRuntime(l) -> "runtime"
      [] OTHER -> "none"

-----------------------------------------------------------------------------
Boot ==
    /\ pc = "boot"
    /\ \/ /\ boots = MaxBoots
          /\ Finish("limit") /\ UNCHANGED <<boots, log>>
       \/ /\ boots < MaxBoots /\ boots' = boots + 1
          /\ \E result \in {"validated", "cleanup", "failed"} : Finish(result)
          /\ UNCHANGED log
       \/ /\ boots < MaxBoots /\ boots' = boots + 1
          /\ log' \in Log
          /\ pc' = "decide" /\ UNCHANGED outcome
    /\ UNCHANGED <<java, dependencies, runtimes, tried, given>>

\* attempt_boot_repair reports no success, whatever it installed: the repair
\* counts, and the validation ends.
RepairDependency ==
    /\ pc = "decide"
    /\ Decision(log) = "dependency"
    /\ dependencies' = dependencies + 1
    /\ Finish("failed")
    /\ UNCHANGED <<java, boots, runtimes, tried, log, given>>

\* remediate_java_version and remediate_java_unavailable, with
\* record_java_attempt.
RecordNothing(major) == UNCHANGED tried \* FAULTY
RecordJava(major) == tried' = tried \cup {major}

RepairRuntime ==
    /\ pc = "decide"
    /\ Decision(log) = "runtime"
    /\ runtimes' = runtimes + 1
    /\ LET major == Issue(log).major
       IN \/ /\ major \notin tried
             /\ RecordJava(major)
             /\ java' = major
             /\ given' = Append(given, major)
             /\ pc' = "boot" /\ UNCHANGED outcome
          \/ Finish("runtime failed") /\ UNCHANGED <<java, tried, given>>
    /\ log' = NoLog
    /\ UNCHANGED <<boots, dependencies>>

\* Nothing is repaired: the loader is reported, a mod offered, or neither.
GiveUp ==
    /\ pc = "decide"
    /\ Decision(log) = "none"
    /\ Finish(CASE "requirement" \in log.marks -> "loader"
                [] log.marks \cap {"requirement", "blamed"} = {"blamed"} -> "paused"
                [] OTHER -> "failed")
    /\ UNCHANGED <<java, counters, tried, log, given>>

\* from_persisted keeps the counters and no attempt.
Resume ==
    /\ pc = "done"
    /\ outcome = "paused"
    /\ pc' = "boot"
    /\ outcome' = "none"
    /\ tried' = {}
    /\ given' = <<>>
    /\ log' = NoLog
    /\ UNCHANGED <<java, counters>>

Next == Boot \/ RepairDependency \/ RepairRuntime \/ GiveUp \/ Resume

Spec == Init /\ [][Next]_vars

-----------------------------------------------------------------------------
\* No validation configures the same Java twice, whichever way the logs ask
\* for it: two logs that contradict each other cannot make it swap Javas until
\* the boots are used up.
NoRepairTwice == IsInjective(given)

(***************************************************************************)
(* A property that the code does not have.                                 *)
(***************************************************************************)

\* A repair that is reported changes the configured Java.
RepairChangesJava == [][given' # given /\ pc' = "boot" /\ given' # <<>> => java' # java]_vars
=============================================================================
