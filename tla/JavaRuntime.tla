----------------------------- MODULE JavaRuntime -----------------------------
(***************************************************************************)
(* The Java that a server needs (java.rs) and the command that starts it   *)
(* (server_launch.rs, forge.rs): which major version, where it is found,   *)
(* and how a missing one is downloaded and unpacked into the directory     *)
(* that all servers share.                                                 *)
(*                                                                         *)
(* Definitions marked FAULTY are variants, with a plausible bug, of the    *)
(* definition below them; no action uses them.                             *)
(***************************************************************************)
EXTENDS Naturals, Sequences

CONSTANTS
    Caller,         \* the starts and repairs that ask for a Java
    MaxFaults       \* bound: failing steps and crashes

-----------------------------------------------------------------------------
(***************************************************************************)
(* Which major, and the launch command.  A Minecraft version is a record   *)
(* of its era, minor and patch; "none" and 0 stand for absent values.      *)
(***************************************************************************)

\* The releases that are known: 1.minor.patch, and 26.1 and 26.2.
KnownMajor(v) ==
    CASE v.era = 1 /\ v.minor <= 16 -> 8
      [] v.era = 1 /\ v.minor = 17 -> 16
      [] v.era = 1 /\ v.minor \in 18..19 -> 17
      [] v.era = 1 /\ v.minor = 20 -> IF v.patch <= 4 THEN 17 ELSE 21
      [] v.era = 1 /\ v.minor = 21 -> 21
      [] v.era = 26 /\ v.minor \in 1..2 -> 25
      [] OTHER -> 0

Higher(m, n) == IF m > n THEN m ELSE n

\* resolve_java_requirement: the bytecode may raise or replace what is known,
\* NeoForge may only raise it; 0 if nothing is known.
ResolveRequirement(v, loader, bytecode) ==
    LET major == Higher(KnownMajor(v), bytecode)
    IN IF loader = "NeoForge" /\ major # 0 THEN Higher(major, 21) ELSE major

\* find_java_with_version: the bundled one, then the others, in order, the
\* first whose own answer is the major; 0 is the answer of what is no Java.
FindJava(major, candidates) ==
    LET fits == SelectSeq(candidates, LAMBDA c : c.answer = major)
    IN IF fits = <<>> THEN "none" ELSE Head(fits).path

VerifyMajor(required, actual) == actual = required

\* detect_modloader_launch: the run script with its arguments file, or a
\* legacy jar, in this order, for the very version.
LoaderLaunch(files, version) ==
    CASE {<<"script", "any">>, <<"args", version>>} \subseteq files -> "script"
      [] <<"jar", version>> \in files -> "jar"
      [] <<"universal", version>> \in files -> "universal"
      [] OTHER -> "none"

\* build_server_launch_command; "none" if there is nothing to launch.  The
\* script brings its own memory flags.
LaunchCommand(cfg, files) ==
    LET ram == IF cfg.ram < 512 THEN 4096 ELSE cfg.ram
        java(jar) == [run |-> "java", jar |-> jar, xmx |-> ram, xms |-> Higher(ram \div 2, 512)]
        loader == LoaderLaunch(files, cfg.loaderVersion)
    IN CASE cfg.type \notin {"Forge", "NeoForge"} -> java("server.jar")
         [] cfg.loaderVersion = "none" -> [run |-> "none"]
         [] loader = "none" -> [run |-> "none"]
         [] loader = "script" -> [run |-> "script"]
         [] OTHER -> java(loader)

-----------------------------------------------------------------------------
(***************************************************************************)
(* ensure_java for one major that no installed Java has.  The download, the*)
(* staging directory and the destination have one path each, per major.    *)
(***************************************************************************)

Tree == {"none", "partial", "whole"}
Archive == {"none", "torn", "whole"}
Step == {"idle", "download", "check", "clear", "unpack", "move", "verify", "use"}

VARIABLES
    bundled,    \* the directory of the bundled Java
    staging,    \* where an archive is unpacked
    temp,       \* the downloaded archive
    published,  \* does Adoptium publish its checksum?
    pc,         \* where each caller is
    faults

vars == <<bundled, staging, temp, published, pc, faults>>

TypeOK ==
    /\ bundled \in Tree
    /\ staging \in Tree
    /\ temp \in Archive
    /\ published \in BOOLEAN
    /\ pc \in [Caller -> Step]
    /\ faults \in 0..MaxFaults

Init ==
    /\ bundled = "none"
    /\ staging = "none"
    /\ temp = "none"
    /\ published \in BOOLEAN
    /\ pc = [c \in Caller |-> "idle"]
    /\ faults = 0

Works == UNCHANGED faults
Fails == faults < MaxFaults /\ faults' = faults + 1
Goto(c, step) == pc' = [pc EXCEPT ![c] = step]

\* A bundled Java that answers with its major is used as it is.
Find(c) ==
    /\ pc[c] = "idle"
    /\ Goto(c, IF bundled = "whole" THEN "use" ELSE "download")
    /\ UNCHANGED <<bundled, staging, temp, published, faults>>

\* Adoptium answers and delivers, or not; a body cut short may look complete.
Download(c) ==
    /\ pc[c] = "download"
    /\ \/ Works /\ temp' = "whole" /\ Goto(c, "check")
       \/ Fails /\ temp' = "torn" /\ Goto(c, "check")
       \/ Fails /\ UNCHANGED temp /\ Goto(c, "idle")
    /\ UNCHANGED <<bundled, staging, published>>

Check(c) ==
    /\ pc[c] = "check"
    /\ IF published /\ temp # "whole"
       THEN temp' = "none" /\ Goto(c, "idle")
       ELSE UNCHANGED temp /\ Goto(c, "clear")
    /\ UNCHANGED <<bundled, staging, published, faults>>

\* What is at the destination goes, as far as it can be removed; then the archive is unpacked in staging.
Clear(c) ==
    /\ pc[c] = "clear"
    /\ bundled' \in (IF bundled = "none" THEN {"none"} ELSE {"none", "partial", bundled})
    /\ staging' = "partial"
    /\ Goto(c, "unpack")
    /\ UNCHANGED <<temp, published, faults>>

Unpack(c) ==
    /\ pc[c] = "unpack"
    /\ \/ Works /\ temp = "whole" /\ staging' = "whole" /\ Goto(c, "move")
       \/ Works /\ temp # "whole" /\ UNCHANGED staging /\ Goto(c, "idle")
       \/ Fails /\ UNCHANGED staging /\ Goto(c, "idle")
    /\ UNCHANGED <<bundled, temp, published>>

\* One rename makes it the bundled Java, if nothing is there.
MoveByCopy(c) == \* FAULTY
    /\ pc[c] = "move"
    /\ \/ Works /\ bundled' = staging /\ staging' = "none" /\ Goto(c, "verify")
       \/ Fails /\ bundled' = "partial" /\ UNCHANGED staging /\ Goto(c, "idle")
    /\ UNCHANGED <<temp, published>>
Move(c) ==
    /\ pc[c] = "move"
    /\ \/ Works /\ bundled = "none" /\ bundled' = staging /\ staging' = "none" /\ Goto(c, "verify")
       \/ Works /\ bundled # "none" /\ UNCHANGED <<bundled, staging>> /\ Goto(c, "idle")
       \/ Fails /\ UNCHANGED <<bundled, staging>> /\ Goto(c, "idle")
    /\ UNCHANGED <<temp, published>>

\* verify_java_major asks the new binary for its version.
Verify(c) ==
    /\ pc[c] = "verify"
    /\ temp' = "none"
    /\ Goto(c, IF bundled = "whole" THEN "use" ELSE "idle")
    /\ UNCHANGED <<bundled, staging, published, faults>>

\* The server that runs with it ends.
Done(c) ==
    /\ pc[c] = "use"
    /\ Goto(c, "idle")
    /\ UNCHANGED <<bundled, staging, temp, published, faults>>

Crash ==
    /\ Fails
    /\ pc' = [c \in Caller |-> "idle"]
    /\ UNCHANGED <<bundled, staging, temp, published>>

Next ==
    \/ \E c \in Caller :
        \/ Find(c) \/ Download(c) \/ Check(c) \/ Clear(c) \/ Unpack(c) \/ Move(c)
        \/ Verify(c) \/ Done(c)
    \/ Crash

Spec == Init /\ [][Next]_vars

-----------------------------------------------------------------------------
\* With one caller at a time the bundled Java is whole or absent, whatever
\* failed or crashed: find_java never meets half of one.
BundledIsWhole == bundled # "partial"

(***************************************************************************)
(* A property that the code does not have when two servers need the same   *)
(* Java at once.                                                           *)
(***************************************************************************)

\* The Java of a running server stays in place.
UsedStays == \A c \in Caller : pc[c] = "use" => bundled = "whole"
=============================================================================
