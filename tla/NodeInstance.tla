---------------------------- MODULE NodeInstance ----------------------------
(***************************************************************************)
(* The instance of a node (node_api.rs): one directory that is prepared    *)
(* for a specification, started, stopped and deleted, without profiles.    *)
(* The supervisor that calls holds what the last prepare returned and the  *)
(* handle of the process, and makes one call at a time.                    *)
(*                                                                         *)
(* What a loader's installer does is the matter of ServerInstall, how      *)
(* server.properties is written that of ServerProperties, and how Java is  *)
(* found that of JavaRuntime: here each works or fails.                    *)
(*                                                                         *)
(* Definitions marked FAULTY are variants, with a plausible bug, of the    *)
(* definition below them; no action uses them.                             *)
(***************************************************************************)
EXTENDS Naturals, Sequences

CONSTANTS
    Version,
    MaxFaults   \* bound: failing operations and crashes

Distribution == {"paper", "forge", "purpur"}
Downloaded == {"paper"}     \* what download_server_jar knows; vanilla and folia are as paper
Loader == {"forge"}                 \* modloader_details; neoforge is as forge
Spec_ == [distribution : Distribution, version : Version, eulaAccepted : BOOLEAN]

None == [distribution |-> "none"]
Runtime(spec, size) == [distribution |-> spec.distribution, version |-> spec.version, size |-> size]
Idle == [step |-> "idle", spec |-> None]
Step == {"java", "runtime", "eula", "properties", "stop", "delete"}

VARIABLES
    jar,        \* server.jar: what was downloaded, and how much of it
    loader,     \* the loader that detect_modloader_launch finds
    eula,       \* eula.txt: whose acceptance it holds
    properties, \* server.properties
    prepared,   \* the specification that the last prepare returned for
    running,    \* the supervisor holds a process
    call,
    faults

files == <<jar, loader, eula, properties>>
vars == <<files, prepared, running, call, faults>>

Jar == [distribution : Downloaded, version : Version, size : {"small", "part", "whole"}]
TypeOK ==
    /\ jar \in Jar \cup {None}
    /\ loader \in [distribution : Loader, version : Version, size : {"whole"}] \cup {None}
    /\ eula \in {"none", "accepted", "not accepted"}
    /\ properties \in {"none", "default", "edited"}
    /\ running \in BOOLEAN
    /\ prepared \in Spec_ \cup {None}
    /\ call.step \in Step \cup {"idle"}
    /\ faults \in 0..MaxFaults

Init ==
    /\ jar = None /\ loader = None
    /\ eula = "none" /\ properties = "none"
    /\ prepared = None /\ running = FALSE
    /\ call = Idle
    /\ faults = 0

Works == UNCHANGED faults
Fails == faults < MaxFaults /\ faults' = faults + 1
Goto(step) == call' = [call EXCEPT !.step = step]
Return == call' = Idle

-----------------------------------------------------------------------------
(***************************************************************************)
(* prepare_minecraft.                                                      *)
(***************************************************************************)

Prepare(spec) ==
    /\ call = Idle
    /\ call' = [step |-> "java", spec |-> spec]
    /\ UNCHANGED <<files, prepared, running, faults>>

\* Java is found or downloaded, and is of the major that was asked for.
Java ==
    /\ call.step = "java"
    /\ \/ Works /\ Goto("runtime")
       \/ Fails /\ Return
    /\ UNCHANGED <<files, prepared, running>>

\* A server.jar of 1024 bytes and more is taken for valid, whatever it is of; a
\* loader, for the version that is asked for.
Reusable ==
    IF call.spec.distribution \in Loader THEN loader = Runtime(call.spec, "whole")
    ELSE jar # None /\ jar.size # "small"

\* download_to_file: what failed is not renamed over what is there.  A body that
\* is too short is, and then refused.
TornInPlace(spec) == {jar, Runtime(spec, "part")} \* FAULTY
Torn(spec) == {jar}

Install ==
    /\ call.step = "runtime" /\ ~Reusable
    /\ IF call.spec.distribution \in Loader
       THEN /\ \/ Works /\ loader' = Runtime(call.spec, "whole") /\ Goto("eula")
               \/ Fails /\ loader' \in {loader, None} /\ Return
            /\ UNCHANGED jar
       ELSE /\ IF call.spec.distribution \in Downloaded
               THEN \/ Works /\ jar' = Runtime(call.spec, "whole") /\ Goto("eula")
                    \/ Fails /\ jar' \in Torn(call.spec) \cup {Runtime(call.spec, "small")} /\ Return
               ELSE Works /\ UNCHANGED jar /\ Return
            /\ UNCHANGED loader
    /\ UNCHANGED <<eula, properties, prepared, running>>

Reuse ==
    /\ call.step = "runtime" /\ Reusable
    /\ Goto("eula")
    /\ UNCHANGED <<files, prepared, running, faults>>

\* eula.txt says true, whether the specification accepts it or not.
Eula ==
    /\ call.step = "eula"
    /\ \/ /\ Works
          /\ eula' = IF call.spec.eulaAccepted THEN "accepted" ELSE "not accepted"
          /\ Goto("properties")
       \/ Fails /\ UNCHANGED eula /\ Return
    /\ UNCHANGED <<jar, loader, properties, prepared, running>>

\* ensure_properties_file writes where there is none.
OverwrittenProperties == "default" \* FAULTY
EnsuredProperties == IF properties = "none" THEN "default" ELSE properties

Properties ==
    /\ call.step = "properties"
    /\ \/ Works /\ properties' = EnsuredProperties /\ prepared' = call.spec
       \/ Fails /\ UNCHANGED <<properties, prepared>>
    /\ Return
    /\ UNCHANGED <<jar, loader, eula, running>>

Edit ==
    /\ properties # "none"
    /\ properties' = "edited"
    /\ UNCHANGED <<jar, loader, eula, prepared, running, call, faults>>

-----------------------------------------------------------------------------
(***************************************************************************)
(* The process.                                                            *)
(***************************************************************************)

\* start_minecraft looks for a loader again, and for nothing else.
Start ==
    /\ call = Idle /\ prepared # None /\ ~running
    /\ \/ /\ Works
          /\ prepared.distribution \in Loader => loader = Runtime(prepared, "whole")
          /\ running' = TRUE
       \/ Fails /\ UNCHANGED running
    /\ UNCHANGED <<files, prepared, call>>

Exit ==
    /\ running
    /\ running' = FALSE
    /\ UNCHANGED <<files, prepared, call, faults>>

\* stop_minecraft: whether "stop" could be sent is not looked at.
CallStop ==
    /\ call = Idle /\ running
    /\ call' = [Idle EXCEPT !.step = "stop"]
    /\ UNCHANGED <<files, prepared, running, faults>>

\* The server ends within the grace period, or is killed after it; a kill that
\* fails leaves it.
ReturnAfterGrace == UNCHANGED running \* FAULTY
Kill == running' = FALSE

Stop ==
    /\ call.step = "stop"
    /\ \/ Works /\ ~running /\ UNCHANGED running
       \/ Works /\ running /\ Kill
       \/ Fails /\ UNCHANGED running
    /\ Return
    /\ UNCHANGED <<files, prepared>>

\* delete_minecraft: remove_dir_all may fail after any of the files.
CallDelete ==
    /\ call = Idle /\ ~running
    /\ call' = [Idle EXCEPT !.step = "delete"]
    /\ UNCHANGED <<files, prepared, running, faults>>

Delete ==
    /\ call.step = "delete"
    /\ \/ Works /\ jar' = None /\ loader' = None /\ eula' = "none" /\ properties' = "none"
       \/ /\ Fails
          /\ jar' \in {jar, None} /\ loader' \in {loader, None}
          /\ eula' \in {eula, "none"} /\ properties' \in {properties, "none"}
    /\ Return
    /\ UNCHANGED <<prepared, running>>

\* The supervisor ends, and holds no process any more, whether or not it ends too.
Crash ==
    /\ Fails
    /\ call' = Idle /\ prepared' = None /\ running' = FALSE
    /\ jar' \in IF call.step = "runtime" /\ ~Reusable /\ call.spec.distribution \in Downloaded
                THEN Torn(call.spec) ELSE {jar}
    /\ UNCHANGED <<loader, eula, properties>>

\* upsert_node_jvm_args: the lines between the markers go, and so do blank ones at
\* the end; those of Lbby come first, with a blank line between them and the rest.
Managed == <<"start", "heap", "end">>
Marker == {"start", "end"}
Outside(lines) ==
    {i \in DOMAIN lines : /\ lines[i] \notin Marker
                          /\ \A j \in 1..i : lines[j] = "start" => \E k \in j..i : lines[k] = "end"}
Kept(lines) ==
    LET last == {i \in Outside(lines) : lines[i] # ""}
        kept == {i \in Outside(lines) : \E j \in last : i <= j}
        at[i \in 0..Len(lines)] ==
            IF i = 0 THEN <<>> ELSE IF i \in kept THEN Append(at[i - 1], lines[i]) ELSE at[i - 1]
    IN at[Len(lines)]
Upserted(lines) ==
    IF Kept(lines) = <<>> THEN Managed ELSE Managed \o <<"">> \o Kept(lines)

Next ==
    \/ \E spec \in Spec_ : Prepare(spec)
    \/ Java \/ Install \/ Reuse \/ Eula \/ Properties \/ Edit
    \/ Start \/ Exit \/ CallStop \/ Stop \/ CallDelete \/ Delete
    \/ Crash

Spec == Init /\ [][Next]_vars

-----------------------------------------------------------------------------
(***************************************************************************)
(* Properties.                                                             *)
(***************************************************************************)

\* What prepare goes on with was downloaded or installed as a whole, although it
\* takes any server.jar of some size for valid; and a loader is of the version
\* that was asked for.
PreparedIsWhole ==
    call.step \in {"eula", "properties"} =>
        IF call.spec.distribution \in Loader THEN loader = Runtime(call.spec, "whole")
        ELSE jar # None /\ jar.size = "whole"

\* A stop that succeeds leaves no process, and only deleting takes away the
\* server.properties that the user has edited.
StoppedIsEnded ==
    [][/\ call.step = "stop" /\ call'.step = "idle" /\ faults' = faults => ~running'
       /\ properties = "edited" /\ properties' # "edited" => call.step = "delete"]_vars

\* A prepare keeps the user's own JVM arguments, each once and in their order, and
\* has one block of Lbby's, however often it is made.
UserArgs(lines) == SelectSeq(lines, LAMBDA l : l \notin {"", "start", "heap", "end"})
ArgsAreKept ==
    \A n \in 0..4 : \A lines \in [1..n -> {"-Da", "-Db", ""}] :
        LET once == Upserted(lines)
            edited == Append(once, "-Dc")
        IN /\ UserArgs(once) = UserArgs(lines)
           /\ UserArgs(Upserted(edited)) = Append(UserArgs(lines), "-Dc")
           /\ SelectSeq(Upserted(edited), LAMBDA l : l \in Marker) = <<"start", "end">>

(***************************************************************************)
(* Properties that the code does not have.                                 *)
(***************************************************************************)

\* eula.txt is written only for a specification that accepts it
\* (node_api.rs:41): it is written for each.
EulaIsAccepted == eula # "not accepted"

\* What is prepared is what was asked for: a jar of another version or another
\* distribution is reused (node_api.rs:187).
PreparedIsAsked ==
    prepared # None /\ prepared.distribution \in Downloaded /\ jar # None =>
        jar.distribution = prepared.distribution /\ jar.version = prepared.version

\* A second prepare changes nothing ("this is idempotent", node_api.rs:146): the
\* blank line after Lbby's block counts as the user's, so that each adds one.
ArgsAreStable == Upserted(Upserted(<<"-Da">>)) = Upserted(<<"-Da">>)

\* add_node_jvm_args: the least heap is 512 MB, whatever the greatest is.
Heap(ram) == [most |-> ram, least |-> IF ram \div 2 < 512 THEN 512 ELSE ram \div 2]
HeapFits(ram) == Heap(ram).least <= Heap(ram).most
=============================================================================
