------------------------------- MODULE TModMods -------------------------------
(***************************************************************************)
(* The mods of a tModLoader server (tmod_services.rs), with the downloads  *)
(* of steamcmd.rs and install_tmodloader of server.rs: the .tmod files in  *)
(* Mods, enabled.json with the names of those that are on, and install.txt *)
(* with the Workshop items that were installed.                            *)
(*                                                                         *)
(* Each list is read, changed and written as a whole, without a lock and   *)
(* without a temporary file: a failed write leaves it torn.  Export and    *)
(* open_mods_folder change nothing here and are left out.                  *)
(*                                                                         *)
(* Definitions marked FAULTY are variants, with a plausible bug, of the    *)
(* definition below them; no action uses them.                             *)
(***************************************************************************)
EXTENDS Naturals, FiniteSets

CONSTANTS
    Name,       \* internal names; the file of a mod is named for it
    Item,       \* Workshop items
    ModsOf,     \* [Item -> SUBSET Name]: the .tmod files of each
    Pack,       \* modpack directories: their mods, lists, absent ones None
    None,
    Torn,       \* a list that was written halfway
    Caller,
    NoPack,
    MaxFaults   \* bound: failing operations and crashes

List(S) == (SUBSET S) \cup {None}

Idle == [op |-> "idle", step |-> "idle", mods |-> {}, loaded |-> {},
         item |-> None, pack |-> NoPack, queue |-> {}]
Op == {"on", "off", "set", "delete", "add", "install", "import", "server"}
Step == {"remove", "copy", "read", "write", "steamcmd", "record", "lists", "next", "extract", "empty"}

VARIABLES
    program,    \* the tModLoader server itself
    mods,       \* the state of each .tmod file
    enabled,    \* enabled.json
    ids,        \* install.txt
    steam,      \* SteamCMD in its directory
    items,      \* the items that are where steamcmd.rs looks for them
    call,       \* the call of each caller
    faults

vars == <<program, mods, enabled, ids, steam, items, call, faults>>

TypeOK ==
    /\ program \in {"none", "part", "whole"}
    /\ mods \in [Name -> {"none", "torn", "whole"}]
    /\ enabled \in List(Name) \cup {Torn}
    /\ ids \in List(Item)
    /\ steam \in {"none", "part", "whole"}
    /\ items \subseteq Item
    /\ \A c \in Caller : call[c] = Idle \/ (call[c].op \in Op /\ call[c].step \in Step)
    /\ faults \in 0..MaxFaults

Init ==
    /\ program = "none"
    /\ mods = [n \in Name |-> "none"]
    /\ enabled = None
    /\ ids = None
    /\ steam = "none"
    /\ items = {}
    /\ call = [c \in Caller |-> Idle]
    /\ faults = 0

Works == UNCHANGED faults
Fails == faults < MaxFaults /\ faults' = faults + 1
Goto(c, step) == call' = [call EXCEPT ![c].step = step]
Return(c) == call' = [call EXCEPT ![c] = Idle]
Begin(c, work) ==
    /\ call[c] = Idle
    /\ call' = [call EXCEPT ![c] = work]
    /\ UNCHANGED <<program, mods, enabled, ids, steam, items, faults>>

-----------------------------------------------------------------------------
(***************************************************************************)
(* enabled.json.                                                           *)
(***************************************************************************)

Files == UNCHANGED <<program, mods, ids, steam, items>>

\* read_enabled_json: an absent list is empty, a torn one an error.
ReadableAlways(list) == TRUE \* FAULTY
Readable(list) == list # Torn
Loaded(list) == IF list \in {None, Torn} THEN {} ELSE list

\* toggle_mod, alone or at the end of delete_mod and add_mod_file.
Toggle(c, n) ==
    \E op \in {"on", "off"} : Begin(c, [Idle EXCEPT !.op = op, !.step = "read", !.mods = {n}])

Read(c) ==
    /\ call[c].step = "read"
    /\ IF Readable(enabled)
       THEN call' = [call EXCEPT ![c].step = "write",
                ![c].loaded = IF call[c].op \in {"on", "add"} THEN Loaded(enabled) \cup call[c].mods
                              ELSE Loaded(enabled) \ call[c].mods]
       ELSE Return(c)
    /\ Files /\ UNCHANGED <<enabled, faults>>

SetEnabled(c, S) ==
    Begin(c, [Idle EXCEPT !.op = "set", !.step = "write", !.loaded = S])

\* write_enabled_json truncates the file before it writes.
Write(c) ==
    /\ call[c].step = "write"
    /\ \/ Works /\ enabled' = call[c].loaded
       \/ Fails /\ enabled' \in {enabled, Torn}
    /\ Return(c)
    /\ Files

-----------------------------------------------------------------------------
(***************************************************************************)
(* Files: delete_mod and add_mod_file toggle at the end and do not look at *)
(* the outcome.                                                            *)
(***************************************************************************)

Delete(c, n) ==
    /\ mods[n] # "none"
    /\ Begin(c, [Idle EXCEPT !.op = "delete", !.step = "remove", !.mods = {n}])

Remove(c) ==
    /\ call[c].step = "remove"
    /\ \/ Works /\ mods' = [n \in Name |-> IF n \in call[c].mods THEN "none" ELSE mods[n]] /\ Goto(c, "read")
       \/ Fails /\ UNCHANGED mods /\ Return(c)
    /\ UNCHANGED <<program, enabled, ids, steam, items>>

Add(c, n) == Begin(c, [Idle EXCEPT !.op = "add", !.step = "copy", !.mods = {n}])

\* What follows the last copied file.
AfterCopy(c) ==
    CASE call[c].op = "add" -> "read"
      [] call[c].item # None -> "record"
      [] OTHER -> "lists"

\* The files are copied one by one, over those of the same name; add_mod_file
\* has one and keeps it for the toggle.
Left(c) == IF call[c].op = "add" THEN call[c].mods ELSE call[c].queue

Copy(c) ==
    /\ call[c].step = "copy"
    /\ \E n \in Left(c) :
          \/ /\ Works
             /\ mods' = [mods EXCEPT ![n] = "whole"]
             /\ call' = [call EXCEPT ![c].queue = @ \ {n},
                    ![c].step = IF Left(c) = {n} THEN AfterCopy(c) ELSE "copy"]
          \/ Fails /\ mods' \in {mods, [mods EXCEPT ![n] = "torn"]} /\ Return(c)
    /\ UNCHANGED <<program, enabled, ids, steam, items>>

-----------------------------------------------------------------------------
(***************************************************************************)
(* The Workshop, modpacks, and the server.                                 *)
(***************************************************************************)

InstallItem(c, i) == Begin(c, [Idle EXCEPT !.op = "install", !.step = "steamcmd", !.item = i])

\* download_workshop_item.  SteamCMD is installed first where none is found,
\* and unpacked in its place: one that was unpacked halfway is found the next time.
InstallSteam(c) ==
    /\ call[c].step = "steamcmd" /\ steam = "none"
    /\ \/ Works /\ steam' = "whole" /\ UNCHANGED call
       \/ Fails /\ steam' \in {"none", "part"} /\ Return(c)
    /\ UNCHANGED <<program, mods, enabled, ids, items>>

\* SteamCMD is not told a directory; whether the item is then in download_dir
\* is its choice.  An item that has no .tmod is an error.
SteamCmd(c) ==
    /\ call[c].step = "steamcmd" /\ steam # "none"
    /\ \/ /\ Works /\ steam = "whole"
          /\ items' \in {items, items \cup {call[c].item}}
          /\ IF call[c].item \in items' /\ ModsOf[call[c].item] # {}
             THEN call' = [call EXCEPT ![c].step = "copy", ![c].queue = ModsOf[call[c].item]]
             ELSE Return(c)
       \/ /\ Fails \/ (Works /\ steam = "part")
          /\ UNCHANGED items /\ Return(c)
    /\ UNCHANGED <<program, mods, enabled, ids, steam>>

\* What an item that is recorded twice adds to install.txt: nothing.
Recorded(c) == IF ids = None THEN {call[c].item} ELSE ids \cup {call[c].item}

\* The items of a modpack that are still to be installed.
NextItem(c) ==
    IF call[c].op = "import" THEN call' = [call EXCEPT ![c].step = "next", ![c].item = None]
    ELSE Return(c)

Record(c) ==
    /\ call[c].step = "record"
    /\ \/ Works /\ ids' = Recorded(c) /\ NextItem(c)
       \/ /\ Fails
          /\ ids' \in {ids} \cup IF Recorded(c) = ids THEN {} ELSE SUBSET Recorded(c)
          /\ Return(c)
    /\ UNCHANGED <<program, mods, enabled, steam, items>>

Import(c, p) ==
    Begin(c, [Idle EXCEPT !.op = "import", !.pack = p, !.queue = p.mods,
                          !.step = IF p.mods = {} THEN "lists" ELSE "copy"])

\* enabled.json and then install.txt of the pack, where it has them, take the
\* place of the server's; without an install.txt the import is over.
Over(list, new) == IF new = None THEN list ELSE new

Lists(c) ==
    LET p == call[c].pack
    IN /\ call[c].step = "lists"
       /\ \/ /\ Works
             /\ enabled' = Over(enabled, p.enabled)
             /\ ids' = Over(ids, p.ids)
             /\ IF p.ids = None THEN Return(c)
                ELSE call' = [call EXCEPT ![c].step = "next", ![c].mods = {}, ![c].queue = {}, ![c].loaded = p.ids]
          \/ /\ Fails
             /\ \/ enabled' \in {enabled} \cup (IF p.enabled = None THEN {} ELSE {Torn}) /\ UNCHANGED ids
                \/ /\ p.ids # None
                   /\ enabled' = Over(enabled, p.enabled)
                   /\ ids' \in {ids} \cup SUBSET p.ids
             /\ Return(c)
    /\ UNCHANGED <<program, mods, steam, items>>

\* One item after the other; the first that fails ends the import.
NextOf(c) ==
    /\ call[c].step = "next"
    /\ IF call[c].loaded = {} THEN Return(c)
       ELSE \E i \in call[c].loaded :
              call' = [call EXCEPT ![c].loaded = @ \ {i}, ![c].item = i, ![c].step = "steamcmd"]
    /\ Files /\ UNCHANGED <<enabled, faults>>

\* install_tmodloader: download and extraction go over what is there.
InstallServer(c) == Begin(c, [Idle EXCEPT !.op = "server", !.step = "extract"])

Extract(c) ==
    /\ call[c].step = "extract"
    /\ \/ Works /\ program' = "whole" /\ Goto(c, "empty")
       \/ Fails /\ program' \in {program, "part"} /\ Return(c)
    /\ UNCHANGED <<mods, enabled, ids, steam, items>>

\* An empty list, where there is none.
EmptyAlways == TRUE \* FAULTY
NeedsEmpty == enabled = None

Empty(c) ==
    /\ call[c].step = "empty"
    /\ IF NeedsEmpty
       THEN \/ Works /\ enabled' = {}
            \/ Fails /\ enabled' \in {None, Torn}
       ELSE Works /\ UNCHANGED enabled
    /\ Return(c)
    /\ Files

\* The process ends between two steps; within one it leaves what a failure leaves.
Crash ==
    /\ Fails
    /\ call' = [c \in Caller |-> Idle]
    /\ Files /\ UNCHANGED enabled

Next ==
    \/ \E c \in Caller :
          \/ \E n \in Name : Toggle(c, n) \/ Delete(c, n) \/ Add(c, n)
          \/ \E S \in SUBSET Name : SetEnabled(c, S)
          \/ \E i \in Item : InstallItem(c, i)
          \/ \E p \in Pack : Import(c, p)
          \/ InstallServer(c)
          \/ Read(c) \/ Write(c) \/ Remove(c) \/ Copy(c)
          \/ InstallSteam(c) \/ SteamCmd(c) \/ Record(c)
          \/ Lists(c) \/ NextOf(c) \/ Extract(c) \/ Empty(c)
    \/ Crash

Spec == Init /\ [][Next]_vars

-----------------------------------------------------------------------------
Working(op) == \E c \in Caller : call[c].op \in op

\* Only a caller who gives a whole list replaces one that cannot be read; a
\* change of one mod changes no other's state, an update of the server none.
ListIsKept ==
    [][Working({"set", "import"}) \/ enabled' \in {enabled, Torn}
       \/ /\ enabled # Torn
          /\ LET old == Loaded(enabled)
                 new == enabled'
             IN \E c \in Caller : (old \ new) \cup (new \ old) \subseteq call[c].mods]_vars

\* An item that an install records has been copied, every file of it.
RecordedIsCopied ==
    [][\A i \in Item : Working({"install"}) /\ i \in Loaded(ids)' \ Loaded(ids)
          => \A n \in ModsOf[i] : mods[n] = "whole"]_vars

(***************************************************************************)
(* Properties that the code does not have.                                 *)
(***************************************************************************)

\* What an install brought is on, as what add_mod_file brought is: today
\* nothing turns it on (tmod_services.rs:287).
InstalledIsOn ==
    [][\A c \in Caller : call[c].op = "install" /\ call[c].step = "record" /\ faults' = faults
          => ModsOf[call[c].item] \subseteq Loaded(enabled)']_vars
=============================================================================
