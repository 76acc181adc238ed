------------------------------- MODULE Profiles -------------------------------
(***************************************************************************)
(* profiles.json (config.rs), its cache (file_cache.rs) and the profile    *)
(* directories.  Every operation loads the whole file, changes it and      *)
(* saves it whole: to json.tmp, which is then renamed over it.             *)
(*                                                                         *)
(* Content that cannot be used is of another kind than "whole": a missing  *)
(* file, a torn or corrupt one, one of a later schema.  A modification     *)
(* time is told apart only from the one in the cache.                      *)
(*                                                                         *)
(* Definitions marked FAULTY are variants, with a plausible bug, of the    *)
(* definition below them; no action uses them.                             *)
(***************************************************************************)
EXTENDS Naturals, FiniteSets

CONSTANTS
    Profile,        \* the identifiers, each drawn once
    Caller,         \* the calls that may overlap
    NoProfile,
    MaxFaults       \* bound: damages, failing steps and crashes

Content == [kind : {"whole"}, listed : SUBSET Profile, active : Profile]
Useless(kind) == [kind |-> kind, listed |-> {}, active |-> NoProfile]
None == Useless("none")

Op == {"create", "duplicate", "delete", "activate", "edit"}
Idle == [step |-> "idle"]

VARIABLES
    file,       \* profiles.json
    tmp,        \* profiles.json.tmp
    cache,      \* FileCache: what was read
    current,    \* is the time in the cache that of the file?
    dir,        \* the server directory of each profile
    call,       \* what each call does, with the content that it works on
    faults

vars == <<file, tmp, cache, current, dir, call, faults>>

TypeOK ==
    /\ file \in Content \cup {Useless(k) : k \in {"none", "corrupt", "future"}}
    /\ tmp \in Content \cup {None, Useless("corrupt")}
    /\ cache \in Content \cup {None}
    /\ current \in BOOLEAN
    /\ dir \in [Profile -> {"none", "partial", "whole"}]
    /\ call \in [Caller -> {Idle} \cup
           [step : {"load", "read", "stamp", "copy", "write", "rename"},
            op : Op, profile : Profile, activate : BOOLEAN,
            work : Content \cup {None}, then : {"stamp", "idle"}]]
    /\ faults \in 0..MaxFaults

Init ==
    /\ file = None
    /\ tmp = None
    /\ cache = None
    /\ current = FALSE
    /\ dir = [p \in Profile |-> "none"]
    /\ call = [c \in Caller |-> Idle]
    /\ faults = 0

Works == UNCHANGED faults
Fails == faults < MaxFaults /\ faults' = faults + 1
Goto(c, step) == call' = [call EXCEPT ![c].step = step]
Return(c) == call' = [call EXCEPT ![c] = Idle]

Busy == {c \in Caller : call[c] # Idle}

\* The identifiers that were not drawn yet.
Fresh ==
    {p \in Profile :
        /\ dir[p] = "none"
        /\ p \notin file.listed \cup cache.listed
        /\ \A c \in Busy : call[c].profile # p /\ p \notin call[c].work.listed}

\* The sanitised content; without profiles a default one takes their place.
Default(p) == [kind |-> "whole", listed |-> {p}, active |-> p]
Sanitised(f) ==
    IF f.listed = {} THEN {Default(p) : p \in Fresh}
    ELSE IF f.active \in f.listed THEN {f}
    ELSE {[f EXCEPT !.active = CHOOSE p \in f.listed : TRUE]}

-----------------------------------------------------------------------------
(***************************************************************************)
(* load_profiles_file.                                                     *)
(***************************************************************************)

Begin(c, op, p, activate) ==
    /\ call[c] = Idle
    /\ IF op \in {"create", "duplicate"} THEN p \in Fresh ELSE p \notin Fresh
    /\ call' = [call EXCEPT ![c] =
           [step |-> "load", op |-> op, profile |-> p, activate |-> activate,
            work |-> None, then |-> "idle"]]
    /\ UNCHANGED <<file, tmp, cache, current, dir, faults>>

\* What an operation saves, or None when it refuses.
DeletedActive(f, p) == f.active \* FAULTY
ActiveWithout(f, p) == IF f.active = p THEN CHOOSE q \in f.listed \ {p} : TRUE ELSE f.active

Changed(f, op, p, activate) ==
    CASE op \in {"create", "duplicate"} ->
           [f EXCEPT !.listed = @ \cup {p}, !.active = IF activate THEN p ELSE @]
      [] op = "delete" /\ p \in f.listed /\ Cardinality(f.listed) > 1 ->
           [f EXCEPT !.listed = @ \ {p}, !.active = ActiveWithout(f, p)]
      [] op = "activate" /\ p \in f.listed -> [f EXCEPT !.active = p]
      [] op = "edit" /\ p \in f.listed -> f
      [] OTHER -> None

\* The operation itself, on what was loaded; a duplicate copies the server first.
Proceed(c, f) ==
    LET new == Changed(f, call[c].op, call[c].profile, call[c].activate)
    IN IF new = None THEN Return(c)
       ELSE call' = [call EXCEPT ![c].work = new, ![c].then = "idle",
                ![c].step = IF call[c].op = "duplicate" THEN "copy" ELSE "write"]

\* A file with the time of the cache was not changed since.
Load(c) ==
    /\ call[c].step = "load"
    /\ IF file # None /\ cache # None /\ current THEN Proceed(c, cache) ELSE Goto(c, "read")
    /\ UNCHANGED <<file, tmp, cache, current, dir, faults>>

\* A missing file is created with a default, one that can be parsed is saved
\* again, sanitised; what cannot be parsed is set aside, a later schema stays.
Read(c) ==
    /\ call[c].step = "read"
    /\ \/ \E f \in Sanitised(file) :
            /\ file.kind \in {"none", "whole"}
            /\ call' = [call EXCEPT ![c].work = f, ![c].step = "write", ![c].then = "stamp"]
            /\ UNCHANGED <<file, current>>
       \/ file.kind = "corrupt" /\ file' = None /\ current' = FALSE /\ Return(c)
       \/ file.kind = "future" /\ UNCHANGED <<file, current>> /\ Return(c)
    /\ UNCHANGED <<tmp, cache, dir, faults>>

\* get_or_load takes the time of the file after its content.
Stamp(c) ==
    /\ call[c].step = "stamp"
    /\ IF file = None
       THEN UNCHANGED <<cache, current>>
       ELSE cache' = call[c].work /\ current' = TRUE
    /\ Proceed(c, call[c].work)
    /\ UNCHANGED <<file, tmp, dir, faults>>

-----------------------------------------------------------------------------
(***************************************************************************)
(* create_profile's copy, and save_profiles_file.                          *)
(***************************************************************************)

CopyServer(c) ==
    /\ call[c].step = "copy"
    /\ \/ /\ Works
          /\ dir' = [dir EXCEPT ![call[c].profile] = "whole"]
          /\ Goto(c, "write")
       \/ /\ Fails
          /\ dir' = [dir EXCEPT ![call[c].profile] = "partial"]
          /\ Return(c)
    /\ UNCHANGED <<file, tmp, cache, current>>

\* A load goes on without the save that failed; only the default must be saved.
Unsaved(c) ==
    IF call[c].then = "stamp" /\ file # None THEN Goto(c, "stamp") ELSE Return(c)

WriteInPlace(c) == \* FAULTY
    /\ call[c].step = "write"
    /\ \/ Works /\ file' = call[c].work /\ Return(c)
       \/ Fails /\ file' = Useless("corrupt") /\ Return(c)
    /\ current' = FALSE
    /\ UNCHANGED <<tmp, cache, dir>>
Write(c) ==
    /\ call[c].step = "write"
    /\ \/ Works /\ tmp' = call[c].work /\ Goto(c, "rename")
       \/ Fails /\ tmp' = Useless("corrupt") /\ Unsaved(c)
    /\ UNCHANGED <<file, cache, current, dir>>

Rename(c) ==
    /\ call[c].step = "rename"
    /\ cache' = None
    /\ current' = FALSE
    /\ \/ /\ Works
          /\ file' = tmp
          /\ tmp' = None
          /\ IF call[c].then = "idle" THEN Return(c) ELSE Goto(c, call[c].then)
       \/ Fails /\ UNCHANGED <<file, tmp>> /\ Unsaved(c)
    /\ UNCHANGED dir

-----------------------------------------------------------------------------
\* Between two calls the file may be damaged, removed, edited or written by a
\* later build.
Damage ==
    /\ Busy = {}
    /\ Fails
    /\ file' \in {Useless(k) : k \in {"none", "corrupt", "future"}} \cup
           {[file EXCEPT !.active = p] : p \in {q \in Profile : file.kind = "whole"}}
    /\ current' = FALSE
    /\ UNCHANGED <<tmp, cache, dir, call>>

Crash ==
    /\ Busy # {}
    /\ Fails
    /\ cache' = None
    /\ current' = FALSE
    /\ tmp' \in {tmp} \cup {Useless("corrupt") : c \in {d \in Busy : call[d].step = "write"}}
    /\ dir' = [p \in Profile |->
           IF \E c \in Busy : call[c].step = "copy" /\ call[c].profile = p THEN "partial" ELSE dir[p]]
    /\ call' = [c \in Caller |-> Idle]
    /\ UNCHANGED file

Next ==
    \/ \E c \in Caller :
        \/ \E op \in Op, p \in Profile, activate \in BOOLEAN : Begin(c, op, p, activate)
        \/ Load(c) \/ Read(c) \/ Stamp(c) \/ CopyServer(c) \/ Write(c) \/ Rename(c)
    \/ Damage
    \/ Crash

Spec == Init /\ [][Next]_vars

-----------------------------------------------------------------------------
\* A call, a failure or a crash leaves what can be read readable, and a profile
\* leaves the file only when it is deleted; a file of a later build is not
\* written over.
Deleted == {call[c].profile : c \in {d \in Busy : call[d].op = "delete"}}
Keeps ==
    /\ file.kind = "future" => file' = file
    /\ file.kind = "whole" => file'.kind = "whole" /\ file.listed \ file'.listed \subseteq Deleted
ProfilesStay == [][Damage \/ Keeps]_vars

\* What a call saves names a listed profile as the active one, and no listed
\* profile has half of a copied server.
ProfilesAreWhole ==
    /\ \A c \in Busy : call[c].work.kind = "whole" => call[c].work.active \in call[c].work.listed
    /\ \A p \in file.listed : dir[p] # "partial"

(***************************************************************************)
(* Properties that the code does not have: a load whose save failed caches *)
(* the sanitised content.                                                  *)
(***************************************************************************)

\* What the cache answers is what the file holds.
CacheIsCurrent == current /\ cache # None => cache = file

\* Profiles that cannot be parsed are not replaced by defaults.
NotReplaced ==
    [][\A c \in Busy : call[c].step = "read" /\ file.kind = "corrupt" => file' # None]_vars
=============================================================================
