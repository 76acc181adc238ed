------------------------------- MODULE ModSide -------------------------------
(***************************************************************************)
(* quarantine_client_only_mods (mod_side.rs): before a start and after a   *)
(* pack install the client-only mods are moved out of mods, by what their  *)
(* metadata says, by what Modrinth says of their digest, and because they  *)
(* need one that goes.  The JARs that were found safe are remembered, by   *)
(* name, size and time, and not looked at again.                           *)
(*                                                                         *)
(* The user may replace a JAR between two scans.  A JAR that Modrinth      *)
(* calls unsupported is external; the scan only asks, and may get half an  *)
(* answer.                                                                 *)
(*                                                                         *)
(* A definition marked FAULTY is a variant, with a plausible bug, of the   *)
(* definition below it; no action uses it.                                 *)
(***************************************************************************)
EXTENDS Naturals

CONSTANTS
    Name,       \* file names
    Content,    \* JARs
    Declared,   \* those whose metadata says client-only
    Remote,     \* those that Modrinth calls unsupported on servers
    Needs,      \* a JAR |-> the JARs whose mod id it depends on
    NoJar,
    MaxTime,    \* bound: seconds in which the user changes a file
    MaxFaults   \* bound: answers and renames that fail

NoFile == [jar |-> NoJar, time |-> 0]

VARIABLES
    mods,       \* a name |-> its JAR and the second it was written
    cache,      \* .lbby-mod-side-cache.json: a name |-> the time it was found safe with
    aside,      \* .lbby-client-only-mods
    scanned,    \* the last scan moved all it meant to, with whole answers
    clock,
    faults

vars == <<mods, cache, aside, scanned, clock, faults>>

TypeOK ==
    /\ mods \in [Name -> [jar : Content \cup {NoJar}, time : 0..MaxTime]]
    /\ cache \in [Name -> 0..MaxTime]
    /\ aside \subseteq Content
    /\ scanned \in BOOLEAN
    /\ clock \in 1..MaxTime
    /\ faults \in 0..MaxFaults

Init ==
    /\ mods = [n \in Name |-> NoFile]
    /\ cache = [n \in Name |-> 0]
    /\ aside = {}
    /\ scanned = FALSE
    /\ clock = 1
    /\ faults = 0

Works == UNCHANGED faults
Fails == faults < MaxFaults /\ faults' = faults + 1

\* The user puts a JAR there, in a second of its own, or takes it away.
Change(n, j) ==
    /\ clock < MaxTime
    /\ clock' = clock + 1
    /\ mods' = [mods EXCEPT ![n] = IF j = NoJar THEN NoFile ELSE [jar |-> j, time |-> clock + 1]]
    /\ scanned' = FALSE
    /\ UNCHANGED <<cache, aside, faults>>

-----------------------------------------------------------------------------
Files == {n \in Name : mods[n] # NoFile}
JarOf(n) == mods[n].jar

\* The entry is of this very file.
CachedByName(n) == cache[n] # 0 \* FAULTY
Cached(n) == cache[n] # 0 /\ cache[n] = mods[n].time

DeclaredFiles == {n \in Files : JarOf(n) \in Declared}
Dependents ==
    {n \in Files : Needs[JarOf(n)] \cap {JarOf(d) : d \in DeclaredFiles} # {}}

\* Modrinth answers for the files that are neither cached nor declared.
Asked == {n \in Files : ~Cached(n)} \ DeclaredFiles

Moved(unsupported) ==
    {n \in DeclaredFiles \cup unsupported \cup Dependents : ~Cached(n)}

\* The answers, whole or not; then each file moves or is remembered as safe.
\* A file that was asked for is remembered only after whole answers.
Scan ==
    /\ \E unsupported \in SUBSET {n \in Asked : JarOf(n) \in Remote} :
          LET whole == unsupported = {n \in Asked : JarOf(n) \in Remote}
              gone == Moved(unsupported)
              safe == IF whole THEN Files \ gone ELSE (Files \ gone) \ Asked
          IN /\ IF whole THEN Works ELSE Fails
             /\ aside' = aside \cup {JarOf(n) : n \in gone}
             /\ mods' = [n \in Name |-> IF n \in gone THEN NoFile ELSE mods[n]]
             /\ cache' = [n \in Name |-> IF n \in safe THEN mods[n].time ELSE 0]
             /\ scanned' = whole
    /\ UNCHANGED clock

\* A rename fails: what was moved before stays moved, and nothing is remembered.
ScanFails ==
    /\ Fails
    /\ \E gone \in SUBSET Moved({n \in Asked : JarOf(n) \in Remote}) :
          /\ aside' = aside \cup {JarOf(n) : n \in gone}
          /\ mods' = [n \in Name |-> IF n \in gone THEN NoFile ELSE mods[n]]
    /\ scanned' = FALSE
    /\ UNCHANGED <<cache, clock>>

Next ==
    \/ \E n \in Name, j \in Content \cup {NoJar} : Change(n, j)
    \/ Scan \/ ScanFails

Spec == Init /\ [][Next]_vars

-----------------------------------------------------------------------------
\* After a whole scan no JAR is left that its metadata or Modrinth calls
\* client-only, whatever was remembered of earlier files with its name.
ScanIsComplete == scanned => \A n \in Files : JarOf(n) \notin Declared \cup Remote

(***************************************************************************)
(* Properties that the code does not have.                                 *)
(***************************************************************************)

\* Nor one that needs such a mod: one that was found safe before the other
\* came is not looked at again, and one that needs a dependent stays too.
DependentsGo ==
    [][scanned' => \A n \in Files : mods'[n] # NoFile =>
          Needs[JarOf(n)] \cap {JarOf(d) : d \in DeclaredFiles} = {}]_vars
=============================================================================
