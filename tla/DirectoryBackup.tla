--------------------------- MODULE DirectoryBackup ---------------------------
(***************************************************************************)
(* Backup and restore of a server directory (backup.rs).  A backup is      *)
(* written to its archive directly.  A restore unpacks the archive beside  *)
(* the server and then swaps two directories: the server's is moved away,  *)
(* the unpacked one takes its place.                                       *)
(*                                                                         *)
(* A tree is one of the server's contents ("old", "new"), "half" of one    *)
(* that can be read, or "partial": an archive that cannot be read, or a    *)
(* directory that is being written.                                        *)
(* Both side directories are named by the second, so a later restore never *)
(* meets those of an earlier one; what one leaves behind is in `left`.     *)
(*                                                                         *)
(* Definitions marked FAULTY are variants, with a plausible bug, of the    *)
(* definition below them; no action uses them.                             *)
(***************************************************************************)
EXTENDS Naturals

CONSTANT MaxFaults      \* bound: failing steps and crashes

Whole == {"old", "new"}
Readable == {"half"} \cup Whole
Tree == {"none", "partial"} \cup Readable

VARIABLES
    server,     \* the server's directory
    zip,        \* the archive
    staging,    \* .restore-staging-<second>
    rollback,   \* .rollback-<second>
    left,       \* trees that earlier restores left beside the server
    pc,         \* where the call is
    faults

vars == <<server, zip, staging, rollback, left, pc, faults>>

TypeOK ==
    /\ {server, zip, staging, rollback} \subseteq Tree
    /\ left \subseteq Tree
    /\ pc \in {"idle", "walk", "unpack", "clean", "away", "into", "back", "discard"}
    /\ faults \in 0..MaxFaults

Init ==
    /\ server = "old"
    /\ zip = "none"
    /\ staging = "none"
    /\ rollback = "none"
    /\ left = {}
    /\ pc = "idle"
    /\ faults = 0

Works == UNCHANGED faults
Fails == faults < MaxFaults /\ faults' = faults + 1

-----------------------------------------------------------------------------
\* The server is played; the world moves on.
Play ==
    /\ pc = "idle"
    /\ server \in Whole
    /\ server' = "new"
    /\ UNCHANGED <<zip, staging, rollback, left, pc, faults>>

\* create_server_backup: the archive is created empty before the walk.
Backup ==
    /\ pc = "idle"
    /\ server # "none"
    /\ zip' = "partial"
    /\ pc' = "walk"
    /\ UNCHANGED <<server, staging, rollback, left, faults>>

\* The walk fails at its first error, and the writer that goes out of scope still
\* ends its archive with a directory of what it holds, if the disk lets it.
Walk ==
    /\ pc = "walk"
    /\ \/ Works /\ zip' = server
       \/ Fails /\ zip' \in {"half", "partial"}
    /\ pc' = "idle"
    /\ UNCHANGED <<server, staging, rollback, left>>

-----------------------------------------------------------------------------
\* restore_server_backup, of an archive that exists.
Restore ==
    /\ pc = "idle"
    /\ zip # "none"
    /\ staging' = "partial"
    /\ pc' = "unpack"
    /\ UNCHANGED <<server, zip, rollback, left, faults>>

\* An archive that a crash left without its directory is refused; half of a
\* server is unpacked like a whole one.
UnpackInPlace == \* FAULTY
    /\ pc = "unpack"
    /\ \/ Works /\ zip \in Readable /\ server' = zip
       \/ Works /\ zip = "partial" /\ UNCHANGED server
       \/ Fails /\ server' = "partial"
    /\ staging' = "none"
    /\ pc' = "idle"
    /\ UNCHANGED <<zip, rollback, left>>
Unpack ==
    /\ pc = "unpack"
    /\ \/ Works /\ zip \in Readable /\ staging' = zip
          /\ pc' = IF server = "none" THEN "into" ELSE "away"
       \/ Works /\ zip = "partial" /\ UNCHANGED staging /\ pc' = "clean"
       \/ Fails /\ UNCHANGED staging /\ pc' = "clean"
    /\ UNCHANGED <<server, zip, rollback, left>>

\* The removal of a directory that is of no use may fail, unnoticed.
Clean ==
    /\ pc = "clean"
    /\ \/ Works /\ UNCHANGED left
       \/ Fails /\ left' = left \cup {staging}
    /\ staging' = "none"
    /\ pc' = "idle"
    /\ UNCHANGED <<server, zip, rollback>>

MoveAway ==
    /\ pc = "away"
    /\ \/ Works /\ rollback' = server /\ server' = "none" /\ pc' = "into"
       \/ Fails /\ UNCHANGED <<rollback, server>> /\ pc' = "clean"
    /\ UNCHANGED <<zip, staging, left>>

\* A failure without a tree to go back to leaves the unpacked one behind.
MoveInto ==
    /\ pc = "into"
    /\ \/ Works /\ server' = staging /\ staging' = "none" /\ pc' = "discard" /\ UNCHANGED left
       \/ Fails /\ rollback # "none" /\ UNCHANGED <<server, staging, left>> /\ pc' = "back"
       \/ /\ Fails /\ rollback = "none" /\ UNCHANGED server
          /\ left' = left \cup {staging} /\ staging' = "none" /\ pc' = "idle"
    /\ UNCHANGED <<zip, rollback>>

\* Whether the old tree comes back or not, the unpacked one stays beside it.
MoveBack ==
    /\ pc = "back"
    /\ \/ Works /\ server' = rollback /\ left' = left \cup {staging}
       \/ Fails /\ UNCHANGED server /\ left' = left \cup {staging, rollback}
    /\ staging' = "none"
    /\ rollback' = "none"
    /\ pc' = "idle"
    /\ UNCHANGED zip

Discard ==
    /\ pc = "discard"
    /\ \/ Works /\ UNCHANGED left
       \/ Fails /\ left' = left \cup ({rollback, "partial"} \ {"none"})
    /\ rollback' = "none"
    /\ pc' = "idle"
    /\ UNCHANGED <<server, zip, staging>>

\* The program ends; the side directories stay where they are.
Crash ==
    /\ Fails
    /\ left' = left \cup ({staging, rollback} \ {"none"})
    /\ staging' = "none"
    /\ rollback' = "none"
    /\ pc' = "idle"
    /\ UNCHANGED <<server, zip>>

Next ==
    \/ Play \/ Backup \/ Walk \/ Restore \/ Unpack \/ Clean
    \/ MoveAway \/ MoveInto \/ MoveBack \/ Discard \/ Crash

Spec == Init /\ [][Next]_vars

-----------------------------------------------------------------------------
\* A restore leaves in the server's place the tree that was there or all that its
\* archive holds, or has such a tree beside it when it could not finish, after any
\* failures and crashes: a server is never half unpacked and never nowhere.  What an
\* archive holds may itself be half of a server: see ArchiveIsWhole.
ServerIsOneTree ==
    /\ server # "partial"
    /\ server = "none" => Readable \cap ({rollback} \cup left) # {}

(***************************************************************************)
(* A property that the code does not have: a backup that fails leaves half *)
(* of a server under its name, and a restore takes it for one.             *)
(***************************************************************************)

\* Every archive holds a whole server.
ArchiveIsWhole == pc # "walk" => zip \in {"none"} \cup Whole
=============================================================================
