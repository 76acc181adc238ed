-------------------------- MODULE QuarantineListing --------------------------
(***************************************************************************)
(* What a quarantine directory says (recovery_actions.rs): the listing of  *)
(* a server's quarantined mods, and the checks that a restore makes of a   *)
(* record before it copies (QuarantineRestore has its steps).  Both read   *)
(* metadata that a crash may have torn, a newer version written or a hand  *)
(* changed, so that every directory is an input.                           *)
(*                                                                         *)
(* A directory is one transaction's: its quarantine_metadata.json, the     *)
(* JARs in its mods with their content, and whether a JAR lies beside      *)
(* them.  A name is a sequence of its parts, the stem and a number; a path *)
(* is a sequence of names, and a record's file a name, so that it lies in  *)
(* the directory.                                                          *)
(*                                                                         *)
(* Definitions marked FAULTY are variants, with a plausible bug, of the    *)
(* definition below them; nothing uses them.                               *)
(***************************************************************************)
EXTENDS Naturals, Sequences, FiniteSets, SequencesExt

CONSTANTS
    IdsIn,          \* the mod ids that each content declares
    ClientOnly,     \* the contents that are explicitly of clients
    Protected,      \* is_protected_component
    Server          \* the server that is asked for

None == "none"
Mods == <<"mods">>
Top == <<"/">>
Up == {<<"..">>, <<"two..dots">>}

\* load_quarantine_metadata: no file, no records that can be read, or records.
LoadMetadata(dir) ==
    CASE dir.schema = "absent" -> <<"none">>
      [] dir.schema \in {"torn", "future"} -> <<"error">>
      [] OTHER -> <<"records", dir.records>>
Records(dir) == IF LoadMetadata(dir)[1] = "records" THEN LoadMetadata(dir)[2] ELSE <<>>

\* compute_record_id, within a transaction.
RecordId(record) == <<record.path, record.sha>>

\* What the artifact of a record is now.
Artifact(dir, record) ==
    CASE record.file \notin DOMAIN dir.mods -> "MissingArtifact"
      [] record.file \in DOMAIN dir.mods /\ dir.mods[record.file] # record.sha -> "HashMismatch"
      [] OTHER -> "Quarantined"

-----------------------------------------------------------------------------
(***************************************************************************)
(* list_quarantined_mods_at.                                               *)
(***************************************************************************)

ListedAsStored(dir, record) == record.status \* FAULTY
Listed(dir, record) ==
    IF record.status = "Restored" THEN "Restored" ELSE Artifact(dir, record)

HasJars(dir) == DOMAIN dir.mods # {} \/ dir.jarAtRoot

Listing(dirs) ==
    LET read == {d \in DOMAIN dirs : ~dirs[d].link}
        of(kind) == {d \in read : LoadMetadata(dirs[d])[1] = kind}
    IN [records |-> UNION {{[dir |-> d, at |-> k, shown |-> Listed(dirs[d], Records(dirs[d])[k])] :
                              k \in DOMAIN Records(dirs[d])} : d \in of("records")},
        orphaned |-> {d \in of("none") : HasJars(dirs[d])},
        corrupt |-> of("error")]

-----------------------------------------------------------------------------
(***************************************************************************)
(* restore_quarantined_mod, up to the copy.  live is the mods directory,   *)
(* with the content of its files.                                          *)
(***************************************************************************)

\* validate_restore_destination: mods/<name>, and a mods directory that is
\* there.  A name with two dots in a row counts as a way out.
Destination(path, live) ==
    CASE \E k \in DOMAIN path : path[k] \in Up -> "PathEscape"
      [] path # <<>> /\ Head(path) = Top -> "PathEscape"
      [] Len(path) # 2 \/ Head(path) # Mods -> "InvalidMetadata"
      [] ~live.there -> "Failed"
      [] OTHER -> "valid"

\* check_duplicate_providers.
Provided(live, ids) == \E f \in DOMAIN live.mods : IdsIn[live.mods[f]] \cap ids # {}

\* The first check that fails, in the order of the code.
Refusal(dir, record, live) ==
    LET content == dir.mods[record.file]
        failed == SelectSeq(<<
            IF record.server # Server THEN "RecordNotFound" ELSE None,
            IF record.status = "Restored" THEN "AlreadyRestored" ELSE None,
            IF Artifact(dir, record) # "Quarantined" THEN Artifact(dir, record) ELSE None,
            IF /\ Artifact(dir, record) = "Quarantined"
               /\ record.ids # {} /\ IdsIn[content] # {} /\ record.ids # IdsIn[content]
            THEN "IdentityMismatch" ELSE None,
            IF record.ids \cap Protected # {} THEN "ProtectedComponent" ELSE None,
            IF Destination(record.path, live) # "valid" THEN Destination(record.path, live) ELSE None,
            IF record.path # <<>> /\ Last(record.path) \in DOMAIN live.mods
            THEN "DestinationConflict" ELSE None,
            IF Provided(live, record.ids) THEN "DuplicateProviderConflict" ELSE None,
            IF /\ Artifact(dir, record) = "Quarantined"
               /\ content \in ClientOnly /\ record.ids # {}
            THEN "ExplicitClientOnly" ELSE None>>, LAMBDA r : r # None)
    IN IF failed = <<>> THEN "copies" ELSE Head(failed)

Restore(dir, id, live) ==
    LET records == Records(dir)
        found == {k \in DOMAIN records : RecordId(records[k]) = id}
    IN CASE LoadMetadata(dir)[1] = "error" -> "InvalidMetadata"
         [] LoadMetadata(dir)[1] # "error" /\ found = {} -> "RecordNotFound"
         [] OTHER -> Refusal(dir, records[Min(found)], live)

-----------------------------------------------------------------------------
(***************************************************************************)
(* quarantine_jar and record_quarantine.                                   *)
(***************************************************************************)

\* find_unique_quarantine_path: the name, or the name with the first number
\* that is free.
UniquePath(dir, file) ==
    IF file \notin DOMAIN dir.mods THEN file
    ELSE Append(file, Min({i \in 2..99 : Append(file, i) \notin DOMAIN dir.mods}))

\* A JAR of this content is set aside and recorded under the name it got.
SetAside(dir, file, content) ==
    LET name == UniquePath(dir, file)
        record == [file |-> name, sha |-> content, path |-> <<Mods, file>>, ids |-> IdsIn[content],
                   server |-> Server, status |-> "Quarantined"]
    IN [dir EXCEPT !.mods = [f \in DOMAIN @ \cup {name} |-> IF f = name THEN content ELSE @[f]],
                   !.schema = "v1",
                   !.records = Append(Records(dir), record)]

-----------------------------------------------------------------------------
(***************************************************************************)
(* find_pending_recoveries and check_no_active_transactions, which look at *)
(* the transactions of a staging root.                                     *)
(***************************************************************************)

Marked(staging) == {t \in DOMAIN staging : staging[t].marker = "whole"}
FindPendingRecoveries(staging) ==
    {t \in Marked(staging) : staging[t].phase = "PendingUserAction" /\ staging[t].recovery = "whole"}
CheckNoActiveTransactions(staging, live) ==
    \A t \in Marked(staging) : staging[t].live = live => staging[t].phase = "Committed"

-----------------------------------------------------------------------------
(***************************************************************************)
(* Properties of every directory.                                          *)
(***************************************************************************)

\* No quarantine is out of sight: of a directory that holds a JAR the listing shows
\* records, or that it is orphaned or corrupt, unless its metadata has no records.
NoArtifactIsHidden(dirs) ==
    LET listing == Listing(dirs)
    IN \A d \in DOMAIN dirs :
        (/\ ~dirs[d].link /\ HasJars(dirs[d])
         /\ dirs[d].schema = "v1" => dirs[d].records # <<>>) =>
          d \in {r.dir : r \in listing.records} \cup listing.orphaned \cup listing.corrupt

\* The listing and the restore agree on every record of the server: what is shown
\* as quarantined is refused for no reason that the listing could have shown,
\* and for what is shown otherwise the restore gives that reason.
ListingAgrees(dir, live) ==
    LET listing == Listing([d \in {1} |-> dir])
        reasons == {"RecordNotFound", "AlreadyRestored", "MissingArtifact", "HashMismatch"}
        said(shown) == IF shown = "Restored" THEN "AlreadyRestored" ELSE shown
    IN \A r \in listing.records :
        LET record == Records(dir)[r.at]
            answer == Restore(dir, RecordId(record), live)
        IN (/\ record.server = Server
            /\ \A k \in DOMAIN Records(dir) : RecordId(Records(dir)[k]) = RecordId(record) => k = r.at) =>
             IF r.shown = "Quarantined" THEN answer \notin reasons ELSE answer = said(r.shown)

\* A mod that was set aside and recorded can be brought back: the listing shows
\* it, no name of an earlier one is taken, and the restore copies it into live mods
\* that have neither the file nor a mod of its own.
AsideComesBack(dir, file, content, live) ==
    LET after == SetAside(dir, file, content)
        k == Len(after.records)
        record == after.records[k]
    IN (/\ ~dir.link /\ LoadMetadata(dir)[1] # "error"
        /\ content \notin ClientOnly /\ IdsIn[content] \cap Protected = {}
        /\ live.there /\ file \notin DOMAIN live.mods /\ ~Provided(live, IdsIn[content])
        /\ \A i \in DOMAIN Records(dir) : RecordId(Records(dir)[i]) # RecordId(record)) =>
         /\ [dir |-> 1, at |-> k, shown |-> "Quarantined"] \in Listing([d \in {1} |-> after]).records
         /\ \A f \in DOMAIN dir.mods : after.mods[f] = dir.mods[f]
         /\ Restore(after, RecordId(record), live) = "copies"

\* While a recovery waits for its user nothing is restored into its server, whatever
\* other transactions lie beside it.
PendingBlocksRestore(staging) ==
    \A t \in FindPendingRecoveries(staging) : ~CheckNoActiveTransactions(staging, staging[t].live)

(***************************************************************************)
(* Properties that the code does not have.                                 *)
(***************************************************************************)

\* A JAR without a record is shown: beside one that has a record it is not.
EveryJarIsListed(dirs) ==
    \A d \in DOMAIN dirs : \A f \in DOMAIN dirs[d].mods : ~dirs[d].link =>
        \/ d \in Listing(dirs).orphaned \cup Listing(dirs).corrupt
        \/ \E k \in DOMAIN Records(dirs[d]) : Records(dirs[d])[k].file = f

\* Every record is one that a restore can find: the same file, set aside twice
\* with the same content, has two records with one id.
RecordsAreFound(dir) ==
    \A i, k \in DOMAIN Records(dir) : RecordId(Records(dir)[i]) = RecordId(Records(dir)[k]) => i = k

\* A restore makes the live mods directory that is not there, as its step 18
\* says: the check of the destination, before it, fails for want of it.
ModsAreMade(dir, id, live) == Restore(dir, id, live) # "Failed"

\* "Find all pending recovery transactions for a server": they are those of every
\* server whose directory lies beside it.
PendingIsOwn(staging, live) == \A t \in FindPendingRecoveries(staging) : staging[t].live = live
=============================================================================
