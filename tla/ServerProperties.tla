---------------------------- MODULE ServerProperties ----------------------------
(***************************************************************************)
(* Edits of server.properties (minecraft_properties.rs).  Installers, the  *)
(* settings and the configuration sync patch the file under one lock, each *)
(* from what it reads there; the game server writes the file on its own.   *)
(*                                                                         *)
(* A file is a sequence of entries; a comment has no key.  The last entry  *)
(* of a key counts.                                                        *)
(*                                                                         *)
(* Definitions marked FAULTY are variants, with a plausible bug, of the    *)
(* definition below them; no action uses them.                             *)
(***************************************************************************)
EXTENDS Naturals, Sequences, FiniteSets

CONSTANTS
    Key, Value, Caller,
    NoKey, NoValue, NoCaller,
    MaxWrites,      \* bound: writes of the game server
    MaxFaults       \* bound: failing steps and crashes

Missing == [i \in {0} |-> NoKey]   \* no sequence
Entry(key, value) == <<key, value>>
Comment == Entry(NoKey, NoValue)
Template == <<Entry(CHOOSE k \in Key : TRUE, CHOOSE v \in Value : TRUE), Comment>>

VARIABLES
    file,       \* the entries, or Missing
    lock,       \* PROPERTIES_WRITE_LOCK
    call,       \* each call: its step, its patch and the text to be written
    last,       \* history: the value that the last finished patch gave a key
    writes, faults

vars == <<file, lock, call, last, writes, faults>>

Nothing == [k \in {} |-> NoValue]
Patches == UNION {[S -> Value] : S \in SUBSET Key \ {{}}}
Idle == [step |-> "idle", kind |-> "none", patch |-> Nothing, text |-> Missing]

Entries == {<<k, v>> : k \in Key \cup {NoKey}, v \in Value \cup {NoValue}}

TypeOK ==
    /\ file = Missing \/ file \in Seq(Entries)
    /\ lock \in Caller \cup {NoCaller}
    /\ \A c \in Caller :
          /\ call[c].step \in {"idle", "wait", "read", "write"}
          /\ call[c].kind \in {"none", "merge", "existing", "ensure"}
          /\ call[c].patch \in Patches \cup {Nothing}
    /\ last \in [Key -> Value \cup {NoValue}]
    /\ writes \in 0..MaxWrites
    /\ faults \in 0..MaxFaults

Init ==
    /\ file \in {Missing, Template} \cup
           {<<Entry(k, v), Comment, Entry(k, w)>> : k \in Key, v \in Value, w \in Value}
    /\ lock = NoCaller
    /\ call = [c \in Caller |-> Idle]
    /\ last = [k \in Key |-> NoValue]
    /\ writes = 0
    /\ faults = 0

Fails == faults < MaxFaults /\ faults' = faults + 1

-----------------------------------------------------------------------------
\* to_map: the last occurrence wins.
ValueOf(text, key) ==
    LET of == {i \in DOMAIN text : text[i][1] = key}
    IN IF of = {} THEN NoValue ELSE text[CHOOSE i \in of : \A j \in of : j <= i][2]

\* Document::merge: every entry of a patched key takes the value, what is not
\* there is appended in the order of the keys, all else stays as it is.
Merge(text, patch) ==
    LET patched == [i \in DOMAIN text |->
                       IF text[i][1] \in DOMAIN patch THEN Entry(text[i][1], patch[text[i][1]])
                       ELSE text[i]]
        new == {k \in DOMAIN patch : ValueOf(text, k) = NoValue}
        order == CHOOSE s \in [1..Cardinality(new) -> new] : \A k \in new : \E i \in DOMAIN s : s[i] = k
    IN patched \o [i \in DOMAIN order |-> Entry(order[i], patch[order[i]])]

-----------------------------------------------------------------------------
\* merge_properties_file, patch_existing_properties, ensure_properties_file.
Begin(c) ==
    /\ call[c] = Idle
    /\ \/ \E kind \in {"merge", "existing"}, patch \in Patches :
            call' = [call EXCEPT ![c] = [Idle EXCEPT !.step = "wait", !.kind = kind, !.patch = patch]]
       \/ call' = [call EXCEPT ![c] = [Idle EXCEPT !.step = "wait", !.kind = "ensure"]]
    /\ UNCHANGED <<file, lock, last, writes, faults>>

AcquireAnyway(c) == lock' = c \* FAULTY
Acquire(c) == lock = NoCaller /\ lock' = c

Lock(c) ==
    /\ call[c].step = "wait"
    /\ Acquire(c)
    /\ call' = [call EXCEPT ![c].step = "read"]
    /\ UNCHANGED <<file, last, writes, faults>>

Done(c) == call' = [call EXCEPT ![c] = Idle] /\ lock' = NoCaller

\* What each call makes of the file that it reads; the file itself if there is
\* nothing to write.
Text(c) ==
    CASE call[c].kind = "ensure" -> IF file = Missing THEN Template ELSE file
      [] call[c].kind # "ensure" /\ file = Missing ->
           IF call[c].kind = "existing" THEN file ELSE Merge(<<>>, call[c].patch)
      [] OTHER -> Merge(file, call[c].patch)

Patched(c) ==
    last' = [k \in Key |->
        IF k \in DOMAIN call[c].patch /\ file' # Missing THEN call[c].patch[k] ELSE last[k]]

Read(c) ==
    /\ call[c].step = "read"
    /\ \/ /\ Text(c) = file
          /\ Done(c)
          /\ UNCHANGED <<file, faults>>
          /\ Patched(c)
       \/ /\ Text(c) # file
          /\ call' = [call EXCEPT ![c].step = "write", ![c].text = Text(c)]
          /\ UNCHANGED <<file, lock, last, faults>>
       \/ Fails /\ Done(c) /\ UNCHANGED <<file, last>>
    /\ UNCHANGED writes

\* atomic_properties_text: a new file is linked, so that one that appeared
\* meanwhile stays; an existing one is replaced.
CreateOver(text) == file' = text \* FAULTY
Create(text) == file' = IF file = Missing THEN text ELSE file

Write(c) ==
    /\ call[c].step = "write"
    /\ \/ /\ IF call[c].kind = "ensure" THEN Create(call[c].text) ELSE file' = call[c].text
          /\ Patched(c)
          /\ UNCHANGED faults
       \/ Fails /\ UNCHANGED <<file, last>>
    /\ Done(c)
    /\ UNCHANGED writes

\* The game server knows no lock: it creates the file, or writes it with the
\* values that it has.
Serve ==
    /\ writes < MaxWrites
    /\ writes' = writes + 1
    /\ \E v \in [Key -> Value] :
          /\ file' = Merge(IF file = Missing THEN <<Comment>> ELSE file, v)
          /\ last' = v
    /\ UNCHANGED <<lock, call, faults>>

Crash ==
    /\ lock # NoCaller
    /\ Fails
    /\ call' = [c \in Caller |-> Idle]
    /\ lock' = NoCaller
    /\ UNCHANGED <<file, last, writes>>

Next ==
    \/ \E c \in Caller : Begin(c) \/ Lock(c) \/ Read(c) \/ Write(c)
    \/ Serve
    \/ Crash

Spec == Init /\ [][Next]_vars

-----------------------------------------------------------------------------
\* A patch leaves the comments and the entries of other keys as they are, where
\* they are, and adds none.
RestStays(text, patch) ==
    LET merged == Merge(text, patch)
    IN /\ \A i \in DOMAIN text : i \in DOMAIN merged /\ merged[i][1] = text[i][1]
       /\ \A i \in DOMAIN merged :
             merged[i][1] \in DOMAIN patch \/ (i \in DOMAIN text /\ merged[i] = text[i])

\* While the game server does not write, every finished patch of the program
\* stays, whatever patches overlap it; and a patch touches its keys only.
PatchesStay ==
    /\ writes = 0 =>
          \A k \in Key : last[k] # NoValue => file # Missing /\ ValueOf(file, k) = last[k]
    /\ file # Missing => \A patch \in Patches : RestStays(file, patch)

\* A file that the game server has just created is not replaced by defaults.
CreatedStays ==
    [][\A c \in Caller : call[c].step = "write" /\ call[c].kind = "ensure" /\ file # Missing
            => file' = file \/ writes' # writes]_vars

(***************************************************************************)
(* A property that the code does not have.                                 *)
(***************************************************************************)

\* What the game server writes is not undone by a patch of other keys.
ServedStays ==
    \A k \in Key : last[k] # NoValue => ValueOf(file, k) = last[k]
=============================================================================
