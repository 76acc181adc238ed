---------------------------- MODULE Pregeneration ----------------------------
(***************************************************************************)
(* The pre-generation of chunks (do_pregenerate_chunks and run_pregen of   *)
(* server.rs): a background task sends the running server one command a    *)
(* batch, until the square is covered, the user cancels or the server      *)
(* stops.  A cell is what the code counts as a chunk.                      *)
(*                                                                         *)
(* A definition marked FAULTY is a variant, with a plausible bug, of the   *)
(* definition below it; no action uses it.                                 *)
(***************************************************************************)
EXTENDS Integers, FiniteSets

CONSTANTS
    MaxOutages, \* bound: how often the server stops
    MaxChunks,  \* bound: the largest request; the licence's cap in the code
    BATCH,      \* the side of a batch, 16
    Release,    \* all cells are released when this divides their number, 1024
    U32         \* the first number that a u32 does not hold

VARIABLES
    running, cancelled, total, completed,   \* PregenState
    up,         \* the server runs
    outages,    \* how often it has stopped
    side,       \* side_len of the task
    at,         \* the lower corner <<x, z>> of its batch
    step,       \* what the task does next with it: check, write or sleep
    forced,     \* the cells that the server was told to keep loaded
    generated,  \* those that this task has sent
    lost,       \* history: those of batches that no server was there to take
    ended       \* how the last task ended

world == <<up, outages>>
task == <<side, at, step>>
vars == <<running, cancelled, total, completed, world, task, forced, generated, lost, ended>>

\* The side of the smallest square that holds n cells, made odd.
CeilSqrt(n) == CHOOSE s \in 1..n : s * s >= n /\ (s - 1) * (s - 1) < n
EvenSide(n) == CeilSqrt(n) \* FAULTY
SideOf(n) == IF CeilSqrt(n) % 2 = 0 THEN CeilSqrt(n) + 1 ELSE CeilSqrt(n)

\* (total as f64).sqrt() as u32
FloorSqrt(n) == CHOOSE s \in 0..n : s * s <= n /\ (s + 1) * (s + 1) > n
Half == side \div 2
Square == (-Half..Half) \X (-Half..Half)

Least(a, b) == IF a < b THEN a ELSE b
Batch == (at[1]..Least(at[1] + BATCH - 1, Half)) \X (at[2]..Least(at[2] + BATCH - 1, Half))

Limit == SideOf(MaxChunks) * SideOf(MaxChunks)

TypeOK ==
    /\ {running, cancelled, up} \subseteq BOOLEAN
    /\ {total, completed} \subseteq 0..Limit
    /\ outages \in 0..MaxOutages
    /\ side \in 0..SideOf(MaxChunks)
    /\ at \in Int \X Int
    /\ step \in {"check", "write", "sleep"}
    /\ ended \in {"not", "complete", "cancelled", "stopped", "failed", "panic"}

Init ==
    /\ running = FALSE
    /\ cancelled = FALSE
    /\ total = 0
    /\ completed = 0
    /\ up = TRUE
    /\ outages = 0
    /\ side = 0
    /\ at = <<0, 0>>
    /\ step = "check"
    /\ forced = {}
    /\ generated = {}
    /\ lost = {}
    /\ ended = "not"

\* The command, while the state is locked; a square that a u32 does not hold
\* aborts the call.
Start(n) ==
    /\ up
    /\ ~running
    /\ LET square == SideOf(n) * SideOf(n)
       IN IF square >= U32
          THEN ended' = "panic" /\ UNCHANGED <<running, cancelled, total, completed, task, generated, lost>>
          ELSE /\ running' = TRUE
               /\ cancelled' = FALSE
               /\ total' = square
               /\ completed' = 0
               /\ side' = FloorSqrt(square)
               /\ at' = <<-(FloorSqrt(square) \div 2), -(FloorSqrt(square) \div 2)>>
               /\ step' = "check"
               /\ generated' = {}
               /\ lost' = {}
               /\ ended' = "not"
    /\ UNCHANGED <<world, forced>>

\* The end of the task: all cells are released if the server runs.
End(how) ==
    /\ running' = FALSE
    /\ cancelled' = FALSE
    /\ forced' = IF up THEN {} ELSE forced
    /\ ended' = how
    /\ UNCHANGED <<total, completed, world, task, generated, lost>>

\* The status is looked at under one lock, and the command written under another, if
\* there is a server to write to by then; a batch that is not written is not told
\* from one that is.
CheckServer ==
    /\ running
    /\ at[2] <= Half
    /\ step = "check"
    /\ ~cancelled
    /\ up
    /\ step' = "write"
    /\ UNCHANGED <<running, cancelled, total, completed, world, side, at, forced, generated, lost, ended>>

SendBatch ==
    /\ running
    /\ step = "write"
    /\ IF up
       THEN /\ forced' = forced \cup Batch
            /\ generated' = generated \cup Batch
            /\ UNCHANGED lost
       ELSE lost' = lost \cup Batch /\ UNCHANGED <<forced, generated>>
    /\ step' = "sleep"
    /\ UNCHANGED <<running, cancelled, total, completed, world, side, at, ended>>

\* The pipe of a server that has just ended is broken, as the release then is.
SendFails ==
    /\ running
    /\ step = "write"
    /\ up
    /\ running' = FALSE
    /\ cancelled' = FALSE
    /\ ended' = "failed"
    /\ UNCHANGED <<total, completed, world, task, forced, generated, lost>>

\* After the sleep: the cells are counted, and released at every multiple.
CountBatch ==
    /\ running
    /\ step = "sleep"
    /\ completed' = Least(completed + Cardinality(Batch), total)
    /\ forced' = IF up /\ (completed + Cardinality(Batch)) % Release = 0 THEN {} ELSE forced
    /\ at' = IF at[1] + BATCH <= Half THEN <<at[1] + BATCH, at[2]>> ELSE <<-Half, at[2] + BATCH>>
    /\ step' = "check"
    /\ UNCHANGED <<running, cancelled, total, world, side, generated, lost, ended>>

GiveUp ==
    /\ running
    /\ at[2] <= Half
    /\ step = "check"
    /\ \/ cancelled /\ End("cancelled")
       \/ ~cancelled /\ ~up /\ End("stopped")

Complete ==
    /\ running
    /\ at[2] > Half
    /\ End("complete")

\* cancel_pregenerate.
Cancel ==
    /\ running
    /\ cancelled' = TRUE
    /\ UNCHANGED <<running, total, completed, world, task, forced, generated, lost, ended>>

\* The user stops and starts the server.
Stop ==
    /\ up => outages < MaxOutages
    /\ up' = ~up
    /\ outages' = IF up THEN outages + 1 ELSE outages
    /\ UNCHANGED <<running, cancelled, total, completed, task, forced, generated, lost, ended>>

Next ==
    \/ \E n \in 1..MaxChunks : Start(n)
    \/ CheckServer \/ SendBatch \/ SendFails \/ CountBatch \/ GiveUp \/ Complete \/ Cancel \/ Stop

Spec == Init /\ [][Next]_vars

-----------------------------------------------------------------------------
\* A task that says it is complete has been through its square, every cell of it
\* counted once: a cell was sent to the server, unless the server was gone between
\* the look at its status and the write.
SquareIsCovered ==
    /\ ended = "complete" => generated \cup lost = Square /\ completed = total
    /\ running /\ step # "sleep" => completed = Cardinality(generated \cup lost)

(***************************************************************************)
(* Properties that the code does not have.                                 *)
(***************************************************************************)

\* A task that is over leaves no cell loaded: one that the server stopped
\* under does.
EndedReleases == ~running => forced = {}

\* What is counted was sent to a server.
CountedWasSent == lost = {}

\* Every request that the cap allows can be counted.
SquareFits == ended # "panic"
=============================================================================
