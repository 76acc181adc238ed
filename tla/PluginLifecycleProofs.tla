--------------------------- MODULE PluginLifecycleProofs ---------------------------
(***************************************************************************)
(* A receipt vouches for its project's bytes only, an update keeps the     *)
(* plugin that it found and an install adds no second one of a name:       *)
(* proofs about PluginLifecycle for any projects, files, artifacts and     *)
(* calls.                                                                  *)
(***************************************************************************)
EXTENDS PluginLifecycle, TLAPS

DiskTypes ==
    /\ plugins \in [File -> Content]
    /\ bak \in [File -> Content]
    /\ receipts \in [File -> Receipt]
    /\ temp \in [File -> Content]
CallTypes ==
    /\ guard \in Call \cup {NoCall}
    /\ pc \in [Call -> Step]
    /\ job \in [Call -> Job]
    /\ snap \in [Call -> Scanned]
    /\ store \in [Call -> [File -> Receipt]]
Counters == failures \in 0..MaxFailures /\ crashes \in 0..MaxCrashes

\* Each step belongs to an operation, and knows the artifact that it works on.
Active(c) == pc[c] \notin {"idle", "guard"}
StageFits(c) ==
    /\ pc[c] \in {"download", "verify", "examine", "copy"} => job[c].op = "install"
    /\ pc[c] \in {"check", "fetch", "backup", "write", "retire", "cleanup"} =>
          job[c].op = "update"
    /\ pc[c] = "unlink" => job[c].op = "remove"
    /\ pc[c] = "guard" => job[c].op \in Guarded
    /\ pc[c] = "hash" => job[c].op \in {"install", "update"}
    /\ pc[c] \in {"load", "save"} => job[c].op \in {"install", "update", "remove"}
    /\ Active(c) /\ pc[c] \notin {"check", "unlink"} /\ job[c].op # "remove" =>
          job[c].art \in Artifact

\* Who works under the guard holds it.
GuardHeld(c) == Active(c) /\ job[c].op \in Guarded => guard = c

CallsFit == CallTypes /\ \A c \in Call : StageFits(c) /\ GuardHeld(c)
TInv == DiskTypes /\ CallsFit /\ Counters

\* A receipt that names a project holds the hash of one of its artifacts.
Earned(r) == r = NoReceipt \/ (r.hash \in Artifact /\ r.project = Origin[r.hash])
ReceiptsAreEarned == \A f \in File : Earned(receipts[f])

\* When the host does not overlap the calls that take no guard, a call that is at work
\* is alone: what it wrote is what it reads.
Alone == \A c, d \in Call :
            c # d /\ pc[c] # "idle" /\ pc[d] # "idle" => {job[c].op, job[d].op} \subseteq Guarded

\* The file that an update found is in the backup until the new one is in place.
Kept(c) ==
    plugins[job[c].file] = Missing \/ bak[job[c].file] = plugins[job[c].file]
SamePlugin(c) ==
    job[c].art \in Described /\ NameOf[job[c].art] = NameOf[snap[c].art[job[c].file]]
InPlace(c) == plugins[Target(c)] = job[c].art

Sound(c) ==
    /\ pc[c] \in {"download", "verify", "examine", "copy"} => snap[c] = Scan
    /\ pc[c] = "verify" => temp[Target(c)] \in Delivered(job[c].art)
    /\ pc[c] \in {"examine", "copy"} => temp[Target(c)] = job[c].art
    /\ pc[c] = "copy" => Installable(c)
    /\ pc[c] \in {"backup", "write", "retire", "cleanup"} => SamePlugin(c)
    /\ pc[c] = "hash" /\ job[c].op = "update" => SamePlugin(c)
    /\ pc[c] = "write" => Kept(c)
    /\ pc[c] = "retire" => job[c].file = Target(c) \/ Kept(c)
    /\ pc[c] \in {"retire", "cleanup", "hash"} => InPlace(c)
    /\ pc[c] = "load" /\ job[c].op # "remove" => store[c][Target(c)].hash = job[c].art
    /\ pc[c] = "save" => \A f \in File : Earned(store[c][f])

SInv == ReceiptsAreEarned /\ Alone /\ \A c \in Call : Sound(c)

-----------------------------------------------------------------------------
(***************************************************************************)
(* Types, steps and the guard, whatever calls overlap.                     *)
(***************************************************************************)

LEMMA Idle ==
  /\ NoJob \in Job /\ NoJob.op = "none" /\ NoReceipt \in Receipt
  /\ NoReceipts \in [File -> Receipt] /\ NoScan \in Scanned
<1>1. (CHOOSE f \in File : TRUE) \in File
  BY ConstantsAssumption
<1>2. NoReceipt \in Receipt /\ NoReceipts \in [File -> Receipt]
  BY DEF NoReceipt, NoReceipts, Receipt, Content
<1> QED
  BY <1>1, <1>2 DEF NoJob, Job, Operation, Content, NoScan, Scanned

\* What a scan finds is well formed.
LEMMA ScanIsTyped ==
  ASSUME DiskTypes
  PROVE  Scan \in Scanned
<1>1. \A f \in File : Trust(f) \in Project \cup {NoProject}
  BY DEF DiskTypes, Trust, Receipt
<1> QED
  BY <1>1 DEF Scan, Scanned, DiskTypes

\* Nothing happens to the other calls.
Others(c) == \A d \in Call \ {c} :
    pc'[d] = pc[d] /\ job'[d] = job[d] /\ snap'[d] = snap[d] /\ store'[d] = store[d]

LEMMA CallMoves ==
  ASSUME CallsFit, NEW c \in Call, Others(c), CallTypes', StageFits(c)',
         guard' = guard \/ (guard = c /\ guard' = NoCall) \/ guard = NoCall, GuardHeld(c)'
  PROVE  CallsFit'
<1>1. NoCall \notin Call
  BY ConstantsAssumption
<1>2. ASSUME NEW d \in Call \ {c} PROVE StageFits(d)' /\ GuardHeld(d)'
  <2>1. StageFits(d) /\ GuardHeld(d) /\ pc'[d] = pc[d] /\ job'[d] = job[d]
    BY DEF CallsFit, Others
  <2> QED
    BY <1>1, <2>1 DEF StageFits, GuardHeld, Active
<1> QED
  BY <1>2 DEF CallsFit

LEMMA ReturnFits ==
  ASSUME CallsFit, NEW c \in Call, Return(c)
  PROVE  CallsFit' /\ Others(c) /\ pc'[c] = "idle"
<1>1. CallTypes' /\ pc'[c] = "idle" /\ Others(c)
  BY Idle DEF CallsFit, CallTypes, Return, Goto, Step, Others
<1>2. StageFits(c)' /\ GuardHeld(c)'
  BY <1>1 DEF StageFits, GuardHeld, Active
<1>3. guard' = guard \/ (guard = c /\ guard' = NoCall)
  BY DEF Return
<1> QED
  BY <1>1, <1>2, <1>3, CallMoves

\* The next update of a batch, or the end of it.
LEMMA NextUpdateFits ==
  ASSUME CallsFit, NEW c \in Call, NextUpdate(c), Active(c), job[c].op = "update"
  PROVE  /\ CallsFit' /\ Others(c) /\ pc'[c] \in {"idle", "check"}
         /\ pc'[c] = "check" => job'[c].op = "update"
<1>1. CASE job[c].todo = {}
  BY <1>1, ReturnFits DEF NextUpdate
<1>2. CASE job[c].todo # {}
  <2>1. PICK f \in job[c].todo :
          job' = [job EXCEPT ![c] = [op |-> "update", file |-> f, art |-> Missing,
                                     todo |-> job[c].todo \ {f}]]
    BY <1>2 DEF NextUpdate
  <2>2. /\ store' = [store EXCEPT ![c] = NoReceipts] /\ pc' = [pc EXCEPT ![c] = "check"]
        /\ UNCHANGED <<guard, snap>>
    BY <1>2 DEF NextUpdate, Goto
  <2>3. job[c].todo \subseteq File
    BY DEF CallsFit, CallTypes, Job
  <2>4. [op |-> "update", file |-> f, art |-> Missing, todo |-> job[c].todo \ {f}] \in Job
    BY <2>1, <2>3 DEF Job, Operation, Content
  <2>5. CallTypes' /\ Others(c) /\ pc'[c] = "check" /\ job'[c].op = "update"
    BY <2>1, <2>2, <2>4, Idle DEF CallsFit, CallTypes, Step, Others
  <2>6. StageFits(c)' /\ GuardHeld(c)'
    BY <2>2, <2>5 DEF StageFits, GuardHeld, Active, CallsFit, Guarded
  <2> QED
    BY <2>2, <2>5, <2>6, CallMoves
<1> QED
  BY <1>1, <1>2

\* A call ends, or goes on with the next update of its batch.
Ends(c) == /\ Others(c) /\ pc'[c] \in {"idle", "check"}
           /\ pc'[c] = "check" => job[c].op = "update" /\ job'[c].op = "update"

LEMMA FinishFits ==
  ASSUME CallsFit, NEW c \in Call, Finish(c), Active(c)
  PROVE  CallsFit' /\ Ends(c)
  BY ReturnFits, NextUpdateFits DEF Finish, Ends

LEMMA ContinueFits ==
  ASSUME CallsFit, NEW c \in Call, NEW step \in Step, Active(c), Continue(c, step),
         step \notin {"idle", "guard"}, StageFits(c)'
  PROVE  CallsFit' /\ Others(c) /\ pc'[c] = step
<1>1. CallTypes' /\ Others(c) /\ pc'[c] = step /\ UNCHANGED <<guard, job>>
  BY DEF CallsFit, CallTypes, Continue, Goto, Others
<1>2. GuardHeld(c)'
  BY <1>1 DEF GuardHeld, Active, CallsFit
<1> QED
  BY <1>1, <1>2, CallMoves

\* To the next step of the same operation.
LEMMA ContinueStage ==
  ASSUME CallsFit, NEW c \in Call, NEW step \in Step, Active(c), Continue(c, step),
         job[c].op # "remove" => pc[c] # "check",
         \/ step \in {"verify", "examine", "copy"} /\ job[c].op = "install"
         \/ step \in {"backup", "write", "retire", "cleanup"} /\ job[c].op = "update"
         \/ step = "hash" /\ job[c].op \in {"install", "update"}
         \/ step = "load" /\ job[c].op \in {"install", "update", "remove"}
  PROVE  CallsFit' /\ Others(c) /\ pc'[c] = step
<1>1. pc'[c] = step /\ job'[c] = job[c]
  BY DEF Continue, Goto, CallsFit, CallTypes
<1>2. StageFits(c)'
  BY <1>1 DEF StageFits, Active, CallsFit
<1> QED
  BY <1>2, ContinueFits

\* Operations that succeed or fail within the bound.
LEMMA CountersStay ==
  ASSUME Counters, Works \/ Fails, UNCHANGED crashes
  PROVE  Counters'
  BY ConstantsAssumption DEF Counters, Works, Fails

\* One file is written.
LEMMA WriteIsTyped ==
  ASSUME NEW dir \in [File -> Content], NEW f, NEW content \in Content
  PROVE  [dir EXCEPT ![f] = content] \in [File -> Content]
  OBVIOUS

LEMMA BeginFits ==
  ASSUME TInv, NEW c \in Call,
         \/ \E a \in Artifact : CallInstall(c, a)
         \/ \E f \in File : CallUpdate(c, f) \/ CallUpdateAll(c, f) \/ CallRemove(c, f)
  PROVE  /\ TInv' /\ Others(c) /\ UNCHANGED <<disk, guard, failures, crashes>>
         /\ pc[c] = "idle" /\ pc'[c] \in {"download", "guard"} /\ HostReady(job'[c].op)
         /\ pc'[c] = "download" => snap'[c] = Scan
<1>1. PICK op \in Operation, f \in File, a \in Content, todo \in SUBSET File,
           step \in {"download", "guard"} :
        /\ Begin(c, op, f, a, todo, step)
        /\ step = "download" => op = "install" /\ a \in Artifact
        /\ step = "guard" => op \in Guarded
  <2>1. ASSUME NEW a \in Artifact, CallInstall(c, a)
        PROVE  /\ Begin(c, "install", FileOf[a], a, {}, "download")
               /\ "install" \in Operation /\ FileOf[a] \in File /\ a \in Content
    BY <2>1, ConstantsAssumption DEF CallInstall, Operation, Content
  <2>2. ASSUME NEW f \in File, CallUpdate(c, f) \/ CallUpdateAll(c, f) \/ CallRemove(c, f)
        PROVE  \E op \in Guarded, todo \in SUBSET File : Begin(c, op, f, Missing, todo, "guard")
    BY <2>2 DEF CallUpdate, CallUpdateAll, CallRemove, Guarded
  <2>3. Guarded \subseteq Operation /\ Missing \in Content
    BY DEF Guarded, Operation, Content
  <2>4. CASE \E a \in Artifact : CallInstall(c, a)
    BY <2>1, <2>4
  <2>5. CASE \E f \in File : CallUpdate(c, f) \/ CallUpdateAll(c, f) \/ CallRemove(c, f)
    BY <2>2, <2>3, <2>5
  <2> QED
    BY <2>4, <2>5
<1> DEFINE new == [op |-> op, file |-> f, art |-> a, todo |-> todo]
<1>2. /\ pc[c] = "idle" /\ HostReady(op) /\ job' = [job EXCEPT ![c] = new]
      /\ snap' = [snap EXCEPT ![c] = Scan] /\ pc' = [pc EXCEPT ![c] = step]
      /\ UNCHANGED <<disk, guard, store, failures, crashes>>
  BY <1>1 DEF Begin, Goto
<1>3. new \in Job /\ new.op = op /\ new.art = a
  BY DEF Job
<1> HIDE DEF new
<1>4. /\ CallTypes' /\ Others(c) /\ pc'[c] = step /\ job'[c] = new /\ snap'[c] = Scan
  BY <1>2, <1>3, ScanIsTyped DEF TInv, CallsFit, CallTypes, Step, Others
<1>5. StageFits(c)' /\ GuardHeld(c)'
  BY <1>1, <1>3, <1>4 DEF StageFits, GuardHeld, Active, Guarded
<1>6. CallsFit'
  BY <1>2, <1>4, <1>5, CallMoves DEF TInv
<1>7. DiskTypes' /\ Counters'
  BY <1>2 DEF disk, TInv, DiskTypes, Counters
<1> QED
  BY <1>2, <1>3, <1>4, <1>6, <1>7 DEF TInv

\* A call that asks for the guard gets it when nobody has it, or returns.
LEMMA AcquireFits ==
  ASSUME TInv, NEW c \in Call, Acquire(c)
  PROVE  /\ TInv' /\ Others(c) /\ UNCHANGED disk /\ pc[c] = "guard" /\ job[c].op \in Guarded
         /\ pc'[c] \in {"idle", "check", "unlink"}
         /\ pc'[c] # "idle" => guard = NoCall /\ job'[c].op = job[c].op
<1>1. /\ pc[c] = "guard" /\ UNCHANGED <<disk, failures, crashes>> /\ job[c].op \in Guarded
  BY DEF Acquire, TInv, CallsFit, StageFits
<1>2. DiskTypes' /\ Counters'
  BY <1>1 DEF disk, TInv, DiskTypes, Counters
<1>3. CASE guard # NoCall /\ Return(c)
  BY <1>1, <1>2, <1>3, ReturnFits DEF TInv
<1>4. CASE ~(guard # NoCall /\ Return(c))
  <2>1. /\ guard = NoCall /\ guard' = c /\ UNCHANGED <<job, snap, store>>
        /\ pc' = [pc EXCEPT ![c] = IF job[c].op = "remove" THEN "unlink" ELSE "check"]
    BY <1>4 DEF Acquire, Goto
  <2>2. CallTypes' /\ Others(c) /\ job'[c].op = job[c].op
        /\ pc'[c] = IF job[c].op = "remove" THEN "unlink" ELSE "check"
    BY <2>1 DEF TInv, CallsFit, CallTypes, Step, Others
  <2>3. StageFits(c)' /\ GuardHeld(c)'
    BY <1>1, <2>1, <2>2 DEF StageFits, GuardHeld, Active, Guarded
  <2> QED
    BY <1>1, <1>2, <2>1, <2>2, <2>3, CallMoves DEF TInv
<1> QED
  BY <1>3, <1>4

LEMMA DownloadFits ==
  ASSUME TInv, NEW c \in Call, Download(c)
  PROVE  TInv' /\ (Ends(c) \/ (Others(c) /\ pc'[c] = "verify"))
<1>1. /\ pc[c] = "download" /\ job[c].op = "install" /\ job[c].art \in Artifact /\ Active(c)
  BY DEF Download, TInv, CallsFit, StageFits, Active
<1>2. /\ Torn \in Content /\ Delivered(job[c].art) \subseteq Content
  BY <1>1 DEF Content, Delivered
<1>3. temp' \in [File -> Content]
  BY <1>2 DEF Download, TInv, DiskTypes
<1>4. DiskTypes' /\ Counters'
  BY <1>3, CountersStay DEF Download, TInv, DiskTypes
<1>5. CASE Return(c)
  BY <1>4, <1>5, ReturnFits DEF TInv, Ends
<1>6. CASE Continue(c, "verify")
  BY <1>1, <1>4, <1>6, ContinueStage DEF TInv, Step
<1> QED
  BY <1>5, <1>6 DEF Download

LEMMA VerifyFits ==
  ASSUME TInv, NEW c \in Call, Verify(c) \/ Examine(c)
  PROVE  TInv' /\ (Ends(c) \/ (Others(c) /\ pc'[c] = IF pc[c] = "verify" THEN "examine" ELSE "copy"))
<1>1. /\ pc[c] \in {"verify", "examine"} /\ job[c].op = "install" /\ Active(c)
      /\ temp' = [temp EXCEPT ![Target(c)] = Missing] \/ UNCHANGED temp
      /\ UNCHANGED <<plugins, bak, receipts, failures, crashes>>
      /\ Return(c) \/ Continue(c, IF pc[c] = "verify" THEN "examine" ELSE "copy")
  BY DEF Verify, Examine, TInv, CallsFit, StageFits, Active
<1>2. DiskTypes' /\ Counters'
  BY <1>1 DEF TInv, DiskTypes, Content, Counters
<1>3. CASE Return(c)
  BY <1>2, <1>3, ReturnFits DEF TInv, Ends
<1>4. CASE Continue(c, "examine") /\ pc[c] = "verify"
  BY <1>1, <1>2, <1>4, ContinueStage DEF TInv, Step
<1>5. CASE Continue(c, "copy") /\ pc[c] = "examine"
  BY <1>1, <1>2, <1>5, ContinueStage DEF TInv, Step
<1> QED
  BY <1>1, <1>3, <1>4, <1>5

LEMMA CopyFits ==
  ASSUME TInv, NEW c \in Call, Copy(c)
  PROVE  TInv' /\ (Ends(c) \/ (Others(c) /\ pc'[c] = "hash"))
<1>1. /\ pc[c] = "copy" /\ job[c].op = "install" /\ job[c].art \in Artifact /\ Active(c)
  BY DEF Copy, TInv, CallsFit, StageFits, Active
<1>2. Target(c) \in File
  BY <1>1, ConstantsAssumption DEF Target
<1>3. plugins' \in [File -> Content]
  BY <1>2 DEF Copy, TInv, DiskTypes, Content
<1>4. DiskTypes' /\ Counters'
  BY <1>3, CountersStay DEF Copy, TInv, DiskTypes
<1>5. CASE Return(c)
  BY <1>4, <1>5, ReturnFits DEF TInv, Ends
<1>6. CASE Continue(c, "hash")
  BY <1>1, <1>4, <1>6, ContinueStage DEF TInv, Step
<1> QED
  BY <1>5, <1>6 DEF Copy

LEMMA HashFits ==
  ASSUME TInv, NEW c \in Call, Hash(c)
  PROVE  /\ TInv' /\ UNCHANGED disk
         /\ Ends(c) \/ (/\ Others(c) /\ pc'[c] = "load" /\ job'[c] = job[c] /\ Target(c) \in File
                        /\ store'[c][Target(c)].hash = plugins[Target(c)])
<1>1. /\ pc[c] = "hash" /\ job[c].op \in {"install", "update"} /\ job[c].art \in Artifact
      /\ Active(c) /\ UNCHANGED disk
  BY DEF Hash, TInv, CallsFit, StageFits, Active
<1>2. DiskTypes' /\ Counters'
  BY <1>1, CountersStay DEF Hash, TInv, DiskTypes, disk
<1>3. CASE Finish(c)
  BY <1>1, <1>2, <1>3, FinishFits DEF TInv
<1>4. CASE ~Finish(c)
  <2> DEFINE t == Target(c)
  <2>1. /\ t \in File /\ plugins[t] \in Content
    BY <1>1, ConstantsAssumption DEF Target, TInv, DiskTypes
  <2>2. /\ store' = [store EXCEPT ![c][t].hash = plugins[t]]
        /\ pc' = [pc EXCEPT ![c] = "load"] /\ UNCHANGED <<guard, job, snap>>
    BY <1>4 DEF Hash, Goto
  <2> HIDE DEF t
  <2>3. store' \in [Call -> [File -> Receipt]] /\ store'[c][t].hash = plugins[t]
    <3> DEFINE r == [store[c][t] EXCEPT !.hash = plugins[t]]
    <3>1. store \in [Call -> [File -> Receipt]] /\ store[c][t] \in Receipt
      BY <2>1 DEF TInv, CallsFit, CallTypes
    <3>2. r \in Receipt /\ r.hash = plugins[t]
      BY <2>1, <3>1 DEF Receipt
    <3>3. store' = [store EXCEPT ![c][t] = r]
      BY <2>2
    <3> HIDE DEF r
    <3> QED
      BY <2>1, <3>1, <3>2, <3>3
  <2>4. CallTypes' /\ Others(c) /\ pc'[c] = "load" /\ job'[c] = job[c]
    BY <2>2, <2>3 DEF TInv, CallsFit, CallTypes, Step, Others
  <2>5. StageFits(c)' /\ GuardHeld(c)'
    BY <1>1, <2>2, <2>4 DEF StageFits, GuardHeld, Active, TInv, CallsFit
  <2> QED
    BY <1>1, <1>2, <2>1, <2>2, <2>3, <2>4, <2>5, CallMoves DEF TInv, t
<1> QED
  BY <1>3, <1>4

\* The receipts that a call will save: those on disk or none, with its own.
LEMMA LoadFits ==
  ASSUME TInv, NEW c \in Call, Load(c) \/ LoadForRemove(c)
  PROVE  /\ TInv' /\ UNCHANGED disk
         /\ Ends(c) \/ (/\ Others(c) /\ pc'[c] = "save" /\ job'[c] = job[c]
                        /\ \E loaded \in {receipts, NoReceipts} :
                              store'[c] = IF job[c].op = "remove"
                                          THEN [loaded EXCEPT ![job[c].file] = NoReceipt]
                                          ELSE Stored(c, loaded))
<1>1. /\ pc[c] = "load" /\ job[c].op \in {"install", "update", "remove"} /\ Active(c)
      /\ job[c].op # "remove" => job[c].art \in Artifact
      /\ UNCHANGED disk
  BY DEF Load, LoadForRemove, TInv, CallsFit, StageFits, Active
<1>2. DiskTypes' /\ Counters'
  BY <1>1, CountersStay DEF Load, LoadForRemove, TInv, DiskTypes, disk
<1>3. CASE Return(c)
  BY <1>1, <1>2, <1>3, ReturnFits DEF TInv, Ends
<1>4. CASE ~Return(c)
  <2> DEFINE after(loaded) == IF job[c].op = "remove"
                              THEN [loaded EXCEPT ![job[c].file] = NoReceipt]
                              ELSE Stored(c, loaded)
  <2>1. NoReceipts = [NoReceipts EXCEPT ![job[c].file] = NoReceipt]
    BY DEF NoReceipts
  <2>2. \E loaded \in {receipts, NoReceipts} : store' = [store EXCEPT ![c] = after(loaded)]
    BY <1>1, <1>4, <2>1 DEF Load, LoadForRemove
  <2>3. pc' = [pc EXCEPT ![c] = "save"] /\ UNCHANGED <<guard, job, snap>>
    BY <1>4 DEF Load, LoadForRemove, Goto
  <2>4. ASSUME NEW loaded \in {receipts, NoReceipts} PROVE after(loaded) \in [File -> Receipt]
    <3>1. loaded \in [File -> Receipt]
      BY Idle DEF TInv, DiskTypes
    <3>2. CASE job[c].op = "remove"
      BY <3>1, <3>2, Idle
    <3>3. CASE job[c].op # "remove"
      <4>1. Target(c) \in File /\ Origin[job[c].art] \in Project
        BY <1>1, <3>3, ConstantsAssumption DEF Target
      <4>2. store[c][Target(c)].hash \in Content
        BY <4>1 DEF TInv, CallsFit, CallTypes, Receipt
      <4> QED
        BY <3>1, <3>3, <4>1, <4>2 DEF Stored, Receipt
    <3> QED
      BY <3>2, <3>3
  <2> HIDE DEF after
  <2>5. PICK loaded \in {receipts, NoReceipts} : store' = [store EXCEPT ![c] = after(loaded)]
    BY <2>2
  <2>6. CallTypes' /\ Others(c) /\ pc'[c] = "save" /\ job'[c] = job[c] /\ store'[c] = after(loaded)
    BY <2>3, <2>4, <2>5 DEF TInv, CallsFit, CallTypes, Step, Others
  <2>7. StageFits(c)' /\ GuardHeld(c)'
    BY <1>1, <2>3, <2>6 DEF StageFits, GuardHeld, Active, TInv, CallsFit
  <2> QED
    BY <1>1, <1>2, <2>3, <2>6, <2>7, CallMoves DEF TInv, after
<1> QED
  BY <1>3, <1>4

LEMMA SaveFits ==
  ASSUME TInv, NEW c \in Call, Save(c)
  PROVE  TInv' /\ Ends(c) /\ UNCHANGED <<plugins, bak>> /\ receipts' \in {receipts, store[c]}
<1>1. Finish(c) /\ Active(c)
  BY DEF Save, Active
<1>2. DiskTypes' /\ Counters'
  <2>1. store[c] \in [File -> Receipt] /\ Missing \in Content
    BY DEF TInv, CallsFit, CallTypes, Content
  <2> QED
    BY <2>1, CountersStay DEF Save, TInv, DiskTypes
<1> QED
  BY <1>1, <1>2, FinishFits DEF Save, TInv

LEMMA CheckFits ==
  ASSUME TInv, NEW c \in Call, Check(c)
  PROVE  TInv' /\ UNCHANGED disk /\ (Ends(c) \/ (Others(c) /\ pc'[c] = "fetch"))
<1>1. /\ pc[c] = "check" /\ job[c].op = "update" /\ Active(c)
      /\ UNCHANGED <<disk, failures, crashes>>
  BY DEF Check, TInv, CallsFit, StageFits, Active
<1>2. DiskTypes' /\ Counters'
  BY <1>1 DEF TInv, DiskTypes, disk, Counters
<1>3. CASE NextUpdate(c)
  BY <1>1, <1>2, <1>3, NextUpdateFits DEF TInv, Ends
<1>4. CASE ~NextUpdate(c)
  <2>1. PICK a \in Artifact : job' = [job EXCEPT ![c].art = a]
    BY <1>4 DEF Check, Offered
  <2>2. pc' = [pc EXCEPT ![c] = "fetch"] /\ UNCHANGED <<guard, snap, store>>
    BY <1>4 DEF Check, Goto
  <2>3. /\ job' \in [Call -> Job] /\ job'[c].art = a /\ job'[c].op = "update"
        /\ \A d \in Call \ {c} : job'[d] = job[d]
    BY <1>1, <2>1 DEF TInv, CallsFit, CallTypes, Job, Content
  <2>4. CallTypes' /\ Others(c) /\ pc'[c] = "fetch"
    BY <2>2, <2>3 DEF TInv, CallsFit, CallTypes, Step, Others
  <2>5. StageFits(c)' /\ GuardHeld(c)'
    BY <1>1, <2>2, <2>3, <2>4 DEF StageFits, GuardHeld, Active, TInv, CallsFit
  <2> QED
    BY <1>1, <1>2, <2>2, <2>4, <2>5, CallMoves DEF TInv
<1> QED
  BY <1>3, <1>4

\* The steps of an update, each to the one that follows it or to the end.
After(step) ==
    CASE step = "fetch" -> "backup" [] step = "backup" -> "write" [] step = "write" -> "retire"
      [] step = "retire" -> "cleanup" [] step = "cleanup" -> "hash" [] OTHER -> "idle"

LEMMA PutBackIsTyped ==
  ASSUME TInv, NEW c \in Call, NEW left \in [File -> Content], PutBack(c, left), UNCHANGED crashes
  PROVE  plugins' \in [File -> Content] /\ bak' \in [File -> Content] /\ Counters'
<1>1. job[c].file \in File
  BY DEF TInv, CallsFit, CallTypes, Job
<1>2. CASE bak[job[c].file] # Missing /\ plugins' = [left EXCEPT ![job[c].file] = bak[job[c].file]]
             /\ bak' = [bak EXCEPT ![job[c].file] = Missing] /\ Fails
  BY <1>1, <1>2, CountersStay DEF TInv, DiskTypes, Content
<1>3. CASE plugins' = left /\ UNCHANGED bak
  <2>1. PICK n \in {1, 2} : failures + n <= MaxFailures /\ failures' = failures + n
    <3>1. CASE bak[job[c].file] = Missing
      BY <1>3, <3>1, ConstantsAssumption DEF PutBack, TInv, Counters
    <3>2. CASE bak[job[c].file] # Missing
      BY <1>3, <3>2, ConstantsAssumption DEF PutBack, TInv, Counters
    <3> QED
      BY <3>1, <3>2
  <2> QED
    BY <1>3, <2>1, ConstantsAssumption DEF TInv, DiskTypes, Counters
<1> QED
  BY <1>2, <1>3 DEF PutBack, Fails

LEMMA RotateFits ==
  ASSUME TInv, NEW c \in Call, Fetch(c) \/ Backup(c) \/ Write(c) \/ Retire(c) \/ Cleanup(c)
  PROVE  /\ TInv' /\ UNCHANGED receipts
         /\ Ends(c) \/ (Continue(c, After(pc[c])) /\ Others(c) /\ pc'[c] = After(pc[c]))
<1>1. /\ pc[c] \in {"fetch", "backup", "write", "retire", "cleanup"}
      /\ job[c].op = "update" /\ job[c].art \in Artifact /\ Active(c)
      /\ UNCHANGED <<receipts, temp, crashes>>
  BY DEF Fetch, Backup, Write, Retire, Cleanup, TInv, CallsFit, StageFits, Active, disk
<1>2. /\ job[c].file \in File /\ Target(c) \in File
      /\ Missing \in Content /\ Torn \in Content /\ job[c].art \in Content
  BY <1>1, ConstantsAssumption DEF Target, Content, TInv, CallsFit, CallTypes, Job
<1>3. /\ plugins \in [File -> Content] /\ bak \in [File -> Content]
      /\ plugins[job[c].file] \in Content /\ bak[job[c].file] \in Content
  BY <1>2 DEF TInv, DiskTypes
<1>4. /\ plugins' \in [File -> Content] /\ bak' \in [File -> Content] /\ Counters'
      /\ NextUpdate(c) \/ Continue(c, After(pc[c]))
  <2>1. CASE Fetch(c)
    <3>1. Works \/ Fails
      BY <2>1 DEF Fetch
    <3>2. NextUpdate(c) \/ Continue(c, After(pc[c]))
      BY <2>1 DEF Fetch, After
    <3> QED
      BY <1>1, <1>3, <2>1, <3>1, <3>2, CountersStay DEF Fetch, TInv, disk
  <2>2. CASE Backup(c)
    <3>1. bak' \in [File -> Content]
      BY <1>2, <1>3, <2>2 DEF Backup
    <3> QED
      BY <1>1, <1>3, <2>2, <3>1, CountersStay DEF Backup, After, TInv
  <2>3. CASE Write(c)
    <3>1. CASE Works /\ plugins' = [plugins EXCEPT ![Target(c)] = job[c].art] /\ UNCHANGED bak
                 /\ Continue(c, "retire")
      BY <1>1, <1>2, <1>3, <2>3, <3>1, CountersStay DEF Write, After, TInv
    <3>2. CASE \E left \in {plugins, [plugins EXCEPT ![Target(c)] = Torn]} :
                  PutBack(c, left) /\ NextUpdate(c)
      BY <1>1, <1>2, <1>3, <3>2, PutBackIsTyped
    <3> QED
      BY <2>3, <3>1, <3>2 DEF Write
  <2>4. CASE Retire(c)
    <3> DEFINE undone == \E left \in {plugins, [plugins EXCEPT ![Target(c)] = Missing]} :
                            PutBack(c, left) /\ NextUpdate(c)
    <3>1. CASE undone
      BY <1>1, <1>2, <1>3, <3>1, PutBackIsTyped
    <3>2. CASE ~undone
      <4>1. /\ pc[c] = "retire" /\ Works /\ UNCHANGED bak /\ Continue(c, "cleanup")
            /\ plugins' \in {plugins, [plugins EXCEPT ![job[c].file] = Missing]}
        BY <2>4, <3>2 DEF Retire
      <4> QED
        BY <1>1, <1>2, <1>3, <4>1, CountersStay DEF After, TInv
    <3> QED
      BY <3>1, <3>2
  <2>5. CASE Cleanup(c)
    BY <1>1, <1>2, <1>3, <2>5, CountersStay DEF Cleanup, After, TInv
  <2> QED
    BY <2>1, <2>2, <2>3, <2>4, <2>5
<1>5. DiskTypes'
  BY <1>1, <1>4 DEF TInv, DiskTypes
<1>6. CASE NextUpdate(c)
  BY <1>1, <1>4, <1>5, <1>6, NextUpdateFits DEF TInv, Ends
<1>7. CASE Continue(c, After(pc[c]))
  <2>1. After(pc[c]) \in {"backup", "write", "retire", "cleanup", "hash"}
    BY <1>1 DEF After
  <2> QED
    BY <1>1, <1>4, <1>5, <1>7, <2>1, ContinueStage DEF TInv, Step
<1> QED
  BY <1>1, <1>4, <1>6, <1>7

LEMMA UnlinkFits ==
  ASSUME TInv, NEW c \in Call, Unlink(c)
  PROVE  TInv' /\ UNCHANGED receipts /\ (Ends(c) \/ (Others(c) /\ pc'[c] = "load"))
<1>1. /\ pc[c] = "unlink" /\ job[c].op = "remove" /\ Active(c)
      /\ UNCHANGED <<bak, receipts, temp, crashes>>
  BY DEF Unlink, TInv, CallsFit, StageFits, Active
<1>2. plugins' \in [File -> Content]
  BY DEF Unlink, TInv, DiskTypes, Content
<1>3. DiskTypes' /\ Counters'
  BY <1>1, <1>2, CountersStay DEF Unlink, TInv, DiskTypes
<1>4. CASE Return(c)
  BY <1>1, <1>3, <1>4, ReturnFits DEF TInv, Ends
<1>5. CASE Continue(c, "load")
  BY <1>1, <1>3, <1>5, ContinueStage DEF TInv, Step
<1> QED
  BY <1>1, <1>4, <1>5 DEF Unlink

\* What happens besides the steps of a call: a plugin is added or removed by hand.
LEMMA ByHandFits ==
  ASSUME TInv, (\E f \in File, a \in ByHand : Add(f, a)) \/ (\E f \in File : Remove(f))
  PROVE  TInv' /\ UNCHANGED <<receipts, calls>> /\ HostReady("none")
<1>1. /\ UNCHANGED <<bak, receipts, temp, calls, failures, crashes>> /\ HostReady("none")
      /\ plugins' \in [File -> Content]
  BY ConstantsAssumption DEF Add, Remove, TInv, DiskTypes, Content
<1> QED
  BY <1>1 DEF TInv, DiskTypes, CallsFit, CallTypes, StageFits, GuardHeld, Active, calls, Counters

LEMMA CrashFits ==
  ASSUME TInv, Crash
  PROVE  TInv' /\ UNCHANGED disk /\ \A c \in Call : pc'[c] = "idle"
<1>1. CallTypes' /\ \A c \in Call : pc'[c] = "idle"
  BY Idle DEF Crash, CallTypes, Step
<1>2. \A c \in Call : StageFits(c)' /\ GuardHeld(c)'
  BY <1>1 DEF StageFits, GuardHeld, Active
<1>3. DiskTypes' /\ Counters' /\ UNCHANGED disk
  BY ConstantsAssumption DEF Crash, TInv, DiskTypes, Counters, disk
<1> QED
  BY <1>1, <1>2, <1>3 DEF TInv, CallsFit

LEMMA InitFits == Init => TInv
<1> SUFFICES ASSUME Init PROVE TInv
  OBVIOUS
<1>1. CallTypes /\ DiskTypes /\ Counters
  BY Idle, ConstantsAssumption DEF Init, CallTypes, DiskTypes, Counters, Step, Content
<1>2. \A c \in Call : StageFits(c) /\ GuardHeld(c)
  BY DEF Init, StageFits, GuardHeld, Active
<1> QED
  BY <1>1, <1>2 DEF TInv, CallsFit

LEMMA NextFits ==
  ASSUME TInv, [Next]_vars
  PROVE  TInv'
<1>1. CASE UNCHANGED vars
  BY <1>1 DEF vars, disk, calls, TInv, DiskTypes, CallsFit, CallTypes, StageFits, GuardHeld,
              Active, Counters
<1>2. ASSUME NEW c \in Call, \/ Acquire(c) \/ Install(c) \/ Update(c) \/ RemoveSafe(c) \/ Receipts(c)
      PROVE  TInv'
  BY <1>2, AcquireFits, DownloadFits, VerifyFits, CopyFits, HashFits, LoadFits, SaveFits,
     CheckFits, RotateFits, UnlinkFits
     DEF Install, Update, RemoveSafe, Receipts
<1>3. CASE \/ \E c \in Call, a \in Artifact : CallInstall(c, a)
           \/ \E c \in Call, f \in File : CallUpdate(c, f) \/ CallUpdateAll(c, f) \/ CallRemove(c, f)
  BY <1>3, BeginFits
<1> QED
  BY <1>1, <1>2, <1>3, ByHandFits, CrashFits DEF Next

\* Whatever calls overlap and whatever fails or crashes, the directory, the receipts and
\* the calls stay well formed.
THEOREM TypeCorrect == Spec => []TypeOK
<1>1. TInv => TypeOK
  BY DEF TInv, DiskTypes, CallsFit, CallTypes, Counters, TypeOK
<1> QED
  BY <1>1, InitFits, NextFits, PTL DEF Spec

\* Of the updates and safe removals one runs at a time, whatever the host overlaps: the
\* guard that a call takes is its own until it returns, or the process dies
\* (require_plugin_mutation_ready).
THEOREM OneMutationHolds == Spec => []OneMutation
<1>1. TInv => OneMutation
  BY DEF TInv, CallsFit, GuardHeld, Active, OneMutation
<1> QED
  BY <1>1, InitFits, NextFits, PTL DEF Spec

-----------------------------------------------------------------------------
(***************************************************************************)
(* What the receipts, the backups and the scans hold, when a call without  *)
(* a guard is alone.                                                       *)
(***************************************************************************)

LEMMA OthersWait ==
  ASSUME TInv, Alone, NEW c \in Call, Active(c), NEW d \in Call \ {c}
  PROVE  pc[d] \in {"idle", "guard"}
<1>1. Active(d) => guard = c /\ guard = d
  BY DEF Alone, Active, TInv, CallsFit, GuardHeld
<1> QED
  BY <1>1 DEF Active

\* A call at work changes nothing that another relies on.
LEMMA ActiveSound ==
  ASSUME TInv, SInv, NEW c \in Call, Active(c), Others(c), Sound(c)', ReceiptsAreEarned',
         pc'[c] = "idle" \/ job'[c].op = job[c].op
  PROVE  SInv'
<1>1. ASSUME NEW d \in Call \ {c} PROVE pc'[d] \in {"idle", "guard"}
  BY OthersWait DEF SInv, Others
<1>2. \A d \in Call : Sound(d)'
  BY <1>1 DEF Sound
<1>3. Alone'
  BY DEF SInv, Alone, Others, Active
<1> QED
  BY <1>2, <1>3 DEF SInv

LEMMA EndsSound ==
  ASSUME TInv, SInv, NEW c \in Call, Active(c), Ends(c), ReceiptsAreEarned'
  PROVE  SInv'
<1>1. Sound(c)'
  BY DEF Ends, Sound
<1> QED
  BY <1>1, ActiveSound DEF Ends

LEMMA EarnedStays ==
  ASSUME SInv, UNCHANGED receipts
  PROVE  ReceiptsAreEarned'
  BY DEF SInv, ReceiptsAreEarned

\* A call that waits or is begun finds what the others rely on unchanged.
LEMMA DiskStays ==
  ASSUME SInv, UNCHANGED disk, NEW c \in Call, Others(c), NEW d \in Call \ {c}
  PROVE  Sound(d)'
<1>1. /\ Sound(d) /\ pc'[d] = pc[d] /\ job'[d] = job[d] /\ snap'[d] = snap[d]
      /\ store'[d] = store[d] /\ UNCHANGED <<plugins, bak, receipts, temp>>
  BY DEF SInv, Others, disk
<1>2. Scan' = Scan /\ Target(d)' = Target(d) /\ (Installable(d)' <=> Installable(d))
  BY <1>1 DEF Scan, Trust, Target, Installable
<1>3. (Kept(d)' <=> Kept(d)) /\ (SamePlugin(d)' <=> SamePlugin(d)) /\ (InPlace(d)' <=> InPlace(d))
  BY <1>1, <1>2 DEF Kept, SamePlugin, InPlace
<1> QED
  BY <1>1, <1>2, <1>3 DEF Sound

LEMMA BeginSound ==
  ASSUME Overlap = FALSE, TInv, SInv, NEW c \in Call,
         \/ \E a \in Artifact : CallInstall(c, a)
         \/ \E f \in File : CallUpdate(c, f) \/ CallUpdateAll(c, f) \/ CallRemove(c, f)
  PROVE  SInv'
<1>1. /\ Others(c) /\ UNCHANGED disk /\ pc[c] = "idle" /\ pc'[c] \in {"download", "guard"}
      /\ pc'[c] = "download" => snap'[c] = Scan
      /\ HostReady(job'[c].op)
  BY BeginFits
<1>2. \A d \in Call : pc[d] = "idle" \/ {job'[c].op, job[d].op} \subseteq Guarded
  BY <1>1 DEF HostReady
<1>3. Alone'
  BY <1>1, <1>2 DEF SInv, Alone, Others
<1>4. Scan' = Scan
  BY <1>1 DEF Scan, Trust, disk
<1>5. Sound(c)'
  BY <1>1, <1>4 DEF Sound
<1>6. \A d \in Call : Sound(d)'
  BY <1>1, <1>5, DiskStays
<1>7. ReceiptsAreEarned'
  BY <1>1, EarnedStays DEF disk
<1> QED
  BY <1>3, <1>6, <1>7 DEF SInv

LEMMA AcquireSound ==
  ASSUME TInv, SInv, NEW c \in Call, Acquire(c)
  PROVE  SInv'
<1>1. /\ Others(c) /\ UNCHANGED disk /\ pc[c] = "guard" /\ job[c].op \in Guarded
      /\ pc'[c] \in {"idle", "check", "unlink"}
      /\ pc'[c] # "idle" => job'[c].op = job[c].op
  BY AcquireFits
<1>2. Alone'
  BY <1>1 DEF SInv, Alone, Others
<1>3. Sound(c)'
  BY <1>1 DEF Sound
<1>4. \A d \in Call : Sound(d)'
  BY <1>1, <1>3, DiskStays
<1>5. ReceiptsAreEarned'
  BY <1>1, EarnedStays DEF disk
<1> QED
  BY <1>2, <1>4, <1>5 DEF SInv

LEMMA InstallSound ==
  ASSUME TInv, SInv, NEW c \in Call, Install(c)
  PROVE  SInv'
<1> USE DEF Active
<1>1. Sound(c) /\ Active(c)
  BY DEF SInv, Install, Download, Verify, Examine, Copy
<1>2. ReceiptsAreEarned' /\ (Ends(c) => SInv')
  BY <1>1, EarnedStays, EndsSound DEF Install, Download, Verify, Examine, Copy
<1>3. ASSUME ~Ends(c), UNCHANGED <<job, snap, plugins, receipts>>, Others(c)
      PROVE  /\ Target(c)' = Target(c) /\ Scan' = Scan
             /\ Sound(c)' => SInv'
  BY <1>1, <1>2, <1>3, ActiveSound DEF Target, Scan, Trust
<1>4. CASE Download(c)
  <2>1. CASE Continue(c, "verify")
    <3>1. /\ job[c].art \in Artifact /\ Target(c) \in File
      BY <1>4, ConstantsAssumption DEF Download, TInv, CallsFit, StageFits, Target
    <3>2. /\ pc[c] = "download" /\ UNCHANGED <<job, snap, plugins, receipts>>
          /\ temp'[Target(c)] \in Delivered(job[c].art)
      <4>1. \/ \E bytes \in Delivered(job[c].art) : temp' = [temp EXCEPT ![Target(c)] = bytes]
            \/ Return(c)
        BY <1>4 DEF Download
      <4>2. ~Return(c)
        BY <1>1, <2>1, ReturnFits DEF TInv, Continue, Goto, CallsFit, CallTypes
      <4> QED
        BY <1>4, <2>1, <3>1, <4>1, <4>2 DEF Download, Continue, TInv, DiskTypes
    <3>3. Others(c) /\ pc'[c] = "verify"
      BY <1>1, <2>1 DEF Continue, Goto, Others, TInv, CallsFit, CallTypes
    <3>4. Sound(c)'
      <4>1. snap'[c] = Scan'
        BY <1>1, <3>2 DEF Sound, Scan, Trust
      <4>2. Target(c)' = Target(c)
        BY <3>2 DEF Target
      <4> QED
        BY <3>2, <3>3, <4>1, <4>2 DEF Sound
    <3> QED
      BY <1>1, <1>2, <3>2, <3>3, <3>4, ActiveSound
  <2> QED
    BY <1>2, <1>4, <2>1, DownloadFits, ReturnFits DEF Download, TInv, Ends
<1>5. CASE Verify(c) \/ Examine(c)
  <2>1. CASE Return(c)
    BY <1>2, <2>1, ReturnFits DEF TInv, Ends
  <2>2. CASE ~Return(c)
    <3>1. /\ UNCHANGED <<job, snap, plugins, receipts, temp>>
          /\ job[c].art \in Artifact
          /\ \/ pc[c] = "verify" /\ Verified(temp[Target(c)], job[c].art) /\ Continue(c, "examine")
             \/ pc[c] = "examine" /\ Installable(c) /\ Continue(c, "copy")
      BY <1>5, <2>2 DEF Verify, Examine, Continue, TInv, CallsFit, StageFits
    <3>2. Others(c) /\ pc'[c] = IF pc[c] = "verify" THEN "examine" ELSE "copy"
      BY <3>1 DEF Continue, Goto, Others, TInv, CallsFit, CallTypes
    <3>3. Target(c)' = Target(c) /\ Scan' = Scan /\ (Installable(c)' <=> Installable(c))
      BY <3>1 DEF Target, Scan, Trust, Installable
    <3>4. temp[Target(c)] = job[c].art
      BY <1>1, <3>1 DEF Sound, Delivered, Verified
    <3>5. Sound(c)'
      BY <1>1, <3>1, <3>2, <3>3, <3>4 DEF Sound
    <3> QED
      BY <1>1, <1>2, <3>1, <3>2, <3>5, ActiveSound
  <2> QED
    BY <2>1, <2>2
<1>6. CASE Copy(c)
  <2>1. CASE Return(c)
    BY <1>2, <2>1, ReturnFits DEF TInv, Ends
  <2>2. CASE ~Return(c)
    <3>1. /\ UNCHANGED job /\ pc[c] = "copy" /\ Continue(c, "hash") /\ job[c].op = "install"
          /\ job[c].art \in Artifact /\ plugins' = [plugins EXCEPT ![Target(c)] = temp[Target(c)]]
      BY <1>6, <2>2 DEF Copy, Continue, TInv, CallsFit, StageFits
    <3>2. Others(c) /\ pc'[c] = "hash"
      BY <3>1 DEF Continue, Goto, Others, TInv, CallsFit, CallTypes
    <3>3. Target(c)' = Target(c) /\ Target(c) \in File
      BY <3>1, ConstantsAssumption DEF Target
    <3>4. InPlace(c)'
      BY <1>1, <3>1, <3>3 DEF Sound, InPlace, TInv, DiskTypes
    <3>5. Sound(c)'
      BY <3>1, <3>2, <3>4 DEF Sound
    <3> QED
      BY <1>1, <1>2, <3>1, <3>2, <3>5, ActiveSound
  <2> QED
    BY <2>1, <2>2
<1> QED
  BY <1>4, <1>5, <1>6 DEF Install

\* The receipts: the hash is that of the file in place, the others are kept or dropped.
LEMMA ReceiptsSound ==
  ASSUME TInv, SInv, NEW c \in Call, Receipts(c) \/ LoadForRemove(c)
  PROVE  SInv'
<1>1. Sound(c) /\ Active(c)
  BY DEF SInv, Receipts, Hash, Load, LoadForRemove, Save, Active
<1>2. CASE Save(c)
  <2>1. ReceiptsAreEarned'
    BY <1>1, <1>2, SaveFits DEF Save, Sound, SInv, ReceiptsAreEarned
  <2> QED
    BY <1>1, <1>2, <2>1, SaveFits, EndsSound
<1>3. CASE Hash(c)
  <2>1. ReceiptsAreEarned'
    BY <1>3, HashFits, EarnedStays DEF disk
  <2>2. CASE ~Ends(c)
    <3>1. /\ pc[c] = "hash" /\ Others(c) /\ pc'[c] = "load" /\ job'[c] = job[c]
          /\ store'[c][Target(c)].hash = plugins[Target(c)]
      BY <1>3, <2>2, HashFits DEF Hash
    <3>2. Target(c)' = Target(c) /\ plugins[Target(c)] = job[c].art
      BY <1>1, <3>1 DEF Target, Sound, InPlace
    <3>3. Sound(c)'
      BY <3>1, <3>2 DEF Sound
    <3> QED
      BY <1>1, <2>1, <3>1, <3>3, ActiveSound
  <2> QED
    BY <1>1, <2>1, <2>2, EndsSound
<1>4. CASE Load(c) \/ LoadForRemove(c)
  <2>1. ReceiptsAreEarned'
    BY <1>4, LoadFits, EarnedStays DEF disk
  <2>2. CASE ~Ends(c)
    <3>1. PICK loaded \in {receipts, NoReceipts} :
             /\ Others(c) /\ pc'[c] = "save" /\ job'[c] = job[c]
             /\ store'[c] = IF job[c].op = "remove"
                            THEN [loaded EXCEPT ![job[c].file] = NoReceipt] ELSE Stored(c, loaded)
      BY <1>4, <2>2, LoadFits
    <3>2. loaded \in [File -> Receipt] /\ \A f \in File : Earned(loaded[f])
      BY Idle DEF TInv, DiskTypes, SInv, ReceiptsAreEarned, Earned, NoReceipts
    <3>3. \A f \in File : Earned(store'[c][f])
      <4>1. CASE job[c].op = "remove"
        BY <3>1, <3>2, <4>1 DEF Earned
      <4>2. CASE job[c].op # "remove"
        <5>1. /\ pc[c] = "load" /\ job[c].art \in Artifact
              /\ store[c][Target(c)].hash = job[c].art
          BY <1>1, <1>4, <4>2 DEF Load, LoadForRemove, Sound, TInv, CallsFit, StageFits, Active
        <5> DEFINE r == [project |-> Origin[job[c].art], hash |-> job[c].art]
        <5>2. Earned(r) /\ store'[c] = [loaded EXCEPT ![Target(c)] = r]
          BY <3>1, <4>2, <5>1 DEF Earned, Stored
        <5> HIDE DEF r
        <5> QED
          BY <3>2, <5>2 DEF Earned
      <4> QED
        BY <4>1, <4>2
    <3>4. Sound(c)'
      BY <3>1, <3>3 DEF Sound, Earned
    <3> QED
      BY <1>1, <2>1, <3>1, <3>4, ActiveSound
  <2> QED
    BY <1>1, <2>1, <2>2, EndsSound
<1> QED
  BY <1>2, <1>3, <1>4 DEF Receipts

LEMMA CheckSound ==
  ASSUME TInv, SInv, NEW c \in Call, Check(c)
  PROVE  SInv'
<1>1. Active(c) /\ ReceiptsAreEarned' /\ job[c].op = "update"
  BY CheckFits, EarnedStays DEF Check, Active, disk, TInv, CallsFit, StageFits
<1>2. CASE ~Ends(c)
  <2>1. Others(c) /\ pc'[c] = "fetch" /\ job'[c].op = "update"
    BY <1>2, CheckFits DEF TInv, CallsFit, StageFits
  <2>2. Sound(c)'
    BY <2>1 DEF Sound
  <2> QED
    BY <1>1, <2>1, <2>2, ActiveSound
<1> QED
  BY <1>1, <1>2, EndsSound

\* What is fetched is the plugin that is replaced; it is in place before the old file
\* and its backup go.
LEMMA RotateSound ==
  ASSUME TInv, SInv, NEW c \in Call,
         Fetch(c) \/ Backup(c) \/ Write(c) \/ Retire(c) \/ Cleanup(c)
  PROVE  SInv'
<1>1. Sound(c) /\ Active(c) /\ ReceiptsAreEarned'
  BY RotateFits, EarnedStays DEF SInv, Fetch, Backup, Write, Retire, Cleanup, Active
<1>2. CASE ~Ends(c)
  <2>1. Continue(c, After(pc[c])) /\ Others(c) /\ pc'[c] = After(pc[c]) /\ UNCHANGED <<job, snap>>
    BY <1>2, RotateFits DEF Continue
  <2>2. ~NextUpdate(c)
    BY <1>1, <1>2, NextUpdateFits
       DEF Ends, TInv, CallsFit, StageFits, Fetch, Backup, Write, Retire, Cleanup
  <2>3. /\ job[c].art \in Artifact /\ job[c].op = "update" /\ Target(c) \in File
        /\ job[c].file \in File /\ Target(c)' = Target(c)
        /\ (SamePlugin(c)' <=> SamePlugin(c))
    BY <1>1, <2>1, ConstantsAssumption
       DEF TInv, CallsFit, CallTypes, Job, StageFits, Active, Target, SamePlugin,
           Fetch, Backup, Write, Retire, Cleanup
  <2>4. Sound(c)'
    <3>1. CASE Fetch(c)
      <4>1. PICK bytes \in Delivered(job[c].art), known \in {receipts, NoReceipts} :
                   Replaces(c, bytes, known)
        BY <2>2, <3>1 DEF Fetch
      <4>2. bytes = job[c].art
        BY <4>1 DEF Replaces, Verified, Delivered
      <4>3. SamePlugin(c) /\ pc'[c] = "backup"
        BY <2>1, <3>1, <4>1, <4>2 DEF Replaces, SamePlugin, Fetch, After
      <4> QED
        BY <2>3, <4>3 DEF Sound
    <3>2. CASE Backup(c)
      <4>1. Kept(c)'
        BY <2>1, <2>2, <2>3, <3>2 DEF Backup, Kept, TInv, DiskTypes
      <4> QED
        BY <1>1, <2>1, <2>3, <3>2, <4>1 DEF Sound, Backup, After
    <3>3. CASE Write(c)
      <4>1. plugins' = [plugins EXCEPT ![Target(c)] = job[c].art] /\ UNCHANGED bak
        BY <2>2, <3>3 DEF Write
      <4>2. InPlace(c)' /\ (job[c].file # Target(c) /\ Kept(c) => Kept(c)')
        BY <2>1, <2>3, <4>1 DEF InPlace, Kept, TInv, DiskTypes
      <4> QED
        BY <1>1, <2>1, <2>3, <3>3, <4>2 DEF Sound, Write, After
    <3>4. CASE Retire(c)
      <4>1. InPlace(c)'
        BY <1>1, <2>1, <2>2, <2>3, <3>4 DEF Retire, Sound, InPlace, TInv, DiskTypes
      <4> QED
        BY <1>1, <2>1, <2>3, <3>4, <4>1 DEF Sound, Retire, After
    <3>5. CASE Cleanup(c)
      <4>1. InPlace(c)'
        BY <1>1, <2>1, <2>3, <3>5 DEF Cleanup, Sound, InPlace
      <4> QED
        BY <1>1, <2>1, <2>3, <3>5, <4>1 DEF Sound, Cleanup, After
    <3> QED
      BY <3>1, <3>2, <3>3, <3>4, <3>5
  <2> QED
    BY <1>1, <2>1, <2>4, ActiveSound
<1> QED
  BY <1>1, <1>2, EndsSound

LEMMA UnlinkSound ==
  ASSUME TInv, SInv, NEW c \in Call, Unlink(c)
  PROVE  SInv'
<1>1. Active(c) /\ ReceiptsAreEarned' /\ job[c].op = "remove"
  BY UnlinkFits, EarnedStays DEF Unlink, Active, TInv, CallsFit, StageFits
<1>2. CASE ~Ends(c)
  <2>1. Others(c) /\ pc'[c] = "load"
    BY <1>2, UnlinkFits
  <2>2. UNCHANGED job
    <3>1. ~Return(c)
      BY <1>1, <1>2, ReturnFits DEF TInv, Ends
    <3> QED
      BY <3>1 DEF Unlink, Continue
  <2>3. Sound(c)'
    BY <1>1, <2>1, <2>2 DEF Sound
  <2> QED
    BY <1>1, <2>1, <2>2, <2>3, ActiveSound
<1> QED
  BY <1>1, <1>2, EndsSound

\* A plugin is added or removed by hand while no call runs, and a crash ends them all.
LEMMA QuietSound ==
  ASSUME ReceiptsAreEarned, UNCHANGED receipts, \A c \in Call : pc'[c] = "idle"
  PROVE  SInv'
  BY DEF SInv, ReceiptsAreEarned, Alone, Sound

LEMMA NextSound ==
  ASSUME Overlap = FALSE, TInv, SInv, [Next]_vars
  PROVE  SInv'
<1>1. CASE UNCHANGED vars
  <2>1. UNCHANGED <<plugins, bak, receipts, temp, pc, job, snap, store>>
    BY <1>1 DEF vars, disk, calls
  <2>2. ASSUME NEW c \in Call PROVE Sound(c)'
    <3>1. Sound(c) /\ Scan' = Scan /\ Target(c)' = Target(c)
      BY <2>1 DEF SInv, Scan, Trust, Target
    <3>2. Installable(c)' <=> Installable(c)
      BY <2>1, <3>1 DEF Installable
    <3>3. (Kept(c)' <=> Kept(c)) /\ (SamePlugin(c)' <=> SamePlugin(c)) /\ (InPlace(c)' <=> InPlace(c))
      BY <2>1, <3>1 DEF Kept, SamePlugin, InPlace
    <3> QED
      BY <2>1, <3>1, <3>2, <3>3 DEF Sound
  <2> QED
    BY <2>1, <2>2 DEF SInv, ReceiptsAreEarned, Alone
<1>2. ASSUME NEW c \in Call, \/ Acquire(c) \/ Install(c) \/ Update(c) \/ RemoveSafe(c) \/ Receipts(c)
      PROVE  SInv'
  BY <1>2, AcquireSound, InstallSound, ReceiptsSound, CheckSound, RotateSound, UnlinkSound
     DEF Update, RemoveSafe
<1>3. CASE \/ \E c \in Call, a \in Artifact : CallInstall(c, a)
           \/ \E c \in Call, f \in File : CallUpdate(c, f) \/ CallUpdateAll(c, f) \/ CallRemove(c, f)
  BY <1>3, BeginSound
<1>4. CASE (\E f \in File, a \in ByHand : Add(f, a)) \/ (\E f \in File : Remove(f))
  <2>1. UNCHANGED <<receipts, calls>> /\ HostReady("none")
    BY <1>4, ByHandFits
  <2>2. \A c \in Call : pc'[c] = "idle"
    BY <2>1 DEF HostReady, Guarded, calls
  <2> QED
    BY <2>1, <2>2, QuietSound DEF SInv
<1>5. CASE Crash
  BY <1>5, CrashFits, QuietSound DEF SInv, disk
<1> QED
  BY <1>1, <1>2, <1>3, <1>4, <1>5 DEF Next

LEMMA InitSound == Init => SInv
<1> SUFFICES ASSUME Init PROVE SInv
  OBVIOUS
<1>1. ReceiptsAreEarned
  BY DEF Init, ReceiptsAreEarned, NoReceipts, Earned
<1> QED
  BY <1>1 DEF Init, SInv, Alone, Sound

\* While the host does not overlap the calls that take no guard, the inductive invariant
\* holds: what the receipts, the backups and the steps of each call say of the disk.
THEOREM Invariance == Overlap = FALSE => (Spec => [](TInv /\ SInv))
<1> SUFFICES ASSUME Overlap = FALSE PROVE Spec => [](TInv /\ SInv)
  OBVIOUS
<1>1. Init => TInv /\ SInv
  BY InitFits, InitSound
<1>2. TInv /\ SInv /\ [Next]_vars => (TInv /\ SInv)'
  BY NextFits, NextSound
<1> QED
  BY <1>1, <1>2, PTL DEF Spec

-----------------------------------------------------------------------------
(***************************************************************************)
(* What a reader of the plugins, an update and an install can rely on.     *)
(***************************************************************************)

\* A plugin that a scan binds to a project is one of that project's artifacts, through
\* failures, crashes and stale scans, while calls without a guard run alone
\* (apply_receipt_trust, save_plugin_receipt).
THEOREM TrustHolds == Overlap = FALSE => (Spec => []TrustIsDeserved)
<1> SUFFICES ASSUME Overlap = FALSE PROVE Spec => []TrustIsDeserved
  OBVIOUS
<1>1. TInv /\ SInv => TrustIsDeserved
  <2> SUFFICES ASSUME SInv, NEW f \in File, Trust(f) # NoProject
               PROVE  Trust(f) = Origin[plugins[f]]
    BY DEF TrustIsDeserved
  <2>1. /\ Earned(receipts[f]) /\ receipts[f].hash = plugins[f]
        /\ Trust(f) = receipts[f].project
    BY DEF SInv, ReceiptsAreEarned, Trust
  <2> QED
    BY <2>1 DEF Earned, NoReceipt
<1>2. Spec => [](TInv /\ SInv)
  BY Invariance
<1> QED
  BY <1>1, <1>2, PTL

\* What is in a set of contents stays in any that holds them.
LEMMA HoldsGrows ==
  ASSUME NEW n, NEW S, NEW T, Holds(n, S), S \subseteq T
  PROVE  Holds(n, T)
  BY DEF Holds

LEMMA HoldsOne ==
  ASSUME NEW n, NEW a, NEW T, Holds(n, {a}), a \in T
  PROVE  Holds(n, T)
  BY DEF Holds

\* Nothing is lost where neither the files nor the backups change.
LEMMA UntouchedKeeps ==
  ASSUME TInv, SInv, NEW c \in Call, Rotating(c), NEW n, Holds(n, Found(c)),
         UNCHANGED <<plugins, bak>>
  PROVE  Holds(n, {plugins'[job[c].file], bak'[job[c].file], plugins'[Target(c)]})
<1>1. Found(c) \subseteq {plugins'[job[c].file], bak'[job[c].file], plugins'[Target(c)]}
  BY DEF Found
<1> QED
  BY <1>1, HoldsGrows

\* The call that rotates a plugin leaves a copy of it, whatever fails.
LEMMA RotationKeeps ==
  ASSUME TInv, SInv, NEW c \in Call, Rotating(c),
         Backup(c) \/ Write(c) \/ Retire(c) \/ Cleanup(c) \/ Hash(c),
         Holds(NameOf[snap[c].art[job[c].file]], Found(c))
  PROVE  Holds(NameOf[snap[c].art[job[c].file]],
               {plugins'[job[c].file], bak'[job[c].file], plugins'[Target(c)]})
<1> DEFINE f == job[c].file
           t == Target(c)
           n == NameOf[snap[c].art[f]]
<1>1. Sound(c) /\ SamePlugin(c) /\ f \in File /\ t \in File /\ Missing \notin Described
  BY ConstantsAssumption
     DEF SInv, Sound, Rotating, TInv, CallsFit, CallTypes, Job, StageFits, Active, Target
<1>2. Holds(n, {job[c].art})
  BY <1>1 DEF Holds, SamePlugin
<1>3. ~Holds(n, {Missing})
  BY <1>1 DEF Holds
<1>4. plugins \in [File -> Content] /\ bak \in [File -> Content]
  BY DEF TInv, DiskTypes
<1> DEFINE Left == {plugins'[f], bak'[f], plugins'[t]}
<1> SUFFICES Holds(n, Left)
  OBVIOUS
<1> HIDE DEF f, t, n, Left
<1>5. CASE Backup(c)
  <2>1. plugins'[f] = plugins[f] /\ Found(c) = {plugins[f]}
    BY <1>5 DEF Backup, Found, f
  <2>2. Holds(n, {plugins[f]})
    BY <2>1 DEF f, n
  <2> QED
    BY <2>1, <2>2, HoldsOne DEF Left
<1>6. CASE Write(c)
  <2>1. pc[c] = "write" /\ Kept(c) /\ Found(c) = {plugins[f], bak[f]}
    BY <1>1, <1>6 DEF Write, Sound, Found, f
  <2>2. Holds(n, {bak[f]})
    BY <1>3, <2>1 DEF Kept, Holds, f, n
  <2>3. CASE plugins' = [plugins EXCEPT ![t] = job[c].art] /\ UNCHANGED bak
    BY <1>1, <1>2, <1>4, <2>3, HoldsOne DEF Left
  <2>4. ASSUME NEW left, PutBack(c, left), left \in {plugins, [plugins EXCEPT ![t] = Torn]}
        PROVE  bak[f] \in Left
    <3>1. CASE plugins' = [left EXCEPT ![f] = bak[f]]
      BY <1>1, <1>4, <2>4, <3>1 DEF Left
    <3>2. CASE UNCHANGED bak
      BY <3>2 DEF Left
    <3> QED
      BY <2>4, <3>1, <3>2 DEF PutBack, f
  <2> QED
    BY <1>6, <2>2, <2>3, <2>4, HoldsOne DEF Write, t
<1>7. CASE Retire(c)
  <2>1. /\ pc[c] = "retire" /\ plugins[t] = job[c].art /\ Found(c) = {plugins[f], bak[f]}
        /\ f = t \/ Kept(c)
    BY <1>1, <1>7 DEF Retire, Sound, InPlace, Found, f, t
  <2>2. CASE plugins' = plugins
    BY <1>2, <2>1, <2>2, HoldsOne DEF Left
  <2>3. CASE plugins[f] # Missing /\ f # t /\ plugins' = [plugins EXCEPT ![f] = Missing]
    <3>1. plugins'[t] = job[c].art
      BY <1>1, <1>4, <2>1, <2>3
    <3> QED
      BY <1>2, <3>1, HoldsOne DEF Left
  <2>4. ASSUME NEW left \in {plugins, [plugins EXCEPT ![t] = Missing]},
               plugins[f] # Missing, f # t, PutBack(c, left)
        PROVE  Holds(n, Left)
    <3>1. Holds(n, {bak[f]})
      BY <2>1, <2>4 DEF Kept, Holds, f, n
    <3>2. bak[f] \in Left
      <4>1. CASE plugins' = [left EXCEPT ![f] = bak[f]]
        BY <1>1, <1>4, <2>4, <4>1 DEF Left
      <4>2. CASE UNCHANGED bak
        BY <4>2 DEF Left
      <4> QED
        BY <2>4, <4>1, <4>2 DEF PutBack, f
    <3> QED
      BY <3>1, <3>2, HoldsOne
  <2> QED
    BY <1>7, <2>2, <2>3, <2>4 DEF Retire, f, t
<1>8. CASE Cleanup(c) \/ Hash(c)
  <2>1. plugins'[t] = job[c].art
    BY <1>1, <1>8 DEF Cleanup, Hash, Sound, InPlace, disk, t
  <2> QED
    BY <1>2, <2>1, HoldsOne DEF Left
<1> QED
  BY <1>5, <1>6, <1>7, <1>8

\* While a call is at work, another one changes neither the files nor the backups.
LEMMA OthersAreQuiet ==
  ASSUME Overlap = FALSE, TInv, SInv, [Next]_vars, NEW c \in Call, Active(c),
         ~(Install(c) \/ Update(c) \/ RemoveSafe(c) \/ Receipts(c))
  PROVE  UNCHANGED <<plugins, bak>>
<1>1. CASE UNCHANGED vars
  BY <1>1 DEF vars, disk
<1>2. ASSUME NEW d \in Call, Install(d) \/ Update(d) \/ RemoveSafe(d) \/ Receipts(d)
      PROVE  FALSE
  <2>1. Active(d)
    BY <1>2 DEF Active, Install, Update, RemoveSafe, Receipts, Download, Verify, Examine, Copy,
                Check, Fetch, Backup, Write, Retire, Cleanup, Unlink, LoadForRemove, Hash, Load, Save
  <2> QED
    BY <1>2, <2>1, OthersWait DEF SInv, Active
<1>3. ASSUME NEW d \in Call, Acquire(d) PROVE UNCHANGED <<plugins, bak>>
  BY <1>3 DEF Acquire, disk
<1>4. CASE \/ \E d \in Call, a \in Artifact : CallInstall(d, a)
           \/ \E d \in Call, f \in File : CallUpdate(d, f) \/ CallUpdateAll(d, f) \/ CallRemove(d, f)
  BY <1>4, BeginFits DEF disk
<1>5. CASE (\E f \in File, a \in ByHand : Add(f, a)) \/ (\E f \in File : Remove(f))
  BY <1>5, ByHandFits DEF HostReady, Guarded, Active
<1>6. CASE Crash
  BY <1>6, CrashFits DEF disk
<1> QED
  BY <1>1, <1>2, <1>3, <1>4, <1>5, <1>6 DEF Next

\* "On failure at any step after download, the old artifact is preserved" (plugin_services.rs,
\* update_plugin): every step, failed or crashed, leaves a copy of the plugin that the
\* update found, old or new, live or backup.
THEOREM UpdateKeeps == Overlap = FALSE => (Spec => UpdateKeepsPlugin)
<1> SUFFICES ASSUME Overlap = FALSE PROVE Spec => UpdateKeepsPlugin
  OBVIOUS
<1> DEFINE Keeps == \A c \in Call, f, t \in File, n \in Name :
                      /\ Rotating(c) /\ f = job[c].file /\ t = Target(c)
                      /\ n = NameOf[snap[c].art[f]] /\ Holds(n, Found(c))
                      => Holds(n, {plugins'[f], bak'[f], plugins'[t]})
<1>1. TInv /\ SInv /\ [Next]_vars => [Keeps]_vars
  <2> SUFFICES ASSUME TInv, SInv, [Next]_vars, NEW c \in Call, Rotating(c),
                      Holds(NameOf[snap[c].art[job[c].file]], Found(c))
               PROVE  Holds(NameOf[snap[c].art[job[c].file]],
                            {plugins'[job[c].file], bak'[job[c].file], plugins'[Target(c)]})
    OBVIOUS
  <2>1. CASE Backup(c) \/ Write(c) \/ Retire(c) \/ Cleanup(c) \/ Hash(c)
    BY <2>1, RotationKeeps
  <2>2. CASE ~(Backup(c) \/ Write(c) \/ Retire(c) \/ Cleanup(c) \/ Hash(c))
    <3>1. Active(c)
      BY DEF Rotating, Active
    <3>2. ~(Install(c) \/ Update(c) \/ RemoveSafe(c) \/ Receipts(c))
      BY <2>2 DEF Rotating, Install, Update, RemoveSafe, Receipts, Download, Verify, Examine, Copy,
                  Check, Fetch, Unlink, LoadForRemove, Load, Save
    <3> QED
      BY <3>1, <3>2, OthersAreQuiet, UntouchedKeeps
  <2> QED
    BY <2>1, <2>2
<1>2. Spec => [](TInv /\ SInv)
  BY Invariance
<1> QED
  BY <1>1, <1>2, PTL DEF Spec, UpdateKeepsPlugin

\* An install adds no second plugin of a name: what the scan binds to another project,
\* or to none, is another source's, and the project's own is AlreadyInstalled
\* (reconcile_plugin_identity, check_plugin_duplicate).
LEMMA InstallableIsUnique ==
  ASSUME TInv, SInv, NEW c \in Call, pc[c] = "copy", NEW g \in File, plugins[g] \in Described
  PROVE  NameOf[plugins[g]] # NameOf[temp[Target(c)]]
<1>1. /\ Installable(c) /\ snap[c] = Scan /\ temp[Target(c)] = job[c].art
      /\ job[c].art \in Artifact
  BY DEF SInv, Sound, TInv, CallsFit, StageFits, Active
<1> DEFINE p == Origin[job[c].art]
<1>2. p # NoProject
  BY <1>1, ConstantsAssumption
<1>3. Scan.art = plugins /\ Scan.receipts = receipts /\ Scan.trust[g] = Trust(g)
  BY DEF Scan
<1> HIDE DEF p
<1>4. /\ ~IdentityConflict(p, job[c].art, Scan, receipts)
      /\ ~AlreadyInstalled(p, job[c].art, receipts)
  BY <1>1, <1>3 DEF Installable, p
<1>5. SUFFICES ASSUME NameOf[plugins[g]] = NameOf[job[c].art] PROVE FALSE
  BY <1>1
<1>6. Scan.trust[g] = p
  BY <1>3, <1>4, <1>5 DEF IdentityConflict, Named
<1>7. receipts[g].project = p
  BY <1>2, <1>3, <1>6 DEF Trust
<1> QED
  BY <1>4, <1>7 DEF AlreadyInstalled

\* No install puts a second plugin of a name beside the first, whatever became of the
\* receipts and whatever failed before (install_plugin_from_provider).
THEOREM InstallAddsNoTwin == Overlap = FALSE => (Spec => InstallIsUnique)
<1> SUFFICES ASSUME Overlap = FALSE PROVE Spec => InstallIsUnique
  OBVIOUS
<1> DEFINE Unique ==
      \A c \in Call : pc[c] = "copy" =>
         \A f \in File : plugins'[f] \in Described /\ plugins'[f] # plugins[f] =>
            \A g \in File \ {f} : plugins[g] \in Described => NameOf[plugins[g]] # NameOf[plugins'[f]]
<1>1. TInv /\ SInv /\ [Next]_vars => [Unique]_vars
  <2> SUFFICES ASSUME TInv, SInv, [Next]_vars, NEW c \in Call, pc[c] = "copy", NEW f \in File,
                      plugins'[f] \in Described, plugins'[f] # plugins[f],
                      NEW g \in File, plugins[g] \in Described
               PROVE  NameOf[plugins[g]] # NameOf[plugins'[f]]
    OBVIOUS
  <2>1. CASE Copy(c)
    <3>1. plugins'[f] \in {Torn, temp[Target(c)]}
      BY <2>1 DEF Copy, TInv, DiskTypes
    <3>2. Torn \notin Described
      BY ConstantsAssumption
    <3> QED
      BY <3>1, <3>2, InstallableIsUnique
  <2>2. CASE ~Copy(c)
    <3>1. Active(c) /\ ~(Install(c) \/ Update(c) \/ RemoveSafe(c) \/ Receipts(c))
      BY <2>2 DEF Active, Install, Update, RemoveSafe, Receipts, Download, Verify, Examine,
                  Check, Fetch, Backup, Write, Retire, Cleanup, Unlink, LoadForRemove, Hash, Load, Save
    <3> QED
      BY <3>1, OthersAreQuiet
  <2> QED
    BY <2>1, <2>2
<1>2. Spec => [](TInv /\ SInv)
  BY Invariance
<1> QED
  BY <1>1, <1>2, PTL DEF Spec, InstallIsUnique
==================================================================================
