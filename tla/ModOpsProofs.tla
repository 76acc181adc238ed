------------------------------- MODULE ModOpsProofs -------------------------------
(* What an installed mod's receipt says is true, an install brings everything that   *)
(* it requires, and an update keeps a copy: proofs about ModOps for any projects,    *)
(* names and dependencies, any number of calls, edits and crashes.                   *)
EXTENDS ModOps, SequenceTheorems, FiniteSetTheorems, TLAPS

Known == [project : Projects, version : Nat, whole : BOOLEAN]
Files == Known \cup {NoFile, OwnFile}
Receipt ==
    [provider : {"modrinth", "curseforge", "unknown", "none"},
     project : Projects \cup {NoProject}, version : Nat, hash : Files \cup {NoHash}]
Task == [do : {"visit", "version", "place"}, project : Modrinth, version : Nat]

\* A record of these fields.
CallFields == {"op", "stage", "asked", "stack", "visited", "items", "item", "download",
               "before", "failed"}
DownloadFields == {"name", "jar", "announced", "attempt", "then"}
IsDownload(d) == d = [f \in DownloadFields |-> d[f]]
IsRecord(c) == c = [f \in CallFields |-> c[f]]
IsCall(c) ==
    /\ IsRecord(c)
    /\ IsDownload(c.download)
    /\ c.visited \subseteq Projects \cup {Own}
    /\ c.stack \in Seq(Task)
    /\ c.failed \in BOOLEAN

\* What is published has a file name, and the stack of an install holds tasks.
TypesHold ==
    /\ files \in [Names -> Files]
    /\ backups \in [Names -> Files]
    /\ receipts \in [health : {"good", "corrupt", "future"}, of : [Names -> Receipt]]
    /\ published \in [Projects -> Nat]
    /\ \A p \in Projects : published[p] \in 1..NewestVersion[p]
    /\ clients \subseteq Projects \cup {Own}
    /\ IsCall(call)

\* A provider's receipt names a project, and its digest is that version's file.
Earned(r) ==
    r.provider \in {"modrinth", "curseforge"} =>
        /\ r.project \in Projects
        /\ r.hash # NoHash => r.hash.project = r.project /\ r.hash.version = r.version
ReceiptsAreEarned == \A n \in Names : Earned(receipts.of[n])

\* An update that was found is one of a project, to a version that is published.
Found(u) == u.name \in Names /\ u.project \in Projects /\ u.version \in Nat
            /\ u.provider \in {"modrinth", "curseforge", "unknown", "legacy"}
UpdatesAreFound ==
    /\ \A u \in updates : Found(u)
    /\ call.op = "update" => \A u \in call.items : Found(u)
    /\ call.op = "clients" /\ call.stage = "items" =>
          \A n \in call.items : n \in Names /\ files[n] # NoFile

\* Only an install works on a stack.
Downloads == {"download", "received", "receipt"}
StageFitsCall ==
    /\ call.stage = "stack" => call.op = "modrinth"
    /\ call.stage \in Downloads =>
          call.op \in {"modrinth", "curseforge", "update", "missing", "autofix"}
    /\ call.stage \in {"restore", "delete", "restored"} => call.op = "update"
    /\ call.op = "none" => call = Idle
    /\ call.stage = "idle" => call.op = "none"
    /\ call.stack # <<>> => call.op = "modrinth" /\ call.stage \in Downloads \cup {"stack"}

\* What is downloaded goes under a name of its project, and what comes after depends
\* on the call.
DownloadFits ==
    call.stage \in Downloads =>
        LET d == call.download IN
        /\ d.name \in Names /\ d.jar \in Known
        /\ call.op = "modrinth" => d.name \in NamesOf(d.jar.project)
        /\ call.op = "modrinth" => d.then \in {"stack", "receipt"}
        /\ call.op \in {"curseforge", "update"} => d.then = "receipt"
        /\ call.op \in {"missing", "autofix"} => d.then = "items" /\ call.stage # "receipt"
        /\ call.op = "update" =>
              d.name = call.item /\ call.asked \in {"modrinth", "curseforge", "unknown", "legacy"}
        /\ call.op = "modrinth" /\ d.then = "receipt" =>
              /\ call.stack # <<>> /\ Head(call.stack).do = "place"
              /\ Head(call.stack).project = d.jar.project
              /\ Head(call.stack).version = d.jar.version
        /\ call.stage = "receipt" => d.then = "receipt" /\ files[d.name] = d.jar

\* While an update runs, its backup is the file it found.
Updating == {"download", "received", "receipt", "restore", "delete", "restored"}
BackupIsTaken ==
    call.op = "update" /\ call.stage \in Updating =>
        call.item \in Names /\ backups[call.item] = call.before

\* The stack of an install: what is to be placed was visited, and every other
\* requirement of what was visited is there or still to come.
Working == call.op = "modrinth" /\ call.stage \in Downloads \cup {"stack"}
Waiting(t) == \E i \in DOMAIN call.stack : call.stack[i] = t
There(q) == \E n \in NamesOf(q) \cap Names : files[n].project = q
Coming(q) == /\ call.stage \in {"download", "received"}
             /\ call.download.then = "stack" /\ call.download.jar.project = q
StackIsFit ==
    \A i \in DOMAIN call.stack :
        /\ call.stack[i].do # "visit" =>
              call.stack[i].version \in 1..NewestVersion[call.stack[i].project]
        /\ call.stack[i].do = "place" => call.stack[i].project \in call.visited
VisitedIsClosed ==
    Working =>
        /\ call.asked \in Modrinth /\ call.visited \subseteq Modrinth
        /\ call.asked \in call.visited \/ Waiting(Visit(call.asked))
        /\ \A q \in call.visited : There(q) \/ ToPlace(q)
        /\ \A q \in call.visited : \A d \in Named(q) :
              IF d.by = "project" THEN d.project \in call.visited \/ Waiting(Visit(d.project))
              ELSE There(d.project) \/ Waiting(VisitVersion(d.project, 1)) \/ Coming(d.project)

IInv ==
    /\ TypesHold
    /\ ReceiptsAreEarned
    /\ UpdatesAreFound
    /\ StageFitsCall
    /\ DownloadFits
    /\ BackupIsTaken
    /\ StackIsFit
    /\ PlacesAreApart

\* An install works on its stack until it answers.
InstallStages ==
    call.op = "modrinth" => call.stage \in Downloads \cup {"stack", "answer"}

CInv == InstallStages /\ VisitedIsClosed /\ InstallIsClosed

\* No two projects publish a file under one name.
FileNamesAreApart == \A p, q \in Projects : p # q => NamesOf(p) \cap NamesOf(q) = {}

----------------------------------------------------------------------------------
(* The records that the actions build.                                             *)

LEMMA EmptyStack == <<>> \in Seq(Task)
  BY EmptySeq

LEMMA IdleFacts ==
  /\ IsCall(Idle) /\ Idle.op = "none" /\ Idle.stage = "idle" /\ Idle.stack = <<>>
  /\ Idle.visited = {} /\ Idle.items = {} /\ Idle.failed = FALSE /\ Idle.asked = NoProject
<1>1. IsRecord(Idle)
  BY DEF IsRecord, Idle, CallFields
<1>2. IsDownload(NoDownload)
  BY DEF IsDownload, NoDownload, DownloadFields
<1> QED
  BY <1>1, <1>2, EmptyStack DEF IsCall, Idle

LEMMA CallFieldsAre ==
  /\ "op" \in CallFields /\ "stage" \in CallFields /\ "asked" \in CallFields
  /\ "stack" \in CallFields /\ "visited" \in CallFields /\ "items" \in CallFields
  /\ "item" \in CallFields /\ "download" \in CallFields /\ "before" \in CallFields
  /\ "failed" \in CallFields
  BY DEF CallFields

\* A call that is begun.
LEMMA AnswerOfFacts ==
  ASSUME NEW op, NEW failed \in BOOLEAN
  PROVE  /\ IsCall(AnswerOf(op, failed)) /\ AnswerOf(op, failed).op = op
         /\ AnswerOf(op, failed).stage = "answer" /\ AnswerOf(op, failed).stack = <<>>
         /\ AnswerOf(op, failed).failed = failed
  BY IdleFacts, CallFieldsAre DEF AnswerOf, IsCall, IsRecord

LEMMA ItemsFacts ==
  ASSUME NEW op, NEW items
  PROVE  /\ IsCall(Items(op, items)) /\ Items(op, items).op = op
         /\ Items(op, items).stage = "items" /\ Items(op, items).stack = <<>>
         /\ Items(op, items).items = items
  BY IdleFacts, CallFieldsAre DEF Items, IsCall, IsRecord

LEMMA OnFacts ==
  ASSUME NEW op, NEW stage, NEW name
  PROVE  /\ IsCall(On(op, stage, name)) /\ On(op, stage, name).op = op
         /\ On(op, stage, name).stage = stage /\ On(op, stage, name).stack = <<>>
         /\ On(op, stage, name).item = name
  BY IdleFacts, CallFieldsAre DEF On, IsCall, IsRecord

\* How a call goes on.
LEMMA AnswerFacts ==
  ASSUME TypesHold, NEW failed \in BOOLEAN
  PROVE  /\ IsCall(Answer(failed)) /\ Answer(failed).op = call.op
         /\ Answer(failed).stage = "answer" /\ Answer(failed).stack = <<>>
         /\ Answer(failed).failed = (call.failed \/ failed)
         /\ call.op = "modrinth" => Answer(failed).asked = call.asked
<1>1. (call.failed \/ failed) \in BOOLEAN
  OBVIOUS
<1> QED
  BY <1>1, IdleFacts, CallFieldsAre DEF TypesHold, Answer, IsCall, IsRecord

LEMMA NextItemFacts ==
  ASSUME TypesHold, NEW failed \in BOOLEAN
  PROVE  /\ IsCall(NextItem(failed)) /\ NextItem(failed).op = call.op
         /\ NextItem(failed).stage = "items" /\ NextItem(failed).stack = call.stack
         /\ NextItem(failed).items = call.items
<1>1. (call.failed \/ failed) \in BOOLEAN
  OBVIOUS
<1>2. IsDownload(NoDownload)
  BY DEF IsDownload, NoDownload, DownloadFields
<1> QED
  BY <1>1, <1>2, CallFieldsAre DEF TypesHold, NextItem, IsCall, IsRecord

LEMMA FetchIsDownload ==
  ASSUME NEW name, NEW jar, NEW announced, NEW then
  PROVE  LET d == Fetch(name, jar, announced, then) IN
         IsDownload(d) /\ d.name = name /\ d.jar = jar /\ d.then = then
  BY DEF Fetch, IsDownload, DownloadFields

\* The files that are downloaded and the receipts that are written.
LEMMA JarIsKnown ==
  ASSUME NEW p \in Projects, NEW v \in Nat, NEW whole \in BOOLEAN
  PROVE  /\ Jar(p, v, whole) \in Known /\ Jar(p, v, whole).project = p
         /\ Jar(p, v, whole).version = v
         /\ Jar(p, v, whole) # NoFile /\ Jar(p, v, whole) # NoHash /\ Jar(p, v, whole) # OwnFile
  BY ConstantsAssumption DEF Jar, Known, NoFile, NoHash, OwnFile

LEMMA KnownIsFile ==
  ASSUME NEW jar \in Known
  PROVE  jar \in Files /\ jar # NoFile /\ jar # NoHash /\ jar # OwnFile
  BY ConstantsAssumption DEF Known, Files, NoFile, NoHash, OwnFile

LEMMA NamesAreNames ==
  ASSUME NEW p \in Projects, NEW v \in 1..NewestVersion[p]
  PROVE  FileNameOf[p][v] \in NamesOf(p) /\ FileNameOf[p][v] \in Names
<1>1. FileNameOf[p] \in Seq(Names) /\ Len(FileNameOf[p]) = NewestVersion[p]
  BY ConstantsAssumption
<1> QED
  BY <1>1, ElementOfSeq DEF NamesOf
----------------------------------------------------------------------------------
(* Calls that neither download nor update.                                         *)

\* What a call changes besides itself.
Outside == <<files, backups, receipts, clients, published>>

LEMMA TypesStay ==
  ASSUME TypesHold, IsCall(call'), UNCHANGED <<backups, receipts, clients, published>>,
         files' \in [Names -> Files]
  PROVE  TypesHold'
  BY DEF TypesHold

\* A call that is not at work on a file has nothing to keep true of one.
LEMMA QuietCall ==
  ASSUME TypesHold', ReceiptsAreEarned', UpdatesAreFound', call'.stack = <<>>,
         call'.stage \notin Downloads \cup Updating \cup {"stack"},
         call'.op = "none" => call' = Idle, call'.stage = "idle" => call'.op = "none"
  PROVE  IInv'
<1>1. StageFitsCall'
  BY DEF StageFitsCall, Downloads, Updating
<1>2. DownloadFits' /\ BackupIsTaken'
  BY DEF DownloadFits, BackupIsTaken, Downloads, Updating
<1>3. DOMAIN call'.stack = {}
  BY EmptySeq
<1>4. StackIsFit' /\ PlacesAreApart'
  BY <1>3 DEF StackIsFit, PlacesAreApart
<1> QED
  BY <1>1, <1>2, <1>4 DEF IInv

\* A call that is begun.
LEMMA BeginQuietly ==
  ASSUME IInv, NEW c, Begin(c), UNCHANGED Outside, IsCall(c), c.stack = <<>>,
         c.op # "none", c.stage \notin Downloads \cup Updating \cup {"stack", "idle"},
         UpdatesAreFound'
  PROVE  IInv'
<1>1. call' = c
  BY DEF Begin
<1>2. TypesHold' /\ ReceiptsAreEarned'
  BY <1>1, TypesStay DEF IInv, Outside, TypesHold, ReceiptsAreEarned
<1> QED
  BY <1>1, <1>2, QuietCall

\* What a check finds is of a project.
LEMMA FoundIsFound ==
  ASSUME IInv, NEW n \in Names, files[n] # NoFile, Tracked(n) \/ KnownByDigest(n)
  PROVE  Found(UpdateOf(n))
<1>1. LoadReceipts[n].provider \in {"modrinth", "curseforge"} =>
         LoadReceipts[n].project \in Projects
  BY DEF IInv, ReceiptsAreEarned, Earned, LoadReceipts, NoReceipts, NoReceipt
<1>2. \A p \in Projects : published[p] \in Nat
  BY DEF IInv, TypesHold
<1>3. CASE Tracked(n)
  BY <1>1, <1>2, <1>3 DEF Tracked, UpdateOf, Found
<1>4. CASE ~Tracked(n)
  BY <1>2, <1>4 DEF KnownByDigest, UpdateOf, Found, Projects
<1> QED
  BY <1>3, <1>4

LEMMA CheckInv ==
  ASSUME IInv, CheckModUpdates
  PROVE  IInv'
<1>1. \A u \in updates' : Found(u)
  <2>1. PICK reached \in SUBSET {n \in Names : files[n] # NoFile
                                   /\ (Tracked(n) \/ KnownByDigest(n))} :
           updates' = {u \in {UpdateOf(n) : n \in reached} : u.version # u.have}
    BY DEF CheckModUpdates
  <2> QED
    BY <2>1, FoundIsFound
<1>2. Begin(AnswerOf("check", FALSE)) /\ UNCHANGED Outside
  BY DEF CheckModUpdates, Outside
<1>3. UpdatesAreFound'
  BY <1>1, <1>2, AnswerOfFacts DEF UpdatesAreFound, Begin
<1> QED
  BY <1>2, <1>3, AnswerOfFacts, BeginQuietly DEF Downloads, Updating

\* The updates of a call over several are those that were found.
LEMMA UpdateInv ==
  ASSUME IInv, UpdateAllMods \/ \E n \in Names : UpdateMod(n)
  PROVE  IInv'
<1>1. CASE UpdateAllMods
  <2>1. Begin(Items("update", updates)) /\ UNCHANGED Outside /\ UNCHANGED updates
    BY <1>1 DEF UpdateAllMods, Outside
  <2>2. UpdatesAreFound'
    BY <2>1, ItemsFacts DEF Begin, UpdatesAreFound, IInv
  <2> QED
    BY <2>1, <2>2, ItemsFacts, BeginQuietly DEF Downloads, Updating
<1>2. ASSUME NEW n \in Names, UpdateMod(n) PROVE IInv'
  <2> DEFINE u == CHOOSE w \in updates : w.name = n
             one == {[u EXCEPT !.provider = "legacy"]}
  <2>1. u \in updates /\ Begin(Items("update", one)) /\ UNCHANGED Outside /\ UNCHANGED updates
    BY <1>2 DEF UpdateMod, Outside
  <2>2. Found(u) /\ Found([u EXCEPT !.provider = "legacy"])
    BY <2>1 DEF IInv, UpdatesAreFound, Found
  <2> HIDE DEF u
  <2>3. UpdatesAreFound'
    BY <2>1, <2>2, ItemsFacts DEF Begin, UpdatesAreFound, IInv
  <2> HIDE DEF one
  <2> QED
    BY <2>1, <2>3, ItemsFacts, BeginQuietly DEF Downloads, Updating
<1> QED
  BY <1>1, <1>2

\* Other calls find their items in the directory, or have one, or none.
LEMMA BeginOther ==
  ASSUME IInv, NEW c, Begin(c), UNCHANGED Outside, UNCHANGED updates, IsCall(c),
         c.stack = <<>>, c.op \notin {"none", "update"},
         c.stage \notin Downloads \cup Updating \cup {"stack", "idle"},
         c.op = "clients" => \A n \in c.items : n \in Names /\ files[n] # NoFile
  PROVE  IInv'
<1>1. UpdatesAreFound'
  BY DEF Begin, UpdatesAreFound, IInv, Outside
<1> QED
  BY <1>1, BeginQuietly

LEMMA ByHandInv ==
  ASSUME IInv,
         \/ \E n \in Names, overwrite, whole \in BOOLEAN : AddMod(n, overwrite, whole)
         \/ \E n \in Names : RemoveMod(n) \/ SafeRemoveMod(n)
         \/ RemoveAllMods \/ RemoveClientOnlyMods \/ InstallMissing(Missing) \/ AutoFix
  PROVE  IInv'
<1> USE AnswerOfFacts, ItemsFacts, OnFacts DEF Outside, Downloads, Updating
<1>1. ASSUME NEW n \in Names, NEW overwrite \in BOOLEAN, NEW whole \in BOOLEAN,
             AddMod(n, overwrite, whole)
      PROVE  IInv'
  <2>1. CASE Begin(AnswerOf("add", TRUE))
    BY <1>1, <2>1, BeginOther DEF AddMod
  <2>2. CASE Begin(On("add", "copied", n))
    BY <1>1, <2>2, BeginOther DEF AddMod
  <2> QED
    BY <1>1, <2>1, <2>2 DEF AddMod
<1>2. ASSUME NEW n \in Names, RemoveMod(n) PROVE IInv'
  BY <1>2, BeginOther DEF RemoveMod
<1>3. ASSUME NEW n \in Names, SafeRemoveMod(n) PROVE IInv'
  <2>1. CASE Begin(AnswerOf("safe", TRUE))
    BY <1>3, <2>1, BeginOther DEF SafeRemoveMod
  <2>2. CASE Begin(On("safe", "remove", n))
    BY <1>3, <2>2, BeginOther DEF SafeRemoveMod
  <2> QED
    BY <1>3, <2>1, <2>2 DEF SafeRemoveMod
<1>4. CASE RemoveAllMods
  BY <1>4, BeginOther DEF RemoveAllMods
<1>5. CASE RemoveClientOnlyMods
  <2> DEFINE found == {n \in Names : Readable(n) /\ files[n].project \in ClientOnly}
  <2>1. Begin(Items("clients", found)) /\ UNCHANGED Outside /\ UNCHANGED updates
    BY <1>5 DEF RemoveClientOnlyMods
  <2>2. \A n \in found : n \in Names /\ files[n] # NoFile
    BY DEF Readable
  <2> HIDE DEF found
  <2> QED
    BY <2>1, <2>2, BeginOther
<1>6. CASE InstallMissing(Missing)
  BY <1>6, BeginOther DEF InstallMissing
<1>7. CASE AutoFix
  <2>1. PICK misfits \in SUBSET Outdated : Begin(Items("autofix", Missing \cup misfits))
    BY <1>7 DEF AutoFix
  <2> QED
    BY <1>7, <2>1, BeginOther DEF AutoFix
<1> QED
  BY <1>1, <1>2, <1>3, <1>4, <1>5, <1>6, <1>7
----------------------------------------------------------------------------------
(* Steps after which a call has no download.                                       *)

LEMMA EndQuietly ==
  ASSUME IInv, NEW failed \in BOOLEAN, call' = Answer(failed), call.op # "none",
         TypesHold', ReceiptsAreEarned', UNCHANGED updates
  PROVE  IInv'
<1>1. /\ call'.op = call.op /\ call'.stage = "answer" /\ call'.stack = <<>>
  BY AnswerFacts DEF IInv
<1>2. UpdatesAreFound'
  <2>1. call.op = "update" => call'.items = {}
    BY DEF Answer, Idle
  <2> QED
    BY <1>1, <2>1 DEF IInv, UpdatesAreFound
<1> QED
  BY <1>1, <1>2, QuietCall DEF Downloads, Updating

LEMMA NextQuietly ==
  ASSUME IInv, NEW failed \in BOOLEAN, call' = NextItem(failed),
         call.op \notin {"none", "modrinth", "clients"},
         TypesHold', ReceiptsAreEarned', UNCHANGED updates
  PROVE  IInv'
<1>1. /\ call'.op = call.op /\ call'.stage = "items" /\ call'.stack = call.stack
      /\ call'.items = call.items
  BY NextItemFacts DEF IInv
<1>2. UpdatesAreFound'
  BY <1>1 DEF IInv, UpdatesAreFound
<1>3. call'.stack = <<>>
  BY <1>1 DEF IInv, StageFitsCall
<1> QED
  BY <1>1, <1>2, <1>3, QuietCall DEF Downloads, Updating

\* A call goes on to a stage without a download, or to its next item.
LEMMA GoQuietly ==
  ASSUME IInv, IsCall(call'), call'.op = call.op, call.op # "none",
         call'.stage \notin Downloads \cup Updating \cup {"stack", "idle"},
         call'.stack = <<>>, TypesHold', ReceiptsAreEarned', UNCHANGED updates,
         call.op = "update" => call'.items \subseteq call.items,
         call'.op = "clients" /\ call'.stage = "items" =>
            \A n \in call'.items : n \in Names /\ files'[n] # NoFile
  PROVE  IInv'
<1>1. UpdatesAreFound'
  BY DEF IInv, UpdatesAreFound
<1> QED
  BY <1>1, QuietCall

\* A file is taken away, or replaced by one added by hand or by its backup.
LEMMA FileChanges ==
  ASSUME TypesHold, NEW n, NEW f \in Files, files' = [files EXCEPT ![n] = f]
  PROVE  files' \in [Names -> Files]
  BY DEF TypesHold

LEMMA OpIsNone ==
  ASSUME IInv, call.stage # "idle"
  PROVE  call.op # "none"
  BY IdleFacts DEF IInv, StageFitsCall

LEMMA RemovalInv ==
  ASSUME IInv, AddRename \/ RemoveFile \/ RemoveReceipt \/ RemoveNext
  PROVE  IInv'
<1> USE AnswerFacts DEF Outside
<1>1. OwnFile \in Files /\ NoFile \in Files
  BY DEF Files
<1>2. ASSUME NEW failed \in BOOLEAN, call' = Answer(failed), call.stage # "idle",
             files' \in [Names -> Files], UNCHANGED <<backups, receipts, clients, published, updates>>
      PROVE  IInv'
  <2>1. TypesHold' /\ ReceiptsAreEarned'
    BY <1>2, TypesStay DEF IInv, ReceiptsAreEarned
  <2> QED
    BY <1>2, <2>1, EndQuietly, OpIsNone
<1>3. CASE AddRename
  <2>1. files' \in [Names -> Files]
    BY <1>1, <1>3, FileChanges DEF AddRename, IInv, TypesHold
  <2> QED
    BY <1>2, <1>3, <2>1 DEF AddRename
<1>4. CASE RemoveFile
  <2>1. files' \in [Names -> Files]
    BY <1>1, <1>4, FileChanges DEF RemoveFile, IInv, TypesHold
  <2>2. CASE call' = Answer(TRUE)
    BY <1>2, <1>4, <2>1, <2>2 DEF RemoveFile
  <2>3. CASE Go("unreceipt")
    <3>1. /\ IsCall(call') /\ call'.op = call.op /\ call'.stage = "unreceipt"
          /\ call'.stack = call.stack /\ call'.items = call.items
      BY <2>3, CallFieldsAre DEF Go, IInv, TypesHold, IsCall, IsRecord
    <3>2. call.stack = <<>> /\ call.op # "none"
      BY <1>4, OpIsNone DEF RemoveFile, IInv, StageFitsCall, Downloads
    <3>3. TypesHold' /\ ReceiptsAreEarned'
      BY <1>4, <2>1, <3>1, TypesStay DEF IInv, ReceiptsAreEarned, RemoveFile
    <3> QED
      BY <1>4, <3>1, <3>2, <3>3, GoQuietly DEF RemoveFile, Downloads, Updating
  <2> QED
    BY <1>4, <2>2, <2>3 DEF RemoveFile
<1>5. CASE RemoveReceipt
  <2>1. NoReceipt \in Receipt /\ Earned(NoReceipt)
    BY DEF NoReceipt, Receipt, Earned, NoHash
  <2>2. LoadReceipts \in [Names -> Receipt] /\ \A n \in Names : Earned(LoadReceipts[n])
    BY <2>1 DEF LoadReceipts, NoReceipts, IInv, TypesHold, ReceiptsAreEarned
  <2>3. /\ receipts' \in [health : {"good", "corrupt", "future"}, of : [Names -> Receipt]]
        /\ ReceiptsAreEarned'
    BY <1>5, <2>1, <2>2 DEF RemoveReceipt, DropReceipt, Saved, IInv, TypesHold, ReceiptsAreEarned
  <2>4. TypesHold'
    BY <1>5, <2>3 DEF RemoveReceipt, IInv, TypesHold
  <2> QED
    BY <1>5, <2>3, <2>4, EndQuietly, OpIsNone DEF RemoveReceipt
<1>6. CASE RemoveNext
  <2>1. files' \in [Names -> Files] /\ call.op = "clear" /\ call.stage = "items"
    BY <1>1, <1>6, FileChanges DEF RemoveNext, IInv, TypesHold
  <2>2. CASE call' = Answer(TRUE)
    BY <1>2, <1>6, <2>1, <2>2 DEF RemoveNext
  <2>3. ASSUME NEW n, call' = [call EXCEPT !.items = @ \ {n}] PROVE IInv'
    <3>1. /\ IsCall(call') /\ call'.op = call.op /\ call'.stage = call.stage
          /\ call'.stack = call.stack
      BY <2>3, CallFieldsAre DEF IInv, TypesHold, IsCall, IsRecord
    <3>2. call.stack = <<>>
      BY <2>1 DEF IInv, StageFitsCall
    <3>3. TypesHold' /\ ReceiptsAreEarned'
      BY <1>6, <2>1, <3>1, TypesStay DEF IInv, ReceiptsAreEarned, RemoveNext
    <3> QED
      BY <1>6, <2>1, <3>1, <3>2, <3>3, GoQuietly DEF RemoveNext, Downloads, Updating
  <2> QED
    BY <1>6, <2>2, <2>3 DEF RemoveNext
<1> QED
  BY <1>3, <1>4, <1>5, <1>6

LEMMA ClientInv ==
  ASSUME IInv, RemoveClientMod
  PROVE  IInv'
<1>1. call.op = "clients" /\ call.stage = "items" /\ call.stack = <<>>
  BY DEF RemoveClientMod, IInv, StageFitsCall, Downloads
<1>2. PICK n \in call.items :
        /\ \/ /\ files' = [files EXCEPT ![n] = NoFile]
              /\ call' = [call EXCEPT !.items = @ \ {n}, !.visited = @ \cup {files[n].project},
                            !.stage = IF call.items = {n} THEN "list" ELSE @]
           \/ /\ UNCHANGED files
              /\ call' = [call EXCEPT !.items = @ \ {n},
                            !.stage = IF call.items = {n} THEN "list" ELSE @]
        /\ UNCHANGED <<backups, receipts, clients, published, updates>>
  BY DEF RemoveClientMod
<1>3. \A m \in call.items : m \in Names /\ files[m] # NoFile
  BY <1>1 DEF IInv, UpdatesAreFound
<1>4. files[n].project \in Projects \cup {Own}
  <2>1. files[n] \in Files /\ files[n] # NoFile
    BY <1>2, <1>3 DEF IInv, TypesHold
  <2> QED
    BY <2>1 DEF Files, Known, OwnFile
<1>5. /\ IsCall(call') /\ call'.op = call.op /\ call'.stack = call.stack
      /\ call'.stage \in {"list", "items"} /\ call'.items = call.items \ {n}
  <2>1. IsCall(call) /\ call.stage = "items"
    BY <1>1 DEF IInv, TypesHold
  <2>2. CASE call' = [call EXCEPT !.items = @ \ {n}, !.visited = @ \cup {files[n].project},
                            !.stage = IF call.items = {n} THEN "list" ELSE @]
    BY <1>4, <2>1, <2>2, CallFieldsAre DEF IsCall, IsRecord
  <2>3. CASE call' = [call EXCEPT !.items = @ \ {n},
                            !.stage = IF call.items = {n} THEN "list" ELSE @]
    BY <2>1, <2>3, CallFieldsAre DEF IsCall, IsRecord
  <2> QED
    BY <1>2, <2>2, <2>3
<1>6. files' \in [Names -> Files]
  BY <1>2, FileChanges DEF IInv, TypesHold, Files
<1>7. TypesHold' /\ ReceiptsAreEarned'
  BY <1>2, <1>5, <1>6, TypesStay DEF IInv, ReceiptsAreEarned
<1>8. \A m \in call'.items : m \in Names /\ files'[m] # NoFile
  BY <1>2, <1>3, <1>5 DEF IInv, TypesHold
<1> QED
  BY <1>1, <1>2, <1>5, <1>7, <1>8, GoQuietly DEF Downloads, Updating

LEMMA ListInv ==
  ASSUME IInv, SaveClientRemoved
  PROVE  IInv'
<1>1. call.op # "none" /\ call' = Answer(FALSE)
  BY OpIsNone DEF SaveClientRemoved
<1>2. TypesHold' /\ ReceiptsAreEarned'
  BY <1>1, AnswerFacts DEF SaveClientRemoved, IInv, TypesHold, IsCall, ReceiptsAreEarned
<1> QED
  BY <1>1, <1>2, EndQuietly DEF SaveClientRemoved

LEMMA DoneInv ==
  ASSUME IInv, StackDone \/ ItemsDone
  PROVE  IInv'
<1>1. call.op # "none" /\ call' = Answer(FALSE) /\ UNCHANGED Outside /\ UNCHANGED updates
  BY OpIsNone DEF StackDone, ItemsDone, Outside
<1>2. TypesHold' /\ ReceiptsAreEarned'
  BY <1>1, AnswerFacts, TypesStay DEF Outside, IInv, ReceiptsAreEarned, TypesHold
<1> QED
  BY <1>1, <1>2, EndQuietly

\* A call ends, or the process does, or something happens between two calls.
LEMMA BetweenInv ==
  ASSUME IInv, Return \/ Publish \/ Spoil \/ Crash \/ UNCHANGED vars
  PROVE  IInv'
<1>1. CASE Return \/ Crash
  <2>1. call' = Idle /\ UNCHANGED Outside /\ updates' \in {updates, {}}
    BY <1>1 DEF Return, Crash, Outside
  <2>2. TypesHold' /\ ReceiptsAreEarned'
    BY <2>1, IdleFacts, TypesStay DEF Outside, IInv, ReceiptsAreEarned, TypesHold
  <2>3. UpdatesAreFound'
    BY <2>1, IdleFacts DEF IInv, UpdatesAreFound
  <2> QED
    BY <2>1, <2>2, <2>3, IdleFacts, QuietCall DEF Downloads, Updating
<1>2. CASE Publish \/ Spoil \/ UNCHANGED vars
  <2>1. /\ UNCHANGED <<files, backups, clients, updates, call>>
        /\ receipts'.of = receipts.of
        /\ receipts' \in [health : {"good", "corrupt", "future"}, of : [Names -> Receipt]]
    BY <1>2 DEF Publish, Spoil, vars, IInv, TypesHold
  <2>2. published' \in [Projects -> Nat] /\ \A p \in Projects : published'[p] \in 1..NewestVersion[p]
    <3>1. published \in [Projects -> Nat] /\ \A p \in Projects : published[p] \in 1..NewestVersion[p]
      BY DEF IInv, TypesHold
    <3>2. ASSUME NEW q \in Projects, published[q] < NewestVersion[q],
                 published' = [published EXCEPT ![q] = @ + 1]
          PROVE  /\ published' \in [Projects -> Nat]
                 /\ \A p \in Projects : published'[p] \in 1..NewestVersion[p]
      <4>1. NewestVersion[q] \in Nat /\ published[q] + 1 \in 1..NewestVersion[q]
        BY <3>1, <3>2, ConstantsAssumption
      <4> QED
        BY <3>1, <3>2, <4>1
    <3>3. CASE Publish
      BY <3>2, <3>3 DEF Publish
    <3> QED
      BY <1>2, <3>1, <3>3 DEF Spoil, vars
  <2>3. TypesHold' /\ ReceiptsAreEarned'
    BY <2>1, <2>2 DEF IInv, TypesHold, ReceiptsAreEarned
  <2> QED
    BY <2>1, <2>3 DEF IInv, UpdatesAreFound, StageFitsCall, DownloadFits, BackupIsTaken,
                      StackIsFit, PlacesAreApart
<1> QED
  BY <1>1, <1>2
----------------------------------------------------------------------------------
(* Downloads.                                                                      *)

LEMMA StackStays ==
  ASSUME IInv, call'.stack = call.stack, call'.visited = call.visited
  PROVE  StackIsFit' /\ PlacesAreApart'
  BY DEF IInv, StackIsFit, PlacesAreApart

LEMMA NoStack ==
  ASSUME call'.stack = <<>>
  PROVE  StackIsFit' /\ PlacesAreApart'
<1>1. DOMAIN call'.stack = {}
  BY EmptySeq
<1> QED
  BY <1>1 DEF StackIsFit, PlacesAreApart

\* The call moves to another stage and keeps what it works on.
LEMMA GoFacts ==
  ASSUME TypesHold, NEW stage, call' = [call EXCEPT !.stage = stage]
  PROVE  /\ IsCall(call') /\ call'.stage = stage
         /\ \A f \in CallFields : f # "stage" => call'[f] = call[f]
  BY CallFieldsAre DEF TypesHold, IsCall, IsRecord

LEMMA FailureInv ==
  ASSUME IInv, call.stage \in {"download", "received"}, call' = AfterFailure,
         UNCHANGED Outside, UNCHANGED updates
  PROVE  IInv'
<1>1. call.op # "none"
  BY OpIsNone
<1>2. CASE call.op = "update"
  <2>1. call' = [call EXCEPT !.stage = "restore"]
    BY <1>2 DEF AfterFailure
  <2>2. /\ IsCall(call') /\ call'.stage = "restore" /\ call'.op = call.op
        /\ call'.items = call.items /\ call'.item = call.item /\ call'.before = call.before
        /\ call'.stack = call.stack
    BY <2>1, GoFacts, CallFieldsAre DEF IInv
  <2>3. call.stack = <<>>
    BY <1>2 DEF IInv, StageFitsCall
  <2>4. TypesHold' /\ ReceiptsAreEarned' /\ UpdatesAreFound'
    BY <1>2, <2>2, TypesStay DEF IInv, Outside, TypesHold, ReceiptsAreEarned, UpdatesAreFound
  <2>5. StageFitsCall' /\ DownloadFits'
    BY <1>2, <2>2, <2>3 DEF StageFitsCall, DownloadFits, Downloads
  <2>6. BackupIsTaken'
    BY <1>2, <2>2 DEF IInv, BackupIsTaken, Updating, Outside
  <2> QED
    BY <2>2, <2>3, <2>4, <2>5, <2>6, NoStack DEF IInv
<1>3. CASE call.op \in {"missing", "autofix"}
  <2>1. call' = NextItem(FALSE)
    BY <1>3 DEF AfterFailure
  <2>2. TypesHold' /\ ReceiptsAreEarned'
    BY <2>1, NextItemFacts, TypesStay DEF IInv, Outside, TypesHold, ReceiptsAreEarned
  <2> QED
    BY <1>3, <2>1, <2>2, NextQuietly
<1>4. CASE call.op \notin {"update", "missing", "autofix"}
  <2>1. call' = Answer(TRUE)
    BY <1>4 DEF AfterFailure
  <2>2. TypesHold' /\ ReceiptsAreEarned'
    BY <2>1, AnswerFacts, TypesStay DEF IInv, Outside, TypesHold, ReceiptsAreEarned
  <2> QED
    BY <1>1, <2>1, <2>2, EndQuietly
<1> QED
  BY <1>2, <1>3, <1>4

\* Another attempt, and bytes that arrived: the rest of the call stays.
LEMMA AttemptFacts ==
  ASSUME IInv, AttemptFails \/ Receive, call' # AfterFailure
  PROVE  /\ call.stage = "download" /\ UNCHANGED Outside /\ UNCHANGED updates
         /\ IsCall(call') /\ call'.stage \in {"download", "received"}
         /\ call'.op = call.op /\ call'.asked = call.asked /\ call'.stack = call.stack
         /\ call'.visited = call.visited /\ call'.items = call.items /\ call'.item = call.item
         /\ call'.before = call.before
         /\ call'.download.name = call.download.name /\ call'.download.then = call.download.then
         /\ call'.download.jar \in Known
         /\ call'.download.jar.project = call.download.jar.project
         /\ call'.download.jar.version = call.download.jar.version
<1> DEFINE d == call.download
<1>1. /\ call.stage = "download" /\ UNCHANGED Outside /\ UNCHANGED updates
      /\ \/ call' = [call EXCEPT !.download.attempt = @ + 1]
         \/ \E whole \in BOOLEAN :
               call' = [call EXCEPT !.stage = "received", !.download.jar.whole = whole]
  BY DEF AttemptFails, Receive, Outside
<1>2. IsCall(call) /\ IsDownload(d) /\ d.jar \in Known
  BY <1>1 DEF IInv, TypesHold, IsCall, DownloadFits, Downloads
<1> DEFINE Moves(stage, e) ==
              /\ call' = [call EXCEPT !.stage = stage, !.download = e]
              /\ IsDownload(e) /\ e.name = d.name /\ e.then = d.then /\ e.jar \in Known
              /\ e.jar.project = d.jar.project /\ e.jar.version = d.jar.version
<1>3. \E stage \in {"download", "received"} : \E e : Moves(stage, e)
  <2>1. ASSUME call' = [call EXCEPT !.download.attempt = @ + 1]
        PROVE  \E e : Moves("download", e)
    <3> DEFINE e == [d EXCEPT !.attempt = @ + 1]
    <3>1. call' = [call EXCEPT !.stage = "download", !.download = e]
      BY <1>1, <1>2, <2>1, CallFieldsAre DEF IsCall, IsRecord
    <3>2. /\ IsDownload(e) /\ e.name = d.name /\ e.then = d.then /\ e.jar = d.jar
      BY <1>2 DEF IsDownload, DownloadFields
    <3> HIDE DEF d, e
    <3> QED
      BY <1>2, <3>1, <3>2
  <2>2. ASSUME NEW whole \in BOOLEAN,
               call' = [call EXCEPT !.stage = "received", !.download.jar.whole = whole]
        PROVE  \E e : Moves("received", e)
    <3> DEFINE jar == [d.jar EXCEPT !.whole = whole]
               e == [d EXCEPT !.jar = jar]
    <3>1. call' = [call EXCEPT !.stage = "received", !.download = e]
      BY <1>2, <2>2, CallFieldsAre DEF IsCall, IsRecord, IsDownload, DownloadFields
    <3>2. jar \in Known /\ jar.project = d.jar.project /\ jar.version = d.jar.version
      BY <1>2 DEF Known
    <3> HIDE DEF jar
    <3>3. IsDownload(e) /\ e.name = d.name /\ e.then = d.then /\ e.jar = jar
      BY <1>2 DEF IsDownload, DownloadFields
    <3> HIDE DEF d, e
    <3> QED
      BY <3>1, <3>2, <3>3
  <2> QED
    BY <1>1, <2>1, <2>2
<1>4. PICK stage \in {"download", "received"} : \E e : Moves(stage, e)
  BY <1>3
<1>5. PICK e : Moves(stage, e)
  BY <1>4
<1>6. /\ IsCall(call') /\ call'.stage = stage /\ call'.download = e
      /\ \A f \in CallFields : f \notin {"stage", "download"} => call'[f] = call[f]
  BY <1>2, <1>5, CallFieldsAre DEF IsCall, IsRecord
<1> HIDE DEF d
<1> QED
  BY <1>1, <1>5, <1>6, CallFieldsAre DEF d

LEMMA AttemptInv ==
  ASSUME IInv, AttemptFails \/ Receive
  PROVE  IInv'
<1>1. CASE call' = AfterFailure
  BY <1>1, FailureInv DEF AttemptFails, Receive, Outside
<1>2. CASE call' # AfterFailure
  <2> USE <1>2, AttemptFacts
  <2>1. TypesHold' /\ ReceiptsAreEarned' /\ UpdatesAreFound'
    BY TypesStay DEF IInv, Outside, TypesHold, ReceiptsAreEarned, UpdatesAreFound
  <2>2. StageFitsCall'
    BY IdleFacts DEF IInv, StageFitsCall, Downloads
  <2>3. DownloadFits'
    BY DEF IInv, DownloadFits, Downloads
  <2>4. BackupIsTaken'
    BY DEF IInv, BackupIsTaken, Updating, Outside
  <2> QED
    BY <2>1, <2>2, <2>3, <2>4, StackStays DEF IInv
<1> QED
  BY <1>1, <1>2
----------------------------------------------------------------------------------
(* The stack of an install.                                                        *)

LEMMA PopFacts ==
  ASSUME NEW s \in Seq(Task), s # <<>>
  PROVE  /\ Head(s) \in Task /\ Head(s) = s[1] /\ 1 \in DOMAIN s
         /\ Tail(s) \in Seq(Task)
         /\ \A i \in DOMAIN Tail(s) : i + 1 \in DOMAIN s /\ Tail(s)[i] = s[i + 1] /\ i \in Nat
         /\ \A i \in DOMAIN s : i = 1 \/ (i - 1 \in DOMAIN Tail(s) /\ s[i] = Tail(s)[i - 1])
  BY HeadTailProperties, ElementOfSeq, LenProperties

\* Work on top of a stack: its entries come first, then those that were there.
LEMMA PushFacts ==
  ASSUME NEW w \in Seq(Task), NEW s \in Seq(Task)
  PROVE  /\ w \o s \in Seq(Task)
         /\ \A i \in DOMAIN (w \o s) :
               \/ i \in DOMAIN w /\ (w \o s)[i] = w[i]
               \/ i - Len(w) \in DOMAIN s /\ (w \o s)[i] = s[i - Len(w)] /\ i > Len(w)
         /\ \A i \in DOMAIN w : i \in DOMAIN (w \o s) /\ (w \o s)[i] = w[i]
         /\ \A i \in DOMAIN s : i + Len(w) \in DOMAIN (w \o s) /\ (w \o s)[i + Len(w)] = s[i]
<1>1. /\ w \o s \in Seq(Task) /\ Len(w \o s) = Len(w) + Len(s)
      /\ \A i \in 1..Len(w) + Len(s) :
            (w \o s)[i] = IF i <= Len(w) THEN w[i] ELSE s[i - Len(w)]
  BY ConcatProperties
<1>2. /\ DOMAIN w = 1..Len(w) /\ DOMAIN s = 1..Len(s) /\ DOMAIN (w \o s) = 1..Len(w \o s)
      /\ Len(w) \in Nat /\ Len(s) \in Nat
  BY <1>1, LenProperties
<1> QED
  BY <1>1, <1>2

\* The dependencies that are named are some of those that are required.
LEMMA NamedFacts ==
  ASSUME NEW p \in Projects
  PROVE  /\ IsFiniteSet(Named(p)) /\ Cardinality(Named(p)) \in Nat
         /\ Named(p) \subseteq Requirement
         /\ p \in Modrinth => \A d \in Named(p) : d.project \in Modrinth
<1>1. IsFiniteSet(Requires[p]) /\ Requires[p] \subseteq Requirement /\ Named(p) \subseteq Requires[p]
  BY ConstantsAssumption DEF Named
<1> QED
  BY <1>1, ConstantsAssumption, FS_Subset, FS_CardinalityType

\* What a visit puts on the stack: a task for each requirement, and the project last.
LEMMA UnfoldFacts ==
  ASSUME TypesHold, NEW p \in Modrinth, NEW work \in Unfold(p)
  PROVE  /\ work \in Seq(Task)
         /\ Len(work) \in DOMAIN work /\ work[Len(work)] = Place(p, published[p])
         /\ \A i \in DOMAIN work : i # Len(work) =>
               \E d \in Named(p) : work[i] = DependencyTask(d)
         /\ \A d \in Named(p) : \E i \in DOMAIN work : work[i] = DependencyTask(d)
<1>1. PICK q \in Orders(Named(p)) :
         work = [i \in DOMAIN q |-> DependencyTask(q[i])] \o <<Place(p, published[p])>>
  BY DEF Unfold
<1> DEFINE n == Cardinality(Named(p))
           todo == [i \in DOMAIN q |-> DependencyTask(q[i])]
           last == Place(p, published[p])
<1>2. n \in Nat
  BY NamedFacts DEF Projects
<1>3. q \in [1..n -> Named(p)] /\ \A d \in Named(p) : \E i \in DOMAIN q : q[i] = d
  BY DEF Orders
<1>4. \A d \in Named(p) : DependencyTask(d) \in Task
  BY NamedFacts DEF DependencyTask, Visit, VisitVersion, Task, Projects
<1>5. last \in Task
  BY DEF Place, Task, TypesHold, Projects
<1> HIDE DEF last
<1>6. todo \in Seq(Task) /\ Len(todo) = n /\ \A i \in 1..n : todo[i] = DependencyTask(q[i])
  BY <1>2, <1>3, <1>4, IsASeq
<1>7. /\ <<last>> \in Seq(Task) /\ Len(<<last>>) = 1 /\ <<last>>[1] = last
  BY <1>5
<1> HIDE DEF todo, n
<1>8. /\ work \in Seq(Task) /\ Len(work) = n + 1
      /\ \A i \in 1..n + 1 : work[i] = IF i <= n THEN todo[i] ELSE <<last>>[i - n]
  BY <1>1, <1>6, <1>7, ConcatProperties DEF todo, last
<1>9. DOMAIN work = 1..n + 1 /\ work[n + 1] = last
  BY <1>2, <1>7, <1>8, LenProperties
<1>10. \A i \in 1..n : work[i] = DependencyTask(q[i]) /\ q[i] \in Named(p)
  BY <1>2, <1>3, <1>6, <1>8
<1>11. \A d \in Named(p) : \E i \in 1..n : q[i] = d
  BY <1>3
<1> QED
  BY <1>2, <1>8, <1>9, <1>10, <1>11 DEF last

LEMMA ModrinthInv ==
  ASSUME IInv, NEW p \in Modrinth, InstallModrinthMod(p)
  PROVE  IInv'
<1> DEFINE c == [Idle EXCEPT !.op = "modrinth", !.stage = "stack", !.asked = p,
                            !.stack = <<Visit(p)>>]
<1>1. call' = c /\ UNCHANGED Outside /\ UNCHANGED updates
  BY DEF InstallModrinthMod, Begin, Outside
<1>2. Visit(p) \in Task /\ Visit(p).do = "visit"
  BY DEF Visit, Task
<1>3. /\ <<Visit(p)>> \in Seq(Task) /\ DOMAIN <<Visit(p)>> = {1} /\ <<Visit(p)>>[1] = Visit(p)
  BY <1>2
<1> DEFINE s == <<Visit(p)>>
<1> HIDE DEF s
<1>4. /\ IsCall(c) /\ c.op = "modrinth" /\ c.stage = "stack" /\ c.stack = s
  BY <1>3, IdleFacts, CallFieldsAre DEF IsCall, IsRecord, s
<1> HIDE DEF c
<1>5. TypesHold' /\ ReceiptsAreEarned' /\ UpdatesAreFound'
  BY <1>1, <1>4, TypesStay DEF IInv, Outside, TypesHold, ReceiptsAreEarned, UpdatesAreFound
<1>6. StageFitsCall' /\ DownloadFits' /\ BackupIsTaken'
  BY <1>1, <1>4 DEF StageFitsCall, DownloadFits, BackupIsTaken, Downloads, Updating
<1>7. StackIsFit' /\ PlacesAreApart'
  BY <1>1, <1>2, <1>3, <1>4 DEF StackIsFit, PlacesAreApart, s
<1> QED
  BY <1>5, <1>6, <1>7 DEF IInv

LEMMA CurseForgeInv ==
  ASSUME IInv, NEW p \in CurseForge, InstallCurseForgeMod(p)
  PROVE  IInv'
<1>1. CASE Begin(AnswerOf("curseforge", TRUE))
  BY <1>1, AnswerOfFacts, BeginOther
     DEF InstallCurseForgeMod, Outside, Downloads, Updating
<1>2. CASE ~Begin(AnswerOf("curseforge", TRUE))
  <2> DEFINE v == published[p]
             jar == Jar(p, v, FALSE)
             announced == p \notin Unhashed
             d == Fetch(FileNameOf[p][v], jar, announced, "receipt")
             c == [Idle EXCEPT !.op = "curseforge", !.stage = "download", !.download = d]
  <2>1. call' = c /\ UNCHANGED Outside /\ UNCHANGED updates
    BY <1>2 DEF InstallCurseForgeMod, Begin, Outside
  <2>2. p \in Projects /\ v \in Nat /\ v \in 1..NewestVersion[p]
    BY DEF Projects, IInv, TypesHold
  <2>3. FileNameOf[p][v] \in Names /\ jar \in Known
    BY <2>2, JarIsKnown, NamesAreNames
  <2> HIDE DEF v, jar, announced
  <2>8. /\ IsDownload(d) /\ d.name \in Names /\ d.jar \in Known /\ d.then = "receipt"
    BY <2>3, FetchIsDownload
  <2> HIDE DEF d
  <2>4. /\ IsCall(c) /\ c.op = "curseforge" /\ c.stage = "download" /\ c.stack = <<>>
        /\ c.download = d
    BY <2>8, IdleFacts, CallFieldsAre DEF IsCall, IsRecord
  <2> HIDE DEF c
  <2>5. TypesHold' /\ ReceiptsAreEarned' /\ UpdatesAreFound'
    BY <2>1, <2>4, TypesStay DEF IInv, Outside, TypesHold, ReceiptsAreEarned, UpdatesAreFound
  <2>6. StageFitsCall' /\ DownloadFits' /\ BackupIsTaken'
    BY <2>1, <2>4, <2>8 DEF StageFitsCall, DownloadFits, BackupIsTaken, Downloads
  <2>7. StackIsFit' /\ PlacesAreApart'
    BY <2>1, <2>4, NoStack
  <2> QED
    BY <2>5, <2>6, <2>7 DEF IInv
<1> QED
  BY <1>1, <1>2

\* A task is taken from the stack of an install.
LEMMA PopInv ==
  ASSUME IInv, call.stack # <<>>, IsCall(call'), call'.stack = Tail(call.stack),
         call'.visited = call.visited
  PROVE  StackIsFit' /\ PlacesAreApart'
<1> DEFINE s == call.stack  t == Tail(call.stack)
<1>1. /\ \A i \in DOMAIN t : i + 1 \in DOMAIN s /\ t[i] = s[i + 1] /\ i \in Nat
  BY PopFacts DEF IInv, TypesHold, IsCall
<1>2. StackIsFit'
  BY <1>1 DEF IInv, StackIsFit
<1>3. ASSUME NEW i \in DOMAIN t, NEW j \in DOMAIN t, t[i].do = "place", t[j].do = "place",
             t[i].project = t[j].project
      PROVE  i = j
  <2>1. i + 1 = j + 1
    BY <1>1, <1>3 DEF IInv, PlacesAreApart
  <2> QED
    BY <1>1, <2>1
<1>4. PlacesAreApart'
  BY <1>3 DEF PlacesAreApart
<1> QED
  BY <1>2, <1>4

\* A visit puts the tasks of a project on the stack that was not visited before.
LEMMA PushInv ==
  ASSUME IInv, call.stack # <<>>, NEW p \in Modrinth, p \notin call.visited,
         NEW work \in Unfold(p), call'.stack = work \o Tail(call.stack),
         call'.visited = Seen(call.visited, p), UNCHANGED Outside
  PROVE  StackIsFit' /\ PlacesAreApart'
<1> DEFINE s == call.stack  t == Tail(call.stack)  u == work \o t  n == Len(work)
<1>1. /\ t \in Seq(Task)
      /\ \A i \in DOMAIN t : i + 1 \in DOMAIN s /\ t[i] = s[i + 1] /\ i \in Nat
  BY PopFacts DEF IInv, TypesHold, IsCall
<1>2. /\ work \in Seq(Task)
      /\ n \in DOMAIN work /\ work[n] = Place(p, published[p])
      /\ \A i \in DOMAIN work : i # n => \E d \in Named(p) : work[i] = DependencyTask(d)
  BY UnfoldFacts DEF IInv
<1>3. n \in Nat
  BY <1>2, LenProperties
<1> HIDE DEF t, n
<1>4. \A i \in DOMAIN u :
         \/ i \in DOMAIN work /\ u[i] = work[i]
         \/ i - n \in DOMAIN t /\ u[i] = t[i - n] /\ i > n
  BY <1>1, <1>2, PushFacts DEF n
<1>5. ASSUME NEW i \in DOMAIN work, i # n
      PROVE  /\ work[i].do # "place"
             /\ work[i].do # "visit" => work[i].version \in 1..NewestVersion[work[i].project]
  <2>1. PICK d \in Named(p) : work[i] = DependencyTask(d)
    BY <1>2, <1>5
  <2>2. d.project \in Projects
    BY NamedFacts DEF Projects
  <2>3. NewestVersion[d.project] \in Nat \ {0}
    BY <2>2, ConstantsAssumption
  <2> QED
    BY <2>1, <2>3 DEF DependencyTask, Visit, VisitVersion
<1>6. /\ work[n].do = "place" /\ work[n].project = p
      /\ work[n].version \in 1..NewestVersion[p]
  BY <1>2 DEF Place, IInv, TypesHold, Projects
<1>7. ASSUME NEW i \in DOMAIN t
      PROVE  /\ t[i].do # "visit" => t[i].version \in 1..NewestVersion[t[i].project]
             /\ t[i].do = "place" => t[i].project \in call.visited
  BY <1>1 DEF IInv, StackIsFit
<1>8. ASSUME NEW i \in DOMAIN u
      PROVE  /\ u[i].do # "visit" => u[i].version \in 1..NewestVersion[u[i].project]
             /\ u[i].do = "place" => u[i].project \in Seen(call.visited, p)
             /\ u[i].do = "place" /\ u[i].project = p => i = n
             /\ u[i].do = "place" /\ u[i].project # p =>
                   i - n \in DOMAIN t /\ u[i] = t[i - n] /\ i > n
  BY <1>4, <1>5, <1>6, <1>7 DEF Seen
<1>9. \A i, j \in DOMAIN t : t[i].do = "place" /\ t[j].do = "place"
                               /\ t[i].project = t[j].project => i = j
  <2>1. ASSUME NEW i \in DOMAIN t, NEW j \in DOMAIN t, t[i].do = "place", t[j].do = "place",
               t[i].project = t[j].project
        PROVE  i + 1 = j + 1
    BY <1>1, <2>1 DEF IInv, PlacesAreApart
  <2> QED
    BY <1>1, <2>1
<1>10. \A i \in DOMAIN u : i \in Nat
  BY <1>1, <1>2, PushFacts, LenProperties
<1>11. ASSUME NEW i \in DOMAIN u, NEW j \in DOMAIN u, u[i].do = "place", u[j].do = "place",
              u[i].project = u[j].project
       PROVE  i = j
  <2>1. CASE u[i].project = p
    BY <1>8, <1>11, <2>1
  <2>2. CASE u[i].project # p
    <3>1. i - n = j - n
      BY <1>8, <1>9, <1>11, <2>2
    <3> QED
      BY <1>3, <1>10, <3>1
  <2> QED
    BY <2>1, <2>2
<1> HIDE DEF u
<1>12. call'.stack = u
  BY DEF u, t
<1> QED
  BY <1>8, <1>11, <1>12 DEF StackIsFit, PlacesAreApart

LEMMA VisitInv ==
  ASSUME IInv, VisitProject
  PROVE  IInv'
<1> DEFINE task == Head(call.stack)
<1>1. /\ call.stage = "stack" /\ call.stack # <<>> /\ task.do = "visit"
      /\ UNCHANGED Outside /\ UNCHANGED updates /\ call.op = "modrinth"
  BY DEF VisitProject, Outside, IInv, StageFitsCall
<1>2. IsCall(call) /\ call.stack \in Seq(Task)
  BY DEF IInv, TypesHold, IsCall
<1>3. Tail(call.stack) \in Seq(Task) /\ task.project \in Modrinth
  BY <1>1, <1>2, PopFacts DEF Task
<1> HIDE DEF task
<1>4. ASSUME NEW s \in Seq(Task), NEW seen \in SUBSET (Projects \cup {Own}),
             call' = [call EXCEPT !.stack = s, !.visited = seen], StackIsFit', PlacesAreApart'
      PROVE  IInv'
  <2>1. /\ IsCall(call') /\ call'.op = "modrinth" /\ call'.stage = "stack"
    BY <1>1, <1>2, <1>4, CallFieldsAre DEF IsCall, IsRecord
  <2>2. TypesHold' /\ ReceiptsAreEarned' /\ UpdatesAreFound'
    BY <1>1, <2>1, TypesStay DEF IInv, Outside, TypesHold, ReceiptsAreEarned, UpdatesAreFound
  <2>3. StageFitsCall' /\ DownloadFits' /\ BackupIsTaken'
    BY <2>1 DEF StageFitsCall, DownloadFits, BackupIsTaken, Downloads, Updating
  <2> QED
    BY <1>4, <2>2, <2>3 DEF IInv
<1>5. CASE call' = [call EXCEPT !.stack = Tail(@)]
  <2>1. /\ call' = [call EXCEPT !.stack = Tail(call.stack), !.visited = call.visited]
        /\ IsCall(call') /\ call'.stack = Tail(call.stack) /\ call'.visited = call.visited
    BY <1>2, <1>3, <1>5, CallFieldsAre DEF IsCall, IsRecord
  <2>2. StackIsFit' /\ PlacesAreApart'
    BY <1>1, <2>1, PopInv
  <2> QED
    BY <1>2, <1>3, <1>4, <2>1, <2>2 DEF IsCall
<1>6. ASSUME task.project \notin call.visited, NEW work \in Unfold(task.project),
             call' = [call EXCEPT !.stack = work \o Tail(@), !.visited = Seen(@, task.project)]
      PROVE  IInv'
  <2>1. work \in Seq(Task)
    BY <1>3, <1>6, UnfoldFacts DEF IInv
  <2>2. work \o Tail(call.stack) \in Seq(Task)
    BY <1>3, <2>1, PushFacts
  <2>3. Seen(call.visited, task.project) \in SUBSET (Projects \cup {Own})
    BY <1>2, <1>3 DEF Seen, IsCall, Projects
  <2>4. /\ call'.stack = work \o Tail(call.stack)
        /\ call'.visited = Seen(call.visited, task.project)
    BY <1>2, <1>6, CallFieldsAre DEF IsCall, IsRecord
  <2>5. StackIsFit' /\ PlacesAreApart'
    BY <1>1, <1>3, <1>6, <2>4, PushInv
  <2> QED
    BY <1>4, <1>6, <2>2, <2>3, <2>5
<1>7. CASE call' = Answer(TRUE)
  <2>1. TypesHold' /\ ReceiptsAreEarned'
    BY <1>1, <1>7, AnswerFacts, TypesStay DEF IInv, Outside, TypesHold, ReceiptsAreEarned
  <2> QED
    BY <1>1, <1>7, <2>1, EndQuietly
<1> QED
  BY <1>5, <1>6, <1>7 DEF VisitProject, task

\* The file on top of the stack is one of its project; a dependency named by its
\* version leaves the stack, a project stays on it until its receipt is written.
LEMMA StartFileFacts ==
  ASSUME IInv, StartFile
  PROVE  LET task == Head(call.stack)
             p == task.project
             d == call'.download IN
         /\ call.stage = "stack" /\ call.stack # <<>> /\ task.do \in {"version", "place"}
         /\ UNCHANGED Outside /\ UNCHANGED updates /\ call.op = "modrinth"
         /\ IsCall(call') /\ call'.op = "modrinth" /\ call'.stage = "download"
         /\ call'.visited = call.visited /\ call'.asked = call.asked
         /\ d.name \in NamesOf(p) /\ d.name \in Names /\ d.jar \in Known
         /\ d.jar.project = p /\ d.jar.version = task.version
         /\ task.do = "version" => call'.stack = Tail(call.stack) /\ d.then = "stack"
         /\ task.do = "place" => call'.stack = call.stack /\ d.then = "receipt"
<1> DEFINE task == Head(call.stack)  p == task.project  v == task.version
           name == FileNameOf[p][v]
           then == IF task.do = "version" THEN "stack" ELSE "receipt"
           jar == Jar(p, v, FALSE)
           announced == p \notin Unhashed
           d == Fetch(name, jar, announced, then)
           s == IF task.do = "version" THEN Tail(call.stack) ELSE call.stack
<1>1. /\ call.stage = "stack" /\ call.stack # <<>> /\ task.do # "visit"
      /\ UNCHANGED Outside /\ UNCHANGED updates /\ call.op = "modrinth"
      /\ call' = [call EXCEPT !.stage = "download", !.stack = s, !.download = d]
  BY DEF StartFile, Outside, IInv, StageFitsCall
<1>2. IsCall(call) /\ call.stack \in Seq(Task)
  BY DEF IInv, TypesHold, IsCall
<1>3. /\ task \in Task /\ task = call.stack[1] /\ 1 \in DOMAIN call.stack
      /\ Tail(call.stack) \in Seq(Task)
  BY <1>1, <1>2, PopFacts
<1>4. p \in Projects /\ v \in 1..NewestVersion[p] /\ v \in Nat /\ task.do \in {"version", "place"}
  BY <1>1, <1>3 DEF IInv, StackIsFit, Task, Projects
<1>5. /\ name \in NamesOf(p) /\ name \in Names /\ jar \in Known
      /\ jar.project = p /\ jar.version = v
  BY <1>4, JarIsKnown, NamesAreNames
<1>6. /\ task.do = "version" => s = Tail(call.stack) /\ then = "stack"
      /\ task.do = "place" => s = call.stack /\ then = "receipt"
      /\ s \in Seq(Task)
  BY <1>2, <1>3
<1> HIDE DEF name, then, jar, announced
<1>7. /\ IsDownload(d) /\ d.name = name /\ d.jar = jar /\ d.then = then
  BY FetchIsDownload
<1> HIDE DEF p, v, d, s
<1>8. /\ IsCall(call') /\ call'.op = "modrinth" /\ call'.stage = "download"
      /\ call'.stack = s /\ call'.download = d /\ call'.visited = call.visited
      /\ call'.asked = call.asked
  BY <1>1, <1>2, <1>6, <1>7, CallFieldsAre DEF IsCall, IsRecord
<1> QED
  BY <1>1, <1>4, <1>5, <1>6, <1>7, <1>8 DEF p, v

LEMMA StartFileInv ==
  ASSUME IInv, StartFile
  PROVE  IInv'
<1> USE StartFileFacts
<1>1. TypesHold' /\ ReceiptsAreEarned' /\ UpdatesAreFound'
  BY TypesStay DEF IInv, Outside, TypesHold, ReceiptsAreEarned, UpdatesAreFound
<1>2. StageFitsCall' /\ BackupIsTaken' /\ DownloadFits'
  BY DEF StageFitsCall, BackupIsTaken, DownloadFits, Downloads
<1>3. StackIsFit' /\ PlacesAreApart'
  BY PopInv, StackStays
<1> QED
  BY <1>1, <1>2, <1>3 DEF IInv

LEMMA CommitInv ==
  ASSUME IInv, Commit
  PROVE  IInv'
<1> DEFINE d == call.download
<1>1. /\ call.stage = "received" /\ files' = [files EXCEPT ![d.name] = d.jar]
      /\ UNCHANGED <<backups, receipts, clients, published, updates>>
      /\ IF d.then = "items" THEN call' = NextItem(FALSE)
         ELSE call' = [call EXCEPT !.stage = d.then]
  BY DEF Commit
<1>2. /\ d.name \in Names /\ d.jar \in Known
      /\ call.op \in {"modrinth", "curseforge", "update", "missing", "autofix"}
      /\ call.op = "modrinth" => d.then \in {"stack", "receipt"}
      /\ call.op \in {"curseforge", "update"} => d.then = "receipt"
      /\ call.op \in {"missing", "autofix"} => d.then = "items"
  BY <1>1 DEF IInv, DownloadFits, StageFitsCall, Downloads
<1>3. files' \in [Names -> Files] /\ files'[d.name] = d.jar
  BY <1>1, <1>2, FileChanges, KnownIsFile DEF IInv, TypesHold
<1>4. CASE d.then = "items"
  <2>1. TypesHold' /\ ReceiptsAreEarned'
    BY <1>1, <1>3, <1>4, NextItemFacts, TypesStay DEF IInv, ReceiptsAreEarned
  <2> QED
    BY <1>1, <1>2, <1>4, <2>1, NextQuietly
<1>5. CASE d.then # "items"
  <2>1. d.then \in {"stack", "receipt"} /\ call.op \in {"modrinth", "curseforge", "update"}
    BY <1>2, <1>5
  <2>2. /\ IsCall(call') /\ call'.stage = d.then
        /\ \A f \in CallFields : f # "stage" => call'[f] = call[f]
    BY <1>1, <1>5, GoFacts DEF IInv
  <2>3. /\ call'.op = call.op /\ call'.asked = call.asked /\ call'.stack = call.stack
        /\ call'.visited = call.visited /\ call'.items = call.items /\ call'.item = call.item
        /\ call'.before = call.before /\ call'.download = d
    BY <2>2, CallFieldsAre
  <2> HIDE DEF d
  <2>4. TypesHold' /\ ReceiptsAreEarned' /\ UpdatesAreFound'
    BY <1>1, <1>3, <2>1, <2>2, <2>3, TypesStay DEF IInv, ReceiptsAreEarned, UpdatesAreFound
  <2>5. StageFitsCall'
    BY <1>1, <1>2, <2>1, <2>2, <2>3 DEF IInv, StageFitsCall, Downloads
  <2>6. /\ call.op = "modrinth" => d.name \in NamesOf(d.jar.project)
        /\ call.op = "update" =>
              d.name = call.item /\ call.asked \in {"modrinth", "curseforge", "unknown", "legacy"}
        /\ call.op = "modrinth" /\ d.then = "receipt" =>
              /\ call.stack # <<>> /\ Head(call.stack).do = "place"
              /\ Head(call.stack).project = d.jar.project
              /\ Head(call.stack).version = d.jar.version
    BY <1>1 DEF IInv, DownloadFits, Downloads, d
  <2>7. DownloadFits'
    BY <1>2, <1>3, <2>1, <2>2, <2>3, <2>6 DEF DownloadFits, Downloads
  <2>8. BackupIsTaken'
    BY <1>1, <1>2, <2>1, <2>2, <2>3 DEF IInv, BackupIsTaken, Updating
  <2> QED
    BY <2>3, <2>4, <2>5, <2>7, <2>8, StackStays DEF IInv
<1> QED
  BY <1>4, <1>5

----------------------------------------------------------------------------------
(* Receipts and updates.                                                           *)

\* A receipt is written for one file, over what was read; the others stay.
LEMMA SaveFacts ==
  ASSUME IInv, NEW n, NEW r \in Receipt, Earned(r),
         receipts' = SaveModReceipt(n, r) \/ UNCHANGED receipts
  PROVE  /\ receipts' \in [health : {"good", "corrupt", "future"}, of : [Names -> Receipt]]
         /\ ReceiptsAreEarned'
<1>1. NoReceipt \in Receipt /\ Earned(NoReceipt)
  BY DEF NoReceipt, Receipt, Earned, NoHash
<1>2. LoadReceipts \in [Names -> Receipt] /\ \A m \in Names : Earned(LoadReceipts[m])
  BY <1>1 DEF LoadReceipts, NoReceipts, IInv, TypesHold, ReceiptsAreEarned
<1> QED
  BY <1>2 DEF SaveModReceipt, Saved, IInv, TypesHold, ReceiptsAreEarned

LEMMA ReceiptOfFacts ==
  ASSUME NEW provider \in {"modrinth", "curseforge", "unknown"},
         NEW p \in Projects \cup {NoProject}, NEW v \in Nat, NEW hash \in Files \cup {NoHash},
         provider # "unknown" => p \in Projects,
         provider # "unknown" /\ hash # NoHash => hash.project = p /\ hash.version = v
  PROVE  ReceiptOf(provider, p, v, hash) \in Receipt /\ Earned(ReceiptOf(provider, p, v, hash))
  BY DEF ReceiptOf, Receipt, Earned

LEMMA ModrinthReceiptInv ==
  ASSUME IInv, ModrinthReceipt
  PROVE  IInv'
<1> DEFINE task == Head(call.stack)  p == task.project  d == call.download
           hash == IF p \in Unhashed THEN NoHash ELSE Jar(p, task.version, TRUE)
           r == ReceiptOf("modrinth", p, task.version, hash)
<1>1. /\ call.op = "modrinth" /\ call.stage = "receipt"
      /\ UNCHANGED <<files, backups, clients, published, updates>>
      /\ receipts' = SaveModReceipt(d.name, r) \/ UNCHANGED receipts
      /\ call' = [call EXCEPT !.stage = "stack", !.stack = Tail(@), !.download = NoDownload]
  BY DEF ModrinthReceipt
<1>2. IsCall(call) /\ call.stack \in Seq(Task) /\ call.stack # <<>>
  BY <1>1 DEF IInv, TypesHold, IsCall, DownloadFits, Downloads
<1>3. p \in Projects /\ task.version \in Nat /\ Tail(call.stack) \in Seq(Task)
  BY <1>2, PopFacts DEF Task, Projects
<1>4. hash \in Files \cup {NoHash} /\ (hash # NoHash =>
         hash.project = p /\ hash.version = task.version)
  BY <1>3, JarIsKnown, KnownIsFile
<1> HIDE DEF task, p, hash
<1>5. r \in Receipt /\ Earned(r)
  BY <1>3, <1>4, ReceiptOfFacts
<1> HIDE DEF r
<1>6. /\ receipts' \in [health : {"good", "corrupt", "future"}, of : [Names -> Receipt]]
      /\ ReceiptsAreEarned'
  BY <1>1, <1>5, SaveFacts
<1>7. IsDownload(NoDownload)
  BY DEF IsDownload, NoDownload, DownloadFields
<1>8. /\ IsCall(call') /\ call'.op = "modrinth" /\ call'.stage = "stack"
      /\ call'.stack = Tail(call.stack) /\ call'.visited = call.visited
  BY <1>1, <1>2, <1>3, <1>7, CallFieldsAre DEF IsCall, IsRecord
<1>9. TypesHold' /\ UpdatesAreFound'
  BY <1>1, <1>6, <1>8 DEF IInv, TypesHold, UpdatesAreFound
<1>10. StageFitsCall' /\ DownloadFits' /\ BackupIsTaken'
  BY <1>8 DEF StageFitsCall, DownloadFits, BackupIsTaken, Downloads, Updating
<1>11. StackIsFit' /\ PlacesAreApart'
  BY <1>2, <1>8, PopInv
<1> QED
  BY <1>6, <1>9, <1>10, <1>11 DEF IInv

LEMMA CurseForgeReceiptInv ==
  ASSUME IInv, CurseForgeReceipt
  PROVE  IInv'
<1> DEFINE d == call.download
           r == ReceiptOf("curseforge", d.jar.project, d.jar.version, files[d.name])
<1>1. /\ call.op = "curseforge" /\ call.stage = "receipt"
      /\ \E unread \in BOOLEAN : call' = Answer(unread)
      /\ UNCHANGED <<files, backups, clients, published, updates>>
      /\ receipts' = SaveModReceipt(d.name, r) \/ UNCHANGED receipts
  BY DEF CurseForgeReceipt
<1>2. d.jar \in Known /\ files[d.name] = d.jar
  BY <1>1 DEF IInv, DownloadFits, Downloads
<1>3. r \in Receipt /\ Earned(r)
  BY <1>2, ReceiptOfFacts, KnownIsFile DEF Known
<1> HIDE DEF r
<1>4. /\ receipts' \in [health : {"good", "corrupt", "future"}, of : [Names -> Receipt]]
      /\ ReceiptsAreEarned'
  BY <1>1, <1>3, SaveFacts
<1>5. TypesHold'
  BY <1>1, <1>4, AnswerFacts DEF IInv, TypesHold
<1> QED
  BY <1>1, <1>4, <1>5, EndQuietly

LEMMA UpdateReceiptInv ==
  ASSUME IInv, UpdateReceipt
  PROVE  IInv'
<1> DEFINE d == call.download
           r == IF call.asked = "legacy" THEN ReceiptOf("unknown", NoProject, 0, files[call.item])
                ELSE ReceiptOf(call.asked, d.jar.project, d.jar.version, files[call.item])
<1>1. /\ call.op = "update" /\ call.stage = "receipt"
      /\ \E unread \in BOOLEAN : call' = NextItem(unread)
      /\ UNCHANGED <<files, clients, published, updates>>
      /\ backups' = [backups EXCEPT ![call.item] = NoFile] \/ UNCHANGED backups
      /\ receipts' = SaveModReceipt(call.item, r) \/ UNCHANGED receipts
  BY DEF UpdateReceipt
<1>2. /\ d.jar \in Known /\ files[d.name] = d.jar /\ d.name = call.item
      /\ call.asked \in {"modrinth", "curseforge", "unknown", "legacy"}
  BY <1>1 DEF IInv, DownloadFits, Downloads
<1>3. r \in Receipt /\ Earned(r)
  <2>1. CASE call.asked = "legacy"
    BY <1>2, <2>1, ReceiptOfFacts, KnownIsFile
  <2>2. CASE call.asked # "legacy"
    <3>1. /\ d.jar \in Files \cup {NoHash} /\ d.jar.project \in Projects
          /\ d.jar.version \in Nat /\ call.asked \in {"modrinth", "curseforge", "unknown"}
      BY <1>2, <2>2, KnownIsFile DEF Known
    <3>2. r = ReceiptOf(call.asked, d.jar.project, d.jar.version, d.jar)
      BY <1>2, <2>2
    <3> QED
      BY <3>1, <3>2, ReceiptOfFacts
  <2> QED
    BY <2>1, <2>2
<1> HIDE DEF r
<1>4. /\ receipts' \in [health : {"good", "corrupt", "future"}, of : [Names -> Receipt]]
      /\ ReceiptsAreEarned'
  BY <1>1, <1>3, SaveFacts
<1>5. backups' \in [Names -> Files]
  BY <1>1 DEF IInv, TypesHold, Files
<1>6. TypesHold'
  BY <1>1, <1>4, <1>5, NextItemFacts DEF IInv, TypesHold
<1> QED
  BY <1>1, <1>4, <1>6, NextQuietly

LEMMA StartUpdateInv ==
  ASSUME IInv, StartUpdate
  PROVE  IInv'
<1>1. /\ call.op = "update" /\ call.stage = "items" /\ call.stack = <<>>
      /\ \A u \in call.items : Found(u)
      /\ UNCHANGED <<files, receipts, clients, published, updates>>
  BY DEF StartUpdate, IInv, StageFitsCall, UpdatesAreFound, Downloads
<1>2. IsCall(call)
  BY DEF IInv, TypesHold
<1>3. ASSUME NEW u \in call.items, UNCHANGED backups,
             call' = [call EXCEPT !.items = @ \ {u}, !.failed = TRUE]
      PROVE  IInv'
  <2>1. /\ IsCall(call') /\ call'.op = call.op /\ call'.stage = call.stage
        /\ call'.stack = call.stack /\ call'.items \subseteq call.items
    BY <1>2, <1>3, CallFieldsAre DEF IsCall, IsRecord
  <2>2. TypesHold' /\ ReceiptsAreEarned'
    BY <1>1, <1>3, <2>1, TypesStay DEF IInv, ReceiptsAreEarned, TypesHold
  <2> QED
    BY <1>1, <2>1, <2>2, GoQuietly DEF Downloads, Updating
<1>4. ASSUME NEW u \in call.items, backups' = Backup(u.name),
             call' = [call EXCEPT !.stage = "download", !.items = @ \ {u}, !.item = u.name,
                !.asked = u.provider, !.before = files[u.name],
                !.download = Fetch(u.name, Jar(u.project, u.version, FALSE), FALSE, "receipt")]
      PROVE  IInv'
  <2> DEFINE jar == Jar(u.project, u.version, FALSE)
             announced == FALSE
             d == Fetch(u.name, jar, announced, "receipt")
  <2>1. Found(u) /\ u.name \in Names /\ jar \in Known
    BY <1>1, JarIsKnown DEF Found
  <2> HIDE DEF jar, announced
  <2>2. IsDownload(d) /\ d.name = u.name /\ d.jar = jar /\ d.then = "receipt"
    BY FetchIsDownload
  <2> HIDE DEF d
  <2>3. call' = [call EXCEPT !.stage = "download", !.items = @ \ {u}, !.item = u.name,
                    !.asked = u.provider, !.before = files[u.name], !.download = d]
    BY <1>4 DEF d, jar, announced
  <2>4. /\ IsCall(call') /\ call'.op = "update" /\ call'.stage = "download"
        /\ call'.stack = <<>> /\ call'.items \subseteq call.items /\ call'.item = u.name
        /\ call'.asked = u.provider /\ call'.before = files[u.name] /\ call'.download = d
    BY <1>1, <1>2, <2>2, <2>3, CallFieldsAre DEF IsCall, IsRecord
  <2>5. backups' \in [Names -> Files] /\ backups'[u.name] = files[u.name]
    BY <1>4, <2>1 DEF Backup, IInv, TypesHold
  <2>6. TypesHold' /\ ReceiptsAreEarned' /\ UpdatesAreFound'
    BY <1>1, <2>4, <2>5 DEF IInv, TypesHold, ReceiptsAreEarned, UpdatesAreFound
  <2>7. StageFitsCall' /\ BackupIsTaken'
    BY <2>1, <2>4, <2>5 DEF StageFitsCall, BackupIsTaken, Downloads
  <2>8. DownloadFits'
    BY <2>1, <2>2, <2>4 DEF DownloadFits, Found
  <2> QED
    BY <2>4, <2>6, <2>7, <2>8, NoStack DEF IInv
<1> QED
  BY <1>3, <1>4 DEF StartUpdate

\* A failed update tries to put the old file back; its backup stays.
LEMMA RestoreInv ==
  ASSUME IInv, CopyBack \/ DeleteDestination \/ NextUpdate
  PROVE  IInv'
<1>1. CASE CopyBack \/ DeleteDestination
  <2>1. PICK stage \in {"delete", "restored"} : call' = [call EXCEPT !.stage = stage]
    BY <1>1 DEF CopyBack, DeleteDestination, Go
  <2>2. /\ IsCall(call') /\ call'.stage = stage
        /\ \A f \in CallFields : f # "stage" => call'[f] = call[f]
    BY <2>1, GoFacts DEF IInv
  <2>3. /\ call'.op = call.op /\ call'.items = call.items /\ call'.item = call.item
        /\ call'.before = call.before /\ call'.stack = call.stack
    BY <2>2, CallFieldsAre
  <2>4. /\ call.op = "update" /\ call.stage \in {"restore", "delete"} /\ call.stack = <<>>
        /\ UNCHANGED <<backups, receipts, clients, published, updates>>
    BY <1>1 DEF CopyBack, DeleteDestination, IInv, StageFitsCall, Downloads
  <2>5. call.item \in Names /\ backups[call.item] = call.before /\ backups[call.item] \in Files
    BY <2>4 DEF IInv, BackupIsTaken, Updating, TypesHold
  <2>6. files' \in [Names -> Files]
    BY <1>1, <2>5, FileChanges DEF CopyBack, DeleteDestination, IInv, TypesHold, Files
  <2>7. TypesHold' /\ ReceiptsAreEarned' /\ UpdatesAreFound'
    BY <2>2, <2>3, <2>4, <2>6, TypesStay DEF IInv, ReceiptsAreEarned, UpdatesAreFound
  <2>8. StageFitsCall' /\ DownloadFits' /\ BackupIsTaken'
    BY <2>2, <2>3, <2>4, <2>5 DEF StageFitsCall, DownloadFits, BackupIsTaken, Downloads
  <2> QED
    BY <2>3, <2>4, <2>7, <2>8, NoStack DEF IInv
<1>2. CASE NextUpdate
  <2>1. call.op = "update" /\ call' = NextItem(TRUE) /\ UNCHANGED Outside /\ UNCHANGED updates
    BY <1>2 DEF NextUpdate, Outside, IInv, StageFitsCall
  <2>2. TypesHold' /\ ReceiptsAreEarned'
    BY <2>1, NextItemFacts, TypesStay DEF IInv, Outside, TypesHold, ReceiptsAreEarned
  <2> QED
    BY <2>1, <2>2, NextQuietly
<1> QED
  BY <1>1, <1>2

\* A missing mod is searched; what was found is downloaded, or nothing was.
LEMMA InstallNextInv ==
  ASSUME IInv, InstallNext
  PROVE  IInv'
<1>1. /\ call.op \in {"missing", "autofix"} /\ call.stage = "items" /\ call.stack = <<>>
      /\ UNCHANGED Outside /\ UNCHANGED updates
  BY DEF InstallNext, Outside, IInv, StageFitsCall, Downloads
<1>2. IsCall(call)
  BY DEF IInv, TypesHold
<1>3. ASSUME NEW id \in call.items, call' = [call EXCEPT !.items = @ \ {id}]
      PROVE  IInv'
  <2>1. /\ IsCall(call') /\ call'.op = call.op /\ call'.stage = call.stage
        /\ call'.stack = call.stack
    BY <1>2, <1>3, CallFieldsAre DEF IsCall, IsRecord
  <2>2. TypesHold' /\ ReceiptsAreEarned'
    BY <1>1, <2>1, TypesStay DEF IInv, ReceiptsAreEarned, TypesHold, Outside
  <2> QED
    BY <1>1, <2>1, <2>2, GoQuietly DEF Downloads, Updating
<1>4. ASSUME NEW id \in call.items, NEW p \in Modrinth,
             call' = [call EXCEPT !.items = @ \ {id}, !.stage = "download",
                       !.download = Fetch(FileNameOf[p][published[p]],
                                          Jar(p, published[p], FALSE), FALSE, "items")]
      PROVE  IInv'
  <2> DEFINE v == published[p]  name == FileNameOf[p][v]  jar == Jar(p, v, FALSE)
             announced == FALSE
             d == Fetch(name, jar, announced, "items")
  <2>1. p \in Projects /\ v \in Nat /\ v \in 1..NewestVersion[p]
    BY DEF Projects, IInv, TypesHold
  <2>2. name \in Names /\ jar \in Known
    BY <2>1, JarIsKnown, NamesAreNames
  <2> HIDE DEF name, jar, announced
  <2>3. IsDownload(d) /\ d.name = name /\ d.jar = jar /\ d.then = "items"
    BY FetchIsDownload
  <2> HIDE DEF d
  <2>4. call' = [call EXCEPT !.items = @ \ {id}, !.stage = "download", !.download = d]
    BY <1>4 DEF d, jar, name, announced
  <2>5. /\ IsCall(call') /\ call'.op = call.op /\ call'.stage = "download"
        /\ call'.stack = <<>> /\ call'.download = d
    BY <1>1, <1>2, <2>3, <2>4, CallFieldsAre DEF IsCall, IsRecord
  <2>6. TypesHold' /\ ReceiptsAreEarned' /\ UpdatesAreFound'
    BY <1>1, <2>5, TypesStay DEF IInv, Outside, TypesHold, ReceiptsAreEarned, UpdatesAreFound
  <2>7. StageFitsCall' /\ DownloadFits' /\ BackupIsTaken'
    BY <1>1, <2>2, <2>3, <2>5 DEF StageFitsCall, DownloadFits, BackupIsTaken, Downloads
  <2> QED
    BY <2>5, <2>6, <2>7, NoStack DEF IInv
<1> QED
  BY <1>3, <1>4 DEF InstallNext

----------------------------------------------------------------------------------
(* The invariant, and what it says of a file, an update and an install.            *)

LEMMA InitInv == Init => IInv
<1> SUFFICES ASSUME Init PROVE IInv
  OBVIOUS
<1>1. \A p \in Projects : NewestVersion[p] \in Nat \ {0}
  BY ConstantsAssumption
<1>2. NoReceipt \in Receipt /\ Earned(NoReceipt)
  BY DEF NoReceipt, Receipt, Earned, NoHash
<1>3. call = Idle /\ call.stack = <<>>
  BY IdleFacts DEF Init
<1>4. TypesHold
  BY <1>1, <1>2, IdleFacts DEF Init, TypesHold, Files, NoReceipts
<1>5. ReceiptsAreEarned /\ UpdatesAreFound
  BY <1>2, IdleFacts DEF Init, ReceiptsAreEarned, NoReceipts, UpdatesAreFound
<1>6. StageFitsCall /\ DownloadFits /\ BackupIsTaken
  BY <1>3, IdleFacts DEF StageFitsCall, DownloadFits, BackupIsTaken, Downloads, Updating
<1>7. DOMAIN call.stack = {}
  BY <1>3, EmptySeq
<1> QED
  BY <1>4, <1>5, <1>6, <1>7 DEF IInv, StackIsFit, PlacesAreApart

LEMMA StartInv ==
  ASSUME IInv, Start
  PROVE  IInv'
  BY ModrinthInv, CurseForgeInv, CheckInv, UpdateInv, ByHandInv DEF Start

LEMMA StepInv ==
  ASSUME IInv, Step
  PROVE  IInv'
<1>1. CASE DownloadFails
  BY <1>1, FailureInv DEF DownloadFails, Outside
<1>2. CASE ~DownloadFails
  BY <1>2, AttemptInv, CommitInv, VisitInv, StartFileInv, ModrinthReceiptInv, DoneInv,
     CurseForgeReceiptInv, StartUpdateInv, RestoreInv, UpdateReceiptInv, RemovalInv, ClientInv,
     ListInv, InstallNextInv, BetweenInv
     DEF Step
<1> QED
  BY <1>1, <1>2

\* What every proof below rests on: the types, the receipts, the updates, the download
\* and the stack of the call that runs, in every state that a call, an edit or a death
\* of the process may lead to.
THEOREM Invariance == Spec => []IInv
<1>1. IInv /\ [Next]_vars => IInv'
  BY StartInv, StepInv, BetweenInv DEF Next
<1> QED
  BY InitInv, <1>1, PTL DEF Spec

\* Files, receipts and the list of removed client mods stay well formed.
THEOREM TypeCorrect == Spec => []TypeOK
<1>1. Files \subseteq Jars
  <2>1. OwnFile \in Jars
    BY DEF Jars, OwnFile
  <2>2. Known \subseteq Jars
    BY DEF Known, Jars
  <2> QED
    BY <2>1, <2>2 DEF Files, Jars
<1>2. IInv => TypeOK
  BY <1>1 DEF IInv, TypesHold, TypeOK
<1> QED
  BY <1>2, Invariance, PTL

\* A file that the interface shows as a provider's version is that version's file: the
\* receipt's digest was earned by the file it was written for, and a receipt whose
\* digest is another file's does not bind (enrich_mod_info).
THEOREM IdentityHolds == Spec => []IdentityIsEarned
<1>1. ASSUME IInv, NEW n \in Names, files[n] # NoFile,
             Identity(n).provider \in {"modrinth", "curseforge"}, Identity(n).hash # NoHash
      PROVE  files[n].project = Identity(n).project /\ files[n].version = Identity(n).version
  <2> DEFINE r == LoadReceipts[n]
  <2>1. Identity(n) = r /\ Binds(r, files[n])
    BY <1>1 DEF Identity, NoReceipt
  <2>2. r = NoReceipt \/ r = receipts.of[n]
    BY DEF LoadReceipts, NoReceipts
  <2>3. Earned(r)
    BY <1>1, <2>2 DEF IInv, ReceiptsAreEarned, Earned, NoReceipt
  <2> QED
    BY <1>1, <2>1, <2>3 DEF Binds, Earned
<1>2. IInv => IdentityIsEarned
  BY <1>1 DEF IdentityIsEarned
<1> QED
  BY <1>2, Invariance, PTL

\* While an update runs and after it failed, the file it found is still under its own
\* name or in the backup directory (update_one_mod).
THEOREM UpdateKeeps == Spec => []UpdateKeepsACopy
<1>1. IInv => UpdateKeepsACopy
  BY DEF IInv, BackupIsTaken, Updating, UpdateKeepsACopy
<1> QED
  BY <1>1, Invariance, PTL

\* What was placed by an install is not put on its stack again.
LEMMA PlacedStays ==
  ASSUME IInv, [Next]_vars
  PROVE  PlacedIsDone
<1> SUFFICES ASSUME call.op = "modrinth", call'.op = "modrinth", NEW q \in call.visited, ~ToPlace(q)
             PROVE  ~ToPlace(q)'
  BY DEF PlacedIsDone
<1>1. IsCall(call) /\ IsRecord(call) /\ call.stack \in Seq(Task)
  BY DEF IInv, TypesHold, IsCall
<1>2. ASSUME call'.stack = call.stack \/ call'.stack = <<>> PROVE ~ToPlace(q)'
  BY <1>2, EmptySeq DEF ToPlace
<1>3. ASSUME call.stack # <<>>, call'.stack = Tail(call.stack) PROVE ~ToPlace(q)'
  BY <1>1, <1>3, PopFacts DEF ToPlace
<1>4. /\ call' = Answer(TRUE) \/ call' = Answer(FALSE) => call'.stack = <<>>
      /\ call' = NextItem(TRUE) \/ call' = NextItem(FALSE) => call'.stack = call.stack
  <2>1. /\ Answer(TRUE).stack = <<>> /\ Answer(FALSE).stack = <<>>
        /\ NextItem(TRUE).stack = call.stack /\ NextItem(FALSE).stack = call.stack
    BY AnswerFacts, NextItemFacts DEF IInv
  <2> QED
    BY <2>1
<1>5. CASE Start
  BY <1>5
  DEF Start, Begin, InstallModrinthMod, InstallCurseForgeMod, CheckModUpdates, UpdateAllMods,
      UpdateMod, AddMod, RemoveMod, SafeRemoveMod, RemoveAllMods, RemoveClientOnlyMods,
      InstallMissing, AutoFix
<1>6. CASE Publish \/ Spoil \/ Crash \/ Return \/ UNCHANGED vars
  BY <1>2, <1>6, IdleFacts DEF Publish, Spoil, Crash, Return, vars
<1>7. CASE AttemptFails \/ Receive \/ DownloadFails
  <2>1. CASE call' = AfterFailure
    BY <1>2, <1>4, <2>1 DEF AfterFailure
  <2>2. CASE call' # AfterFailure
    BY <1>2, <1>7, <2>2, AttemptFacts DEF DownloadFails
  <2> QED
    BY <2>1, <2>2
<1>8. CASE Commit
  <2>1. CASE call' = NextItem(FALSE)
    BY <1>2, <1>4, <2>1
  <2>2. CASE call' = [call EXCEPT !.stage = call.download.then]
    BY <1>1, <1>2, <2>2, CallFieldsAre DEF IsRecord
  <2> QED
    BY <1>8, <2>1, <2>2 DEF Commit
<1>9. CASE VisitProject
  <2> DEFINE p == Head(call.stack).project
  <2>1. call.stack # <<>> /\ p \in Modrinth
    BY <1>1, <1>9, PopFacts DEF VisitProject, Task
  <2>2. CASE call' = Answer(TRUE)
    BY <1>2, <1>4, <2>2
  <2>3. CASE call' = [call EXCEPT !.stack = Tail(@)]
    BY <1>1, <1>3, <2>1, <2>3, CallFieldsAre DEF IsRecord
  <2> HIDE DEF p
  <2>4. ASSUME p \notin call.visited, NEW work \in Unfold(p),
               call' = [call EXCEPT !.stack = work \o Tail(@), !.visited = Seen(@, p)]
        PROVE  ~ToPlace(q)'
    <3> DEFINE t == Tail(call.stack)
    <3>1. call'.stack = work \o t
      BY <1>1, <2>4, CallFieldsAre DEF IsRecord
    <3>2. /\ work \in Seq(Task) /\ work[Len(work)] = Place(p, published[p])
          /\ \A i \in DOMAIN work : i # Len(work) => \E d \in Named(p) : work[i] = DependencyTask(d)
      BY <2>1, <2>4, UnfoldFacts DEF IInv
    <3>3. \A i \in DOMAIN work : work[i].do = "place" => work[i].project = p
      BY <3>2 DEF Place, DependencyTask, Visit, VisitVersion
    <3>4. /\ t \in Seq(Task)
          /\ \A i \in DOMAIN t : i + 1 \in DOMAIN call.stack /\ t[i] = call.stack[i + 1]
      BY <1>1, <2>1, PopFacts
    <3>5. \A i \in DOMAIN t : ~(t[i].do = "place" /\ t[i].project = q)
      BY <3>4 DEF ToPlace
    <3> HIDE DEF t
    <3>6. \A i \in DOMAIN (work \o t) :
             \/ i \in DOMAIN work /\ (work \o t)[i] = work[i]
             \/ i - Len(work) \in DOMAIN t /\ (work \o t)[i] = t[i - Len(work)]
      BY <3>2, <3>4, PushFacts
    <3> QED
      BY <2>4, <3>1, <3>3, <3>5, <3>6 DEF ToPlace
  <2> QED
    BY <1>9, <2>2, <2>3, <2>4 DEF VisitProject, p
<1>10. CASE StartFile
  BY <1>2, <1>3, <1>10, StartFileFacts
<1>11. CASE ModrinthReceipt
  <2>1. call' = [call EXCEPT !.stage = "stack", !.stack = Tail(@), !.download = NoDownload]
    BY <1>11 DEF ModrinthReceipt
  <2>2. call'.stack = Tail(call.stack)
    BY <1>1, <2>1, CallFieldsAre DEF IsRecord
  <2>3. CASE call.stack # <<>>
    BY <1>3, <2>2, <2>3
  <2>4. CASE call.stack = <<>>
    BY <1>11, <2>4 DEF ModrinthReceipt, IInv, DownloadFits, Downloads
  <2> QED
    BY <2>3, <2>4
<1>12. CASE StackDone \/ ItemsDone \/ AddRename \/ RemoveReceipt \/ SaveClientRemoved
  BY <1>2, <1>4, <1>12 DEF StackDone, ItemsDone, AddRename, RemoveReceipt, SaveClientRemoved
<1>13. CASE RemoveFile
  <2>1. CASE call' = [call EXCEPT !.stage = "unreceipt"]
    BY <1>1, <1>2, <2>1, CallFieldsAre DEF IsRecord
  <2> QED
    BY <1>2, <1>4, <1>13, <2>1 DEF RemoveFile, Go
<1>14. CASE \/ CurseForgeReceipt \/ StartUpdate \/ CopyBack \/ DeleteDestination \/ NextUpdate
            \/ UpdateReceipt \/ RemoveNext \/ RemoveClientMod \/ InstallNext
  BY <1>14
  DEF CurseForgeReceipt, StartUpdate, CopyBack, DeleteDestination, NextUpdate, UpdateReceipt,
      RemoveNext, RemoveClientMod, InstallNext, IInv, StageFitsCall
<1> QED
  BY <1>5, <1>6, <1>7, <1>8, <1>9, <1>10, <1>11, <1>12, <1>13, <1>14 DEF Next, Step

\* One install places each project that it visits once, however the dependencies form
\* cycles and whatever the order in which they are listed (install_modrinth_mod).
THEOREM PlacedOnceHolds == Spec => PlacedOnce
<1>1. IInv' => PlacesAreApart'
  BY DEF IInv
<1>2. IInv /\ IInv' /\ [Next]_vars => [PlacesAreApart' /\ PlacedIsDone]_vars
  BY <1>1, PlacedStays
<1> QED
  BY <1>2, Invariance, PTL DEF Spec, PlacedOnce

----------------------------------------------------------------------------------
(* An install brings what it requires, when no two projects publish under one name. *)

LEMMA OtherCall ==
  ASSUME call'.op # "modrinth"
  PROVE  CInv'
  BY DEF CInv, InstallStages, VisitedIsClosed, InstallIsClosed, Working

LEMMA FailedInstall ==
  ASSUME call'.stage = "answer", call'.failed
  PROVE  CInv'
  BY DEF CInv, InstallStages, VisitedIsClosed, InstallIsClosed, Working, Downloads

LEMMA WorkingInstall ==
  ASSUME call'.op = "modrinth", call'.stage \in Downloads \cup {"stack"}, VisitedIsClosed'
  PROVE  CInv'
  BY DEF CInv, InstallStages, InstallIsClosed, Downloads

\* What is on the stack stays there when the top is taken, but for the top.
LEMMA PopKeeps ==
  ASSUME IInv, call.stack # <<>>, call'.stack = Tail(call.stack)
  PROVE  /\ \A t : Waiting(t) => t = Head(call.stack) \/ Waiting(t)'
         /\ \A q : ToPlace(q) =>
               \/ Head(call.stack).do = "place" /\ Head(call.stack).project = q
               \/ ToPlace(q)'
<1>1. /\ Head(call.stack) = call.stack[1]
      /\ \A i \in DOMAIN call.stack :
            i = 1 \/ (i - 1 \in DOMAIN call'.stack /\ call.stack[i] = call'.stack[i - 1])
  BY PopFacts DEF IInv, TypesHold, IsCall
<1> QED
  BY <1>1 DEF Waiting, ToPlace

\* Names of projects that are apart: a file that arrives replaces none of another.
LEMMA ArrivalKeeps ==
  ASSUME FileNamesAreApart, NEW p \in Projects, NEW name \in NamesOf(p) \cap Names,
         NEW jar, jar.project = p, files \in [Names -> Files],
         files' = [files EXCEPT ![name] = jar]
  PROVE  There(p)' /\ \A q \in Projects : There(q) => There(q)'
<1>1. There(p)'
  BY DEF There
<1>2. ASSUME NEW q \in Projects, q # p, There(q) PROVE There(q)'
  <2>1. PICK n \in NamesOf(q) \cap Names : files[n].project = q
    BY <1>2 DEF There
  <2>2. n # name
    BY <1>2, <2>1 DEF FileNamesAreApart
  <2> QED
    BY <2>1, <2>2 DEF There
<1> QED
  BY <1>1, <1>2

\* An install goes on when nothing that is there, waiting or coming is lost.
LEMMA ClosedStays ==
  ASSUME IInv, CInv, Working, call'.asked = call.asked, call'.visited = call.visited,
         \A q \in Modrinth : Waiting(Visit(q)) => q \in call.visited \/ Waiting(Visit(q))',
         \A q \in Modrinth : There(q) => There(q)',
         \A q \in Modrinth : ToPlace(q) => ToPlace(q)' \/ There(q)',
         \A q \in Modrinth : Waiting(VisitVersion(q, 1)) \/ Coming(q) =>
            There(q)' \/ Waiting(VisitVersion(q, 1))' \/ Coming(q)'
  PROVE  VisitedIsClosed'
<1>1. /\ call.asked \in Modrinth /\ call.visited \subseteq Modrinth
      /\ call.asked \in call.visited \/ Waiting(Visit(call.asked))
      /\ \A q \in call.visited : There(q) \/ ToPlace(q)
      /\ \A q \in call.visited : \A d \in Named(q) :
            IF d.by = "project" THEN d.project \in call.visited \/ Waiting(Visit(d.project))
            ELSE There(d.project) \/ Waiting(VisitVersion(d.project, 1)) \/ Coming(d.project)
  BY DEF CInv, VisitedIsClosed
<1>2. \A q \in call.visited : \A d \in Named(q) : d.project \in Modrinth
  BY <1>1, NamedFacts DEF Projects
<1>3. (call.asked \in call.visited \/ Waiting(Visit(call.asked)))'
  BY <1>1 DEF Waiting
<1>4. \A q \in call'.visited : There(q)' \/ ToPlace(q)'
  BY <1>1
<1>5. ASSUME NEW q \in call'.visited, NEW d \in Named(q)
      PROVE  IF d.by = "project" THEN d.project \in call'.visited \/ Waiting(Visit(d.project))'
             ELSE There(d.project)' \/ Waiting(VisitVersion(d.project, 1))' \/ Coming(d.project)'
  BY <1>1, <1>2
<1> QED
  BY <1>1, <1>3, <1>4, <1>5 DEF VisitedIsClosed

LEMMA StartClosed ==
  ASSUME IInv, Start
  PROVE  CInv'
<1>1. ASSUME NEW p \in Modrinth, InstallModrinthMod(p) PROVE CInv'
  <2> DEFINE c == [Idle EXCEPT !.op = "modrinth", !.stage = "stack", !.asked = p,
                              !.stack = <<Visit(p)>>]
  <2>1. call' = c
    BY <1>1 DEF InstallModrinthMod, Begin
  <2>2. /\ c.op = "modrinth" /\ c.stage = "stack" /\ c.stack = <<Visit(p)>>
        /\ c.asked = p /\ c.visited = {}
    BY IdleFacts, CallFieldsAre DEF IsCall, IsRecord
  <2> HIDE DEF c
  <2>3. Waiting(Visit(p))'
    BY <2>1, <2>2 DEF Waiting
  <2>4. VisitedIsClosed'
    BY <2>1, <2>2, <2>3 DEF VisitedIsClosed
  <2> QED
    BY <2>1, <2>2, <2>4, WorkingInstall
<1>2. ASSUME ~\E p \in Modrinth : InstallModrinthMod(p) PROVE CInv'
  <2>1. /\ \A op, items : Begin(Items(op, items)) => call'.op = op
        /\ \A op, stage, name : Begin(On(op, stage, name)) => call'.op = op
        /\ \A op : \A failed \in BOOLEAN : Begin(AnswerOf(op, failed)) => call'.op = op
    BY ItemsFacts, OnFacts, AnswerOfFacts DEF Begin
  <2>2. CASE \E p \in CurseForge : InstallCurseForgeMod(p)
    <3>1. PICK p \in CurseForge : InstallCurseForgeMod(p)
      BY <2>2
    <3> DEFINE d == Fetch(FileNameOf[p][published[p]], Jar(p, published[p], FALSE),
                          p \notin Unhashed, "receipt")
               c == [Idle EXCEPT !.op = "curseforge", !.stage = "download", !.download = d]
    <3>2. Begin(AnswerOf("curseforge", TRUE)) \/ Begin(c)
      BY <3>1 DEF InstallCurseForgeMod
    <3> HIDE DEF d
    <3>3. c.op = "curseforge"
      BY IdleFacts, CallFieldsAre DEF IsCall, IsRecord
    <3> HIDE DEF c
    <3>4. call'.op = "curseforge"
      BY <2>1, <3>2, <3>3 DEF Begin
    <3> QED
      BY <3>4, OtherCall
  <2>3. CASE CheckModUpdates
    BY <2>1, <2>3, OtherCall DEF CheckModUpdates
  <2>4. CASE UpdateAllMods \/ \E n \in Names : UpdateMod(n)
    <3>1. \E items : Begin(Items("update", items))
      BY <2>4 DEF UpdateAllMods, UpdateMod
    <3> QED
      BY <2>1, <3>1, OtherCall
  <2>5. ASSUME NEW n \in Names, NEW overwrite \in BOOLEAN, NEW whole \in BOOLEAN,
               AddMod(n, overwrite, whole)
        PROVE  CInv'
    <3>1. Begin(AnswerOf("add", TRUE)) \/ Begin(On("add", "copied", n))
      BY <2>5 DEF AddMod
    <3> QED
      BY <2>1, <3>1, OtherCall
  <2>6. ASSUME NEW n \in Names, RemoveMod(n) \/ SafeRemoveMod(n) PROVE CInv'
    <3>1. \/ Begin(On("remove", "remove", n)) \/ Begin(AnswerOf("safe", TRUE))
          \/ Begin(On("safe", "remove", n))
      BY <2>6 DEF RemoveMod, SafeRemoveMod
    <3> QED
      BY <2>1, <3>1, OtherCall
  <2>7. CASE RemoveAllMods
    BY <2>1, <2>7, OtherCall DEF RemoveAllMods
  <2>8. CASE RemoveClientOnlyMods
    <3>1. \E items : Begin(Items("clients", items))
      BY <2>8 DEF RemoveClientOnlyMods
    <3> QED
      BY <2>1, <3>1, OtherCall
  <2>9. CASE InstallMissing(Missing)
    BY <2>1, <2>9, OtherCall DEF InstallMissing
  <2>10. CASE AutoFix
    <3>1. \E items : Begin(Items("autofix", items))
      BY <2>10 DEF AutoFix
    <3> QED
      BY <2>1, <3>1, OtherCall
  <2> QED
    BY <1>2, <2>2, <2>3, <2>4, <2>5, <2>6, <2>7, <2>8, <2>9, <2>10 DEF Start
<1> QED
  BY <1>1, <1>2

\* A step goes on with the call that runs.
LEMMA StepKeepsCall ==
  ASSUME IInv, Step
  PROVE  call'.op \in {call.op, "none"}
<1>1. IsCall(call) /\ IsRecord(call)
  BY DEF IInv, TypesHold, IsCall
<1>2. \A failed \in BOOLEAN : call' \in {Answer(failed), NextItem(failed)} => call'.op = call.op
  BY AnswerFacts, NextItemFacts DEF IInv
<1>3. \A stage : call' = [call EXCEPT !.stage = stage] => call'.op = call.op
  BY <1>1, CallFieldsAre DEF IsRecord
<1>4. CASE AttemptFails \/ Receive \/ DownloadFails
  <2>1. CASE call' = AfterFailure
    BY <1>2, <1>3, <2>1 DEF AfterFailure
  <2>2. CASE call' # AfterFailure
    BY <1>4, <2>2, AttemptFacts DEF DownloadFails
  <2> QED
    BY <2>1, <2>2
<1>5. CASE Commit
  BY <1>2, <1>3, <1>5 DEF Commit
<1>6. CASE VisitProject
  BY <1>1, <1>2, <1>6, CallFieldsAre DEF VisitProject, IsRecord
<1>7. CASE StartFile
  BY <1>7, StartFileFacts
<1>8. CASE ModrinthReceipt
  BY <1>1, <1>8, CallFieldsAre DEF ModrinthReceipt, IsRecord
<1>9. CASE StackDone \/ CurseForgeReceipt \/ ItemsDone \/ AddRename \/ RemoveReceipt
            \/ SaveClientRemoved \/ NextUpdate \/ UpdateReceipt
  BY <1>2, <1>9 DEF StackDone, CurseForgeReceipt, ItemsDone, AddRename, RemoveReceipt,
                    SaveClientRemoved, NextUpdate, UpdateReceipt
<1>10. CASE CopyBack \/ DeleteDestination \/ RemoveFile
  BY <1>2, <1>3, <1>10 DEF CopyBack, DeleteDestination, RemoveFile, Go
<1>11. CASE StartUpdate
  BY <1>1, <1>11, CallFieldsAre DEF StartUpdate, IsRecord
<1>12. CASE RemoveNext
  BY <1>1, <1>2, <1>12, CallFieldsAre DEF RemoveNext, IsRecord
<1>13. CASE RemoveClientMod
  BY <1>1, <1>13, CallFieldsAre DEF RemoveClientMod, IsRecord
<1>14. CASE InstallNext
  BY <1>1, <1>14, CallFieldsAre DEF InstallNext, IsRecord
<1>15. CASE Return
  BY <1>15, IdleFacts DEF Return
<1> QED
  BY <1>4, <1>5, <1>6, <1>7, <1>8, <1>9, <1>10, <1>11, <1>12, <1>13, <1>14, <1>15 DEF Step

LEMMA CommitClosed ==
  ASSUME FileNamesAreApart, IInv, CInv, Commit, call.op = "modrinth"
  PROVE  CInv'
<1> DEFINE d == call.download
<1>1. /\ call.stage = "received" /\ files' = [files EXCEPT ![d.name] = d.jar] /\ Working
      /\ d.jar \in Known /\ d.name \in NamesOf(d.jar.project) \cap Names
      /\ d.then \in {"stack", "receipt"} /\ call' = [call EXCEPT !.stage = d.then]
  BY DEF Commit, IInv, DownloadFits, Downloads, Working
<1>2. PICK p \in Projects : p = d.jar.project
  BY <1>1 DEF Known
<1>3. There(p)' /\ \A q \in Projects : There(q) => There(q)'
  BY <1>1, <1>2, ArrivalKeeps DEF IInv, TypesHold
<1>4. /\ call'.stage = d.then /\ call'.op = "modrinth" /\ call'.asked = call.asked
      /\ call'.visited = call.visited /\ call'.stack = call.stack
  BY <1>1, GoFacts, CallFieldsAre DEF IInv
<1>5. /\ \A t : Waiting(t)' <=> Waiting(t)
      /\ \A q : ToPlace(q)' <=> ToPlace(q)
  BY <1>4 DEF Waiting, ToPlace
<1>6. \A q : Coming(q) => q = p
  BY <1>2 DEF Coming
<1>7. VisitedIsClosed'
  BY <1>1, <1>3, <1>4, <1>5, <1>6, ClosedStays DEF Projects
<1> QED
  BY <1>1, <1>4, <1>7, WorkingInstall DEF Downloads

LEMMA AttemptClosed ==
  ASSUME IInv, CInv, AttemptFails \/ Receive \/ DownloadFails, call.op = "modrinth"
  PROVE  CInv'
<1>1. CASE call' = AfterFailure
  <2>1. call' = Answer(TRUE)
    BY <1>1 DEF AfterFailure
  <2>2. call'.stage = "answer" /\ call'.failed
    BY <2>1, AnswerFacts DEF IInv
  <2> QED
    BY <2>2, FailedInstall
<1>2. CASE call' # AfterFailure
  <2>1. AttemptFails \/ Receive
    BY <1>2 DEF DownloadFails
  <2>2. /\ \A t : Waiting(t)' <=> Waiting(t)
        /\ \A q : ToPlace(q)' <=> ToPlace(q)
        /\ \A q : There(q)' <=> There(q)
        /\ \A q : Coming(q) => Coming(q)'
    BY <1>2, <2>1, AttemptFacts DEF Waiting, ToPlace, There, Coming, Outside
  <2>3. Working
    BY <1>2, <2>1, AttemptFacts DEF Working, Downloads
  <2>4. VisitedIsClosed'
    BY <1>2, <2>1, <2>2, <2>3, AttemptFacts, ClosedStays
  <2> QED
    BY <1>2, <2>1, <2>4, AttemptFacts, WorkingInstall DEF Downloads
<1> QED
  BY <1>1, <1>2

LEMMA VisitClosed ==
  ASSUME IInv, CInv, VisitProject
  PROVE  CInv'
<1> DEFINE task == Head(call.stack)
<1>1. /\ call.stage = "stack" /\ call.stack # <<>> /\ task.do = "visit"
      /\ UNCHANGED files /\ call.op = "modrinth" /\ Working
  BY DEF VisitProject, IInv, StageFitsCall, Working
<1>2. IsCall(call) /\ call.stack \in Seq(Task)
  BY DEF IInv, TypesHold, IsCall
<1>3. /\ task \in Task /\ task.project \in Modrinth /\ Tail(call.stack) \in Seq(Task)
      /\ task = call.stack[1] /\ 1 \in DOMAIN call.stack
  BY <1>1, <1>2, PopFacts DEF Task
<1> PICK p \in Modrinth : p = task.project
  BY <1>3
<1>4. \A q, v : task # VisitVersion(q, v) /\ (task = Visit(q) => q = p)
  BY <1>1 DEF VisitVersion, Visit
<1>5. \A q : There(q)' <=> There(q)
  BY <1>1 DEF There
<1>6. \A q : ~Coming(q)
  BY <1>1 DEF Coming
<1> HIDE DEF task
<1>7. CASE p \in call.visited /\ call' = [call EXCEPT !.stack = Tail(@)]
  <2>1. /\ call'.stack = Tail(call.stack) /\ call'.visited = call.visited
        /\ call'.asked = call.asked /\ call'.op = call.op /\ call'.stage = call.stage
    BY <1>2, <1>7, CallFieldsAre DEF IsCall, IsRecord
  <2>2. /\ \A t : Waiting(t) => t = task \/ Waiting(t)'
        /\ \A q : ToPlace(q) => ToPlace(q)'
    BY <1>1, <2>1, PopKeeps DEF task
  <2>3. VisitedIsClosed'
    BY <1>1, <1>4, <1>5, <1>6, <1>7, <2>1, <2>2, ClosedStays
  <2> QED
    BY <1>1, <2>1, <2>3, WorkingInstall
<1>8. ASSUME p \notin call.visited, NEW work \in Unfold(p),
             call' = [call EXCEPT !.stack = work \o Tail(@), !.visited = Seen(@, p)]
      PROVE  CInv'
  <2>1. /\ call'.stack = work \o Tail(call.stack) /\ call'.visited = call.visited \cup {p}
        /\ call'.asked = call.asked /\ call'.op = call.op /\ call'.stage = call.stage
    BY <1>2, <1>8, CallFieldsAre DEF IsCall, IsRecord, Seen
  <2>2. /\ work \in Seq(Task) /\ Len(work) \in DOMAIN work
        /\ work[Len(work)] = Place(p, published[p])
        /\ \A d \in Named(p) : \E i \in DOMAIN work : work[i] = DependencyTask(d)
    BY <1>3, <1>8, UnfoldFacts DEF IInv
  <2>3. /\ \A i \in DOMAIN work : i \in DOMAIN call'.stack /\ call'.stack[i] = work[i]
        /\ \A i \in DOMAIN Tail(call.stack) :
              /\ i + Len(work) \in DOMAIN call'.stack
              /\ call'.stack[i + Len(work)] = Tail(call.stack)[i]
    <3> DEFINE t == Tail(call.stack)
    <3>1. t \in Seq(Task) /\ call'.stack = work \o t
      BY <1>3, <2>1
    <3> HIDE DEF t
    <3>2. /\ \A i \in DOMAIN work : i \in DOMAIN call'.stack /\ call'.stack[i] = work[i]
          /\ \A i \in DOMAIN t : /\ i + Len(work) \in DOMAIN call'.stack
                                 /\ call'.stack[i + Len(work)] = t[i]
      BY <2>2, <3>1, PushFacts
    <3> QED
      BY <3>2 DEF t
  <2>4. /\ \A i \in DOMAIN call.stack :
              i = 1 \/ (i - 1 \in DOMAIN Tail(call.stack) /\ call.stack[i] = Tail(call.stack)[i - 1])
    BY <1>1, <1>2, PopFacts
  <2>5. /\ \A t : Waiting(t) => t = task \/ Waiting(t)'
        /\ \A q : ToPlace(q) => ToPlace(q)'
    <3>1. ASSUME NEW i \in DOMAIN call.stack
          PROVE  i = 1 \/ \E j \in DOMAIN call'.stack : call'.stack[j] = call.stack[i]
      BY <2>3, <2>4
    <3> QED
      BY <1>1, <1>3, <3>1 DEF Waiting, ToPlace, task
  <2>6. ToPlace(p)'
    BY <2>2, <2>3 DEF ToPlace, Place
  <2>7. \A d \in Named(p) : Waiting(DependencyTask(d))'
    BY <2>2, <2>3 DEF Waiting
  <2>8. /\ call.asked \in Modrinth /\ call.visited \subseteq Modrinth
        /\ call.asked \in call.visited \/ Waiting(Visit(call.asked))
        /\ \A q \in call.visited : There(q) \/ ToPlace(q)
        /\ \A q \in call.visited : \A d \in Named(q) :
              IF d.by = "project" THEN d.project \in call.visited \/ Waiting(Visit(d.project))
              ELSE There(d.project) \/ Waiting(VisitVersion(d.project, 1))
    BY <1>1, <1>6 DEF CInv, VisitedIsClosed
  <2> PICK a \in Modrinth : a = call.asked
    BY <2>8
  <2>9. a \in call'.visited \/ Waiting(Visit(a))'
    BY <1>4, <2>1, <2>5, <2>8
  <2>10. \A q \in call'.visited : There(q)' \/ ToPlace(q)'
    BY <1>5, <2>1, <2>5, <2>6, <2>8
  <2>11. ASSUME NEW q \in call'.visited, NEW d \in Named(q)
         PROVE  IF d.by = "project" THEN d.project \in call'.visited \/ Waiting(Visit(d.project))'
                ELSE There(d.project)' \/ Waiting(VisitVersion(d.project, 1))'
    <3>1. CASE q \in call.visited
      BY <1>4, <1>5, <2>1, <2>5, <2>8, <3>1
    <3>2. CASE q = p
      BY <2>7, <3>2 DEF DependencyTask
    <3> QED
      BY <2>1, <3>1, <3>2
  <2>12. VisitedIsClosed'
    BY <1>3, <2>1, <2>8, <2>9, <2>10, <2>11 DEF VisitedIsClosed
  <2> QED
    BY <1>1, <2>1, <2>12, WorkingInstall
<1>9. CASE call' = Answer(TRUE)
  <2>1. call'.stage = "answer" /\ call'.failed
    BY <1>9, AnswerFacts DEF IInv
  <2> QED
    BY <2>1, FailedInstall
<1> QED
  BY <1>7, <1>8, <1>9 DEF VisitProject, task

LEMMA StartFileClosed ==
  ASSUME IInv, CInv, StartFile
  PROVE  CInv'
<1> DEFINE task == Head(call.stack)
<1> PICK p : p = task.project
  OBVIOUS
<1>1. Working /\ \A q : There(q)' <=> There(q)
  BY StartFileFacts DEF Working, There, Outside
<1>2. \A q : ~Coming(q) /\ task # Visit(q)
  BY StartFileFacts DEF Coming, Visit
<1>3. \A q, v : task = VisitVersion(q, v) => task.do = "version" /\ p = q
  BY DEF VisitVersion
<1>4. CASE task.do = "version"
  <2>1. Coming(p)'
    BY <1>4, StartFileFacts DEF Coming
  <2>2. /\ \A t : Waiting(t) => t = task \/ Waiting(t)'
        /\ \A q : ToPlace(q) => ToPlace(q)'
    BY <1>4, StartFileFacts, PopKeeps
  <2> HIDE DEF task
  <2>3. VisitedIsClosed'
    BY <1>1, <1>2, <1>3, <2>1, <2>2, StartFileFacts, ClosedStays
  <2> QED
    BY <2>3, StartFileFacts, WorkingInstall DEF Downloads
<1>5. CASE task.do = "place"
  <2>1. /\ \A t : Waiting(t) => Waiting(t)'
        /\ \A q : ToPlace(q) => ToPlace(q)'
    BY <1>5, StartFileFacts DEF Waiting, ToPlace
  <2> HIDE DEF task
  <2>2. VisitedIsClosed'
    BY <1>1, <1>2, <2>1, StartFileFacts, ClosedStays
  <2> QED
    BY <2>2, StartFileFacts, WorkingInstall DEF Downloads
<1> QED
  BY <1>4, <1>5, StartFileFacts

LEMMA ModrinthReceiptClosed ==
  ASSUME IInv, CInv, ModrinthReceipt
  PROVE  CInv'
<1> DEFINE task == Head(call.stack)  d == call.download
<1>1. /\ call.op = "modrinth" /\ call.stage = "receipt" /\ UNCHANGED files /\ Working
      /\ call' = [call EXCEPT !.stage = "stack", !.stack = Tail(@), !.download = NoDownload]
  BY DEF ModrinthReceipt, Working, Downloads
<1>2. /\ call.stack # <<>> /\ task.do = "place" /\ task.project = d.jar.project
      /\ d.name \in NamesOf(d.jar.project) \cap Names /\ files[d.name] = d.jar
  BY <1>1 DEF IInv, DownloadFits, Downloads
<1>3. IsCall(call)
  BY DEF IInv, TypesHold
<1>4. /\ call'.op = "modrinth" /\ call'.stage = "stack" /\ call'.stack = Tail(call.stack)
      /\ call'.visited = call.visited /\ call'.asked = call.asked
  BY <1>1, <1>3, CallFieldsAre DEF IsCall, IsRecord
<1>5. \A q : (There(q)' <=> There(q)) /\ (q = task.project => There(q)')
  BY <1>1, <1>2 DEF There
<1>6. \A q, v : ~Coming(q) /\ task # Visit(q) /\ task # VisitVersion(q, v)
  BY <1>1, <1>2 DEF Coming, Visit, VisitVersion
<1>7. /\ \A t : Waiting(t) => t = task \/ Waiting(t)'
      /\ \A q : ToPlace(q) => task.project = q \/ ToPlace(q)'
  BY <1>2, <1>4, PopKeeps
<1> HIDE DEF task
<1>8. VisitedIsClosed'
  BY <1>1, <1>4, <1>5, <1>6, <1>7, ClosedStays
<1> QED
  BY <1>4, <1>8, WorkingInstall

\* With nothing left on the stack, what was visited is there and so is what it needs.
LEMMA StackDoneClosed ==
  ASSUME IInv, CInv, StackDone
  PROVE  CInv'
<1> DEFINE a == call.asked  t == call.visited
<1>1. /\ call.stage = "stack" /\ call.stack = <<>> /\ UNCHANGED files /\ Working
      /\ call.op = "modrinth" /\ call' = Answer(FALSE)
  BY DEF StackDone, IInv, StageFitsCall, Working
<1>2. call'.stage = "answer" /\ call'.op = "modrinth" /\ call'.asked = a
  BY <1>1, AnswerFacts DEF IInv
<1>3. \A q : ~ToPlace(q) /\ ~Waiting(q) /\ ~Coming(q)
  <2>1. DOMAIN call.stack = {}
    BY <1>1, EmptySeq
  <2> QED
    BY <1>1, <2>1 DEF ToPlace, Waiting, Coming
<1>4. /\ a \in t /\ t \subseteq Modrinth
      /\ \A q \in t : There(q)
      /\ \A q \in t : \A d \in Named(q) :
            IF d.by = "project" THEN d.project \in t ELSE There(d.project)
  BY <1>1, <1>3 DEF CInv, VisitedIsClosed
<1> HIDE DEF a, t
<1>5. Closure(a) \subseteq t
  <2>1. t \in SUBSET Projects
    BY <1>4 DEF Projects
  <2>2. Closed(t)
    BY <1>4 DEF Closed, NamedProjects, Named
  <2> QED
    BY <1>4, <2>1, <2>2 DEF Closure
<1>6. \A q \in Needful(a) : There(q)
  BY <1>4, <1>5 DEF Needful
<1>7. \A q \in Needful(a) : \E n \in Names : files'[n].project = q
  BY <1>1, <1>6 DEF There
<1>8. InstallIsClosed'
  BY <1>2, <1>7 DEF InstallIsClosed, Needful, Closure, Closed, NamedProjects, Named
<1> QED
  BY <1>2, <1>8 DEF CInv, InstallStages, VisitedIsClosed, Working, Downloads

\* Nothing happens to an install but its own steps, while it runs.
LEMMA NextClosed ==
  ASSUME FileNamesAreApart, IInv, CInv, [Next]_vars
  PROVE  CInv'
<1>1. CASE Start
  BY <1>1, StartClosed
<1>2. CASE Step
  <2>1. CASE call.op # "modrinth"
    BY <1>2, <2>1, StepKeepsCall, OtherCall
  <2>2. CASE call.op = "modrinth"
    <3>1. call.stage \in Downloads \cup {"stack", "answer"}
      BY <2>2 DEF CInv, InstallStages
    <3>2. \/ AttemptFails \/ Receive \/ DownloadFails \/ Commit
          \/ VisitProject \/ StartFile \/ ModrinthReceipt \/ StackDone \/ Return
      BY <1>2, <2>2, <3>1
         DEF Step, Downloads, CurseForgeReceipt, StartUpdate, CopyBack, DeleteDestination,
             NextUpdate, UpdateReceipt, ItemsDone, AddRename, RemoveFile, RemoveReceipt,
             RemoveNext, RemoveClientMod, SaveClientRemoved, InstallNext
    <3>3. CASE Return
      BY <3>3, IdleFacts, OtherCall DEF Return
    <3> QED
      BY <2>2, <3>2, <3>3, AttemptClosed, CommitClosed, VisitClosed, StartFileClosed,
         ModrinthReceiptClosed, StackDoneClosed
  <2> QED
    BY <2>1, <2>2
<1>3. CASE Crash
  BY <1>3, IdleFacts, OtherCall DEF Crash
<1>4. CASE Publish \/ Spoil \/ UNCHANGED vars
  <2>1. UNCHANGED <<call, files>>
    BY <1>4 DEF Publish, Spoil, vars
  <2> QED
    <3>1. /\ \A t : Waiting(t)' <=> Waiting(t)
          /\ \A q : /\ ToPlace(q)' <=> ToPlace(q)
                    /\ There(q)' <=> There(q)
                    /\ Coming(q)' <=> Coming(q)
      BY <2>1 DEF Waiting, ToPlace, There, Coming
    <3>2. Working => VisitedIsClosed'
      BY <2>1, <3>1, ClosedStays
    <3>3. VisitedIsClosed'
      BY <2>1, <3>2 DEF VisitedIsClosed, Working
    <3>4. InstallStages' /\ InstallIsClosed'
      BY <2>1 DEF CInv, InstallStages, InstallIsClosed
    <3> QED
      BY <3>3, <3>4 DEF CInv
<1> QED
  BY <1>1, <1>2, <1>3, <1>4 DEF Next

\* An install that answers without an error has brought the project and everything it
\* requires, over any dependencies, cycles included, after failed attempts and whatever
\* was installed before. Two projects that publish a file under one name would put one
\* in the place of the other, so that no two do is supposed.
THEOREM InstallCloses == FileNamesAreApart => (Spec => []InstallIsClosed)
<1> SUFFICES ASSUME FileNamesAreApart PROVE Spec => []InstallIsClosed
  OBVIOUS
<1>1. Init => CInv
  BY IdleFacts DEF Init, CInv, InstallStages, VisitedIsClosed, InstallIsClosed, Working
<1>2. IInv /\ CInv /\ [Next]_vars => CInv'
  BY NextClosed
<1>3. CInv => InstallIsClosed
  BY DEF CInv
<1> QED
  BY <1>1, <1>2, <1>3, Invariance, PTL DEF Spec
==================================================================================
