------------------------ MODULE MediaLifecycleProofs ------------------------
(***************************************************************************)
(* Theorems of MediaLifecycle: its types, that nothing outside the trash   *)
(* loses an object, and that the quota holds, for every number of files,   *)
(* requests and tasks.                                                     *)
(*                                                                         *)
(* The argument is about intents.  Whoever is about to remove objects, a   *)
(* delete or the sweep, has seen the file in the trash; from then on it is *)
(* in the trash, gone, or restored.                                        *)
(***************************************************************************)
EXTENDS MediaLifecycle, FiniteSetTheorems, TLAPS

USE ConstantsAssumption DEF Process, Worker

Creating(m) == \E r \in Request : at[r] = "create" /\ memory[r].media = m

\* What a delete or the sweep may purge, and will never be uploaded again.
Purgeable(m) == m \notin fresh /\ ~Creating(m) /\ (m \in restored \/ ~Live(m))

\* A document that is not there, or no more, has no fields left.
AbsentInv == \A m \in Media : Exists(m) \/ doc[m] = NoDocument

\* What is fresh, or being created, has no document.
FreshInv == \A m \in Media : m \in fresh \/ Creating(m) => ~Exists(m)

\* Each upload has a file of its own, and has stored it.
CreateInv ==
    \A r \in Request : at[r] = "create" =>
        /\ memory[r].media \notin fresh
        /\ "original" \in objects[memory[r].media]
        /\ \A q \in Request \ {r} : at[q] = "create" => memory[q].media # memory[r].media

OriginalInv == \A m \in Media : Exists(m) => "original" \in doc[m].keys

PurgeInv ==
    /\ \A p \in Process : at[p] \in {"removeFiles", "deleteOne"} => Purgeable(memory[p].media)
    /\ \A item \in expired : Purgeable(item[1])

\* What a task is about has been uploaded, and the thumbnail it knows of is there.
TaskInv ==
    \A t \in Task : at[t] # "idle" =>
        /\ memory[t].media \notin fresh
        /\ ~Creating(memory[t].media)
        /\ at[t] = "saveReady" \/ "thumbnail" \in memory[t].doc.keys =>
              "thumbnail" \in objects[memory[t].media] \/ Purgeable(memory[t].media)

Inv == /\ AbsentInv /\ FreshInv /\ CreateInv /\ OriginalInv /\ PurgeInv /\ TaskInv
       /\ LiveHasFiles

-----------------------------------------------------------------------------
(* Types                                                                   *)

LEMMA Blanks == NoDocument \in Document /\ Nothing \in Memory
BY DEF NoDocument, Nothing, Document, Memory

PlaceOK == at \in [Process -> Stages] /\ memory \in [Process -> Memory]

\* The three ways in which a process goes on leave its memory well-typed.
LEMMA FinishType == ASSUME PlaceOK, NEW p \in Process, Finish(p) PROVE PlaceOK'
BY Blanks DEF PlaceOK, Finish, Goto, Stages

LEMMA SyncType ==
    ASSUME PlaceOK, NEW p \in Process, NEW days \in SUBSET Day, Sync(p, days) PROVE PlaceOK'
BY FinishType DEF PlaceOK, Sync, Goto, Stages, Memory

LEMMA RememberType ==
    ASSUME PlaceOK, NEW p \in Process, NEW m \in Media, NEW d \in Document,
           NEW stage \in Stages, Remember(p, m, d, stage)
    PROVE PlaceOK'
BY Blanks DEF PlaceOK, Remember, Goto, Memory

\* Every field of a document, and of what is remembered, has its type.
LEMMA Fields ==
    ASSUME TypeOK
    PROVE  /\ \A m \in Media : doc[m] \in Document
           /\ \A p \in Process : /\ memory[p].media \in Media
                                 /\ memory[p].doc \in Document
                                 /\ memory[p].days \in SUBSET Day
                                 /\ memory[p].day \in Day
                                 /\ memory[p].counted \in SUBSET Media
           /\ PlaceOK
BY DEF TypeOK, PlaceOK, Memory

LEMMA MediaInit == Init => TypeOK
<1> SUFFICES ASSUME Init PROVE TypeOK
    OBVIOUS
<1>1. \A m \in Media : NewDocument(m) \in Document
    BY Blanks DEF NewDocument, Document, Variants
<1>5. PICK trashed \in SUBSET Initial :
          doc = [m \in Media |-> IF m \in Initial
                                THEN [NewDocument(m) EXCEPT
                                         !.deletedAt = IF m \in trashed THEN "recent" ELSE "null"]
                                ELSE NoDocument]
    BY DEF Init
<1>6. ASSUME NEW m \in Media
      PROVE  /\ doc[m] \in Document
             /\ doc[m].status = "none" => doc[m].keys = {}
             /\ doc[m].status = "ready" => doc[m].keys = Variants
    <2>1. CASE m \in Initial
        <3> DEFINE new == NewDocument(m)
        <3>1. PICK since \in {"recent", "null"} : doc[m] = [new EXCEPT !.deletedAt = since]
            BY <1>5, <2>1
        <3>2. new \in Document /\ new.status # "none" /\ (new.status = "ready" => new.keys = Variants)
            BY <1>1 DEF NewDocument, NoDocument
        <3> HIDE DEF new
        <3> QED
            BY <3>1, <3>2 DEF Document
    <2>2. CASE m \notin Initial
        <3>1. doc[m] = NoDocument
            BY <1>5, <2>2
        <3> QED
            BY <3>1, Blanks DEF NoDocument
    <2> QED
        BY <2>1, <2>2
<1>2. doc \in [Media -> Document]
    BY <1>5, <1>6
<1>3. \A m \in Media : /\ doc[m].status = "none" => doc[m].keys = {}
                       /\ doc[m].status = "ready" => doc[m].keys = Variants
    BY <1>6
<1>4. \A m \in Media : doc[m].keys \in SUBSET Variants
    BY <1>2 DEF Document
<1>7. /\ objects \in [Media -> SUBSET Variants]
      /\ summary \in [Day -> SUBSET Media]
      /\ at \in [Process -> Stages]
      /\ memory \in [Process -> Memory]
    BY <1>4, Blanks DEF Init, Stages, Shown
<1>8. /\ fresh = Media \ Initial /\ expired = {} /\ restored = {}
      /\ stalls = 0 /\ failures = 0
    BY DEF Init
<1>9. crowded \in BOOLEAN
    BY Zenon DEF Init
<1> QED
    BY <1>2, <1>3, <1>7, <1>8, <1>9 DEF TypeOK

\* Saving keeps the types when what is saved has them.
LEMMA SaveType ==
    ASSUME TypeOK, NEW p \in Process, NEW d \in Document, NEW ds \in SUBSET Day,
           d.status \in {doc[memory[p].media].status, "pending"},
           d.keys = doc[memory[p].media].keys,
           SaveAndSync(p, d, ds)
    PROVE  /\ PlaceOK'
           /\ doc' \in [Media -> Document]
           /\ \A m \in Media : /\ doc'[m].status = "none" => doc'[m].keys = {}
                               /\ doc'[m].status = "ready" => doc'[m].keys = Variants
<1>1. PlaceOK' 
    BY Fields, FinishType, SyncType DEF SaveAndSync
<1> QED
    BY <1>1, Fields DEF SaveAndSync, TypeOK

\* Requests keep the types.
LEMMA RequestType ==
    ASSUME TypeOK, NEW r \in Request, Begin(r) \/ Continue(r) \/ Interrupt(r)
    PROVE  TypeOK'
<1> USE Fields, Blanks DEF bounds, history
<1>1. CASE CheckQuota(r)
    BY <1>1 DEF CheckQuota, TypeOK, Goto, Stages
<1>2. CASE StoreOriginal(r)
    <2>1. PlaceOK'
        BY <1>2, RememberType DEF StoreOriginal, Stages, TypeOK
    <2> QED
        BY <1>2, <2>1 DEF StoreOriginal, PlaceOK, TypeOK, Variants
<1>3. CASE CreateDocument(r)
    <2>1. PICK d \in Day : LET m == memory[r].media
              created == [NewDocument(m) EXCEPT !.day = d]
              failed == [NoDocument EXCEPT !.status = "failed", !.keys = {"original"},
                                           !.attempts = 1, !.day = d]
          IN  \/ /\ doc' = [doc EXCEPT ![m] = created]
                 /\ objects' = [objects EXCEPT ![m] = created.keys]
                 /\ Sync(r, IF created.status = "ready" THEN {d} ELSE {})
              \/ /\ m \notin Video
                 /\ doc' = [doc EXCEPT ![m] = failed]
                 /\ Finish(r)
                 /\ UNCHANGED objects
        BY <1>3 DEF CreateDocument
    <2> DEFINE m == memory[r].media
               created == [NewDocument(m) EXCEPT !.day = d]
               failed == [NoDocument EXCEPT !.status = "failed", !.keys = {"original"},
                                            !.attempts = 1, !.day = d]
    <2>2. PlaceOK'
        BY <2>1, FinishType, SyncType
    <2>3. /\ created \in Document /\ failed \in Document
          /\ created.status = "ready" => created.keys = Variants
          /\ created.status # "none" /\ failed.status = "failed"
        BY DEF NewDocument, NoDocument, Document, Variants
    <2> HIDE DEF created, failed
    <2>4. created.keys \in SUBSET Variants
        BY <2>3 DEF Document
    <2>5. /\ doc' = [doc EXCEPT ![m] = created] \/ doc' = [doc EXCEPT ![m] = failed]
          /\ objects' = [objects EXCEPT ![m] = created.keys] \/ UNCHANGED objects
        BY <2>1 DEF created, failed
    <2> QED
        BY <1>3, <2>2, <2>3, <2>4, <2>5 DEF CreateDocument, PlaceOK, TypeOK
<1>4. CASE ReadForEdit(r)
    BY <1>4, RememberType DEF ReadForEdit, Stages, PlaceOK, TypeOK
<1>5. CASE SaveEdit(r)
    <2>1. PICK d \in Day :
              SaveAndSync(r, IF d = memory[r].doc.day THEN doc[memory[r].media]
                             ELSE [doc[memory[r].media] EXCEPT !.day = d],
                             IF memory[r].doc.status = "ready" THEN {d, memory[r].doc.day} ELSE {})
        BY <1>5 DEF SaveEdit
    <2>2. memory[r].doc.day \in Day
        BY DEF Document
    <2> DEFINE m == memory[r].media
               edited == IF d = memory[r].doc.day THEN doc[m] ELSE [doc[m] EXCEPT !.day = d]
    <2>3. /\ edited \in Document
          /\ edited.status = doc[m].status
          /\ edited.keys = doc[m].keys
        BY DEF Document
    <2> HIDE DEF edited
    <2>4. SaveAndSync(r, edited, IF memory[r].doc.status = "ready" THEN {d, memory[r].doc.day} ELSE {})
        BY <2>1 DEF edited
    <2> QED
        BY <1>5, <2>2, <2>3, <2>4, SaveType DEF SaveEdit, PlaceOK, TypeOK
<1>6. CASE ReadForDelete(r)
    BY <1>6, RememberType DEF ReadForDelete, Stages, PlaceOK, TypeOK
<1>7. CASE SaveTrashed(r)
    <2>1. memory[r].doc.day \in Day
        BY DEF Document
    <2> QED
        BY <1>7, <2>1, SaveType DEF SaveTrashed, Document, PlaceOK, TypeOK
<1>8. CASE RemoveFiles(r)
    BY <1>8 DEF RemoveFiles, Goto, Stages, TypeOK
<1>9. CASE DeleteDocument(r)
    BY <1>9, FinishType DEF DeleteDocument, NoDocument, PlaceOK, TypeOK
<1>10. CASE ReadForRestore(r)
    BY <1>10, RememberType DEF ReadForRestore, Stages, PlaceOK, TypeOK
<1>11. CASE SaveRestored(r)
    <2>1. memory[r].doc.day \in Day
        BY DEF Document
    <2> DEFINE m == memory[r].media
               back == [doc[m] EXCEPT !.deletedAt = "null"]
    <2>2. back \in Document /\ back.status = doc[m].status /\ back.keys = doc[m].keys
        BY DEF Document
    <2>3. /\ SaveAndSync(r, back, IF memory[r].doc.status = "ready" THEN {memory[r].doc.day} ELSE {})
          /\ restored' \in SUBSET Media
        BY <1>11 DEF SaveRestored, TypeOK
    <2> HIDE DEF back
    <2> QED
        BY <1>11, <2>1, <2>2, <2>3, SaveType DEF SaveRestored, PlaceOK, TypeOK
<1>12. CASE Interrupt(r)
    BY <1>12, FinishType DEF Interrupt, PlaceOK, TypeOK
<1>13. CASE ReadForRetry(r)
    BY <1>13, RememberType DEF ReadForRetry, Stages, PlaceOK, TypeOK
<1>14. CASE SaveRetry(r)
    <2> DEFINE m == memory[r].media
               again == [doc[m] EXCEPT !.status = "pending", !.attempts = 0, !.overdue = FALSE]
    <2>1. again \in Document /\ again.status = "pending" /\ again.keys = doc[m].keys
        BY DEF Document
    <2>2. SaveAndSync(r, again, {})
        BY <1>14 DEF SaveRetry
    <2> HIDE DEF again
    <2> QED
        BY <1>14, <2>1, <2>2, SaveType DEF SaveRetry, PlaceOK, TypeOK
<1> QED
    BY <1>1, <1>2, <1>3, <1>4, <1>5, <1>6, <1>7, <1>8, <1>9, <1>10, <1>11, <1>12, <1>13, <1>14
    DEF Begin, Continue

\* The worker keeps the types.
LEMMA WorkerType ==
    ASSUME TypeOK, NEW t \in Task, ProcessVideo(t) \/ VideoThrows(t)
    PROVE  TypeOK'
<1> USE Fields, Blanks DEF bounds, history
<1>1. CASE ClaimNextVideo(t)
    <2>1. PICK m \in Media :
              /\ doc' = [doc EXCEPT ![m].status = "processing", ![m].overdue = FALSE,
                                    ![m].attempts = @ + 1]
              /\ Remember(t, m, doc'[m], "read")
        BY <1>1 DEF ClaimNextVideo
    <2>2. doc'[m] \in Document /\ doc'[m].status = "processing"
        BY <2>1 DEF Document, TypeOK
    <2>3. PlaceOK'
        BY <2>1, <2>2, RememberType DEF Stages
    <2> QED
        BY <1>1, <2>1, <2>2, <2>3 DEF ClaimNextVideo, PlaceOK, TypeOK
<1>2. CASE ReadOriginal(t)
    BY <1>2 DEF ReadOriginal, Goto, Stages, TypeOK
<1>3. CASE WriteThumbnail(t)
    <2>1. [memory[t] EXCEPT !.doc.keys = Variants] \in Memory
        <3> DEFINE read == memory[t].doc
        <3>1. [read EXCEPT !.keys = Variants] \in Document
            BY DEF Document
        <3>2. memory[t] \in Memory
            BY DEF PlaceOK
        <3>3. [memory[t] EXCEPT !.doc = [read EXCEPT !.keys = Variants]] \in Memory
            BY <3>1, <3>2 DEF Memory
        <3> QED
            BY <3>3
    <2>2. PlaceOK'
        BY <1>3, <2>1 DEF WriteThumbnail, Goto, Stages, PlaceOK
    <2> QED
        BY <1>3, <2>2 DEF WriteThumbnail, Variants, PlaceOK, TypeOK
<1>4. CASE SaveReady(t)
    <2>1. memory[t].doc.day \in Day
        BY DEF Document
    <2>2. PlaceOK'
        BY <1>4, <2>1, SyncType DEF SaveReady, Goto, Stages, PlaceOK
    <2> DEFINE m == memory[t].media
    <2>3. CASE Exists(m)
        <3>1. doc' = [doc EXCEPT ![m] = [doc[m] EXCEPT !.status = "ready", !.keys = Variants]]
            BY <1>4, <2>3 DEF SaveReady
        <3>2. [doc[m] EXCEPT !.status = "ready", !.keys = Variants] \in Document
            BY DEF Document
        <3> QED
            BY <1>4, <2>2, <3>1, <3>2 DEF SaveReady, PlaceOK, TypeOK
    <2>4. CASE ~Exists(m)
        BY <1>4, <2>2, <2>4 DEF SaveReady, PlaceOK, TypeOK
    <2> QED
        BY <2>3, <2>4
<1>5. CASE SaveFailure(t)
    <2>1. PlaceOK'
        BY <1>5, FinishType DEF SaveFailure
    <2> DEFINE m == memory[t].media
               read == memory[t].doc
               status == IF read.attempts >= MaxAttempts THEN "failed" ELSE "pending"
               given == [doc[m] EXCEPT !.status = status, !.keys = @ \cup read.keys]
    <2>2. /\ doc' = [doc EXCEPT ![m] = given]
          /\ UNCHANGED <<objects, summary, fresh, expired, bounds, history>>
        BY <1>5 DEF SaveFailure
    <2>3. given \in Document /\ given.status \in {"failed", "pending"}
        BY DEF Document
    <2> HIDE DEF given
    <2> QED
        BY <2>1, <2>2, <2>3 DEF PlaceOK, TypeOK
<1>6. CASE CrashOnDeleted(t)
    BY <1>6 DEF CrashOnDeleted, WorkerGone, Stages, TypeOK
<1>7. CASE VideoThrows(t)
    BY <1>7 DEF VideoThrows, Goto, Stages, TypeOK
<1> QED
    BY <1>1, <1>2, <1>3, <1>4, <1>5, <1>6, <1>7 DEF ProcessVideo

\* So do the daily jobs, restarts, the recomputation of summaries, and time.
LEMMA OtherType ==
    ASSUME TypeOK,
           \/ \E p \in Process : Summarise(p)
           \/ SweepTrash \/ ReadDays \/ RestartWorker
           \/ \E m \in Media : Expire(m) \/ GrowOld(m)
    PROVE  TypeOK'
<1> USE Fields, Blanks DEF bounds, history
<1>1. ASSUME NEW p \in Process, Aggregate(p) PROVE TypeOK'
    <2>1. PlaceOK'
        BY <1>1 DEF Aggregate, Goto, Stages, Memory, Shown, PlaceOK
    <2> QED
        BY <1>1, <2>1 DEF Aggregate, PlaceOK, TypeOK
<1>2. ASSUME NEW p \in Process, SaveSummary(p) PROVE TypeOK'
    <2>1. PlaceOK'
        BY <1>2, SyncType DEF SaveSummary
    <2> QED
        BY <1>2, <2>1 DEF SaveSummary, PlaceOK, TypeOK
<1>3. CASE FindExpired
    <2>1. expired' \subseteq Media \X SUBSET Variants
        BY <1>3 DEF FindExpired, Document
    <2> QED
        BY <1>3, <2>1 DEF FindExpired, Goto, Stages, TypeOK
<1>4. CASE SweepFiles
    <2>1. PICK item \in expired, removed \in SUBSET Variants :
              /\ expired' = expired \ {item}
              /\ objects' = [objects EXCEPT ![item[1]] = @ \ removed]
              /\ Remember("sweep", item[1], NoDocument, "deleteOne")
        BY <1>4 DEF SweepFiles, TypeOK
    <2>2. item[1] \in Media
        BY DEF TypeOK
    <2>3. PlaceOK'
        BY <1>4, <2>1, <2>2, RememberType DEF SweepFiles, Stages
    <2> QED
        BY <1>4, <2>1, <2>2, <2>3 DEF SweepFiles, PlaceOK, TypeOK
<1>5. CASE SweepDocument
    <2>1. PlaceOK'
        BY <1>5, FinishType DEF SweepDocument, Goto, Stages, PlaceOK
    <2> QED
        BY <1>5, <2>1 DEF SweepDocument, NoDocument, PlaceOK, TypeOK
<1>6. CASE ReadDays
    <2>1. PlaceOK'
        BY <1>6, SyncType DEF ReadDays
    <2> QED
        BY <1>6, <2>1 DEF ReadDays, PlaceOK, TypeOK
<1>7. CASE RestartWorker
    BY <1>7 DEF RestartWorker, WorkerGone, Stages, TypeOK
<1>8. ASSUME NEW m \in Media, Expire(m) PROVE TypeOK'
    BY <1>8 DEF Expire, Document, TypeOK
<1>9. ASSUME NEW m \in Media, GrowOld(m) PROVE TypeOK'
    <2>1. doc' \in [Media -> Document]
        <3>1. doc' = [doc EXCEPT ![m] = [doc[m] EXCEPT !.overdue = TRUE]]
            BY <1>9 DEF GrowOld
        <3>2. [doc[m] EXCEPT !.overdue = TRUE] \in Document
            BY DEF Document
        <3> QED
            BY <3>1, <3>2 DEF TypeOK
    <2>2. stalls' \in 0..MaxStalls
        BY <1>9 DEF GrowOld, TypeOK
    <2>3. \A n \in Media : doc'[n].status = doc[n].status /\ doc'[n].keys = doc[n].keys
        BY <1>9 DEF GrowOld, Document
    <2> QED
        BY <1>9, <2>1, <2>2, <2>3 DEF GrowOld, TypeOK
<1> QED
    BY <1>1, <1>2, <1>3, <1>4, <1>5, <1>6, <1>7, <1>8, <1>9 DEF Summarise, SweepTrash

LEMMA TypeStep == TypeOK /\ [Next]_vars => TypeOK'
<1>1. TypeOK /\ UNCHANGED vars => TypeOK'
    BY DEF TypeOK, vars, bounds, history
<1> QED
    BY <1>1, RequestType, WorkerType, OtherType DEF Next

\* Type correctness, for every number of files, days, requests and tasks: what is
\* gone names no object, and what is ready names all of them.
THEOREM MediaTypeCorrect == Spec => []TypeOK
BY MediaInit, TypeStep, PTL DEF Spec

-----------------------------------------------------------------------------
(* Files                                                                   *)

LEMMA Absent == NoDocument.status = "none" /\ NoDocument.deletedAt = "null"
BY DEF NoDocument

\* What the three ways to go on mean for the places of the processes.
LEMMA FinishPlace ==
    ASSUME PlaceOK, NEW p \in Process, Finish(p)
    PROVE  /\ \A q \in Process \ {p} : at'[q] = at[q] /\ memory'[q] = memory[q]
           /\ at'[p] \in {"idle", "done"} /\ (p \in Task => at'[p] = "idle")
BY DEF PlaceOK, Finish, Goto

LEMMA SyncPlace ==
    ASSUME PlaceOK, NEW p \in Process, NEW days \in SUBSET Day, Sync(p, days)
    PROVE  /\ \A q \in Process \ {p} : at'[q] = at[q] /\ memory'[q] = memory[q]
           /\ \/ at'[p] \in {"idle", "done"} /\ (p \in Task => at'[p] = "idle")
              \/ /\ at'[p] = "aggregate"
                 /\ memory'[p].media = memory[p].media
                 /\ memory'[p].doc = memory[p].doc
BY FinishPlace DEF PlaceOK, Sync, Goto, Memory

LEMMA RememberPlace ==
    ASSUME PlaceOK, NEW p \in Process, NEW m, NEW d, NEW stage, Remember(p, m, d, stage)
    PROVE  /\ \A q \in Process \ {p} : at'[q] = at[q] /\ memory'[q] = memory[q]
           /\ at'[p] = stage
           /\ memory'[p].media = m
           /\ memory'[p].doc = d
BY Blanks DEF PlaceOK, Remember, Goto, Memory

\* A process moves on without an intent and without a thumbnail of its own, or
\* the worker is started again.
QuietMove ==
    \/ UNCHANGED <<at, memory>>
    \/ WorkerGone
    \/ \E p \in Process :
          /\ \A q \in Process \ {p} : at'[q] = at[q] /\ memory'[q] = memory[q]
          /\ at'[p] \notin {"create", "removeFiles", "deleteOne", "saveReady"}
          /\ p \in Task => \/ at'[p] = "idle"
                           \/ /\ at[p] # "idle"
                              /\ memory'[p].media = memory[p].media
                              /\ memory'[p].doc = memory[p].doc

LEMMA QuietPlaces ==
    ASSUME TypeOK, QuietMove
    PROVE  /\ \A r \in Request : at'[r] = "create" =>
                 at[r] = "create" /\ memory'[r].media = memory[r].media
           /\ \A p \in Process : at'[p] \in {"removeFiles", "deleteOne"} =>
                 at'[p] = at[p] /\ memory'[p].media = memory[p].media
           /\ \A t \in Task : at'[t] # "idle" =>
                 /\ at[t] # "idle"
                 /\ at'[t] = "saveReady" => at[t] = "saveReady"
                 /\ memory'[t].media = memory[t].media
                 /\ memory'[t].doc = memory[t].doc
<1>1. CASE WorkerGone
    BY <1>1 DEF WorkerGone, TypeOK
<1> QED
    BY <1>1 DEF QuietMove

\* Such a move, and the rewriting of a document that is there, keep the invariant
\* when no file comes out of the trash unnoticed and no object is named that is not
\* there.
LEMMA Rewrite ==
    ASSUME TypeOK, Inv, QuietMove, UNCHANGED <<objects, fresh>>,
           restored \subseteq restored', expired' \subseteq expired,
           NEW m \in Media, NEW d,
           \/ UNCHANGED doc
           \/ /\ Exists(m)
              /\ doc' = [doc EXCEPT ![m] = d]
              /\ d.status # "none" /\ "original" \in d.keys
              /\ d.deletedAt = "null" => Live(m) \/ m \in restored'
              /\ Live(m) /\ m \notin restored => d.keys \subseteq objects[m]
    PROVE  Inv'
<1> USE DEF Inv
<1>1. \A n : Creating(n)' => Creating(n)
    BY QuietPlaces DEF Creating
<1>2. /\ \A n \in Media : Exists(n)' <=> Exists(n)
      /\ \A n \in Media : Live(n)' => Live(n) \/ n \in restored'
    BY DEF Exists, Live, TypeOK
<1>3. \A n \in Media : Purgeable(n) => Purgeable(n)'
    BY <1>1, <1>2 DEF Purgeable
<1>4. AbsentInv' /\ FreshInv' /\ OriginalInv'
    BY <1>1, <1>2 DEF AbsentInv, FreshInv, OriginalInv, Exists, TypeOK
<1>5. LiveHasFiles'
    BY <1>2 DEF LiveHasFiles, Exists, Live, TypeOK
<1>6. CreateInv'
    BY QuietPlaces DEF CreateInv
<1>7. PurgeInv'
    BY <1>3, QuietPlaces, Fields DEF PurgeInv, TypeOK
<1>8. TaskInv'
    BY <1>1, <1>3, QuietPlaces, Fields DEF TaskInv
<1> QED
    BY <1>4, <1>5, <1>6, <1>7, <1>8

\* Taking away the objects and the document of what may be purged keeps it too.
LEMMA Purge ==
    ASSUME TypeOK, Inv, NEW m \in Media, Purgeable(m), UNCHANGED <<fresh, restored>>,
           \A n \in Media \ {m} : doc'[n] = doc[n] /\ objects'[n] = objects[n],
           doc'[m] \in {doc[m], NoDocument},
           expired' \subseteq expired,
           NEW p \in Process \ Task,
           \A q \in Process \ {p} : at'[q] = at[q] /\ memory'[q] = memory[q],
           \/ at'[p] \in {"idle", "done", "sweep"}
           \/ at'[p] \in {"removeFiles", "deleteOne"} /\ memory'[p].media = m
    PROVE  Inv'
<1> USE DEF Inv
<1>1. \A n : Creating(n)' => Creating(n)
    BY DEF Creating
<1>2. \A n \in Media : /\ Exists(n)' => Exists(n) /\ doc'[n] = doc[n]
                       /\ Live(n)' => Live(n)
    BY DEF Exists, Live, NoDocument
<1>3. \A n \in Media : Purgeable(n) => Purgeable(n)'
    BY <1>1, <1>2 DEF Purgeable
<1>4. AbsentInv' /\ FreshInv' /\ OriginalInv'
    BY <1>1, <1>2 DEF AbsentInv, FreshInv, OriginalInv, Exists
<1>5. LiveHasFiles'
    BY <1>2 DEF LiveHasFiles, Purgeable, Live
<1>6. CreateInv'
    BY Fields DEF CreateInv, Purgeable, Creating
<1>7. PurgeInv'
    BY <1>3, Fields DEF PurgeInv, TypeOK
<1>8. TaskInv'
    BY <1>1, <1>3, Fields DEF TaskInv
<1> QED
    BY <1>4, <1>5, <1>6, <1>7, <1>8

\* A move alone.
LEMMA Quiet ==
    ASSUME TypeOK, Inv, QuietMove, UNCHANGED <<doc, objects, fresh, restored>>,
           expired' \subseteq expired
    PROVE  Inv'
BY Rewrite

\* A request saves what it has read, with the objects it names and out of the trash
\* only when that is recorded.
LEMMA Save ==
    ASSUME TypeOK, Inv, NEW r \in Request, NEW d, NEW days \in SUBSET Day,
           SaveAndSync(r, d, days),
           LET m == memory[r].media
           IN  /\ d.status \in {doc[m].status, "pending"} /\ d.keys = doc[m].keys
               /\ \/ d.deletedAt = doc[m].deletedAt
                  \/ d.deletedAt = "recent"
                  \/ Exists(m) => m \in restored',
           restored \subseteq restored', UNCHANGED <<objects, fresh, expired>>
    PROVE  Inv'
<1>1. QuietMove
    BY Fields, FinishPlace, SyncPlace DEF SaveAndSync, QuietMove
<1>2. memory[r].media \in Media
    BY Fields
<1>3. CASE Exists(memory[r].media)
    BY <1>1, <1>2, <1>3, Rewrite DEF SaveAndSync, Inv, OriginalInv, LiveHasFiles, Exists, Live
<1>4. CASE ~Exists(memory[r].media)
    BY <1>1, <1>2, <1>4, Rewrite DEF SaveAndSync
<1> QED
    BY <1>3, <1>4

\* What starts an upload, or an intent to purge.
LEMMA RequestInv ==
    ASSUME TypeOK, Inv, NEW r \in Request, Begin(r) \/ Continue(r) \/ Interrupt(r)
    PROVE  Inv'
<1> USE Fields DEF bounds, history
<1>1. CASE CheckQuota(r)
    <2>1. QuietMove
        BY <1>1 DEF CheckQuota, QuietMove, Goto, TypeOK
    <2> QED
        BY <1>1, <2>1, Quiet DEF CheckQuota
<1>2. CASE StoreOriginal(r)
    <2>1. PICK m \in fresh : /\ fresh' = fresh \ {m}
                             /\ objects' = [objects EXCEPT ![m] = {"original"}]
                             /\ Remember(r, m, NoDocument, "create")
        BY <1>2 DEF StoreOriginal
    <2>2. /\ m \in Media /\ ~Exists(m) /\ ~Purgeable(m)
          /\ UNCHANGED <<doc, expired, restored>>
        BY <1>2 DEF StoreOriginal, TypeOK, Inv, FreshInv, Purgeable
    <2>3. \A n : Creating(n)' => Creating(n) \/ n = m
        BY <2>1, RememberPlace DEF Creating
    <2>4. \A n \in Media : Purgeable(n) => Purgeable(n)'
        BY <2>1, <2>2, <2>3 DEF Purgeable, Exists, Live
    <2>5. AbsentInv' /\ FreshInv' /\ OriginalInv'
        BY <2>1, <2>2, <2>3 DEF Inv, AbsentInv, FreshInv, OriginalInv, Exists
    <2>6. CreateInv'
        BY <2>1, <2>2, RememberPlace DEF Inv, CreateInv, TypeOK
    <2>7. PurgeInv'
        BY <2>1, <2>2, <2>4, RememberPlace DEF Inv, PurgeInv, TypeOK
    <2>8. TaskInv'
        BY <2>1, <2>2, <2>3, <2>4, RememberPlace DEF Inv, TaskInv, TypeOK
    <2>9. LiveHasFiles'
        BY <2>1, <2>2 DEF Inv, LiveHasFiles, Live, Exists, TypeOK
    <2> QED
        BY <2>5, <2>6, <2>7, <2>8, <2>9 DEF Inv
<1>3. CASE CreateDocument(r)
    <2> DEFINE m == memory[r].media
    <2>1. /\ m \in Media /\ m \notin fresh /\ Creating(m) /\ "original" \in objects[m]
          /\ \A q \in Request \ {r} : at[q] = "create" => memory[q].media # m
          /\ UNCHANGED <<fresh, expired, restored>>
        BY <1>3 DEF CreateDocument, Inv, CreateInv, Creating
    <2>2. PICK d : /\ doc' = [doc EXCEPT ![m] = d]
                   /\ d.status # "none" /\ "original" \in d.keys
                   /\ d.keys \subseteq objects'[m]
                   /\ \A n \in Media \ {m} : objects'[n] = objects[n]
                   /\ \A q \in Process \ {r} : at'[q] = at[q] /\ memory'[q] = memory[q]
                   /\ at'[r] \in {"idle", "done", "aggregate"}
        <3>1. PICK d \in Day : LET created == [NewDocument(m) EXCEPT !.day = d]
                                  failed == [NoDocument EXCEPT !.status = "failed",
                                                !.keys = {"original"}, !.attempts = 1, !.day = d]
              IN  \/ /\ doc' = [doc EXCEPT ![m] = created]
                     /\ objects' = [objects EXCEPT ![m] = created.keys]
                     /\ Sync(r, IF created.status = "ready" THEN {d} ELSE {})
                  \/ /\ m \notin Video
                     /\ doc' = [doc EXCEPT ![m] = failed]
                     /\ Finish(r)
                     /\ UNCHANGED objects
            BY <1>3 DEF CreateDocument
        <3> DEFINE created == [NewDocument(m) EXCEPT !.day = d]
                   failed == [NoDocument EXCEPT !.status = "failed",
                                 !.keys = {"original"}, !.attempts = 1, !.day = d]
        <3>2. /\ created.status # "none" /\ "original" \in created.keys
              /\ failed.status = "failed" /\ failed.keys = {"original"}
            BY DEF NewDocument, NoDocument, Variants
        <3>3. /\ \A q \in Process \ {r} : at'[q] = at[q] /\ memory'[q] = memory[q]
              /\ at'[r] \in {"idle", "done", "aggregate"}
            BY <3>1, SyncPlace, FinishPlace
        <3> HIDE DEF created, failed
        <3>4. \/ doc' = [doc EXCEPT ![m] = created] /\ objects' = [objects EXCEPT ![m] = created.keys]
              \/ doc' = [doc EXCEPT ![m] = failed] /\ UNCHANGED objects
            BY <3>1 DEF created, failed
        <3>5. CASE doc' = [doc EXCEPT ![m] = created]
                   /\ objects' = [objects EXCEPT ![m] = created.keys]
            <4>1. created.keys \subseteq objects'[m]
                BY <2>1, <3>5 DEF TypeOK
            <4> QED
                BY <3>2, <3>3, <3>5, <4>1 DEF TypeOK
        <3>6. CASE doc' = [doc EXCEPT ![m] = failed] /\ UNCHANGED objects
            BY <2>1, <3>2, <3>3, <3>6
        <3> QED
            BY <3>4, <3>5, <3>6
    <2>3. \A n : Creating(n)' => Creating(n) /\ n # m
        BY <2>1, <2>2 DEF Creating
    <2>4. \A n \in Media : Purgeable(n) => Purgeable(n)'
        BY <2>1, <2>2, <2>3 DEF Purgeable, Exists, Live, TypeOK
    <2>5. AbsentInv' /\ FreshInv' /\ OriginalInv'
        BY <2>1, <2>2, <2>3 DEF Inv, AbsentInv, FreshInv, OriginalInv, Exists, TypeOK
    <2>6. CreateInv'
        BY <2>1, <2>2, Fields DEF Inv, CreateInv
    <2>7. PurgeInv'
        BY <2>1, <2>2, <2>4, Fields DEF Inv, PurgeInv, TypeOK
    <2>8. TaskInv'
        BY <2>1, <2>2, <2>3, <2>4, Fields DEF Inv, TaskInv
    <2>9. LiveHasFiles'
        BY <2>1, <2>2 DEF Inv, LiveHasFiles, Live, Exists, TypeOK
    <2> QED
        BY <2>5, <2>6, <2>7, <2>8, <2>9 DEF Inv
<1>4. CASE ReadForEdit(r)
    <2>1. QuietMove
        BY <1>4, RememberPlace DEF ReadForEdit, QuietMove
    <2> QED
        BY <1>4, <2>1, Quiet DEF ReadForEdit
<1>5. CASE SaveEdit(r)
    <2> DEFINE m == memory[r].media
    <2>1. PICK d \in Day, days \in SUBSET Day :
              SaveAndSync(r, IF d = memory[r].doc.day THEN doc[m] ELSE [doc[m] EXCEPT !.day = d], days)
        BY <1>5 DEF SaveEdit, Document
    <2> DEFINE edited == IF d = memory[r].doc.day THEN doc[m] ELSE [doc[m] EXCEPT !.day = d]
    <2>2. /\ edited.status = doc[m].status /\ edited.keys = doc[m].keys
          /\ edited.deletedAt = doc[m].deletedAt
        BY DEF Document
    <2> HIDE DEF edited
    <2>3. SaveAndSync(r, edited, days)
        BY <2>1 DEF edited
    <2> QED
        BY <1>5, <2>2, <2>3, Save DEF SaveEdit
<1>6. CASE ReadForDelete(r)
    <2>1. PICK m \in Media :
              /\ Exists(m)
              /\ Remember(r, m, doc[m], IF Live(m) THEN "saveTrashed" ELSE "removeFiles")
        BY <1>6 DEF ReadForDelete
    <2>2. CASE Live(m)
        <3>1. QuietMove
            BY <2>1, <2>2, RememberPlace DEF QuietMove
        <3> QED
            BY <1>6, <3>1, Quiet DEF ReadForDelete
    <2>3. CASE ~Live(m)
        <3>1. Purgeable(m)
            BY <2>1, <2>3 DEF Purgeable, Inv, FreshInv
        <3> QED
            BY <1>6, <2>1, <2>3, <3>1, RememberPlace, Purge DEF ReadForDelete
    <2> QED
        BY <2>2, <2>3
<1>7. CASE SaveTrashed(r)
    <2> DEFINE m == memory[r].media
               trashed == [doc[m] EXCEPT !.deletedAt = "recent"]
    <2>1. /\ trashed.status = doc[m].status /\ trashed.keys = doc[m].keys
          /\ trashed.deletedAt = "recent"
        BY DEF Document
    <2>2. SaveAndSync(r, trashed, {memory[r].doc.day}) /\ {memory[r].doc.day} \in SUBSET Day
        BY <1>7 DEF SaveTrashed, Document
    <2> HIDE DEF trashed
    <2> QED
        BY <1>7, <2>1, <2>2, Save DEF SaveTrashed
<1>8. CASE RemoveFiles(r)
    <2> DEFINE m == memory[r].media
    <2>1. Purgeable(m)
        BY <1>8 DEF RemoveFiles, Inv, PurgeInv
    <2>2. /\ at'[r] = "deleteOne" /\ memory' = memory
          /\ \A q \in Process \ {r} : at'[q] = at[q]
          /\ \A n \in Media \ {m} : objects'[n] = objects[n]
          /\ UNCHANGED <<doc, fresh, restored, expired>>
        BY <1>8 DEF RemoveFiles, Goto, TypeOK
    <2> QED
        BY <2>1, <2>2, Purge
<1>9. CASE DeleteDocument(r)
    <2> DEFINE m == memory[r].media
    <2>1. Purgeable(m)
        BY <1>9 DEF DeleteDocument, Inv, PurgeInv
    <2>2. /\ doc'[m] = NoDocument
          /\ \A n \in Media \ {m} : doc'[n] = doc[n]
          /\ UNCHANGED <<objects, fresh, restored, expired>>
          /\ Finish(r)
        BY <1>9 DEF DeleteDocument, TypeOK
    <2> QED
        BY <2>1, <2>2, FinishPlace, Purge
<1>10. CASE ReadForRestore(r)
    <2>1. QuietMove
        BY <1>10, RememberPlace DEF ReadForRestore, QuietMove
    <2> QED
        BY <1>10, <2>1, Quiet DEF ReadForRestore
<1>11. CASE SaveRestored(r)
    <2> DEFINE m == memory[r].media
               back == [doc[m] EXCEPT !.deletedAt = "null"]
    <2>1. /\ back.status = doc[m].status /\ back.keys = doc[m].keys
          /\ Exists(m) => m \in restored'
          /\ restored \subseteq restored'
        BY <1>11 DEF SaveRestored, Document
    <2>2. PICK days \in SUBSET Day : SaveAndSync(r, back, days)
        BY <1>11 DEF SaveRestored, Document
    <2> HIDE DEF back
    <2> QED
        BY <1>11, <2>1, <2>2, Save DEF SaveRestored
<1>12. CASE Interrupt(r)
    <2>1. QuietMove
        BY <1>12, FinishPlace DEF Interrupt, QuietMove
    <2> QED
        BY <1>12, <2>1, Quiet DEF Interrupt
<1>13. CASE ReadForRetry(r)
    <2>1. QuietMove
        BY <1>13, RememberPlace DEF ReadForRetry, QuietMove
    <2> QED
        BY <1>13, <2>1, Quiet DEF ReadForRetry
<1>14. CASE SaveRetry(r)
    <2> DEFINE m == memory[r].media
               again == [doc[m] EXCEPT !.status = "pending", !.attempts = 0, !.overdue = FALSE]
    <2>1. /\ again.status = "pending" /\ again.keys = doc[m].keys
          /\ again.deletedAt = doc[m].deletedAt
        BY DEF Document
    <2>2. SaveAndSync(r, again, {}) /\ UNCHANGED <<objects, fresh, expired, restored>>
        BY <1>14 DEF SaveRetry
    <2> HIDE DEF again
    <2> QED
        BY <2>1, <2>2, Save
<1> QED
    BY <1>1, <1>2, <1>3, <1>4, <1>5, <1>6, <1>7, <1>8, <1>9, <1>10, <1>11, <1>12, <1>13, <1>14
    DEF Begin, Continue

\* The tasks keep the invariant: what they claim has been uploaded, and what they
\* save names no object they have not written.
LEMMA WorkerInv ==
    ASSUME TypeOK, Inv, NEW t \in Task, ProcessVideo(t) \/ VideoThrows(t)
    PROVE  Inv'
<1> USE Fields DEF bounds, history
<1>1. CASE ClaimNextVideo(t)
    <2>1. PICK m \in Media :
              /\ Claimable(m)
              /\ doc' = [doc EXCEPT ![m].status = "processing", ![m].overdue = FALSE,
                                    ![m].attempts = @ + 1]
              /\ Remember(t, m, doc'[m], "read")
              /\ UNCHANGED <<objects, fresh, expired, restored>>
        BY <1>1 DEF ClaimNextVideo
    <2>2. /\ Exists(m) /\ Live(m)
          /\ m \notin fresh /\ ~Creating(m)
        BY <2>1 DEF Claimable, Live, Inv, FreshInv
    <2>3. /\ doc'[m].status = "processing"
          /\ doc'[m].keys = doc[m].keys
          /\ doc'[m].deletedAt = doc[m].deletedAt
          /\ \A n \in Media \ {m} : doc'[n] = doc[n]
        BY <2>1 DEF TypeOK, Document
    <2>4. /\ \A q \in Process \ {t} : at'[q] = at[q] /\ memory'[q] = memory[q]
          /\ at'[t] = "read" /\ memory'[t].media = m /\ memory'[t].doc = doc'[m]
        BY <2>1, RememberPlace
    <2>5. \A n : Creating(n)' <=> Creating(n)
        BY <2>4 DEF Creating
    <2>6. \A n \in Media : (Exists(n)' <=> Exists(n)) /\ (Live(n)' <=> Live(n))
        BY <2>2, <2>3 DEF Exists, Live
    <2>7. \A n \in Media : Purgeable(n) => Purgeable(n)'
        BY <2>1, <2>5, <2>6 DEF Purgeable
    <2>8. AbsentInv' /\ FreshInv' /\ OriginalInv' /\ LiveHasFiles'
        BY <2>1, <2>2, <2>3, <2>5, <2>6
        DEF Inv, AbsentInv, FreshInv, OriginalInv, LiveHasFiles, Exists
    <2>9. CreateInv'
        BY <2>1, <2>4 DEF Inv, CreateInv
    <2>10. PurgeInv'
        BY <2>1, <2>4, <2>7 DEF Inv, PurgeInv, TypeOK
    <2>11. TaskInv'
        <3>1. "thumbnail" \in doc[m].keys => "thumbnail" \in objects[m] \/ Purgeable(m)
            BY <2>2 DEF Inv, LiveHasFiles, Purgeable
        <3> SUFFICES ASSUME NEW u \in Task, at'[u] # "idle"
                     PROVE  /\ memory'[u].media \notin fresh
                            /\ ~Creating(memory'[u].media)
                            /\ at'[u] = "saveReady" \/ "thumbnail" \in memory'[u].doc.keys =>
                                  \/ "thumbnail" \in objects[memory'[u].media]
                                  \/ Purgeable(memory[u].media)'
            BY <2>1, <2>5 DEF TaskInv
        <3>2. CASE u = t
            BY <2>2, <2>3, <2>4, <2>7, <3>1, <3>2
        <3>3. CASE u # t
            <4>1. at'[u] = at[u] /\ memory'[u] = memory[u]
                BY <2>4, <3>3
            <4> QED
                BY <2>7, <4>1 DEF Inv, TaskInv
        <3> QED
            BY <3>2, <3>3
    <2> QED
        BY <2>8, <2>9, <2>10, <2>11 DEF Inv
<1>2. CASE ReadOriginal(t)
    <2>1. QuietMove
        BY <1>2 DEF ReadOriginal, QuietMove, Goto, TypeOK
    <2> QED
        BY <1>2, <2>1, Quiet DEF ReadOriginal
<1>3. CASE WriteThumbnail(t)
    <2> DEFINE m == memory[t].media
    <2>1. /\ objects' = [objects EXCEPT ![m] = @ \cup {"thumbnail"}]
          /\ m \in Media /\ m \notin fresh /\ ~Creating(m)
          /\ UNCHANGED <<doc, fresh, expired, restored>>
        BY <1>3 DEF WriteThumbnail, Inv, TaskInv
    <2>2. /\ \A q \in Process \ {t} : at'[q] = at[q] /\ memory'[q] = memory[q]
          /\ at'[t] = "saveReady" /\ memory'[t].media = m
        BY <1>3 DEF WriteThumbnail, Goto, TypeOK, Memory
    <2>3. \A n : Creating(n)' <=> Creating(n)
        BY <2>2 DEF Creating
    <2>4. \A n \in Media : Purgeable(n) => Purgeable(n)'
        BY <2>1, <2>3 DEF Purgeable, Exists, Live
    <2>5. \A n \in Media : objects[n] \subseteq objects'[n]
        BY <2>1 DEF TypeOK
    <2>6. AbsentInv' /\ FreshInv' /\ OriginalInv' /\ LiveHasFiles'
        BY <2>1, <2>3, <2>5
        DEF Inv, AbsentInv, FreshInv, OriginalInv, LiveHasFiles, Exists, Live
    <2>7. CreateInv'
        BY <2>1, <2>2, <2>5 DEF Inv, CreateInv
    <2>8. PurgeInv'
        BY <2>1, <2>2, <2>4 DEF Inv, PurgeInv, TypeOK
    <2>9. "thumbnail" \in objects'[m]
        BY <2>1 DEF TypeOK
    <2>10. TaskInv'
        BY <2>1, <2>2, <2>3, <2>4, <2>5, <2>9 DEF Inv, TaskInv
    <2> QED
        BY <2>6, <2>7, <2>8, <2>10 DEF Inv
<1>4. CASE SaveReady(t)
    <2> DEFINE m == memory[t].media
               ready == [doc[m] EXCEPT !.status = "ready", !.keys = Variants]
    <2>1. /\ m \in Media /\ at[t] = "saveReady"
          /\ UNCHANGED <<objects, fresh, expired, restored>>
        BY <1>4 DEF SaveReady
    <2>2. CASE Exists(m)
        <3>1. doc' = [doc EXCEPT ![m] = ready] /\ Sync(t, {memory[t].doc.day})
            BY <1>4, <2>2 DEF SaveReady
        <3>2. /\ ready.status # "none" /\ ready.keys = Variants
              /\ ready.deletedAt = doc[m].deletedAt
            BY DEF Document
        <3>3. QuietMove
            <4>1. {memory[t].doc.day} \in SUBSET Day
                BY DEF Document
            <4> QED
                BY <2>1, <3>1, <4>1, SyncPlace DEF QuietMove
        <3>4. "original" \in Variants
            BY DEF Variants
        <3>5. Live(m) /\ m \notin restored => Variants \subseteq objects[m]
            BY <2>1, <2>2 DEF Inv, TaskInv, Purgeable, LiveHasFiles, OriginalInv, Variants
        <3> HIDE DEF ready
        <3>6. /\ "original" \in ready.keys
              /\ ready.deletedAt = "null" => Live(m)
              /\ Live(m) /\ m \notin restored => ready.keys \subseteq objects[m]
            BY <2>2, <3>2, <3>4, <3>5 DEF Live
        <3> QED
            BY <2>1, <2>2, <3>1, <3>2, <3>3, <3>6, Rewrite
    <2>3. CASE ~Exists(m)
        <3>1. QuietMove /\ UNCHANGED doc
            BY <1>4, <2>3 DEF SaveReady, QuietMove, Goto, TypeOK
        <3> QED
            BY <2>1, <3>1, Quiet
    <2> QED
        BY <2>2, <2>3
<1>5. CASE SaveFailure(t)
    <2> DEFINE m == memory[t].media
               read == memory[t].doc
               status == IF read.attempts >= MaxAttempts THEN "failed" ELSE "pending"
               given == [doc[m] EXCEPT !.status = status, !.keys = @ \cup read.keys]
    <2>1. /\ m \in Media /\ at[t] # "idle" /\ Exists(m)
          /\ doc' = [doc EXCEPT ![m] = given]
          /\ Finish(t)
          /\ UNCHANGED <<objects, fresh, expired, restored>>
        BY <1>5 DEF SaveFailure
    <2>2. QuietMove
        BY <2>1, FinishPlace DEF QuietMove
    <2>3. /\ given.status # "none" /\ given.keys = doc[m].keys \cup read.keys
          /\ given.deletedAt = doc[m].deletedAt
        BY DEF Document
    <2>4. doc[m].keys \subseteq Variants /\ read.keys \subseteq Variants
        BY DEF Document
    <2>5. "original" \in given.keys
        BY <2>1, <2>3 DEF Inv, OriginalInv
    <2>6. Live(m) /\ m \notin restored => given.keys \subseteq objects[m]
        <3>1. Live(m) /\ m \notin restored => doc[m].keys \subseteq objects[m] /\ ~Purgeable(m)
            BY <2>1 DEF Inv, LiveHasFiles, Purgeable
        <3>2. "thumbnail" \in read.keys => "thumbnail" \in objects[m] \/ Purgeable(m)
            BY <2>1 DEF Inv, TaskInv
        <3>3. "original" \in doc[m].keys
            BY <2>1 DEF Inv, OriginalInv
        <3> QED
            BY <2>3, <2>4, <3>1, <3>2, <3>3 DEF Variants
    <2> HIDE DEF given
    <2> QED
        BY <2>1, <2>2, <2>3, <2>5, <2>6, Rewrite DEF Live
<1>6. CASE CrashOnDeleted(t)
    BY <1>6, Quiet DEF CrashOnDeleted, WorkerGone, QuietMove
<1>7. CASE VideoThrows(t)
    <2>1. QuietMove
        BY <1>7 DEF VideoThrows, QuietMove, Goto, TypeOK
    <2> QED
        BY <1>7, <2>1, Quiet DEF VideoThrows
<1> QED
    BY <1>1, <1>2, <1>3, <1>4, <1>5, <1>6, <1>7 DEF ProcessVideo

\* So do the summaries, the daily jobs, restarts and time.
LEMMA OtherInv ==
    ASSUME TypeOK, Inv,
           \/ \E p \in Process : Summarise(p)
           \/ SweepTrash \/ ReadDays \/ RestartWorker
           \/ \E m \in Media : Expire(m) \/ GrowOld(m)
    PROVE  Inv'
<1> USE Fields DEF bounds, history
<1>1. ASSUME NEW p \in Process, Aggregate(p) PROVE Inv'
    <2>1. PICK d \in memory[p].days :
              memory' = [memory EXCEPT ![p].days = @ \ {d}, ![p].day = d, ![p].counted = Shown(d)]
        BY <1>1 DEF Aggregate
    <2>2. /\ \A q \in Process \ {p} : memory'[q] = memory[q]
          /\ memory'[p].media = memory[p].media /\ memory'[p].doc = memory[p].doc
        BY <2>1 DEF TypeOK, Memory
    <2>3. QuietMove
        BY <1>1, <2>2 DEF Aggregate, QuietMove, Goto, TypeOK
    <2> QED
        BY <1>1, <2>3, Quiet DEF Aggregate
<1>2. ASSUME NEW p \in Process, SaveSummary(p) PROVE Inv'
    <2>1. QuietMove
        BY <1>2, SyncPlace DEF SaveSummary, QuietMove
    <2> QED
        BY <1>2, <2>1, Quiet DEF SaveSummary
<1>3. CASE FindExpired
    <2>1. \A m \in Media : doc[m].deletedAt = "expired" => Purgeable(m)
        BY Absent DEF Inv, AbsentInv, FreshInv, Purgeable, Live
    <2>2. /\ \A q \in Process : at'[q] = at[q] \/ (q = "sweep" /\ at'[q] = "sweep")
          /\ UNCHANGED <<doc, objects, fresh, memory, restored>>
        BY <1>3 DEF FindExpired, Goto, TypeOK
    <2>3. \A n : (Creating(n)' <=> Creating(n)) /\ (Purgeable(n)' <=> Purgeable(n))
        BY <2>2 DEF Creating, Purgeable, Live, Exists
    <2>4. \A item \in expired' : item[1] \in Media /\ Purgeable(item[1])
        BY <1>3, <2>1 DEF FindExpired
    <2>5. PurgeInv'
        BY <2>2, <2>3, <2>4 DEF Inv, PurgeInv
    <2>6. AbsentInv' /\ FreshInv' /\ OriginalInv' /\ LiveHasFiles'
        BY <2>2, <2>3 DEF Inv, AbsentInv, FreshInv, OriginalInv, LiveHasFiles, Exists, Live
    <2>7. CreateInv' /\ TaskInv'
        BY <2>2, <2>3 DEF Inv, CreateInv, TaskInv
    <2> QED
        BY <2>5, <2>6, <2>7 DEF Inv
<1>4. CASE SweepFiles
    <2>1. PICK item \in expired, removed \in SUBSET Variants :
              /\ expired' = expired \ {item}
              /\ objects' = [objects EXCEPT ![item[1]] = @ \ removed]
              /\ Remember("sweep", item[1], NoDocument, "deleteOne")
        BY <1>4 DEF SweepFiles, TypeOK
    <2> DEFINE m == item[1]
    <2>2. m \in Media /\ Purgeable(m)
        BY DEF TypeOK, Inv, PurgeInv
    <2>3. /\ "sweep" \in Process \ Task
          /\ \A n \in Media \ {m} : objects'[n] = objects[n]
          /\ UNCHANGED <<doc, fresh, restored>>
        BY <1>4, <2>1 DEF SweepFiles, TypeOK
    <2>4. /\ \A q \in Process \ {"sweep"} : at'[q] = at[q] /\ memory'[q] = memory[q]
          /\ at'["sweep"] = "deleteOne" /\ memory'["sweep"].media = m
        BY <2>1, <2>3, RememberPlace
    <2> QED
        BY <2>1, <2>2, <2>3, <2>4, Purge
<1>5. CASE SweepDocument
    <2> DEFINE m == memory["sweep"].media
    <2>1. /\ "sweep" \in Process \ Task /\ m \in Media
          /\ Purgeable(m)
        BY <1>5 DEF SweepDocument, Inv, PurgeInv
    <2>2. /\ doc'[m] = NoDocument
          /\ \A n \in Media \ {m} : doc'[n] = doc[n]
          /\ UNCHANGED <<objects, fresh, restored, expired>>
        BY <1>5, <2>1 DEF SweepDocument, TypeOK
    <2>3. /\ \A q \in Process \ {"sweep"} : at'[q] = at[q] /\ memory'[q] = memory[q]
          /\ at'["sweep"] \in {"idle", "done", "sweep"}
        BY <1>5, <2>1, FinishPlace DEF SweepDocument, Goto, TypeOK
    <2> QED
        BY <2>1, <2>2, <2>3, Purge
<1>6. CASE ReadDays
    <2>1. PICK days \in SUBSET Day : Sync("reconcile", days)
        BY <1>6 DEF ReadDays
    <2>2. QuietMove
        BY <1>6, <2>1, SyncPlace DEF ReadDays, QuietMove
    <2> QED
        BY <1>6, <2>2, Quiet DEF ReadDays
<1>7. CASE RestartWorker
    BY <1>7, Quiet DEF RestartWorker, WorkerGone, QuietMove
<1>8. ASSUME NEW m \in Media, Expire(m) PROVE Inv'
    <2> DEFINE d == [doc[m] EXCEPT !.deletedAt = "expired"]
    <2>1. doc' = [doc EXCEPT ![m] = d] /\ doc[m].deletedAt = "recent" /\ QuietMove
        BY <1>8 DEF Expire, QuietMove
    <2>2. d.status = doc[m].status /\ d.keys = doc[m].keys /\ d.deletedAt = "expired"
        BY DEF Document
    <2>3. Exists(m) /\ ~Live(m) /\ "original" \in doc[m].keys
        BY <2>1, Absent DEF Inv, AbsentInv, OriginalInv, Live
    <2> HIDE DEF d
    <2> QED
        BY <1>8, <2>1, <2>2, <2>3, Rewrite DEF Expire, Exists
<1>9. ASSUME NEW m \in Media, GrowOld(m) PROVE Inv'
    <2> DEFINE d == [doc[m] EXCEPT !.overdue = TRUE]
    <2>1. doc' = [doc EXCEPT ![m] = d] /\ doc[m].status = "processing" /\ QuietMove
        BY <1>9 DEF GrowOld, QuietMove
    <2>2. d.status = doc[m].status /\ d.keys = doc[m].keys /\ d.deletedAt = doc[m].deletedAt
        BY DEF Document
    <2>3. Exists(m) /\ "original" \in doc[m].keys
        BY <2>1 DEF Inv, OriginalInv, Exists
    <2> HIDE DEF d
    <2>4. Live(m) /\ m \notin restored => d.keys \subseteq objects[m]
        BY <2>2 DEF Inv, LiveHasFiles
    <2>5. UNCHANGED <<objects, fresh, expired, restored>>
        BY <1>9 DEF GrowOld
    <2> QED
        BY <2>1, <2>2, <2>3, <2>4, <2>5, Rewrite DEF Exists, Live
<1> QED
    BY <1>1, <1>2, <1>3, <1>4, <1>5, <1>6, <1>7, <1>8, <1>9 DEF Summarise, SweepTrash

LEMMA InvInit == Init => Inv
<1> SUFFICES ASSUME Init PROVE Inv
    OBVIOUS
<1>1. TypeOK
    BY MediaInit
<1>2. PICK trashed \in SUBSET Initial :
          doc = [m \in Media |-> IF m \in Initial
                                THEN [NewDocument(m) EXCEPT
                                         !.deletedAt = IF m \in trashed THEN "recent" ELSE "null"]
                                ELSE NoDocument]
    BY DEF Init
<1>3. /\ \A p \in Process : at[p] = "idle"
      /\ objects = [m \in Media |-> doc[m].keys]
      /\ fresh = Media \ Initial /\ expired = {}
    BY DEF Init
<1>4. \A m \in Media : m \notin Initial => doc[m] = NoDocument
    BY <1>2
<1>5. \A m \in Initial : Exists(m) /\ "original" \in doc[m].keys
    <2> SUFFICES ASSUME NEW m \in Initial
                 PROVE  doc[m].status # "none" /\ "original" \in doc[m].keys
        BY DEF Exists
    <2> DEFINE new == NewDocument(m)
    <2>1. PICK since \in {"recent", "null"} : doc[m] = [new EXCEPT !.deletedAt = since]
        BY <1>2
    <2>2. /\ new.status # "none" /\ "original" \in new.keys
          /\ new \in [{"status", "deletedAt", "day", "attempts", "overdue", "keys"} -> {new[f] : f \in DOMAIN new}]
        BY DEF NewDocument, NoDocument, Variants
    <2> HIDE DEF new
    <2> QED
        BY <2>1, <2>2
<1>6. AbsentInv /\ FreshInv /\ OriginalInv
    BY <1>3, <1>4, <1>5, Absent DEF AbsentInv, FreshInv, OriginalInv, Creating, Exists
<1>7. CreateInv /\ PurgeInv /\ TaskInv
    BY <1>3 DEF CreateInv, PurgeInv, TaskInv
<1>8. LiveHasFiles
    BY <1>3 DEF LiveHasFiles
<1> QED
    BY <1>6, <1>7, <1>8 DEF Inv

LEMMA InvStep == TypeOK /\ Inv /\ [Next]_vars => Inv'
<1>1. TypeOK /\ Inv /\ UNCHANGED vars => Inv'
    BY Quiet DEF vars, bounds, history, QuietMove
<1> QED
    BY <1>1, RequestInv, WorkerInv, OtherInv DEF Next

\* Outside the trash a file has every object its document names, however many
\* requests, tasks and daily jobs work on it, until somebody restores it.
THEOREM LiveHasFilesAlways == Spec => []LiveHasFiles
<1>1. Inv => LiveHasFiles
    BY DEF Inv
<1> QED
    BY <1>1, InvInit, MediaInit, InvStep, TypeStep, PTL DEF Spec

-----------------------------------------------------------------------------
(* Steps                                                                   *)

\* What has a document keeps it, and every object.
Keeps(m) == Exists(m)' /\ objects[m] \subseteq objects'[m]

LEMMA RequestKeeps ==
    ASSUME TypeOK, Inv, NEW r \in Request, Begin(r) \/ Continue(r) \/ Interrupt(r),
           NEW m \in Media \ restored, Live(m)
    PROVE  Keeps(m)
<1> USE Fields DEF Keeps, history
<1>1. Exists(m) /\ ~Purgeable(m) /\ m \notin fresh /\ ~Creating(m)
    BY DEF Inv, FreshInv, Live, Purgeable
<1>2. CASE UNCHANGED <<doc, objects>>
    BY <1>1, <1>2 DEF Exists
<1>3. ASSUME NEW d, NEW days, d.status \in {doc[memory[r].media].status, "pending"},
             SaveAndSync(r, d, days), UNCHANGED objects
      PROVE  Keeps(m)
    BY <1>1, <1>3 DEF SaveAndSync, Exists, TypeOK
<1>4. CASE StoreOriginal(r)
    BY <1>1, <1>4 DEF StoreOriginal, Exists, TypeOK
<1>5. CASE CreateDocument(r)
    <2>1. memory[r].media # m
        BY <1>1, <1>5 DEF CreateDocument, Creating
    <2> DEFINE u == memory[r].media
    <2>2. doc'[m] = doc[m] /\ objects'[m] = objects[m]
        <3>1. PICK d1, d2, keys : /\ doc' = [doc EXCEPT ![u] = d1] \/ doc' = [doc EXCEPT ![u] = d2]
                                  /\ objects' = [objects EXCEPT ![u] = keys] \/ UNCHANGED objects
            BY <1>5 DEF CreateDocument
        <3> QED
            BY <2>1, <3>1 DEF TypeOK
    <2> QED
        BY <1>1, <2>2 DEF Exists
<1>6. CASE SaveEdit(r)
    <2> DEFINE u == memory[r].media
    <2>1. PICK d \in Day, days \in SUBSET Day :
              SaveAndSync(r, IF d = memory[r].doc.day THEN doc[u] ELSE [doc[u] EXCEPT !.day = d], days)
        BY <1>6 DEF SaveEdit, Document
    <2> DEFINE edited == IF d = memory[r].doc.day THEN doc[u] ELSE [doc[u] EXCEPT !.day = d]
    <2>2. edited.status = doc[u].status
        BY DEF Document
    <2> HIDE DEF edited
    <2>3. SaveAndSync(r, edited, days)
        BY <2>1 DEF edited
    <2> QED
        BY <1>3, <1>6, <2>2, <2>3 DEF SaveEdit
<1>7. CASE SaveTrashed(r)
    <2> DEFINE trashed == [doc[memory[r].media] EXCEPT !.deletedAt = "recent"]
    <2>1. trashed.status = doc[memory[r].media].status
        BY DEF Document
    <2>2. SaveAndSync(r, trashed, {memory[r].doc.day}) /\ UNCHANGED objects
        BY <1>7 DEF SaveTrashed
    <2> HIDE DEF trashed
    <2> QED
        BY <1>3, <2>1, <2>2
<1>8. CASE SaveRestored(r)
    <2> DEFINE back == [doc[memory[r].media] EXCEPT !.deletedAt = "null"]
    <2>1. back.status = doc[memory[r].media].status
        BY DEF Document
    <2>2. PICK days : SaveAndSync(r, back, days) /\ UNCHANGED objects
        BY <1>8 DEF SaveRestored
    <2> HIDE DEF back
    <2> QED
        BY <1>3, <2>1, <2>2
<1>9. CASE RemoveFiles(r)
    <2>1. memory[r].media # m
        BY <1>1, <1>9 DEF RemoveFiles, Inv, PurgeInv
    <2> QED
        BY <1>1, <1>9, <2>1 DEF RemoveFiles, Exists, TypeOK
<1>10. CASE DeleteDocument(r)
    <2>1. memory[r].media # m
        BY <1>1, <1>10 DEF DeleteDocument, Inv, PurgeInv
    <2> QED
        BY <1>1, <1>10, <2>1 DEF DeleteDocument, Exists, TypeOK
<1>11. CASE SaveRetry(r)
    <2> DEFINE again == [doc[memory[r].media] EXCEPT !.status = "pending", !.attempts = 0,
                                                     !.overdue = FALSE]
    <2>1. again.status = "pending"
        BY DEF Document
    <2>2. SaveAndSync(r, again, {}) /\ UNCHANGED objects
        BY <1>11 DEF SaveRetry
    <2> HIDE DEF again
    <2> QED
        BY <1>3, <2>1, <2>2
<1>12. CASE Begin(r) \/ Interrupt(r)
    BY <1>2, <1>12
    DEF Begin, Interrupt, CheckQuota, ReadForEdit, ReadForDelete, ReadForRestore, ReadForRetry
<1> QED
    BY <1>4, <1>5, <1>6, <1>7, <1>8, <1>9, <1>10, <1>11, <1>12 DEF Continue

LEMMA WorkerKeeps ==
    ASSUME TypeOK, Inv,
           \/ \E t \in Task : ProcessVideo(t) \/ VideoThrows(t)
           \/ SweepTrash,
           NEW m \in Media \ restored, Live(m)
    PROVE  Keeps(m)
<1> USE Fields DEF Keeps, history
<1>1. Exists(m) /\ ~Purgeable(m)
    BY DEF Live, Purgeable
<1>2. CASE UNCHANGED <<doc, objects>>
    BY <1>1, <1>2 DEF Exists
<1>3. ASSUME NEW t \in Task, ClaimNextVideo(t) PROVE Keeps(m)
    BY <1>1, <1>3 DEF ClaimNextVideo, Exists, TypeOK, Document
<1>4. ASSUME NEW t \in Task, WriteThumbnail(t) PROVE Keeps(m)
    BY <1>1, <1>4 DEF WriteThumbnail, Exists, TypeOK
<1>5. ASSUME NEW t \in Task, SaveReady(t) PROVE Keeps(m)
    <2> DEFINE u == memory[t].media
               ready == [doc[u] EXCEPT !.status = "ready", !.keys = Variants]
    <2>1. UNCHANGED <<doc, objects>> \/ (doc' = [doc EXCEPT ![u] = ready] /\ UNCHANGED objects)
        BY <1>5 DEF SaveReady
    <2>2. ready.status = "ready"
        BY DEF Document
    <2> HIDE DEF ready
    <2> QED
        BY <1>1, <1>2, <2>1, <2>2 DEF Exists, TypeOK
<1>6. ASSUME NEW t \in Task, SaveFailure(t) PROVE Keeps(m)
    <2> DEFINE u == memory[t].media
               status == IF memory[t].doc.attempts >= MaxAttempts THEN "failed" ELSE "pending"
               given == [doc[u] EXCEPT !.status = status, !.keys = @ \cup memory[t].doc.keys]
    <2>1. doc' = [doc EXCEPT ![u] = given] /\ UNCHANGED objects
        BY <1>6 DEF SaveFailure
    <2>2. given.status # "none"
        BY DEF Document
    <2> HIDE DEF given
    <2> QED
        BY <1>1, <2>1, <2>2 DEF Exists, TypeOK
<1>7. ASSUME NEW t \in Task, ReadOriginal(t) \/ CrashOnDeleted(t) \/ VideoThrows(t) PROVE Keeps(m)
    BY <1>2, <1>7 DEF ReadOriginal, CrashOnDeleted, VideoThrows
<1>8. CASE FindExpired
    BY <1>2, <1>8 DEF FindExpired
<1>9. CASE SweepFiles
    <2>1. PICK item \in expired :
              \E removed : objects' = [objects EXCEPT ![item[1]] = @ \ removed]
        BY <1>9 DEF SweepFiles
    <2>2. item[1] # m
        BY <1>1 DEF Inv, PurgeInv
    <2> QED
        BY <1>1, <1>9, <2>1, <2>2 DEF SweepFiles, Exists, TypeOK
<1>10. CASE SweepDocument
    <2>1. memory["sweep"].media # m
        BY <1>1, <1>10 DEF SweepDocument, Inv, PurgeInv
    <2> QED
        BY <1>1, <1>10, <2>1 DEF SweepDocument, Exists, TypeOK
<1> QED
    BY <1>3, <1>4, <1>5, <1>6, <1>7, <1>8, <1>9, <1>10 DEF ProcessVideo, SweepTrash

LEMMA OtherKeeps ==
    ASSUME TypeOK,
           \/ \E p \in Process : Summarise(p)
           \/ ReadDays \/ RestartWorker
           \/ \E n \in Media : Expire(n) \/ GrowOld(n)
           \/ UNCHANGED vars,
           NEW m \in Media, Live(m)
    PROVE  Keeps(m)
<1> USE Fields DEF Keeps, Live, Exists
<1>1. ASSUME NEW n \in Media, Expire(n) \/ GrowOld(n) PROVE Keeps(m)
    BY <1>1 DEF Expire, GrowOld, TypeOK, Document
<1>2. CASE ReadDays \/ RestartWorker \/ UNCHANGED vars \/ \E p \in Process : Summarise(p)
    BY <1>2 DEF ReadDays, RestartWorker, vars, Summarise, Aggregate, SaveSummary
<1> QED
    BY <1>1, <1>2

\* A delete or the sweep that has read a file in the trash long ago never takes
\* away what is outside it, unless somebody has restored the file.
THEOREM PurgesOnlyTrashAlways == Spec => PurgesOnlyTrash
<1>1. TypeOK /\ Inv /\ [Next]_vars =>
          \A m \in Media \ restored : Live(m) => Exists(m)' /\ objects[m] \subseteq objects'[m]
    BY RequestKeeps, WorkerKeeps, OtherKeeps DEF Next, Keeps
<1> QED
    BY <1>1, InvInit, MediaInit, InvStep, TypeStep, PTL DEF Spec, PurgesOnlyTrash

-----------------------------------------------------------------------------
(* The quota                                                               *)

LiveOnes == {m \in Media : Live(m)}

\* Uploads that do not overlap are one at a time, and there is room for it.
QuotaInv ==
    ~crowded /\ restored = {} =>
        /\ \A r, q \in Uploading : r = q
        /\ IsFiniteSet(LiveOnes)
        /\ Used <= Quota
        /\ Uploading # {} => Used + 1 <= Quota

\* With no more files outside the trash and no more uploads under way the quota holds on.
LEMMA NotMore ==
    ASSUME QuotaInv, LiveOnes' \subseteq LiveOnes, Uploading' \subseteq Uploading,
           crowded' = crowded, restored \subseteq restored'
    PROVE  QuotaInv'
<1> SUFFICES ASSUME ~crowded', restored' = {}
             PROVE  /\ \A r, q \in Uploading' : r = q
                    /\ IsFiniteSet(LiveOnes')
                    /\ Used' <= Quota
                    /\ Uploading' # {} => Used' + 1 <= Quota
    BY DEF QuotaInv
<1>1. /\ \A r, q \in Uploading : r = q
      /\ IsFiniteSet(LiveOnes)
      /\ Used <= Quota
      /\ Uploading # {} => Used + 1 <= Quota
    BY DEF QuotaInv
<1>2. IsFiniteSet(LiveOnes') /\ Cardinality(LiveOnes') <= Cardinality(LiveOnes)
    BY <1>1, FS_Subset
<1>3. Used' = Cardinality(LiveOnes') /\ Used = Cardinality(LiveOnes)
    BY DEF Used, LiveOnes
<1>4. Used \in Nat /\ Used' \in Nat /\ Used' <= Used
    BY <1>1, <1>2, <1>3, FS_CardinalityType
<1> HIDE DEF Uploading, Used, LiveOnes
<1>5. \A a, b, c \in Nat : a <= b /\ b <= c => a <= c /\ (b + 1 <= c => a + 1 <= c)
    OBVIOUS
<1>6. Used' <= Quota /\ (Used + 1 <= Quota => Used' + 1 <= Quota)
    BY <1>1, <1>4, <1>5
<1> QED
    BY <1>1, <1>2, <1>6

\* One document, rewritten, is outside the trash only if it was.
LEMMA Rewritten ==
    ASSUME TypeOK, NEW m \in Media, NEW d, doc' = [doc EXCEPT ![m] = d],
           d.status # "none" /\ d.deletedAt = "null" => Live(m)
    PROVE  LiveOnes' \subseteq LiveOnes
BY DEF LiveOnes, Live, Exists, TypeOK

\* A process moves, and none but an upload moves within an upload.
LEMMA Elsewhere ==
    ASSUME NEW p \in Process, \A q \in Process \ {p} : at'[q] = at[q],
           p \in Request => at'[p] \notin {"store", "create"} \/ at[p] \in {"store", "create"}
    PROVE  Uploading' \subseteq Uploading
<1>1. ASSUME NEW q \in Request, at'[q] \in {"store", "create"} PROVE at[q] \in {"store", "create"}
    <2>1. CASE q = p
        BY <1>1, <2>1
    <2>2. CASE q # p
        BY <1>1, <2>2
    <2> QED
        BY <2>1, <2>2
<1> QED
    BY <1>1 DEF Uploading

\* The request that saves ends its upload, if it is one, and brings nothing back.
LEMMA SaveLess ==
    ASSUME TypeOK, NEW r \in Request, NEW d, NEW days \in SUBSET Day, SaveAndSync(r, d, days),
           Exists(memory[r].media) /\ d.deletedAt = "null" => Live(memory[r].media)
    PROVE  LiveOnes' \subseteq LiveOnes /\ Uploading' \subseteq Uploading
<1> DEFINE m == memory[r].media
<1>0. PlaceOK /\ r \in Process /\ m \in Media
    BY Fields
<1>1. /\ \A q \in Process \ {r} : at'[q] = at[q]
      /\ at'[r] \notin {"store", "create"}
    BY <1>0, FinishPlace, SyncPlace DEF SaveAndSync
<1>2. Uploading' \subseteq Uploading
    BY <1>0, <1>1, Elsewhere
<1>3. CASE Exists(m)
    <2>1. doc' = [doc EXCEPT ![m] = d]
        BY <1>3 DEF SaveAndSync
    <2> QED
        BY <1>0, <1>2, <1>3, <2>1, Rewritten
<1>4. CASE ~Exists(m)
    BY <1>2, <1>4 DEF SaveAndSync, LiveOnes, Live, Exists
<1> QED
    BY <1>3, <1>4

LEMMA RequestQuota ==
    ASSUME TypeOK, Inv, QuotaInv, NEW r \in Request, Begin(r) \/ Continue(r) \/ Interrupt(r)
    PROVE  QuotaInv'
<1> USE DEF bounds, history
<1>0. PlaceOK /\ r \in Process /\ memory[r].media \in Media /\ memory[r].doc \in Document
    BY Fields
<1>1. CASE CheckQuota(r)
    <2>1. /\ Used + 1 <= Quota /\ at[r] = "idle" /\ UNCHANGED <<doc, restored>>
          /\ crowded' = (crowded \/ Uploading # {})
          /\ at' = [at EXCEPT ![r] = "store"]
        BY <1>1 DEF CheckQuota, Goto
    <2> SUFFICES ASSUME ~crowded', restored' = {} PROVE QuotaInv'
        BY DEF QuotaInv
    <2>2. Uploading = {} /\ ~crowded /\ restored = {}
        BY <2>1
    <2>3. \A q \in Request : at'[q] \in {"store", "create"} => q = r
        BY <1>0, <2>1, <2>2 DEF Uploading, PlaceOK
    <2>4. \A p, q \in Uploading' : p = q
        BY <2>3 DEF Uploading
    <2>5. LiveOnes' = LiveOnes /\ Used' = Used
        BY <2>1 DEF LiveOnes, Used, Live, Exists
    <2>6. IsFiniteSet(LiveOnes) /\ Used <= Quota
        BY <2>2 DEF QuotaInv
    <2> HIDE DEF LiveOnes, Used
    <2> QED
        BY <2>1, <2>4, <2>5, <2>6 DEF QuotaInv
<1>2. CASE StoreOriginal(r)
    <2>1. PICK m \in fresh : Remember(r, m, NoDocument, "create")
        BY <1>2 DEF StoreOriginal
    <2>2. \A q \in Process \ {r} : at'[q] = at[q]
        BY <1>0, <2>1, RememberPlace
    <2>3. Uploading' \subseteq Uploading
        BY <1>0, <1>2, <2>2, Elsewhere DEF StoreOriginal
    <2>4. LiveOnes' \subseteq LiveOnes
        BY <1>2 DEF StoreOriginal, LiveOnes, Live, Exists
    <2> QED
        BY <1>2, <2>3, <2>4, NotMore DEF StoreOriginal
<1>3. CASE CreateDocument(r)
    <2> DEFINE m == memory[r].media
    <2>1. PICK days \in SUBSET Day :
             (\E d : doc' = [doc EXCEPT ![m] = d]) /\ (Sync(r, days) \/ Finish(r))
        <3>1. PICK day \in Day :
                 LET created == [NewDocument(m) EXCEPT !.day = day]
                     failed == [NoDocument EXCEPT !.status = "failed", !.keys = {"original"},
                                                  !.attempts = 1, !.day = day]
                 IN  \/ /\ doc' = [doc EXCEPT ![m] = created]
                        /\ Sync(r, IF created.status = "ready" THEN {day} ELSE {})
                     \/ /\ doc' = [doc EXCEPT ![m] = failed]
                        /\ Finish(r)
            BY <1>3 DEF CreateDocument
        <3> DEFINE created == [NewDocument(m) EXCEPT !.day = day]
                   shown == IF created.status = "ready" THEN {day} ELSE {}
        <3>2. CASE doc' = [doc EXCEPT ![m] = created] /\ Sync(r, shown)
            <4>1. shown \in SUBSET Day
                OBVIOUS
            <4> HIDE DEF created, shown
            <4> QED
                BY <3>2, <4>1
        <3>3. CASE Finish(r) /\ \E d : doc' = [doc EXCEPT ![m] = d]
            <4>1. {} \in SUBSET Day
                OBVIOUS
            <4> QED
                BY <3>3, <4>1
        <3> QED
            BY <3>1, <3>2, <3>3
    <2>2. at[r] = "create" /\ UNCHANGED <<crowded, restored>>
        BY <1>3 DEF CreateDocument
    <2>3. (\A q \in Process \ {r} : at'[q] = at[q]) /\ at'[r] \notin {"store", "create"}
        BY <1>0, <2>1, FinishPlace, SyncPlace
    <2> SUFFICES ASSUME ~crowded, restored = {} PROVE QuotaInv'
        BY <2>2 DEF QuotaInv
    <2>4. r \in Uploading
        BY <2>2 DEF Uploading
    <2>5. Uploading = {r} /\ IsFiniteSet(LiveOnes) /\ Used + 1 <= Quota
        BY <2>4 DEF QuotaInv
    <2>6. Uploading' = {}
        BY <2>3, <2>5 DEF Uploading
    <2>7. LiveOnes' \subseteq LiveOnes \cup {m}
        BY <1>0, <2>1 DEF LiveOnes, Live, Exists, TypeOK
    <2>8. /\ IsFiniteSet(LiveOnes \cup {m})
          /\ Cardinality(LiveOnes \cup {m}) = Used \/ Cardinality(LiveOnes \cup {m}) = Used + 1
        BY <2>5, FS_AddElement DEF Used, LiveOnes
    <2>9. IsFiniteSet(LiveOnes') /\ Cardinality(LiveOnes') <= Cardinality(LiveOnes \cup {m})
        BY <2>7, <2>8, FS_Subset
    <2>10. Used' = Cardinality(LiveOnes') /\ Used' \in Nat /\ Used \in Nat
        BY <2>5, <2>9, FS_CardinalityType DEF Used, LiveOnes
    <2>11. Used' <= Quota
        <3> HIDE DEF Used, LiveOnes, m
        <3> QED
            BY <2>5, <2>8, <2>9, <2>10
    <2> QED
        BY <2>6, <2>9, <2>11 DEF QuotaInv
<1>4. CASE ReadForEdit(r) \/ ReadForDelete(r) \/ ReadForRestore(r) \/ ReadForRetry(r)
    <2>1. \E m, d, stage : Remember(r, m, d, stage) /\ stage \notin {"store", "create"}
        BY <1>4 DEF ReadForEdit, ReadForDelete, ReadForRestore, ReadForRetry
    <2>2. (\A q \in Process \ {r} : at'[q] = at[q]) /\ at'[r] \notin {"store", "create"}
        BY <1>0, <2>1, RememberPlace
    <2>3. Uploading' \subseteq Uploading
        BY <1>0, <2>2, Elsewhere
    <2>4. UNCHANGED <<doc, crowded, restored>>
        BY <1>4 DEF ReadForEdit, ReadForDelete, ReadForRestore, ReadForRetry
    <2>5. LiveOnes' \subseteq LiveOnes
        BY <2>4 DEF LiveOnes, Live, Exists
    <2> QED
        BY <2>3, <2>4, <2>5, NotMore
<1>5. CASE SaveEdit(r)
    <2> DEFINE m == memory[r].media
               read == memory[r].doc
    <2>1. PICK day \in Day :
             SaveAndSync(r, IF day = read.day THEN doc[m] ELSE [doc[m] EXCEPT !.day = day],
                            IF read.status = "ready" THEN {day, read.day} ELSE {})
        BY <1>5 DEF SaveEdit
    <2> DEFINE d == IF day = read.day THEN doc[m] ELSE [doc[m] EXCEPT !.day = day]
               days == IF read.status = "ready" THEN {day, read.day} ELSE {}
    <2>2. d.deletedAt = doc[m].deletedAt
        BY <1>0, Fields DEF Document
    <2>3. days \in SUBSET Day
        BY <1>0 DEF Document
    <2>4. SaveAndSync(r, d, days)
        BY <2>1
    <2>5. LiveOnes' \subseteq LiveOnes /\ Uploading' \subseteq Uploading
        <3> HIDE DEF d, days
        <3> QED
            BY <2>2, <2>3, <2>4, SaveLess DEF Live
    <2> QED
        BY <1>5, <2>5, NotMore DEF SaveEdit
<1>6. CASE SaveTrashed(r)
    <2> DEFINE m == memory[r].media
               d == [doc[m] EXCEPT !.deletedAt = "recent"]
    <2>1. d.deletedAt = "recent" /\ {memory[r].doc.day} \in SUBSET Day
        BY <1>0, Fields DEF Document
    <2>2. SaveAndSync(r, d, {memory[r].doc.day})
        BY <1>6 DEF SaveTrashed
    <2>3. LiveOnes' \subseteq LiveOnes /\ Uploading' \subseteq Uploading
        <3> HIDE DEF d
        <3> QED
            BY <2>1, <2>2, SaveLess
    <2> QED
        BY <1>6, <2>3, NotMore DEF SaveTrashed
<1>7. CASE SaveRestored(r)
    <2> DEFINE m == memory[r].media
               days == IF memory[r].doc.status = "ready" THEN {memory[r].doc.day} ELSE {}
    <2>1. CASE Exists(m)
        BY <1>7, <2>1 DEF SaveRestored, QuotaInv
    <2>2. CASE ~Exists(m)
        <3>1. SaveAndSync(r, [doc[m] EXCEPT !.deletedAt = "null"], days)
            BY <1>7 DEF SaveRestored
        <3>2. days \in SUBSET Day
            BY <1>0 DEF Document
        <3>3. LiveOnes' \subseteq LiveOnes /\ Uploading' \subseteq Uploading
            <4> HIDE DEF days
            <4> QED
                BY <2>2, <3>1, <3>2, SaveLess
        <3> QED
            BY <1>7, <2>2, <3>3, NotMore DEF SaveRestored
    <2> QED
        BY <2>1, <2>2
<1>8. CASE SaveRetry(r)
    <2> DEFINE m == memory[r].media
               d == [doc[m] EXCEPT !.status = "pending", !.attempts = 0, !.overdue = FALSE]
    <2>1. d.deletedAt = doc[m].deletedAt
        BY <1>0, Fields DEF Document
    <2>2. SaveAndSync(r, d, {})
        BY <1>8 DEF SaveRetry
    <2>3. LiveOnes' \subseteq LiveOnes /\ Uploading' \subseteq Uploading
        <3> HIDE DEF d
        <3> QED
            BY <2>1, <2>2, SaveLess DEF Live
    <2> QED
        BY <1>8, <2>3, NotMore DEF SaveRetry
<1>9. CASE RemoveFiles(r) \/ Interrupt(r) \/ DeleteDocument(r)
    <2>1. Finish(r) \/ Goto(r, "deleteOne")
        BY <1>9 DEF RemoveFiles, Interrupt, DeleteDocument
    <2>2. (\A q \in Process \ {r} : at'[q] = at[q]) /\ at'[r] \notin {"store", "create"}
        BY <1>0, <2>1, FinishPlace DEF Goto, PlaceOK
    <2>3. Uploading' \subseteq Uploading
        BY <1>0, <2>2, Elsewhere
    <2>4. LiveOnes' \subseteq LiveOnes
        BY <1>0, <1>9, Absent DEF RemoveFiles, Interrupt, DeleteDocument, LiveOnes, Live, Exists, TypeOK
    <2> QED
        BY <1>9, <2>3, <2>4, NotMore DEF RemoveFiles, Interrupt, DeleteDocument
<1> QED
    BY <1>1, <1>2, <1>3, <1>4, <1>5, <1>6, <1>7, <1>8, <1>9 DEF Begin, Continue

LEMMA WorkerQuota ==
    ASSUME TypeOK, QuotaInv, NEW t \in Task, ProcessVideo(t) \/ VideoThrows(t)
    PROVE  QuotaInv'
<1> USE DEF bounds, history
<1> DEFINE m == memory[t].media
<1>0. /\ PlaceOK /\ t \in Process /\ t \notin Request /\ m \in Media
      /\ memory[t].doc \in Document
    BY Fields
<1>1. /\ crowded' = crowded /\ restored' = restored
    BY DEF ProcessVideo, VideoThrows, ClaimNextVideo, ReadOriginal, WriteThumbnail, SaveReady, SaveFailure,
           CrashOnDeleted
<1>2. Uploading' \subseteq Uploading
    <2>1. CASE CrashOnDeleted(t)
        BY <2>1 DEF CrashOnDeleted, WorkerGone, Uploading
    <2>2. CASE ~CrashOnDeleted(t)
        <3>1. \A q \in Process \ {t} : at'[q] = at[q]
            <4>1. CASE ClaimNextVideo(t)
                BY <1>0, <4>1, RememberPlace DEF ClaimNextVideo
            <4>2. CASE ReadOriginal(t) \/ WriteThumbnail(t) \/ VideoThrows(t)
                BY <1>0, <4>2 DEF ReadOriginal, WriteThumbnail, VideoThrows, Goto, PlaceOK
            <4>3. CASE SaveReady(t)
                <5>1. {memory[t].doc.day} \in SUBSET Day
                    BY <1>0 DEF Document
                <5> QED
                    BY <1>0, <4>3, <5>1, SyncPlace DEF SaveReady, Goto, PlaceOK
            <4>4. CASE SaveFailure(t)
                BY <1>0, <4>4, FinishPlace DEF SaveFailure
            <4> QED
                BY <2>2, <4>1, <4>2, <4>3, <4>4 DEF ProcessVideo
        <3> QED
            BY <1>0, <3>1, Elsewhere
    <2> QED
        BY <2>1, <2>2
<1>3. LiveOnes' \subseteq LiveOnes
    <2>1. CASE ClaimNextVideo(t)
        <3>1. PICK n \in Media :
                 /\ Claimable(n)
                 /\ doc' = [doc EXCEPT ![n].status = "processing", ![n].overdue = FALSE,
                                       ![n].attempts = @ + 1]
            BY <2>1 DEF ClaimNextVideo
        <3>2. doc' = [doc EXCEPT ![n] = doc'[n]]
            BY <3>1, Fields DEF TypeOK
        <3>3. Live(n)
            BY <3>1 DEF Claimable
        <3> QED
            BY <3>2, <3>3, Rewritten
    <2>2. CASE SaveReady(t)
        <3>1. CASE Exists(m)
            <4> DEFINE d == [doc[m] EXCEPT !.status = "ready", !.keys = Variants]
            <4>1. doc' = [doc EXCEPT ![m] = d]
                BY <2>2, <3>1 DEF SaveReady
            <4>2. d.deletedAt = doc[m].deletedAt
                BY <1>0, Fields DEF Document
            <4> HIDE DEF d
            <4> QED
                BY <1>0, <3>1, <4>1, <4>2, Rewritten DEF Live
        <3>2. CASE ~Exists(m)
            BY <2>2, <3>2 DEF SaveReady, LiveOnes, Live, Exists
        <3> QED
            BY <3>1, <3>2
    <2>3. CASE SaveFailure(t)
        <3> DEFINE status == IF memory[t].doc.attempts >= MaxAttempts THEN "failed" ELSE "pending"
                   d == [doc[m] EXCEPT !.status = status, !.keys = @ \cup memory[t].doc.keys]
        <3>1. doc' = [doc EXCEPT ![m] = d] /\ Exists(m)
            BY <2>3 DEF SaveFailure
        <3>2. d.deletedAt = doc[m].deletedAt
            BY <1>0, Fields DEF Document
        <3> HIDE DEF d
        <3> QED
            BY <1>0, <3>1, <3>2, Rewritten DEF Live
    <2>4. CASE ReadOriginal(t) \/ WriteThumbnail(t) \/ VideoThrows(t) \/ CrashOnDeleted(t)
        BY <2>4 DEF ReadOriginal, WriteThumbnail, VideoThrows, CrashOnDeleted, LiveOnes, Live, Exists
    <2> QED
        BY <2>1, <2>2, <2>3, <2>4 DEF ProcessVideo
<1> QED
    BY <1>1, <1>2, <1>3, NotMore

LEMMA OtherQuota ==
    ASSUME TypeOK, QuotaInv,
           \/ \E p \in Process : Summarise(p)
           \/ SweepTrash \/ ReadDays \/ RestartWorker
           \/ \E m \in Media : Expire(m) \/ GrowOld(m)
           \/ UNCHANGED vars
    PROVE  QuotaInv'
<1> USE DEF bounds, history
<1>0. PlaceOK /\ \A p \in Process : memory[p].media \in Media /\ memory[p].days \in SUBSET Day
    BY Fields
<1>1. crowded' = crowded /\ restored' = restored
    BY DEF Summarise, Aggregate, SaveSummary, SweepTrash, FindExpired, SweepFiles, SweepDocument, ReadDays,
           RestartWorker, Expire, GrowOld, vars
<1>2. Uploading' \subseteq Uploading
    <2>1. ASSUME NEW p \in Process, Summarise(p) PROVE Uploading' \subseteq Uploading
        <3>1. (\A q \in Process \ {p} : at'[q] = at[q]) /\ at'[p] \notin {"store", "create"}
            BY <1>0, <2>1, SyncPlace DEF Summarise, Aggregate, SaveSummary, Goto, PlaceOK
        <3> QED
            BY <3>1, Elsewhere
    <2>2. CASE SweepTrash
        <3>1. "sweep" \in Process /\ "sweep" \notin Request
            BY <2>2 DEF SweepTrash, FindExpired, SweepFiles, SweepDocument
        <3>2. \A q \in Process \ {"sweep"} : at'[q] = at[q]
            BY <1>0, <2>2, <3>1, RememberPlace, FinishPlace
            DEF SweepTrash, FindExpired, SweepFiles, SweepDocument, Goto, PlaceOK
        <3> QED
            BY <3>1, <3>2, Elsewhere
    <2>3. CASE ReadDays
        <3>1. "reconcile" \in Process /\ "reconcile" \notin Request
            BY <2>3 DEF ReadDays
        <3>2. \A q \in Process \ {"reconcile"} : at'[q] = at[q]
            BY <1>0, <2>3, <3>1, SyncPlace DEF ReadDays
        <3> QED
            BY <3>1, <3>2, Elsewhere
    <2>4. CASE RestartWorker
        BY <2>4 DEF RestartWorker, WorkerGone, Uploading
    <2>5. CASE UNCHANGED vars \/ \E m \in Media : Expire(m) \/ GrowOld(m)
        BY <2>5 DEF Expire, GrowOld, vars, Uploading
    <2> QED
        BY <2>1, <2>2, <2>3, <2>4, <2>5
<1>3. LiveOnes' \subseteq LiveOnes
    <2>1. CASE SweepDocument
        BY <1>0, <2>1, Absent DEF SweepDocument, LiveOnes, Live, Exists, TypeOK
    <2>2. ASSUME NEW m \in Media, Expire(m) \/ GrowOld(m) PROVE LiveOnes' \subseteq LiveOnes
        <3>1. \A n \in Media : /\ doc'[n].status = doc[n].status
                               /\ doc'[n].deletedAt \in {doc[n].deletedAt, "expired"}
            BY <2>2, Fields DEF Expire, GrowOld, Document, TypeOK
        <3> QED
            BY <3>1 DEF LiveOnes, Live, Exists
    <2>3. CASE \/ \E p \in Process : Summarise(p)
               \/ FindExpired \/ SweepFiles \/ ReadDays \/ RestartWorker \/ UNCHANGED vars
        <3>1. doc' = doc
            BY <2>3 DEF Summarise, Aggregate, SaveSummary, FindExpired, SweepFiles, ReadDays, RestartWorker, vars
        <3> QED
            BY <3>1 DEF LiveOnes, Live, Exists
    <2> QED
        BY <2>1, <2>2, <2>3 DEF SweepTrash
<1> QED
    BY <1>1, <1>2, <1>3, NotMore

LEMMA QuotaInit == Init => QuotaInv
<1> SUFFICES ASSUME Init PROVE QuotaInv
    OBVIOUS
<1>1. \A m \in Media : m \notin Initial => doc[m] = NoDocument
    BY DEF Init
<1>2. LiveOnes \in SUBSET Initial
    BY <1>1, Absent DEF LiveOnes, Live, Exists
<1>3. IsFiniteSet(Initial) /\ Quota \in Nat /\ Cardinality(Initial) <= Quota
    OBVIOUS
<1>4. IsFiniteSet(LiveOnes) /\ Cardinality(LiveOnes) <= Cardinality(Initial)
    BY <1>2, <1>3, FS_Subset
<1>5. Used = Cardinality(LiveOnes) /\ Used \in Nat /\ Cardinality(Initial) \in Nat
    BY <1>3, <1>4, FS_CardinalityType DEF Used, LiveOnes
<1>6. Used <= Quota
    <2> HIDE DEF Used, LiveOnes
    <2> QED
        BY <1>3, <1>4, <1>5
<1>7. Uploading = {}
    BY DEF Init, Uploading
<1> QED
    BY <1>4, <1>6, <1>7 DEF QuotaInv

\* lib/storageQuota.js and POST /:slug/media: a timeline holds no more than its quota, although
\* files are edited, trashed, processed and swept meanwhile, as long as no two uploads have
\* been under way together and nothing has come back from the trash.
THEOREM QuotaHoldsAlways == Spec => []QuotaHolds
<1>1. TypeOK /\ Inv /\ QuotaInv /\ [Next]_vars => QuotaInv'
    BY RequestQuota, WorkerQuota, OtherQuota DEF Next
<1>2. QuotaInv => QuotaHolds
    BY DEF QuotaInv, QuotaHolds
<1> QED
    BY <1>1, <1>2, QuotaInit, InvInit, MediaInit, InvStep, TypeStep, PTL DEF Spec
=============================================================================
