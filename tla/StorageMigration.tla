-------------------------- MODULE StorageMigration --------------------------
(***************************************************************************)
(* One storage migration job: the background worker that copies every      *)
(* object of the active provider ("source") to another one ("target"),     *)
(* flips the active provider and, for a move, empties the source.          *)
(*                                                                         *)
(* The worker is one of several actors.  Clients upload and remove files   *)
(* all along, an administrator may cancel, a tick may be cut short by an   *)
(* error or by a restart of the server.  The only atomic steps are the     *)
(* single database writes and the single object operations: an action      *)
(* stands for one awaited call (or several nobody else can tell apart).    *)
(*                                                                         *)
(* Code: lib/storage/migrationWorker.js, lib/storage/worker.js, the cancel *)
(* handler of routes/storage.js.                                           *)
(***************************************************************************)
EXTENDS Integers, FiniteSets

CONSTANTS
    NKeys,            \* storage keys are 1..NKeys, numbered in listing order
    FixedKeys,        \* keys written in place again and again (avatars)
    InitialSource,    \* keys the source holds when the job is created
    InitialTarget,    \* keys the target already holds then
    PageSize,         \* LIST_PAGE_SIZE
    Concurrency,      \* TRANSFER_CONCURRENCY
    MaxAttempts,      \* MAX_ATTEMPTS_PER_FILE
    MaxVerifyPasses,  \* MAX_VERIFY_PASSES
    MaxVersion,       \* bound: how often a fixed key is written
    MaxInterruptions, \* bound: restarts of the server and aborted ticks
    MaxCancels        \* bound: cancel requests

Keys == 1..NKeys

ASSUME ConstantsAssumption ==
    /\ NKeys \in Nat
    /\ FixedKeys \subseteq Keys
    /\ InitialSource \subseteq Keys
    /\ InitialTarget \subseteq Keys
    /\ PageSize \in Nat \ {0}
    /\ Concurrency \in Nat \ {0}
    /\ MaxAttempts \in Nat \ {0}
    /\ MaxVerifyPasses \in Nat
    /\ MaxVersion \in Nat \ {0}
    /\ MaxInterruptions \in Nat
    /\ MaxCancels \in Nat

VARIABLES
    \* the StorageJob document
    status, mode, listCursor, verifyPasses,
    \* its StorageJobFile rows, one per key that was listed
    file, attempts, cleanedUp,
    \* the two StorageProvider documents and the buckets behind them;
    \* object[p][k] is the version of k that p holds, 0 when it has none
    isActive, object,
    \* the application's documents: whether some document refers to k, and how
    \* many times k has been written (a live document expects that version)
    live, version,
    \* web process: cached activeProviderId, and the uploads that have resolved
    \* their provider but not stored their bytes yet
    cached, uploading,
    \* the cancel handlers that have read a cancellable status and will save
    cancelling, cancels,
    \* the worker's memory: where its tick stands, the keys of the batch not yet
    \* copied (or removed), those copied (or removed) but not yet recorded, and
    \* the local variables of the two listing loops
    pc, batch, acted, scan, known, foundNew,
    \* how many times the worker was interrupted (bounded)
    interruptions,
    \* history: a cancel was saved over a status past the point of no return;
    \* the keys the source held when the latest verify pass began
    lateCancel, verified

jobVars    == <<status, mode, listCursor, verifyPasses>>
rowVars    == <<file, attempts, cleanedUp>>
storeVars  == <<isActive, object>>
clientVars == <<live, version, cached, uploading>>
adminVars  == <<cancelling, cancels, lateCancel>>
tickVars   == <<pc, batch, acted, scan, known, foundNew>>
vars == <<jobVars, rowVars, storeVars, clientVars, adminVars, tickVars,
          interruptions, verified>>

-----------------------------------------------------------------------------
(* Types                                                                   *)

Providers   == {"source", "target"}
Cancellable == {"planning", "running", "verifying"}
Terminal    == {"completed", "cancelled", "failed"}
Statuses    == Cancellable \cup Terminal \cup {"cutover", "cleanup", "cancelling"}
Cursors     == 0..NKeys          \* 0 stands for a null cursor
Versions    == 0..MaxVersion

\* Where a tick stands: the names are those of the functions of the worker.
Stages == {"idle",
           "enumerateSource", "saveCursor", "leavePlanning",
           "isCancelRequested", "findPending", "transferOne", "leaveRunning",
           "runVerifying", "relist", "leaveVerifying",
           "deactivateSource", "activateTarget", "leaveCutover",
           "runCleanup", "removeFromSource",
           "runCancelling", "removeFromTarget"}

\* Type invariant.  Beyond the types it bounds the job's counters: a file is tried
\* at most MaxAttempts times (transferOne) and the source is listed again at most
\* MaxVerifyPasses times (runVerifying).
TypeOK ==
    /\ status \in Statuses
    /\ mode \in {"move", "copy"}
    /\ listCursor \in Cursors
    /\ verifyPasses \in 0..MaxVerifyPasses
    /\ file \in [Keys -> {"none", "pending", "done", "failed"}]
    /\ attempts \in [Keys -> 0..MaxAttempts]
    /\ cleanedUp \in [Keys -> BOOLEAN]
    /\ isActive \in [Providers -> BOOLEAN]
    /\ object \in [Providers -> [Keys -> Versions]]
    /\ live \in [Keys -> BOOLEAN]
    /\ version \in [Keys -> Versions]
    /\ cached \in Providers \cup {"none"}
    /\ uploading \in [Keys -> Providers \cup {"none"}]
    /\ cancelling \in Nat
    /\ cancels \in 0..MaxCancels
    /\ lateCancel \in BOOLEAN
    /\ pc \in Stages
    /\ batch \in SUBSET Keys
    /\ acted \in SUBSET Keys
    /\ scan \in Cursors
    /\ known \in SUBSET Keys
    /\ foundNew \in BOOLEAN
    /\ interruptions \in 0..MaxInterruptions
    /\ verified \in SUBSET Keys

-----------------------------------------------------------------------------
(* A job has just been created by the activate handler: its source is the  *)
(* active provider, and every live document's file is there.               *)

Init ==
    /\ status = "planning"
    /\ mode \in {"move", "copy"}
    /\ listCursor = 0
    /\ verifyPasses = 0
    /\ file = [k \in Keys |-> "none"]
    /\ attempts = [k \in Keys |-> 0]
    /\ cleanedUp = [k \in Keys |-> FALSE]
    /\ isActive = [p \in Providers |-> p = "source"]
    /\ object = [p \in Providers |-> [k \in Keys |->
                    IF k \in (IF p = "source" THEN InitialSource ELSE InitialTarget)
                    THEN 1 ELSE 0]]
    /\ live = [k \in Keys |-> k \in InitialSource]
    /\ version = [k \in Keys |-> IF k \in InitialSource \cup InitialTarget THEN 1 ELSE 0]
    /\ cached \in {"none", "source"}
    /\ uploading = [k \in Keys |-> "none"]
    /\ cancelling = 0
    /\ cancels = 0
    /\ lateCancel = FALSE
    /\ pc = "idle"
    /\ batch = {}
    /\ acted = {}
    /\ scan = 0
    /\ known = {}
    /\ foundNew = FALSE
    /\ interruptions = 0
    /\ verified = {}

-----------------------------------------------------------------------------
(* Helpers                                                                 *)

Held(p)   == {k \in Keys : object[p][k] # 0}
Rows(s)   == {k \in Keys : file[k] = s}
Tracked   == {k \in Keys : file[k] # "none"}

\* Mutant: the filter on status "done" is forgotten.
UncleanedAnyStatus == {k \in Tracked : ~cleanedUp[k]}

\* Rows runCleanup and runCancelling still have to handle.
Uncleaned == {k \in Rows("done") : ~cleanedUp[k]}

\* driver.list({ cursor, limit }): the first PageSize keys after the cursor,
Page(p, c) ==
    {k \in Held(p) : k > c /\ Cardinality({j \in Held(p) : c < j /\ j < k}) < PageSize}

\* and the cursor of the next page: the last key listed, or null (0) when
\* nothing is left behind it.
LastOfPage(p, c, m) ==
    /\ m \in Page(p, c)
    /\ \A k \in Page(p, c) : k <= m
    /\ \E k \in Held(p) : m < k

\* Mutant: the next page starts behind the first key it should hold.
NextCursorSkips(p, c) ==
    IF \E m \in Keys : LastOfPage(p, c, m)
    THEN (CHOOSE m \in Keys : LastOfPage(p, c, m)) + 1
    ELSE 0

NextCursor(p, c) ==
    IF \E m \in Keys : LastOfPage(p, c, m)
    THEN CHOOSE m \in Keys : LastOfPage(p, c, m)
    ELSE 0

\* bulkWrite of upserts with $setOnInsert: only keys without a row get one.
InsertRows(keys) ==
    file' = [k \in Keys |-> IF k \in keys /\ file[k] = "none" THEN "pending" ELSE file[k]]

\* find(...).limit(TRANSFER_CONCURRENCY): any rows that match, as many as fit.
Limit(rows) ==
    {b \in SUBSET rows : \/ Cardinality(b) = Concurrency
                         \/ b = rows /\ Cardinality(rows) < Concurrency}

-----------------------------------------------------------------------------
(* The worker: one tick dispatches on the status it has just read, and     *)
(* keeps nothing in memory when it returns.                                *)

EndTick ==
    /\ pc' = "idle"
    /\ batch' = {}
    /\ acted' = {}
    /\ scan' = 0
    /\ known' = {}
    /\ foundNew' = FALSE

\* runMigrationTick: the step for each status.
Dispatch == {<<"planning",   "enumerateSource">>,
             <<"running",    "isCancelRequested">>,
             <<"verifying",  "runVerifying">>,
             <<"cutover",    "deactivateSource">>,
             <<"cleanup",    "runCleanup">>,
             <<"cancelling", "runCancelling">>}

\* tick() finds the job, whose status is not terminal.
Tick ==
    /\ pc = "idle"
    /\ status \notin Terminal
    /\ \E stage \in Stages : <<status, stage>> \in Dispatch /\ pc' = stage
    /\ scan' = IF status = "planning" THEN listCursor ELSE 0
    /\ UNCHANGED <<jobVars, rowVars, storeVars, clientVars, adminVars,
                   batch, acted, known, foundNew, interruptions, verified>>

\* enumerateSource: list one page and upsert its rows.
EnumerateSource ==
    /\ pc = "enumerateSource"
    /\ InsertRows(Page("source", scan))
    /\ scan' = NextCursor("source", scan)
    /\ pc' = "saveCursor"
    /\ UNCHANGED <<jobVars, attempts, cleanedUp, storeVars, clientVars, adminVars,
                   batch, acted, known, foundNew, interruptions, verified>>

\* enumerateSource: save the cursor; a page may be the last of the source, or
\* the last one the tick's budget allows.
SaveCursor ==
    /\ pc = "saveCursor"
    /\ listCursor' = scan
    /\ \/ /\ scan = 0
          /\ pc' = "leavePlanning"
          /\ UNCHANGED <<batch, acted, scan, known, foundNew>>
       \/ /\ scan # 0
          /\ pc' = "enumerateSource"
          /\ UNCHANGED <<batch, acted, scan, known, foundNew>>
       \/ /\ scan # 0
          /\ EndTick
    /\ UNCHANGED <<status, mode, verifyPasses, rowVars, storeVars, clientVars, adminVars,
                   interruptions, verified>>

\* runPlanning: whatever the status is by now, it becomes "running".
LeavePlanning ==
    /\ pc = "leavePlanning"
    /\ status' = "running"
    /\ listCursor' = 0
    /\ EndTick
    /\ UNCHANGED <<mode, verifyPasses, rowVars, storeVars, clientVars, adminVars,
                   interruptions, verified>>

\* runTransferring: a cancel is noticed only here, before each batch.
IsCancelRequested ==
    /\ pc = "isCancelRequested"
    /\ IF status = "cancelling"
       THEN EndTick
       ELSE pc' = "findPending" /\ UNCHANGED <<batch, acted, scan, known, foundNew>>
    /\ UNCHANGED <<jobVars, rowVars, storeVars, clientVars, adminVars,
                   interruptions, verified>>

\* runTransferring: the next batch; with nothing pending the loop ends.
FindPending ==
    /\ pc = "findPending"
    /\ \/ /\ Rows("pending") # {}
          /\ batch' \in Limit(Rows("pending"))
          /\ pc' = "transferOne"
       \/ /\ Rows("pending") = {}
          /\ pc' = "leaveRunning"
          /\ UNCHANGED batch
    /\ UNCHANGED <<jobVars, rowVars, storeVars, clientVars, adminVars,
                   acted, scan, known, foundNew, interruptions, verified>>

\* The batch is over with its last file k; the loop starts again, or the
\* tick's budget is spent.
NextStage(k, stages) ==
    pc' \in IF batch \cup acted = {k} THEN stages ELSE {pc}

\* transferOne: stream the object from the source to the target.
CopyObject(k) ==
    /\ pc = "transferOne"
    /\ k \in batch
    /\ object["source"][k] # 0
    /\ object' = [object EXCEPT !["target"][k] = object["source"][k]]
    /\ batch' = batch \ {k}
    /\ acted' = acted \cup {k}
    /\ UNCHANGED <<jobVars, rowVars, isActive, clientVars, adminVars,
                   pc, scan, known, foundNew, interruptions, verified>>

\* Mutant: the row is set to "done" without waiting for the stream.
RecordUncopied(k) ==
    /\ pc = "transferOne"
    /\ k \in batch \cup acted
    /\ file' = [file EXCEPT ![k] = "done"]
    /\ attempts' = [attempts EXCEPT ![k] = @ + 1]
    /\ batch' = batch \ {k}
    /\ acted' = acted \ {k}
    /\ NextStage(k, {"isCancelRequested", "leaveRunning"})
    /\ UNCHANGED <<jobVars, cleanedUp, storeVars, clientVars, adminVars,
                   scan, known, foundNew, interruptions, verified>>

\* transferOne: the row of a copied file is set to "done".
RecordCopied(k) ==
    /\ pc = "transferOne"
    /\ k \in acted
    /\ file' = [file EXCEPT ![k] = "done"]
    /\ attempts' = [attempts EXCEPT ![k] = @ + 1]
    /\ acted' = acted \ {k}
    /\ NextStage(k, {"isCancelRequested", "leaveRunning"})
    /\ UNCHANGED <<jobVars, cleanedUp, storeVars, clientVars, adminVars,
                   batch, scan, known, foundNew, interruptions, verified>>

\* writeStream cut short: the local driver leaves a truncated file, which is no
\* usable object, over whatever the target had there.
LeaveTorn(keys) ==
    object' = [p \in Providers |-> [k \in Keys |->
                  IF p = "target" /\ k \in keys THEN 0 ELSE object[p][k]]]

\* Mutant: no attempt is ever the last one.
TransferRetriedForever(k) ==
    /\ pc = "transferOne"
    /\ k \in batch \cup acted
    /\ file' = [file EXCEPT ![k] = "pending"]
    /\ attempts' = [attempts EXCEPT ![k] = @ + 1]
    /\ batch' = batch \ {k}
    /\ acted' = acted \ {k}
    /\ NextStage(k, {"isCancelRequested", "leaveRunning"})
    /\ UNCHANGED <<jobVars, cleanedUp, storeVars, clientVars, adminVars,
                   scan, known, foundNew, interruptions, verified>>

\* Mutant: failed attempts are not counted.
TransferUncounted(k) ==
    /\ pc = "transferOne"
    /\ k \in batch \cup acted
    /\ file' = [file EXCEPT ![k] = "pending"]
    /\ batch' = batch \ {k}
    /\ acted' = acted \ {k}
    /\ NextStage(k, {"isCancelRequested", "leaveRunning"})
    /\ UNCHANGED <<jobVars, attempts, cleanedUp, storeVars, clientVars, adminVars,
                   scan, known, foundNew, interruptions, verified>>

\* transferOne: one of its calls has thrown (the first one surely does when the
\* source no longer has the object): another attempt later, or no more.
TransferFailed(k) ==
    /\ pc = "transferOne"
    /\ k \in batch \cup acted
    /\ \E torn \in SUBSET ({k} \cap batch) : LeaveTorn(torn)
    /\ file' = [file EXCEPT ![k] =
                   IF attempts[k] + 1 >= MaxAttempts THEN "failed" ELSE "pending"]
    /\ attempts' = [attempts EXCEPT ![k] = @ + 1]
    /\ batch' = batch \ {k}
    /\ acted' = acted \ {k}
    /\ NextStage(k, {"isCancelRequested", "leaveRunning"})
    /\ UNCHANGED <<jobVars, cleanedUp, isActive, clientVars, adminVars,
                   scan, known, foundNew, interruptions, verified>>

\* runTransferring: with nothing left pending the status becomes "verifying".
LeaveRunning ==
    /\ pc = "leaveRunning"
    /\ status' = IF Rows("pending") = {} THEN "verifying" ELSE status
    /\ EndTick
    /\ UNCHANGED <<mode, listCursor, verifyPasses, rowVars, storeVars, clientVars, adminVars,
                   interruptions, verified>>

\* runVerifying: past the last pass, cut over without looking again ...
StopVerifying ==
    /\ pc = "runVerifying"
    /\ verifyPasses + 1 > MaxVerifyPasses
    /\ status' = "cutover"
    /\ EndTick
    /\ UNCHANGED <<mode, listCursor, verifyPasses, rowVars, storeVars, clientVars, adminVars,
                   interruptions, verified>>

\* ... before that, read the keys that have a row and list the source anew.
StartVerifying ==
    /\ pc = "runVerifying"
    /\ verifyPasses + 1 <= MaxVerifyPasses
    /\ known' = Tracked
    /\ verified' = Held("source")
    /\ pc' = "relist"
    /\ UNCHANGED <<jobVars, rowVars, storeVars, clientVars, adminVars,
                   batch, acted, scan, foundNew, interruptions>>

\* runVerifying: one page of the listing; keys not yet known get a row.
Relist ==
    LET newItems == Page("source", scan) \ known IN
    /\ pc = "relist"
    /\ InsertRows(newItems)
    /\ foundNew' = (foundNew \/ newItems # {})
    /\ scan' = NextCursor("source", scan)
    /\ pc' = IF scan' = 0 THEN "leaveVerifying" ELSE "relist"
    /\ UNCHANGED <<jobVars, attempts, cleanedUp, storeVars, clientVars, adminVars,
                   batch, acted, known, interruptions, verified>>

\* Mutant: the new keys found do not send the job back to "running".
LeaveVerifyingAnyway ==
    /\ pc = "leaveVerifying"
    /\ status' = "cutover"
    /\ verifyPasses' = verifyPasses + 1
    /\ EndTick
    /\ UNCHANGED <<mode, listCursor, rowVars, storeVars, clientVars, adminVars,
                   interruptions, verified>>

\* runVerifying: back to "running" for the new keys, or on to the cutover.
LeaveVerifying ==
    /\ pc = "leaveVerifying"
    /\ status' = IF foundNew THEN "running" ELSE "cutover"
    /\ verifyPasses' = verifyPasses + 1
    /\ EndTick
    /\ UNCHANGED <<mode, listCursor, rowVars, storeVars, clientVars, adminVars,
                   interruptions, verified>>

\* Mutant: the old provider is left active.
DeactivateNobody ==
    /\ pc = "deactivateSource"
    /\ pc' = "activateTarget"
    /\ UNCHANGED <<jobVars, rowVars, storeVars, clientVars, adminVars,
                   batch, acted, scan, known, foundNew, interruptions, verified>>

\* runCutover: three writes.  The second one is followed, with no await in
\* between, by invalidateStorageCache().
DeactivateSource ==
    /\ pc = "deactivateSource"
    /\ isActive' = [isActive EXCEPT !["source"] = FALSE]
    /\ pc' = "activateTarget"
    /\ UNCHANGED <<jobVars, rowVars, object, clientVars, adminVars,
                   batch, acted, scan, known, foundNew, interruptions, verified>>

ActivateTarget ==
    /\ pc = "activateTarget"
    /\ isActive' = [isActive EXCEPT !["target"] = TRUE]
    /\ cached' = "none"
    /\ pc' = "leaveCutover"
    /\ UNCHANGED <<jobVars, rowVars, object, live, version, uploading, adminVars,
                   batch, acted, scan, known, foundNew, interruptions, verified>>

LeaveCutover ==
    /\ pc = "leaveCutover"
    /\ status' = IF mode = "move" THEN "cleanup" ELSE "completed"
    /\ EndTick
    /\ UNCHANGED <<mode, listCursor, verifyPasses, rowVars, storeVars, clientVars, adminVars,
                   interruptions, verified>>

\* runCleanup and runCancelling share their loop: take a batch of rows done and
\* not cleaned up, remove each object from p, mark its row.
TakeUncleaned(loop, removing) ==
    /\ pc = loop
    /\ Uncleaned # {}
    /\ batch' \in Limit(Uncleaned)
    /\ pc' = removing
    /\ UNCHANGED <<jobVars, rowVars, storeVars, clientVars, adminVars,
                   acted, scan, known, foundNew, interruptions, verified>>

\* driver.remove(key): its errors are caught and logged, so the object may stay.
RemoveObject(k, removing, p) ==
    /\ pc = removing
    /\ k \in batch
    /\ \/ object' = [object EXCEPT ![p][k] = 0]
       \/ UNCHANGED object
    /\ batch' = batch \ {k}
    /\ acted' = acted \cup {k}
    /\ UNCHANGED <<jobVars, rowVars, isActive, clientVars, adminVars,
                   pc, scan, known, foundNew, interruptions, verified>>

\* The row is marked; after the last one of a batch the loop starts again, or
\* the tick's budget is spent with rows left.
MarkCleanedUp(k, loop, removing) ==
    /\ pc = removing
    /\ k \in acted
    /\ cleanedUp' = [cleanedUp EXCEPT ![k] = TRUE]
    /\ acted' = acted \ {k}
    /\ NextStage(k, {loop} \cup (IF Uncleaned = {k} THEN {} ELSE {"idle"}))
    /\ UNCHANGED <<jobVars, file, attempts, storeVars, clientVars, adminVars,
                   batch, scan, known, foundNew, interruptions, verified>>

\* No row left: the job is over.
NothingUncleaned(loop, final) ==
    /\ pc = loop
    /\ Uncleaned = {}
    /\ status' = final
    /\ EndTick
    /\ UNCHANGED <<mode, listCursor, verifyPasses, rowVars, storeVars, clientVars, adminVars,
                   interruptions, verified>>

RunCleanup ==
    \/ TakeUncleaned("runCleanup", "removeFromSource")
    \/ \E k \in Keys : RemoveObject(k, "removeFromSource", "source")
    \/ \E k \in Keys : MarkCleanedUp(k, "runCleanup", "removeFromSource")
    \/ NothingUncleaned("runCleanup", "completed")

\* Mutant: a cancel removes the files from the wrong provider.
RunCancellingOnSource ==
    \/ TakeUncleaned("runCancelling", "removeFromTarget")
    \/ \E k \in Keys : RemoveObject(k, "removeFromTarget", "source")
    \/ \E k \in Keys : MarkCleanedUp(k, "runCancelling", "removeFromTarget")
    \/ NothingUncleaned("runCancelling", "cancelled")

RunCancelling ==
    \/ TakeUncleaned("runCancelling", "removeFromTarget")
    \/ \E k \in Keys : RemoveObject(k, "removeFromTarget", "target")
    \/ \E k \in Keys : MarkCleanedUp(k, "runCancelling", "removeFromTarget")
    \/ NothingUncleaned("runCancelling", "cancelled")

\* A call outside the per-file try blocks throws: markFailed, whatever the status.
MarkFailed ==
    /\ pc # "idle"
    /\ status' = "failed"
    /\ EndTick
    /\ UNCHANGED <<mode, listCursor, verifyPasses, rowVars, storeVars, clientVars, adminVars,
                   interruptions, verified>>

\* What the worker does when nothing goes wrong outside transferOne.
Worker ==
    \/ Tick
    \/ EnumerateSource \/ SaveCursor \/ LeavePlanning
    \/ IsCancelRequested \/ FindPending \/ LeaveRunning
    \/ \E k \in Keys : CopyObject(k) \/ RecordCopied(k) \/ TransferFailed(k)
    \/ StopVerifying \/ StartVerifying \/ Relist \/ LeaveVerifying
    \/ DeactivateSource \/ ActivateTarget \/ LeaveCutover
    \/ RunCleanup
    \/ RunCancelling

-----------------------------------------------------------------------------
(* Interruptions: the job's documents survive, memory does not.            *)

\* Even markFailed's own write throws: tick() logs it and returns.
AbortTick ==
    /\ pc # "idle"
    /\ interruptions < MaxInterruptions
    /\ interruptions' = interruptions + 1
    /\ EndTick
    /\ UNCHANGED <<jobVars, rowVars, storeVars, clientVars, adminVars, verified>>

\* The server restarts: the tick, every request in progress and the cache are gone.
Restart ==
    /\ interruptions < MaxInterruptions
    /\ interruptions' = interruptions + 1
    /\ EndTick
    /\ \E torn \in SUBSET (IF pc = "transferOne" THEN batch ELSE {}) : LeaveTorn(torn)
    /\ cached' = "none"
    /\ uploading' = [k \in Keys |-> "none"]
    /\ cancelling' = 0
    /\ UNCHANGED <<jobVars, rowVars, isActive, live, version, cancels, lateCancel, verified>>

-----------------------------------------------------------------------------
(* Clients.  getStorage() answers with the cached provider, or with the    *)
(* active one, which it then caches; with neither, the request fails.      *)

GetStorage(p) ==
    /\ \/ cached = p
       \/ cached = "none" /\ isActive[p]
    /\ cached' = p

\* A key is new for each media file, theme image or CMS file; only a fixed key
\* is ever written again.
MayWrite(k) == version[k] < (IF k \in FixedKeys THEN MaxVersion ELSE 1)

ResolveUpload(k) ==
    /\ uploading[k] = "none"
    /\ MayWrite(k)
    /\ \E p \in Providers :
          /\ GetStorage(p)
          /\ uploading' = [uploading EXCEPT ![k] = p]
    /\ UNCHANGED <<jobVars, rowVars, storeVars, live, version, adminVars, tickVars,
                   interruptions, verified>>

\* The bytes are stored at the provider resolved before, and a document refers
\* to the key from now on.
StoreUpload(k) ==
    /\ uploading[k] # "none"
    /\ object' = [object EXCEPT ![uploading[k]][k] = version[k] + 1]
    /\ version' = [version EXCEPT ![k] = @ + 1]
    /\ live' = [live EXCEPT ![k] = TRUE]
    /\ uploading' = [uploading EXCEPT ![k] = "none"]
    /\ UNCHANGED <<jobVars, rowVars, isActive, cached, adminVars, tickVars,
                   interruptions, verified>>

\* A file is deleted for good: its object, and the document that refers to it.
RemoveFile(k) ==
    /\ live[k]
    /\ uploading[k] = "none"
    /\ \E p \in Providers :
          /\ GetStorage(p)
          /\ object' = [object EXCEPT ![p][k] = 0]
    /\ live' = [live EXCEPT ![k] = FALSE]
    /\ UNCHANGED <<jobVars, rowVars, isActive, version, uploading, adminVars, tickVars,
                   interruptions, verified>>

-----------------------------------------------------------------------------
(* The cancel handler reads the job, checks its status, and saves.         *)

ReadForCancel ==
    /\ cancels < MaxCancels
    /\ status \in Cancellable
    /\ cancelling' = cancelling + 1
    /\ cancels' = cancels + 1
    /\ UNCHANGED <<jobVars, rowVars, storeVars, clientVars, lateCancel, tickVars,
                   interruptions, verified>>

SaveCancel ==
    /\ cancelling > 0
    /\ status' = "cancelling"
    /\ cancelling' = cancelling - 1
    /\ lateCancel' = (lateCancel \/ status \notin Cancellable \cup {"cancelling"})
    /\ UNCHANGED <<mode, listCursor, verifyPasses, rowVars, storeVars, clientVars, cancels,
                   tickVars, interruptions, verified>>

-----------------------------------------------------------------------------

Clients == \E k \in Keys : ResolveUpload(k) \/ StoreUpload(k) \/ RemoveFile(k)

Admin == ReadForCancel \/ SaveCancel

Next == Worker \/ MarkFailed \/ AbortTick \/ Restart \/ Clients \/ Admin

\* The poll loop keeps ticking as long as the server runs, and the event loop
\* resumes every awaited call: the worker is weakly fair.  Nobody has to send
\* a request, and errors need not happen.
Fairness == WF_vars(Worker)

Spec == Init /\ [][Next]_vars

FairSpec == Spec /\ Fairness

-----------------------------------------------------------------------------
(* Properties.  A media key is written once; a fixed key is overwritten in *)
(* place, and a copy of it may be out of date.                             *)

MediaKeys == Keys \ FixedKeys

\* Before the cutover the source serves alone, after it the target does; in
\* between, for the two writes of runCutover, nobody may be active.  Cancels
\* that come in time leave the source active.
ActiveFollowsStatus ==
    ~lateCancel =>
        /\ status \in Cancellable \cup {"cancelling", "cancelled"} =>
              isActive = [p \in Providers |-> p = "source"]
        /\ status \in {"cleanup", "completed"} =>
              isActive = [p \in Providers |-> p = "target"]
        /\ ~(isActive["source"] /\ isActive["target"])

\* A row that says "done" is not a mere intention: until the job is cancelled
\* or given up, the object it names is at the target, unless its document is gone.
DoneIsCopied ==
    status \notin {"cancelling", "cancelled", "failed"} =>
        \A k \in MediaKeys :
            file[k] = "done" /\ live[k] => object["target"][k] # 0

\* No interleaving of copies, cleanups, cancels in time, failures and restarts
\* destroys the only object of a live document.
NoFileLost ==
    ~lateCancel => \A k \in MediaKeys : live[k] => \E p \in Providers : object[p][k] # 0

\* The worker takes an object away from the source only when the target has one.
SourceEmptiedOnlyIfCopied ==
    [][\A k \in MediaKeys :
          live[k] /\ live'[k] /\ object["source"][k] # 0 /\ object'["source"][k] = 0
              => object["target"][k] # 0]_vars

\* A cancel that came in time leaves the source as the application knows it:
\* active, and holding the latest version of every live document's file.
CancelKeepsSource ==
    status \in {"cancelling", "cancelled"} /\ ~lateCancel =>
        /\ isActive["source"]
        /\ \A k \in Keys : live[k] => object["source"][k] = version[k]

\* Whatever the verify pass listed, paged as it is while clients write, has a
\* row when the job leaves for the cutover.
VerifiedIsTracked ==
    status \in {"cutover", "cleanup", "completed"} =>
        \A k \in MediaKeys \cap verified : live[k] => file[k] # "none"

\* Without interruptions, every file is copied or given up before the cutover.
NothingPendingAtCutover ==
    interruptions = 0 /\ status \in {"cutover", "cleanup", "completed"} =>
        Rows("pending") = {}

\* Nothing slips through: not the source, when a cancel came in time; no file between the pages
\* of the verify pass that went before the cutover; and, if nothing was interrupted, no row that
\* is still to be copied.  A row may have been given up, and an object rewritten after its copy.
NothingSlips == CancelKeepsSource /\ VerifiedIsTracked /\ NothingPendingAtCutover

\* Every job comes to an end, however often clients write.
JobEnds == status \notin Terminal ~> status \in Terminal

\* What the handover of StorageHandover is about, read off the documents, the objects
\* and the isActive flags.
Needed  == {k \in MediaKeys : live[k]}
Stored  == [p \in Providers |-> {k \in MediaKeys : object[p][k] # 0}]
Serving == {p \in Providers : isActive[p]}

\* As long as no cancel is saved past the point of no return, the job implements that
\* handover.
Handover == INSTANCE StorageHandover WITH
    File    <- MediaKeys,
    needed  <- Needed,
    held    <- Stored,
    serving <- Serving

ImplementsHandover ==
    Handover!Init /\ [][lateCancel' \/ Handover!Next]_(Handover!vars)

=============================================================================
