--------------------------- MODULE MediaLifecycle ---------------------------
(***************************************************************************)
(* The photos and videos of one timeline, from upload to the emptying of   *)
(* the trash.                                                              *)
(*                                                                         *)
(* Requests upload, edit, trash, restore and delete; a second process, the *)
(* background worker, makes the thumbnails of videos, sweeps the trash and *)
(* reconciles the summaries of days.  A handler reads a document, awaits   *)
(* other calls, and then saves the fields it has set, without a check that *)
(* the document is still what it has read; documents, objects in storage   *)
(* and summaries are written one after the other.                          *)
(*                                                                         *)
(* Code: POST /:slug/media of routes/timelines.js, routes/media.js,        *)
(* scripts/worker.js, lib/media/daySummary.js, lib/storageQuota.js.        *)
(***************************************************************************)
EXTENDS Integers, FiniteSets

CONSTANTS
    Media,         \* the files that may be uploaded
    Video,         \* those that are videos; the others are images
    Initial,       \* those that have been uploaded and processed before
    Day,           \* the days a file may have been taken
    Request,       \* the requests to the web process
    Task,          \* the videos the worker may process at once
    Cron,          \* its daily jobs that are scheduled: "sweep", "reconcile"
    Quota,         \* how many files the timeline may hold
    MaxAttempts,   \* MAX_ATTEMPTS
    MaxStalls,     \* bound: jobs that take longer than STALE_PROCESSING_MS
    MaxFailures    \* bound: handlers cut short, and restarts of the worker

ASSUME ConstantsAssumption ==
    /\ Media # {}
    /\ Day # {}
    /\ Video \subseteq Media
    /\ Initial \subseteq Media
    /\ Quota \in Nat /\ IsFiniteSet(Initial) /\ Cardinality(Initial) <= Quota
    /\ MaxAttempts \in Nat \ {0}
    /\ MaxStalls \in Nat
    /\ MaxFailures \in Nat
    /\ Cron \subseteq {"sweep", "reconcile"}
    /\ {"sweep", "reconcile"} \cap (Request \cup Task) = {}
    /\ Request \cap Task = {}

VARIABLES
    doc,         \* doc[m]: the document of m
    objects,     \* objects[m]: what storage holds of m
    summary,     \* summary[d]: the files the summary of day d counts, {} for no summary
    fresh,       \* the files that are still to be uploaded
    at,          \* where each process stands
    memory,      \* what it remembers
    expired,     \* what the sweep has found and not yet purged
    stalls, failures,
    \* history: the files that were ever taken out of the trash, and whether an
    \* upload was let in while another was under way
    restored, crowded

bounds == <<stalls, failures>>
history == <<restored, crowded>>
vars == <<doc, objects, summary, fresh, at, memory, expired, bounds, history>>

-----------------------------------------------------------------------------

\* The worker's sweep and reconciliation run apart from its tasks.
Worker  == Task \cup Cron
Process == Request \cup Worker

Variants == {"original", "thumbnail"}

\* deletedAt is null, within the last thirty days, or older; overdue says that
\* lastAttemptAt is older than STALE_PROCESSING_MS.
Document == [status    : {"none", "pending", "processing", "ready", "failed"},
             deletedAt : {"null", "recent", "expired"},
             day       : Day,
             attempts  : Nat,
             overdue   : BOOLEAN,
             keys      : SUBSET Variants]

NoDocument ==
    [status |-> "none", deletedAt |-> "null", day |-> CHOOSE d \in Day : TRUE,
     attempts |-> 0, overdue |-> FALSE, keys |-> {}]

\* The file a process is about, its document as read and changed, the days
\* still to be summarised, and what was counted for one of them.
Memory == [media : Media, doc : Document, days : SUBSET Day, day : Day, counted : SUBSET Media]

Nothing ==
    [media |-> CHOOSE m \in Media : TRUE, doc |-> NoDocument,
     days |-> {}, day |-> CHOOSE d \in Day : TRUE, counted |-> {}]

Stages == {"idle", "done", "store", "create", "saveEdit", "saveTrashed", "saveRestored",
           "saveRetry", "removeFiles", "deleteOne", "read", "write", "saveReady", "saveFailure",
           "aggregate", "saveSummary", "sweep"}

\* Type invariant; what is gone names no object, and what is ready names all of them.
TypeOK ==
    /\ doc \in [Media -> Document]
    /\ objects \in [Media -> SUBSET Variants]
    /\ summary \in [Day -> SUBSET Media]
    /\ fresh \subseteq Media
    /\ at \in [Process -> Stages]
    /\ memory \in [Process -> Memory]
    /\ expired \subseteq Media \X SUBSET Variants
    /\ stalls \in 0..MaxStalls
    /\ failures \in 0..MaxFailures
    /\ restored \subseteq Media
    /\ crowded \in BOOLEAN
    /\ \A m \in Media : /\ doc[m].status = "none" => doc[m].keys = {}
                        /\ doc[m].status = "ready" => doc[m].keys = Variants

Exists(m) == doc[m].status # "none"
Live(m)   == Exists(m) /\ doc[m].deletedAt = "null"

\* getTimelineUsedBytes: what is in the trash does not count.
Used == Cardinality({m \in Media : Live(m)})

\* What the summary of day d should count.
Shown(d) == {m \in Media : Live(m) /\ doc[m].status = "ready" /\ doc[m].day = d}

\* Images are ready when they have been uploaded, videos wait for the worker.
NewDocument(m) ==
    IF m \in Video
    THEN [NoDocument EXCEPT !.status = "pending", !.keys = {"original"}]
    ELSE [NoDocument EXCEPT !.status = "ready", !.keys = Variants]

Init ==
    /\ \E trashed \in SUBSET Initial :
          doc = [m \in Media |-> IF m \in Initial
                                THEN [NewDocument(m) EXCEPT
                                         !.deletedAt = IF m \in trashed THEN "recent" ELSE "null"]
                                ELSE NoDocument]
    /\ objects = [m \in Media |-> doc[m].keys]
    /\ summary = [d \in Day |-> Shown(d)]
    /\ fresh = Media \ Initial
    /\ at = [p \in Process |-> "idle"]
    /\ memory = [p \in Process |-> Nothing]
    /\ expired = {}
    /\ stalls = 0
    /\ failures = 0
    /\ restored = {}
    /\ crowded = FALSE

-----------------------------------------------------------------------------

Goto(p, stage) == at' = [at EXCEPT ![p] = stage]

\* A request ends for good, the worker looks for more to do.
Finish(p) ==
    /\ Goto(p, IF p \in Request THEN "done" ELSE "idle")
    /\ memory' = [memory EXCEPT ![p] = Nothing]

\* findOne, findById or findOneAndUpdate have returned this document of m.
Remember(p, m, document, stage) ==
    /\ memory' = [memory EXCEPT ![p] = [Nothing EXCEPT !.media = m, !.doc = document]]
    /\ Goto(p, stage)

\* The handler goes on to syncDaySummary for these days.
Sync(p, days) ==
    IF days = {} THEN Finish(p)
    ELSE /\ memory' = [memory EXCEPT ![p].days = days]
         /\ Goto(p, "aggregate")

\* save() fails when the document is gone, and the request answers with an error.
SaveAndSync(p, document, days) ==
    IF Exists(memory[p].media)
    THEN /\ doc' = [doc EXCEPT ![memory[p].media] = document]
         /\ Sync(p, days)
    ELSE /\ UNCHANGED doc
         /\ Finish(p)

-----------------------------------------------------------------------------
(* syncDaySummary: the day is counted, then the summary is written.        *)

Aggregate(p) ==
    /\ at[p] = "aggregate"
    /\ \E d \in memory[p].days :
          memory' = [memory EXCEPT ![p].days = @ \ {d}, ![p].day = d, ![p].counted = Shown(d)]
    /\ Goto(p, "saveSummary")
    /\ UNCHANGED <<doc, objects, summary, fresh, expired, bounds, history>>

SaveSummary(p) ==
    /\ at[p] = "saveSummary"
    /\ summary' = [summary EXCEPT ![memory[p].day] = memory[p].counted]
    /\ Sync(p, memory[p].days)
    /\ UNCHANGED <<doc, objects, fresh, expired, bounds, history>>

-----------------------------------------------------------------------------
(* Requests                                                                *)

Uploading == {r \in Request : at[r] \in {"store", "create"}}

\* Mutant: the size of the upload is not added to what is used.
CheckQuotaWithoutSize(r) ==
    /\ at[r] = "idle"
    /\ fresh # {}
    /\ Used <= Quota
    /\ crowded' = (crowded \/ Uploading # {})
    /\ Goto(r, "store")
    /\ UNCHANGED <<doc, objects, summary, fresh, memory, expired, bounds, restored>>

\* POST /:slug/media: the upload is let in when there is room for it.
CheckQuota(r) ==
    /\ at[r] = "idle"
    /\ fresh # {}
    /\ Used + 1 <= Quota
    /\ crowded' = (crowded \/ Uploading # {})
    /\ Goto(r, "store")
    /\ UNCHANGED <<doc, objects, summary, fresh, memory, expired, bounds, restored>>

StoreOriginal(r) ==
    /\ at[r] = "store"
    /\ \E m \in fresh :
          /\ fresh' = fresh \ {m}
          /\ objects' = [objects EXCEPT ![m] = {"original"}]
          /\ Remember(r, m, NoDocument, "create")
    /\ UNCHANGED <<doc, summary, expired, bounds, history>>

\* An image is ready with its derivatives, or failed without; a video is left
\* to the worker.
CreateDocument(r) ==
    /\ at[r] = "create"
    /\ \E d \in Day :
          LET m == memory[r].media
              created == [NewDocument(m) EXCEPT !.day = d]
              failed == [NoDocument EXCEPT !.status = "failed", !.keys = {"original"},
                                           !.attempts = 1, !.day = d]
          IN  \/ /\ doc' = [doc EXCEPT ![m] = created]
                 /\ objects' = [objects EXCEPT ![m] = created.keys]
                 /\ Sync(r, IF created.status = "ready" THEN {d} ELSE {})
              \/ /\ m \notin Video
                 /\ doc' = [doc EXCEPT ![m] = failed]
                 /\ Finish(r)
                 /\ UNCHANGED objects
    /\ UNCHANGED <<summary, fresh, expired, bounds, history>>

\* PATCH /:id finds a file outside the trash,
ReadForEdit(r) ==
    /\ at[r] = "idle"
    /\ \E m \in Media : Live(m) /\ Remember(r, m, doc[m], "saveEdit")
    /\ UNCHANGED <<doc, objects, summary, fresh, expired, bounds, history>>

\* may move it to another day, and recomputes the days it knows of if the file
\* was ready when it was read.
SaveEdit(r) ==
    /\ at[r] = "saveEdit"
    /\ LET m == memory[r].media
           read == memory[r].doc
       IN  \E d \in Day :
              SaveAndSync(r, IF d = read.day THEN doc[m] ELSE [doc[m] EXCEPT !.day = d],
                             IF read.status = "ready" THEN {d, read.day} ELSE {})
    /\ UNCHANGED <<objects, summary, fresh, expired, bounds, history>>

\* Mutant: what is deleted twice is looked for by its status, not by deletedAt.
ReadForDeleteByStatus(r) ==
    /\ at[r] = "idle"
    /\ \E m \in Media :
          /\ Exists(m)
          /\ Remember(r, m, doc[m], IF doc[m].status = "ready" THEN "saveTrashed" ELSE "removeFiles")
    /\ UNCHANGED <<doc, objects, summary, fresh, expired, bounds, history>>

\* DELETE /:id trashes what is not in the trash, and purges what is.
ReadForDelete(r) ==
    /\ at[r] = "idle"
    /\ \E m \in Media :
          /\ Exists(m)
          /\ Remember(r, m, doc[m], IF Live(m) THEN "saveTrashed" ELSE "removeFiles")
    /\ UNCHANGED <<doc, objects, summary, fresh, expired, bounds, history>>

SaveTrashed(r) ==
    /\ at[r] = "saveTrashed"
    /\ SaveAndSync(r, [doc[memory[r].media] EXCEPT !.deletedAt = "recent"],
                      {memory[r].doc.day})
    /\ UNCHANGED <<objects, summary, fresh, expired, bounds, history>>

\* What cannot be removed is logged, and left behind.
RemoveFiles(r) ==
    /\ at[r] = "removeFiles"
    /\ \E removed \in SUBSET memory[r].doc.keys :
          objects' = [objects EXCEPT ![memory[r].media] = @ \ removed]
    /\ Goto(r, "deleteOne")
    /\ UNCHANGED <<doc, summary, fresh, memory, expired, bounds, history>>

DeleteDocument(r) ==
    /\ r \in Request
    /\ at[r] = "deleteOne"
    /\ doc' = [doc EXCEPT ![memory[r].media] = NoDocument]
    /\ Finish(r)
    /\ UNCHANGED <<objects, summary, fresh, expired, bounds, history>>

\* POST /:id/restore
ReadForRestore(r) ==
    /\ at[r] = "idle"
    /\ \E m \in Media : Exists(m) /\ ~Live(m) /\ Remember(r, m, doc[m], "saveRestored")
    /\ UNCHANGED <<doc, objects, summary, fresh, expired, bounds, history>>

SaveRestored(r) ==
    /\ at[r] = "saveRestored"
    /\ SaveAndSync(r, [doc[memory[r].media] EXCEPT !.deletedAt = "null"],
                      IF memory[r].doc.status = "ready" THEN {memory[r].doc.day} ELSE {})
    /\ restored' = IF Exists(memory[r].media) THEN restored \cup {memory[r].media} ELSE restored
    /\ UNCHANGED <<objects, summary, fresh, expired, bounds, crowded>>

\* POST /video-queue/:mediaId/retry, of an administrator: a video given up starts anew.
ReadForRetry(r) ==
    /\ at[r] = "idle"
    /\ \E m \in Video : doc[m].status = "failed" /\ Remember(r, m, doc[m], "saveRetry")
    /\ UNCHANGED <<doc, objects, summary, fresh, expired, bounds, history>>

SaveRetry(r) ==
    /\ at[r] = "saveRetry"
    /\ SaveAndSync(r, [doc[memory[r].media] EXCEPT !.status = "pending", !.attempts = 0,
                                                   !.overdue = FALSE], {})
    /\ UNCHANGED <<objects, summary, fresh, expired, bounds, history>>

\* A call throws, or the web process restarts: the rest of the request is lost.
Interrupt(r) ==
    /\ at[r] \notin {"idle", "done"}
    /\ failures < MaxFailures
    /\ failures' = failures + 1
    /\ Finish(r)
    /\ UNCHANGED <<doc, objects, summary, fresh, expired, stalls, history>>

-----------------------------------------------------------------------------
(* The worker: videos.  Several may be under way, for the poll does not    *)
(* wait for them.                                                          *)

\* Mutant: what a lost worker was processing is not claimed again.
ClaimableOnce(m) ==
    /\ m \in Video
    /\ Live(m)
    /\ doc[m].status = "pending"

Claimable(m) ==
    /\ m \in Video
    /\ Live(m)
    /\ \/ doc[m].status = "pending"
       \/ doc[m].status = "processing" /\ doc[m].overdue

ClaimNextVideo(t) ==
    /\ at[t] = "idle"
    /\ \E m \in Media :
          /\ Claimable(m)
          /\ doc' = [doc EXCEPT ![m].status = "processing", ![m].overdue = FALSE,
                                ![m].attempts = @ + 1]
          /\ Remember(t, m, doc'[m], "read")
    /\ UNCHANGED <<objects, summary, fresh, expired, bounds, history>>

ReadOriginal(t) ==
    /\ at[t] = "read"
    /\ Goto(t, IF "original" \in objects[memory[t].media] THEN "write" ELSE "saveFailure")
    /\ UNCHANGED <<doc, objects, summary, fresh, memory, expired, bounds, history>>

\* Mutant: the writes are not awaited, and fail.
WriteUnawaited(t) ==
    /\ at[t] = "write"
    /\ memory' = [memory EXCEPT ![t].doc.keys = Variants]
    /\ Goto(t, "saveReady")
    /\ UNCHANGED <<doc, objects, summary, fresh, expired, bounds, history>>

WriteThumbnail(t) ==
    /\ at[t] = "write"
    /\ objects' = [objects EXCEPT ![memory[t].media] = @ \cup {"thumbnail"}]
    /\ memory' = [memory EXCEPT ![t].doc.keys = Variants]
    /\ Goto(t, "saveReady")
    /\ UNCHANGED <<doc, summary, fresh, expired, bounds, history>>

\* Mutant: the keys of the thumbnails are not set.
SaveReadyWithoutKeys(t) ==
    /\ at[t] = "saveReady"
    /\ LET m == memory[t].media
       IN  IF Exists(m)
           THEN /\ doc' = [doc EXCEPT ![m].status = "ready"]
                /\ Sync(t, {memory[t].doc.day})
           ELSE /\ Goto(t, "saveFailure")
                /\ UNCHANGED <<doc, memory>>
    /\ UNCHANGED <<objects, summary, fresh, expired, bounds, history>>

\* The summary recomputed is that of the day the file had when it was claimed.
SaveReady(t) ==
    /\ at[t] = "saveReady"
    /\ LET m == memory[t].media
       IN  IF Exists(m)
           THEN /\ doc' = [doc EXCEPT ![m].status = "ready", ![m].keys = Variants]
                /\ Sync(t, {memory[t].doc.day})
           ELSE /\ Goto(t, "saveFailure")
                /\ UNCHANGED <<doc, memory>>
    /\ UNCHANGED <<objects, summary, fresh, expired, bounds, history>>

\* Whatever throws, the summary's update included, ends in the catch clause.
VideoThrows(t) ==
    /\ at[t] \in {"read", "write", "saveReady", "aggregate", "saveSummary"}
    /\ Goto(t, "saveFailure")
    /\ UNCHANGED <<doc, objects, summary, fresh, memory, expired, bounds, history>>

SaveFailure(t) ==
    /\ at[t] = "saveFailure"
    /\ LET m == memory[t].media
           read == memory[t].doc
       IN  /\ Exists(m)
           /\ doc' = [doc EXCEPT
                         ![m].status = IF read.attempts >= MaxAttempts THEN "failed" ELSE "pending",
                         ![m].keys = @ \cup read.keys]
    /\ Finish(t)
    /\ UNCHANGED <<objects, summary, fresh, expired, bounds, history>>

-----------------------------------------------------------------------------
(* The worker: sweep, reconciliation, restarts                             *)

FindExpired ==
    /\ "sweep" \in Cron
    /\ at["sweep"] = "idle"
    /\ expired' = {<<m, doc[m].keys>> : m \in {n \in Media : doc[n].deletedAt = "expired"}}
    /\ expired' # {}
    /\ Goto("sweep", "sweep")
    /\ UNCHANGED <<doc, objects, summary, fresh, memory, bounds, history>>

\* One of the documents found is purged, whatever has become of it since.
SweepFiles ==
    /\ "sweep" \in Cron
    /\ at["sweep"] = "sweep"
    /\ \E item \in expired :
          /\ expired' = expired \ {item}
          /\ \E removed \in SUBSET item[2] :
                objects' = [objects EXCEPT ![item[1]] = @ \ removed]
          /\ Remember("sweep", item[1], NoDocument, "deleteOne")
    /\ UNCHANGED <<doc, summary, fresh, bounds, history>>

SweepDocument ==
    /\ "sweep" \in Cron
    /\ at["sweep"] = "deleteOne"
    /\ doc' = [doc EXCEPT ![memory["sweep"].media] = NoDocument]
    /\ IF expired = {} THEN Finish("sweep")
       ELSE Goto("sweep", "sweep") /\ UNCHANGED memory
    /\ UNCHANGED <<objects, summary, fresh, expired, bounds, history>>

\* Mutant: only the days of files that are shown, not those that have a summary.
ReadDaysOfMedia ==
    /\ "reconcile" \in Cron
    /\ at["reconcile"] = "idle"
    /\ LET known == {d \in Day : Shown(d) # {}}
       IN  known # {} /\ Sync("reconcile", known)
    /\ UNCHANGED <<doc, objects, summary, fresh, expired, bounds, history>>

\* The days of files that are shown, and those that have a summary.
ReadDays ==
    /\ "reconcile" \in Cron
    /\ at["reconcile"] = "idle"
    /\ LET known == {d \in Day : Shown(d) # {} \/ summary[d] # {}}
       IN  known # {} /\ Sync("reconcile", known)
    /\ UNCHANGED <<doc, objects, summary, fresh, expired, bounds, history>>

WorkerGone ==
    /\ at' = [p \in Process |-> IF p \in Worker THEN "idle" ELSE at[p]]
    /\ memory' = [p \in Process |-> IF p \in Worker THEN Nothing ELSE memory[p]]
    /\ expired' = {}

\* The save in the catch clause throws too when the document is gone, nobody
\* catches that, and the process ends; it is started again.
CrashOnDeleted(t) ==
    /\ at[t] = "saveFailure"
    /\ ~Exists(memory[t].media)
    /\ WorkerGone
    /\ UNCHANGED <<doc, objects, summary, fresh, bounds, history>>

RestartWorker ==
    /\ failures < MaxFailures
    /\ failures' = failures + 1
    /\ \E p \in Worker : at[p] # "idle"
    /\ WorkerGone
    /\ UNCHANGED <<doc, objects, summary, fresh, stalls, history>>

-----------------------------------------------------------------------------
(* Time                                                                    *)

Expire(m) ==
    /\ doc[m].deletedAt = "recent"
    /\ doc' = [doc EXCEPT ![m].deletedAt = "expired"]
    /\ UNCHANGED <<objects, summary, fresh, at, memory, expired, bounds, history>>

\* The attempt at m was long ago, because it was lost or because it is slow.
GrowOld(m) ==
    /\ doc[m].status = "processing" /\ ~doc[m].overdue
    /\ doc' = [doc EXCEPT ![m].overdue = TRUE]
    /\ \/ /\ \A t \in Task : at[t] = "idle" \/ memory[t].media # m
          /\ UNCHANGED stalls
       \/ /\ \E t \in Task : at[t] # "idle" /\ memory[t].media = m
          /\ stalls < MaxStalls
          /\ stalls' = stalls + 1
    /\ UNCHANGED <<objects, summary, fresh, at, memory, expired, failures, history>>

-----------------------------------------------------------------------------

Begin(r) ==
    \/ CheckQuota(r) \/ ReadForEdit(r) \/ ReadForDelete(r) \/ ReadForRestore(r)
    \/ ReadForRetry(r)

Continue(r) ==
    \/ StoreOriginal(r) \/ CreateDocument(r)
    \/ SaveEdit(r) \/ SaveTrashed(r) \/ SaveRestored(r)
    \/ SaveRetry(r) \/ RemoveFiles(r) \/ DeleteDocument(r)

ProcessVideo(t) ==
    \/ ClaimNextVideo(t) \/ ReadOriginal(t) \/ WriteThumbnail(t) \/ SaveReady(t)
    \/ SaveFailure(t) \/ CrashOnDeleted(t)

SweepTrash == FindExpired \/ SweepFiles \/ SweepDocument

Summarise(p) == Aggregate(p) \/ SaveSummary(p)

Next ==
    \/ \E r \in Request : Begin(r) \/ Continue(r) \/ Interrupt(r)
    \/ \E t \in Task : ProcessVideo(t) \/ VideoThrows(t)
    \/ \E p \in Process : Summarise(p)
    \/ SweepTrash \/ ReadDays \/ RestartWorker
    \/ \E m \in Media : Expire(m) \/ GrowOld(m)

\* The event loop resumes what has begun; the worker's poll and its two daily jobs
\* go on for ever; time passes.
Fairness ==
    /\ \A r \in Request : WF_vars(Continue(r))
    /\ \A t \in Task : WF_vars(ProcessVideo(t))
    /\ \A p \in Process : WF_vars(Summarise(p))
    /\ WF_vars(SweepTrash)
    /\ WF_vars(ReadDays)
    /\ \A m \in Media : WF_vars(GrowOld(m))

Spec == Init /\ [][Next]_vars

FairSpec == Spec /\ Fairness

-----------------------------------------------------------------------------
(* Properties                                                              *)

\* A file outside the trash has every object its document names, whatever deletes,
\* sweeps and processes it at the same time, unless it was taken out of the trash.
LiveHasFiles ==
    \A m \in Media : Live(m) /\ m \notin restored => doc[m].keys \subseteq objects[m]

\* No step takes away the document, or an object, of a file outside the trash, however
\* long ago the delete or the sweep has read it, unless it was restored.
PurgesOnlyTrash ==
    [][\A m \in Media \ restored :
          Live(m) => Exists(m)' /\ objects[m] \subseteq objects'[m]]_vars

\* Uploads that do not overlap stay within the quota, unless files come back from
\* the trash.
QuotaHolds == ~crowded /\ restored = {} => Used <= Quota

\* Every video is given up or ready in the end, or trashed, although calls throw and
\* the worker may end and lose its claim.
VideosSettle ==
    \A m \in Video : doc[m].status \in {"pending", "processing"} ~>
                         doc[m].status \notin {"pending", "processing"} \/ ~Live(m)

\* However syncDaySummary is interrupted or overtaken, every summary is right in the
\* end, and stays so.
SummariesConverge == \A d \in Day : <>[](summary[d] = Shown(d))
=============================================================================
