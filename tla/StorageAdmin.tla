---------------------------- MODULE StorageAdmin ----------------------------
(***************************************************************************)
(* The administration of the storage providers: which of them is active,   *)
(* how each process caches it, how jobs are created, and the scan for      *)
(* orphaned objects with the deletion that follows.  What a migration does *)
(* with the objects is StorageMigration; here a job is a pair of providers *)
(* that ends, by a cutover or without one.                                 *)
(*                                                                         *)
(* Code: routes/storage.js, lib/storage/index.js,                          *)
(* lib/storage/orphanScanWorker.js, the cutover of                         *)
(* lib/storage/migrationWorker.js, and the routes that store images.       *)
(***************************************************************************)
EXTENDS Naturals, FiniteSets

CONSTANTS
    Provider,     \* the StorageProvider documents there can be
    Bootstrapped, \* the one that bootstrapDefaultProvider has created
    Key,          \* storage keys
    Counted,      \* those whose use the scan looks for: media, light images, images in pages
    Library,      \* the images in pages among them, whose CmsMedia row the scan goes by
    Process,      \* each has a cache of its own
    Web,          \* the process that runs the routes and the jobs
    Request,      \* bound: requests in progress at once
    MaxConfig,    \* bound: edits of a provider
    MaxFailures   \* bound: errors and restarts between two calls of a handler

ASSUME ConstantsAssumption ==
    /\ Bootstrapped \in Provider
    /\ Counted \subseteq Key
    /\ Library \subseteq Counted
    /\ Web \in Process
    /\ MaxConfig \in Nat
    /\ MaxFailures \in Nat
    /\ "none" \notin Provider

VARIABLES
    provider,  \* the documents: state, isActive, and the edition of path and credentials
    objects,   \* objects[p]: the keys that p holds
    used,      \* the keys that some document shows
    rows,      \* the keys of the library that have a CmsMedia row
    job,       \* the migrations that have not ended: their source and target
    cache,     \* cache[w]: activeProviderId and driverCache of lib/storage/index.js
    scan,      \* the orphan scan: status, provider, scannedKeys and orphanedKeys
    pc,        \* where each request stands
    memory,    \* the providers and the key it deals with, and the edition it has read
    raced,     \* history: two changes of the active provider have overlapped, or one was cut short
    dated,     \* history: requests whose lookup has read a document that was changed since
    stale,     \* history: processes whose cache such a lookup has filled since it was last emptied
    late,      \* history: keys that came into use, or into the library, since the scan began
    failures   \* bound

documents == <<provider, job>>
bytes == <<objects, used, rows, late>>
lookups == <<dated, stale>>
vars == <<documents, bytes, cache, scan, pc, memory, raced, lookups, failures>>

NoScan == [status |-> "none", provider |-> "none", listed |-> {}, orphans |-> {}]
Forgotten == [process |-> Web, source |-> "none", target |-> "none", key |-> "none", config |-> 0]
Empty == [active |-> "none", driver |-> [p \in Provider |-> {}]]

Init ==
    /\ provider = [p \in Provider |->
                      [state |-> IF p = Bootstrapped THEN "there" ELSE "new",
                       active |-> p = Bootstrapped, config |-> 0]]
    /\ objects = [p \in Provider |-> {}]
    /\ used = {}
    /\ rows = {}
    /\ job = {}
    /\ cache = [w \in Process |-> Empty]
    /\ scan = NoScan
    /\ pc = [r \in Request |-> "idle"]
    /\ memory = [r \in Request |-> Forgotten]
    /\ raced = FALSE
    /\ dated = {}
    /\ stale = {}
    /\ late = {}
    /\ failures = 0

-----------------------------------------------------------------------------

There(p) == provider[p].state = "there"
Active == {p \in Provider : There(p) /\ provider[p].active}

Goto(r, stage) == pc' = [pc EXCEPT ![r] = stage] /\ UNCHANGED memory
Over(r) == pc' = [pc EXCEPT ![r] = "idle"] /\ memory' = [memory EXCEPT ![r] = Forgotten]

\* Requests that are about which provider is active, and the jobs' cutover.
Switching == {"findJob", "findCurrent", "list", "createJob", "deactivate", "activate",
              "findJobOf", "deleteProvider"}
Cutover == {"flipSource", "flipTarget", "endCutover", "endJob"}
\* Requests that have changed a document and have yet to empty the cache.
Changing == {"activate", "flipTarget", "endCutover", "invalidate"}
Looking == {"fillActive", "findDriver", "fillDriver"}

Begin(r, stage, known) ==
    /\ pc[r] = "idle"
    /\ pc' = [pc EXCEPT ![r] = stage]
    /\ memory' = [memory EXCEPT ![r] = known]

Race(r) == raced' = (raced \/ \E q \in Request \ {r} : pc[q] \in Switching \cup Cutover)

-----------------------------------------------------------------------------
(* getStorage and getStorageById, by a request that stores a file          *)

Cached(w, p) == cache[w].driver[p] # {}

\* A lookup that has read what was changed since leaves the cache of its process stale.
Outdate(r) ==
    /\ stale' = IF r \in dated THEN stale \cup {memory[r].process} ELSE stale
    /\ dated' = dated \ {r}

\* What is cached is not read again.
StartStore(r) ==
    /\ \E w \in Process, k \in Key \ used, p \in Provider :
          /\ IF cache[w].active = "none" THEN p \in Active ELSE p = cache[w].active
          /\ Begin(r, IF cache[w].active = "none" THEN "fillActive"
                      ELSE IF Cached(w, p) THEN "write" ELSE "findDriver",
                   [Forgotten EXCEPT !.process = w, !.target = p, !.key = k])
    /\ UNCHANGED <<documents, bytes, cache, scan, raced, lookups, failures>>

\* The active provider is remembered as it was read, whatever has happened since.
FillActive(r) ==
    LET k == memory[r] IN
    /\ pc[r] = "fillActive"
    /\ cache' = [cache EXCEPT ![k.process].active = k.target]
    /\ Goto(r, IF Cached(k.process, k.target) THEN "write" ELSE "findDriver")
    /\ Outdate(r)
    /\ UNCHANGED <<documents, bytes, scan, raced, failures>>

FindDriver(r) ==
    LET p == memory[r].target IN
    /\ pc[r] = "findDriver"
    /\ IF There(p)
       THEN /\ pc' = [pc EXCEPT ![r] = "fillDriver"]
            /\ memory' = [memory EXCEPT ![r].config = provider[p].config]
       ELSE Over(r)
    /\ UNCHANGED <<documents, bytes, cache, scan, raced, lookups, failures>>

\* So is the driver built from what was read.
FillDriver(r) ==
    LET k == memory[r] IN
    /\ pc[r] = "fillDriver"
    /\ cache' = [cache EXCEPT ![k.process].driver[k.target] = {k.config}]
    /\ Goto(r, "write")
    /\ Outdate(r)
    /\ UNCHANGED <<documents, bytes, scan, raced, failures>>

\* The object comes first, the document that shows it second.
Write(r) ==
    LET k == memory[r] IN
    /\ pc[r] = "write"
    /\ objects' = [objects EXCEPT ![k.target] = @ \cup {k.key}]
    /\ Goto(r, "saveDocument")
    /\ UNCHANGED <<documents, used, rows, late, cache, scan, raced, lookups, failures>>

\* A document shows the object from now on, or, if it is one of the library's, may be made to.
SaveDocument(r) ==
    LET k == memory[r].key IN
    /\ pc[r] = "saveDocument"
    /\ IF k \in Library THEN rows' = rows \cup {k} /\ UNCHANGED used
       ELSE used' = used \cup {k} /\ UNCHANGED rows
    /\ late' = IF scan.status = "none" THEN late ELSE late \cup {k}
    /\ Over(r)
    /\ UNCHANGED <<documents, objects, cache, scan, raced, lookups, failures>>

\* An editor puts an image of the library, which need not have a row any more, into a page.
Mention(k) ==
    /\ k \in Library \ used
    /\ \E p \in Provider : k \in objects[p]
    /\ used' = used \cup {k}
    /\ late' = IF scan.status = "none" THEN late ELSE late \cup {k}
    /\ UNCHANGED <<documents, objects, rows, cache, scan, pc, memory, raced, lookups, failures>>

\* A document ceases to show the object; its removal, if there is one, may have failed.
Discard(k) ==
    /\ k \in used
    /\ used' = used \ {k}
    /\ UNCHANGED <<documents, objects, rows, late, cache, scan, pc, memory, raced, lookups, failures>>

-----------------------------------------------------------------------------
(* Creation, edit and deletion of a provider                               *)

CreateProvider(p) ==
    /\ provider[p].state = "new"
    /\ provider' = [provider EXCEPT ![p].state = "there"]
    /\ UNCHANGED <<job, bytes, cache, scan, pc, memory, raced, lookups, failures>>

StartPatch(r) ==
    /\ \E p \in Provider :
          /\ There(p)
          /\ provider[p].config < MaxConfig
          /\ Begin(r, "saveConfig", [Forgotten EXCEPT !.target = p])
    /\ UNCHANGED <<documents, bytes, cache, scan, raced, lookups, failures>>

\* Lookups that have read, and have yet to cache, will cache what was true before.
Overtake ==
    /\ dated' = dated \cup {q \in Request : pc[q] \in {"fillActive", "fillDriver"}}
    /\ UNCHANGED stale

\* Mutant: the cache is not emptied.
SaveConfigOnly(r) ==
    LET p == memory[r].target IN
    /\ pc[r] = "saveConfig"
    /\ provider' = IF There(p) /\ provider[p].config < MaxConfig
                   THEN [provider EXCEPT ![p].config = @ + 1] ELSE provider
    /\ Over(r)
    /\ Overtake
    /\ UNCHANGED <<job, bytes, cache, scan, raced, failures>>

SaveConfig(r) ==
    LET p == memory[r].target IN
    /\ pc[r] = "saveConfig"
    /\ IF There(p) /\ provider[p].config < MaxConfig
       THEN provider' = [provider EXCEPT ![p].config = @ + 1] /\ Goto(r, "invalidate")
       ELSE Over(r) /\ UNCHANGED provider
    /\ Overtake
    /\ UNCHANGED <<job, bytes, cache, scan, raced, failures>>

\* invalidateStorageCache, in the process that runs the routes and the jobs.
EmptyCache ==
    /\ cache' = [cache EXCEPT ![Web] = Empty]
    /\ stale' = stale \ {Web}
    /\ UNCHANGED dated

Invalidate(r) ==
    /\ pc[r] = "invalidate"
    /\ EmptyCache
    /\ Over(r)
    /\ UNCHANGED <<documents, bytes, scan, raced, failures>>

StartDelete(r) ==
    /\ \E p \in Provider \ Active :
          There(p) /\ Begin(r, "findJobOf", [Forgotten EXCEPT !.target = p])
    /\ Race(r)
    /\ UNCHANGED <<documents, bytes, cache, scan, lookups, failures>>

\* Mutant: only the source of a migration is spared.
FindJobOfSource(r) ==
    /\ pc[r] = "findJobOf"
    /\ IF \E j \in job : memory[r].target = j[1] THEN Over(r) ELSE Goto(r, "deleteProvider")
    /\ UNCHANGED <<documents, bytes, cache, scan, raced, lookups, failures>>

\* A provider that an orphan scan lists is not spared.
FindJobOf(r) ==
    /\ pc[r] = "findJobOf"
    /\ IF \E j \in job : memory[r].target \in {j[1], j[2]} THEN Over(r) ELSE Goto(r, "deleteProvider")
    /\ UNCHANGED <<documents, bytes, cache, scan, raced, lookups, failures>>

DeleteProvider(r) ==
    /\ pc[r] = "deleteProvider"
    /\ provider' = [provider EXCEPT ![memory[r].target].state = "gone"]
    /\ Overtake
    /\ Goto(r, "invalidate")
    /\ UNCHANGED <<job, bytes, cache, scan, raced, failures>>

-----------------------------------------------------------------------------
(* POST /providers/:id/activate                                            *)

StartActivate(r) ==
    /\ \E p \in Provider \ Active :
          There(p) /\ Begin(r, "findJob", [Forgotten EXCEPT !.target = p])
    /\ Race(r)
    /\ UNCHANGED <<documents, bytes, cache, scan, lookups, failures>>

\* Mutant: a migration in progress is no obstacle.
FindNoJob(r) ==
    /\ pc[r] = "findJob"
    /\ Goto(r, "findCurrent")
    /\ UNCHANGED <<documents, bytes, cache, scan, raced, lookups, failures>>

FindJob(r) ==
    /\ pc[r] = "findJob"
    /\ IF job # {} THEN Over(r) ELSE Goto(r, "findCurrent")
    /\ UNCHANGED <<documents, bytes, cache, scan, raced, lookups, failures>>

FindCurrent(r) ==
    /\ pc[r] = "findCurrent"
    /\ \/ Active = {} /\ Goto(r, "activate")
       \/ \E p \in Active :
             /\ memory' = [memory EXCEPT ![r].source = p]
             /\ pc' = [pc EXCEPT ![r] = "list"]
    /\ UNCHANGED <<documents, bytes, cache, scan, raced, lookups, failures>>

\* An empty provider is replaced at once; else the administrator chooses a mode, or has not.
ListCurrent(r) ==
    /\ pc[r] = "list"
    /\ \/ objects[memory[r].source] = {} /\ Goto(r, "deactivate")
       \/ objects[memory[r].source] # {} /\ (Goto(r, "createJob") \/ Over(r))
    /\ UNCHANGED <<documents, bytes, cache, scan, raced, lookups, failures>>

CreateJob(r) ==
    /\ pc[r] = "createJob"
    /\ job' = job \cup {<<memory[r].source, memory[r].target>>}
    /\ Over(r)
    /\ UNCHANGED <<provider, bytes, cache, scan, raced, lookups, failures>>

\* Mutant: the provider that was active stays so.
DeactivateNobody(r) ==
    /\ pc[r] = "deactivate"
    /\ Goto(r, "activate")
    /\ Overtake
    /\ UNCHANGED <<documents, bytes, cache, scan, raced, failures>>

Deactivate(r) ==
    /\ pc[r] = "deactivate"
    /\ provider' = [provider EXCEPT ![memory[r].source].active = FALSE]
    /\ Goto(r, "activate")
    /\ Overtake
    /\ UNCHANGED <<job, bytes, cache, scan, raced, failures>>

\* target.save() throws when the document is gone.
Activate(r) ==
    LET p == memory[r].target IN
    /\ pc[r] = "activate"
    /\ IF There(p) THEN provider' = [provider EXCEPT ![p].active = TRUE] /\ Goto(r, "invalidate")
       ELSE Over(r) /\ UNCHANGED provider
    /\ Overtake
    /\ UNCHANGED <<job, bytes, cache, scan, raced, failures>>

-----------------------------------------------------------------------------
(* The end of a migration; the worker's ticks do not overlap               *)

Ticking == \E r \in Request : pc[r] \in Cutover

StartCutover(r) ==
    /\ ~Ticking
    /\ \E j \in job : Begin(r, "flipSource", [Forgotten EXCEPT !.source = j[1], !.target = j[2]])
    /\ Race(r)
    /\ UNCHANGED <<documents, bytes, cache, scan, lookups, failures>>

\* The copies are there by now, those of the files that came late included.
FlipSource(r) ==
    LET k == memory[r] IN
    /\ pc[r] = "flipSource"
    /\ provider' = [provider EXCEPT ![k.source].active = FALSE]
    /\ objects' = [objects EXCEPT ![k.target] = @ \cup objects[k.source]]
    /\ Goto(r, "flipTarget")
    /\ Overtake
    /\ UNCHANGED <<job, used, rows, late, cache, scan, raced, failures>>

FlipTarget(r) ==
    /\ pc[r] = "flipTarget"
    /\ provider' = [provider EXCEPT ![memory[r].target].active = TRUE]
    /\ Goto(r, "endCutover")
    /\ Overtake
    /\ UNCHANGED <<job, bytes, cache, scan, raced, failures>>

EndCutover(r) ==
    /\ pc[r] = "endCutover"
    /\ EmptyCache
    /\ Goto(r, "endJob")
    /\ UNCHANGED <<documents, bytes, scan, raced, failures>>

EndJob(r) ==
    /\ pc[r] = "endJob"
    /\ job' = job \ {<<memory[r].source, memory[r].target>>}
    /\ Over(r)
    /\ UNCHANGED <<provider, bytes, cache, scan, raced, lookups, failures>>

\* Cancelled or failed; past the first write of a cutover neither happens any more.
AbandonJob ==
    /\ ~Ticking
    /\ \E j \in job : provider[j[1]].active /\ job' = job \ {j}
    /\ UNCHANGED <<provider, bytes, cache, scan, pc, memory, raced, lookups, failures>>

-----------------------------------------------------------------------------
(* The orphan scan                                                         *)

Scanning == scan.status \in {"planning", "running"}

\* POST /orphan-scan, of the active provider or of any other.
StartScan(p) ==
    /\ ~Scanning
    /\ There(p)
    /\ scan' = [NoScan EXCEPT !.status = "planning", !.provider = p]
    /\ late' = {}
    /\ UNCHANGED <<documents, objects, used, rows, cache, pc, memory, raced, lookups, failures>>

\* runListing; a page that was listed is saved with its cursor, so a restart goes on behind
\* it.  Without its provider the scan fails, unless the driver is still cached.
RunListing ==
    /\ scan.status = "planning"
    /\ \/ scan' = [scan EXCEPT !.status = "running", !.listed = objects[scan.provider]]
       \/ ~There(scan.provider) /\ scan' = [scan EXCEPT !.status = "failed"]
    /\ UNCHANGED <<documents, bytes, cache, pc, memory, raced, lookups, failures>>

\* Mutant: the listed items, instead of their keys, are looked up among the keys in use.
ReconcileCarelessly ==
    /\ scan.status = "running"
    /\ scan' = [scan EXCEPT !.status = "completed", !.listed = {}, !.orphans = scan.listed]
    /\ UNCHANGED <<documents, bytes, cache, pc, memory, raced, lookups, failures>>

\* What runReconcile finds in use; an image in a page only if the library has its row.
Seen == (used \cap Counted) \ (Library \ rows)

\* What no document of the kinds it looks at shows is reported.
RunReconcile ==
    /\ scan.status = "running"
    /\ scan' = [scan EXCEPT !.status = "completed", !.listed = {},
                            !.orphans = scan.listed \ Seen]
    /\ UNCHANGED <<documents, bytes, cache, pc, memory, raced, lookups, failures>>

\* POST /orphan-files/delete: for any provider and any keys, whether or not the last scan, or
\* any scan, has reported them there.  Some removals may fail; the rows of the library go even
\* then, unless the call that deletes them fails.
DeleteOrphans(p, keys) ==
    /\ There(p)
    /\ keys # {}
    /\ \E taken \in SUBSET keys : objects' = [objects EXCEPT ![p] = @ \ taken]
    /\ rows' \in {rows, rows \ keys}
    /\ UNCHANGED <<documents, used, late, cache, scan, pc, memory, raced, lookups, failures>>

-----------------------------------------------------------------------------

\* The next call throws.  markFailed ends a migration whose cutover throws.
Fail(r) ==
    /\ pc[r] \in {"activate", "flipTarget", "saveDocument"}
    /\ failures < MaxFailures
    /\ failures' = failures + 1
    /\ raced' = (raced \/ pc[r] # "saveDocument")
    /\ job' = job \ {<<memory[r].source, memory[r].target>>}
    /\ Over(r)
    /\ UNCHANGED <<provider, bytes, cache, scan, lookups>>

\* The process that runs the routes and the jobs restarts: its cache is empty, its requests
\* are gone, and a cutover is taken up again.
Restart ==
    /\ failures < MaxFailures
    /\ failures' = failures + 1
    /\ raced' = (raced \/ \E r \in Request : pc[r] = "activate")
    /\ cache' = [cache EXCEPT ![Web] = Empty]
    /\ pc' = [r \in Request |-> IF memory[r].process = Web THEN "idle" ELSE pc[r]]
    /\ memory' = [r \in Request |-> IF memory[r].process = Web THEN Forgotten ELSE memory[r]]
    /\ dated' = {r \in dated : memory[r].process # Web}
    /\ stale' = stale \ {Web}
    /\ UNCHANGED <<documents, bytes, scan>>

Next ==
    \/ \E r \in Request :
          \/ StartStore(r) \/ FillActive(r) \/ FindDriver(r) \/ FillDriver(r)
          \/ Write(r) \/ SaveDocument(r)
          \/ StartPatch(r) \/ SaveConfig(r) \/ Invalidate(r)
          \/ StartDelete(r) \/ FindJobOf(r) \/ DeleteProvider(r)
          \/ StartActivate(r) \/ FindJob(r) \/ FindCurrent(r) \/ ListCurrent(r)
          \/ CreateJob(r) \/ Deactivate(r) \/ Activate(r)
          \/ StartCutover(r) \/ FlipSource(r) \/ FlipTarget(r) \/ EndCutover(r) \/ EndJob(r)
          \/ Fail(r)
    \/ \E p \in Provider : CreateProvider(p) \/ StartScan(p)
    \/ \E k \in Key : Mention(k) \/ Discard(k)
    \/ AbandonJob \/ RunListing \/ RunReconcile
    \/ \E p \in Provider, keys \in SUBSET Key : DeleteOrphans(p, keys)
    \/ Restart

Spec == Init /\ [][Next]_vars

-----------------------------------------------------------------------------
(* Properties                                                              *)

\* getStorage's "should be impossible": there is one active provider and one job at most,
\* between two providers that are there, unless two changes of the active provider have
\* overlapped or one was cut short by an error; while a change is between its two writes
\* nobody is active.
OneActive ==
    ~raced =>
        /\ Cardinality(Active) <= 1
        /\ Active = {} => job # {} \/ \E r \in Request : pc[r] \in {"activate", "flipTarget"}
        /\ Cardinality(job) <= 1
        /\ \A j \in job : There(j[1]) /\ There(j[2])

\* index.js:24 "stale credentials/paths are never served from cache": where the routes run,
\* what is cached is what the documents say, save between a change and the invalidation that
\* follows it, and save from the moment a lookup that read before a change fills the cache, be
\* it before or after that invalidation, to the next one; not if a change of the active
\* provider has failed halfway or met another.
CacheFollows ==
    ~raced /\ Web \notin stale /\ (\A r \in Request : pc[r] \notin Changing) =>
        /\ cache[Web].active \in {"none"} \cup Active
        /\ \A p \in Provider : cache[Web].driver[p] \subseteq {provider[p].config}

\* A scan reports no key that was in use, of a kind it looks for, ever since it began, whatever
\* is stored, shown, discarded, moved or deleted meanwhile; except an image of a page whose row
\* in the library a deletion has taken while the object stayed.
ScanSparesUsed ==
    scan.status = "completed" =>
        scan.orphans \cap used \cap Counted \subseteq late \cup (Library \ rows)
=============================================================================
