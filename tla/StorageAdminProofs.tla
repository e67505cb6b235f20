------------------------ MODULE StorageAdminProofs -------------------------
(***************************************************************************)
(* Theorems about StorageAdmin, for every set of providers, processes and  *)
(* keys and every number of requests.                                      *)
(***************************************************************************)
EXTENDS StorageAdmin, FiniteSetTheorems, TLAPS

-----------------------------------------------------------------------------
(* Types                                                                   *)

Storing == {"fillActive", "findDriver", "fillDriver", "write", "saveDocument"}
Switchers == Switching \cup Cutover
Stages == {"idle", "saveConfig", "invalidate"} \cup Storing \cup Switchers

Documents == [state : {"new", "there", "gone"}, active : BOOLEAN, config : 0..MaxConfig]
Memories == [process : Process, source : Provider \cup {"none"}, target : Provider \cup {"none"},
             key : Key \cup {"none"}, config : 0..MaxConfig]
Caches == [active : Provider \cup {"none"}, driver : [Provider -> SUBSET (0..MaxConfig)]]
Scans == [status : {"none", "planning", "running", "completed", "failed"},
          provider : Provider \cup {"none"}, listed : SUBSET Key, orphans : SUBSET Key]

Types ==
    /\ provider \in [Provider -> Documents]
    /\ objects \in [Provider -> SUBSET Key]
    /\ used \in SUBSET Key
    /\ rows \in SUBSET Key
    /\ job \in SUBSET (Provider \X Provider)
    /\ cache \in [Process -> Caches]
    /\ scan \in Scans
    /\ pc \in [Request -> Stages]
    /\ memory \in [Request -> Memories]
    /\ raced \in BOOLEAN
    /\ dated \in SUBSET Request
    /\ stale \in SUBSET Process
    /\ late \in SUBSET Key
    /\ failures \in 0..MaxFailures

\* What a request keeps in mind while it is about a provider, two of them, or a key.
Recalls(r) ==
    /\ pc[r] \in Storing => memory[r].key \in Key /\ memory[r].source = "none"
    /\ pc[r] \notin {"idle", "invalidate"} => memory[r].target \in Provider
    /\ pc[r] \in {"list", "createJob", "deactivate"} \cup Cutover => memory[r].source \in Provider

\* A scan has a provider.
Grounded == scan.status \in {"planning", "running", "completed"} => scan.provider \in Provider

TypeInv == Types /\ Grounded /\ \A r \in Request : Recalls(r)

\* The steps of one request.
Act(r) ==
    \/ StartStore(r) \/ FillActive(r) \/ FindDriver(r) \/ FillDriver(r)
    \/ Write(r) \/ SaveDocument(r)
    \/ StartPatch(r) \/ SaveConfig(r) \/ Invalidate(r)
    \/ StartDelete(r) \/ FindJobOf(r) \/ DeleteProvider(r)
    \/ StartActivate(r) \/ FindJob(r) \/ FindCurrent(r) \/ ListCurrent(r)
    \/ CreateJob(r) \/ Deactivate(r) \/ Activate(r)
    \/ StartCutover(r) \/ FlipSource(r) \/ FlipTarget(r) \/ EndCutover(r) \/ EndJob(r)
    \/ Fail(r)

\* A step of one request leaves the others where they are.
LEMMA OthersWait ==
    ASSUME Types, NEW r \in Request, Act(r)
    PROVE  /\ \A q \in Request \ {r} : pc'[q] = pc[q] /\ memory'[q] = memory[q]
           /\ DOMAIN pc' = Request /\ DOMAIN memory' = Request
<1>0. DOMAIN pc = Request /\ DOMAIN memory = Request
    BY DEF Types
<1>1. \/ \E stage, known : Begin(r, stage, known)
      \/ \E stage : Goto(r, stage)
      \/ Over(r)
      \/ \E stage, known : pc' = [pc EXCEPT ![r] = stage] /\ memory' = [memory EXCEPT ![r] = known]
    <2>1. CASE StartStore(r) \/ StartPatch(r) \/ StartDelete(r) \/ StartActivate(r) \/ StartCutover(r)
        BY <2>1 DEF StartStore, StartPatch, StartDelete, StartActivate, StartCutover
    <2>2. CASE FindDriver(r)
        BY <2>2 DEF FindDriver
    <2>3. CASE FindCurrent(r)
        BY <2>3 DEF FindCurrent
    <2>4. CASE SaveConfig(r) \/ FindJobOf(r) \/ FindJob(r) \/ ListCurrent(r) \/ Activate(r)
        BY <2>4 DEF SaveConfig, FindJobOf, FindJob, ListCurrent, Activate
    <2>5. CASE \/ FillActive(r) \/ FillDriver(r) \/ Write(r) \/ SaveDocument(r) \/ Invalidate(r)
               \/ DeleteProvider(r) \/ CreateJob(r) \/ Deactivate(r) \/ FlipSource(r) \/ FlipTarget(r)
               \/ EndCutover(r) \/ EndJob(r) \/ Fail(r)
        BY <2>5 DEF FillActive, FillDriver, Write, SaveDocument, Invalidate, DeleteProvider, CreateJob,
                    Deactivate, FlipSource, FlipTarget, EndCutover, EndJob, Fail
    <2> QED
        BY <2>1, <2>2, <2>3, <2>4, <2>5 DEF Act
<1> QED
    BY <1>0, <1>1 DEF Begin, Goto, Over

\* Where a request goes, and what it keeps in mind.
LEMMA MindStep ==
    ASSUME TypeInv, NEW r \in Request, Act(r)
    PROVE  pc' \in [Request -> Stages] /\ memory' \in [Request -> Memories] /\ Recalls(r)'
<1>0. /\ pc \in [Request -> Stages] /\ memory \in [Request -> Memories] /\ Recalls(r)
      /\ provider \in [Provider -> Documents] /\ job \in SUBSET (Provider \X Provider)
      /\ cache \in [Process -> Caches]
    BY DEF TypeInv, Types
<1> DEFINE Goal == pc' \in [Request -> Stages] /\ memory' \in [Request -> Memories] /\ Recalls(r)'
<1>1. Forgotten \in Memories
    BY ConstantsAssumption DEF Forgotten, Memories
<1>2. ASSUME Over(r) PROVE Goal
    BY <1>0, <1>1, <1>2 DEF Over, Recalls, Stages, Storing, Cutover
<1>3. ASSUME NEW stage \in Stages, Goto(r, stage),
             stage \in Storing => pc[r] \in Storing,
             stage \notin {"idle", "invalidate"} => pc[r] \notin {"idle", "invalidate"},
             stage \in {"list", "createJob", "deactivate"} \cup Cutover =>
                 pc[r] \in {"list", "createJob", "deactivate"} \cup Cutover
      PROVE  Goal
    <2>1. pc' = [pc EXCEPT ![r] = stage] /\ memory' = memory
        BY <1>3 DEF Goto
    <2>2. pc' \in [Request -> Stages] /\ memory' \in [Request -> Memories] /\ pc'[r] = stage
        BY <1>0, <2>1
    <2> QED
        BY <1>0, <1>3, <2>1, <2>2 DEF Recalls
<1>4. ASSUME NEW stage \in Stages, NEW known \in Memories,
             pc' = [pc EXCEPT ![r] = stage], memory' = [memory EXCEPT ![r] = known],
             stage \in Storing => known.key \in Key /\ known.source = "none",
             stage \notin {"idle", "invalidate"} => known.target \in Provider,
             stage \in {"list", "createJob", "deactivate"} \cup Cutover => known.source \in Provider
      PROVE  Goal
    <2>1. /\ pc' \in [Request -> Stages] /\ memory' \in [Request -> Memories]
          /\ pc'[r] = stage /\ memory'[r] = known
        BY <1>0, <1>4
    <2> QED
        BY <1>4, <2>1 DEF Recalls
<1>5. CASE StartStore(r)
    <2>1. PICK w \in Process, k \in Key, p \in Provider,
               stage \in {"fillActive", "write", "findDriver"} :
             Begin(r, stage, [Forgotten EXCEPT !.process = w, !.target = p, !.key = k])
        BY <1>5 DEF StartStore
    <2> DEFINE known == [Forgotten EXCEPT !.process = w, !.target = p, !.key = k]
    <2>2. known \in Memories /\ known.key = k /\ known.source = "none" /\ known.target = p
        <3>1. known \in Memories
            BY <1>1 DEF Memories
        <3>2. known.key = k /\ known.target = p /\ known.source = Forgotten.source
            BY <1>1 DEF Memories
        <3> QED
            BY <3>1, <3>2 DEF Forgotten
    <2>3. stage \in Stages /\ stage \notin {"list", "createJob", "deactivate"} \cup Cutover
        BY DEF Stages, Storing, Cutover
    <2> HIDE DEF known
    <2>4. pc' = [pc EXCEPT ![r] = stage] /\ memory' = [memory EXCEPT ![r] = known]
        BY <2>1 DEF Begin, known
    <2> QED
        BY <1>4, <2>2, <2>3, <2>4
<1>6. CASE StartPatch(r) \/ StartDelete(r) \/ StartActivate(r)
    <2>1. PICK p \in Provider, stage \in {"saveConfig", "findJobOf", "findJob"} :
             Begin(r, stage, [Forgotten EXCEPT !.target = p])
        BY <1>6 DEF StartPatch, StartDelete, StartActivate
    <2> DEFINE known == [Forgotten EXCEPT !.target = p]
    <2>2. known \in Memories /\ known.target = p
        BY ConstantsAssumption DEF Forgotten, Memories
    <2>3. stage \in Stages /\ stage \notin Storing \cup {"list", "createJob", "deactivate"} \cup Cutover
        BY DEF Stages, Storing, Cutover, Switchers, Switching
    <2> HIDE DEF known
    <2>4. pc' = [pc EXCEPT ![r] = stage] /\ memory' = [memory EXCEPT ![r] = known]
        BY <2>1 DEF Begin, known
    <2> QED
        BY <1>4, <2>2, <2>3, <2>4
<1>7. CASE StartCutover(r)
    <2>1. PICK j \in job : Begin(r, "flipSource", [Forgotten EXCEPT !.source = j[1], !.target = j[2]])
        BY <1>7 DEF StartCutover
    <2>2. j[1] \in Provider /\ j[2] \in Provider
        BY <1>0, <2>1
    <2> DEFINE known == [Forgotten EXCEPT !.source = j[1], !.target = j[2]]
    <2>3. known \in Memories /\ known.source \in Provider /\ known.target \in Provider
        <3>1. known \in Memories
            BY <1>1, <2>2 DEF Memories
        <3>2. known.source = j[1] /\ known.target = j[2]
            BY <1>1 DEF Memories
        <3> QED
            BY <2>2, <3>1, <3>2
    <2>4. "flipSource" \in Stages /\ "flipSource" \notin Storing
        BY DEF Stages, Storing, Cutover, Switchers
    <2> HIDE DEF known
    <2>5. pc' = [pc EXCEPT ![r] = "flipSource"] /\ memory' = [memory EXCEPT ![r] = known]
        BY <2>1 DEF Begin, known
    <2> QED
        BY <1>4, <2>3, <2>4, <2>5
<1>8. CASE FindDriver(r)
    <2> DEFINE p == memory[r].target
               known == [memory[r] EXCEPT !.config = provider[p].config]
    <2>1. pc[r] = "findDriver" /\ p \in Provider /\ memory[r].key \in Key /\ memory[r].source = "none"
        BY <1>0, <1>8 DEF FindDriver, Recalls, Storing
    <2>2. provider[p].config \in 0..MaxConfig
        BY <1>0, <2>1 DEF Documents
    <2>3. /\ known \in Memories /\ known.target = p /\ known.key = memory[r].key
          /\ known.source = memory[r].source
        BY <1>0, <2>2 DEF Memories
    <2>4. "fillDriver" \in Stages /\ "fillDriver" \notin {"list", "createJob", "deactivate"} \cup Cutover
        BY DEF Stages, Storing, Cutover
    <2>5. CASE Over(r)
        BY <1>2, <2>5
    <2>6. CASE pc' = [pc EXCEPT ![r] = "fillDriver"] /\ memory' = [memory EXCEPT ![r] = known]
        BY <1>4, <2>1, <2>3, <2>4, <2>6
    <2> QED
        BY <1>8, <2>5, <2>6 DEF FindDriver
<1>9. CASE FindCurrent(r)
    <2>1. pc[r] = "findCurrent" /\ memory[r].target \in Provider
        BY <1>0, <1>9 DEF FindCurrent, Recalls
    <2>2. CASE Goto(r, "activate")
        BY <1>3, <2>1, <2>2 DEF Stages, Switchers, Switching, Storing, Cutover
    <2>3. CASE \E p \in Active : /\ memory' = [memory EXCEPT ![r].source = p]
                                 /\ pc' = [pc EXCEPT ![r] = "list"]
        <3>1. PICK p \in Active : /\ memory' = [memory EXCEPT ![r].source = p]
                                  /\ pc' = [pc EXCEPT ![r] = "list"]
            BY <2>3
        <3> DEFINE known == [memory[r] EXCEPT !.source = p]
        <3>2. p \in Provider
            BY DEF Active
        <3>3. known \in Memories /\ known.target = memory[r].target /\ known.source = p
            BY <1>0, <3>2 DEF Memories
        <3>4. "list" \in Stages /\ "list" \notin Storing
            BY DEF Stages, Switchers, Switching, Storing
        <3>5. memory' = [memory EXCEPT ![r] = known]
            BY <3>1
        <3> HIDE DEF known
        <3> QED
            BY <1>4, <2>1, <3>1, <3>2, <3>3, <3>4, <3>5
    <2> QED
        BY <1>9, <2>2, <2>3 DEF FindCurrent
<1>10. CASE \/ FillActive(r) \/ FillDriver(r) \/ Write(r)
    <2>1. /\ pc[r] \in Storing
          /\ \E stage \in {"write", "findDriver", "saveDocument"} : Goto(r, stage)
        BY <1>10 DEF FillActive, FillDriver, Write, Storing
    <2> QED
        BY <1>3, <2>1 DEF Stages, Storing, Cutover
<1>11. CASE SaveConfig(r) \/ DeleteProvider(r) \/ Activate(r)
    <2>1. Over(r) \/ Goto(r, "invalidate")
        BY <1>11 DEF SaveConfig, DeleteProvider, Activate
    <2> QED
        BY <1>2, <1>3, <2>1 DEF Stages, Storing, Cutover
<1>12. CASE FindJobOf(r) \/ FindJob(r)
    <2>1. /\ pc[r] \in {"findJobOf", "findJob"}
          /\ Over(r) \/ \E stage \in {"deleteProvider", "findCurrent"} : Goto(r, stage)
        BY <1>12 DEF FindJobOf, FindJob
    <2> QED
        BY <1>2, <1>3, <2>1 DEF Stages, Storing, Cutover, Switchers, Switching
<1>13. CASE ListCurrent(r) \/ Deactivate(r)
    <2>1. /\ pc[r] \in {"list", "deactivate"}
          /\ Over(r) \/ \E stage \in {"deactivate", "createJob", "activate"} : Goto(r, stage)
        BY <1>13 DEF ListCurrent, Deactivate
    <2> QED
        BY <1>2, <1>3, <2>1 DEF Stages, Storing, Cutover, Switchers, Switching
<1>14. CASE FlipSource(r) \/ FlipTarget(r) \/ EndCutover(r)
    <2>1. /\ pc[r] \in Cutover
          /\ \E stage \in {"flipTarget", "endCutover", "endJob"} : Goto(r, stage)
        BY <1>14 DEF FlipSource, FlipTarget, EndCutover, Cutover
    <2> QED
        BY <1>3, <2>1 DEF Stages, Storing, Cutover, Switchers
<1>15. CASE SaveDocument(r) \/ Invalidate(r) \/ CreateJob(r) \/ EndJob(r) \/ Fail(r)
    BY <1>2, <1>15 DEF SaveDocument, Invalidate, CreateJob, EndJob, Fail
<1> QED
    BY <1>5, <1>6, <1>7, <1>8, <1>9, <1>10, <1>11, <1>12, <1>13, <1>14, <1>15 DEF Act

\* What the steps of a request write besides.
LEMMA ActTypes ==
    ASSUME TypeInv, NEW r \in Request, Act(r)
    PROVE  /\ provider' \in [Provider -> Documents]
           /\ objects' \in [Provider -> SUBSET Key]
           /\ used' \in SUBSET Key /\ rows' \in SUBSET Key /\ late' \in SUBSET Key
           /\ job' \in SUBSET (Provider \X Provider)
           /\ cache' \in [Process -> Caches]
           /\ raced' \in BOOLEAN /\ failures' \in 0..MaxFailures
           /\ dated' \in SUBSET Request /\ stale' \in SUBSET Process
           /\ scan' = scan
<1> USE DEF lookups
<1>0. Types /\ Recalls(r)
    BY DEF TypeInv
<1>1. /\ provider \in [Provider -> Documents] /\ memory \in [Request -> Memories]
      /\ objects \in [Provider -> SUBSET Key]
      /\ used \in SUBSET Key /\ rows \in SUBSET Key /\ late \in SUBSET Key
      /\ job \in SUBSET (Provider \X Provider) /\ cache \in [Process -> Caches]
      /\ raced \in BOOLEAN /\ failures \in 0..MaxFailures
      /\ dated \in SUBSET Request /\ stale \in SUBSET Process
    BY <1>0 DEF Types
<1> DEFINE Kept == provider' \in [Provider -> Documents]
<1>2. provider' = provider => Kept
    BY <1>1
<1>3. ASSUME NEW p \in Provider, NEW d \in Documents, provider' = [provider EXCEPT ![p] = d] PROVE Kept
    BY <1>1, <1>3
<1>4. ASSUME Overtake PROVE dated' \in SUBSET Request /\ stale' \in SUBSET Process
    BY <1>1, <1>4 DEF Overtake
<1>5. ASSUME EmptyCache
      PROVE  /\ cache' \in [Process -> Caches]
             /\ dated' \in SUBSET Request /\ stale' \in SUBSET Process
    BY <1>1, <1>5 DEF EmptyCache, Empty, Caches
<1>21. ASSUME Outdate(r) PROVE dated' \in SUBSET Request /\ stale' \in SUBSET Process
    <2>1. memory[r].process \in Process
        BY <1>1 DEF Memories
    <2> QED
        BY <1>1, <1>21, <2>1 DEF Outdate
<1>6. ASSUME Race(r) PROVE raced' \in BOOLEAN
    BY <1>6 DEF Race
<1>7. CASE StartStore(r) \/ FindDriver(r) \/ StartPatch(r) \/ FindJobOf(r) \/ FindJob(r)
           \/ FindCurrent(r) \/ ListCurrent(r)
    BY <1>1, <1>2, <1>7 DEF StartStore, FindDriver, StartPatch, FindJobOf, FindJob, FindCurrent, ListCurrent,
                     documents, bytes
<1>8. CASE StartDelete(r) \/ StartActivate(r) \/ StartCutover(r)
    BY <1>1, <1>2, <1>6, <1>8 DEF StartDelete, StartActivate, StartCutover, documents, bytes
<1>9. CASE FillActive(r)
    <2>1. memory[r].target \in Provider
        BY <1>0, <1>9 DEF FillActive, Recalls
    <2>2. cache' \in [Process -> Caches]
        BY <1>1, <1>9, <2>1 DEF FillActive, Caches
    <2> QED
        BY <1>1, <1>2, <1>9, <1>21, <2>2 DEF FillActive, documents, bytes
<1>10. CASE FillDriver(r)
    <2>1. memory[r].target \in Provider /\ memory[r].config \in 0..MaxConfig
        BY <1>0, <1>1, <1>10 DEF FillDriver, Recalls, Memories
    <2>2. cache' \in [Process -> Caches]
        BY <1>1, <1>10, <2>1 DEF FillDriver, Caches
    <2> QED
        BY <1>1, <1>2, <1>10, <1>21, <2>2 DEF FillDriver, documents, bytes
<1>11. CASE Write(r) \/ SaveDocument(r)
    <2>1. memory[r].target \in Provider /\ memory[r].key \in Key
        BY <1>0, <1>11 DEF Write, SaveDocument, Recalls, Storing
    <2> QED
        BY <1>1, <1>2, <1>11, <2>1 DEF Write, SaveDocument, documents
<1>12. CASE SaveConfig(r)
    <2> DEFINE p == memory[r].target
               d == [provider[p] EXCEPT !.config = @ + 1]
    <2>1. p \in Provider
        BY <1>0, <1>12 DEF SaveConfig, Recalls
    <2>2. provider' = provider \/ (provider[p].config < MaxConfig /\ provider' = [provider EXCEPT ![p] = d])
        BY <1>12 DEF SaveConfig
    <2>3. provider[p].config < MaxConfig =>
              d \in Documents
        BY <1>1, <2>1, ConstantsAssumption DEF Documents
    <2>4. Kept
        <3> HIDE DEF d
        <3> QED
            BY <1>1, <1>2, <1>3, <2>1, <2>2, <2>3
    <2> QED
        BY <1>1, <1>4, <1>12, <2>4 DEF SaveConfig, bytes
<1>13. CASE Invalidate(r)
    BY <1>1, <1>2, <1>5, <1>13 DEF Invalidate, documents, bytes
<1>14. CASE DeleteProvider(r)
    <2> DEFINE p == memory[r].target
               d == [provider[p] EXCEPT !.state = "gone"]
    <2>1. p \in Provider
        BY <1>0, <1>14 DEF DeleteProvider, Recalls
    <2>2. d \in Documents /\ provider' = [provider EXCEPT ![p] = d]
        BY <1>1, <1>14, <2>1 DEF DeleteProvider, Documents
    <2>3. Kept
        <3> HIDE DEF d
        <3> QED
            BY <1>3, <2>1, <2>2
    <2> QED
        BY <1>1, <1>4, <1>14, <2>3 DEF DeleteProvider, bytes
<1>15. CASE CreateJob(r)
    <2>1. memory[r].source \in Provider /\ memory[r].target \in Provider
        BY <1>0, <1>15 DEF CreateJob, Recalls
    <2> QED
        BY <1>1, <1>2, <1>15, <2>1 DEF CreateJob, bytes
<1>16. CASE Deactivate(r) \/ FlipSource(r)
    <2> DEFINE p == memory[r].source
               d == [provider[p] EXCEPT !.active = FALSE]
    <2>1. p \in Provider /\ memory[r].target \in Provider
        BY <1>0, <1>16 DEF Deactivate, FlipSource, Recalls, Cutover
    <2>2. d \in Documents /\ provider' = [provider EXCEPT ![p] = d]
        <3>1. provider' = [provider EXCEPT ![p] = d]
            BY <1>16 DEF Deactivate, FlipSource
        <3> QED
            BY <1>1, <2>1, <3>1 DEF Documents
    <2>3. Kept
        <3> HIDE DEF d
        <3> QED
            BY <1>3, <2>1, <2>2
    <2>4. objects' \in [Provider -> SUBSET Key]
        BY <1>1, <1>16, <2>1 DEF Deactivate, FlipSource, bytes
    <2> QED
        BY <1>1, <1>4, <1>16, <2>3, <2>4 DEF Deactivate, FlipSource, bytes
<1>17. CASE Activate(r) \/ FlipTarget(r)
    <2> DEFINE p == memory[r].target
               d == [provider[p] EXCEPT !.active = TRUE]
    <2>1. p \in Provider
        BY <1>0, <1>17 DEF Activate, FlipTarget, Recalls
    <2>2. provider' = provider \/ provider' = [provider EXCEPT ![p] = d]
        BY <1>17 DEF Activate, FlipTarget
    <2>3. d \in Documents
        BY <1>1, <2>1 DEF Documents
    <2>4. Kept
        <3> HIDE DEF d
        <3> QED
            BY <1>2, <1>3, <2>1, <2>2, <2>3
    <2> QED
        BY <1>1, <1>4, <1>17, <2>4 DEF Activate, FlipTarget, bytes
<1>18. CASE EndCutover(r)
    BY <1>1, <1>2, <1>5, <1>18 DEF EndCutover, documents, bytes
<1>19. CASE EndJob(r)
    BY <1>1, <1>2, <1>19 DEF EndJob, bytes
<1>20. CASE Fail(r)
    <2>1. failures' \in 0..MaxFailures
        BY <1>1, <1>20, ConstantsAssumption DEF Fail
    <2>2. raced' \in BOOLEAN
        BY <1>20 DEF Fail
    <2> QED
        BY <1>1, <1>2, <1>20, <2>1, <2>2 DEF Fail, bytes
<1> HIDE DEF Kept
<1> QED
    BY <1>7, <1>8, <1>9, <1>10, <1>11, <1>12, <1>13, <1>14, <1>15, <1>16, <1>17, <1>18, <1>19, <1>20
    DEF Act

\* The steps that are no request's: documents and scans come, change and go.
World ==
    \/ \E p \in Provider : CreateProvider(p) \/ StartScan(p)
    \/ \E k \in Key : Mention(k) \/ Discard(k)
    \/ AbandonJob \/ RunListing \/ RunReconcile
    \/ \E p \in Provider, keys \in SUBSET Key : DeleteOrphans(p, keys)

LEMMA Steps == [Next]_vars => (\E r \in Request : Act(r)) \/ World \/ Restart \/ UNCHANGED vars
BY DEF Next, Act, World

\* What the steps of nobody leave alone.
LEMMA WorldKeeps ==
    ASSUME World
    PROVE  UNCHANGED <<cache, pc, memory, raced, lookups, failures>>
BY DEF World, CreateProvider, StartScan, Mention, Discard, AbandonJob, RunListing, RunReconcile, DeleteOrphans

LEMMA WorldTypes == ASSUME TypeInv, World PROVE Types' /\ Grounded'
<1>1. Types /\ Grounded /\ UNCHANGED <<cache, pc, memory, raced, lookups, failures>>
    BY WorldKeeps DEF TypeInv
<1> USE DEF lookups
<1>2. /\ provider \in [Provider -> Documents] /\ objects \in [Provider -> SUBSET Key]
      /\ used \in SUBSET Key /\ job \in SUBSET (Provider \X Provider) /\ scan \in Scans
      /\ late \in SUBSET Key /\ rows \in SUBSET Key
    BY <1>1 DEF Types
<1> DEFINE Goal == /\ provider' \in [Provider -> Documents] /\ objects' \in [Provider -> SUBSET Key]
                   /\ used' \in SUBSET Key /\ job' \in SUBSET (Provider \X Provider)
                   /\ scan' \in Scans /\ late' \in SUBSET Key /\ rows' \in SUBSET Key /\ Grounded'
<1> SUFFICES Goal
    BY <1>1 DEF Types
<1>3. CASE \E p \in Provider : CreateProvider(p)
    <2>1. PICK p \in Provider : CreateProvider(p)
        BY <1>3
    <2>2. provider' \in [Provider -> Documents]
        BY <1>2, <2>1 DEF CreateProvider, Documents
    <2>3. UNCHANGED <<objects, used, job, scan, late, rows>>
        BY <2>1 DEF CreateProvider, bytes
    <2> QED
        BY <1>1, <1>2, <2>2, <2>3 DEF Grounded
<1>4. CASE \E p \in Provider : StartScan(p)
    <2>1. PICK p \in Provider : StartScan(p)
        BY <1>4
    <2>2. NoScan \in Scans
        BY DEF NoScan, Scans
    <2>3. scan' \in Scans /\ scan'.provider = p
        BY <2>1, <2>2 DEF StartScan, Scans
    <2> QED
        BY <1>2, <2>1, <2>3 DEF StartScan, documents, Grounded
<1>5. CASE \E k \in Key : Mention(k) \/ Discard(k)
    BY <1>1, <1>2, <1>5 DEF Mention, Discard, documents, Grounded
<1>6. CASE AbandonJob
    BY <1>1, <1>2, <1>6 DEF AbandonJob, bytes, Grounded
<1>7. CASE RunListing
    <2>1. scan.provider \in Provider
        BY <1>1, <1>7 DEF RunListing, Grounded
    <2>2. scan' \in Scans /\ scan'.provider = scan.provider
        BY <1>2, <1>7, <2>1 DEF RunListing, Scans
    <2> QED
        BY <1>2, <1>7, <2>1, <2>2 DEF RunListing, documents, bytes, Grounded
<1>8. CASE RunReconcile
    <2>1. scan.provider \in Provider
        BY <1>1, <1>8 DEF RunReconcile, Grounded
    <2>2. scan' \in Scans /\ scan'.provider = scan.provider
        BY <1>2, <1>8 DEF RunReconcile, Scans
    <2> QED
        BY <1>2, <1>8, <2>1, <2>2 DEF RunReconcile, documents, bytes, Grounded
<1>9. CASE \E p \in Provider, keys \in SUBSET Key : DeleteOrphans(p, keys)
    <2>1. PICK p \in Provider, keys \in SUBSET Key : DeleteOrphans(p, keys)
        BY <1>9
    <2>2. objects' \in [Provider -> SUBSET Key] /\ rows' \in SUBSET Key
        BY <1>2, <2>1 DEF DeleteOrphans
    <2> QED
        BY <1>1, <1>2, <2>1, <2>2 DEF DeleteOrphans, documents, Grounded
<1> HIDE DEF Goal
<1> QED
    BY <1>3, <1>4, <1>5, <1>6, <1>7, <1>8, <1>9 DEF World

\* A restart ends the requests of the process and empties its cache.
LEMMA RestartTypes ==
    ASSUME TypeInv, Restart
    PROVE  /\ Types' /\ Grounded'
           /\ \A r \in Request : \/ pc'[r] = pc[r] /\ memory'[r] = memory[r] /\ memory[r].process # Web
                                 \/ pc'[r] = "idle" /\ memory'[r] = Forgotten
           /\ cache'[Web] = Empty
           /\ UNCHANGED <<provider, job, objects, used, rows, late, scan>>
<1>1. Types /\ Grounded
    BY DEF TypeInv
<1>2. UNCHANGED <<provider, job, objects, used, rows, late, scan>>
    BY DEF Restart, documents, bytes
<1>3. /\ cache \in [Process -> Caches] /\ memory \in [Request -> Memories] /\ pc \in [Request -> Stages]
      /\ failures \in 0..MaxFailures /\ Web \in Process
      /\ dated \in SUBSET Request /\ stale \in SUBSET Process
    BY <1>1, ConstantsAssumption DEF Types
<1>4. cache' \in [Process -> Caches] /\ cache'[Web] = Empty
    BY <1>3 DEF Restart, Empty, Caches
<1>5. Forgotten \in Memories
    BY ConstantsAssumption DEF Forgotten, Memories
<1>6. pc' \in [Request -> Stages] /\ memory' \in [Request -> Memories]
    BY <1>3, <1>5 DEF Restart, Stages
<1>7. \A r \in Request : \/ pc'[r] = pc[r] /\ memory'[r] = memory[r] /\ memory[r].process # Web
                         \/ pc'[r] = "idle" /\ memory'[r] = Forgotten
    BY <1>3 DEF Restart
<1>8. failures' \in 0..MaxFailures
    BY <1>3, ConstantsAssumption DEF Restart
<1>9. raced' \in BOOLEAN
    BY DEF Restart
<1>10. dated' \in SUBSET Request /\ stale' \in SUBSET Process
    BY <1>3 DEF Restart
<1> QED
    BY <1>1, <1>2, <1>4, <1>6, <1>7, <1>8, <1>9, <1>10 DEF Types, Grounded

LEMMA TypeStep == TypeInv /\ [Next]_vars => TypeInv'
<1> SUFFICES ASSUME TypeInv, [Next]_vars PROVE TypeInv'
    OBVIOUS
<1>1. ASSUME NEW r \in Request, pc'[r] = pc[r], memory'[r] = memory[r] PROVE Recalls(r)'
    BY <1>1 DEF TypeInv, Recalls
<1>2. ASSUME NEW r \in Request, Act(r) PROVE TypeInv'
    <2>1. \A q \in Request : Recalls(q)'
        BY <1>1, <1>2, OthersWait, MindStep DEF TypeInv
    <2>2. Types'
        BY <1>2, MindStep, ActTypes DEF TypeInv, Types
    <2>3. Grounded'
        BY <1>2, ActTypes DEF TypeInv, Grounded
    <2> QED
        BY <2>1, <2>2, <2>3 DEF TypeInv
<1>3. CASE World
    <2>1. \A r \in Request : Recalls(r)'
        BY <1>1, <1>3, WorldKeeps
    <2> QED
        BY <1>3, <2>1, WorldTypes DEF TypeInv
<1>4. CASE Restart
    <2>1. \A r \in Request : Recalls(r)'
        <3>1. ASSUME NEW r \in Request, pc'[r] = "idle" PROVE Recalls(r)'
            BY <3>1 DEF Recalls, Storing, Cutover
        <3> QED
            BY <1>1, <1>4, <3>1, RestartTypes
    <2> QED
        BY <1>4, <2>1, RestartTypes DEF TypeInv
<1>5. CASE UNCHANGED vars
    BY <1>5 DEF vars, documents, bytes, lookups, TypeInv, Types, Grounded, Recalls
<1> QED
    BY <1>2, <1>3, <1>4, <1>5, Steps

-----------------------------------------------------------------------------
(* What a scan spares                                                      *)

\* A step that reports nothing new, and brings no key into use that is not late, keeps what a
\* scan spares; a scan that has just looked has reported nothing it has seen.
LEMMA OrphanStep == TypeInv /\ ScanSparesUsed /\ [Next]_vars => ScanSparesUsed'
<1> SUFFICES ASSUME TypeInv, ScanSparesUsed, [Next]_vars PROVE ScanSparesUsed'
    OBVIOUS
<1>0. scan \in Scans /\ NoScan \in Scans
    BY DEF TypeInv, Types, NoScan, Scans
<1>1. ASSUME scan' = scan, used' \subseteq used, rows' \subseteq rows, late' = late
      PROVE  ScanSparesUsed'
    BY <1>1 DEF ScanSparesUsed
<1>2. ASSUME NEW k, scan' = scan, used' \subseteq used \cup {k}, rows' \subseteq rows \cup {k},
             late' = IF scan.status = "none" THEN late ELSE late \cup {k}
      PROVE  ScanSparesUsed'
    BY <1>2 DEF ScanSparesUsed
<1>3. ASSUME NEW r \in Request, Act(r) PROVE ScanSparesUsed'
    <2>1. CASE SaveDocument(r)
        BY <1>2, <2>1 DEF SaveDocument
    <2>2. CASE Act(r) /\ ~SaveDocument(r)
        <3>1. scan' = scan
            BY <2>2, ActTypes
        <3>2. used' = used /\ rows' = rows /\ late' = late
            BY <2>2 DEF Act, StartStore, FillActive, FindDriver, FillDriver, Write, StartPatch, SaveConfig,
                        Invalidate, StartDelete, FindJobOf, DeleteProvider, StartActivate, FindJob,
                        FindCurrent, ListCurrent, CreateJob, Deactivate, Activate, StartCutover,
                        FlipSource, FlipTarget, EndCutover, EndJob, Fail, bytes
        <3> QED
            BY <1>1, <3>1, <3>2
    <2> QED
        BY <1>3, <2>1, <2>2
<1>4. CASE \E p \in Provider : CreateProvider(p)
    BY <1>1, <1>4 DEF CreateProvider, bytes
<1>5. CASE \E p \in Provider : StartScan(p)
    <2>1. scan'.status = "planning"
        BY <1>0, <1>5 DEF StartScan, Scans
    <2> QED
        BY <2>1 DEF ScanSparesUsed
<1>6. CASE \E k \in Key : Mention(k) \/ Discard(k)
    <2>1. PICK k \in Key : Mention(k) \/ Discard(k)
        BY <1>6
    <2>2. CASE Mention(k)
        BY <1>2, <2>2 DEF Mention
    <2>3. CASE Discard(k)
        BY <1>1, <2>3 DEF Discard
    <2> QED
        BY <2>1, <2>2, <2>3
<1>7. CASE AbandonJob
    BY <1>1, <1>7 DEF AbandonJob, bytes
<1>8. CASE RunListing
    <2>1. scan'.status # "completed"
        BY <1>0, <1>8 DEF RunListing, Scans
    <2> QED
        BY <2>1 DEF ScanSparesUsed
<1>9. CASE RunReconcile
    <2>1. scan'.orphans = scan.listed \ Seen /\ used' = used /\ rows' = rows
        BY <1>0, <1>9 DEF RunReconcile, Scans, bytes
    <2> QED
        BY <2>1 DEF ScanSparesUsed, Seen
<1>10. CASE \E p \in Provider, keys \in SUBSET Key : DeleteOrphans(p, keys)
    BY <1>1, <1>10 DEF DeleteOrphans
<1>11. CASE Restart
    BY <1>1, <1>11, RestartTypes
<1>12. CASE UNCHANGED vars
    BY <1>1, <1>12 DEF vars, bytes
<1> QED
    BY <1>3, <1>4, <1>5, <1>6, <1>7, <1>8, <1>9, <1>10, <1>11, <1>12, Steps DEF World

-----------------------------------------------------------------------------
(* One active provider                                                     *)

Activating == {"findCurrent", "list", "createJob", "deactivate", "activate"}

\* What a request that is about the active provider may rely on.
Consistent(r) ==
    LET s == memory[r].source
        t == memory[r].target IN
    /\ pc[r] \in Activating \cup {"findJob"} => There(t) /\ t \notin Active
    /\ pc[r] \in Activating => job = {}
    /\ pc[r] \in {"list", "createJob", "deactivate"} => Active = {s}
    /\ pc[r] = "activate" => Active = {}
    /\ pc[r] \in {"findJobOf", "deleteProvider"} => t \notin Active
    /\ pc[r] = "deleteProvider" => \A j \in job : t \notin {j[1], j[2]}
    /\ pc[r] \in Cutover => <<s, t>> \in job
    /\ pc[r] = "flipTarget" => s \notin Active
    /\ pc[r] \in {"endCutover", "endJob"} => t \in Active

\* Providers and jobs, whoever is between which steps.
Ordered ==
    /\ \A p \in Provider : provider[p].state = "new" => ~provider[p].active
    /\ \A p, q \in Active : p = q
    /\ \A i, j \in job : i = j
    /\ \A j \in job : There(j[1]) /\ There(j[2]) /\ j[1] # j[2] /\ Active \subseteq {j[1], j[2]}
    /\ Active = {} => job # {} \/ \E r \in Request : pc[r] = "activate"

\* Until two changes overlap, one request at a time changes which provider is active.
SwitchInv ==
    ~raced =>
        /\ \A r, q \in Request : pc[r] \in Switchers /\ pc[q] \in Switchers => r = q
        /\ Ordered
        /\ \A r \in Request : Consistent(r)

\* A change that has overlapped another is not forgotten.
LEMMA Unraced ==
    ASSUME TypeInv, [Next]_vars, ~raced'
    PROVE  ~raced
<1>1. ASSUME NEW r \in Request, Act(r) PROVE raced' = raced \/ Race(r) \/ Fail(r)
    BY <1>1 DEF Act, StartStore, FillActive, FindDriver, FillDriver, Write, SaveDocument, StartPatch,
                SaveConfig, Invalidate, StartDelete, FindJobOf, DeleteProvider, StartActivate, FindJob,
                FindCurrent, ListCurrent, CreateJob, Deactivate, Activate, StartCutover, FlipSource,
                FlipTarget, EndCutover, EndJob
<1>2. ASSUME NEW r \in Request, Race(r) PROVE ~raced
    BY <1>2 DEF Race
<1>3. ASSUME NEW r \in Request, Fail(r) PROVE ~raced
    BY <1>3 DEF Fail
<1>4. ASSUME Restart PROVE ~raced
    BY <1>4 DEF Restart
<1>5. ASSUME World \/ UNCHANGED vars PROVE raced' = raced
    BY <1>5, WorldKeeps DEF vars
<1>6. CASE \E r \in Request : Act(r)
    BY <1>1, <1>2, <1>3, <1>6
<1>7. CASE World \/ UNCHANGED vars
    BY <1>5, <1>7
<1> QED
    BY <1>4, <1>6, <1>7, Steps

\* What the writes of one provider's document do to who is active.
LEMMA ActiveAfter ==
    ASSUME Types, NEW p \in Provider
    PROVE  /\ provider' = [provider EXCEPT ![p].active = FALSE] =>
                 /\ Active' = Active \ {p}
                 /\ \A q \in Provider : provider'[q].state = provider[q].state
                 /\ \A q \in Provider : provider'[q].active => provider[q].active
           /\ provider' = [provider EXCEPT ![p].active = TRUE] /\ There(p) =>
                 /\ Active' = Active \cup {p}
                 /\ \A q \in Provider : provider'[q].state = provider[q].state
                 /\ \A q \in Provider \ {p} : provider'[q].active = provider[q].active
           /\ provider' = [provider EXCEPT ![p].state = "gone"] =>
                 /\ Active' = Active \ {p}
                 /\ \A q \in Provider \ {p} : provider'[q] = provider[q]
                 /\ provider'[p].state = "gone"
<1>0. provider \in [Provider -> Documents]
    BY DEF Types
<1>1. ASSUME provider' = [provider EXCEPT ![p].active = FALSE]
      PROVE  /\ \A q \in Provider \ {p} : provider'[q] = provider[q]
             /\ provider'[p].state = provider[p].state /\ provider'[p].active = FALSE
    BY <1>0, <1>1 DEF Documents
<1>2. ASSUME provider' = [provider EXCEPT ![p].active = TRUE]
      PROVE  /\ \A q \in Provider \ {p} : provider'[q] = provider[q]
             /\ provider'[p].state = provider[p].state /\ provider'[p].active = TRUE
    BY <1>0, <1>2 DEF Documents
<1>3. ASSUME provider' = [provider EXCEPT ![p].state = "gone"]
      PROVE  /\ \A q \in Provider \ {p} : provider'[q] = provider[q]
             /\ provider'[p].state = "gone"
    BY <1>0, <1>3 DEF Documents
<1>4. ASSUME provider' = [provider EXCEPT ![p].active = FALSE]
      PROVE  Active' = Active \ {p}
    BY <1>1, <1>4 DEF Active, There
<1>5. ASSUME provider' = [provider EXCEPT ![p].active = TRUE], There(p)
      PROVE  Active' = Active \cup {p}
    BY <1>2, <1>5 DEF Active, There
<1>6. ASSUME provider' = [provider EXCEPT ![p].state = "gone"]
      PROVE  Active' = Active \ {p}
    BY <1>3, <1>6 DEF Active, There
<1> QED
    BY <1>1, <1>2, <1>3, <1>4, <1>5, <1>6

\* A step that leaves the active provider and the jobs alone, deletes no provider, and moves
\* no request into a change or on with one, leaves all of it in order.
LEMMA Bystander ==
    ASSUME SwitchInv, ~raced, Active' = Active, job' = job,
           \A r \in Request : pc'[r] \in Switchers => pc'[r] = pc[r] /\ memory'[r] = memory[r],
           \A r \in Request : pc[r] = "activate" => pc'[r] = "activate",
           \A p \in Provider : /\ provider[p].state = "there" => provider'[p].state = "there"
                               /\ provider'[p].state = "new" => ~provider'[p].active,
           job \in SUBSET (Provider \X Provider),
           \A r \in Request : pc[r] \in Switchers => memory[r].target \in Provider
    PROVE  SwitchInv'
<1>1. Ordered /\ \A r \in Request : Consistent(r)
    BY DEF SwitchInv
<1>2. \A j \in job : j[1] \in Provider /\ j[2] \in Provider
    OBVIOUS
<1>3. Ordered'
    BY <1>1, <1>2 DEF Ordered, There
<1>4. ASSUME NEW r \in Request, pc'[r] \in Switchers PROVE Consistent(r)'
    <2>1. pc'[r] = pc[r] /\ memory'[r] = memory[r] /\ Consistent(r) /\ memory[r].target \in Provider
        BY <1>1, <1>4
    <2> QED
        BY <2>1 DEF Consistent, There
<1>5. ASSUME NEW r \in Request, pc'[r] \notin Switchers PROVE Consistent(r)'
    BY <1>5 DEF Consistent, Switchers, Switching, Cutover, Activating
<1>6. \A r, q \in Request : pc'[r] \in Switchers /\ pc'[q] \in Switchers => r = q
    BY DEF SwitchInv
<1> QED
    BY <1>3, <1>4, <1>5, <1>6 DEF SwitchInv

\* A step of the only request that changes which provider is active.
LEMMA Turn ==
    ASSUME Types, NEW r \in Request, Act(r), \A q \in Request \ {r} : pc[q] \notin Switchers,
           Ordered', Consistent(r)'
    PROVE  SwitchInv'
<1>1. \A q \in Request \ {r} : pc'[q] \notin Switchers
    BY OthersWait
<1>2. ASSUME NEW q \in Request \ {r} PROVE Consistent(q)'
    <2>1. pc'[q] \notin Switchers
        BY <1>1
    <2> QED
        BY <2>1 DEF Consistent, Switchers, Switching, Cutover, Activating
<1>3. \A q \in Request : Consistent(q)'
    BY <1>2
<1>4. \A q1, q2 \in Request : pc'[q1] \in Switchers /\ pc'[q2] \in Switchers => q1 = q2
    BY <1>1
<1> QED
    BY <1>3, <1>4 DEF SwitchInv

\* The steps of a request that is about the active provider.
LEMMA SwitcherStep ==
    ASSUME TypeInv, SwitchInv, ~raced, ~raced', NEW r \in Request, Act(r), pc[r] \in Switchers
    PROVE  SwitchInv'
<1> DEFINE s == memory[r].source
           t == memory[r].target
<1>0. /\ Types /\ Recalls(r) /\ Consistent(r) /\ Ordered
      /\ pc \in [Request -> Stages] /\ memory \in [Request -> Memories]
      /\ job \in SUBSET (Provider \X Provider)
    BY DEF TypeInv, Types, SwitchInv
<1>1. \A q \in Request \ {r} : pc[q] \notin Switchers
    BY DEF SwitchInv
<1>2. t \in Provider
    BY <1>0 DEF Recalls, Switchers, Switching, Cutover
<1>3. SUFFICES Ordered' /\ Consistent(r)'
    BY <1>0, <1>1, Turn
<1>4. ASSUME NEW stage, Goto(r, stage) PROVE pc'[r] = stage /\ memory'[r] = memory[r]
    BY <1>0, <1>4 DEF Goto
<1>5. ASSUME Over(r) PROVE pc'[r] = "idle" /\ Consistent(r)'
    <2>1. pc'[r] = "idle"
        BY <1>0, <1>5 DEF Over
    <2> QED
        BY <2>1 DEF Consistent, Activating, Cutover
<1>6. ASSUME provider' = provider, job' = job, pc[r] # "activate" PROVE Ordered' /\ Active' = Active
    <2>1. Active' = Active
        BY <1>6 DEF Active, There
    <2>2. \A q \in Request : pc[q] # "activate"
        BY <1>1, <1>6 DEF Switchers, Switching
    <2>3. \A j \in job : j[1] \in Provider /\ j[2] \in Provider
        BY <1>0
    <2> QED
        BY <1>0, <1>6, <2>1, <2>2, <2>3 DEF Ordered, There
<1>7. CASE FindJobOf(r)
    <2>1. /\ provider' = provider /\ job' = job /\ pc[r] = "findJobOf"
          /\ \/ Over(r)
             \/ Goto(r, "deleteProvider") /\ \A j \in job : t \notin {j[1], j[2]}
        BY <1>7 DEF FindJobOf, documents
    <2>2. Ordered' /\ Active' = Active
        BY <1>6, <2>1
    <2>3. CASE Goto(r, "deleteProvider") /\ \A j \in job : t \notin {j[1], j[2]}
        <3>1. pc'[r] = "deleteProvider" /\ memory'[r] = memory[r] /\ t \notin Active
            BY <1>0, <1>4, <2>1, <2>3 DEF Consistent
        <3>2. Consistent(r)'
            BY <2>1, <2>2, <2>3, <3>1 DEF Consistent, Activating, Cutover
        <3> QED
            BY <2>2, <3>2
    <2> QED
        BY <1>5, <2>1, <2>2, <2>3
<1>8. CASE DeleteProvider(r)
    <2>1. /\ provider' = [provider EXCEPT ![t].state = "gone"] /\ job' = job
          /\ pc[r] = "deleteProvider" /\ pc'[r] = "invalidate"
        BY <1>4, <1>8 DEF DeleteProvider
    <2>2. t \notin Active /\ \A j \in job : t \notin {j[1], j[2]}
        BY <1>0, <2>1 DEF Consistent
    <2>3. /\ Active' = Active /\ provider'[t].state = "gone"
          /\ \A q \in Provider \ {t} : provider'[q] = provider[q]
        <3> HIDE DEF t
        <3>1. /\ Active' = Active \ {t} /\ provider'[t].state = "gone"
              /\ \A q \in Provider \ {t} : provider'[q] = provider[q]
            BY <1>0, <1>2, <2>1, ActiveAfter
        <3> QED
            BY <2>2, <3>1
    <2>4. \A q \in Request : pc[q] # "activate"
        BY <1>1, <2>1 DEF Switchers, Switching
    <2>5. \A j \in job : j[1] \in Provider \ {t} /\ j[2] \in Provider \ {t}
        BY <1>0, <2>2
    <2>6. Ordered'
        BY <1>0, <2>1, <2>3, <2>4, <2>5 DEF Ordered, There
    <2>7. Consistent(r)'
        BY <2>1 DEF Consistent, Activating, Cutover
    <2> QED
        BY <2>6, <2>7
<1>9. CASE FindJob(r)
    <2>1. /\ provider' = provider /\ job' = job /\ pc[r] = "findJob"
          /\ Over(r) \/ (Goto(r, "findCurrent") /\ job = {})
        BY <1>9 DEF FindJob, documents
    <2>2. Ordered' /\ Active' = Active
        BY <1>6, <2>1
    <2>3. CASE Goto(r, "findCurrent") /\ job = {}
        <3>1. pc'[r] = "findCurrent" /\ memory'[r] = memory[r] /\ t \notin Active /\ There(t)
            BY <1>0, <1>4, <2>1, <2>3 DEF Consistent
        <3>2. Consistent(r)'
            BY <2>1, <2>2, <2>3, <3>1 DEF Consistent, Activating, Cutover, There
        <3> QED
            BY <2>2, <3>2
    <2> QED
        BY <1>5, <2>1, <2>2, <2>3
<1>10. CASE FindCurrent(r)
    <2>1. provider' = provider /\ job' = job /\ pc[r] = "findCurrent"
        BY <1>10 DEF FindCurrent, documents
    <2>2. Ordered' /\ Active' = Active
        BY <1>6, <2>1
    <2>3. job = {} /\ t \notin Active /\ There(t)
        BY <1>0, <2>1 DEF Consistent, Activating
    <2>4. CASE Active = {} /\ Goto(r, "activate")
        <3>1. pc'[r] = "activate" /\ memory'[r] = memory[r]
            BY <1>4, <2>4
        <3>2. Consistent(r)'
            BY <2>1, <2>2, <2>3, <2>4, <3>1 DEF Consistent, Activating, Cutover, There
        <3> QED
            BY <2>2, <3>2
    <2>5. CASE \E p \in Active : /\ memory' = [memory EXCEPT ![r].source = p]
                                 /\ pc' = [pc EXCEPT ![r] = "list"]
        <3>1. PICK p \in Active : /\ memory' = [memory EXCEPT ![r].source = p]
                                  /\ pc' = [pc EXCEPT ![r] = "list"]
            BY <2>5
        <3>2. pc'[r] = "list" /\ memory'[r].source = p /\ memory'[r].target = t
            BY <1>0, <3>1 DEF Memories
        <3>3. Active = {p}
            BY <1>0 DEF Ordered
        <3>4. Consistent(r)'
            BY <2>1, <2>2, <2>3, <3>2, <3>3 DEF Consistent, Activating, Cutover, There
        <3> QED
            BY <2>2, <3>4
    <2> QED
        BY <1>10, <2>4, <2>5 DEF FindCurrent
<1>11. CASE ListCurrent(r)
    <2>1. /\ provider' = provider /\ job' = job /\ pc[r] = "list"
          /\ Over(r) \/ \E stage \in {"deactivate", "createJob"} : Goto(r, stage)
        BY <1>11 DEF ListCurrent, documents
    <2>2. Ordered' /\ Active' = Active
        BY <1>6, <2>1
    <2>3. ASSUME NEW stage \in {"deactivate", "createJob"}, Goto(r, stage) PROVE Consistent(r)'
        <3>1. pc'[r] = stage /\ memory'[r] = memory[r]
            BY <1>4, <2>3
        <3>2. job = {} /\ t \notin Active /\ There(t) /\ Active = {s}
            BY <1>0, <2>1 DEF Consistent, Activating
        <3> QED
            BY <2>1, <2>2, <3>1, <3>2 DEF Consistent, Activating, Cutover, There
    <2> QED
        BY <1>5, <2>1, <2>2, <2>3
<1>12. CASE CreateJob(r)
    <2>1. /\ provider' = provider /\ job' = job \cup {<<s, t>>} /\ pc[r] = "createJob" /\ Over(r)
        BY <1>12 DEF CreateJob
    <2>2. job = {} /\ t \notin Active /\ There(t) /\ Active = {s}
        BY <1>0, <2>1 DEF Consistent, Activating
    <2>3. Active' = Active
        BY <2>1 DEF Active, There
    <2>4. There(s) /\ s # t
        BY <2>2 DEF Active
    <2>5. job' = {<<s, t>>}
        BY <2>1, <2>2
    <2>6. /\ \A j \in job' : j[1] = s /\ j[2] = t
          /\ \A i, j \in job' : i = j
        BY <2>5
    <2>7. Ordered'
        BY <1>0, <2>1, <2>2, <2>3, <2>4, <2>5, <2>6 DEF Ordered, There
    <2> QED
        BY <1>5, <2>1, <2>7
<1>13. CASE Deactivate(r)
    <2>1. /\ provider' = [provider EXCEPT ![s].active = FALSE] /\ job' = job /\ pc[r] = "deactivate"
          /\ pc'[r] = "activate" /\ memory'[r] = memory[r]
        BY <1>4, <1>13 DEF Deactivate
    <2>2. job = {} /\ t \notin Active /\ There(t) /\ Active = {s} /\ s \in Provider
        BY <1>0, <2>1 DEF Consistent, Activating, Recalls
    <2>3. /\ Active' = Active \ {s}
          /\ \A q \in Provider : provider'[q].state = provider[q].state
          /\ \A q \in Provider : provider'[q].active => provider[q].active
        BY <1>0, <2>1, <2>2, ActiveAfter
    <2>4. Active' = {}
        BY <2>2, <2>3
    <2>5. Ordered'
        BY <1>0, <2>1, <2>2, <2>3, <2>4 DEF Ordered
    <2>6. Consistent(r)'
        BY <1>2, <2>1, <2>2, <2>3, <2>4 DEF Consistent, Activating, Cutover, There
    <2> QED
        BY <2>5, <2>6
<1>14. CASE Activate(r)
    <2>1. pc[r] = "activate" /\ job' = job
        BY <1>14 DEF Activate
    <2>2. job = {} /\ There(t) /\ Active = {}
        BY <1>0, <2>1 DEF Consistent, Activating
    <2>3. provider' = [provider EXCEPT ![t].active = TRUE] /\ pc'[r] = "invalidate"
        BY <1>4, <1>14, <2>2 DEF Activate
    <2>4. /\ Active' = Active \cup {t}
          /\ \A q \in Provider : provider'[q].state = provider[q].state
          /\ \A q \in Provider \ {t} : provider'[q].active = provider[q].active
        BY <1>0, <1>2, <2>2, <2>3, ActiveAfter
    <2>5. Active' = {t} /\ provider[t].state = "there"
        BY <2>2, <2>4 DEF There
    <2>6. Ordered'
        BY <1>0, <2>1, <2>2, <2>4, <2>5 DEF Ordered
    <2>7. Consistent(r)'
        BY <2>3 DEF Consistent, Activating, Cutover
    <2> QED
        BY <2>6, <2>7
<1>15. ASSUME pc[r] \in Cutover
       PROVE  /\ <<s, t>> \in job /\ job = {<<s, t>>} /\ There(s) /\ There(t) /\ s # t
              /\ Active \subseteq {s, t} /\ s \in Provider
              /\ \A j \in job : j[1] = s /\ j[2] = t
    <2>1. <<s, t>> \in job
        BY <1>0, <1>15 DEF Consistent
    <2>2. job = {<<s, t>>}
        BY <1>0, <2>1 DEF Ordered
    <2>3. \A j \in job : j[1] = s /\ j[2] = t
        BY <2>2
    <2>4. s \in Provider
        BY <1>0, <1>15 DEF Recalls
    <2> QED
        BY <1>0, <2>1, <2>2, <2>3, <2>4 DEF Ordered
<1>16. CASE FlipSource(r)
    <2>1. /\ provider' = [provider EXCEPT ![s].active = FALSE] /\ job' = job /\ pc[r] = "flipSource"
          /\ pc'[r] = "flipTarget" /\ memory'[r] = memory[r] /\ pc[r] \in Cutover
        BY <1>4, <1>16 DEF FlipSource, Cutover
    <2>2. /\ Active' = Active \ {s}
          /\ \A q \in Provider : provider'[q].state = provider[q].state
          /\ \A q \in Provider : provider'[q].active => provider[q].active
        BY <1>0, <1>15, <2>1, ActiveAfter
    <2>3. Ordered'
        BY <1>0, <1>2, <1>15, <2>1, <2>2 DEF Ordered, There
    <2>4. Consistent(r)'
        BY <1>15, <2>1, <2>2 DEF Consistent, Activating
    <2> QED
        BY <2>3, <2>4
<1>17. CASE FlipTarget(r)
    <2>1. /\ provider' = [provider EXCEPT ![t].active = TRUE] /\ job' = job /\ pc[r] = "flipTarget"
          /\ pc'[r] = "endCutover" /\ memory'[r] = memory[r] /\ pc[r] \in Cutover
        BY <1>4, <1>17 DEF FlipTarget, Cutover
    <2>2. s \notin Active
        BY <1>0, <2>1 DEF Consistent
    <2>3. /\ Active' = Active \cup {t}
          /\ \A q \in Provider : provider'[q].state = provider[q].state
          /\ \A q \in Provider \ {t} : provider'[q].active = provider[q].active
        BY <1>0, <1>2, <1>15, <2>1, ActiveAfter
    <2>4. Active' = {t} /\ provider[t].state = "there"
        BY <1>15, <2>1, <2>2, <2>3 DEF There
    <2>5. Ordered'
        BY <1>0, <1>2, <1>15, <2>1, <2>3, <2>4 DEF Ordered, There
    <2>6. Consistent(r)'
        BY <1>15, <2>1, <2>4 DEF Consistent, Activating
    <2> QED
        BY <2>5, <2>6
<1>18. CASE EndCutover(r)
    <2>1. /\ provider' = provider /\ job' = job /\ pc[r] = "endCutover"
          /\ pc'[r] = "endJob" /\ memory'[r] = memory[r]
        BY <1>4, <1>18 DEF EndCutover, documents
    <2>2. Ordered' /\ Active' = Active
        BY <1>6, <2>1
    <2>3. t \in Active
        BY <1>0, <2>1 DEF Consistent
    <2>4. Consistent(r)'
        BY <1>15, <2>1, <2>2, <2>3 DEF Consistent, Activating, Cutover
    <2> QED
        BY <2>2, <2>4
<1>19. CASE EndJob(r)
    <2>1. provider' = provider /\ job' = job \ {<<s, t>>} /\ pc[r] = "endJob" /\ Over(r) /\ pc[r] \in Cutover
        BY <1>19 DEF EndJob, Cutover
    <2>2. Active' = Active /\ t \in Active
        BY <1>0, <2>1 DEF Active, There, Consistent
    <2>3. job' = {}
        BY <1>15, <2>1
    <2>4. Ordered'
        BY <1>0, <2>1, <2>2, <2>3 DEF Ordered
    <2> QED
        BY <1>5, <2>1, <2>4
<1>20. CASE Fail(r)
    <2>1. pc[r] \in {"activate", "flipTarget", "saveDocument"} /\ (raced \/ pc[r] # "saveDocument") => raced'
        BY <1>20 DEF Fail
    <2>2. pc[r] \in {"activate", "flipTarget", "saveDocument"}
        BY <1>20 DEF Fail
    <2> QED
        BY <2>1, <2>2, <1>20 DEF Fail, Switchers, Switching, Cutover
<1> HIDE DEF s, t
<1> QED
    BY <1>7, <1>8, <1>9, <1>10, <1>11, <1>12, <1>13, <1>14, <1>16, <1>17, <1>18, <1>19, <1>20
    DEF Act, StartStore, FillActive, FindDriver, FillDriver, Write, SaveDocument, StartPatch,
        SaveConfig, Invalidate, StartDelete, StartActivate, StartCutover, Begin, Switchers, Switching, Cutover

\* A request begins to change which provider is active, with no other under way.
LEMMA StarterStep ==
    ASSUME TypeInv, SwitchInv, ~raced, ~raced', NEW r \in Request,
           StartDelete(r) \/ StartActivate(r) \/ StartCutover(r)
    PROVE  SwitchInv'
<1>0. /\ Types /\ Ordered /\ Act(r)
      /\ pc \in [Request -> Stages] /\ memory \in [Request -> Memories]
      /\ job \in SUBSET (Provider \X Provider)
    BY DEF TypeInv, Types, SwitchInv, Act
<1>1. Race(r) /\ pc[r] = "idle" /\ provider' = provider /\ job' = job
    BY DEF StartDelete, StartActivate, StartCutover, Begin, documents
<1>2. \A q \in Request \ {r} : pc[q] \notin Switchers
    BY <1>1 DEF Race, Switchers
<1>3. Active' = Active
    BY <1>1 DEF Active, There
<1>4. \A j \in job : j[1] \in Provider /\ j[2] \in Provider /\ j = <<j[1], j[2]>>
    BY <1>0
<1>5. \A q \in Request : pc[q] # "activate"
    BY <1>1, <1>2 DEF Switchers, Switching
<1>6. Ordered'
    BY <1>0, <1>1, <1>3, <1>4, <1>5 DEF Ordered, There
<1>7. ASSUME NEW stage, NEW known, Begin(r, stage, known) PROVE pc'[r] = stage /\ memory'[r] = known
    BY <1>0, <1>7 DEF Begin
<1>8. Forgotten \in Memories
    BY ConstantsAssumption DEF Forgotten, Memories
<1>9. CASE StartDelete(r) \/ StartActivate(r)
    <2>1. PICK p \in Provider \ Active, stage \in {"findJobOf", "findJob"} :
             There(p) /\ Begin(r, stage, [Forgotten EXCEPT !.target = p])
        BY <1>9 DEF StartDelete, StartActivate
    <2>2. pc'[r] = stage /\ memory'[r] = [Forgotten EXCEPT !.target = p]
        BY <1>7, <2>1
    <2>3. memory'[r].target = p
        BY <1>8, <2>2 DEF Memories
    <2>4. Consistent(r)'
        BY <1>1, <1>3, <2>1, <2>2, <2>3 DEF Consistent, Activating, Cutover, There
    <2> QED
        BY <1>0, <1>2, <1>6, <2>4, Turn
<1>10. CASE StartCutover(r)
    <2>1. PICK j \in job : Begin(r, "flipSource", [Forgotten EXCEPT !.source = j[1], !.target = j[2]])
        BY <1>10 DEF StartCutover
    <2>2. pc'[r] = "flipSource" /\ memory'[r] = [Forgotten EXCEPT !.source = j[1], !.target = j[2]]
        BY <1>7, <2>1
    <2>3. memory'[r].source = j[1] /\ memory'[r].target = j[2]
        BY <1>8, <2>2 DEF Memories
    <2>4. <<j[1], j[2]>> \in job'
        BY <1>1, <1>4
    <2>5. Consistent(r)'
        BY <2>2, <2>3, <2>4 DEF Consistent, Activating
    <2> QED
        BY <1>0, <1>2, <1>6, <2>5, Turn
<1> QED
    BY <1>9, <1>10

\* A step of a request that is about a file, the credentials of a provider or the cache.
LEMMA OtherStep ==
    ASSUME TypeInv, SwitchInv, ~raced, NEW r \in Request, Act(r), pc[r] \notin Switchers,
           ~(StartDelete(r) \/ StartActivate(r) \/ StartCutover(r))
    PROVE  SwitchInv'
<1>0. /\ Types /\ Recalls(r) /\ \A q \in Request : Recalls(q)
      /\ pc \in [Request -> Stages] /\ memory \in [Request -> Memories]
      /\ provider \in [Provider -> Documents] /\ job \in SUBSET (Provider \X Provider)
    BY DEF TypeInv, Types
<1>1. \/ StartStore(r) \/ FillActive(r) \/ FindDriver(r) \/ FillDriver(r)
      \/ Write(r) \/ SaveDocument(r) \/ StartPatch(r) \/ SaveConfig(r) \/ Invalidate(r)
      \/ Fail(r) /\ pc[r] = "saveDocument"
    BY DEF Act, FindJobOf, DeleteProvider, FindJob, FindCurrent, ListCurrent, CreateJob, Deactivate, Activate,
           FlipSource, FlipTarget, EndCutover, EndJob, Fail, Switchers, Switching, Cutover
<1>2. job' = job
    <2>1. CASE Fail(r) /\ pc[r] = "saveDocument"
        <3>1. memory[r].source = "none" /\ "none" \notin Provider
            BY <1>0, <2>1, ConstantsAssumption DEF Recalls, Storing
        <3>2. <<memory[r].source, memory[r].target>> \notin job
            BY <1>0, <3>1
        <3>3. job' = job \ {<<memory[r].source, memory[r].target>>}
            BY <2>1 DEF Fail
        <3> QED
            BY <3>2, <3>3
    <2> QED
        BY <1>1, <2>1 DEF StartStore, FillActive, FindDriver, FillDriver, Write, SaveDocument,
                          StartPatch, SaveConfig, Invalidate, documents
<1>3. \A p \in Provider : provider'[p].state = provider[p].state /\ provider'[p].active = provider[p].active
    <2>1. CASE SaveConfig(r)
        <3> DEFINE t == memory[r].target
        <3>1. provider' = provider \/ provider' = [provider EXCEPT ![t].config = @ + 1]
            BY <2>1 DEF SaveConfig
        <3>2. t \in Provider
            BY <1>0, <2>1 DEF SaveConfig, Recalls
        <3> QED
            BY <1>0, <3>1, <3>2 DEF Documents
    <2>2. CASE ~SaveConfig(r)
        <3>1. provider' = provider
            BY <1>1, <2>2 DEF StartStore, FillActive, FindDriver, FillDriver, Write, SaveDocument,
                              StartPatch, Invalidate, Fail, documents
        <3> QED
            BY <3>1
    <2> QED
        BY <2>1, <2>2
<1>4. Active' = Active
    BY <1>3 DEF Active, There
<1>5. pc'[r] \notin Switchers
    <2>1. \/ \E stage \in {"idle", "saveConfig", "invalidate"} \cup Storing : \E known : Begin(r, stage, known)
          \/ \E stage \in {"idle", "saveConfig", "invalidate"} \cup Storing : Goto(r, stage)
          \/ Over(r)
          \/ pc' = [pc EXCEPT ![r] = "fillDriver"]
        <3>1. CASE StartStore(r) \/ StartPatch(r)
            BY <3>1 DEF StartStore, StartPatch, Storing
        <3>2. CASE SaveConfig(r) \/ Invalidate(r) \/ SaveDocument(r) \/ Fail(r)
            BY <3>2 DEF SaveConfig, Invalidate, SaveDocument, Fail
        <3>3. CASE FillActive(r) \/ FillDriver(r) \/ Write(r)
            BY <3>3 DEF FillActive, FillDriver, Write, Storing
        <3>4. CASE FindDriver(r)
            BY <3>4 DEF FindDriver
        <3> QED
            BY <1>1, <3>1, <3>2, <3>3, <3>4
    <2>2. \E stage \in {"idle", "saveConfig", "invalidate"} \cup Storing : pc' = [pc EXCEPT ![r] = stage]
        BY <2>1 DEF Begin, Goto, Over, Storing
    <2>3. pc'[r] \in {"idle", "saveConfig", "invalidate"} \cup Storing
        BY <1>0, <2>2
    <2> QED
        BY <2>3 DEF Storing, Switchers, Switching, Cutover
<1>6. \A q \in Request \ {r} : pc'[q] = pc[q] /\ memory'[q] = memory[q]
    BY <1>0, OthersWait
<1>7. pc[r] # "activate"
    BY DEF Switchers, Switching
<1>8. \A q \in Request : pc[q] \in Switchers => memory[q].target \in Provider
    BY <1>0 DEF Recalls, Switchers, Switching, Cutover
<1>9. \A p \in Provider : provider[p].state = "new" => ~provider[p].active
    BY DEF SwitchInv, Ordered
<1>10. /\ \A q \in Request : pc'[q] \in Switchers => pc'[q] = pc[q] /\ memory'[q] = memory[q]
       /\ \A q \in Request : pc[q] = "activate" => pc'[q] = "activate"
       /\ \A p \in Provider : /\ provider[p].state = "there" => provider'[p].state = "there"
                              /\ provider'[p].state = "new" => ~provider'[p].active
    BY <1>3, <1>5, <1>6, <1>7, <1>9
<1> QED
    BY <1>0, <1>2, <1>4, <1>8, <1>10, Bystander

\* The steps of nobody: a job that is given up has its source active still.
LEMMA WorldSwitch ==
    ASSUME TypeInv, SwitchInv, ~raced, World
    PROVE  SwitchInv'
<1>0. /\ Types /\ Ordered /\ \A q \in Request : Recalls(q) /\ Consistent(q)
      /\ provider \in [Provider -> Documents] /\ job \in SUBSET (Provider \X Provider)
    BY DEF TypeInv, Types, SwitchInv
<1>1. pc' = pc /\ memory' = memory
    BY WorldKeeps
<1>2. \A q \in Request : pc[q] \in Switchers => memory[q].target \in Provider
    BY <1>0 DEF Recalls, Switchers, Switching, Cutover
<1>3. ASSUME job' = job, Active' = Active,
             \A p \in Provider : /\ provider[p].state = "there" => provider'[p].state = "there"
                                 /\ provider'[p].state = "new" => ~provider'[p].active
      PROVE  SwitchInv'
    <2>1. \A q \in Request : pc'[q] \in Switchers => pc'[q] = pc[q] /\ memory'[q] = memory[q]
        BY <1>1
    <2>2. \A q \in Request : pc[q] = "activate" => pc'[q] = "activate"
        BY <1>1
    <2> QED
        BY <1>0, <1>2, <1>3, <2>1, <2>2, Bystander
<1>4. CASE \E p \in Provider : CreateProvider(p)
    <2>1. PICK p \in Provider : CreateProvider(p)
        BY <1>4
    <2>2. /\ provider[p].state = "new" /\ job' = job
          /\ provider'[p].state = "there" /\ provider'[p].active = provider[p].active
          /\ \A q \in Provider \ {p} : provider'[q] = provider[q]
        BY <1>0, <2>1 DEF CreateProvider, Documents
    <2>3. ~provider[p].active
        BY <1>0, <2>2 DEF Ordered
    <2>4. Active' = Active
        BY <2>2, <2>3 DEF Active, There
    <2>5. \A q \in Provider : /\ provider[q].state = "there" => provider'[q].state = "there"
                              /\ provider'[q].state = "new" => ~provider'[q].active
        BY <1>0, <2>2 DEF Ordered
    <2> QED
        BY <1>3, <2>2, <2>4, <2>5
<1>5. CASE AbandonJob
    <2>1. PICK j \in job : provider[j[1]].active /\ job' = job \ {j}
        BY <1>5 DEF AbandonJob
    <2>2. ~Ticking /\ provider' = provider
        BY <1>5 DEF AbandonJob
    <2>3. Active' = Active
        BY <2>2 DEF Active, There
    <2>4. j[1] \in Active /\ \A i \in job : i[1] \in Provider /\ i[2] \in Provider
        BY <1>0, <2>1 DEF Ordered, Active
    <2>5. Ordered'
        BY <1>0, <2>1, <2>2, <2>3, <2>4 DEF Ordered, There
    <2>6. \A q \in Request : pc[q] \notin Cutover
        BY <2>2 DEF Ticking
    <2>7. ASSUME NEW q \in Request PROVE Consistent(q)'
        <3>1. Consistent(q) /\ pc[q] \notin Cutover
            BY <1>0, <2>6
        <3> QED
            BY <1>1, <2>1, <2>2, <2>3, <3>1 DEF Consistent, There, Cutover
    <2>8. \A q1, q2 \in Request : pc'[q1] \in Switchers /\ pc'[q2] \in Switchers => q1 = q2
        BY <1>1 DEF SwitchInv
    <2> QED
        BY <2>5, <2>7, <2>8 DEF SwitchInv
<1>6. CASE \/ \E p \in Provider : StartScan(p)
           \/ \E k \in Key : Mention(k) \/ Discard(k)
           \/ RunListing \/ RunReconcile
           \/ \E p \in Provider, keys \in SUBSET Key : DeleteOrphans(p, keys)
    <2>1. provider' = provider /\ job' = job
        BY <1>6 DEF StartScan, Mention, Discard, RunListing, RunReconcile, DeleteOrphans, documents
    <2>2. Active' = Active
        BY <2>1 DEF Active, There
    <2>3. \A p \in Provider : provider'[p].state = "new" => ~provider'[p].active
        BY <1>0, <2>1 DEF Ordered
    <2> QED
        BY <1>3, <2>1, <2>2, <2>3
<1> QED
    BY <1>4, <1>5, <1>6 DEF World

LEMMA SwitchStep == TypeInv /\ SwitchInv /\ [Next]_vars => SwitchInv'
<1> SUFFICES ASSUME TypeInv, SwitchInv, [Next]_vars, ~raced' PROVE SwitchInv'
    BY DEF SwitchInv
<1>0. ~raced
    BY Unraced
<1>1. ASSUME NEW r \in Request, Act(r) PROVE SwitchInv'
    <2>1. CASE pc[r] \in Switchers
        BY <1>0, <1>1, <2>1, SwitcherStep
    <2>2. CASE StartDelete(r) \/ StartActivate(r) \/ StartCutover(r)
        BY <1>0, <2>2, StarterStep
    <2> QED
        BY <1>0, <1>1, <2>1, <2>2, OtherStep
<1>2. CASE World
    BY <1>0, <1>2, WorldSwitch
<1>3. CASE Restart
    <2>0. /\ Ordered /\ \A q \in Request : Recalls(q)
          /\ job \in SUBSET (Provider \X Provider) /\ pc \in [Request -> Stages]
        BY <1>0 DEF SwitchInv, TypeInv, Types
    <2>1. provider' = provider /\ job' = job
        BY <1>3, RestartTypes
    <2>2. Active' = Active
        BY <2>1 DEF Active, There
    <2>3. \A q \in Request : pc'[q] \in Switchers => pc'[q] = pc[q] /\ memory'[q] = memory[q]
        <3>1. "idle" \notin Switchers
            BY DEF Switchers, Switching, Cutover
        <3> QED
            BY <1>3, <3>1, RestartTypes
    <2>4. \A q \in Request : pc[q] = "activate" => pc'[q] = "activate"
        BY <1>3 DEF Restart
    <2>5. \A q \in Request : pc[q] \in Switchers => memory[q].target \in Provider
        BY <2>0 DEF Recalls, Switchers, Switching, Cutover
    <2>6. \A p \in Provider : /\ provider[p].state = "there" => provider'[p].state = "there"
                              /\ provider'[p].state = "new" => ~provider'[p].active
        BY <2>0, <2>1 DEF Ordered
    <2> QED
        BY <1>0, <2>0, <2>1, <2>2, <2>3, <2>4, <2>5, <2>6, Bystander
<1>4. CASE UNCHANGED vars
    <2>1. UNCHANGED <<provider, job, pc, memory, raced>>
        BY <1>4 DEF vars, documents
    <2>2. Active' = Active
        BY <2>1 DEF Active, There
    <2>3. Ordered' = Ordered /\ \A r \in Request : Consistent(r)' = Consistent(r)
        BY <2>1, <2>2 DEF Ordered, Consistent, There
    <2> QED
        BY <2>1, <2>3 DEF SwitchInv
<1> QED
    BY <1>1, <1>2, <1>3, <1>4, Steps

-----------------------------------------------------------------------------
(* What the web process has cached                                         *)

\* What a lookup of the web process is about to cache is what the documents say, if they have
\* not changed since it read them.
Fresh(r) ==
    r \notin dated /\ memory[r].process = Web =>
        /\ pc[r] = "fillActive" => memory[r].target \in Active
        /\ pc[r] = "fillDriver" => memory[r].config = provider[memory[r].target].config

CacheInv ==
    /\ ~raced => \A r \in Request : Fresh(r)
    /\ CacheFollows

\* A change makes every lookup that has read and has yet to cache a dated one; an invalidation
\* changes no document.
LEMMA Unovertaken ==
    ASSUME Types, NEW r \in Request, Act(r), pc'[r] \notin {"fillActive", "fillDriver"},
           Overtake \/ (UNCHANGED <<provider, dated>> /\ \A q \in Request : Fresh(q))
    PROVE  \A q \in Request : Fresh(q)'
<1> SUFFICES ASSUME NEW q \in Request PROVE Fresh(q)'
    OBVIOUS
<1>1. CASE q = r
    BY <1>1 DEF Fresh
<1>2. CASE q # r
    <2>1. pc'[q] = pc[q] /\ memory'[q] = memory[q]
        BY <1>2, OthersWait
    <2>2. CASE Overtake
        BY <2>1, <2>2 DEF Overtake, Fresh
    <2>3. CASE UNCHANGED <<provider, dated>> /\ Fresh(q)
        BY <2>1, <2>3 DEF Fresh, Active, There
    <2> QED
        BY <2>2, <2>3
<1> QED
    BY <1>1, <1>2

\* A request that has changed a document has the cache to empty.
LEMMA ChangeStep ==
    ASSUME TypeInv, SwitchInv, CacheInv, ~raced, NEW r \in Request,
           \/ SaveConfig(r) \/ Invalidate(r) \/ DeleteProvider(r) \/ Deactivate(r) \/ Activate(r)
           \/ FlipSource(r) \/ FlipTarget(r) \/ EndCutover(r)
    PROVE  CacheInv'
<1>0. /\ Types /\ Act(r) /\ Consistent(r) /\ CacheFollows /\ ConstantsAssumption
      /\ pc \in [Request -> Stages] /\ cache \in [Process -> Caches]
      /\ \A q \in Request : Fresh(q)
    BY ConstantsAssumption DEF TypeInv, Types, SwitchInv, Act, CacheInv
<1>1. Overtake \/ UNCHANGED <<provider, dated>>
    BY DEF SaveConfig, Invalidate, DeleteProvider, Deactivate, Activate, FlipSource, FlipTarget, EndCutover,
           EmptyCache, documents
<1>2. ASSUME NEW stage, Goto(r, stage) PROVE pc'[r] = stage
    BY <1>0, <1>2 DEF Goto
<1>3. ASSUME Over(r) PROVE pc'[r] = "idle"
    BY <1>0, <1>3 DEF Over
<1>4. \/ pc'[r] \in Changing
      \/ pc'[r] \notin Looking /\ cache'[Web] = Empty
      \/ pc'[r] = "idle" /\ pc[r] = "saveConfig" /\ UNCHANGED <<provider, cache, stale>>
    <2>1. CASE SaveConfig(r)
        BY <1>2, <1>3, <2>1 DEF SaveConfig, Overtake, Changing
    <2>2. CASE Invalidate(r) \/ EndCutover(r)
        <3>1. cache'[Web] = Empty
            BY <1>0, <2>2 DEF Invalidate, EndCutover, EmptyCache, ConstantsAssumption
        <3> QED
            BY <1>2, <1>3, <2>2, <3>1 DEF Invalidate, EndCutover, Looking
    <2>3. CASE DeleteProvider(r) \/ Deactivate(r) \/ FlipSource(r) \/ FlipTarget(r)
        BY <1>2, <2>3 DEF DeleteProvider, Deactivate, FlipSource, FlipTarget, Changing
    <2>4. CASE Activate(r)
        <3>1. There(memory[r].target)
            BY <1>0, <2>4 DEF Activate, Consistent, Activating
        <3> QED
            BY <1>2, <2>4, <3>1 DEF Activate, Changing
    <2> QED
        BY <2>1, <2>2, <2>3, <2>4
<1>5. pc'[r] \notin {"fillActive", "fillDriver"}
    BY <1>4 DEF Changing, Looking
<1>6. \A q \in Request : Fresh(q)'
    BY <1>0, <1>1, <1>5, Unovertaken
<1>7. CacheFollows'
    <2>1. CASE pc'[r] \in Changing
        BY <2>1 DEF CacheFollows
    <2>2. CASE cache'[Web] = Empty
        BY <2>2 DEF CacheFollows, Empty
    <2>3. CASE pc'[r] = "idle" /\ pc[r] = "saveConfig" /\ UNCHANGED <<provider, cache, stale>>
        <3>1. \A q \in Request : pc'[q] \notin Changing => pc[q] \notin Changing
            <4>1. \A q \in Request \ {r} : pc'[q] = pc[q]
                BY <1>0, OthersWait
            <4> QED
                BY <2>3, <4>1 DEF Changing
        <3>2. Active' = Active
            BY <2>3 DEF Active, There
        <3>3. CASE Web \notin stale /\ \A q \in Request : pc'[q] \notin Changing
            <4>1. /\ cache[Web].active \in {"none"} \cup Active
                  /\ \A p \in Provider : cache[Web].driver[p] \subseteq {provider[p].config}
                BY <1>0, <3>1, <3>3 DEF CacheFollows
            <4> QED
                BY <2>3, <3>2, <4>1 DEF CacheFollows
        <3>4. CASE ~ (Web \notin stale /\ \A q \in Request : pc'[q] \notin Changing)
            BY <2>3, <3>4 DEF CacheFollows
        <3> QED
            BY <3>3, <3>4
    <2> QED
        BY <1>4, <2>1, <2>2, <2>3
<1> QED
    BY <1>6, <1>7 DEF CacheInv

\* A lookup caches what it has read; if a document has changed since, the cache is stale.
LEMMA LookupStep ==
    ASSUME TypeInv, CacheInv, ~raced, provider' = provider,
           NEW r \in Request, Act(r), pc[r] \notin Changing,
           UNCHANGED <<cache, dated, stale>> \/ FillActive(r) \/ FillDriver(r),
           pc'[r] \in {"fillActive", "fillDriver"} => StartStore(r) \/ FindDriver(r)
    PROVE  CacheInv'
<1>0. /\ Types /\ Recalls(r) /\ CacheFollows /\ Fresh(r) /\ \A q \in Request : Fresh(q)
      /\ pc \in [Request -> Stages] /\ memory \in [Request -> Memories] /\ cache \in [Process -> Caches]
      /\ Web \in Process
    BY ConstantsAssumption DEF TypeInv, Types, CacheInv
<1>1. Active' = Active
    BY DEF Active, There
<1>2. \A q \in Request \ {r} : pc'[q] = pc[q] /\ memory'[q] = memory[q] /\ (q \in dated' <=> q \in dated)
    <2>1. \A q \in Request \ {r} : q \in dated' <=> q \in dated
        BY DEF FillActive, FillDriver, Outdate
    <2> QED
        BY <1>0, <2>1, OthersWait
<1>3. ASSUME NEW q \in Request \ {r} PROVE Fresh(q)'
    <2>1. Fresh(q) /\ pc'[q] = pc[q] /\ memory'[q] = memory[q] /\ (q \in dated' <=> q \in dated)
        BY <1>0, <1>2
    <2> QED
        BY <1>1, <2>1 DEF Fresh
<1>4. Fresh(r)'
    <2>1. CASE StartStore(r)
        <3>1. PICK w \in Process, k \in Key \ used, p \in Provider :
                 /\ IF cache[w].active = "none" THEN p \in Active ELSE p = cache[w].active
                 /\ Begin(r, IF cache[w].active = "none" THEN "fillActive"
                             ELSE IF Cached(w, p) THEN "write" ELSE "findDriver",
                          [Forgotten EXCEPT !.process = w, !.target = p, !.key = k])
            BY <2>1 DEF StartStore
        <3> DEFINE known == [Forgotten EXCEPT !.process = w, !.target = p, !.key = k]
        <3>2. Forgotten \in Memories
            BY ConstantsAssumption DEF Forgotten, Memories
        <3>3. known.target = p
            BY <3>2 DEF Memories
        <3> HIDE DEF known
        <3>4. memory'[r] = known
            BY <1>0, <3>1 DEF Begin, known
        <3>5. pc'[r] = IF cache[w].active = "none" THEN "fillActive"
                       ELSE IF Cached(w, p) THEN "write" ELSE "findDriver"
            BY <1>0, <3>1 DEF Begin
        <3>6. pc'[r] # "fillDriver" /\ (pc'[r] = "fillActive" => p \in Active)
            BY <3>1, <3>5
        <3> QED
            BY <1>1, <3>3, <3>4, <3>6 DEF Fresh
    <2>2. CASE FindDriver(r)
        <3>1. CASE Over(r)
            <4>1. pc'[r] = "idle"
                BY <1>0, <3>1 DEF Over
            <4> QED
                BY <4>1 DEF Fresh
        <3>2. CASE /\ pc' = [pc EXCEPT ![r] = "fillDriver"]
                   /\ memory' = [memory EXCEPT ![r].config = provider[memory[r].target].config]
            <4>1. /\ pc'[r] = "fillDriver" /\ memory'[r].target = memory[r].target
                  /\ memory'[r].config = provider[memory[r].target].config
                BY <1>0, <3>2 DEF Memories
            <4> QED
                BY <4>1 DEF Fresh
        <3> QED
            BY <2>2, <3>1, <3>2 DEF FindDriver
    <2>3. CASE pc'[r] \notin {"fillActive", "fillDriver"}
        BY <2>3 DEF Fresh
    <2> QED
        BY <2>1, <2>2, <2>3
<1>5. ASSUME Web \notin stale', \A q \in Request : pc'[q] \notin Changing
      PROVE  /\ cache'[Web].active \in {"none"} \cup Active
             /\ \A p \in Provider : cache'[Web].driver[p] \subseteq {provider[p].config}
    <2>1. Web \notin stale /\ \A q \in Request : pc[q] \notin Changing
        BY <1>2, <1>5 DEF FillActive, FillDriver, Outdate
    <2>2. /\ cache[Web].active \in {"none"} \cup Active
          /\ \A p \in Provider : cache[Web].driver[p] \subseteq {provider[p].config}
        BY <1>0, <2>1 DEF CacheFollows
    <2>3. CASE cache' = cache
        BY <2>2, <2>3
    <2>4. CASE FillActive(r)
        <3> DEFINE w == memory[r].process
                   t == memory[r].target
        <3>1. cache' = [cache EXCEPT ![w].active = t] /\ pc[r] = "fillActive"
            BY <2>4 DEF FillActive
        <3>2. w \in Process /\ (w = Web => t \in Active)
            <4>1. w = Web => r \notin dated
                BY <1>5, <2>4 DEF FillActive, Outdate
            <4> QED
                BY <1>0, <3>1, <4>1 DEF Memories, Fresh
        <3>3. /\ cache'[Web].driver = cache[Web].driver
              /\ cache'[Web].active = IF w = Web THEN t ELSE cache[Web].active
            <4> HIDE DEF w, t
            <4> QED
                BY <1>0, <3>1, <3>2 DEF Caches
        <3> QED
            BY <2>2, <3>2, <3>3
    <2>5. CASE FillDriver(r)
        <3> DEFINE w == memory[r].process
                   t == memory[r].target
                   c == memory[r].config
        <3>1. cache' = [cache EXCEPT ![w].driver[t] = {c}] /\ pc[r] = "fillDriver"
            BY <2>5 DEF FillDriver
        <3>2. w \in Process /\ t \in Provider /\ (w = Web => c = provider[t].config)
            <4>1. w = Web => r \notin dated
                BY <1>5, <2>5 DEF FillDriver, Outdate
            <4> QED
                BY <1>0, <3>1, <4>1 DEF Memories, Fresh, Recalls
        <3>3. /\ cache'[Web].active = cache[Web].active
              /\ \A p \in Provider :
                    cache'[Web].driver[p] = IF w = Web /\ p = t THEN {c} ELSE cache[Web].driver[p]
            <4> HIDE DEF w, t, c
            <4> QED
                BY <1>0, <3>1, <3>2 DEF Caches
        <3> QED
            BY <2>2, <3>2, <3>3
    <2> QED
        BY <2>3, <2>4, <2>5
<1>6. \A q \in Request : Fresh(q)'
    BY <1>3, <1>4
<1>7. CacheFollows'
    <2>1. CASE Web \notin stale' /\ \A q \in Request : pc'[q] \notin Changing
        BY <1>1, <1>5, <2>1 DEF CacheFollows
    <2>2. CASE ~ (Web \notin stale' /\ \A q \in Request : pc'[q] \notin Changing)
        BY <2>2 DEF CacheFollows
    <2> QED
        BY <2>1, <2>2
<1> QED
    BY <1>6, <1>7 DEF CacheInv

LEMMA CacheStep == TypeInv /\ SwitchInv /\ CacheInv /\ [Next]_vars => CacheInv'
<1> SUFFICES ASSUME TypeInv, SwitchInv, CacheInv, [Next]_vars, ~raced'
             PROVE  CacheInv'
    BY DEF CacheInv, CacheFollows
<1>0. /\ Types /\ ~raced /\ CacheFollows
      /\ pc \in [Request -> Stages] /\ memory \in [Request -> Memories] /\ provider \in [Provider -> Documents]
    BY Unraced DEF TypeInv, Types, CacheInv
<1>1. ASSUME NEW r \in Request, Act(r) PROVE CacheInv'
    <2>2. CASE \/ SaveConfig(r) \/ Invalidate(r) \/ DeleteProvider(r) \/ Deactivate(r) \/ Activate(r)
               \/ FlipSource(r) \/ FlipTarget(r) \/ EndCutover(r)
        BY <1>0, <2>2, ChangeStep
    <2>3. CASE StartStore(r) \/ FindDriver(r) \/ FillActive(r) \/ FillDriver(r)
        <3>1. provider' = provider /\ pc[r] \notin Changing
            BY <2>3 DEF StartStore, FindDriver, FillActive, FillDriver, Begin, documents, Changing
        <3>2. UNCHANGED <<cache, dated, stale>> \/ FillActive(r) \/ FillDriver(r)
            BY <2>3 DEF StartStore, FindDriver, lookups
        <3>3. FillActive(r) \/ FillDriver(r) => pc'[r] \in {"write", "findDriver"}
            BY <1>0 DEF FillActive, FillDriver, Goto
        <3> QED
            BY <1>0, <1>1, <2>3, <3>1, <3>2, <3>3, LookupStep
    <2>4. CASE \/ Write(r) \/ SaveDocument(r) \/ StartPatch(r) \/ StartDelete(r) \/ FindJobOf(r)
               \/ StartActivate(r) \/ FindJob(r) \/ FindCurrent(r) \/ ListCurrent(r) \/ CreateJob(r)
               \/ StartCutover(r) \/ EndJob(r) \/ (Fail(r) /\ pc[r] = "saveDocument")
        <3>1. UNCHANGED <<provider, cache, dated, stale>>
            BY <2>4 DEF lookups, Write, SaveDocument, StartPatch, StartDelete, FindJobOf, StartActivate, FindJob,
                        FindCurrent, ListCurrent, CreateJob, StartCutover, EndJob, Fail, documents
        <3>2. pc[r] \notin Changing
            BY <2>4 DEF Write, SaveDocument, StartPatch, StartDelete, FindJobOf, StartActivate, FindJob,
                        FindCurrent, ListCurrent, CreateJob, StartCutover, EndJob, Begin, Changing
        <3>3. pc'[r] \notin {"fillActive", "fillDriver"}
            <4>1. \E stage \in Stages \ {"fillActive", "fillDriver"} : pc' = [pc EXCEPT ![r] = stage]
                <5>1. CASE StartPatch(r) \/ StartDelete(r) \/ StartActivate(r) \/ StartCutover(r)
                    BY <5>1 DEF StartPatch, StartDelete, StartActivate, StartCutover, Begin,
                                Stages, Switchers, Switching, Cutover
                <5>2. CASE SaveDocument(r) \/ CreateJob(r) \/ EndJob(r) \/ Fail(r)
                    BY <5>2 DEF SaveDocument, CreateJob, EndJob, Fail, Over, Stages
                <5>3. CASE Write(r) \/ FindJobOf(r) \/ FindJob(r) \/ FindCurrent(r) \/ ListCurrent(r)
                    BY <5>3 DEF Write, FindJobOf, FindJob, FindCurrent, ListCurrent, Over, Goto,
                                Stages, Storing, Switchers, Switching
                <5> QED
                    BY <2>4, <5>1, <5>2, <5>3
            <4> QED
                BY <1>0, <4>1
        <3> QED
            BY <1>0, <1>1, <3>1, <3>2, <3>3, LookupStep
    <2>5. CASE Fail(r) /\ pc[r] # "saveDocument"
        BY <2>5 DEF Fail
    <2> QED
        BY <1>1, <2>2, <2>3, <2>4, <2>5 DEF Act
<1>2. ASSUME UNCHANGED <<cache, pc, memory, raced, dated, stale>>, Active' = Active,
             \A p \in Provider : provider'[p].config = provider[p].config
      PROVE  CacheInv'
    <2>1. ASSUME NEW r \in Request PROVE Fresh(r)'
        <3>1. Fresh(r)
            BY <1>0, <1>2 DEF CacheInv
        <3>2. pc[r] = "fillDriver" => memory[r].target \in Provider
            BY DEF TypeInv, Recalls
        <3> QED
            BY <1>2, <3>1, <3>2 DEF Fresh
    <2>2. CacheFollows'
        BY <1>0, <1>2 DEF CacheFollows
    <2> QED
        BY <2>1, <2>2 DEF CacheInv
<1>3. CASE World
    <2>1. UNCHANGED <<cache, pc, memory, raced, dated, stale>>
        BY <1>3, WorldKeeps DEF lookups
    <2>2. CASE \E p \in Provider : CreateProvider(p)
        <3>1. PICK p \in Provider : CreateProvider(p)
            BY <2>2
        <3>2. /\ provider[p].state = "new" /\ provider'[p].config = provider[p].config
              /\ provider'[p].state = "there" /\ provider'[p].active = provider[p].active
              /\ \A q \in Provider \ {p} : provider'[q] = provider[q]
            BY <1>0, <3>1 DEF CreateProvider, Documents
        <3>3. ~provider[p].active
            BY <1>0, <3>2 DEF SwitchInv, Ordered
        <3>4. Active' = Active
            BY <3>2, <3>3 DEF Active, There
        <3> QED
            BY <1>2, <2>1, <3>2, <3>4
    <2>3. CASE ~ \E p \in Provider : CreateProvider(p)
        <3>1. provider' = provider
            BY <1>3, <2>3 DEF World, StartScan, Mention, Discard, AbandonJob, RunListing, RunReconcile,
                              DeleteOrphans, documents
        <3>2. Active' = Active
            BY <3>1 DEF Active, There
        <3> QED
            BY <1>2, <2>1, <3>1, <3>2
    <2> QED
        BY <2>2, <2>3
<1>4. CASE Restart
    <2>1. /\ provider' = provider /\ cache'[Web] = Empty
          /\ \A r \in Request : \/ pc'[r] = pc[r] /\ memory'[r] = memory[r] /\ memory[r].process # Web
                                \/ pc'[r] = "idle" /\ memory'[r] = Forgotten
        BY <1>4, RestartTypes
    <2>2. \A r \in Request : Fresh(r)'
        BY <2>1 DEF Fresh
    <2>3. CacheFollows'
        BY <2>1 DEF CacheFollows, Empty
    <2> QED
        BY <2>2, <2>3 DEF CacheInv
<1>5. CASE UNCHANGED vars
    <2>1. UNCHANGED <<provider, cache, pc, memory, raced, dated, stale>>
        BY <1>5 DEF vars, documents, lookups
    <2>2. Active' = Active
        BY <2>1 DEF Active, There
    <2> QED
        BY <1>2, <2>1, <2>2
<1> QED
    BY <1>1, <1>3, <1>4, <1>5, Steps

-----------------------------------------------------------------------------
(* The theorems                                                            *)

IInv == TypeInv /\ ScanSparesUsed /\ SwitchInv /\ CacheInv

LEMMA Initial == Init => IInv
<1> SUFFICES ASSUME Init PROVE IInv
    OBVIOUS
<1>1. /\ Bootstrapped \in Provider /\ Web \in Process /\ MaxConfig \in Nat /\ MaxFailures \in Nat
    BY ConstantsAssumption DEF ConstantsAssumption
<1>2. Forgotten \in Memories /\ NoScan \in Scans /\ Empty \in Caches
    BY <1>1 DEF Forgotten, Memories, NoScan, Scans, Empty, Caches
<1>3. /\ provider \in [Provider -> Documents]
      /\ \A p \in Provider : /\ provider[p].state = IF p = Bootstrapped THEN "there" ELSE "new"
                             /\ provider[p].active = (p = Bootstrapped)
    BY <1>1 DEF Init, Documents
<1>4. Types
    <2>1. pc \in [Request -> Stages] /\ memory \in [Request -> Memories]
        BY <1>2 DEF Init, Stages
    <2>2. cache \in [Process -> Caches] /\ scan \in Scans
        BY <1>2 DEF Init
    <2>3. objects \in [Provider -> SUBSET Key]
        BY DEF Init
    <2>4. failures \in 0..MaxFailures
        BY <1>1 DEF Init
    <2>5. /\ used \in SUBSET Key /\ rows \in SUBSET Key /\ late \in SUBSET Key
          /\ dated \in SUBSET Request /\ stale \in SUBSET Process
          /\ job \in SUBSET (Provider \X Provider) /\ raced \in BOOLEAN
        BY DEF Init
    <2> QED
        BY <1>3, <2>1, <2>2, <2>3, <2>4, <2>5 DEF Types
<1>5. TypeInv
    BY <1>4 DEF Init, TypeInv, Grounded, Recalls, NoScan, Storing, Cutover
<1>6. ScanSparesUsed
    BY DEF Init, ScanSparesUsed, NoScan
<1>7. Active = {Bootstrapped}
    BY <1>1, <1>3 DEF Active, There
<1>8. Ordered
    BY <1>3, <1>7 DEF Init, Ordered
<1>9. \A r \in Request : Consistent(r) /\ pc[r] \notin Switchers
    BY DEF Init, Consistent, Activating, Cutover, Switchers, Switching
<1>10. SwitchInv
    BY <1>8, <1>9 DEF SwitchInv
<1>11. cache[Web].active = "none" /\ \A p \in Provider : cache[Web].driver[p] = {}
    BY <1>1 DEF Init, Empty
<1>12. CacheInv
    BY <1>11 DEF Init, CacheInv, CacheFollows, Fresh
<1> QED
    BY <1>5, <1>6, <1>10, <1>12 DEF IInv

\* What the handlers of routes/storage.js, the worker's cutover, the lookups of
\* lib/storage/index.js and the orphan scan maintain together: the types, who is between which
\* writes of a change, what the lookups of the web process may still cache, and what a scan
\* has reported.
THEOREM Inductive == Spec => []IInv
<1>1. Init => IInv
    BY Initial
<1>2. IInv /\ [Next]_vars => IInv'
    BY TypeStep, OrphanStep, SwitchStep, CacheStep DEF IInv
<1> QED
    BY <1>1, <1>2, PTL DEF Spec

\* A set whose elements are all the same has one at most.
LEMMA OneAtMost ==
    ASSUME NEW S, \A x, y \in S : x = y
    PROVE  Cardinality(S) <= 1
<1>1. CASE S = {}
    BY <1>1, FS_EmptySet
<1>2. CASE \E x \in S : S = {x}
    BY <1>2, FS_Singleton
<1> QED
    BY <1>1, <1>2

\* Activations, deletions and cutovers that do not overlap leave one active provider, however
\* many requests, providers and processes there are, and none only between two writes of a
\* change: the check of POST /providers/:id/activate for a job in progress and that of DELETE
\* /providers/:id for both ends of one are what it takes.
THEOREM OneActiveAlways == Spec => []OneActive
<1>1. IInv => OneActive
    <2> SUFFICES ASSUME IInv, ~raced PROVE OneActive
        BY DEF OneActive
    <2>1. Ordered
        BY DEF IInv, SwitchInv
    <2>2. Cardinality(Active) <= 1 /\ Cardinality(job) <= 1
        BY <2>1, OneAtMost DEF Ordered
    <2>3. Active = {} => job # {} \/ \E r \in Request : pc[r] = "activate"
        BY <2>1 DEF Ordered
    <2>4. \A j \in job : There(j[1]) /\ There(j[2])
        BY <2>1 DEF Ordered
    <2> QED
        BY <2>2, <2>3, <2>4 DEF OneActive
<1> QED
    BY <1>1, Inductive, PTL

\* Credentials and paths that were replaced are not served from the cache of the process that
\* runs the routes once invalidateStorageCache has run; a lookup that read them before the
\* change and fills the cache after it brings them back, until the next invalidation.  Nothing
\* is said once changes of the active provider have overlapped or one was cut short.
THEOREM CacheFollowsAlways == Spec => []CacheFollows
<1>1. IInv => CacheFollows
    BY DEF IInv, CacheInv
<1> QED
    BY <1>1, Inductive, PTL

\* No scan reports an object of the kinds runReconcile looks for that has been in use since the
\* scan began, whatever is stored, shown, discarded, migrated or deleted in between, unless a
\* deletion has taken its row in the library.
THEOREM ScanSparesUsedAlways == Spec => []ScanSparesUsed
<1>1. IInv => ScanSparesUsed
    BY DEF IInv
<1> QED
    BY <1>1, Inductive, PTL
=============================================================================
