----------------------- MODULE StorageMigrationProofs -----------------------
(***************************************************************************)
(* Theorems about StorageMigration, for every set of keys, page size,      *)
(* batch size, attempt limit and verify limit.                             *)
(***************************************************************************)
EXTENDS StorageMigration, FiniteSetTheorems, WellFoundedInduction, TLAPS

Loops == {"transferOne", "removeFromSource", "removeFromTarget"}

\* What the worker has in memory fits the rows it was read from.
BatchInv ==
    /\ pc \notin Loops => batch = {} /\ acted = {}
    /\ batch \cap acted = {}
    /\ pc = "transferOne" => batch \cup acted \subseteq Rows("pending")
    /\ pc \in {"removeFromSource", "removeFromTarget"} =>
          batch \cup acted \subseteq Rows("done")

\* No counter is incremented at its limit.
CounterInv ==
    /\ \A k \in Keys : file[k] \in {"none", "pending"} => attempts[k] < MaxAttempts
    /\ pc \in {"relist", "leaveVerifying"} => verifyPasses < MaxVerifyPasses
    /\ \A k \in Keys : uploading[k] # "none" => MayWrite(k)

TypeInv == TypeOK /\ BatchInv /\ CounterInv

-----------------------------------------------------------------------------

\* A counter below its limit may be incremented.
LEMMA Increment == \A m \in Nat : \A n \in 0..m : n < m => n + 1 \in 0..m
OBVIOUS

\* The cursor of the next page is the null cursor or a key.
LEMMA NextCursorType ==
    \A p \in Providers, c \in Cursors : NextCursor(p, c) \in Cursors
<1> SUFFICES ASSUME NEW p \in Providers, NEW c \in Cursors
             PROVE  NextCursor(p, c) \in Cursors
    OBVIOUS
<1>1. Keys \subseteq Cursors /\ 0 \in Cursors
    BY ConstantsAssumption DEF Keys, Cursors
<1>2. CASE \E m \in Keys : LastOfPage(p, c, m)
    <2> DEFINE m == CHOOSE m \in Keys : LastOfPage(p, c, m)
    <2>1. m \in Keys
        BY <1>2
    <2> QED
        BY <1>1, <1>2, <2>1 DEF NextCursor
<1>3. CASE ~ \E m \in Keys : LastOfPage(p, c, m)
    BY <1>1, <1>3 DEF NextCursor
<1> QED
    BY <1>2, <1>3

\* Every set of keys is finite.
LEMMA KeysFinite == \A S \in SUBSET Keys : IsFiniteSet(S)
<1>1. 1 \in Int /\ NKeys \in Int
    BY ConstantsAssumption
<1>2. IsFiniteSet(Keys)
    BY <1>1, FS_Interval DEF Keys
<1> QED
    BY <1>2, FS_Subset

\* The keys are the integers between 1 and NKeys.
LEMMA KeyRange ==
    /\ Keys \subseteq Int
    /\ NKeys \in Int
    /\ \A k \in Int : k \in Keys <=> 1 <= k /\ k <= NKeys
BY ConstantsAssumption DEF Keys

\* A set of keys that is not empty has a least element and a greatest one.
LEMMA LeastKey ==
    ASSUME NEW S \in SUBSET Keys, S # {}
    PROVE  \E m \in S : \A k \in S : m <= k
<1> DEFINE Below(k) == {j \in S : j < k}
           R == StrictSubsetOrdering(S)
           T == {Below(k) : k \in S}
<1>0. \A k \in S : k \in Int
    BY KeyRange
<1>1. IsWellFoundedOn(R, FiniteSubsetsOf(S))
    BY FS_StrictSubsetOrderingWellFounded
<1>2. T \subseteq FiniteSubsetsOf(S) /\ T # {}
    BY KeysFinite DEF FiniteSubsetsOf
<1>3. \E x \in T : \A y \in T : <<y, x>> \notin R
    <2> HIDE DEF R, T
    <2> QED
        BY <1>1, <1>2, WFMin
<1>4. PICK m \in S : \A k \in S : <<Below(k), Below(m)>> \notin R
    BY <1>3
<1>5. ASSUME NEW k \in S, k < m PROVE FALSE
    <2>1. Below(k) \subseteq Below(m) /\ k \in Below(m) /\ k \notin Below(k)
        BY <1>0, <1>5
    <2>2. /\ Below(k) \in SUBSET S /\ Below(m) \in SUBSET S
          /\ Below(k) \subseteq Below(m) /\ Below(k) # Below(m)
        BY <2>1
    <2>3. \A A, B \in SUBSET S : A \subseteq B /\ A # B => <<A, B>> \in R
        BY DEF StrictSubsetOrdering
    <2> HIDE DEF Below, R
    <2> QED
        BY <1>4, <2>2, <2>3
<1> QED
    BY <1>0, <1>5

LEMMA GreatestKey ==
    ASSUME NEW S \in SUBSET Keys, S # {}
    PROVE  \E m \in S : \A k \in S : k <= m
<1> DEFINE T == {j \in Keys : \A k \in S : k <= j}
<1>0. \A k \in S : k \in Int /\ 1 <= k /\ k <= NKeys
    BY KeyRange
<1>1. NKeys \in T
    <2>1. NKeys \in Keys
        <3>1. PICK s \in S : TRUE
            OBVIOUS
        <3>2. NKeys \in Int /\ 1 <= NKeys
            BY <1>0, <3>1, KeyRange
        <3> QED
            BY <3>2, KeyRange
    <2> QED
        BY <1>0, <2>1
<1>2. PICK m \in T : \A j \in T : m <= j
    BY <1>1, LeastKey
<1>3. CASE m \in S
    BY <1>2, <1>3
<1>4. CASE m \notin S
    <2>1. \A k \in S : k <= m - 1
        BY <1>0, <1>2, <1>4, KeyRange
    <2>2. m - 1 \in Keys
        <3>1. PICK s \in S : s <= m - 1
            BY <2>1
        <3>2. m \in Int /\ m - 1 \in Int /\ 1 <= m - 1 /\ m - 1 <= NKeys
            BY <1>0, <3>1, KeyRange
        <3> QED
            BY <3>2, KeyRange
    <2> QED
        BY <1>2, <2>1, <2>2, KeyRange
<1> QED
    BY <1>3, <1>4

\* A page leaves no key out: a key the provider holds behind the cursor is on the page,
\* unless it comes behind the cursor of the next page.
LEMMA PageCovers ==
    ASSUME NEW p \in Providers, NEW c \in Cursors, NEW k \in Held(p), k > c,
           NextCursor(p, c) = 0 \/ k <= NextCursor(p, c)
    PROVE  k \in Page(p, c)
<1> DEFINE Between(i) == {j \in Held(p) : c < j /\ j < i}
<1> USE KeyRange, ConstantsAssumption DEF Held, Cursors
<1>1. \A i, j \in Keys : i <= j => /\ Cardinality(Between(i)) <= Cardinality(Between(j))
                                   /\ Cardinality(Between(i)) \in Nat
                                   /\ Cardinality(Between(j)) \in Nat
    <2> SUFFICES ASSUME NEW i \in Keys, NEW j \in Keys, i <= j
                 PROVE  /\ Cardinality(Between(i)) <= Cardinality(Between(j))
                        /\ Cardinality(Between(i)) \in Nat
                        /\ Cardinality(Between(j)) \in Nat
        OBVIOUS
    <2>1. Between(i) \in SUBSET Between(j)
        BY DEF Keys
    <2>2. IsFiniteSet(Between(j)) /\ IsFiniteSet(Between(i))
        BY KeysFinite
    <2> QED
        BY <2>1, <2>2, FS_Subset, FS_CardinalityType
<1>2. ASSUME NEW m \in Page(p, c), k <= m PROVE k \in Page(p, c)
    <2>1. Cardinality(Between(m)) < PageSize /\ m \in Keys
        BY DEF Page
    <2>2. Cardinality(Between(k)) < PageSize
        <3> HIDE DEF Between
        <3> QED
            BY <1>1, <1>2, <2>1
    <2> QED
        BY <2>2 DEF Page
<1>3. CASE \E m \in Keys : LastOfPage(p, c, m)
    <2>1. LastOfPage(p, c, NextCursor(p, c)) /\ NextCursor(p, c) \in Keys
        BY <1>3 DEF NextCursor
    <2> QED
        BY <1>2, <2>1 DEF LastOfPage, Keys
<1>4. CASE ~ \E m \in Keys : LastOfPage(p, c, m)
    <2>1. PICK first \in {j \in Held(p) : j > c} : \A j \in {j \in Held(p) : j > c} : first <= j
        BY LeastKey
    <2>2. Between(first) = {}
        BY <2>1 DEF Keys
    <2>3. first \in Page(p, c)
        BY <2>1, <2>2, FS_EmptySet DEF Page
    <2>4. PICK m \in Page(p, c) : \A j \in Page(p, c) : j <= m
        BY <2>3, GreatestKey DEF Page
    <2>5. m \in Keys /\ ~ LastOfPage(p, c, m)
        BY <1>4, <2>4 DEF Page
    <2>6. ~ (m < k)
        BY <2>4, <2>5 DEF LastOfPage
    <2>7. k <= m
        BY <2>5, <2>6
    <2> QED
        BY <1>2, <2>4, <2>7
<1> QED
    BY <1>3, <1>4

\* Torn copies are objects of the target, and only of the target.
LEMMA TornCopies ==
    ASSUME TypeOK, NEW torn \in SUBSET Keys, LeaveTorn(torn)
    PROVE  /\ object' \in [Providers -> [Keys -> Versions]]
           /\ \A k \in Keys : /\ object'["source"][k] = object["source"][k]
                             /\ object'["target"][k] =
                                   IF k \in torn THEN 0 ELSE object["target"][k]
BY ConstantsAssumption DEF TypeOK, LeaveTorn, Providers, Versions

\* The types, and the bounds of the counters, hold at the start ...
LEMMA TypeInvInit == Init => TypeInv
<1> SUFFICES ASSUME Init PROVE TypeInv
    OBVIOUS
<1> USE ConstantsAssumption DEF Init
<1>1. object \in [Providers -> [Keys -> Versions]] /\ version \in [Keys -> Versions]
    BY DEF Versions, Providers
<1>2. isActive \in [Providers -> BOOLEAN] /\ live \in [Keys -> BOOLEAN]
    <2>1. \A p \in Providers : (p = "source") \in BOOLEAN
        OBVIOUS
    <2>2. \A k \in Keys : (k \in InitialSource) \in BOOLEAN
        OBVIOUS
    <2> QED
        BY <2>1, <2>2, Zenon
<1>3. TypeOK
    <2> HIDE DEF Init
    <2>1. /\ status \in Statuses /\ mode \in {"move", "copy"}
          /\ cached \in Providers \cup {"none"}
          /\ pc \in Stages
        BY DEF Init, Statuses, Cancellable, Stages, Providers
    <2>2. /\ listCursor \in Cursors /\ scan \in Cursors
          /\ verifyPasses \in 0..MaxVerifyPasses
          /\ interruptions \in 0..MaxInterruptions
          /\ cancels \in 0..MaxCancels /\ cancelling \in Nat
        BY DEF Init, Cursors
    <2>3. /\ file \in [Keys -> {"none", "pending", "done", "failed"}]
          /\ attempts \in [Keys -> 0..MaxAttempts]
          /\ cleanedUp \in [Keys -> BOOLEAN]
          /\ uploading \in [Keys -> Providers \cup {"none"}]
        BY DEF Init
    <2>4. /\ batch \in SUBSET Keys /\ acted \in SUBSET Keys
          /\ known \in SUBSET Keys /\ verified \in SUBSET Keys
          /\ foundNew \in BOOLEAN /\ lateCancel \in BOOLEAN
        BY DEF Init
    <2> QED
        BY <1>1, <1>2, <2>1, <2>2, <2>3, <2>4 DEF TypeOK
<1>4. BatchInv /\ CounterInv
    BY DEF BatchInv, CounterInv, Loops
<1> QED
    BY <1>3, <1>4 DEF TypeInv

\* ... every step keeps them ...
LEMMA TypeInvStep == TypeInv /\ [Next]_vars => TypeInv'
<1> SUFFICES ASSUME TypeInv, [Next]_vars PROVE TypeInv'
    OBVIOUS
<1> USE ConstantsAssumption
    DEF TypeInv, TypeOK, BatchInv, CounterInv, MayWrite, Rows, Providers,
        Statuses, Cancellable, Terminal, Versions, Stages, Loops,
        jobVars, rowVars, storeVars, clientVars, adminVars, tickVars, EndTick
<1>0. 0 \in Cursors /\ 0 \in 0..MaxVerifyPasses
    BY DEF Cursors
<1>1. ASSUME Tick PROVE TypeInv'
    <2>1. pc' \in Stages \ Loops
        BY <1>1 DEF Tick, Dispatch
    <2>2. pc' \notin {"relist", "leaveVerifying"}
        BY <1>1 DEF Tick, Dispatch
    <2> QED
        BY <1>0, <1>1, <2>1, <2>2 DEF Tick
<1>2. ASSUME EnumerateSource PROVE TypeInv'
    BY <1>2, NextCursorType DEF EnumerateSource, InsertRows
<1>3. ASSUME SaveCursor PROVE TypeInv'
    <2>1. CASE pc' = "idle"
        BY <1>0, <1>3, <2>1 DEF SaveCursor
    <2>2. CASE pc' # "idle"
        BY <1>3, <2>2 DEF SaveCursor
    <2> QED
        BY <2>1, <2>2
<1>4. ASSUME LeavePlanning PROVE TypeInv'
    BY <1>0, <1>4 DEF LeavePlanning
<1>5. ASSUME IsCancelRequested PROVE TypeInv'
    BY <1>0, <1>5 DEF IsCancelRequested
<1>6. ASSUME FindPending PROVE TypeInv'
    BY <1>6 DEF FindPending, Limit
<1>7. ASSUME NEW k \in Keys, CopyObject(k) PROVE TypeInv'
    BY <1>7 DEF CopyObject
<1>8. ASSUME NEW k \in Keys, RecordCopied(k) PROVE TypeInv'
    BY <1>8 DEF RecordCopied, NextStage
<1>9. ASSUME NEW k \in Keys, TransferFailed(k) PROVE TypeInv'
    <2>1. PICK torn \in SUBSET ({k} \cap batch) : LeaveTorn(torn)
        BY <1>9 DEF TransferFailed
    <2> QED
        BY <1>9, <2>1, TornCopies DEF TransferFailed, NextStage
<1>10. ASSUME LeaveRunning PROVE TypeInv'
    BY <1>0, <1>10 DEF LeaveRunning
<1>11. ASSUME StopVerifying PROVE TypeInv'
    BY <1>0, <1>11 DEF StopVerifying
<1>12. ASSUME StartVerifying PROVE TypeInv'
    BY <1>12 DEF StartVerifying, Tracked, Held
<1>13. ASSUME Relist PROVE TypeInv'
    BY <1>13, NextCursorType DEF Relist, InsertRows
<1>14. ASSUME LeaveVerifying PROVE TypeInv'
    BY <1>0, <1>14, Increment DEF LeaveVerifying
<1>15. ASSUME DeactivateSource PROVE TypeInv'
    BY <1>15 DEF DeactivateSource
<1>16. ASSUME ActivateTarget PROVE TypeInv'
    BY <1>16 DEF ActivateTarget
<1>17. ASSUME LeaveCutover PROVE TypeInv'
    BY <1>0, <1>17 DEF LeaveCutover
<1>18. ASSUME RunCleanup PROVE TypeInv'
    <2>1. CASE TakeUncleaned("runCleanup", "removeFromSource")
        BY <2>1 DEF TakeUncleaned, Uncleaned, Limit
    <2>2. CASE \E k \in Keys : RemoveObject(k, "removeFromSource", "source")
        BY <2>2 DEF RemoveObject
    <2>3. CASE \E k \in Keys : MarkCleanedUp(k, "runCleanup", "removeFromSource")
        BY <2>3 DEF MarkCleanedUp, NextStage
    <2>4. CASE NothingUncleaned("runCleanup", "completed")
        BY <1>0, <2>4 DEF NothingUncleaned
    <2> QED
        BY <1>18, <2>1, <2>2, <2>3, <2>4 DEF RunCleanup
<1>19. ASSUME RunCancelling PROVE TypeInv'
    <2>1. CASE TakeUncleaned("runCancelling", "removeFromTarget")
        BY <2>1 DEF TakeUncleaned, Uncleaned, Limit
    <2>2. CASE \E k \in Keys : RemoveObject(k, "removeFromTarget", "target")
        BY <2>2 DEF RemoveObject
    <2>3. CASE \E k \in Keys : MarkCleanedUp(k, "runCancelling", "removeFromTarget")
        BY <2>3 DEF MarkCleanedUp, NextStage
    <2>4. CASE NothingUncleaned("runCancelling", "cancelled")
        BY <1>0, <2>4 DEF NothingUncleaned
    <2> QED
        BY <1>19, <2>1, <2>2, <2>3, <2>4 DEF RunCancelling
<1>20. ASSUME MarkFailed PROVE TypeInv'
    BY <1>0, <1>20 DEF MarkFailed
<1>21. ASSUME AbortTick PROVE TypeInv'
    BY <1>0, <1>21, Increment DEF AbortTick
<1>22. ASSUME Restart PROVE TypeInv'
    <2>1. PICK torn \in SUBSET (IF pc = "transferOne" THEN batch ELSE {}) : LeaveTorn(torn)
        BY <1>22 DEF Restart
    <2>2. object' \in [Providers -> [Keys -> Versions]]
        <3> HIDE DEF Providers, Versions
        <3> torn \in SUBSET Keys
            OBVIOUS
        <3> QED
            BY <2>1, TornCopies
    <2>3. interruptions' \in 0..MaxInterruptions
        BY <1>22, Increment DEF Restart
    <2> QED
        BY <1>0, <1>22, <2>2, <2>3 DEF Restart
<1>23. ASSUME NEW k \in Keys, ResolveUpload(k) PROVE TypeInv'
    BY <1>23 DEF ResolveUpload, GetStorage
<1>24. ASSUME NEW k \in Keys, StoreUpload(k) PROVE TypeInv'
    BY <1>24 DEF StoreUpload
<1>25. ASSUME NEW k \in Keys, RemoveFile(k) PROVE TypeInv'
    BY <1>25 DEF RemoveFile, GetStorage
<1>26. ASSUME ReadForCancel PROVE TypeInv'
    BY <1>26 DEF ReadForCancel
<1>27. ASSUME SaveCancel PROVE TypeInv'
    BY <1>27 DEF SaveCancel
<1>28. ASSUME UNCHANGED vars PROVE TypeInv'
    BY <1>28 DEF vars
<1> QED
    BY <1>1, <1>2, <1>3, <1>4, <1>5, <1>6, <1>7, <1>8, <1>9, <1>10, <1>11, <1>12, <1>13,
       <1>14, <1>15, <1>16, <1>17, <1>18, <1>19, <1>20, <1>21, <1>22, <1>23, <1>24, <1>25,
       <1>26, <1>27, <1>28
    DEF Next, Worker, Clients, Admin

\* ... and forever: every variable keeps its type, whatever happens to the
\* job; no file is tried more than MaxAttempts times, no more than
\* MaxVerifyPasses verify passes are run.
THEOREM TypeCorrect == Spec => []TypeOK
<1>1. TypeInv => TypeOK
    BY DEF TypeInv
<1> QED
    BY <1>1, TypeInvInit, TypeInvStep, PTL DEF Spec

-----------------------------------------------------------------------------
(* A row is "done" only when its object is at the target.                  *)

\* A media key is written once: as long as it may be, no provider has it and
\* no job has listed it.
WrittenInv ==
    \A k \in MediaKeys : version[k] = 0 =>
        /\ \A p \in Providers : object[p][k] = 0
        /\ file[k] = "none"

\* The stages in which the worker has not begun to undo its copies.
Forward == Stages \ {"idle", "runCancelling", "removeFromTarget"}

Copied(k) == live[k] => object["target"][k] # 0

CopiedInv ==
    /\ \/ status \notin {"cancelling", "cancelled", "failed"}
       \/ pc \in Forward
       => \A k \in MediaKeys : file[k] = "done" => Copied(k)
    /\ pc = "transferOne" => \A k \in acted \cap MediaKeys : Copied(k)
    /\ pc \in {"runCancelling", "removeFromTarget"} => status = "cancelling"

\* An upload in progress under a media key is the first to that key.
LEMMA MediaWrittenOnce ==
    ASSUME TypeInv, NEW k \in MediaKeys, uploading[k] # "none"
    PROVE  version[k] = 0
BY ConstantsAssumption
   DEF TypeInv, TypeOK, CounterInv, MayWrite, MediaKeys, Keys, Versions

\* Nothing but an upload brings a key into being.
LEMMA WrittenInvStep == TypeInv /\ WrittenInv /\ [Next]_vars => WrittenInv'
<1> SUFFICES ASSUME TypeInv, WrittenInv, [Next]_vars PROVE WrittenInv'
    OBVIOUS
<1> USE DEF TypeInv, TypeOK, BatchInv, WrittenInv, MediaKeys, Providers, Rows, Versions, EndTick,
        jobVars, rowVars, storeVars, clientVars, adminVars, tickVars
<1>1. ASSUME Tick PROVE WrittenInv'
    BY <1>1 DEF Tick, Dispatch, Stages
<1>2. ASSUME EnumerateSource PROVE WrittenInv'
    BY <1>2 DEF EnumerateSource, InsertRows, Page, Held
<1>3. ASSUME SaveCursor PROVE WrittenInv'
    BY <1>3 DEF SaveCursor
<1>4. ASSUME LeavePlanning PROVE WrittenInv'
    BY <1>4 DEF LeavePlanning
<1>5. ASSUME IsCancelRequested PROVE WrittenInv'
    BY <1>5 DEF IsCancelRequested
<1>6. ASSUME FindPending PROVE WrittenInv'
    BY <1>6 DEF FindPending, Limit
<1>7. ASSUME NEW k \in Keys, CopyObject(k) PROVE WrittenInv'
    BY <1>7 DEF CopyObject
<1>8. ASSUME NEW k \in Keys, RecordCopied(k) PROVE WrittenInv'
    BY <1>8 DEF RecordCopied, NextStage
<1>9. ASSUME NEW k \in Keys, TransferFailed(k) PROVE WrittenInv'
    <2>1. PICK torn \in SUBSET ({k} \cap batch) : LeaveTorn(torn)
        BY <1>9 DEF TransferFailed
    <2> QED
        BY <1>9, <2>1, TornCopies DEF TransferFailed, NextStage
<1>10. ASSUME LeaveRunning PROVE WrittenInv'
    BY <1>10 DEF LeaveRunning
<1>11. ASSUME StopVerifying PROVE WrittenInv'
    BY <1>11 DEF StopVerifying
<1>12. ASSUME StartVerifying PROVE WrittenInv'
    BY <1>12 DEF StartVerifying
<1>13. ASSUME Relist PROVE WrittenInv'
    BY <1>13 DEF Relist, InsertRows, Page, Held
<1>14. ASSUME LeaveVerifying PROVE WrittenInv'
    BY <1>14 DEF LeaveVerifying
<1>15. ASSUME DeactivateSource PROVE WrittenInv'
    BY <1>15 DEF DeactivateSource
<1>16. ASSUME ActivateTarget PROVE WrittenInv'
    BY <1>16 DEF ActivateTarget
<1>17. ASSUME LeaveCutover PROVE WrittenInv'
    BY <1>17 DEF LeaveCutover
<1>18. ASSUME RunCleanup PROVE WrittenInv'
    <2>1. CASE TakeUncleaned("runCleanup", "removeFromSource")
        BY <2>1 DEF TakeUncleaned
    <2>2. ASSUME NEW k \in Keys, RemoveObject(k, "removeFromSource", "source") PROVE WrittenInv'
        BY <2>2 DEF RemoveObject
    <2>3. ASSUME NEW k \in Keys, MarkCleanedUp(k, "runCleanup", "removeFromSource") PROVE WrittenInv'
        BY <2>3 DEF MarkCleanedUp, NextStage
    <2>4. CASE NothingUncleaned("runCleanup", "completed")
        BY <2>4 DEF NothingUncleaned
    <2> QED
        BY <1>18, <2>1, <2>2, <2>3, <2>4 DEF RunCleanup
<1>19. ASSUME RunCancelling PROVE WrittenInv'
    <2>1. CASE TakeUncleaned("runCancelling", "removeFromTarget")
        BY <2>1 DEF TakeUncleaned
    <2>2. ASSUME NEW k \in Keys, RemoveObject(k, "removeFromTarget", "target") PROVE WrittenInv'
        BY <2>2 DEF RemoveObject
    <2>3. ASSUME NEW k \in Keys, MarkCleanedUp(k, "runCancelling", "removeFromTarget") PROVE WrittenInv'
        BY <2>3 DEF MarkCleanedUp, NextStage
    <2>4. CASE NothingUncleaned("runCancelling", "cancelled")
        BY <2>4 DEF NothingUncleaned
    <2> QED
        BY <1>19, <2>1, <2>2, <2>3, <2>4 DEF RunCancelling
<1>20. ASSUME MarkFailed PROVE WrittenInv'
    BY <1>20 DEF MarkFailed
<1>21. ASSUME AbortTick PROVE WrittenInv'
    BY <1>21 DEF AbortTick
<1>22. ASSUME Restart PROVE WrittenInv'
    <2>1. PICK torn \in SUBSET (IF pc = "transferOne" THEN batch ELSE {}) : LeaveTorn(torn)
        BY <1>22 DEF Restart
    <2> QED
        BY <1>22, <2>1, TornCopies DEF Restart
<1>23. ASSUME NEW k \in Keys, ResolveUpload(k) PROVE WrittenInv'
    BY <1>23 DEF ResolveUpload, GetStorage
<1>24. ASSUME NEW k \in Keys, StoreUpload(k) PROVE WrittenInv'
    BY <1>24 DEF StoreUpload
<1>25. ASSUME NEW k \in Keys, RemoveFile(k) PROVE WrittenInv'
    BY <1>25 DEF RemoveFile, GetStorage
<1>26. ASSUME ReadForCancel PROVE WrittenInv'
    BY <1>26 DEF ReadForCancel
<1>27. ASSUME SaveCancel PROVE WrittenInv'
    BY <1>27 DEF SaveCancel
<1>28. ASSUME UNCHANGED vars PROVE WrittenInv'
    BY <1>28 DEF vars
<1> QED
    BY <1>1, <1>2, <1>3, <1>4, <1>5, <1>6, <1>7, <1>8, <1>9, <1>10, <1>11, <1>12,
       <1>13, <1>14, <1>15, <1>16, <1>17, <1>18, <1>19, <1>20, <1>21, <1>22, <1>23, <1>24,
       <1>25, <1>26, <1>27, <1>28
    DEF Next, Worker, Clients, Admin

\* No step leaves a row "done" without its object, save where copies are undone.
LEMMA CopiedInvStep ==
    TypeInv /\ WrittenInv /\ CopiedInv /\ [Next]_vars => CopiedInv'
<1> SUFFICES ASSUME TypeInv, WrittenInv, CopiedInv, [Next]_vars PROVE CopiedInv'
    OBVIOUS
<1> USE DEF TypeInv, TypeOK, BatchInv, WrittenInv, CopiedInv, Copied, Forward, MediaKeys,
        Providers, Rows, Versions, EndTick, Loops,
        jobVars, rowVars, storeVars, clientVars, adminVars, tickVars
<1>1. ASSUME Tick PROVE CopiedInv'
    BY <1>1 DEF Tick, Dispatch, Stages
<1>2. ASSUME EnumerateSource PROVE CopiedInv'
    BY <1>2 DEF EnumerateSource, InsertRows, Page, Held
<1>3. ASSUME SaveCursor PROVE CopiedInv'
    BY <1>3 DEF SaveCursor
<1>4. ASSUME LeavePlanning PROVE CopiedInv'
    BY <1>4 DEF LeavePlanning
<1>5. ASSUME IsCancelRequested PROVE CopiedInv'
    BY <1>5 DEF IsCancelRequested
<1>6. ASSUME FindPending PROVE CopiedInv'
    BY <1>6 DEF FindPending, Limit
<1>7. ASSUME NEW k \in Keys, CopyObject(k) PROVE CopiedInv'
    BY <1>7 DEF CopyObject
<1>8. ASSUME NEW k \in Keys, RecordCopied(k) PROVE CopiedInv'
    BY <1>8 DEF RecordCopied, NextStage
<1>9. ASSUME NEW k \in Keys, TransferFailed(k) PROVE CopiedInv'
    <2>1. PICK torn \in SUBSET ({k} \cap batch) : LeaveTorn(torn)
        BY <1>9 DEF TransferFailed
    <2> QED
        BY <1>9, <2>1, TornCopies DEF TransferFailed, NextStage
<1>10. ASSUME LeaveRunning PROVE CopiedInv'
    BY <1>10 DEF LeaveRunning
<1>11. ASSUME StopVerifying PROVE CopiedInv'
    BY <1>11 DEF StopVerifying
<1>12. ASSUME StartVerifying PROVE CopiedInv'
    BY <1>12 DEF StartVerifying
<1>13. ASSUME Relist PROVE CopiedInv'
    BY <1>13 DEF Relist, InsertRows, Page, Held
<1>14. ASSUME LeaveVerifying PROVE CopiedInv'
    BY <1>14 DEF LeaveVerifying
<1>15. ASSUME DeactivateSource PROVE CopiedInv'
    BY <1>15 DEF DeactivateSource
<1>16. ASSUME ActivateTarget PROVE CopiedInv'
    BY <1>16 DEF ActivateTarget
<1>17. ASSUME LeaveCutover PROVE CopiedInv'
    BY <1>17 DEF LeaveCutover
<1>18. ASSUME RunCleanup PROVE CopiedInv'
    <2>1. CASE TakeUncleaned("runCleanup", "removeFromSource")
        BY <2>1 DEF TakeUncleaned
    <2>2. ASSUME NEW k \in Keys, RemoveObject(k, "removeFromSource", "source") PROVE CopiedInv'
        BY <2>2 DEF RemoveObject
    <2>3. ASSUME NEW k \in Keys, MarkCleanedUp(k, "runCleanup", "removeFromSource") PROVE CopiedInv'
        BY <2>3 DEF MarkCleanedUp, NextStage
    <2>4. CASE NothingUncleaned("runCleanup", "completed")
        BY <2>4 DEF NothingUncleaned
    <2> QED
        BY <1>18, <2>1, <2>2, <2>3, <2>4 DEF RunCleanup
<1>19. ASSUME RunCancelling PROVE CopiedInv'
    <2>1. CASE TakeUncleaned("runCancelling", "removeFromTarget")
        BY <2>1 DEF TakeUncleaned
    <2>2. ASSUME NEW k \in Keys, RemoveObject(k, "removeFromTarget", "target") PROVE CopiedInv'
        BY <2>2 DEF RemoveObject
    <2>3. ASSUME NEW k \in Keys, MarkCleanedUp(k, "runCancelling", "removeFromTarget") PROVE CopiedInv'
        BY <2>3 DEF MarkCleanedUp, NextStage
    <2>4. CASE NothingUncleaned("runCancelling", "cancelled")
        BY <2>4 DEF NothingUncleaned
    <2> QED
        BY <1>19, <2>1, <2>2, <2>3, <2>4 DEF RunCancelling
<1>20. ASSUME MarkFailed PROVE CopiedInv'
    BY <1>20 DEF MarkFailed
<1>21. ASSUME AbortTick PROVE CopiedInv'
    BY <1>21 DEF AbortTick
<1>22. ASSUME Restart PROVE CopiedInv'
    <2>1. PICK torn \in SUBSET (IF pc = "transferOne" THEN batch ELSE {}) : LeaveTorn(torn)
        BY <1>22 DEF Restart
    <2> QED
        BY <1>22, <2>1, TornCopies DEF Restart
<1>23. ASSUME NEW k \in Keys, ResolveUpload(k) PROVE CopiedInv'
    BY <1>23 DEF ResolveUpload, GetStorage
<1>24. ASSUME NEW k \in Keys, StoreUpload(k) PROVE CopiedInv'
    <2>1. k \in MediaKeys => file[k] = "none"
        BY <1>24, MediaWrittenOnce DEF StoreUpload
    <2>2. \A j \in MediaKeys : file[j] # "none" /\ Copied(j) => Copied(j)'
        BY <1>24, <2>1 DEF StoreUpload
    <2> QED
        BY <1>24, <2>2 DEF StoreUpload
<1>25. ASSUME NEW k \in Keys, RemoveFile(k) PROVE CopiedInv'
    BY <1>25 DEF RemoveFile, GetStorage
<1>26. ASSUME ReadForCancel PROVE CopiedInv'
    BY <1>26 DEF ReadForCancel
<1>27. ASSUME SaveCancel PROVE CopiedInv'
    BY <1>27 DEF SaveCancel
<1>28. ASSUME UNCHANGED vars PROVE CopiedInv'
    BY <1>28 DEF vars
<1> QED
    BY <1>1, <1>2, <1>3, <1>4, <1>5, <1>6, <1>7, <1>8, <1>9, <1>10, <1>11, <1>12,
       <1>13, <1>14, <1>15, <1>16, <1>17, <1>18, <1>19, <1>20, <1>21, <1>22, <1>23, <1>24,
       <1>25, <1>26, <1>27, <1>28
    DEF Next, Worker, Clients, Admin

\* The predicates of this section hold at the start.
LEMMA CopiedInit == Init => WrittenInv /\ CopiedInv
BY DEF Init, WrittenInv, CopiedInv, Copied, Forward, MediaKeys, Providers

\* The invariants so far hold together, forever.
LEMMA CopiedAlways == Spec => [](TypeInv /\ WrittenInv /\ CopiedInv)
BY TypeInvInit, TypeInvStep, CopiedInit, WrittenInvStep, CopiedInvStep, PTL DEF Spec

\* Until the job is cancelled or given up, a row that says "done" names an object
\* that is at the target, whatever restarts, failures, cancels and requests
\* interleave with the copy (transferOne writes the row after the stream).
THEOREM DoneIsCopiedAlways == Spec => []DoneIsCopied
<1>1. TypeInv /\ WrittenInv /\ CopiedInv => DoneIsCopied
    BY DEF CopiedInv, DoneIsCopied, Copied
<1> QED
    BY <1>1, CopiedAlways, PTL

\* The only step that takes an object from the source while its document lives is
\* the removal of a row that is done, by runCleanup.
LEMMA RemovalStep ==
    ASSUME TypeInv, WrittenInv, CopiedInv, [Next]_vars,
           NEW k \in MediaKeys, live[k], live'[k],
           object["source"][k] # 0, object'["source"][k] = 0
    PROVE  object["target"][k] # 0
<1> USE DEF TypeInv, TypeOK, MediaKeys, Providers, Versions,
        jobVars, rowVars, storeVars, clientVars, adminVars, tickVars
<1>1. \A j \in Keys : ~CopyObject(j) /\ ~StoreUpload(j) /\ ~RemoveFile(j)
    BY DEF CopyObject, StoreUpload, RemoveFile
<1>2. ASSUME NEW j \in Keys, RemoveObject(j, "removeFromSource", "source")
      PROVE  object["target"][k] # 0
    <2>1. j = k /\ k \in batch /\ pc = "removeFromSource"
        BY <1>2 DEF RemoveObject
    <2>2. file[k] = "done"
        BY <2>1 DEF BatchInv, Rows
    <2> QED
        BY <2>1, <2>2 DEF CopiedInv, Copied, Forward, Stages
<1>3. \A j \in Keys : ~RemoveObject(j, "removeFromTarget", "target")
    BY DEF RemoveObject
<1>4. object' # object
    OBVIOUS
<1>5. \A torn \in SUBSET Keys : ~LeaveTorn(torn)
    BY TornCopies
<1>6. \A j \in Keys : ~TransferFailed(j)
    BY <1>5 DEF TransferFailed
<1>7. ~Restart
    <2>1. (IF pc = "transferOne" THEN batch ELSE {}) \in SUBSET Keys
        OBVIOUS
    <2> QED
        BY <1>5, <2>1 DEF Restart
<1> QED
    BY <1>1, <1>2, <1>3, <1>4, <1>6, <1>7
    DEF Next, Worker, Clients, Admin, vars, RunCleanup, RunCancelling,
        Tick, EnumerateSource, SaveCursor, LeavePlanning, IsCancelRequested, FindPending,
        RecordCopied, LeaveRunning, StopVerifying, StartVerifying, Relist,
        LeaveVerifying, DeactivateSource, ActivateTarget, LeaveCutover, TakeUncleaned,
        MarkCleanedUp, NothingUncleaned, MarkFailed, AbortTick, ResolveUpload,
        ReadForCancel, SaveCancel

\* The worker takes the source's object of a live document away only when the
\* target has one (runCleanup, and nothing else, removes from the source), even
\* when a cancel lands past the point of no return.
THEOREM SourceEmptiedOnlyIfCopiedAlways == Spec => SourceEmptiedOnlyIfCopied
<1>1. TypeInv /\ WrittenInv /\ CopiedInv /\ [Next]_vars =>
        [\A k \in MediaKeys :
            live[k] /\ live'[k] /\ object["source"][k] # 0 /\ object'["source"][k] = 0
                => object["target"][k] # 0]_vars
    BY RemovalStep
<1> QED
    BY <1>1, CopiedAlways, PTL DEF Spec, SourceEmptiedOnlyIfCopied

-----------------------------------------------------------------------------
(* As long as every cancel comes in time, no file is lost.                 *)

Copying == {"enumerateSource", "saveCursor", "leavePlanning",
            "isCancelRequested", "findPending", "transferOne", "leaveRunning",
            "runVerifying", "relist", "leaveVerifying"}

\* The statuses of a job that has not come to its cutover.
BeforeCutover == Cancellable \cup {"cancelling", "cancelled"}

\* Where the tick stands agrees with the status, except that a cancel may have
\* been saved meanwhile.
StageInv ==
    /\ pc \in Copying => status \in Cancellable \cup {"cancelling"}
    /\ pc \in {"deactivateSource", "activateTarget", "leaveCutover"} => status = "cutover"
    /\ pc = "activateTarget" => ~isActive["source"]
    /\ pc = "leaveCutover" => ~isActive["source"] /\ isActive["target"]
    /\ pc \in {"runCleanup", "removeFromSource"} => status = "cleanup"

\* Until the cutover the application knows no provider but the source ...
ServingInv ==
    /\ status \in BeforeCutover =>
          /\ isActive["source"] /\ ~isActive["target"]
          /\ cached # "target"
          /\ \A k \in Keys : uploading[k] # "target"
    /\ status \in {"cleanup", "completed"} => ~isActive["source"] /\ isActive["target"]
    /\ ~(isActive["source"] /\ isActive["target"])

\* ... and the source has the latest version of every file; after it, one of the two
\* has some version of it.
HoldingInv ==
    /\ \A k \in Keys : live[k] =>
          /\ version[k] # 0
          /\ status \in BeforeCutover => object["source"][k] = version[k]
    /\ \A k \in MediaKeys : live[k] => object["source"][k] # 0 \/ object["target"][k] # 0

InTimeInv == ~lateCancel => StageInv /\ ServingInv /\ HoldingInv

\* Every step keeps the strengthening of NoFileLost and ActiveFollowsStatus.
LEMMA InTimeInvStep ==
    TypeInv /\ WrittenInv /\ CopiedInv /\ InTimeInv /\ [Next]_vars => InTimeInv'
<1> SUFFICES ASSUME TypeInv, WrittenInv, CopiedInv, InTimeInv, [Next]_vars PROVE InTimeInv'
    OBVIOUS
<1> USE DEF TypeInv, TypeOK, BatchInv, CopiedInv, Copied, Forward, Copying, BeforeCutover,
        InTimeInv, StageInv, ServingInv, HoldingInv, MediaKeys, Cancellable, Statuses, Terminal,
        Providers, Rows, Versions, Stages, EndTick, Loops,
        jobVars, rowVars, storeVars, clientVars, adminVars, tickVars
<1>1. ASSUME Tick PROVE InTimeInv'
    BY <1>1 DEF Tick, Dispatch, Stages
<1>2. ASSUME EnumerateSource PROVE InTimeInv'
    BY <1>2 DEF EnumerateSource, InsertRows, Page, Held
<1>3. ASSUME SaveCursor PROVE InTimeInv'
    BY <1>3 DEF SaveCursor
<1>4. ASSUME LeavePlanning PROVE InTimeInv'
    BY <1>4 DEF LeavePlanning
<1>5. ASSUME IsCancelRequested PROVE InTimeInv'
    BY <1>5 DEF IsCancelRequested
<1>6. ASSUME FindPending PROVE InTimeInv'
    BY <1>6 DEF FindPending, Limit
<1>7. ASSUME NEW k \in Keys, CopyObject(k) PROVE InTimeInv'
    BY <1>7 DEF CopyObject
<1>8. ASSUME NEW k \in Keys, RecordCopied(k) PROVE InTimeInv'
    BY <1>8 DEF RecordCopied, NextStage
<1>9. ASSUME NEW k \in Keys, TransferFailed(k) PROVE InTimeInv'
    <2>1. PICK torn \in SUBSET ({k} \cap batch) : LeaveTorn(torn)
        BY <1>9 DEF TransferFailed
    <2> QED
        BY <1>9, <2>1, TornCopies DEF TransferFailed, NextStage
<1>10. ASSUME LeaveRunning PROVE InTimeInv'
    BY <1>10 DEF LeaveRunning
<1>11. ASSUME StopVerifying PROVE InTimeInv'
    BY <1>11 DEF StopVerifying
<1>12. ASSUME StartVerifying PROVE InTimeInv'
    BY <1>12 DEF StartVerifying
<1>13. ASSUME Relist PROVE InTimeInv'
    BY <1>13 DEF Relist, InsertRows, Page, Held
<1>14. ASSUME LeaveVerifying PROVE InTimeInv'
    BY <1>14 DEF LeaveVerifying
<1>15. ASSUME DeactivateSource PROVE InTimeInv'
    BY <1>15 DEF DeactivateSource
<1>16. ASSUME ActivateTarget PROVE InTimeInv'
    BY <1>16 DEF ActivateTarget
<1>17. ASSUME LeaveCutover PROVE InTimeInv'
    BY <1>17 DEF LeaveCutover
<1>18. ASSUME RunCleanup PROVE InTimeInv'
    <2>1. CASE TakeUncleaned("runCleanup", "removeFromSource")
        BY <2>1 DEF TakeUncleaned
    <2>2. ASSUME NEW k \in Keys, RemoveObject(k, "removeFromSource", "source") PROVE InTimeInv'
        BY <2>2 DEF RemoveObject
    <2>3. ASSUME NEW k \in Keys, MarkCleanedUp(k, "runCleanup", "removeFromSource") PROVE InTimeInv'
        BY <2>3 DEF MarkCleanedUp, NextStage
    <2>4. CASE NothingUncleaned("runCleanup", "completed")
        BY <2>4 DEF NothingUncleaned
    <2> QED
        BY <1>18, <2>1, <2>2, <2>3, <2>4 DEF RunCleanup
<1>19. ASSUME RunCancelling PROVE InTimeInv'
    <2>1. CASE TakeUncleaned("runCancelling", "removeFromTarget")
        BY <2>1 DEF TakeUncleaned
    <2>2. ASSUME NEW k \in Keys, RemoveObject(k, "removeFromTarget", "target") PROVE InTimeInv'
        BY <2>2 DEF RemoveObject
    <2>3. ASSUME NEW k \in Keys, MarkCleanedUp(k, "runCancelling", "removeFromTarget") PROVE InTimeInv'
        BY <2>3 DEF MarkCleanedUp, NextStage
    <2>4. CASE NothingUncleaned("runCancelling", "cancelled")
        BY <2>4 DEF NothingUncleaned
    <2> QED
        BY <1>19, <2>1, <2>2, <2>3, <2>4 DEF RunCancelling
<1>20. ASSUME MarkFailed PROVE InTimeInv'
    BY <1>20 DEF MarkFailed
<1>21. ASSUME AbortTick PROVE InTimeInv'
    BY <1>21 DEF AbortTick
<1>22. ASSUME Restart PROVE InTimeInv'
    <2>1. PICK torn \in SUBSET (IF pc = "transferOne" THEN batch ELSE {}) : LeaveTorn(torn)
        BY <1>22 DEF Restart
    <2> QED
        BY <1>22, <2>1, TornCopies DEF Restart
<1>23. ASSUME NEW k \in Keys, ResolveUpload(k) PROVE InTimeInv'
    BY <1>23 DEF ResolveUpload, GetStorage
<1>24. ASSUME NEW k \in Keys, StoreUpload(k) PROVE InTimeInv'
    BY <1>24 DEF StoreUpload
<1>25. ASSUME NEW k \in Keys, RemoveFile(k) PROVE InTimeInv'
    BY <1>25 DEF RemoveFile, GetStorage
<1>26. ASSUME ReadForCancel PROVE InTimeInv'
    BY <1>26 DEF ReadForCancel
<1>27. ASSUME SaveCancel PROVE InTimeInv'
    BY <1>27 DEF SaveCancel
<1>28. ASSUME UNCHANGED vars PROVE InTimeInv'
    BY <1>28 DEF vars
<1> QED
    BY <1>1, <1>2, <1>3, <1>4, <1>5, <1>6, <1>7, <1>8, <1>9, <1>10, <1>11, <1>12,
       <1>13, <1>14, <1>15, <1>16, <1>17, <1>18, <1>19, <1>20, <1>21, <1>22, <1>23, <1>24,
       <1>25, <1>26, <1>27, <1>28
    DEF Next, Worker, Clients, Admin

\* It holds at the start, where the source has every live document's file ...
LEMMA InTimeInit == Init => InTimeInv
<1> SUFFICES ASSUME Init PROVE StageInv /\ ServingInv /\ HoldingInv
    BY DEF InTimeInv
<1>1. StageInv
    BY DEF Init, StageInv, Copying
<1>2. isActive["source"] /\ ~isActive["target"]
    BY DEF Init, Providers
<1>3. ServingInv
    BY <1>2 DEF Init, ServingInv, BeforeCutover, Cancellable
<1>4. ASSUME NEW k \in Keys, live[k] PROVE object["source"][k] = 1 /\ version[k] = 1
    <2>1. k \in InitialSource
        BY <1>4 DEF Init
    <2> QED
        BY <2>1 DEF Init, Providers
<1>5. HoldingInv
    BY <1>4 DEF HoldingInv, MediaKeys
<1> QED
    BY <1>1, <1>3, <1>5

\* ... and therefore forever.
LEMMA InTimeAlways == Spec => []InTimeInv
BY CopiedAlways, TypeInvInit, CopiedInit, InTimeInit, InTimeInvStep, PTL DEF Spec

\* No interleaving of copies, cleanups, failures, restarts, requests and cancels
\* that come in time destroys the only object of a live document.
THEOREM NoFileLostAlways == Spec => []NoFileLost
<1>1. InTimeInv => NoFileLost
    BY DEF InTimeInv, HoldingInv, NoFileLost, Providers
<1> QED
    BY <1>1, InTimeAlways, PTL

\* The isActive flags agree with the job's status: the source serves until the
\* cutover, the target after it, never both.
THEOREM ActiveFollowsStatusAlways == Spec => []ActiveFollowsStatus
<1>1. TypeOK /\ InTimeInv => ActiveFollowsStatus
    <2> SUFFICES ASSUME TypeOK, InTimeInv PROVE ActiveFollowsStatus
        OBVIOUS
    <2>1. \A q \in Providers : isActive[q] \in BOOLEAN
        BY DEF TypeOK
    <2>2. isActive = [p \in Providers |-> isActive[p]]
        BY DEF TypeOK
    <2> QED
        BY <2>1, <2>2 DEF InTimeInv, ServingInv, BeforeCutover, ActiveFollowsStatus, Providers
<1> QED
    BY <1>1, TypeCorrect, InTimeAlways, PTL

-----------------------------------------------------------------------------
(* Nothing slips past the verify passes.                                   *)

VerifyStages  == {"runVerifying", "relist", "leaveVerifying"}
CutoverStages == {"deactivateSource", "activateTarget", "leaveCutover"}
CleanupStages == {"runCleanup", "removeFromSource"}

\* A tick works on the status it was dispatched on; all that may have happened to
\* that status meanwhile is that a cancel was saved over it.
DispatchInv ==
    /\ pc \in {"enumerateSource", "saveCursor", "leavePlanning"} =>
          status \in {"planning", "cancelling"}
    /\ pc \in {"isCancelRequested", "findPending", "transferOne", "leaveRunning"} =>
          status \in {"running", "cancelling"}
    /\ pc \in VerifyStages => status \in {"verifying", "cancelling"}
    /\ pc \in CutoverStages => status \in {"cutover", "cancelling"}
    /\ pc \in CleanupStages => status \in {"cleanup", "cancelling"}

\* The job has come to its cutover, or is at it.
PastVerifying ==
    \/ status \in {"cutover", "cleanup", "completed"}
    \/ pc \in CutoverStages \cup CleanupStages

\* The listing of a verify pass, paged as it is, has given a row to every key behind
\* it; a pass that was cut short does not count, so the last one that counts is whole.
VerifyInv ==
    /\ pc = "runVerifying" => scan = 0
    /\ pc \in {"relist", "leaveVerifying"} => known \subseteq Tracked
    /\ \A k \in MediaKeys \cap verified :
          /\ version[k] # 0
          /\ live[k] =>
                /\ pc = "relist" => object["source"][k] # 0
                /\ \/ pc = "relist" /\ k <= scan
                   \/ pc = "leaveVerifying"
                   \/ verifyPasses = MaxVerifyPasses
                   \/ PastVerifying
                   => file[k] # "none"

\* From the end of the copying to the end of the job nothing is pending, but for what
\* the pass in progress has found, which it knows it has.
PendingInv ==
    /\ foundNew => pc \in {"relist", "leaveVerifying"}
    /\ /\ interruptions = 0 /\ ~foundNew
       /\ status = "verifying" \/ pc \in VerifyStages \/ PastVerifying
       => Rows("pending") = {}

\* Every step keeps the tick in a stage of the status it was dispatched on.
LEMMA DispatchInvStep == TypeInv /\ CopiedInv /\ DispatchInv /\ [Next]_vars => DispatchInv'
<1> SUFFICES ASSUME TypeInv, CopiedInv, DispatchInv, [Next]_vars PROVE DispatchInv'
    OBVIOUS
<1>1. CASE status' = status /\ pc' = pc
    BY <1>1 DEF DispatchInv, VerifyStages, CutoverStages, CleanupStages
<1>2. CASE pc' = "idle"
    BY <1>2 DEF DispatchInv, VerifyStages, CutoverStages, CleanupStages
<1>3. CASE Tick
    BY <1>3 DEF Tick, Dispatch, DispatchInv, VerifyStages, CutoverStages, CleanupStages, jobVars
<1> QED
    BY <1>1, <1>2, <1>3
    DEF DispatchInv, VerifyStages, CutoverStages, CleanupStages,
        Next, Worker, Clients, Admin, vars, RunCleanup, RunCancelling, EndTick, NextStage,
        EnumerateSource, SaveCursor, LeavePlanning, IsCancelRequested, FindPending,
        CopyObject, RecordCopied, TransferFailed, LeaveRunning, StopVerifying, StartVerifying,
        Relist, LeaveVerifying, DeactivateSource, ActivateTarget, LeaveCutover, TakeUncleaned,
        RemoveObject, MarkCleanedUp, NothingUncleaned, MarkFailed, AbortTick, Restart,
        ResolveUpload, StoreUpload, RemoveFile, ReadForCancel, SaveCancel,
        jobVars, rowVars, storeVars, clientVars, adminVars, tickVars

\* Every step keeps what the verify passes have gone through in the job's rows.
LEMMA VerifyInvStep ==
    TypeInv /\ WrittenInv /\ CopiedInv /\ DispatchInv /\ VerifyInv /\ [Next]_vars => VerifyInv'
<1> SUFFICES ASSUME TypeInv, WrittenInv, CopiedInv, DispatchInv, VerifyInv, [Next]_vars
             PROVE  VerifyInv'
    OBVIOUS
<1> USE DEF TypeInv, TypeOK, BatchInv, CounterInv, WrittenInv, CopiedInv, DispatchInv, VerifyInv,
        PastVerifying, VerifyStages, CutoverStages, CleanupStages, MediaKeys, Tracked,
        Providers, Rows, Versions, EndTick, Loops,
        jobVars, rowVars, storeVars, clientVars, adminVars, tickVars
<1>1. ASSUME Tick PROVE VerifyInv'
    BY <1>1 DEF Tick, Dispatch, Stages
<1>2. ASSUME EnumerateSource PROVE VerifyInv'
    BY <1>2 DEF EnumerateSource, InsertRows, Page, Held
<1>3. ASSUME SaveCursor PROVE VerifyInv'
    BY <1>3 DEF SaveCursor
<1>4. ASSUME LeavePlanning PROVE VerifyInv'
    BY <1>4 DEF LeavePlanning
<1>5. ASSUME IsCancelRequested PROVE VerifyInv'
    BY <1>5 DEF IsCancelRequested
<1>6. ASSUME FindPending PROVE VerifyInv'
    BY <1>6 DEF FindPending, Limit
<1>7. ASSUME NEW k \in Keys, CopyObject(k) PROVE VerifyInv'
    BY <1>7 DEF CopyObject
<1>8. ASSUME NEW k \in Keys, RecordCopied(k) PROVE VerifyInv'
    BY <1>8 DEF RecordCopied, NextStage
<1>9. ASSUME NEW k \in Keys, TransferFailed(k) PROVE VerifyInv'
    <2>1. PICK torn \in SUBSET ({k} \cap batch) : LeaveTorn(torn)
        BY <1>9 DEF TransferFailed
    <2> QED
        BY <1>9, <2>1, TornCopies DEF TransferFailed, NextStage
<1>10. ASSUME LeaveRunning PROVE VerifyInv'
    BY <1>10 DEF LeaveRunning
<1>11. ASSUME StopVerifying PROVE VerifyInv'
    BY <1>11, ConstantsAssumption DEF StopVerifying
<1>12. ASSUME StartVerifying PROVE VerifyInv'
    BY <1>12, ConstantsAssumption, KeyRange DEF StartVerifying, Held, Cursors
<1>13. ASSUME Relist PROVE VerifyInv'
    <2>1. \A k \in Page("source", scan) : file'[k] # "none"
        <3>1. Page("source", scan) \subseteq Keys
            BY DEF Page, Held
        <3>2. known \subseteq Tracked
            BY <1>13 DEF Relist
        <3> QED
            BY <1>13, <3>1, <3>2 DEF Relist, InsertRows, Tracked
    <2>2. \A k \in Keys : file[k] # "none" => file'[k] # "none"
        BY <1>13 DEF Relist, InsertRows
    <2>3. ASSUME NEW k \in Keys, object["source"][k] # 0, k > scan, scan' = 0 \/ k <= scan'
          PROVE  k \in Page("source", scan)
        BY <1>13, <2>3, PageCovers DEF Relist, Held
    <2>4. \A k \in Keys : k \in Int /\ k # 0
        BY KeyRange
    <2>5. scan \in Int /\ scan' \in Int
        BY <1>13, NextCursorType, ConstantsAssumption DEF Relist, Cursors
    <2> QED
        BY <1>13, <2>1, <2>2, <2>3, <2>4, <2>5 DEF Relist
<1>14. ASSUME LeaveVerifying PROVE VerifyInv'
    BY <1>14, ConstantsAssumption DEF LeaveVerifying
<1>15. ASSUME DeactivateSource PROVE VerifyInv'
    BY <1>15 DEF DeactivateSource
<1>16. ASSUME ActivateTarget PROVE VerifyInv'
    BY <1>16 DEF ActivateTarget
<1>17. ASSUME LeaveCutover PROVE VerifyInv'
    BY <1>17 DEF LeaveCutover
<1>18. ASSUME RunCleanup PROVE VerifyInv'
    <2>1. CASE TakeUncleaned("runCleanup", "removeFromSource")
        BY <2>1 DEF TakeUncleaned
    <2>2. ASSUME NEW k \in Keys, RemoveObject(k, "removeFromSource", "source") PROVE VerifyInv'
        BY <2>2 DEF RemoveObject
    <2>3. ASSUME NEW k \in Keys, MarkCleanedUp(k, "runCleanup", "removeFromSource") PROVE VerifyInv'
        BY <2>3 DEF MarkCleanedUp, NextStage
    <2>4. CASE NothingUncleaned("runCleanup", "completed")
        BY <2>4 DEF NothingUncleaned
    <2> QED
        BY <1>18, <2>1, <2>2, <2>3, <2>4 DEF RunCleanup
<1>19. ASSUME RunCancelling PROVE VerifyInv'
    <2>1. CASE TakeUncleaned("runCancelling", "removeFromTarget")
        BY <2>1 DEF TakeUncleaned
    <2>2. ASSUME NEW k \in Keys, RemoveObject(k, "removeFromTarget", "target") PROVE VerifyInv'
        BY <2>2 DEF RemoveObject
    <2>3. ASSUME NEW k \in Keys, MarkCleanedUp(k, "runCancelling", "removeFromTarget") PROVE VerifyInv'
        BY <2>3 DEF MarkCleanedUp, NextStage
    <2>4. CASE NothingUncleaned("runCancelling", "cancelled")
        BY <2>4 DEF NothingUncleaned
    <2> QED
        BY <1>19, <2>1, <2>2, <2>3, <2>4 DEF RunCancelling
<1>20. ASSUME MarkFailed PROVE VerifyInv'
    BY <1>20 DEF MarkFailed
<1>21. ASSUME AbortTick PROVE VerifyInv'
    BY <1>21 DEF AbortTick
<1>22. ASSUME Restart PROVE VerifyInv'
    <2>1. PICK torn \in SUBSET (IF pc = "transferOne" THEN batch ELSE {}) : LeaveTorn(torn)
        BY <1>22 DEF Restart
    <2> QED
        BY <1>22, <2>1, TornCopies DEF Restart
<1>23. ASSUME NEW k \in Keys, ResolveUpload(k) PROVE VerifyInv'
    BY <1>23 DEF ResolveUpload, GetStorage
<1>24. ASSUME NEW k \in Keys, StoreUpload(k) PROVE VerifyInv'
    BY <1>24, MediaWrittenOnce DEF StoreUpload
<1>25. ASSUME NEW k \in Keys, RemoveFile(k) PROVE VerifyInv'
    BY <1>25 DEF RemoveFile, GetStorage
<1>26. ASSUME ReadForCancel PROVE VerifyInv'
    BY <1>26 DEF ReadForCancel
<1>27. ASSUME SaveCancel PROVE VerifyInv'
    BY <1>27 DEF SaveCancel
<1>28. ASSUME UNCHANGED vars PROVE VerifyInv'
    BY <1>28 DEF vars
<1> QED
    BY <1>1, <1>2, <1>3, <1>4, <1>5, <1>6, <1>7, <1>8, <1>9, <1>10, <1>11, <1>12,
       <1>13, <1>14, <1>15, <1>16, <1>17, <1>18, <1>19, <1>20, <1>21, <1>22, <1>23, <1>24,
       <1>25, <1>26, <1>27, <1>28
    DEF Next, Worker, Clients, Admin

\* Every step that is no interruption leaves nothing pending behind the copying.
LEMMA PendingInvStep ==
    TypeInv /\ CopiedInv /\ DispatchInv /\ PendingInv /\ [Next]_vars => PendingInv'
<1> SUFFICES ASSUME TypeInv, CopiedInv, DispatchInv, PendingInv, [Next]_vars
             PROVE  PendingInv'
    OBVIOUS
<1> USE DEF TypeInv, TypeOK, BatchInv, CopiedInv, DispatchInv, PendingInv,
        PastVerifying, VerifyStages, CutoverStages, CleanupStages,
        Providers, Rows, EndTick, Loops,
        jobVars, rowVars, storeVars, clientVars, adminVars, tickVars
<1>1. ASSUME Tick PROVE PendingInv'
    BY <1>1 DEF Tick, Dispatch, Stages
<1>2. ASSUME EnumerateSource PROVE PendingInv'
    BY <1>2 DEF EnumerateSource, InsertRows, Page, Held
<1>3. ASSUME SaveCursor PROVE PendingInv'
    BY <1>3 DEF SaveCursor
<1>4. ASSUME LeavePlanning PROVE PendingInv'
    BY <1>4 DEF LeavePlanning
<1>5. ASSUME IsCancelRequested PROVE PendingInv'
    BY <1>5 DEF IsCancelRequested
<1>6. ASSUME FindPending PROVE PendingInv'
    BY <1>6 DEF FindPending, Limit
<1>7. ASSUME NEW k \in Keys, CopyObject(k) PROVE PendingInv'
    BY <1>7 DEF CopyObject
<1>8. ASSUME NEW k \in Keys, RecordCopied(k) PROVE PendingInv'
    BY <1>8 DEF RecordCopied, NextStage
<1>9. ASSUME NEW k \in Keys, TransferFailed(k) PROVE PendingInv'
    <2>1. PICK torn \in SUBSET ({k} \cap batch) : LeaveTorn(torn)
        BY <1>9 DEF TransferFailed
    <2> QED
        BY <1>9, <2>1, TornCopies DEF TransferFailed, NextStage
<1>10. ASSUME LeaveRunning PROVE PendingInv'
    BY <1>10 DEF LeaveRunning
<1>11. ASSUME StopVerifying PROVE PendingInv'
    BY <1>11 DEF StopVerifying
<1>12. ASSUME StartVerifying PROVE PendingInv'
    BY <1>12 DEF StartVerifying
<1>13. ASSUME Relist PROVE PendingInv'
    BY <1>13 DEF Relist, InsertRows
<1>14. ASSUME LeaveVerifying PROVE PendingInv'
    BY <1>14 DEF LeaveVerifying
<1>15. ASSUME DeactivateSource PROVE PendingInv'
    BY <1>15 DEF DeactivateSource
<1>16. ASSUME ActivateTarget PROVE PendingInv'
    BY <1>16 DEF ActivateTarget
<1>17. ASSUME LeaveCutover PROVE PendingInv'
    BY <1>17 DEF LeaveCutover
<1>18. ASSUME RunCleanup PROVE PendingInv'
    <2>1. CASE TakeUncleaned("runCleanup", "removeFromSource")
        BY <2>1 DEF TakeUncleaned
    <2>2. ASSUME NEW k \in Keys, RemoveObject(k, "removeFromSource", "source") PROVE PendingInv'
        BY <2>2 DEF RemoveObject
    <2>3. ASSUME NEW k \in Keys, MarkCleanedUp(k, "runCleanup", "removeFromSource") PROVE PendingInv'
        BY <2>3 DEF MarkCleanedUp, NextStage
    <2>4. CASE NothingUncleaned("runCleanup", "completed")
        BY <2>4 DEF NothingUncleaned
    <2> QED
        BY <1>18, <2>1, <2>2, <2>3, <2>4 DEF RunCleanup
<1>19. ASSUME RunCancelling PROVE PendingInv'
    <2>1. CASE TakeUncleaned("runCancelling", "removeFromTarget")
        BY <2>1 DEF TakeUncleaned
    <2>2. ASSUME NEW k \in Keys, RemoveObject(k, "removeFromTarget", "target") PROVE PendingInv'
        BY <2>2 DEF RemoveObject
    <2>3. ASSUME NEW k \in Keys, MarkCleanedUp(k, "runCancelling", "removeFromTarget") PROVE PendingInv'
        BY <2>3 DEF MarkCleanedUp, NextStage
    <2>4. CASE NothingUncleaned("runCancelling", "cancelled")
        BY <2>4 DEF NothingUncleaned
    <2> QED
        BY <1>19, <2>1, <2>2, <2>3, <2>4 DEF RunCancelling
<1>20. ASSUME MarkFailed PROVE PendingInv'
    BY <1>20 DEF MarkFailed
<1>21. ASSUME AbortTick PROVE PendingInv'
    BY <1>21 DEF AbortTick
<1>22. ASSUME Restart PROVE PendingInv'
    <2>1. PICK torn \in SUBSET (IF pc = "transferOne" THEN batch ELSE {}) : LeaveTorn(torn)
        BY <1>22 DEF Restart
    <2> QED
        BY <1>22, <2>1, TornCopies DEF Restart
<1>23. ASSUME NEW k \in Keys, ResolveUpload(k) PROVE PendingInv'
    BY <1>23 DEF ResolveUpload, GetStorage
<1>24. ASSUME NEW k \in Keys, StoreUpload(k) PROVE PendingInv'
    BY <1>24 DEF StoreUpload
<1>25. ASSUME NEW k \in Keys, RemoveFile(k) PROVE PendingInv'
    BY <1>25 DEF RemoveFile, GetStorage
<1>26. ASSUME ReadForCancel PROVE PendingInv'
    BY <1>26 DEF ReadForCancel
<1>27. ASSUME SaveCancel PROVE PendingInv'
    BY <1>27 DEF SaveCancel
<1>28. ASSUME UNCHANGED vars PROVE PendingInv'
    BY <1>28 DEF vars
<1> QED
    BY <1>1, <1>2, <1>3, <1>4, <1>5, <1>6, <1>7, <1>8, <1>9, <1>10, <1>11, <1>12,
       <1>13, <1>14, <1>15, <1>16, <1>17, <1>18, <1>19, <1>20, <1>21, <1>22, <1>23, <1>24,
       <1>25, <1>26, <1>27, <1>28
    DEF Next, Worker, Clients, Admin

\* At the start no pass has begun and nothing is listed.
LEMMA PassInit == Init => DispatchInv /\ VerifyInv /\ PendingInv
BY DEF Init, DispatchInv, VerifyInv, PendingInv, PastVerifying,
       VerifyStages, CutoverStages, CleanupStages, Rows, Cancellable

LEMMA PassAlways == Spec => [](DispatchInv /\ VerifyInv /\ PendingInv)
BY CopiedAlways, PassInit, DispatchInvStep, VerifyInvStep, PendingInvStep, PTL DEF Spec

\* A cancel that comes in time leaves the source as the application knows it; every live
\* file the last whole verify pass has seen has a row at the cutover (runVerifying pages
\* through the listing while clients write); and without interruptions no row is left
\* pending there.
THEOREM NothingSlipsAlways == Spec => []NothingSlips
<1>1. InTimeInv => CancelKeepsSource
    BY DEF InTimeInv, ServingInv, HoldingInv, BeforeCutover, CancelKeepsSource
<1>2. VerifyInv => VerifiedIsTracked
    BY DEF VerifyInv, PastVerifying, VerifiedIsTracked
<1>3. DispatchInv /\ PendingInv => NothingPendingAtCutover
    <2> SUFFICES ASSUME DispatchInv, PendingInv, interruptions = 0,
                        status \in {"cutover", "cleanup", "completed"}
                 PROVE  Rows("pending") = {}
        BY DEF NothingPendingAtCutover
    <2>1. ~foundNew
        BY DEF PendingInv, DispatchInv, VerifyStages
    <2> QED
        BY <2>1 DEF PendingInv, PastVerifying
<1> QED
    BY <1>1, <1>2, <1>3, InTimeAlways, PassAlways, PTL DEF NothingSlips

-----------------------------------------------------------------------------
(* The job implements the handover, as long as its cancels come in time.   *)

\* What becomes of the handover's view of the objects when one object is written or
\* removed, ...
LEMMA OneObject ==
    ASSUME TypeOK, NEW p \in Providers, NEW k \in Keys, NEW v \in Versions,
           object' = [object EXCEPT ![p][k] = v]
    PROVE  /\ k \in MediaKeys /\ v # 0 => Stored' = [Stored EXCEPT ![p] = @ \cup {k}]
           /\ k \in MediaKeys /\ v = 0 => Stored' = [Stored EXCEPT ![p] = @ \ {k}]
           /\ k \notin MediaKeys => Stored' = Stored
<1>1. \A q \in Providers, j \in Keys :
         object'[q][j] = IF q = p /\ j = k THEN v ELSE object[q][j]
    BY DEF TypeOK
<1>2. Stored' = [q \in Providers |-> {j \in MediaKeys : object'[q][j] # 0}]
    BY DEF Stored
<1>3. \A q \in Providers :
         /\ k \in MediaKeys /\ v # 0 /\ q = p =>
               {j \in MediaKeys : object'[q][j] # 0} = {j \in MediaKeys : object[q][j] # 0} \cup {k}
         /\ k \in MediaKeys /\ v = 0 /\ q = p =>
               {j \in MediaKeys : object'[q][j] # 0} = {j \in MediaKeys : object[q][j] # 0} \ {k}
         /\ q # p \/ k \notin MediaKeys =>
               {j \in MediaKeys : object'[q][j] # 0} = {j \in MediaKeys : object[q][j] # 0}
    BY <1>1 DEF MediaKeys
<1> QED
    BY <1>2, <1>3 DEF Stored

\* ... or copies are torn.
LEMMA TornObjects ==
    ASSUME TypeOK, NEW torn \in SUBSET Keys, LeaveTorn(torn)
    PROVE  Stored' = [Stored EXCEPT !["target"] = @ \ (torn \cap MediaKeys)]
<1>1. Stored' = [q \in Providers |-> {j \in MediaKeys : object'[q][j] # 0}]
    BY DEF Stored
<1>2. /\ {j \in MediaKeys : object'["source"][j] # 0} = {j \in MediaKeys : object["source"][j] # 0}
      /\ {j \in MediaKeys : object'["target"][j] # 0} =
            {j \in MediaKeys : object["target"][j] # 0} \ (torn \cap MediaKeys)
    BY TornCopies DEF MediaKeys
<1> QED
    BY <1>1, <1>2 DEF Stored, Providers


\* Until the cutover the source serves alone, and has what is needed; ...
LEMMA SourceServes ==
    ASSUME TypeInv, InTimeInv, ~lateCancel, status \in BeforeCutover
    PROVE  Serving = {"source"} /\ Needed \subseteq Stored["source"]
<1>1. Serving = {"source"}
    BY DEF InTimeInv, ServingInv, Serving, Providers
<1>2. \A k \in MediaKeys : live[k] => object["source"][k] # 0
    BY DEF InTimeInv, HoldingInv, MediaKeys
<1> QED
    BY <1>1, <1>2 DEF Needed, Stored, Providers

\* ... so the target's copies may be taken back, or torn, one or many at a time.
LEMMA WithdrawStep ==
    ASSUME TypeInv, InTimeInv, ~lateCancel, status \in BeforeCutover,
           UNCHANGED <<live, isActive>>, NEW files \in SUBSET MediaKeys,
           Stored' = [Stored EXCEPT !["target"] = @ \ files]
    PROVE  Handover!Next
<1>1. Handover!Withdraw(files)
    BY SourceServes DEF Handover!Withdraw, Needed, Serving
<1> QED
    BY <1>1 DEF Handover!Next

\* A step that touches neither documents nor objects nor flags is none of the handover's.
LEMMA HandoverStutters ==
    ASSUME UNCHANGED <<live, isActive>>, Stored' = Stored
    PROVE  UNCHANGED Handover!vars
BY DEF Handover!vars, Needed, Serving

\* Every step of a job whose cancels came in time is a step of the handover.
LEMMA HandoverStep ==
    ASSUME TypeInv, WrittenInv, CopiedInv, DispatchInv, InTimeInv, ~lateCancel', [Next]_vars
    PROVE  Handover!Next \/ UNCHANGED Handover!vars
<1> DEFINE Step == Handover!Next \/ UNCHANGED Handover!vars
<1>0. TypeOK /\ ~lateCancel
    <2>1. TypeOK
        BY DEF TypeInv
    <2>2. lateCancel => lateCancel'
        BY DEF Next, Worker, Clients, Admin, vars, adminVars, RunCleanup, RunCancelling,
               Tick, EnumerateSource, SaveCursor, LeavePlanning, IsCancelRequested, FindPending,
               CopyObject, RecordCopied, TransferFailed, LeaveRunning, StopVerifying,
               StartVerifying, Relist, LeaveVerifying, DeactivateSource, ActivateTarget,
               LeaveCutover, TakeUncleaned, RemoveObject, MarkCleanedUp, NothingUncleaned,
               MarkFailed, AbortTick, Restart, ResolveUpload, StoreUpload, RemoveFile,
               ReadForCancel, SaveCancel
    <2> QED
        BY <2>1, <2>2
<1>a. 0 \in Versions /\ "source" \in Providers /\ "target" \in Providers
    BY ConstantsAssumption DEF Versions, Providers
<1>1. ASSUME UNCHANGED <<live, isActive, object>> PROVE Step
    BY <1>1, HandoverStutters DEF Stored
<1>2. ASSUME NEW k \in Keys, CopyObject(k) PROVE Step
    <2>1. status \in BeforeCutover
        BY <1>2 DEF CopyObject, DispatchInv, BeforeCutover, Cancellable
    <2>2. object["source"][k] \in Versions \ {0}
        BY <1>0, <1>2 DEF CopyObject, TypeOK, Providers
    <2>3. /\ k \in MediaKeys => Stored' = [Stored EXCEPT !["target"] = @ \cup {k}]
          /\ k \notin MediaKeys => Stored' = Stored
        BY <1>0, <1>2, <2>2, OneObject DEF CopyObject, Providers
    <2>4. UNCHANGED <<live, isActive>>
        BY <1>2 DEF CopyObject, clientVars
    <2>5. CASE k \in MediaKeys
        <3>1. k \in Stored["source"]
            BY <1>2, <2>5 DEF CopyObject, Stored, Providers
        <3>2. Handover!Copy(k)
            BY <1>0, <2>1, <2>3, <2>4, <2>5, <3>1, SourceServes DEF Handover!Copy, Needed, Serving
        <3> QED
            BY <2>5, <3>2 DEF Handover!Next
    <2>6. CASE k \notin MediaKeys
        BY <2>3, <2>4, <2>6, HandoverStutters
    <2> QED
        BY <2>5, <2>6
<1>3. ASSUME NEW torn \in SUBSET Keys, LeaveTorn(torn), UNCHANGED <<live, isActive>>,
             torn = {} \/ pc = "transferOne"
      PROVE  Step
    <2>1. Stored' = [Stored EXCEPT !["target"] = @ \ (torn \cap MediaKeys)]
        BY <1>0, <1>3, TornObjects
    <2>2. CASE pc = "transferOne"
        <3>1. status \in BeforeCutover
            BY <2>2 DEF DispatchInv, BeforeCutover, Cancellable
        <3> QED
            BY <1>0, <1>3, <2>1, <3>1, WithdrawStep
    <2>3. CASE torn = {}
        <3>1. Stored' = Stored
            BY <2>1, <2>3 DEF Stored
        <3> QED
            BY <1>3, <3>1, HandoverStutters
    <2> QED
        BY <1>3, <2>2, <2>3
<1>4. ASSUME NEW k \in Keys, TransferFailed(k) PROVE Step
    <2>1. PICK torn \in SUBSET ({k} \cap batch) : LeaveTorn(torn)
        BY <1>4 DEF TransferFailed
    <2>2. torn \in SUBSET Keys /\ pc = "transferOne" /\ UNCHANGED <<live, isActive>>
        BY <1>4 DEF TransferFailed, clientVars
    <2> QED
        BY <1>3, <2>1, <2>2
<1>5. ASSUME Restart PROVE Step
    <2>1. PICK torn \in SUBSET (IF pc = "transferOne" THEN batch ELSE {}) : LeaveTorn(torn)
        BY <1>5 DEF Restart
    <2>2. /\ torn \in SUBSET Keys
          /\ torn = {} \/ pc = "transferOne"
          /\ UNCHANGED <<live, isActive>>
        BY <1>0, <1>5 DEF Restart, TypeOK
    <2> QED
        BY <1>3, <2>1, <2>2
<1>6. ASSUME DeactivateSource PROVE Step
    <2>1. /\ UNCHANGED <<live, object>>
          /\ Serving' = Serving \ {"source"}
          /\ Serving \in {{}, {"source"}, {"target"}}
        BY <1>0, <1>6 DEF DeactivateSource, clientVars, Serving, TypeOK, Providers,
                          InTimeInv, ServingInv
    <2>2. CASE Serving = {"source"}
        <3>1. Handover!Retire
            BY <2>1, <2>2 DEF Handover!Retire, Needed, Stored
        <3> QED
            BY <3>1 DEF Handover!Next
    <2>3. CASE Serving # {"source"}
        BY <2>1, <2>3 DEF Handover!vars, Needed, Stored
    <2> QED
        BY <2>2, <2>3
<1>7. ASSUME ActivateTarget PROVE Step
    <2>1. /\ UNCHANGED <<live, object>>
          /\ Serving' = Serving \cup {"target"}
          /\ Serving \in {{}, {"target"}}
        BY <1>0, <1>7 DEF ActivateTarget, clientVars, Serving, TypeOK, Providers,
                          InTimeInv, StageInv
    <2>2. CASE Serving = {}
        <3>1. Handover!Promote
            BY <2>1, <2>2 DEF Handover!Promote, Needed, Stored
        <3> QED
            BY <3>1 DEF Handover!Next
    <2>3. CASE Serving = {"target"}
        BY <2>1, <2>3 DEF Handover!vars, Needed, Stored
    <2> QED
        BY <2>1, <2>2, <2>3
<1>8. ASSUME NEW k \in Keys, RemoveObject(k, "removeFromSource", "source") PROVE Step
    <2>1. UNCHANGED <<live, isActive>>
        BY <1>8 DEF RemoveObject, clientVars
    <2>2. CASE UNCHANGED object
        BY <1>1, <2>1, <2>2
    <2>3. CASE object' = [object EXCEPT !["source"][k] = 0]
        <3>1. /\ k \in MediaKeys => Stored' = [Stored EXCEPT !["source"] = @ \ {k}]
              /\ k \notin MediaKeys => Stored' = Stored
            BY <1>0, <1>a, <2>3, OneObject
        <3>2. CASE k \in MediaKeys
            <4>1. file[k] = "done" /\ status = "cleanup"
                BY <1>0, <1>8 DEF RemoveObject, TypeInv, BatchInv, Rows, InTimeInv, StageInv
            <4>2. Serving = {"target"}
                BY <1>0, <4>1 DEF InTimeInv, ServingInv, Serving, Providers
            <4>3. k \in Needed => k \in Stored["target"]
                BY <3>2, <4>1 DEF CopiedInv, Copied, Needed, Stored, Providers
            <4>4. Handover!Purge(k)
                BY <2>1, <3>1, <3>2, <4>2, <4>3 DEF Handover!Purge, Needed, Serving
            <4> QED
                BY <3>2, <4>4 DEF Handover!Next
        <3>3. CASE k \notin MediaKeys
            BY <2>1, <3>1, <3>3, HandoverStutters
        <3> QED
            BY <3>2, <3>3
    <2> QED
        BY <1>8, <2>2, <2>3 DEF RemoveObject
<1>9. ASSUME NEW k \in Keys, RemoveObject(k, "removeFromTarget", "target") PROVE Step
    <2>1. UNCHANGED <<live, isActive>>
        BY <1>9 DEF RemoveObject, clientVars
    <2>2. CASE UNCHANGED object
        BY <1>1, <2>1, <2>2
    <2>3. CASE object' = [object EXCEPT !["target"][k] = 0]
        <3>1. /\ k \in MediaKeys => Stored' = [Stored EXCEPT !["target"] = @ \ {k}]
              /\ k \notin MediaKeys => Stored' = Stored
            BY <1>0, <1>a, <2>3, OneObject
        <3>2. status \in BeforeCutover
            BY <1>9 DEF RemoveObject, CopiedInv, BeforeCutover
        <3>3. CASE k \in MediaKeys
            <4>1. {k} \in SUBSET MediaKeys
                BY <3>3
            <4> QED
                BY <1>0, <2>1, <3>1, <3>2, <3>3, <4>1, WithdrawStep
        <3>4. CASE k \notin MediaKeys
            BY <2>1, <3>1, <3>4, HandoverStutters
        <3> QED
            BY <3>3, <3>4
    <2> QED
        BY <1>9, <2>2, <2>3 DEF RemoveObject
<1>10. ASSUME NEW k \in Keys, StoreUpload(k) PROVE Step
    <2> DEFINE p == uploading[k]
    <2>1. p \in Providers /\ version[k] + 1 \in Versions \ {0} /\ UNCHANGED isActive
        BY <1>0, <1>10, ConstantsAssumption
        DEF StoreUpload, TypeInv, TypeOK, CounterInv, MayWrite, Versions, Providers
    <2>2. /\ k \in MediaKeys => Stored' = [Stored EXCEPT ![p] = @ \cup {k}]
          /\ k \notin MediaKeys => Stored' = Stored
        <3> HIDE DEF p
        <3> QED
            BY <1>0, <1>10, <2>1, OneObject DEF StoreUpload, p
    <2>3. \A j \in Keys : live'[j] = (j = k \/ live[j])
        BY <1>0, <1>10 DEF StoreUpload, TypeOK
    <2>4. CASE k \in MediaKeys
        <3>1. ~live[k]
            BY <1>0, <1>10, <2>4, MediaWrittenOnce DEF StoreUpload, InTimeInv, HoldingInv
        <3>2. Needed' = Needed \cup {k} /\ k \notin Needed
            BY <2>3, <2>4, <3>1 DEF Needed, MediaKeys
        <3>3. Handover!Arrive(k, p)
            BY <2>1, <2>2, <2>4, <3>2 DEF Handover!Arrive, Serving
        <3> QED
            BY <2>1, <2>4, <3>3 DEF Handover!Next, Handover!Providers, Providers
    <2>5. CASE k \notin MediaKeys
        <3>1. Needed' = Needed
            BY <2>3, <2>5 DEF Needed, MediaKeys
        <3> QED
            BY <2>1, <2>2, <2>5, <3>1 DEF Handover!vars, Serving
    <2> QED
        BY <2>4, <2>5
<1>11. ASSUME NEW k \in Keys, RemoveFile(k) PROVE Step
    <2>1. PICK p \in Providers : object' = [object EXCEPT ![p][k] = 0]
        BY <1>11 DEF RemoveFile
    <2>2. UNCHANGED isActive
        BY <1>11 DEF RemoveFile
    <2>3. /\ k \in MediaKeys => Stored' = [Stored EXCEPT ![p] = @ \ {k}]
          /\ k \notin MediaKeys => Stored' = Stored
        BY <1>0, <1>a, <2>1, OneObject
    <2>4. \A j \in Keys : live'[j] = (j # k /\ live[j])
        BY <1>0, <1>11 DEF RemoveFile, TypeOK
    <2>5. CASE k \in MediaKeys
        <3>1. Needed' = Needed \ {k} /\ k \in Needed
            BY <1>11, <2>4, <2>5 DEF RemoveFile, Needed, MediaKeys
        <3>2. Handover!Depart(k, p)
            BY <2>2, <2>3, <2>5, <3>1 DEF Handover!Depart, Serving
        <3> QED
            BY <2>1, <2>5, <3>2 DEF Handover!Next, Handover!Providers, Providers
    <2>6. CASE k \notin MediaKeys
        <3>1. Needed' = Needed
            BY <2>4, <2>6 DEF Needed, MediaKeys
        <3> QED
            BY <2>2, <2>3, <2>6, <3>1 DEF Handover!vars, Serving
    <2> QED
        BY <2>5, <2>6
<1> QED
    BY <1>1, <1>2, <1>4, <1>5, <1>6, <1>7, <1>8, <1>9, <1>10, <1>11
    DEF Next, Worker, Clients, Admin, vars, RunCleanup, RunCancelling,
        Tick, EnumerateSource, SaveCursor, LeavePlanning, IsCancelRequested, FindPending,
        RecordCopied, LeaveRunning, StopVerifying, StartVerifying, Relist,
        LeaveVerifying, LeaveCutover, TakeUncleaned, MarkCleanedUp, NothingUncleaned,
        MarkFailed, AbortTick, ResolveUpload, ReadForCancel, SaveCancel,
        storeVars, clientVars


\* A new job begins as a handover does: the source serves, and has what is needed.
LEMMA HandoverInit == Init => Handover!Init
<1> SUFFICES ASSUME Init PROVE Handover!Init
    OBVIOUS
<1>1. TypeInv /\ InTimeInv /\ ~lateCancel /\ status \in BeforeCutover
    <2>1. ~lateCancel /\ status \in BeforeCutover
        BY DEF Init, BeforeCutover, Cancellable
    <2> QED
        BY <2>1, TypeInvInit, InTimeInit
<1>2. Stored \in [Handover!Providers -> SUBSET MediaKeys]
    BY DEF Stored, Providers, Handover!Providers
<1> QED
    BY <1>1, <1>2, SourceServes DEF Handover!Init

\* A job whose cancels come in time does nothing but hand the files over: no copy, torn
\* copy, cleanup, cancel or restart is a step a handover would not take.
THEOREM ImplementsHandoverAlways == Spec => ImplementsHandover
<1>1. /\ TypeInv /\ WrittenInv /\ CopiedInv
      /\ DispatchInv
      /\ InTimeInv
      /\ [Next]_vars
      => [lateCancel' \/ Handover!Next]_(Handover!vars)
    BY HandoverStep
<1> QED
    BY <1>1, HandoverInit, CopiedAlways, PassAlways, InTimeAlways, PTL
    DEF Spec, ImplementsHandover

\* A step of a handover keeps every needed file with one of the two providers, ...
LEMMA HandoverKeepsStep ==
    ASSUME Handover!TypeOK, Handover!NothingLost, [Handover!Next]_(Handover!vars)
    PROVE  Handover!TypeOK' /\ Handover!NothingLost'
<1> DEFINE Kept == Handover!TypeOK' /\ Handover!NothingLost'
<1> USE DEF Handover!TypeOK, Handover!NothingLost, Handover!Providers
<1>1. ASSUME NEW f \in MediaKeys, NEW p \in Handover!Providers, Handover!Arrive(f, p) PROVE Kept
    BY <1>1 DEF Handover!Arrive
<1>2. ASSUME NEW f \in MediaKeys, NEW p \in Handover!Providers, Handover!Depart(f, p) PROVE Kept
    BY <1>2 DEF Handover!Depart
<1>3. ASSUME NEW f \in MediaKeys, Handover!Copy(f) PROVE Kept
    BY <1>3 DEF Handover!Copy
<1>4. ASSUME NEW f \in MediaKeys, Handover!Purge(f) PROVE Kept
    BY <1>4 DEF Handover!Purge
<1>5. ASSUME NEW files \in SUBSET MediaKeys, Handover!Withdraw(files) PROVE Kept
    BY <1>5 DEF Handover!Withdraw
<1>6. CASE Handover!Retire \/ Handover!Promote \/ UNCHANGED Handover!vars
    BY <1>6 DEF Handover!Retire, Handover!Promote, Handover!vars
<1> QED
    BY <1>1, <1>2, <1>3, <1>4, <1>5, <1>6 DEF Handover!Next

\* ... so that no handover ever leaves one with neither, whatever its files, its clients
\* and its cancels do: what the worker gets from implementing one.
THEOREM HandoverKeepsFiles == Handover!Spec => []Handover!NothingLost
<1>1. Handover!Init => Handover!TypeOK /\ Handover!NothingLost
    BY DEF Handover!Init, Handover!TypeOK, Handover!NothingLost, Handover!Providers
<1> QED
    BY <1>1, HandoverKeepsStep, PTL DEF Handover!Spec
=============================================================================
