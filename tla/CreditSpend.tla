---------------------------- MODULE CreditSpend ----------------------------
(***************************************************************************)
(* Spending credits.  A theme or the list of viewers is unlocked once for  *)
(* a timeline, an extra timeline and more storage may be bought again and  *)
(* again.  There are no transactions: an unlock reads the user's document, *)
(* saves the balance it has computed, creates a record under a unique      *)
(* index and, when that fails because somebody was faster, saves the       *)
(* balance it remembers.  Storage is debited by one conditional update.    *)
(* Meanwhile orders top the balance up and administrators adjust it.       *)
(*                                                                         *)
(* Code: lib/themeUnlock.js, lib/viewerListUnlock.js, POST / and           *)
(* POST /:slug/storage/purchase of routes/timelines.js,                    *)
(* POST /users/:id/credits of routes/admin.js.                             *)
(***************************************************************************)
EXTENDS Integers, FiniteSets

CONSTANTS
    User,
    Unlock, NewTimeline, Storage, Adjustment,  \* the requests, by their kind
    By,            \* By[r]: the user whose balance request r is about
    Wanted,        \* the things an unlock may be about
    Wants,         \* Wants[r]: the one unlock r is about
    Price,         \* what anything costs
    Free,          \* freeTimelinesPerAccount
    Initial,       \* every user's balance at the start
    TopUpAmount,   \* what an order grants
    Amounts,       \* what an administrator may add, or take when negative
    MaxTopUps,     \* bound: top-ups of one user
    MaxFailures    \* bound: errors and restarts between two calls of a handler

Request == Unlock \cup NewTimeline \cup Storage \cup Adjustment

\* A new timeline, or more storage, is a thing of its own.
Item == Wanted \cup NewTimeline \cup Storage

ItemOf(r) == IF r \in Unlock THEN Wants[r] ELSE r

ASSUME ConstantsAssumption ==
    /\ By \in [Request -> User]
    /\ Wants \in [Unlock -> Wanted]
    /\ Unlock \cap NewTimeline = {}
    /\ Unlock \cap Storage = {}
    /\ Unlock \cap Adjustment = {}
    /\ NewTimeline \cap Storage = {}
    /\ NewTimeline \cap Adjustment = {}
    /\ Storage \cap Adjustment = {}
    /\ Wanted \cap Request = {}
    /\ "nobody" \notin User
    /\ Price \in Nat \ {0}
    /\ Free \in Nat
    /\ Initial \in Nat
    /\ TopUpAmount \in Nat
    /\ Amounts \subseteq Int
    /\ MaxTopUps \in Nat
    /\ MaxFailures \in Nat

VARIABLES
    credits,     \* credits[u], in the user's document
    boughtBy,    \* boughtBy[i]: whose record says that i was bought, or "nobody"
    pc,          \* where the handler of each request stands
    memory,      \* memory[r]: the balance in the document r has read
    topUps,      \* bound, and history of what was granted:
    granted,
    failures

vars == <<credits, boughtBy, pc, memory, topUps, granted, failures>>

Nobody == "nobody"

Stages == {"start", "readUser", "saveCharge", "createFree", "create", "saveRefund",
           "saveAdjusted", "done"}

\* Type invariant; a balance is a natural number, whatever requests interleave:
\* every debit has been checked against the balance it is subtracted from.
TypeOK ==
    /\ credits \in [User -> Nat]
    /\ boughtBy \in [Item -> User \cup {Nobody}]
    /\ pc \in [Request -> Stages]
    /\ memory \in [Request -> Nat]
    /\ topUps \in [User -> 0..MaxTopUps]
    /\ granted \in [User -> Nat]
    /\ failures \in 0..MaxFailures

Init ==
    /\ credits = [u \in User |-> Initial]
    /\ boughtBy = [i \in Item |-> Nobody]
    /\ pc = [r \in Request |-> "start"]
    /\ memory = [r \in Request |-> 0]
    /\ topUps = [u \in User |-> 0]
    /\ granted = [u \in User |-> Initial]
    /\ failures = 0

-----------------------------------------------------------------------------

Goto(r, stage) == pc' = [pc EXCEPT ![r] = stage]

Owned(u) == {r \in NewTimeline : boughtBy[r] = u}

\* ensureThemeUnlocked, unlockViewerList: bought before, nothing to do.
FindExisting(r) ==
    /\ r \in Unlock
    /\ pc[r] = "start"
    /\ Goto(r, IF boughtBy[Wants[r]] = Nobody THEN "readUser" ELSE "done")
    /\ UNCHANGED <<credits, boughtBy, memory, topUps, granted, failures>>

\* POST /: the timelines the user owns are counted before anything else.
CountOwned(r) ==
    /\ r \in NewTimeline
    /\ pc[r] = "start"
    /\ Goto(r, IF Cardinality(Owned(By[r])) < Free THEN "createFree" ELSE "readUser")
    /\ UNCHANGED <<credits, boughtBy, memory, topUps, granted, failures>>

\* Mutant: the balance is not compared with the price.
ReadUserUnchecked(r) ==
    /\ pc[r] = "readUser"
    /\ memory' = [memory EXCEPT ![r] = credits[By[r]]]
    /\ Goto(r, "saveCharge")
    /\ UNCHANGED <<credits, boughtBy, topUps, granted, failures>>

ReadUser(r) ==
    /\ pc[r] = "readUser"
    /\ memory' = [memory EXCEPT ![r] = credits[By[r]]]
    /\ Goto(r, IF credits[By[r]] < Price THEN "done" ELSE "saveCharge")
    /\ UNCHANGED <<credits, boughtBy, topUps, granted, failures>>

\* freshUser.save() sets the balance computed from the one that was read.
SaveCharge(r) ==
    /\ pc[r] = "saveCharge"
    /\ memory' = [memory EXCEPT ![r] = @ - Price]
    /\ credits' = [credits EXCEPT ![By[r]] = memory[r] - Price]
    /\ Goto(r, "create")
    /\ UNCHANGED <<boughtBy, topUps, granted, failures>>

\* POST /:slug/storage/purchase: check and debit are one update.
DebitStorage(r) ==
    /\ r \in Storage
    /\ pc[r] = "start"
    /\ \/ /\ credits[By[r]] >= Price
          /\ credits' = [credits EXCEPT ![By[r]] = @ - Price]
          /\ Goto(r, "create")
       \/ /\ credits[By[r]] < Price
          /\ Goto(r, "done")
          /\ UNCHANGED credits
    /\ UNCHANGED <<boughtBy, memory, topUps, granted, failures>>

\* Mutant: a lost race is not refunded.
CreateUnrefunded(r) ==
    /\ pc[r] \in {"create", "createFree"}
    /\ IF boughtBy[ItemOf(r)] = Nobody
       THEN boughtBy' = [boughtBy EXCEPT ![ItemOf(r)] = By[r]]
       ELSE UNCHANGED boughtBy
    /\ Goto(r, "done")
    /\ UNCHANGED <<memory, credits, topUps, granted, failures>>

\* The record is created; its unique index lets one of the unlocks through.
Create(r) ==
    /\ pc[r] \in {"create", "createFree"}
    /\ \/ /\ boughtBy[ItemOf(r)] = Nobody
          /\ boughtBy' = [boughtBy EXCEPT ![ItemOf(r)] = By[r]]
          /\ Goto(r, "done")
          /\ UNCHANGED memory
       \/ /\ boughtBy[ItemOf(r)] # Nobody
          /\ memory' = [memory EXCEPT ![r] = @ + Price]
          /\ Goto(r, "saveRefund")
          /\ UNCHANGED boughtBy
    /\ UNCHANGED <<credits, topUps, granted, failures>>

\* Mutant: the price is added once more to the balance remembered.
SaveRefundTwice(r) ==
    /\ pc[r] = "saveRefund"
    /\ credits' = [credits EXCEPT ![By[r]] = memory[r] + Price]
    /\ Goto(r, "done")
    /\ UNCHANGED <<boughtBy, memory, topUps, granted, failures>>

SaveRefund(r) ==
    /\ pc[r] = "saveRefund"
    /\ credits' = [credits EXCEPT ![By[r]] = memory[r]]
    /\ Goto(r, "done")
    /\ UNCHANGED <<boughtBy, memory, topUps, granted, failures>>

\* POST /users/:id/credits reads the document, and saves the balance adjusted.
ReadForAdjusting(r) ==
    /\ r \in Adjustment
    /\ pc[r] = "start"
    /\ memory' = [memory EXCEPT ![r] = credits[By[r]]]
    /\ Goto(r, "saveAdjusted")
    /\ UNCHANGED <<credits, boughtBy, topUps, granted, failures>>

\* A balance that stays what was read is not written.
SaveAdjusted(r) ==
    /\ pc[r] = "saveAdjusted"
    /\ \E n \in Amounts :
          LET adjusted == IF memory[r] + n >= 0 THEN memory[r] + n ELSE 0
          IN  /\ credits' = IF adjusted = memory[r] THEN credits
                            ELSE [credits EXCEPT ![By[r]] = adjusted]
              /\ granted' = [granted EXCEPT ![By[r]] = IF n > 0 THEN @ + n ELSE @]
    /\ Goto(r, "done")
    /\ UNCHANGED <<boughtBy, memory, topUps, failures>>

\* External to this module: a paid order increments the balance.
TopUp(u) ==
    /\ topUps[u] < MaxTopUps
    /\ topUps' = [topUps EXCEPT ![u] = @ + 1]
    /\ credits' = [credits EXCEPT ![u] = @ + TopUpAmount]
    /\ granted' = [granted EXCEPT ![u] = @ + TopUpAmount]
    /\ UNCHANGED <<boughtBy, pc, memory, failures>>

\* The next call throws, or the server restarts: the handler is gone.
Fail(r) ==
    /\ pc[r] \notin {"start", "done"}
    /\ failures < MaxFailures
    /\ failures' = failures + 1
    /\ Goto(r, "done")
    /\ UNCHANGED <<credits, boughtBy, memory, topUps, granted>>

Handler(r) ==
    \/ FindExisting(r) \/ CountOwned(r) \/ ReadUser(r) \/ SaveCharge(r)
    \/ DebitStorage(r) \/ Create(r) \/ SaveRefund(r)
    \/ ReadForAdjusting(r) \/ SaveAdjusted(r)

Next ==
    \/ \E r \in Request : Handler(r) \/ Fail(r)
    \/ \E u \in User : TopUp(u)

Spec == Init /\ [][Next]_vars

-----------------------------------------------------------------------------
(* Properties                                                              *)

\* No interleaving of lost updates, refunds and top-ups makes credits out of
\* nothing: nobody has more than was ever granted.
CreditsWereGranted == \A u \in User : credits[u] <= granted[u]

\* Credits charged for what is not yet created count as still there.
Pending(u) ==
    LET rs == {r \in Request : By[r] = u /\ pc[r] \in {"create", "saveRefund"}}
    IN  Price * Cardinality(rs)

Ledger == INSTANCE CreditLedger WITH
    Freebie     <- NewTimeline,
    PriceOf     <- [i \in Item |-> Price],
    Adjustments <- Amounts,
    balance     <- [u \in User |-> credits[u] + Pending(u)]

\* What request r is about to save, or to create for nothing, was right when it was
\* read and is not any more.
Outdated(r) ==
    \/ pc[r] \in {"saveCharge", "saveAdjusted"} /\ memory[r] # credits[By[r]]
    \/ pc[r] = "saveRefund" /\ memory[r] - Price # credits[By[r]]
    \/ pc[r] = "createFree" /\ Cardinality(Owned(By[r])) >= Free

FailsCharged(r) == pc[r] \in {"create", "saveRefund"} /\ failures' # failures

\* Requests are as good as transactions, however they overlap: whoever is charged gets
\* the item or the price back, although unlocks race for one item.  Only two things
\* break that, a step on data that has changed since it was read, and a failure
\* between the charge and the item.
ImplementsLedger ==
    /\ Ledger!Init
    /\ [][\/ \E r \in Request : pc'[r] # pc[r] /\ (Outdated(r) \/ FailsCharged(r))
          \/ Ledger!Next]_(Ledger!vars)
=============================================================================
