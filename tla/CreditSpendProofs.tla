------------------------- MODULE CreditSpendProofs -------------------------
(***************************************************************************)
(* Theorems about CreditSpend, for every set of users and requests, every  *)
(* price and every allowance.                                              *)
(***************************************************************************)
EXTENDS CreditSpend, FiniteSetTheorems, TLAPS

StagesOf(r) ==
    IF r \in Unlock THEN {"start", "readUser", "saveCharge", "create", "saveRefund", "done"}
    ELSE IF r \in NewTimeline
    THEN {"start", "readUser", "saveCharge", "createFree", "create", "done"}
    ELSE IF r \in Storage THEN {"start", "create", "done"}
    ELSE {"start", "saveAdjusted", "done"}

\* What one request knows: the balance it remembers was granted, the price it has
\* paid included, and only an unlock can find that its item has been bought.
RequestInv(r) ==
    /\ pc[r] \in StagesOf(r)
    /\ memory[r] <= granted[By[r]]
    /\ pc[r] = "saveCharge" => memory[r] >= Price
    /\ r \in Unlock /\ pc[r] = "create" => memory[r] + Price <= granted[By[r]]
    /\ r \in NewTimeline \cup Storage /\ pc[r] # "done" => boughtBy[r] = Nobody

SpendInv == CreditsWereGranted /\ \A r \in Request : RequestInv(r)

-----------------------------------------------------------------------------

\* The initial values have their types and remember nothing.
LEMMA SpendInit == Init => TypeOK /\ SpendInv
<1> SUFFICES ASSUME Init PROVE TypeOK /\ SpendInv
    OBVIOUS
<1> USE ConstantsAssumption
<1>1. TypeOK
    BY DEF Init, TypeOK, Stages, Nobody
<1>2. CreditsWereGranted
    BY DEF Init, CreditsWereGranted
<1>3. ASSUME NEW r \in Request PROVE RequestInv(r)
    <2>1. pc[r] = "start" /\ memory[r] = 0 /\ By[r] \in User /\ granted[By[r]] = Initial
        BY DEF Init
    <2>2. r \in NewTimeline \cup Storage => boughtBy[r] = Nobody
        BY DEF Init, Item
    <2> QED
        BY <2>1, <2>2 DEF RequestInv, StagesOf
<1> QED
    BY <1>1, <1>2, <1>3 DEF SpendInv

\* An item of the request's own is an item, and nobody else's.
LEMMA Items ==
    ASSUME NEW r \in Unlock \cup NewTimeline \cup Storage
    PROVE  /\ ItemOf(r) \in Item
           /\ \A s \in NewTimeline \cup Storage : ItemOf(r) = s => r = s
BY ConstantsAssumption DEF ItemOf, Item, Request

\* Every step keeps the types: SaveCharge and SaveRefund write natural numbers
\* because of what the request remembers.
LEMMA SpendTypeStep == TypeOK /\ SpendInv /\ [Next]_vars => TypeOK'
<1> SUFFICES ASSUME TypeOK, SpendInv, [Next]_vars PROVE TypeOK'
    OBVIOUS
<1> USE ConstantsAssumption DEF TypeOK, Stages, Goto
<1>1. ASSUME NEW r \in Request PROVE By[r] \in User /\ RequestInv(r) /\ credits[By[r]] \in Nat
    BY DEF SpendInv
<1>2. ASSUME NEW r \in Request, FindExisting(r) PROVE TypeOK'
    BY <1>2 DEF FindExisting
<1>3. ASSUME NEW r \in Request, CountOwned(r) PROVE TypeOK'
    BY <1>3 DEF CountOwned
<1>4. ASSUME NEW r \in Request, ReadUser(r) PROVE TypeOK'
    BY <1>1, <1>4 DEF ReadUser
<1>5. ASSUME NEW r \in Request, SaveCharge(r) PROVE TypeOK'
    <2>1. memory[r] - Price \in Nat
        BY <1>1, <1>5 DEF SaveCharge, RequestInv
    <2> QED
        BY <1>1, <1>5, <2>1 DEF SaveCharge
<1>6. ASSUME NEW r \in Request, DebitStorage(r) PROVE TypeOK'
    BY <1>1, <1>6 DEF DebitStorage
<1>7. ASSUME NEW r \in Request, Create(r) PROVE TypeOK'
    BY <1>1, <1>7 DEF Create
<1>8. ASSUME NEW r \in Request, SaveRefund(r) PROVE TypeOK'
    BY <1>1, <1>8 DEF SaveRefund
<1>9. ASSUME NEW r \in Request, ReadForAdjusting(r) PROVE TypeOK'
    BY <1>1, <1>9 DEF ReadForAdjusting
<1>10. ASSUME NEW r \in Request, SaveAdjusted(r) PROVE TypeOK'
    BY <1>1, <1>10 DEF SaveAdjusted
<1>11. ASSUME NEW u \in User, TopUp(u) PROVE TypeOK'
    BY <1>11 DEF TopUp
<1>12. ASSUME NEW r \in Request, Fail(r) PROVE TypeOK'
    BY <1>12 DEF Fail
<1>13. ASSUME UNCHANGED vars PROVE TypeOK'
    BY <1>13 DEF vars
<1> QED
    BY <1>2, <1>3, <1>4, <1>5, <1>6, <1>7, <1>8, <1>9, <1>10, <1>11, <1>12, <1>13
    DEF Next, Handler

\* Every step keeps what the requests know, and nobody has more than was granted.
LEMMA SpendStep == TypeOK /\ SpendInv /\ [Next]_vars => SpendInv'
<1> SUFFICES ASSUME TypeOK, SpendInv, [Next]_vars PROVE SpendInv'
    OBVIOUS
<1> USE ConstantsAssumption
    DEF TypeOK, SpendInv, CreditsWereGranted, RequestInv, StagesOf, Goto
<1>1. \A r \in Request : By[r] \in User
    OBVIOUS
<1>2. ASSUME NEW r \in Request, FindExisting(r) PROVE SpendInv'
    BY <1>2 DEF FindExisting
<1>3. ASSUME NEW r \in Request, CountOwned(r) PROVE SpendInv'
    BY <1>3 DEF CountOwned
<1>4. ASSUME NEW r \in Request, ReadUser(r) PROVE SpendInv'
    BY <1>1, <1>4 DEF ReadUser, Request
<1>5. ASSUME NEW r \in Request, SaveCharge(r) PROVE SpendInv'
    BY <1>1, <1>5 DEF SaveCharge
<1>6. ASSUME NEW r \in Request, DebitStorage(r) PROVE SpendInv'
    BY <1>1, <1>6 DEF DebitStorage
<1>7. ASSUME NEW r \in Request, Create(r) PROVE SpendInv'
    <2>1. r \in Unlock \cup NewTimeline \cup Storage
        BY <1>7 DEF Create, Request
    <2>2. CASE boughtBy[ItemOf(r)] = Nobody /\ boughtBy' = [boughtBy EXCEPT ![ItemOf(r)] = By[r]]
        BY <1>1, <1>7, <2>1, <2>2, Items DEF Create
    <2>3. CASE boughtBy[ItemOf(r)] # Nobody
        <3>1. r \in Unlock /\ pc[r] = "create"
            BY <1>7, <2>1, <2>3 DEF Create, ItemOf
        <3> QED
            BY <1>1, <1>7, <2>3, <3>1 DEF Create
    <2> QED
        BY <1>7, <2>2, <2>3 DEF Create
<1>8. ASSUME NEW r \in Request, SaveRefund(r) PROVE SpendInv'
    BY <1>1, <1>8 DEF SaveRefund
<1>9. ASSUME NEW r \in Request, ReadForAdjusting(r) PROVE SpendInv'
    BY <1>1, <1>9 DEF ReadForAdjusting
<1>10. ASSUME NEW r \in Request, SaveAdjusted(r) PROVE SpendInv'
    BY <1>1, <1>10 DEF SaveAdjusted
<1>11. ASSUME NEW u \in User, TopUp(u) PROVE SpendInv'
    BY <1>1, <1>11 DEF TopUp
<1>12. ASSUME NEW r \in Request, Fail(r) PROVE SpendInv'
    BY <1>12 DEF Fail
<1>13. ASSUME UNCHANGED vars PROVE SpendInv'
    BY <1>13 DEF vars
<1> QED
    BY <1>2, <1>3, <1>4, <1>5, <1>6, <1>7, <1>8, <1>9, <1>10, <1>11, <1>12, <1>13
    DEF Next, Handler

\* The two together are inductive.
LEMMA SpendAlways == Spec => [](TypeOK /\ SpendInv)
BY SpendInit, SpendTypeStep, SpendStep, PTL DEF Spec

\* No balance is ever negative, whatever unlocks, purchases, adjustments, failures
\* and top-ups interleave, for every price and every number of requests.
THEOREM SpendTypeCorrect == Spec => []TypeOK
BY SpendAlways, PTL

\* Nobody ever has more credits than were granted: the absolute balances that
\* unlocks, refunds and adjustments write can lose credits but never make any.
THEOREM CreditsWereGrantedAlways == Spec => []CreditsWereGranted
BY SpendAlways, PTL DEF SpendInv

-----------------------------------------------------------------------------
(* Requests are as good as transactions.                                   *)

\* The requests that have charged user u and have not yet created the item, or paid back.
Charged(u) == {r \in Request : By[r] = u /\ pc[r] \in {"create", "saveRefund"}}

Balance == [u \in User |-> credits[u] + Pending(u)]

\* However many requests there may be, only finitely many have charged anybody so far.
ChargedInv == \A u \in User : IsFiniteSet(Charged(u))

\* Nor has anybody got infinitely many timelines.
OwnedInv == \A u \in User : IsFiniteSet(Owned(u))

\* What is pending is a natural number.
LEMMA PendingType ==
    ASSUME ChargedInv, NEW u \in User
    PROVE  /\ Pending(u) = Price * Cardinality(Charged(u))
           /\ Pending(u) \in Nat
<1>1. Cardinality(Charged(u)) \in Nat
    BY FS_CardinalityType DEF ChargedInv
<1>2. Pending(u) = Price * Cardinality(Charged(u))
    BY DEF Pending, Charged
<1> QED
    BY <1>1, <1>2, ConstantsAssumption

\* A request that goes from one stage to another changes what is pending, by its price
\* at most, and only for its own user.
LEMMA PendingStep ==
    ASSUME TypeOK, ChargedInv, NEW r \in Request, NEW stage \in Stages, Goto(r, stage)
    PROVE  /\ ChargedInv'
           /\ \A u \in User : u # By[r] => Pending(u)' = Pending(u)
           /\ \/ pc[r] \in {"create", "saveRefund"} /\ stage \in {"create", "saveRefund"}
              \/ pc[r] \notin {"create", "saveRefund"} /\ stage \notin {"create", "saveRefund"}
              => Pending(By[r])' = Pending(By[r])
           /\ pc[r] \notin {"create", "saveRefund"} /\ stage \in {"create", "saveRefund"}
              => Pending(By[r])' = Pending(By[r]) + Price
           /\ pc[r] \in {"create", "saveRefund"} /\ stage \notin {"create", "saveRefund"}
              => Pending(By[r])' = Pending(By[r]) - Price
<1> DEFINE In(s) == s \in {"create", "saveRefund"}
<1>1. \A s \in Request : pc'[s] = IF s = r THEN stage ELSE pc[s]
    BY DEF TypeOK, Goto
<1>2. \A u \in User : Charged(u)' = IF u # By[r] THEN Charged(u)
                                    ELSE IF In(stage) THEN Charged(u) \cup {r}
                                    ELSE Charged(u) \ {r}
    BY <1>1 DEF Charged
<1>3. r \in Charged(By[r]) <=> In(pc[r])
    BY DEF Charged
<1>4. ChargedInv'
    <2>1. ASSUME NEW u \in User PROVE IsFiniteSet(Charged(u)')
        BY <1>2, FS_AddElement, FS_RemoveElement DEF ChargedInv
    <2> QED
        BY <2>1 DEF ChargedInv
<1>5. By[r] \in User
    BY ConstantsAssumption
<1>6. \A u \in User : Pending(u)' = Price * Cardinality(Charged(u)')
    BY DEF Pending, Charged
<1>7. \A u \in User : Pending(u) = Price * Cardinality(Charged(u))
    BY DEF Pending, Charged
<1>8. PICK c \in Nat : c = Cardinality(Charged(By[r]))
    BY <1>5, FS_CardinalityType DEF ChargedInv
<1>9. Cardinality(Charged(By[r])') = IF In(stage) /\ ~In(pc[r]) THEN c + 1
                                    ELSE IF ~In(stage) /\ In(pc[r]) THEN c - 1
                                    ELSE c
    <2> HIDE DEF In
    <2>1. IsFiniteSet(Charged(By[r]))
        BY <1>5 DEF ChargedInv
    <2> QED
        BY <1>2, <1>3, <1>5, <1>8, <2>1, FS_AddElement, FS_RemoveElement
<1>10. /\ Price * (c + 1) = Price * c + Price
       /\ Price * (c - 1) = Price * c - Price
    BY ConstantsAssumption
<1> QED
    BY <1>2, <1>4, <1>5, <1>6, <1>7, <1>8, <1>9, <1>10

\* No step makes the charged requests infinitely many.
LEMMA ChargedInvStep == TypeOK /\ ChargedInv /\ [Next]_vars => ChargedInv'
<1> SUFFICES ASSUME TypeOK, ChargedInv, [Next]_vars PROVE ChargedInv'
    OBVIOUS
<1>1. ASSUME NEW r \in Request, NEW stage \in Stages, Goto(r, stage) PROVE ChargedInv'
    BY <1>1, PendingStep
<1>2. ASSUME UNCHANGED pc PROVE ChargedInv'
    BY <1>2 DEF ChargedInv, Charged
<1>3. ASSUME NEW r \in Request, Handler(r) \/ Fail(r)
      PROVE  \E stage \in Stages : Goto(r, stage)
    BY <1>3 DEF Handler, FindExisting, CountOwned, ReadUser, SaveCharge, DebitStorage, Create,
                SaveRefund, ReadForAdjusting, SaveAdjusted, Fail, Stages
<1> QED
    BY <1>1, <1>2, <1>3 DEF Next, TopUp, vars

\* No step gives anybody infinitely many timelines.
LEMMA OwnedInvStep == TypeOK /\ OwnedInv /\ [Next]_vars => OwnedInv'
<1> SUFFICES ASSUME TypeOK, OwnedInv, [Next]_vars PROVE OwnedInv'
    OBVIOUS
<1>1. ASSUME NEW r \in Request, Create(r), boughtBy' # boughtBy PROVE OwnedInv'
    <2>1. boughtBy' = [boughtBy EXCEPT ![ItemOf(r)] = By[r]]
        BY <1>1 DEF Create
    <2>2. \A u \in User : Owned(u)' \subseteq Owned(u) \cup {ItemOf(r)}
        BY <2>1 DEF Owned, TypeOK, Item
    <2> QED
        BY <2>2, FS_AddElement, FS_Subset DEF OwnedInv
<1>2. ASSUME UNCHANGED boughtBy PROVE OwnedInv'
    BY <1>2 DEF OwnedInv, Owned
<1> QED
    BY <1>1, <1>2
    DEF Next, Handler, FindExisting, CountOwned, ReadUser, SaveCharge, DebitStorage, SaveRefund,
        ReadForAdjusting, SaveAdjusted, Fail, TopUp, vars

\* A step that moves credits from what is pending to the balance, or back, or that moves
\* none, is none of the ledger's.
LEMMA LedgerStutters ==
    ASSUME UNCHANGED boughtBy, \A u \in User : credits'[u] + Pending(u)' = credits[u] + Pending(u)
    PROVE  UNCHANGED Ledger!vars
BY DEF Ledger!vars

\* The ledger counts sets as FiniteSets does.
LEMMA LedgerCardinality == \A S : Ledger!Cardinality(S) = Cardinality(S)
BY DEF Ledger!Cardinality, Cardinality

\* One user's balance in the ledger, and nobody else's, becomes v.
LEMMA BalanceStep ==
    ASSUME NEW w \in User, NEW v, credits'[w] + Pending(w)' = v,
           \A u \in User : u # w => credits'[u] + Pending(u)' = credits[u] + Pending(u)
    PROVE  Balance' = [Balance EXCEPT ![w] = v]
<1>1. Balance' = [u \in User |-> credits'[u] + Pending(u)']
    BY DEF Balance
<1>2. [Balance EXCEPT ![w] = v] = [u \in User |-> IF u = w THEN v ELSE credits[u] + Pending(u)]
    BY DEF Balance
<1> QED
    BY <1>1, <1>2

\* Every step that no change since the last read and no failure after a charge excuses
\* is a step of the ledger.
LEMMA LedgerStep ==
    ASSUME TypeOK, SpendInv, ChargedInv, OwnedInv, [Next]_vars,
           ~ \E r \in Request : pc'[r] # pc[r] /\ (Outdated(r) \/ FailsCharged(r))
    PROVE  Ledger!Next \/ UNCHANGED Ledger!vars
<1> DEFINE Step == Ledger!Next \/ UNCHANGED Ledger!vars
<1>1. \A r \in Request : By[r] \in User /\ RequestInv(r)
    BY ConstantsAssumption DEF SpendInv
<1>2. \A u \in User : Pending(u) \in Nat /\ credits[u] \in Nat
    BY PendingType DEF TypeOK
<1>3. ASSUME NEW r \in Request, FindExisting(r) PROVE Step
    <2>1. PICK stage \in {"readUser", "done"} : Goto(r, stage)
        BY <1>3 DEF FindExisting
    <2>2. pc[r] = "start" /\ UNCHANGED <<credits, boughtBy>> /\ stage \in Stages
        BY <1>3 DEF FindExisting, Stages
    <2> QED
        BY <2>1, <2>2, PendingStep, LedgerStutters
<1>4. ASSUME NEW r \in Request, CountOwned(r) PROVE Step
    <2>1. PICK stage \in {"createFree", "readUser"} : Goto(r, stage)
        BY <1>4 DEF CountOwned
    <2>2. pc[r] = "start" /\ UNCHANGED <<credits, boughtBy>> /\ stage \in Stages
        BY <1>4 DEF CountOwned, Stages
    <2> QED
        BY <2>1, <2>2, PendingStep, LedgerStutters
<1>5. ASSUME NEW r \in Request, ReadUser(r) PROVE Step
    <2>1. PICK stage \in {"saveCharge", "done"} : Goto(r, stage)
        BY <1>5 DEF ReadUser
    <2>2. pc[r] = "readUser" /\ UNCHANGED <<credits, boughtBy>> /\ stage \in Stages
        BY <1>5 DEF ReadUser, Stages
    <2> QED
        BY <2>1, <2>2, PendingStep, LedgerStutters
<1>6. ASSUME NEW r \in Request, SaveCharge(r) PROVE Step
    <2>1. Goto(r, "create") /\ pc[r] = "saveCharge" /\ UNCHANGED boughtBy
        BY <1>6 DEF SaveCharge
    <2>2. pc'[r] # pc[r]
        BY <2>1 DEF Goto, TypeOK
    <2>3. memory[r] = credits[By[r]]
        BY <2>1, <2>2 DEF Outdated
    <2>4. \A u \in User : credits'[u] = IF u = By[r] THEN credits[u] - Price ELSE credits[u]
        BY <1>6, <2>3 DEF SaveCharge, TypeOK
    <2>5. \A u \in User : Pending(u)' = IF u = By[r] THEN Pending(u) + Price ELSE Pending(u)
        BY <2>1, PendingStep DEF Stages
    <2>6. \A u \in User : credits'[u] + Pending(u)' = credits[u] + Pending(u)
        BY <1>2, <2>4, <2>5, ConstantsAssumption
    <2> QED
        BY <2>1, <2>6, LedgerStutters
<1>7. ASSUME NEW r \in Request, DebitStorage(r) PROVE Step
    <2>1. pc[r] = "start" /\ UNCHANGED boughtBy
        BY <1>7 DEF DebitStorage
    <2>2. CASE Goto(r, "create") /\ credits' = [credits EXCEPT ![By[r]] = @ - Price]
        <3>1. \A u \in User : credits'[u] = IF u = By[r] THEN credits[u] - Price ELSE credits[u]
            BY <2>2 DEF TypeOK
        <3>2. \A u \in User : Pending(u)' = IF u = By[r] THEN Pending(u) + Price ELSE Pending(u)
            BY <2>1, <2>2, PendingStep DEF Stages
        <3>3. \A u \in User : credits'[u] + Pending(u)' = credits[u] + Pending(u)
            BY <1>2, <3>1, <3>2, ConstantsAssumption
        <3> QED
            BY <2>1, <3>3, LedgerStutters
    <2>3. CASE Goto(r, "done") /\ UNCHANGED credits
        <3>1. \A u \in User : Pending(u)' = Pending(u)
            BY <2>1, <2>3, PendingStep DEF Stages
        <3> QED
            BY <2>1, <2>3, <3>1, LedgerStutters
    <2> QED
        BY <1>7, <2>2, <2>3 DEF DebitStorage
<1>8. ASSUME NEW r \in Request, Create(r) PROVE Step
    <2>1. r \in Unlock \cup NewTimeline \cup Storage /\ UNCHANGED credits
        BY <1>1, <1>8 DEF Create, Request, RequestInv, StagesOf
    <2>2. CASE boughtBy[ItemOf(r)] = Nobody
        <3>1. Goto(r, "done") /\ Ledger!Give(By[r], ItemOf(r))
            BY <1>8, <2>2 DEF Create, Ledger!Give, Ledger!Nobody, Nobody
        <3>2. ItemOf(r) \in Item /\ By[r] \in User
            BY <1>1, <2>1, Items
        <3>3. CASE pc[r] = "create"
            <4>1. \A u \in User : Pending(u)' = IF u = By[r] THEN Pending(u) - Price ELSE Pending(u)
                BY <3>1, <3>3, PendingStep DEF Stages
            <4>2. r \in Charged(By[r]) /\ Pending(By[r]) >= Price
                <5>1. r \in Charged(By[r]) /\ IsFiniteSet(Charged(By[r]))
                    BY <3>2, <3>3 DEF Charged, ChargedInv
                <5>2. Cardinality(Charged(By[r])) \in Nat \ {0}
                    BY <5>1, FS_EmptySet, FS_CardinalityType
                <5> QED
                    BY <3>2, <5>1, <5>2, PendingType, ConstantsAssumption
            <4>3. /\ credits[By[r]] + Pending(By[r]) >= Price
                  /\ \A u \in User : credits'[u] + Pending(u)' =
                        IF u = By[r] THEN credits[u] + Pending(u) - Price
                        ELSE credits[u] + Pending(u)
                BY <1>2, <2>1, <3>2, <4>1, <4>2, ConstantsAssumption
            <4>4. Ledger!Buy(By[r], ItemOf(r))
                <5>1. /\ Balance[By[r]] >= Price
                      /\ Balance' = [Balance EXCEPT ![By[r]] = @ - Price]
                    <6>1. Balance[By[r]] = credits[By[r]] + Pending(By[r])
                        BY <3>2 DEF Balance
                    <6>2. credits'[By[r]] + Pending(By[r])' = Balance[By[r]] - Price
                        <7>1. Pending(By[r])' = Pending(By[r]) - Price
                            BY <3>1, <3>3, PendingStep DEF Stages
                        <7> QED
                            BY <1>2, <2>1, <3>2, <6>1, <7>1, ConstantsAssumption
                    <6>3. \A u \in User :
                             u # By[r] => credits'[u] + Pending(u)' = credits[u] + Pending(u)
                        BY <4>3
                    <6> QED
                        BY <3>2, <4>3, <6>1, <6>2, <6>3, BalanceStep
                <5>2. [i \in Item |-> Price][ItemOf(r)] = Price
                    BY <3>2
                <5> QED
                    BY <3>1, <5>1, <5>2 DEF Ledger!Buy, Balance
            <4> QED
                BY <3>2, <4>4 DEF Ledger!Next
        <3>4. CASE pc[r] = "createFree"
            <4>1. r \in NewTimeline /\ ItemOf(r) = r
                BY <1>1, <2>1, <3>4, ConstantsAssumption DEF RequestInv, StagesOf, ItemOf
            <4>2. pc'[r] # pc[r]
                BY <3>1, <3>4 DEF Goto, TypeOK
            <4>3. Cardinality(Owned(By[r])) \in Nat
                BY <3>2, FS_CardinalityType DEF OwnedInv
            <4>4. Cardinality(Owned(By[r])) < Free
                BY <3>4, <4>2, <4>3, ConstantsAssumption DEF Outdated
            <4>5. \A u \in User : credits'[u] + Pending(u)' = credits[u] + Pending(u)
                BY <2>1, <3>1, <3>4, PendingStep DEF Stages
            <4>6. Ledger!GetFree(By[r], ItemOf(r))
                <5>1. Balance' = Balance
                    BY <4>5 DEF Balance
                <5>2. UNCHANGED [u \in User |-> credits[u] + Pending(u)]
                    BY <5>1 DEF Balance
                <5>3. Cardinality({j \in NewTimeline : boughtBy[j] = By[r]}) < Free
                    BY <4>4 DEF Owned
                <5> QED
                    BY <3>1, <4>1, <5>2, <5>3, LedgerCardinality DEF Ledger!GetFree
            <4> QED
                BY <3>2, <4>6 DEF Ledger!Next
        <3> QED
            BY <1>8, <3>3, <3>4 DEF Create
    <2>3. CASE boughtBy[ItemOf(r)] # Nobody
        <3>1. /\ UNCHANGED boughtBy
              /\ Goto(r, "saveRefund")
              /\ pc[r] = "create"
            BY <1>1, <1>8, <2>1, <2>3 DEF Create, RequestInv, StagesOf, ItemOf
        <3>2. \A u \in User : Pending(u)' = Pending(u)
            BY <3>1, PendingStep DEF Stages
        <3> QED
            BY <2>1, <3>1, <3>2, LedgerStutters
    <2> QED
        BY <2>2, <2>3
<1>9. ASSUME NEW r \in Request, SaveRefund(r) PROVE Step
    <2>1. Goto(r, "done") /\ pc[r] = "saveRefund" /\ UNCHANGED boughtBy
        BY <1>9 DEF SaveRefund
    <2>2. pc'[r] # pc[r]
        BY <2>1 DEF Goto, TypeOK
    <2>3. memory[r] - Price = credits[By[r]]
        BY <2>1, <2>2 DEF Outdated
    <2>4. \A u \in User : credits'[u] = IF u = By[r] THEN credits[u] + Price ELSE credits[u]
        BY <1>1, <1>2, <1>9, <2>3, ConstantsAssumption DEF SaveRefund, TypeOK
    <2>5. \A u \in User : Pending(u)' = IF u = By[r] THEN Pending(u) - Price ELSE Pending(u)
        BY <2>1, PendingStep DEF Stages
    <2>6. \A u \in User : credits'[u] + Pending(u)' = credits[u] + Pending(u)
        BY <1>2, <2>4, <2>5, ConstantsAssumption
    <2> QED
        BY <2>1, <2>6, LedgerStutters
<1>10. ASSUME NEW r \in Request, ReadForAdjusting(r) PROVE Step
    <2>1. Goto(r, "saveAdjusted") /\ pc[r] = "start" /\ UNCHANGED <<credits, boughtBy>>
        BY <1>10 DEF ReadForAdjusting
    <2> QED
        BY <2>1, PendingStep, LedgerStutters DEF Stages
<1>11. ASSUME NEW r \in Request, SaveAdjusted(r) PROVE Step
    <2>1. Goto(r, "done") /\ pc[r] = "saveAdjusted" /\ UNCHANGED boughtBy
        BY <1>11 DEF SaveAdjusted
    <2>2. pc'[r] # pc[r]
        BY <2>1 DEF Goto, TypeOK
    <2>3. memory[r] = credits[By[r]]
        BY <2>1, <2>2 DEF Outdated
    <2>4. \A u \in User : Pending(u)' = Pending(u)
        BY <2>1, PendingStep DEF Stages
    <2>5. PICK n \in Amounts :
             LET adjusted == IF memory[r] + n >= 0 THEN memory[r] + n ELSE 0
             IN  credits' = IF adjusted = memory[r] THEN credits
                            ELSE [credits EXCEPT ![By[r]] = adjusted]
        BY <1>11 DEF SaveAdjusted
    <2>6. n \in Int
        BY ConstantsAssumption
    <2>7. CASE n >= 0
        <3>1. \A u \in User : credits'[u] = IF u = By[r] THEN credits[u] + n ELSE credits[u]
            BY <1>1, <1>2, <2>3, <2>5, <2>6, <2>7 DEF TypeOK
        <3>2. \A u \in User : credits'[u] + Pending(u)' =
                 IF u = By[r] THEN credits[u] + Pending(u) + n ELSE credits[u] + Pending(u)
            BY <1>2, <2>4, <2>6, <3>1
        <3>3. Ledger!Adjust(By[r])
            BY <1>1, <2>1, <2>7, <3>2 DEF Ledger!Adjust
        <3> QED
            BY <1>1, <3>3 DEF Ledger!Next
    <2>8. CASE n < 0
        <3>1. PICK taken \in 0..-n :
                 /\ taken <= credits[By[r]]
                 /\ \A u \in User : credits'[u] =
                       IF u = By[r] THEN credits[u] - taken ELSE credits[u]
            <4>1. CASE credits[By[r]] + n >= 0
                <5>1. -n \in 0..-n
                    BY <2>6, <2>8
                <5>2. /\ -n <= credits[By[r]]
                      /\ \A u \in User : credits'[u] =
                            IF u = By[r] THEN credits[u] - (-n) ELSE credits[u]
                    BY <1>1, <1>2, <2>3, <2>5, <2>6, <2>8, <4>1 DEF TypeOK
                <5> QED
                    BY <5>1, <5>2
            <4>2. CASE ~ (credits[By[r]] + n >= 0)
                <5>1. credits[By[r]] \in 0..-n
                    BY <1>1, <1>2, <2>6, <2>8, <4>2
                <5>2. \A u \in User : credits'[u] =
                         IF u = By[r] THEN credits[u] - credits[By[r]] ELSE credits[u]
                    BY <1>1, <1>2, <2>3, <2>5, <2>6, <2>8, <4>2 DEF TypeOK
                <5> QED
                    BY <1>1, <1>2, <5>1, <5>2
            <4> QED
                BY <4>1, <4>2
        <3>2. taken <= credits[By[r]] + Pending(By[r])
            BY <1>1, <1>2, <2>6, <3>1
        <3>3. \A u \in User : credits'[u] + Pending(u)' =
                 IF u = By[r] THEN credits[u] + Pending(u) - taken ELSE credits[u] + Pending(u)
            BY <1>2, <2>4, <2>6, <3>1
        <3>4. Ledger!Adjust(By[r])
            <4>1. /\ taken <= Balance[By[r]]
                  /\ Balance' = [Balance EXCEPT ![By[r]] = @ - taken]
                <5>1. Balance[By[r]] = credits[By[r]] + Pending(By[r])
                    BY <1>1 DEF Balance
                <5>2. credits'[By[r]] + Pending(By[r])' = Balance[By[r]] - taken
                    <6>1. Pending(By[r])' = Pending(By[r])
                        BY <2>1, PendingStep DEF Stages
                    <6> QED
                        BY <1>1, <1>2, <2>6, <3>1, <5>1, <6>1
                <5>3. \A u \in User :
                         u # By[r] => credits'[u] + Pending(u)' = credits[u] + Pending(u)
                    BY <3>3
                <5> QED
                    BY <1>1, <3>2, <5>1, <5>2, <5>3, BalanceStep
            <4> QED
                BY <2>1, <4>1 DEF Ledger!Adjust, Balance
        <3> QED
            BY <1>1, <3>4 DEF Ledger!Next
    <2> QED
        BY <2>6, <2>7, <2>8
<1>12. ASSUME NEW u \in User, TopUp(u) PROVE Step
    <2>1. \A w \in User : Pending(w)' = Pending(w)
        BY <1>12 DEF TopUp, Pending
    <2>2. \A w \in User : credits'[w] + Pending(w)' =
             IF w = u THEN credits[w] + Pending(w) + TopUpAmount ELSE credits[w] + Pending(w)
        BY <1>2, <1>12, <2>1, ConstantsAssumption DEF TopUp, TypeOK
    <2>3. Ledger!TopUp(u)
        BY <1>12, <2>2 DEF Ledger!TopUp, TopUp
    <2> QED
        BY <2>3 DEF Ledger!Next
<1>13. ASSUME NEW r \in Request, Fail(r) PROVE Step
    <2>1. Goto(r, "done") /\ pc[r] # "done" /\ UNCHANGED <<credits, boughtBy>>
        BY <1>13 DEF Fail
    <2>2. pc'[r] # pc[r] /\ failures' # failures
        BY <1>13, <2>1 DEF Fail, Goto, TypeOK
    <2>3. pc[r] \notin {"create", "saveRefund"}
        BY <2>2 DEF FailsCharged
    <2> QED
        BY <2>1, <2>3, PendingStep, LedgerStutters DEF Stages
<1>14. ASSUME UNCHANGED vars PROVE Step
    BY <1>14, LedgerStutters DEF vars, Pending
<1> QED
    BY <1>3, <1>4, <1>5, <1>6, <1>7, <1>8, <1>9, <1>10, <1>11, <1>12, <1>13, <1>14
    DEF Next, Handler

\* At the start nothing is charged and nothing bought.
LEMMA LedgerInit == Init => ChargedInv /\ OwnedInv /\ Ledger!Init
<1> SUFFICES ASSUME Init PROVE ChargedInv /\ OwnedInv /\ Ledger!Init
    OBVIOUS
<1>1. \A u \in User : Charged(u) = {}
    BY DEF Init, Charged
<1>2. \A u \in User : u # Nobody
    BY ConstantsAssumption DEF Nobody
<1>3. \A u \in User : Owned(u) = {}
    BY <1>2 DEF Init, Owned, Item
<1>4. ChargedInv /\ OwnedInv
    BY <1>1, <1>3, FS_EmptySet DEF ChargedInv, OwnedInv
<1>5. \A u \in User : Pending(u) = 0
    <2>1. \A u \in User : Pending(u) = Price * Cardinality(Charged(u))
        BY <1>4, PendingType
    <2>2. \A u \in User : Cardinality(Charged(u)) = 0
        BY <1>1, FS_EmptySet
    <2> QED
        BY <2>1, <2>2, ConstantsAssumption
<1>6. \A u \in User : credits[u] + Pending(u) = Initial
    BY <1>5, ConstantsAssumption DEF Init
<1> QED
    BY <1>4, <1>6 DEF Init, Ledger!Init, Ledger!Nobody, Nobody

\* Requests are as good as transactions, for any number of them, any price and any
\* allowance: an unlock that loses its race gets its price back, one that wins gets the
\* item (themeUnlock.js, viewerListUnlock.js, the purchases of timelines.js), and only a
\* step on outdated data or a failure after the charge breaks that.
THEOREM ImplementsLedgerAlways == Spec => ImplementsLedger
<1>1. TypeOK /\ SpendInv /\ ChargedInv /\ OwnedInv /\ [Next]_vars =>
        [\/ \E r \in Request : pc'[r] # pc[r] /\ (Outdated(r) \/ FailsCharged(r))
         \/ Ledger!Next]_(Ledger!vars)
    BY LedgerStep
<1> QED
    BY <1>1, LedgerInit, ChargedInvStep, OwnedInvStep, SpendAlways, PTL
    DEF Spec, ImplementsLedger
=============================================================================
