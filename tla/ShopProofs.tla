----------------------------- MODULE ShopProofs -----------------------------
(***************************************************************************)
(* Theorems about what is sold and how it is paid for: of Orders, for      *)
(* every set of orders, every price and every limit of the coupon; and of  *)
(* Catalog, for every list of entries, every number of plans, ranges and   *)
(* requests, and every bound on failures.  The two components share no     *)
(* variable; each theorem is about the specification of one of them.       *)
(*                                                                         *)
(* Code: routes/payments.js and routes/coupons.js for Orders;              *)
(* routes/currency.js, routes/pricing.js, routes/themes.js, the gateways   *)
(* of routes/payments.js, routes/emailProviders.js and                     *)
(* routes/timelines.js for Catalog.                                        *)
(***************************************************************************)
EXTENDS Orders, Catalog, FiniteSetTheorems, TLAPS

-----------------------------------------------------------------------------
(* Orders                                                                  *)

\* The life of one order: every time it became paid it has left "paid" again, by a
\* refund or by the checkout that saved it as failed, unless it still is; what a
\* handler has still to do was paid (or refunded) before.
LifeInv(o) ==
    /\ captured[o] => checkout[o] = "offered"
    /\ checkout[o] \in {"idle", "resolved"} => status[o] = "none"
    /\ o \in overwritten => checkout[o] = "over"
    /\ payments[o] = refunds[o] + (IF status[o] = "paid" THEN 1 ELSE 0)
                                + (IF o \in overwritten THEN 1 ELSE 0)
    /\ topUps[o] + counting[o] + granting[o] <= payments[o]
    /\ deductions[o] + deducting[o] <= refunds[o]

OrderInv == \A o \in Order : LifeInv(o)

-----------------------------------------------------------------------------

\* A counter per order that is incremented, or decremented above zero, is one again.
LEMMA Counters ==
    ASSUME NEW f \in PerOrder, NEW o \in Order
    PROVE  /\ Bump(f, o) \in PerOrder
           /\ f[o] > 0 => Drop(f, o) \in PerOrder
BY DEF PerOrder, Bump, Drop

\* The initial values have their types.
LEMMA TypeInit == Init => TypeOK
BY ConstantsAssumption DEF Init, TypeOK, Zero, PerOrder

\* Every step keeps the types.
LEMMA TypeStep == TypeOK /\ [Next]_vars => TypeOK'
<1> SUFFICES ASSUME TypeOK, [Next]_vars PROVE TypeOK'
    OBVIOUS
<1> USE ConstantsAssumption
    DEF TypeOK, orderVars, couponVars, handlerVars, historyVars, ledgerVars, lossVars
<1>1. ASSUME NEW o \in Order, ResolveCoupon(o) PROVE TypeOK'
    BY <1>1 DEF ResolveCoupon
<1>2. ASSUME NEW o \in Order, CreateOrder(o) PROVE TypeOK'
    BY <1>2 DEF CreateOrder
<1>3. ASSUME NEW o \in Order, OfferPayment(o) PROVE TypeOK'
    BY <1>3 DEF OfferPayment
<1>4. ASSUME NEW o \in Order, FailCheckout(o) PROVE TypeOK'
    BY <1>4 DEF FailCheckout
<1>5. ASSUME NEW o \in Order, Capture(o) PROVE TypeOK'
    BY <1>5 DEF Capture
<1>6. ASSUME NEW o \in Order, BecomePaid(o) PROVE TypeOK'
    BY <1>6, Counters DEF BecomePaid
<1>7. ASSUME NEW o \in Order, RefundOrder(o) PROVE TypeOK'
    <2>1. refunds' \in [Order -> 0..MaxRefunds]
        BY <1>7 DEF RefundOrder, Bump
    <2> QED
        BY <1>7, <2>1, Counters DEF RefundOrder
<1>8. ASSUME NEW o \in Order, CountRedemption(o) PROVE TypeOK'
    BY <1>8, Counters DEF CountRedemption, Errs
<1>9. ASSUME NEW o \in Order, GrantCredits(o) PROVE TypeOK'
    BY <1>9, Counters DEF GrantCredits
<1>10. ASSUME NEW o \in Order, DeductCredits(o) PROVE TypeOK'
    BY <1>10, Counters DEF DeductCredits
<1>11. ASSUME SpendCredits PROVE TypeOK'
    BY <1>11 DEF SpendCredits
<1>12. ASSUME UpdateCoupon PROVE TypeOK'
    BY <1>12 DEF UpdateCoupon
<1>13. ASSUME DeleteCoupon PROVE TypeOK'
    BY <1>13 DEF DeleteCoupon
<1>14. ASSUME NEW o \in Order, Throw(o) PROVE TypeOK'
    <2>1. errors' \in 0..MaxErrors
        BY <1>14 DEF Throw, Errs
    <2>2. checkout' \in [Order -> {"idle", "resolved", "created", "offered", "over"}]
        BY <1>14 DEF Throw
    <2>3. counting' \in PerOrder /\ granting' \in PerOrder /\ deducting' \in PerOrder
        BY <1>14, Counters DEF Throw
    <2>4. uncounted' \in PerOrder /\ uncredited' \in PerOrder
        BY <1>14, Counters DEF Throw
    <2>5. UNCHANGED <<status, captured, couponVars, credits, ledgerVars, overwritten>>
        BY <1>14 DEF Throw
    <2> QED
        BY <2>1, <2>2, <2>3, <2>4, <2>5
<1>15. ASSUME Crash PROVE TypeOK'
    BY <1>15 DEF Crash, Errs, Zero, PerOrder
<1>16. ASSUME UNCHANGED vars PROVE TypeOK'
    BY <1>16 DEF vars
<1> QED
    BY <1>1, <1>2, <1>3, <1>4, <1>5, <1>6, <1>7, <1>8, <1>9, <1>10, <1>11, <1>12, <1>13,
       <1>14, <1>15, <1>16
    DEF Next, Settle, CompleteMock, Verify, Webhook

\* Every variable keeps its type, and the balance is never overdrawn: a refund is
\* clamped to zero, a purchase checks the balance it debits.
THEOREM OrdersTypeCorrect == Spec => []TypeOK
BY TypeInit, TypeStep, PTL DEF Spec

-----------------------------------------------------------------------------

\* Every step keeps the life of the order it is about, and leaves the others alone.
LEMMA OrderStep == TypeOK /\ OrderInv /\ [Next]_vars => OrderInv'
<1> SUFFICES ASSUME TypeOK, OrderInv, [Next]_vars PROVE OrderInv'
    OBVIOUS
<1> USE ConstantsAssumption
    DEF TypeOK, OrderInv, LifeInv, PerOrder, Bump, Drop,
        orderVars, couponVars, handlerVars, historyVars, ledgerVars, lossVars
<1>1. ASSUME NEW o \in Order, ResolveCoupon(o) PROVE OrderInv'
    BY <1>1 DEF ResolveCoupon
<1>2. ASSUME NEW o \in Order, CreateOrder(o) PROVE OrderInv'
    BY <1>2 DEF CreateOrder
<1>3. ASSUME NEW o \in Order, OfferPayment(o) PROVE OrderInv'
    BY <1>3 DEF OfferPayment
<1>4. ASSUME NEW o \in Order, FailCheckout(o) PROVE OrderInv'
    BY <1>4 DEF FailCheckout
<1>5. ASSUME NEW o \in Order, Capture(o) PROVE OrderInv'
    BY <1>5 DEF Capture
<1>6. ASSUME NEW o \in Order, BecomePaid(o), status[o] # "paid",
             checkout[o] \notin {"idle", "resolved"}
      PROVE  OrderInv'
    BY <1>6 DEF BecomePaid
<1>7. ASSUME NEW o \in Order, CompleteMock(o) PROVE OrderInv'
    BY <1>6, <1>7 DEF CompleteMock
<1>8. ASSUME NEW o \in Order, Verify(o) PROVE OrderInv'
    BY <1>6, <1>8 DEF Verify
<1>9. ASSUME NEW o \in Order, Webhook(o) PROVE OrderInv'
    BY <1>6, <1>9 DEF Webhook
<1>10. ASSUME NEW o \in Order, RefundOrder(o) PROVE OrderInv'
    BY <1>10 DEF RefundOrder
<1>11. ASSUME NEW o \in Order, CountRedemption(o) PROVE OrderInv'
    BY <1>11 DEF CountRedemption
<1>12. ASSUME NEW o \in Order, GrantCredits(o) PROVE OrderInv'
    BY <1>12 DEF GrantCredits
<1>13. ASSUME NEW o \in Order, DeductCredits(o) PROVE OrderInv'
    BY <1>13 DEF DeductCredits
<1>14. ASSUME SpendCredits \/ UpdateCoupon \/ DeleteCoupon PROVE OrderInv'
    BY <1>14 DEF SpendCredits, UpdateCoupon, DeleteCoupon
<1>15. ASSUME NEW o \in Order, Throw(o) PROVE OrderInv'
    BY <1>15 DEF Throw
<1>16. ASSUME Crash PROVE OrderInv'
    BY <1>16 DEF Crash, Zero
<1>17. ASSUME UNCHANGED vars PROVE OrderInv'
    BY <1>17 DEF vars
<1> QED
    BY <1>1, <1>2, <1>3, <1>4, <1>5, <1>7, <1>8, <1>9, <1>10, <1>11, <1>12, <1>13, <1>14,
       <1>15, <1>16, <1>17
    DEF Next, Settle

\* At the start no order exists.
LEMMA OrderInit == Init => OrderInv
<1> SUFFICES ASSUME Init, NEW o \in Order PROVE LifeInv(o)
    BY DEF OrderInv
<1>1. /\ status[o] = "none" /\ checkout[o] = "idle" /\ captured[o] = FALSE
      /\ payments[o] = 0 /\ refunds[o] = 0 /\ topUps[o] = 0 /\ deductions[o] = 0
      /\ counting[o] = 0 /\ granting[o] = 0 /\ deducting[o] = 0 /\ overwritten = {}
    BY DEF Init, Zero
<1> QED
    BY <1>1 DEF LifeInv

\* The life of every order is as LifeInv says, forever.
LEMMA OrderAlways == Spec => [](TypeOK /\ OrderInv)
BY TypeInit, TypeStep, OrderInit, OrderStep, PTL DEF Spec

\* An order tops the balance up at most once more than it was refunded, or overwritten
\* by its failing checkout, however the completion, /verify and the webhook race and
\* repeat, whatever payment is shown, whatever fails.
THEOREM CreditedOnce == Spec => []CreditedOncePerPayment
<1>1. TypeOK /\ OrderInv => CreditedOncePerPayment
    <2> SUFFICES ASSUME TypeOK, NEW o \in Order, LifeInv(o)
                 PROVE  topUps[o] + counting[o] + granting[o]
                            <= refunds[o] + 1 + (IF o \in overwritten THEN 1 ELSE 0)
        BY DEF OrderInv, CreditedOncePerPayment
    <2>1. /\ topUps[o] \in Nat /\ counting[o] \in Nat /\ granting[o] \in Nat
          /\ deductions[o] \in Nat /\ deducting[o] \in Nat
          /\ payments[o] \in Nat /\ refunds[o] \in Nat
        BY ConstantsAssumption DEF TypeOK, PerOrder
    <2> QED
        BY <2>1 DEF LifeInv
<1> QED
    BY <1>1, OrderAlways, PTL

\* Credits are taken back at most once for every payment.
THEOREM DeductedOnce == Spec => []DeductedOncePerPayment
<1>1. TypeOK /\ OrderInv => DeductedOncePerPayment
    <2> SUFFICES ASSUME TypeOK, NEW o \in Order, LifeInv(o)
                 PROVE  deductions[o] + deducting[o] <= payments[o]
        BY DEF OrderInv, DeductedOncePerPayment
    <2>1. /\ topUps[o] \in Nat /\ counting[o] \in Nat /\ granting[o] \in Nat
          /\ deductions[o] \in Nat /\ deducting[o] \in Nat
          /\ payments[o] \in Nat /\ refunds[o] \in Nat
        BY ConstantsAssumption DEF TypeOK, PerOrder
    <2> QED
        BY <2>1 DEF LifeInv
<1> QED
    BY <1>1, OrderAlways, PTL

-----------------------------------------------------------------------------

\* The limit of the coupon is checked by the update that counts, and nothing else
\* changes the count.
THEOREM CouponCapAlways == Spec => []CouponCapHolds
<1>1. Init => CouponCapHolds
    BY ConstantsAssumption DEF Init, CouponCapHolds
<1>2. TypeOK /\ CouponCapHolds /\ [Next]_vars => CouponCapHolds'
    <2> SUFFICES ASSUME TypeOK, CouponCapHolds, [Next]_vars, 0 \notin Caps
                 PROVE  \E c \in Caps : redemptionCount' <= c
        BY DEF CouponCapHolds
    <2>1. CASE redemptionCount' = redemptionCount
        BY <2>1 DEF CouponCapHolds
    <2>2. ASSUME NEW o \in Order, CountRedemption(o), redemptionCount' # redemptionCount
          PROVE  \E c \in Caps : redemptionCount' <= c
        <3>1. redemptionCount < cap /\ redemptionCount' = redemptionCount + 1
            BY <2>2 DEF CountRedemption, BelowCap, TypeOK
        <3>2. redemptionCount' <= cap /\ cap \in Caps
            BY <3>1, ConstantsAssumption DEF TypeOK
        <3> QED
            BY <3>2
    <2> QED
        BY <2>1, <2>2
        DEF Next, Settle, vars, couponVars, ResolveCoupon, CreateOrder, OfferPayment,
            FailCheckout, Capture, CompleteMock, Verify, Webhook, BecomePaid, RefundOrder,
            GrantCredits, DeductCredits, SpendCredits, UpdateCoupon, DeleteCoupon, Throw, Crash
<1> QED
    BY <1>1, <1>2, TypeInit, TypeStep, PTL DEF Spec

\* No payment made with the coupon goes unnoticed but by the failure of its own step:
\* it is counted, flagged, or in the hands of a handler that will do either.
THEOREM RedemptionsAccountedAlways == Spec => []RedemptionsAccounted
<1>1. Init => RedemptionsAccounted
    <2> SUFFICES ASSUME Init, NEW o \in Couponed
                 PROVE  counted[o] + flagged[o] + counting[o] + uncounted[o] = payments[o]
        BY DEF RedemptionsAccounted
    <2>1. /\ counted[o] = 0 /\ flagged[o] = 0 /\ counting[o] = 0
          /\ uncounted[o] = 0 /\ payments[o] = 0
        BY ConstantsAssumption DEF Init, Zero
    <2> QED
        BY <2>1
<1>2. TypeOK /\ RedemptionsAccounted /\ [Next]_vars => RedemptionsAccounted'
    <2> SUFFICES ASSUME TypeOK, RedemptionsAccounted, [Next]_vars PROVE RedemptionsAccounted'
        OBVIOUS
    <2> USE ConstantsAssumption
        DEF TypeOK, PerOrder, RedemptionsAccounted, Bump, Drop,
            orderVars, couponVars, handlerVars, historyVars, ledgerVars, lossVars
    <2>1. ASSUME NEW o \in Order, BecomePaid(o) PROVE RedemptionsAccounted'
        BY <2>1 DEF BecomePaid
    <2>2. ASSUME NEW o \in Order, CountRedemption(o) PROVE RedemptionsAccounted'
        BY <2>2 DEF CountRedemption
    <2>3. ASSUME NEW o \in Order, Throw(o) PROVE RedemptionsAccounted'
        BY <2>3 DEF Throw
    <2>4. ASSUME Crash PROVE RedemptionsAccounted'
        BY <2>4 DEF Crash, Zero
    <2>5. ASSUME UNCHANGED <<counting, payments, counted, flagged, uncounted>>
          PROVE  RedemptionsAccounted'
        BY <2>5
    <2> QED
        BY <2>1, <2>2, <2>3, <2>4, <2>5
        DEF Next, Settle, vars, ResolveCoupon, CreateOrder, OfferPayment,
            FailCheckout, Capture, CompleteMock, Verify, Webhook, RefundOrder,
            GrantCredits, DeductCredits, SpendCredits, UpdateCoupon, DeleteCoupon
<1> QED
    BY <1>1, <1>2, TypeInit, TypeStep, PTL DEF Spec

-----------------------------------------------------------------------------
(* Catalog: the lists, and what the requests keep in mind                  *)

\* The stages of the requests about currencies and plans, and about themes.
CurrencyStages == {"seedPrices", "saveCurrency", "countForPatch", "countForDelete", "unsetPrices",
                   "createPlan", "updatePlan"}
ThemeStages == {"saveDefault", "countUses", "saveTimelineTheme", "findOverlap", "createOverride"}

\* The area a request is in, by its stage and the entry it is about.
InArea(r) ==
    /\ pc[r] = "idle" => memory[r].area = "none"
    /\ pc[r] \in CurrencyStages => memory[r].area = "currencies"
    /\ pc[r] \in ThemeStages => memory[r].area = "themes"
    /\ pc[r] = "saveImage" => memory[r].area = "image"
    /\ pc[r] = "saveSettings" => memory[r].area = "timeline"
    /\ pc[r] \in {"clearOthers", "deleteEntry"} =>
          \/ memory[r].area = "currencies" /\ memory[r].entry \in Currency
          \/ memory[r].area = "themes" /\ memory[r].entry \in Theme
          \/ /\ memory[r].area = "providers" /\ pc[r] = "clearOthers"
             /\ memory[r].entry \in Gateway \cup Mailer

\* What a request keeps in mind, by its stage.
Minds(r) ==
    LET k == memory[r] IN
    /\ pc[r] \in CurrencyStages \ {"createPlan", "updatePlan"} => k.entry \in Currency
    /\ pc[r] = "seedPrices" => k.default \in BOOLEAN
    /\ pc[r] \in {"saveCurrency", "countForPatch"} =>
          /\ k.read \in Documents /\ k.on \in BOOLEAN /\ k.default \in BOOLEAN /\ k.asks \in BOOLEAN
          /\ k.asks => k.on /\ k.default
          /\ k.default /\ ~k.read.default => k.asks
    /\ pc[r] \in {"createPlan", "updatePlan"} => k.plan \in Plan /\ k.prices \in SUBSET Currency
    /\ pc[r] \in ThemeStages => k.entry \in Theme
    /\ pc[r] = "saveDefault" => k.read \in Documents
    /\ pc[r] \in {"findOverlap", "createOverride"} => k.days \in SUBSET Date
    /\ pc[r] = "saveImage" => k.gains \in SUBSET Images /\ k.loses \in SUBSET Images
    /\ pc[r] = "saveSettings" => k.read \in Settings /\ k.new \in Settings

\* Every stage, and every range of days.
Stages == {"idle", "clearOthers", "deleteEntry", "saveImage", "saveSettings"}
          \cup CurrencyStages \cup ThemeStages
Overrides == [theme : Theme \cup {"none"}, days : SUBSET Date]

\* The types of what is stored.
DocumentTypes ==
    /\ entry \in [Entry -> Documents]
    /\ plan \in [Plan -> SUBSET (Currency \cup {"plan"})]
    /\ theme \in Theme
    /\ override \in [Override -> Overrides]
    /\ image \in SUBSET Images
    /\ open \in Settings

\* The types of the requests in progress.
RequestTypes ==
    /\ pc \in [Request -> Stages]
    /\ memory = [r \in Request |-> memory[r]]
    /\ \A r \in Request : InArea(r) /\ Minds(r)

ListTypes == DocumentTypes /\ RequestTypes

\* In an area where nothing has overlapped there is one request at a time.
AloneInv ==
    \A a \in Areas \ raced : \A r, q \in Request :
        memory[r].area = a /\ memory[q].area = a => r = q

\* A list has one default, unless it is being moved or its move was cut in half.
OneOrMoving(l) == (\A d, e \in Default(l) : d = e) \/ \E r \in Request : Moving(r, l)
DefaultInv == \A l \in Lists \ torn : OneOrMoving(l)

-----------------------------------------------------------------------------
(* What a request may rely on while it is alone in its area                *)

\* What a request has read of the currencies still holds.
CurrencyKnows(r) ==
    LET k == memory[r] c == k.entry IN
    /\ pc[r] \in CurrencyStages \ {"createPlan", "updatePlan"} => entry[c].there
    /\ pc[r] \in {"saveCurrency", "countForPatch"} => k.read = entry[c]
    /\ pc[r] = "countForPatch" => entry[c].on
    /\ pc[r] = "saveCurrency" /\ entry[c].on /\ ~k.on => Enabled(Currency) \ {c} # {}
    /\ pc[r] = "countForDelete" => entry[c].on
    /\ pc[r] \in {"unsetPrices", "deleteEntry"} => Enabled(Currency) \ {c} # {}
    /\ pc[r] \in {"createPlan", "updatePlan"} => k.prices = There(Currency)

\* The prices a plan has while a request is between its writes, and otherwise.
PricesInv ==
    \A p \in Plan : plan[p] # {} =>
        \/ /\ \A r \in Request : memory[r].area = "currencies" =>
                                    pc[r] \notin {"seedPrices", "deleteEntry"}
           /\ plan[p] = {"plan"} \cup There(Currency)
        \/ \E r \in Request :
              /\ memory[r].area = "currencies" /\ pc[r] \in {"seedPrices", "deleteEntry"}
              /\ plan[p] \cup {memory[r].entry} = {"plan"} \cup There(Currency)
              /\ pc[r] = "deleteEntry" => memory[r].entry \notin plan[p]

\* The currencies and plans where requests do not overlap.
CurrenciesAgree ==
    /\ Enabled(Currency) # {}
    /\ \A r \in Request : memory[r].area = "currencies" => CurrencyKnows(r)
    /\ PricesInv
CurrencyInv == "currencies" \notin raced => CurrenciesAgree

\* What a request has read of the themes still holds.
ThemeKnows(r) ==
    LET k == memory[r] t == k.entry IN
    /\ entry[t].there
    /\ pc[r] = "saveDefault" /\ k.read.default => entry[t].default
    /\ pc[r] = "clearOthers" => entry[t].default
    /\ pc[r] \in {"countUses", "deleteEntry"} => ~entry[t].default
    /\ pc[r] = "deleteEntry" => ~InUse(t)
    /\ pc[r] = "createOverride" => \A o \in Override : override[o].days \cap k.days = {}

\* Every theme in use is there, and no day has two.
UsesAgree ==
    /\ \A t \in Theme : InUse(t) => entry[t].there
    /\ \A o, q \in Override : o # q => override[o].days \cap override[q].days = {}

\* The themes and their uses where requests do not overlap.
ThemesSettled ==
    /\ Default(Theme) # {}
    /\ \A r \in Request : memory[r].area = "themes" => ThemeKnows(r)
    /\ UsesAgree
ThemeInv == "themes" \notin raced => ThemesSettled

\* No dark image is left, and none is about to be left, without a light one.
ImagesSettled ==
    /\ "dark" \in image => "light" \in image
    /\ \A r \in Request : pc[r] = "saveImage" =>
          LET saved == (image \ memory[r].loses) \cup memory[r].gains IN
          "dark" \in saved => "light" \in saved
ImageInv == "image" \notin raced => ImagesSettled

\* Guests view what is public, and who is about to save has read what is there.
OpenSettled ==
    /\ open.guests => open.public
    /\ \A r \in Request : pc[r] = "saveSettings" => memory[r].read = open
OpenInv == "timeline" \notin raced => OpenSettled

\* What every state of the lists, their dependents and their requests satisfies.
IInv == ListTypes /\ AloneInv /\ DefaultInv /\ CurrencyInv /\ ThemeInv /\ ImageInv /\ OpenInv

-----------------------------------------------------------------------------
(* Steps                                                                   *)

\* The steps of one request.
Act(r) ==
    \/ Currencies(r) \/ Themes(r)
    \/ StartPutGateway(r) \/ StartPutMailer(r) \/ ClearOthers(r) \/ DeleteEntry(r)
    \/ StartUploadLight(r) \/ StartUploadDark(r)
    \/ StartRemoveLight(r) \/ StartRemoveDark(r) \/ SaveImage(r)
    \/ StartEdit(r) \/ SaveSettings(r)
    \/ Fail(r)

\* The handlers that are a single call.
Single ==
    \/ \E p \in Plan : DeletePlan(p)
    \/ DeleteGateway \/ DeleteMailer
    \/ \E t \in Theme : CreateTheme(t) \/ PatchTheme(t)
    \/ \E o \in Override : DeleteOverride(o)

\* Request r moves on, and the others stay where they are.
Own(r) ==
    /\ pc' = [pc EXCEPT ![r] = pc'[r]]
    /\ memory' = [memory EXCEPT ![r] = memory'[r]]

\* Request r enters an area, which is marked if somebody is there.
Enters(r) == \A q \in Request : memory[q].area = memory'[r].area => memory'[r].area \in raced'

\* A request that begins was idle, and marks its area when somebody is there.
LEMMA Begins ==
    ASSUME RequestTypes, NEW r \in Request, NEW stage, NEW known, Begin(r, stage, known)
    PROVE  /\ pc[r] = "idle" /\ pc'[r] = stage /\ memory'[r] = known /\ Own(r)
           /\ raced \subseteq raced' /\ Enters(r)
BY DEF RequestTypes, Begin, Own, Enters

\* A request that is over is idle, with nothing in mind.
LEMMA Ends ==
    ASSUME RequestTypes, NEW r \in Request, Over(r)
    PROVE  pc'[r] = "idle" /\ memory'[r] = Idle /\ Own(r) /\ raced' = raced
BY DEF RequestTypes, Over, Own

\* A request that goes on keeps what it has in mind.
LEMMA Goes ==
    ASSUME RequestTypes, NEW r \in Request, NEW stage, Continue(r, stage)
    PROVE  pc'[r] = stage /\ memory'[r] = memory[r] /\ Own(r) /\ raced' = raced
BY DEF RequestTypes, Continue, Own

\* What a failed call leaves of a request.
LEMMA Fails ==
    ASSUME RequestTypes, NEW r \in Request, Fail(r)
    PROVE  pc'[r] = "idle" /\ memory'[r] = Idle /\ Own(r) /\ raced \subseteq raced'
BY DEF RequestTypes, Fail, Own

\* The others stay where they are.
LEMMA OthersWait ==
    ASSUME RequestTypes, NEW r \in Request, Own(r), NEW q \in Request \ {r}
    PROVE  pc'[q] = pc[q] /\ memory'[q] = memory[q]
BY DEF RequestTypes, Own

\* It is enough to look at the request that moves.
LEMMA OwnTypes ==
    ASSUME RequestTypes, NEW r \in Request, Own(r), pc'[r] \in Stages, InArea(r)', Minds(r)'
    PROVE  RequestTypes'
<1>1. pc' \in [Request -> Stages] /\ memory' = [q \in Request |-> memory'[q]]
    BY DEF RequestTypes, Own
<1>2. ASSUME NEW q \in Request \ {r} PROVE InArea(q)' /\ Minds(q)'
    <2>1. pc'[q] = pc[q] /\ memory'[q] = memory[q]
        BY OthersWait
    <2> QED
        BY <2>1 DEF RequestTypes, InArea, Minds
<1> QED
    BY <1>1, <1>2 DEF RequestTypes

\* A request that is over keeps nothing in mind.
LEMMA OverTypes ==
    ASSUME RequestTypes, NEW r \in Request, pc'[r] = "idle", memory'[r] = Idle, Own(r)
    PROVE  RequestTypes'
<1>1. InArea(r)' /\ Minds(r)' /\ pc'[r] \in Stages
    BY DEF InArea, Minds, Idle, Stages, CurrencyStages, ThemeStages
<1> QED
    BY <1>1, OwnTypes

\* A step is one of a request, a handler that is a single call, or none at all.
LEMMA Steps ==
    ASSUME [CatalogNext]_catalogVars
    PROVE  (\E r \in Request : Act(r)) \/ Single \/ UNCHANGED catalogVars
BY DEF CatalogNext, Act, Single

-----------------------------------------------------------------------------
(* Types                                                                   *)

\* The handlers of currencies and plans keep the types.
LEMMA CurrencyTypes == ASSUME ListTypes, NEW r \in Request, Currencies(r) PROVE ListTypes'
<1> USE DEF ListTypes
<1>d. Currency \subseteq Entry /\ Theme \subseteq Entry
    BY DEF Entry
<1>1. CASE StartCreateCurrency(r)
    <2>1. PICK c \in Currency, default \in BOOLEAN, on \in BOOLEAN :
             /\ entry' = [entry EXCEPT ![c] = [there |-> TRUE, on |-> on \/ default, default |-> default]]
             /\ Begin(r, "seedPrices", [area |-> "currencies", entry |-> c, default |-> default])
        BY <1>1 DEF StartCreateCurrency
    <2>2. DocumentTypes'
        BY <1>1, <1>d, <2>1 DEF StartCreateCurrency, DocumentTypes, Documents
    <2>3. /\ pc'[r] = "seedPrices" /\ Own(r)
          /\ memory'[r] = [area |-> "currencies", entry |-> c, default |-> default]
        BY <2>1, Begins
    <2>4. pc'[r] \in Stages /\ InArea(r)' /\ Minds(r)'
        BY <2>3 DEF InArea, Minds, Stages, CurrencyStages, ThemeStages
    <2> QED
        BY <2>2, <2>3, <2>4, OwnTypes
<1>2. CASE SeedPrices(r)
    <2>1. memory[r].entry \in Currency /\ memory[r].default \in BOOLEAN /\ memory[r].area = "currencies"
        BY <1>2 DEF SeedPrices, RequestTypes, InArea, Minds, CurrencyStages
    <2>2. DocumentTypes'
        BY <1>2, <2>1 DEF SeedPrices, DocumentTypes, Priced
    <2>3. CASE Continue(r, "clearOthers")
        <3>1. pc'[r] = "clearOthers" /\ Own(r) /\ memory'[r] = memory[r]
            BY <2>3, Goes
        <3>2. pc'[r] \in Stages /\ InArea(r)' /\ Minds(r)'
            BY <3>1, <2>1 DEF InArea, Minds, Stages, CurrencyStages, ThemeStages
        <3> QED
            BY <2>2, <3>1, <3>2, OwnTypes
    <2>4. CASE Over(r)
        BY <2>2, <2>4, Ends, OverTypes
    <2> QED
        BY <1>2, <2>3, <2>4 DEF SeedPrices
<1>3. CASE StartPatchCurrency(r)
    <2>1. PICK c \in There(Currency), on \in BOOLEAN, default \in BOOLEAN, asks \in BOOLEAN :
             /\ asks => on /\ default
             /\ default /\ ~entry[c].default => asks
             /\ Begin(r, IF entry[c].on /\ ~on THEN "countForPatch" ELSE "saveCurrency",
                      [area |-> "currencies", entry |-> c, read |-> entry[c],
                       on |-> on, default |-> default, asks |-> asks])
        BY <1>3 DEF StartPatchCurrency
    <2>2. c \in Currency /\ entry[c] \in Documents
        BY <1>d DEF There, DocumentTypes
    <2>3. /\ pc'[r] \in {"countForPatch", "saveCurrency"} /\ Own(r)
          /\ memory'[r] = [area |-> "currencies", entry |-> c, read |-> entry[c],
                            on |-> on, default |-> default, asks |-> asks]
        BY <2>1, Begins
    <2>4. pc'[r] \in Stages /\ InArea(r)' /\ Minds(r)'
        BY <2>1, <2>2, <2>3 DEF InArea, Minds, Stages, CurrencyStages, ThemeStages
    <2>5. DocumentTypes'
        BY <1>3 DEF StartPatchCurrency, DocumentTypes
    <2> QED
        BY <2>3, <2>4, <2>5, OwnTypes
<1>4. CASE CountEnabled(r)
    <2>1. DocumentTypes'
        BY <1>4 DEF CountEnabled, DocumentTypes
    <2>2. CASE Over(r)
        BY <2>1, <2>2, Ends, OverTypes
    <2>3. CASE Continue(r, IF pc[r] = "countForPatch" THEN "saveCurrency" ELSE "unsetPrices")
        <3>1. /\ pc'[r] = IF pc[r] = "countForPatch" THEN "saveCurrency" ELSE "unsetPrices"
              /\ Own(r) /\ memory'[r] = memory[r]
            BY <2>3, Goes
        <3>2. pc'[r] \in Stages /\ InArea(r)' /\ Minds(r)'
            BY <1>4, <3>1
            DEF CountEnabled, RequestTypes, InArea, Minds, Stages, CurrencyStages, ThemeStages
        <3> QED
            BY <2>1, <3>1, <3>2, OwnTypes
    <2> QED
        BY <1>4, <2>2, <2>3 DEF CountEnabled
<1>5. CASE SaveCurrency(r)
    <2>1. /\ memory[r].entry \in Currency /\ memory[r].read \in Documents /\ memory[r].on \in BOOLEAN
          /\ memory[r].default \in BOOLEAN /\ memory[r].area = "currencies"
        BY <1>5 DEF SaveCurrency, RequestTypes, InArea, Minds, CurrencyStages
    <2>2. DocumentTypes'
        BY <1>5, <2>1, <1>d DEF SaveCurrency, DocumentTypes, Documents
    <2>3. CASE Over(r)
        BY <2>2, <2>3, Ends, OverTypes
    <2>4. CASE Continue(r, "clearOthers")
        <3>1. pc'[r] = "clearOthers" /\ Own(r) /\ memory'[r] = memory[r]
            BY <2>4, Goes
        <3>2. pc'[r] \in Stages /\ InArea(r)' /\ Minds(r)'
            BY <3>1, <2>1 DEF InArea, Minds, Stages, CurrencyStages, ThemeStages
        <3> QED
            BY <2>2, <3>1, <3>2, OwnTypes
    <2> QED
        BY <1>5, <2>3, <2>4 DEF SaveCurrency
<1>6. CASE StartDeleteCurrency(r)
    <2>1. PICK c \in There(Currency) \ Default(Currency) :
             Begin(r, IF entry[c].on THEN "countForDelete" ELSE "unsetPrices",
                   [area |-> "currencies", entry |-> c])
        BY <1>6 DEF StartDeleteCurrency
    <2>2. c \in Currency
        BY DEF There
    <2>3. /\ pc'[r] \in {"countForDelete", "unsetPrices"} /\ Own(r)
          /\ memory'[r] = [area |-> "currencies", entry |-> c]
        BY <2>1, Begins
    <2>4. pc'[r] \in Stages /\ InArea(r)' /\ Minds(r)'
        BY <2>2, <2>3 DEF InArea, Minds, Stages, CurrencyStages, ThemeStages
    <2>5. DocumentTypes'
        BY <1>6 DEF StartDeleteCurrency, DocumentTypes
    <2> QED
        BY <2>3, <2>4, <2>5, OwnTypes
<1>7. CASE UnsetPrices(r)
    <2>1. DocumentTypes'
        BY <1>7 DEF UnsetPrices, DocumentTypes
    <2>2. pc'[r] = "deleteEntry" /\ Own(r) /\ memory'[r] = memory[r]
        BY <1>7, Goes DEF UnsetPrices
    <2>3. pc'[r] \in Stages /\ InArea(r)' /\ Minds(r)'
        BY <1>7, <2>2 DEF UnsetPrices, RequestTypes, InArea, Minds, Stages, CurrencyStages, ThemeStages
    <2> QED
        BY <2>1, <2>2, <2>3, OwnTypes
<1>8. CASE StartSavePlan(r)
    <2>1. PICK p \in Plan :
             Begin(r, IF plan[p] = {} THEN "createPlan" ELSE "updatePlan",
                   [area |-> "currencies", plan |-> p, prices |-> There(Currency)])
        BY <1>8 DEF StartSavePlan
    <2>2. /\ pc'[r] \in {"createPlan", "updatePlan"} /\ Own(r)
          /\ memory'[r] = [area |-> "currencies", plan |-> p, prices |-> There(Currency)]
        BY <2>1, Begins
    <2>3. There(Currency) \in SUBSET Currency
        BY DEF There
    <2>4. pc'[r] \in Stages /\ InArea(r)' /\ Minds(r)'
        BY <2>2, <2>3 DEF InArea, Minds, Stages, CurrencyStages, ThemeStages
    <2>5. DocumentTypes'
        BY <1>8 DEF StartSavePlan, DocumentTypes
    <2> QED
        BY <2>2, <2>4, <2>5, OwnTypes
<1>9. CASE CreatePlan(r) \/ UpdatePlan(r)
    <2>1. PICK may \in BOOLEAN : SavePlan(r, may)
        BY <1>9 DEF CreatePlan, UpdatePlan
    <2>2. memory[r].plan \in Plan /\ memory[r].prices \in SUBSET Currency
        BY <1>9 DEF CreatePlan, UpdatePlan, RequestTypes, Minds
    <2>3. DocumentTypes'
        BY <2>1, <2>2 DEF SavePlan, DocumentTypes
    <2> QED
        BY <2>1, <2>3, Ends, OverTypes DEF SavePlan
<1> QED
    BY <1>1, <1>2, <1>3, <1>4, <1>5, <1>6, <1>7, <1>8, <1>9 DEF Currencies

\* The handlers of themes keep the types.
LEMMA ThemeTypes == ASSUME ListTypes, NEW r \in Request, Themes(r) PROVE ListTypes'
<1> USE DEF ListTypes
<1>d. Currency \subseteq Entry /\ Theme \subseteq Entry
    BY DEF Entry
<1>1. CASE StartSetDefault(r)
    <2>1. PICK t \in Enabled(Theme) :
             Begin(r, "saveDefault", [area |-> "themes", entry |-> t, read |-> entry[t]])
        BY <1>1 DEF StartSetDefault
    <2>2. t \in Theme /\ entry[t] \in Documents
        BY <1>d DEF Enabled, There, DocumentTypes
    <2>3. pc'[r] = "saveDefault" /\ Own(r) /\ memory'[r] = [area |-> "themes", entry |-> t, read |-> entry[t]]
        BY <2>1, Begins
    <2>4. pc'[r] \in Stages /\ InArea(r)' /\ Minds(r)'
        BY <2>2, <2>3 DEF InArea, Minds, Stages, CurrencyStages, ThemeStages
    <2>5. DocumentTypes'
        BY <1>1 DEF StartSetDefault, DocumentTypes
    <2> QED
        BY <2>3, <2>4, <2>5, OwnTypes
<1>2. CASE SaveDefault(r)
    <2>1. memory[r].entry \in Theme /\ memory[r].area = "themes"
        BY <1>2 DEF SaveDefault, RequestTypes, InArea, Minds, ThemeStages
    <2>2. DocumentTypes'
        <3>1. \/ entry' = entry
              \/ entry' = [entry EXCEPT ![memory[r].entry] = [entry[memory[r].entry] EXCEPT !.default = TRUE]]
            BY <1>2 DEF SaveDefault
        <3>2. [entry[memory[r].entry] EXCEPT !.default = TRUE] \in Documents
            <4>1. entry[memory[r].entry] \in Documents
                BY <2>1, <1>d DEF DocumentTypes
            <4> QED
                BY <4>1 DEF Documents
        <3>3. entry' \in [Entry -> Documents]
            BY <3>1, <3>2 DEF DocumentTypes
        <3> QED
            BY <1>2, <3>3 DEF SaveDefault, DocumentTypes
    <2>3. CASE Over(r)
        BY <2>2, <2>3, Ends, OverTypes
    <2>4. CASE Continue(r, "clearOthers")
        <3>1. pc'[r] = "clearOthers" /\ Own(r) /\ memory'[r] = memory[r]
            BY <2>4, Goes
        <3>2. pc'[r] \in Stages /\ InArea(r)' /\ Minds(r)'
            BY <3>1, <2>1 DEF InArea, Minds, Stages, CurrencyStages, ThemeStages
        <3> QED
            BY <2>2, <3>1, <3>2, OwnTypes
    <2> QED
        BY <1>2, <2>3, <2>4 DEF SaveDefault
<1>3. CASE StartDeleteTheme(r)
    <2>1. PICK t \in There(Theme) \ Default(Theme) : Begin(r, "countUses", [area |-> "themes", entry |-> t])
        BY <1>3 DEF StartDeleteTheme
    <2>2. t \in Theme
        BY DEF There
    <2>3. pc'[r] = "countUses" /\ Own(r) /\ memory'[r] = [area |-> "themes", entry |-> t]
        BY <2>1, Begins
    <2>4. pc'[r] \in Stages /\ InArea(r)' /\ Minds(r)'
        BY <2>2, <2>3 DEF InArea, Minds, Stages, CurrencyStages, ThemeStages
    <2>5. DocumentTypes'
        BY <1>3 DEF StartDeleteTheme, DocumentTypes
    <2> QED
        BY <2>3, <2>4, <2>5, OwnTypes
<1>4. CASE CountUses(r)
    <2>1. DocumentTypes'
        BY <1>4 DEF CountUses, DocumentTypes
    <2>2. CASE Over(r)
        BY <2>1, <2>2, Ends, OverTypes
    <2>3. CASE Continue(r, "deleteEntry")
        <3>1. pc'[r] = "deleteEntry" /\ Own(r) /\ memory'[r] = memory[r]
            BY <2>3, Goes
        <3>2. pc'[r] \in Stages /\ InArea(r)' /\ Minds(r)'
            BY <1>4, <3>1
            DEF CountUses, RequestTypes, InArea, Minds, Stages, CurrencyStages, ThemeStages
        <3> QED
            BY <2>1, <3>1, <3>2, OwnTypes
    <2> QED
        BY <1>4, <2>2, <2>3 DEF CountUses
<1>5. CASE StartSetTheme(r)
    <2>1. PICK t \in Enabled(Theme) : Begin(r, "saveTimelineTheme", [area |-> "themes", entry |-> t])
        BY <1>5 DEF StartSetTheme
    <2>2. t \in Theme
        BY DEF Enabled, There
    <2>3. pc'[r] = "saveTimelineTheme" /\ Own(r) /\ memory'[r] = [area |-> "themes", entry |-> t]
        BY <2>1, Begins
    <2>4. pc'[r] \in Stages /\ InArea(r)' /\ Minds(r)'
        BY <2>2, <2>3 DEF InArea, Minds, Stages, CurrencyStages, ThemeStages
    <2>5. DocumentTypes'
        BY <1>5 DEF StartSetTheme, DocumentTypes
    <2> QED
        BY <2>3, <2>4, <2>5, OwnTypes
<1>6. CASE SaveTimelineTheme(r)
    <2>1. memory[r].entry \in Theme
        BY <1>6 DEF SaveTimelineTheme, RequestTypes, Minds, ThemeStages
    <2>2. DocumentTypes'
        BY <1>6, <2>1 DEF SaveTimelineTheme, DocumentTypes
    <2> QED
        BY <1>6, <2>2, Ends, OverTypes DEF SaveTimelineTheme
<1>7. CASE StartAddOverride(r)
    <2>1. PICK t \in Enabled(Theme), days \in SUBSET Date \ {{}} :
             Begin(r, "findOverlap", [area |-> "themes", entry |-> t, days |-> days])
        BY <1>7 DEF StartAddOverride
    <2>2. t \in Theme
        BY DEF Enabled, There
    <2>3. pc'[r] = "findOverlap" /\ Own(r) /\ memory'[r] = [area |-> "themes", entry |-> t, days |-> days]
        BY <2>1, Begins
    <2>4. pc'[r] \in Stages /\ InArea(r)' /\ Minds(r)'
        BY <2>2, <2>3 DEF InArea, Minds, Stages, CurrencyStages, ThemeStages
    <2>5. DocumentTypes'
        BY <1>7 DEF StartAddOverride, DocumentTypes
    <2> QED
        BY <2>3, <2>4, <2>5, OwnTypes
<1>8. CASE FindOverlap(r)
    <2>1. DocumentTypes'
        BY <1>8 DEF FindOverlap, DocumentTypes
    <2>2. CASE Over(r)
        BY <2>1, <2>2, Ends, OverTypes
    <2>3. CASE Continue(r, "createOverride")
        <3>1. pc'[r] = "createOverride" /\ Own(r) /\ memory'[r] = memory[r]
            BY <2>3, Goes
        <3>2. pc'[r] \in Stages /\ InArea(r)' /\ Minds(r)'
            BY <1>8, <3>1
            DEF FindOverlap, RequestTypes, InArea, Minds, Stages, CurrencyStages, ThemeStages
        <3> QED
            BY <2>1, <3>1, <3>2, OwnTypes
    <2> QED
        BY <1>8, <2>2, <2>3 DEF FindOverlap
<1>9. CASE CreateOverride(r)
    <2>1. memory[r].entry \in Theme /\ memory[r].days \in SUBSET Date
        BY <1>9 DEF CreateOverride, RequestTypes, Minds, ThemeStages
    <2>2. DocumentTypes'
        BY <1>9, <2>1 DEF CreateOverride, DocumentTypes, Overrides
    <2> QED
        BY <1>9, <2>2, Ends, OverTypes DEF CreateOverride
<1> QED
    BY <1>1, <1>2, <1>3, <1>4, <1>5, <1>6, <1>7, <1>8, <1>9 DEF Themes

\* The handlers of providers, images and settings, and failures, keep the types.
LEMMA OtherTypes ==
    ASSUME ListTypes, NEW r \in Request, Act(r), ~Currencies(r), ~Themes(r)
    PROVE  ListTypes'
<1> USE DEF ListTypes
<1>1. ASSUME NEW d \in Gateway \cup Mailer, Upsert(r, d) PROVE ListTypes'
    <2>1. d \in Entry
        BY DEF Entry
    <2>2. DocumentTypes'
        BY <1>1, <2>1 DEF Upsert, DocumentTypes, Documents
    <2>3. CASE Begin(r, "clearOthers", [area |-> "providers", entry |-> d])
        <3>1. pc'[r] = "clearOthers" /\ Own(r) /\ memory'[r] = [area |-> "providers", entry |-> d]
            BY <2>3, Begins
        <3>2. pc'[r] \in Stages /\ InArea(r)' /\ Minds(r)'
            BY <3>1 DEF InArea, Minds, Stages, CurrencyStages, ThemeStages
        <3> QED
            BY <2>2, <3>1, <3>2, OwnTypes
    <2>4. CASE UNCHANGED <<pc, memory>>
        BY <2>2, <2>4 DEF RequestTypes, InArea, Minds
    <2> QED
        BY <1>1, <2>3, <2>4 DEF Upsert
<1>2. CASE ClearOthers(r)
    <2>1. entry' \in [Entry -> Documents]
        <3>1. \A e \in Entry : [entry[e] EXCEPT !.default = FALSE] \in Documents
            BY DEF DocumentTypes, Documents
        <3> QED
            BY <1>2, <3>1 DEF ClearOthers, DocumentTypes
    <2>2. DocumentTypes'
        BY <1>2, <2>1 DEF ClearOthers, DocumentTypes
    <2> QED
        BY <1>2, <2>2, Ends, OverTypes DEF ClearOthers
<1>3. CASE DeleteEntry(r)
    <2>1. DocumentTypes'
        BY <1>3 DEF DeleteEntry, DocumentTypes, Documents, Nothing
    <2> QED
        BY <1>3, <2>1, Ends, OverTypes DEF DeleteEntry
<1>4. ASSUME NEW gains \in SUBSET Images, NEW loses \in SUBSET Images, ChangeImages(r, gains, loses)
      PROVE  ListTypes'
    <2>1. /\ pc'[r] = "saveImage" /\ Own(r)
          /\ memory'[r] = [area |-> "image", gains |-> gains, loses |-> loses \cap image]
        BY <1>4, Begins DEF ChangeImages
    <2>2. pc'[r] \in Stages /\ InArea(r)' /\ Minds(r)'
        BY <2>1 DEF InArea, Minds, Stages, CurrencyStages, ThemeStages
    <2>3. DocumentTypes'
        BY <1>4 DEF ChangeImages, DocumentTypes
    <2> QED
        BY <2>1, <2>2, <2>3, OwnTypes
<1>5. CASE StartUploadLight(r) \/ StartUploadDark(r) \/ StartRemoveLight(r) \/ StartRemoveDark(r)
    BY <1>4, <1>5 DEF StartUploadLight, StartUploadDark, StartRemoveLight, StartRemoveDark, Images
<1>6. CASE SaveImage(r)
    <2>1. DocumentTypes'
        BY <1>6 DEF SaveImage, DocumentTypes, RequestTypes, Minds
    <2> QED
        BY <1>6, <2>1, Ends, OverTypes DEF SaveImage
<1>7. CASE StartEdit(r)
    <2>1. PICK new \in Settings : Begin(r, "saveSettings", [area |-> "timeline", read |-> open, new |-> new])
        BY <1>7 DEF StartEdit
    <2>2. /\ pc'[r] = "saveSettings" /\ Own(r)
          /\ memory'[r] = [area |-> "timeline", read |-> open, new |-> new]
        BY <2>1, Begins
    <2>3. pc'[r] \in Stages /\ InArea(r)' /\ Minds(r)'
        BY <2>2 DEF InArea, Minds, Stages, CurrencyStages, ThemeStages, DocumentTypes
    <2>4. DocumentTypes'
        BY <1>7 DEF StartEdit, DocumentTypes
    <2> QED
        BY <2>2, <2>3, <2>4, OwnTypes
<1>8. CASE SaveSettings(r)
    <2>1. memory[r].read \in Settings /\ memory[r].new \in Settings
        BY <1>8 DEF SaveSettings, RequestTypes, Minds
    <2>2. open' \in Settings
        BY <1>8, <2>1 DEF SaveSettings, Changed, Settings, DocumentTypes
    <2>3. DocumentTypes'
        BY <1>8, <2>2 DEF SaveSettings, DocumentTypes
    <2> QED
        BY <1>8, <2>3, Ends, OverTypes DEF SaveSettings
<1>9. CASE Fail(r)
    <2>1. DocumentTypes'
        BY <1>9 DEF Fail, DocumentTypes
    <2> QED
        BY <1>9, <2>1, Fails, OverTypes
<1> QED
    BY <1>1, <1>2, <1>3, <1>5, <1>6, <1>7, <1>8, <1>9 DEF Act, StartPutGateway, StartPutMailer

\* The handlers that are a single call keep the types.
LEMMA SingleTypes == ASSUME ListTypes, Single PROVE ListTypes'
<1>1. DocumentTypes'
    <2> USE DEF ListTypes, DocumentTypes
    <2>1. ASSUME NEW p \in Plan, DeletePlan(p) PROVE DocumentTypes'
        BY <2>1 DEF DeletePlan
    <2>2. ASSUME NEW d \in Gateway \cup Mailer, DeleteProvider(d) PROVE DocumentTypes'
        <3>1. Nothing \in Documents
            BY DEF Nothing, Documents
        <3> QED
            BY <2>2, <3>1 DEF DeleteProvider
    <2>3. ASSUME NEW t \in Theme, CreateTheme(t) PROVE DocumentTypes'
        <3>1. PICK on \in BOOLEAN :
                 entry' = [entry EXCEPT ![t] = [there |-> TRUE, on |-> on, default |-> FALSE]]
            BY <2>3 DEF CreateTheme
        <3>2. [there |-> TRUE, on |-> on, default |-> FALSE] \in Documents
            BY DEF Documents
        <3> QED
            BY <2>3, <3>1, <3>2 DEF CreateTheme
    <2>4. ASSUME NEW t \in Theme, PatchTheme(t) PROVE DocumentTypes'
        <3>1. t \in Entry
            BY DEF Entry
        <3> QED
            BY <2>4, <3>1 DEF PatchTheme, Documents
    <2>5. ASSUME NEW o \in Override, DeleteOverride(o) PROVE DocumentTypes'
        BY <2>5 DEF DeleteOverride, Overrides, NoOverride
    <2> QED
        BY <2>1, <2>2, <2>3, <2>4, <2>5 DEF Single, DeleteGateway, DeleteMailer
<1>2. UNCHANGED <<pc, memory>>
    BY DEF Single, DeletePlan, DeleteGateway, DeleteMailer, DeleteProvider, CreateTheme, PatchTheme,
           DeleteOverride
<1> QED
    BY <1>1, <1>2 DEF ListTypes, RequestTypes, InArea, Minds

\* Every step keeps the types.
LEMMA TypesStep == ListTypes /\ [CatalogNext]_catalogVars => ListTypes'
<1> SUFFICES ASSUME ListTypes, [CatalogNext]_catalogVars PROVE ListTypes'
    OBVIOUS
<1>1. CASE UNCHANGED catalogVars
    BY <1>1 DEF catalogVars, ListTypes, DocumentTypes, RequestTypes, InArea, Minds
<1> QED
    BY <1>1, CurrencyTypes, ThemeTypes, OtherTypes, SingleTypes, Steps

\* The initial values have their types.
LEMMA TypesInit == CatalogInit => ListTypes
<1> SUFFICES ASSUME CatalogInit PROVE ListTypes
    OBVIOUS
<1>1. DocumentTypes
    BY DEF CatalogInit, DocumentTypes, Documents, Overrides, NoOverride, Settings
<1>2. ASSUME NEW r \in Request PROVE pc[r] = "idle" /\ memory[r] = Idle
    BY DEF CatalogInit
<1>3. \A r \in Request : InArea(r) /\ Minds(r)
    BY <1>2 DEF InArea, Minds, Idle, CurrencyStages, ThemeStages
<1>4. pc \in [Request -> Stages] /\ memory = [r \in Request |-> memory[r]]
    BY DEF CatalogInit, Stages
<1> QED
    BY <1>1, <1>3, <1>4 DEF ListTypes, RequestTypes

-----------------------------------------------------------------------------
(* One request at a time                                                   *)

\* Whoever moves moves alone, and marks an area it enters while somebody is there.
LEMMA Moves ==
    ASSUME ListTypes, NEW r \in Request, Act(r)
    PROVE  Own(r) /\ raced \subseteq raced' /\ (memory'[r] \in {memory[r], Idle} \/ Enters(r))
<1> DEFINE Moved == Own(r) /\ raced \subseteq raced' /\ (memory'[r] \in {memory[r], Idle} \/ Enters(r))
<1> USE DEF ListTypes
<1>1. ASSUME NEW stage, NEW known, Begin(r, stage, known) PROVE Moved
    BY <1>1, Begins
<1>2. ASSUME Over(r) PROVE Moved
    BY <1>2, Ends
<1>3. ASSUME NEW stage, Continue(r, stage) PROVE Moved
    BY <1>3, Goes
<1>4. ASSUME Fail(r) PROVE Moved
    BY <1>4, Fails
<1>5. ASSUME UNCHANGED <<pc, memory, raced>> PROVE Moved
    BY <1>5 DEF Own, RequestTypes
<1> SUFFICES Moved
    OBVIOUS
<1> HIDE DEF Moved
<1>6. CASE Currencies(r)
    <2>1. CASE StartCreateCurrency(r) \/ StartPatchCurrency(r)
        BY <1>1, <2>1 DEF StartCreateCurrency, StartPatchCurrency
    <2>2. CASE StartDeleteCurrency(r) \/ StartSavePlan(r)
        BY <1>1, <2>2 DEF StartDeleteCurrency, StartSavePlan
    <2>3. CASE SeedPrices(r) \/ CountEnabled(r) \/ SaveCurrency(r) \/ UnsetPrices(r)
        BY <1>2, <1>3, <2>3 DEF SeedPrices, CountEnabled, SaveCurrency, UnsetPrices
    <2>4. CASE CreatePlan(r) \/ UpdatePlan(r)
        BY <1>2, <2>4 DEF CreatePlan, UpdatePlan, SavePlan
    <2> QED
        BY <1>6, <2>1, <2>2, <2>3, <2>4 DEF Currencies
<1>7. CASE Themes(r)
    <2>1. CASE StartSetDefault(r) \/ StartDeleteTheme(r) \/ StartSetTheme(r) \/ StartAddOverride(r)
        BY <1>1, <2>1 DEF StartSetDefault, StartDeleteTheme, StartSetTheme, StartAddOverride
    <2>2. CASE SaveDefault(r) \/ CountUses(r) \/ FindOverlap(r)
        BY <1>2, <1>3, <2>2 DEF SaveDefault, CountUses, FindOverlap
    <2>3. CASE SaveTimelineTheme(r) \/ CreateOverride(r)
        BY <1>2, <2>3 DEF SaveTimelineTheme, CreateOverride
    <2> QED
        BY <1>7, <2>1, <2>2, <2>3 DEF Themes
<1>8. CASE StartPutGateway(r) \/ StartPutMailer(r)
    BY <1>1, <1>5, <1>8 DEF StartPutGateway, StartPutMailer, Upsert
<1>9. CASE ClearOthers(r) \/ DeleteEntry(r) \/ SaveImage(r) \/ SaveSettings(r)
    BY <1>2, <1>9 DEF ClearOthers, DeleteEntry, SaveImage, SaveSettings
<1>10. CASE StartUploadLight(r) \/ StartUploadDark(r) \/ StartRemoveLight(r) \/ StartRemoveDark(r)
    BY <1>1, <1>10 DEF StartUploadLight, StartUploadDark, StartRemoveLight, StartRemoveDark, ChangeImages
<1>11. CASE StartEdit(r)
    BY <1>1, <1>11 DEF StartEdit
<1> QED
    BY <1>4, <1>6, <1>7, <1>8, <1>9, <1>10, <1>11 DEF Act

\* The handlers that are a single call disturb no request in progress.
LEMMA SingleWaits == ASSUME Single PROVE UNCHANGED <<pc, memory, raced, torn>>
BY DEF Single, DeletePlan, DeleteGateway, DeleteMailer, DeleteProvider, CreateTheme, PatchTheme,
       DeleteOverride

\* An area in which requests have overlapped stays marked.
LEMMA RacedGrows == ASSUME ListTypes, [CatalogNext]_catalogVars PROVE raced \subseteq raced'
BY Moves, SingleWaits, Steps DEF catalogVars

\* Two requests are in one area only when it is marked.
LEMMA AloneStep == ListTypes /\ AloneInv /\ [CatalogNext]_catalogVars => AloneInv'
<1> SUFFICES ASSUME ListTypes, AloneInv, [CatalogNext]_catalogVars,
                    NEW a \in Areas \ raced', NEW r1 \in Request, NEW r2 \in Request,
                    memory'[r1].area = a, memory'[r2].area = a
             PROVE  r1 = r2
    BY DEF AloneInv
<1>1. a \in Areas \ raced
    BY RacedGrows
<1>2. CASE UNCHANGED <<pc, memory>>
    BY <1>1, <1>2 DEF AloneInv
<1>3. ASSUME NEW r \in Request, Act(r) PROVE r1 = r2
    <2>1. Own(r) /\ (memory'[r] \in {memory[r], Idle} \/ Enters(r))
        BY <1>3, Moves
    <2>2. \A q \in Request \ {r} : memory'[q] = memory[q]
        BY <2>1, OthersWait DEF ListTypes
    <2>3. Idle.area \notin Areas
        BY DEF Idle, Areas
    <2>4. CASE memory'[r] \in {memory[r], Idle}
        <3>1. \A q \in Request : memory'[q].area = a => memory[q].area = a
            BY <2>2, <2>3, <2>4
        <3> QED
            BY <1>1, <3>1 DEF AloneInv
    <2>5. CASE Enters(r)
        BY <1>1, <2>2, <2>5 DEF AloneInv, Enters
    <2> QED
        BY <2>1, <2>4, <2>5
<1> QED
    BY <1>2, <1>3, SingleWaits, Steps DEF catalogVars

-----------------------------------------------------------------------------
(* One default                                                             *)

\* The lists have no entry in common.
LEMMA Disjoint == ASSUME NEW l \in Lists, NEW k \in Lists, NEW d \in l, d \in k PROVE l = k
BY CatalogAssumption DEF Lists

\* An entry is in one list.
LEMMA InItsList == ASSUME NEW l \in Lists, NEW d \in l PROVE ListOf(d) = l
<1>1. ListOf(d) \in Lists /\ d \in ListOf(d)
    BY DEF ListOf
<1> QED
    BY <1>1, Disjoint

\* With no more defaults than before, and the request that moves still moving it if it did.
LEMMA NoMoreDefaults ==
    ASSUME ListTypes, NEW l \in Lists, OneOrMoving(l), Default(l)' \subseteq Default(l),
           NEW r \in Request, Own(r), Moving(r, l) => Moving(r, l)'
    PROVE  OneOrMoving(l)'
<1>1. CASE \A d, e \in Default(l) : d = e
    BY <1>1 DEF OneOrMoving
<1>2. ASSUME NEW q \in Request, Moving(q, l) PROVE Moving(q, l)'
    <2>1. CASE q # r
        BY <1>2, <2>1, OthersWait DEF ListTypes, Moving
    <2> QED
        BY <1>2, <2>1
<1> QED
    BY <1>1, <1>2 DEF OneOrMoving

\* Two defaults in a list are on the way to one: every step that makes a second
\* default leaves a request that is to clear the others, or the mark of its failure.
LEMMA DefaultStep == ListTypes /\ DefaultInv /\ [CatalogNext]_catalogVars => DefaultInv'
<1> SUFFICES ASSUME ListTypes, DefaultInv, [CatalogNext]_catalogVars,
                    NEW l \in Lists, l \notin torn'
             PROVE  OneOrMoving(l)'
    BY DEF DefaultInv, Lists
<1>e. l \subseteq Entry
    BY DEF Lists, Entry
<1>t. l \notin torn => OneOrMoving(l)
    BY DEF DefaultInv
<1>1. ASSUME entry' = entry, UNCHANGED <<pc, memory, torn>> PROVE OneOrMoving(l)'
    BY <1>1, <1>t DEF OneOrMoving, Default, There, Moving
<1>2. ASSUME NEW r \in Request, Act(r) PROVE OneOrMoving(l)'
    <2>o. Own(r)
        BY <1>2, Moves
    <2>q. CASE entry' = entry /\ torn' = torn /\ (Moving(r, l) => Moving(r, l)')
        BY <2>o, <2>q, <1>t, NoMoreDefaults DEF Default, There
    <2>1. CASE StartCreateCurrency(r)
        <3>1. PICK c \in Currency, default \in BOOLEAN, on \in BOOLEAN :
                 /\ entry' = [entry EXCEPT ![c] = [there |-> TRUE, on |-> on \/ default, default |-> default]]
                 /\ Begin(r, "seedPrices", [area |-> "currencies", entry |-> c, default |-> default])
            BY <2>1 DEF StartCreateCurrency
        <3>2. /\ pc[r] = "idle" /\ pc'[r] = "seedPrices"
              /\ memory'[r] = [area |-> "currencies", entry |-> c, default |-> default]
            BY <3>1, Begins DEF ListTypes
        <3>3. CASE default /\ c \in l
            BY <3>2, <3>3 DEF OneOrMoving, Moving
        <3>4. CASE ~default \/ c \notin l
            <4>1. Default(l)' \subseteq Default(l)
                BY <3>1, <3>4, <1>e DEF Default, There, ListTypes, DocumentTypes
            <4> QED
                BY <2>1, <2>o, <3>2, <4>1, <1>t, NoMoreDefaults DEF StartCreateCurrency, Moving
        <3> QED
            BY <3>3, <3>4
    <2>2. CASE SeedPrices(r)
        <3>1. Moving(r, l) => Moving(r, l)'
            BY <2>2, Goes DEF SeedPrices, Moving, ListTypes
        <3> QED
            BY <2>2, <2>q, <3>1 DEF SeedPrices
    <2>3. CASE SaveCurrency(r)
        <3> DEFINE c == memory[r].entry
        <3>1. ~Moving(r, l)
            BY <2>3 DEF SaveCurrency, Moving
        <3>2. CASE ~entry[c].there
            BY <2>3, <2>q, <3>1, <3>2 DEF SaveCurrency
        <3>3. CASE entry[c].there /\ memory[r].asks /\ c \in l
            BY <2>3, <3>3, Goes DEF SaveCurrency, OneOrMoving, Moving, ListTypes
        <3>4. CASE entry[c].there /\ (~memory[r].asks \/ c \notin l)
            <4>1. c \in Currency /\ (memory[r].default /\ ~memory[r].read.default => memory[r].asks)
                  /\ memory[r].default \in BOOLEAN /\ memory[r].read \in Documents
                BY <2>3 DEF SaveCurrency, ListTypes, RequestTypes, Minds, CurrencyStages
            <4>2. c \in Entry /\ entry \in [Entry -> Documents]
                BY <4>1 DEF Entry, ListTypes, DocumentTypes
            <4>3. \A e \in Entry \ {c} : entry'[e] = entry[e]
                BY <2>3, <3>4, <4>2 DEF SaveCurrency
            <4>4. ~memory[r].asks => (entry'[c].default => entry[c].default) /\ entry[c].there
                <5>1. entry'[c].default = IF memory[r].default = memory[r].read.default
                                          THEN entry[c].default ELSE memory[r].default
                    BY <2>3, <3>4, <4>2 DEF SaveCurrency, Documents
                <5> QED
                    BY <3>4, <4>1, <5>1 DEF Documents
            <4>5. Default(l)' \subseteq Default(l)
                BY <3>4, <4>3, <4>4, <1>e DEF Default, There
            <4> QED
                BY <2>3, <2>o, <3>1, <4>5, <1>t, NoMoreDefaults DEF SaveCurrency
        <3> QED
            BY <3>2, <3>3, <3>4
    <2>4. CASE StartPutGateway(r) \/ StartPutMailer(r)
        <3>1. PICK d \in Gateway \cup Mailer : Upsert(r, d)
            BY <2>4 DEF StartPutGateway, StartPutMailer
        <3>2. PICK on \in BOOLEAN, default \in BOOLEAN :
                 /\ entry' = [entry EXCEPT ![d] = [there |-> TRUE, on |-> on, default |-> default]]
                 /\ IF default THEN Begin(r, "clearOthers", [area |-> "providers", entry |-> d])
                    ELSE pc[r] = "idle" /\ UNCHANGED <<pc, memory, raced>>
            BY <3>1 DEF Upsert
        <3>3. pc[r] = "idle"
            BY <3>2, Begins DEF ListTypes
        <3>4. CASE default /\ d \in l
            <4>1. pc'[r] = "clearOthers" /\ memory'[r] = [area |-> "providers", entry |-> d]
                BY <3>2, <3>4, Begins DEF ListTypes
            <4> QED
                BY <3>4, <4>1 DEF OneOrMoving, Moving
        <3>5. CASE ~default \/ d \notin l
            <4>1. Default(l)' \subseteq Default(l)
                BY <3>2, <3>5, <1>e DEF Default, There, ListTypes, DocumentTypes
            <4> QED
                BY <2>o, <3>1, <3>3, <4>1, <1>t, NoMoreDefaults DEF Upsert, Moving
        <3> QED
            BY <3>4, <3>5
    <2>5. CASE ClearOthers(r)
        <3> DEFINE d == memory[r].entry
        <3>1. d \in Entry
            BY <2>5 DEF ClearOthers, ListTypes, RequestTypes, InArea, Entry
        <3>2. PICK k \in Lists : d \in k
            BY <3>1 DEF Entry, Lists
        <3>3. ListOf(d) = k
            BY <3>2, InItsList
        <3>4. entry' = [e \in Entry |-> IF e \in k \ {d} THEN [entry[e] EXCEPT !.default = FALSE] ELSE entry[e]]
            BY <2>5, <3>3 DEF ClearOthers
        <3>5. CASE k = l
            <4>1. \A e \in l \ {d} : ~entry'[e].default
                <5>1. \A x \in Documents : [x EXCEPT !.default = FALSE].default = FALSE
                    BY DEF Documents
                <5> QED
                    BY <3>4, <3>5, <5>1, <1>e DEF ListTypes, DocumentTypes
            <4> QED
                BY <4>1 DEF OneOrMoving, Default, There
        <3>6. CASE k # l
            <4>1. \A e \in l : entry'[e] = entry[e]
                BY <3>2, <3>4, <3>6, <1>e, Disjoint
            <4>2. Default(l)' = Default(l)
                BY <4>1 DEF Default, There
            <4>3. ~Moving(r, l)
                BY <2>5, <3>2, <3>6, Disjoint DEF ClearOthers, Moving
            <4>4. l \notin torn
                BY <2>5, <3>3, <3>6 DEF ClearOthers
            <4> QED
                BY <2>o, <4>2, <4>3, <4>4, <1>t, NoMoreDefaults
        <3> QED
            BY <3>5, <3>6
    <2>6. CASE DeleteEntry(r)
        <3>1. Default(l)' \subseteq Default(l)
            BY <2>6, <1>e DEF DeleteEntry, Default, There, Nothing, ListTypes, DocumentTypes
        <3> QED
            BY <2>6, <2>o, <3>1, <1>t, NoMoreDefaults DEF DeleteEntry, Moving
    <2>7. CASE SaveDefault(r)
        <3> DEFINE t == memory[r].entry
        <3>1. pc[r] = "saveDefault"
            BY <2>7 DEF SaveDefault
        <3>2. CASE entry' = entry
            BY <2>7, <2>q, <3>1, <3>2 DEF SaveDefault, Moving
        <3>3. CASE entry' # entry /\ t \in l
            <4>1. pc'[r] = "clearOthers" /\ memory'[r] = memory[r]
                BY <2>7, <3>3, Goes DEF SaveDefault, ListTypes
            <4> QED
                BY <3>3, <4>1 DEF OneOrMoving, Moving
        <3>4. CASE entry' # entry /\ t \notin l
            <4>1. \A e \in l : entry'[e] = entry[e]
                BY <2>7, <3>4, <1>e DEF SaveDefault, ListTypes, DocumentTypes
            <4>2. Default(l)' = Default(l)
                BY <4>1 DEF Default, There
            <4> QED
                BY <2>7, <2>o, <3>1, <4>2, <1>t, NoMoreDefaults DEF SaveDefault, Moving
        <3> QED
            BY <3>2, <3>3, <3>4
    <2>8. CASE Fail(r)
        <3>1. l \notin torn /\ ~Moving(r, l) /\ entry' = entry
            BY <2>8 DEF Fail
        <3> QED
            BY <2>o, <3>1, <1>t, NoMoreDefaults DEF Default, There
    <2>9. CASE StartPatchCurrency(r) \/ CountEnabled(r) \/ StartDeleteCurrency(r) \/ UnsetPrices(r)
               \/ StartSavePlan(r) \/ CreatePlan(r) \/ UpdatePlan(r)
        <3>1. ~Moving(r, l)
            BY <2>9 DEF StartPatchCurrency, CountEnabled, StartDeleteCurrency, UnsetPrices,
                        StartSavePlan, CreatePlan, UpdatePlan, Begin, Moving
        <3> QED
            BY <2>9, <2>q, <3>1
            DEF StartPatchCurrency, CountEnabled, StartDeleteCurrency, UnsetPrices,
                StartSavePlan, CreatePlan, UpdatePlan, SavePlan
    <2>10. CASE StartSetDefault(r) \/ StartDeleteTheme(r) \/ CountUses(r) \/ StartSetTheme(r)
                \/ SaveTimelineTheme(r) \/ StartAddOverride(r) \/ FindOverlap(r) \/ CreateOverride(r)
        <3>1. ~Moving(r, l)
            BY <2>10 DEF StartSetDefault, StartDeleteTheme, CountUses, StartSetTheme,
                         SaveTimelineTheme, StartAddOverride, FindOverlap, CreateOverride, Begin, Moving
        <3> QED
            BY <2>10, <2>q, <3>1
            DEF StartSetDefault, StartDeleteTheme, CountUses, StartSetTheme,
                SaveTimelineTheme, StartAddOverride, FindOverlap, CreateOverride
    <2>11. CASE StartUploadLight(r) \/ StartUploadDark(r) \/ StartRemoveLight(r) \/ StartRemoveDark(r)
                \/ SaveImage(r) \/ StartEdit(r) \/ SaveSettings(r)
        <3>1. ~Moving(r, l)
            BY <2>11 DEF StartUploadLight, StartUploadDark, StartRemoveLight, StartRemoveDark,
                         ChangeImages, SaveImage, StartEdit, SaveSettings, Begin, Moving
        <3> QED
            BY <2>11, <2>q, <3>1
            DEF StartUploadLight, StartUploadDark, StartRemoveLight, StartRemoveDark,
                ChangeImages, SaveImage, StartEdit, SaveSettings
    <2> QED
        BY <1>2, <2>1, <2>2, <2>3, <2>4, <2>5, <2>6, <2>7, <2>8, <2>9, <2>10, <2>11
        DEF Act, Currencies, Themes
<1>3. CASE Single
    <2>1. UNCHANGED <<pc, memory, torn>>
        BY <1>3, SingleWaits
    <2>2. Default(l)' \subseteq Default(l)
        <3>1. ASSUME NEW d \in Gateway \cup Mailer, DeleteProvider(d) PROVE Default(l)' \subseteq Default(l)
            BY <3>1, <1>e DEF DeleteProvider, Default, There, Nothing, ListTypes, DocumentTypes
        <3>2. ASSUME NEW t \in Theme, CreateTheme(t) PROVE Default(l)' \subseteq Default(l)
            BY <3>2, <1>e DEF CreateTheme, Default, There, ListTypes, DocumentTypes
        <3>3. ASSUME NEW t \in Theme, PatchTheme(t) PROVE Default(l)' \subseteq Default(l)
            <4>1. \A e \in Entry : entry'[e].there = entry[e].there /\ entry'[e].default = entry[e].default
                BY <3>3 DEF PatchTheme, ListTypes, DocumentTypes, Documents
            <4> QED
                BY <4>1, <1>e DEF Default, There
        <3>4. ASSUME entry' = entry PROVE Default(l)' \subseteq Default(l)
            BY <3>4 DEF Default, There
        <3> QED
            BY <1>3, <3>1, <3>2, <3>3, <3>4
            DEF Single, DeletePlan, DeleteGateway, DeleteMailer, DeleteOverride
    <2> QED
        BY <2>1, <2>2, <1>t DEF OneOrMoving, Moving
<1> QED
    BY <1>1, <1>2, <1>3, Steps DEF catalogVars

-----------------------------------------------------------------------------
(* What is true while the requests of an area do not overlap               *)

\* The area a request is in before and after a step of each handler.
LEMMA AreasOf ==
    ASSUME ListTypes, NEW r \in Request
    PROVE  /\ Currencies(r) => /\ memory[r].area \in {"none", "currencies"}
                               /\ memory'[r].area \in {"none", "currencies"}
           /\ Themes(r) => /\ memory[r].area \in {"none", "themes"}
                           /\ memory'[r].area \in {"none", "themes"}
           /\ StartPutGateway(r) \/ StartPutMailer(r) =>
                 memory[r].area = "none" /\ memory'[r].area \in {"none", "providers"}
           /\ ClearOthers(r) \/ DeleteEntry(r) \/ Fail(r) => memory'[r].area = "none"
           /\ StartUploadLight(r) \/ StartUploadDark(r) \/ StartRemoveLight(r) \/ StartRemoveDark(r) =>
                 memory[r].area = "none" /\ memory'[r].area = "image"
           /\ SaveImage(r) => memory[r].area = "image" /\ memory'[r].area = "none"
           /\ StartEdit(r) => memory[r].area = "none" /\ memory'[r].area = "timeline"
           /\ SaveSettings(r) => memory[r].area = "timeline" /\ memory'[r].area = "none"
<1> USE DEF ListTypes
<1>0. Idle.area = "none" /\ InArea(r)
    BY DEF Idle, RequestTypes
<1>1. ASSUME Currencies(r)
      PROVE  memory[r].area \in {"none", "currencies"} /\ memory'[r].area \in {"none", "currencies"}
    <2>0. ASSUME NEW stage, NEW known, Begin(r, stage, known) PROVE memory'[r].area = known.area
        BY <2>0, Begins
    <2>1. pc[r] = "idle" \/ pc[r] \in CurrencyStages
        BY <1>1 DEF Currencies, StartCreateCurrency, StartPatchCurrency, StartDeleteCurrency, StartSavePlan,
                    Begin, SeedPrices, CountEnabled, SaveCurrency, UnsetPrices, CreatePlan, UpdatePlan,
                    CurrencyStages
    <2>2. memory[r].area \in {"none", "currencies"}
        BY <1>0, <2>1 DEF InArea
    <2>3. CASE StartCreateCurrency(r) \/ StartPatchCurrency(r)
        <3>1. memory'[r].area = "currencies"
            <4>1. CASE StartCreateCurrency(r)
                <5>1. PICK c, default :
                         Begin(r, "seedPrices", [area |-> "currencies", entry |-> c, default |-> default])
                    BY <4>1 DEF StartCreateCurrency
                <5> QED
                    BY <5>1, <2>0
            <4>2. CASE StartPatchCurrency(r)
                <5>1. PICK c, on, default, asks :
                         Begin(r, IF entry[c].on /\ ~on THEN "countForPatch" ELSE "saveCurrency",
                               [area |-> "currencies", entry |-> c, read |-> entry[c],
                                on |-> on, default |-> default, asks |-> asks])
                    BY <4>2 DEF StartPatchCurrency
                <5> QED
                    BY <5>1, <2>0
            <4> QED
                BY <2>3, <4>1, <4>2
        <3> QED
            BY <2>2, <3>1
    <2>4. CASE StartDeleteCurrency(r) \/ StartSavePlan(r)
        <3>1. memory'[r].area = "currencies"
            <4>1. CASE StartDeleteCurrency(r)
                <5>1. PICK c : Begin(r, IF entry[c].on THEN "countForDelete" ELSE "unsetPrices",
                                     [area |-> "currencies", entry |-> c])
                    BY <4>1 DEF StartDeleteCurrency
                <5> QED
                    BY <5>1, <2>0
            <4>2. CASE StartSavePlan(r)
                <5>1. PICK p : Begin(r, IF plan[p] = {} THEN "createPlan" ELSE "updatePlan",
                                     [area |-> "currencies", plan |-> p, prices |-> There(Currency)])
                    BY <4>2 DEF StartSavePlan
                <5> QED
                    BY <5>1, <2>0
            <4> QED
                BY <2>4, <4>1, <4>2
        <3> QED
            BY <2>2, <3>1
    <2>5. CASE SeedPrices(r) \/ CountEnabled(r) \/ SaveCurrency(r) \/ UnsetPrices(r)
        BY <1>0, <2>2, <2>5, Ends, Goes DEF SeedPrices, CountEnabled, SaveCurrency, UnsetPrices
    <2>6. CASE CreatePlan(r) \/ UpdatePlan(r)
        BY <1>0, <2>2, <2>6, Ends DEF CreatePlan, UpdatePlan, SavePlan
    <2> QED
        BY <1>1, <2>3, <2>4, <2>5, <2>6 DEF Currencies
<1>2. ASSUME Themes(r)
      PROVE  memory[r].area \in {"none", "themes"} /\ memory'[r].area \in {"none", "themes"}
    <2>0. ASSUME NEW stage, NEW known, Begin(r, stage, known) PROVE memory'[r].area = known.area
        BY <2>0, Begins
    <2>1. pc[r] = "idle" \/ pc[r] \in ThemeStages
        BY <1>2 DEF Themes, StartSetDefault, StartDeleteTheme, StartSetTheme, StartAddOverride, Begin,
                    SaveDefault, CountUses, SaveTimelineTheme, FindOverlap, CreateOverride, ThemeStages
    <2>2. memory[r].area \in {"none", "themes"}
        BY <1>0, <2>1 DEF InArea
    <2>3. CASE StartSetDefault(r) \/ StartDeleteTheme(r) \/ StartSetTheme(r) \/ StartAddOverride(r)
        <3>1. memory'[r].area = "themes"
            <4>1. CASE StartSetDefault(r)
                <5>1. PICK t : Begin(r, "saveDefault", [area |-> "themes", entry |-> t, read |-> entry[t]])
                    BY <4>1 DEF StartSetDefault
                <5> QED
                    BY <5>1, <2>0
            <4>2. CASE StartDeleteTheme(r) \/ StartSetTheme(r)
                <5>1. PICK stage, t : Begin(r, stage, [area |-> "themes", entry |-> t])
                    BY <4>2 DEF StartDeleteTheme, StartSetTheme
                <5> QED
                    BY <5>1, <2>0
            <4>3. CASE StartAddOverride(r)
                <5>1. PICK t, days : Begin(r, "findOverlap", [area |-> "themes", entry |-> t, days |-> days])
                    BY <4>3 DEF StartAddOverride
                <5> QED
                    BY <5>1, <2>0
            <4> QED
                BY <2>3, <4>1, <4>2, <4>3
        <3> QED
            BY <2>2, <3>1
    <2>4. CASE SaveDefault(r) \/ CountUses(r) \/ FindOverlap(r)
        BY <1>0, <2>2, <2>4, Ends, Goes DEF SaveDefault, CountUses, FindOverlap
    <2>5. CASE SaveTimelineTheme(r) \/ CreateOverride(r)
        BY <1>0, <2>2, <2>5, Ends DEF SaveTimelineTheme, CreateOverride
    <2> QED
        BY <1>2, <2>3, <2>4, <2>5 DEF Themes
<1>3. ASSUME StartPutGateway(r) \/ StartPutMailer(r)
      PROVE  memory[r].area = "none" /\ memory'[r].area \in {"none", "providers"}
    <2>1. PICK d : Upsert(r, d)
        BY <1>3 DEF StartPutGateway, StartPutMailer
    <2>2. CASE Begin(r, "clearOthers", [area |-> "providers", entry |-> d])
        BY <1>0, <2>2, Begins DEF InArea
    <2>3. CASE pc[r] = "idle" /\ UNCHANGED <<pc, memory, raced>>
        BY <1>0, <2>3 DEF InArea
    <2> QED
        BY <2>1, <2>2, <2>3 DEF Upsert
<1>4. ClearOthers(r) \/ DeleteEntry(r) \/ Fail(r) => memory'[r].area = "none"
    BY <1>0, Ends, Fails DEF ClearOthers, DeleteEntry
<1>5. StartUploadLight(r) \/ StartUploadDark(r) \/ StartRemoveLight(r) \/ StartRemoveDark(r) =>
         memory[r].area = "none" /\ memory'[r].area = "image"
    <2>1. ASSUME NEW gains, NEW loses, ChangeImages(r, gains, loses)
          PROVE  memory[r].area = "none" /\ memory'[r].area = "image"
        BY <1>0, <2>1, Begins DEF ChangeImages, InArea
    <2> QED
        BY <2>1 DEF StartUploadLight, StartUploadDark, StartRemoveLight, StartRemoveDark
<1>6. SaveImage(r) => memory[r].area = "image" /\ memory'[r].area = "none"
    BY <1>0, Ends DEF SaveImage, InArea
<1>7. StartEdit(r) => memory[r].area = "none" /\ memory'[r].area = "timeline"
    BY <1>0, Begins DEF StartEdit, InArea
<1>8. SaveSettings(r) => memory[r].area = "timeline" /\ memory'[r].area = "none"
    BY <1>0, Ends DEF SaveSettings, InArea
<1> QED
    BY <1>1, <1>2, <1>3, <1>4, <1>5, <1>6, <1>7, <1>8

\* Whoever moves in an area where nothing overlaps is there on its own.
LEMMA OnItsOwn ==
    ASSUME ListTypes, AloneInv, AloneInv', NEW r \in Request, Own(r), raced \subseteq raced',
           NEW a \in Areas \ raced', memory[r].area = a \/ memory'[r].area = a,
           NEW q \in Request \ {r}
    PROVE  memory[q].area # a /\ memory'[q].area # a /\ memory'[q] = memory[q] /\ pc'[q] = pc[q]
<1>1. memory'[q] = memory[q] /\ pc'[q] = pc[q]
    BY OthersWait DEF ListTypes
<1> QED
    BY <1>1 DEF AloneInv

-----------------------------------------------------------------------------
(* Currencies and prices                                                   *)

\* The prices while nobody but request r is in the area.
PricesFor(r) ==
    \A p \in Plan : plan[p] # {} =>
        IF memory[r].area = "currencies" /\ pc[r] \in {"seedPrices", "deleteEntry"}
        THEN /\ plan[p] \cup {memory[r].entry} = {"plan"} \cup There(Currency)
             /\ pc[r] = "deleteEntry" => memory[r].entry \notin plan[p]
        ELSE plan[p] = {"plan"} \cup There(Currency)

\* The one request about currencies decides what the prices are now.
LEMMA PricesAlone ==
    ASSUME PricesInv, NEW r \in Request, \A q \in Request \ {r} : memory[q].area # "currencies"
    PROVE  PricesFor(r)
BY DEF PricesInv, PricesFor

\* With nobody else at the currencies, what the one request knows is all there is.
LEMMA CurrencyOwn ==
    ASSUME NEW r \in Request, \A q \in Request \ {r} : memory'[q].area # "currencies",
           Enabled(Currency)' # {}, memory'[r].area = "currencies" => CurrencyKnows(r)', PricesFor(r)'
    PROVE  CurrenciesAgree'
<1>1. PricesInv'
    BY DEF PricesInv, PricesFor
<1>2. \A q \in Request : memory'[q].area = "currencies" => CurrencyKnows(q)'
    OBVIOUS
<1> QED
    BY <1>1, <1>2 DEF CurrenciesAgree

\* What does not touch the currencies, the plans and their requests.
LEMMA CurrencyFrame ==
    ASSUME ListTypes, CurrenciesAgree, plan' = plan, \A c \in Currency : entry'[c] = entry[c],
           \A q \in Request : memory[q].area = "currencies" \/ memory'[q].area = "currencies" =>
                                 memory'[q] = memory[q] /\ pc'[q] = pc[q]
    PROVE  CurrenciesAgree'
<1>1. There(Currency)' = There(Currency) /\ Enabled(Currency)' = Enabled(Currency)
    BY DEF There, Enabled
<1>2. ASSUME NEW q \in Request, memory'[q].area = "currencies" PROVE CurrencyKnows(q)'
    <2>1. memory'[q] = memory[q] /\ pc'[q] = pc[q] /\ CurrencyKnows(q)
        BY <1>2 DEF CurrenciesAgree
    <2> QED
        BY <1>1, <2>1 DEF CurrencyKnows, ListTypes, RequestTypes, Minds, CurrencyStages
<1>3. PricesInv'
    BY <1>1 DEF CurrenciesAgree, PricesInv
<1> QED
    BY <1>1, <1>2, <1>3 DEF CurrenciesAgree

\* Where there are more than one, there is another.
LEMMA Another ==
    ASSUME NEW S, ~(Cardinality(S) <= 1), NEW c
    PROVE  S \ {c} # {}
<1> SUFFICES ASSUME S \subseteq {c} PROVE Cardinality(S) <= 1
    OBVIOUS
<1>1. S = {} \/ S = {c}
    OBVIOUS
<1> QED
    BY <1>1, FS_EmptySet, FS_Singleton

\* A request that is alone with the currencies leaves an enabled one, knows what it
\* relies on, and leaves the prices as its stage says.
LEMMA CurrencyMoves ==
    ASSUME ListTypes, CurrenciesAgree, NEW r \in Request, Currencies(r), PricesFor(r),
           memory[r].area = "currencies" => CurrencyKnows(r)
    PROVE  Enabled(Currency)' # {} /\ (memory'[r].area = "currencies" => CurrencyKnows(r)') /\ PricesFor(r)'
<1> DEFINE Fine == /\ Enabled(Currency)' # {}
                   /\ memory'[r].area = "currencies" => CurrencyKnows(r)'
                   /\ PricesFor(r)'
<1> SUFFICES Fine
    OBVIOUS
<1>c. Currency \subseteq Entry /\ entry \in [Entry -> Documents]
    BY DEF Entry, ListTypes, DocumentTypes
<1>p. "plan" \notin Currency
    BY CatalogAssumption
<1>k. pc[r] \in CurrencyStages => /\ memory[r].area = "currencies" /\ CurrencyKnows(r)
                                  /\ Minds(r)
    BY DEF ListTypes, RequestTypes, InArea
<1>i. pc[r] = "idle" => PricesFor(r) /\ memory[r].area = "none"
    BY DEF ListTypes, RequestTypes, InArea
<1>e. Enabled(Currency) # {}
    BY DEF CurrenciesAgree
<1>1. CASE StartCreateCurrency(r)
    <2>1. PICK c \in Currency, default \in BOOLEAN, on \in BOOLEAN :
             /\ ~entry[c].there
             /\ entry' = [entry EXCEPT ![c] = [there |-> TRUE, on |-> on \/ default, default |-> default]]
             /\ Begin(r, "seedPrices", [area |-> "currencies", entry |-> c, default |-> default])
        BY <1>1 DEF StartCreateCurrency
    <2>2. /\ pc[r] = "idle" /\ pc'[r] = "seedPrices"
          /\ memory'[r] = [area |-> "currencies", entry |-> c, default |-> default]
        BY <2>1, Begins DEF ListTypes
    <2>3. There(Currency)' = There(Currency) \cup {c} /\ c \notin There(Currency)
        BY <2>1, <1>c DEF There
    <2>4. Enabled(Currency) \subseteq Enabled(Currency)' /\ entry'[c].there
        BY <2>1, <1>c DEF Enabled, There
    <2>5. CurrencyKnows(r)'
        BY <2>2, <2>4 DEF CurrencyKnows, CurrencyStages
    <2>6. PricesFor(r)'
        <3>1. plan' = plan
            BY <1>1 DEF StartCreateCurrency
        <3> QED
            BY <1>i, <2>2, <2>3, <3>1 DEF PricesFor
    <2> QED
        BY <1>e, <2>4, <2>5, <2>6
<1>2. CASE SeedPrices(r)
    <2>1. pc[r] = "seedPrices" /\ memory[r].area = "currencies" /\ entry' = entry
        BY <1>2, <1>k DEF SeedPrices, CurrencyStages
    <2>2. There(Currency)' = There(Currency) /\ Enabled(Currency)' = Enabled(Currency)
        BY <2>1 DEF There, Enabled
    <2>3. pc'[r] \in {"idle", "clearOthers"}
        BY <1>2, Ends, Goes DEF SeedPrices, ListTypes
    <2>4. CurrencyKnows(r)'
        BY <2>3 DEF CurrencyKnows, CurrencyStages
    <2>5. PricesFor(r)'
        <3>1. plan' = [p \in Plan |-> Priced(p, memory[r].entry)]
            BY <1>2 DEF SeedPrices
        <3> QED
            BY <2>1, <2>2, <2>3, <3>1 DEF PricesFor, Priced
    <2> QED
        BY <1>e, <2>2, <2>4, <2>5
<1>3. CASE StartPatchCurrency(r)
    <2>1. PICK c \in There(Currency), on \in BOOLEAN, default \in BOOLEAN, asks \in BOOLEAN :
             Begin(r, IF entry[c].on /\ ~on THEN "countForPatch" ELSE "saveCurrency",
                   [area |-> "currencies", entry |-> c, read |-> entry[c],
                    on |-> on, default |-> default, asks |-> asks])
        BY <1>3 DEF StartPatchCurrency
    <2>2. /\ pc[r] = "idle" /\ pc'[r] = IF entry[c].on /\ ~on THEN "countForPatch" ELSE "saveCurrency"
          /\ memory'[r] = [area |-> "currencies", entry |-> c, read |-> entry[c],
                           on |-> on, default |-> default, asks |-> asks]
        BY <2>1, Begins DEF ListTypes
    <2>3. entry' = entry /\ plan' = plan /\ entry[c].there
        BY <1>3 DEF StartPatchCurrency, There
    <2>4. There(Currency)' = There(Currency) /\ Enabled(Currency)' = Enabled(Currency)
        BY <2>3 DEF There, Enabled
    <2>5. CurrencyKnows(r)'
        BY <2>2, <2>3 DEF CurrencyKnows, CurrencyStages
    <2>6. PricesFor(r)'
        BY <1>i, <2>2, <2>3, <2>4 DEF PricesFor
    <2> QED
        BY <1>e, <2>4, <2>5, <2>6
<1>4. CASE CountEnabled(r)
    <2>1. pc[r] \in {"countForPatch", "countForDelete"} /\ entry' = entry /\ plan' = plan
        BY <1>4 DEF CountEnabled
    <2>2. There(Currency)' = There(Currency) /\ Enabled(Currency)' = Enabled(Currency)
        BY <2>1 DEF There, Enabled
    <2>3. pc'[r] \in {"idle", "saveCurrency", "unsetPrices"}
        BY <1>4, <2>1, Ends, Goes DEF CountEnabled, ListTypes
    <2>4. PricesFor(r)'
        BY <2>1, <2>2, <2>3 DEF PricesFor
    <2>5. CurrencyKnows(r)'
        <3>1. CASE pc'[r] = "idle"
            BY <3>1 DEF CurrencyKnows, CurrencyStages
        <3>2. CASE pc'[r] # "idle"
            <4>1. /\ ~(Cardinality(Enabled(Currency)) <= 1)
                  /\ Continue(r, IF pc[r] = "countForPatch" THEN "saveCurrency" ELSE "unsetPrices")
                BY <1>4, <3>2, Ends DEF CountEnabled, ListTypes
            <4>2. /\ pc'[r] = IF pc[r] = "countForPatch" THEN "saveCurrency" ELSE "unsetPrices"
                  /\ memory'[r] = memory[r]
                BY <4>1, Goes DEF ListTypes
            <4>3. Enabled(Currency)' \ {memory[r].entry} # {}
                BY <2>2, <4>1, Another
            <4>4. CurrencyKnows(r)
                BY <1>k, <2>1 DEF CurrencyStages
            <4> QED
                BY <2>1, <4>2, <4>3, <4>4 DEF CurrencyKnows, CurrencyStages
        <3> QED
            BY <3>1, <3>2
    <2> QED
        BY <1>e, <2>2, <2>4, <2>5
<1>5. CASE SaveCurrency(r)
    <2> DEFINE k == memory[r]
               c == k.entry
    <2>1. pc[r] = "saveCurrency" /\ plan' = plan
        BY <1>5 DEF SaveCurrency
    <2>2. /\ c \in Currency /\ k.read = entry[c] /\ k.on \in BOOLEAN /\ k.default \in BOOLEAN
          /\ entry[c].there /\ (entry[c].on /\ ~k.on => Enabled(Currency) \ {c} # {})
        BY <2>1, <1>k DEF CurrencyStages, CurrencyKnows, Minds
    <2>3. entry' = [entry EXCEPT ![c].on = IF k.on = k.read.on THEN @ ELSE k.on,
                                 ![c].default = IF k.default = k.read.default THEN @ ELSE k.default]
        BY <1>5, <2>2 DEF SaveCurrency
    <2>4. /\ \A e \in Entry \ {c} : entry'[e] = entry[e]
          /\ entry'[c].there = entry[c].there /\ entry'[c].on = k.on
        BY <2>2, <2>3, <1>c DEF Documents
    <2>5. There(Currency)' = There(Currency)
        BY <2>4, <1>c DEF There
    <2>6. Enabled(Currency)' # {}
        <3>1. CASE k.on
            BY <2>2, <2>4, <3>1 DEF Enabled, There
        <3>2. CASE ~k.on
            <4>1. PICK d \in Enabled(Currency) : d # c
                BY <1>e, <2>2, <3>2 DEF Enabled
            <4> QED
                BY <4>1, <2>4, <1>c DEF Enabled, There
        <3> QED
            BY <3>1, <3>2
    <2>7. pc'[r] \in {"idle", "clearOthers"}
        BY <1>5, Ends, Goes DEF SaveCurrency, ListTypes
    <2>8. CurrencyKnows(r)'
        BY <2>7 DEF CurrencyKnows, CurrencyStages
    <2>9. PricesFor(r)'
        BY <2>1, <2>5, <2>7 DEF PricesFor
    <2> QED
        BY <2>6, <2>8, <2>9
<1>6. CASE StartDeleteCurrency(r)
    <2>1. PICK c \in There(Currency) \ Default(Currency) :
             Begin(r, IF entry[c].on THEN "countForDelete" ELSE "unsetPrices",
                   [area |-> "currencies", entry |-> c])
        BY <1>6 DEF StartDeleteCurrency
    <2>2. /\ pc[r] = "idle" /\ pc'[r] = IF entry[c].on THEN "countForDelete" ELSE "unsetPrices"
          /\ memory'[r] = [area |-> "currencies", entry |-> c]
        BY <2>1, Begins DEF ListTypes
    <2>3. entry' = entry /\ plan' = plan /\ entry[c].there
        BY <1>6 DEF StartDeleteCurrency, There
    <2>4. There(Currency)' = There(Currency) /\ Enabled(Currency)' = Enabled(Currency)
        BY <2>3 DEF There, Enabled
    <2>5. ~entry[c].on => Enabled(Currency) \ {c} # {}
        BY <1>e DEF Enabled
    <2>6. CurrencyKnows(r)'
        BY <2>2, <2>3, <2>4, <2>5 DEF CurrencyKnows, CurrencyStages
    <2>7. PricesFor(r)'
        BY <1>i, <2>2, <2>3, <2>4 DEF PricesFor
    <2> QED
        BY <1>e, <2>4, <2>6, <2>7
<1>7. CASE UnsetPrices(r)
    <2> DEFINE c == memory[r].entry
    <2>1. pc[r] = "unsetPrices" /\ entry' = entry /\ plan' = [p \in Plan |-> plan[p] \ {c}]
        BY <1>7 DEF UnsetPrices
    <2>2. There(Currency)' = There(Currency) /\ Enabled(Currency)' = Enabled(Currency)
        BY <2>1 DEF There, Enabled
    <2>3. pc'[r] = "deleteEntry" /\ memory'[r] = memory[r]
        BY <1>7, Goes DEF UnsetPrices, ListTypes
    <2>4. c \in There(Currency) /\ Enabled(Currency) \ {c} # {} /\ memory[r].area = "currencies"
        BY <1>k, <2>1 DEF CurrencyStages, CurrencyKnows, Minds, There
    <2>5. CurrencyKnows(r)'
        BY <2>2, <2>3, <2>4 DEF CurrencyKnows, CurrencyStages
    <2>6. PricesFor(r)'
        BY <2>1, <2>2, <2>3, <2>4 DEF PricesFor
    <2> QED
        BY <1>e, <2>2, <2>5, <2>6
<1>8. CASE StartSavePlan(r)
    <2>1. PICK p \in Plan :
             Begin(r, IF plan[p] = {} THEN "createPlan" ELSE "updatePlan",
                   [area |-> "currencies", plan |-> p, prices |-> There(Currency)])
        BY <1>8 DEF StartSavePlan
    <2>2. /\ pc[r] = "idle" /\ pc'[r] \in {"createPlan", "updatePlan"}
          /\ memory'[r] = [area |-> "currencies", plan |-> p, prices |-> There(Currency)]
        BY <2>1, Begins DEF ListTypes
    <2>3. entry' = entry /\ plan' = plan
        BY <1>8 DEF StartSavePlan
    <2>4. There(Currency)' = There(Currency) /\ Enabled(Currency)' = Enabled(Currency)
        BY <2>3 DEF There, Enabled
    <2>5. CurrencyKnows(r)'
        BY <2>2, <2>4 DEF CurrencyKnows, CurrencyStages
    <2>6. PricesFor(r)'
        BY <1>i, <2>2, <2>3, <2>4 DEF PricesFor
    <2> QED
        BY <1>e, <2>4, <2>5, <2>6
<1>9. CASE CreatePlan(r) \/ UpdatePlan(r)
    <2>1. PICK may \in BOOLEAN : SavePlan(r, may)
        BY <1>9 DEF CreatePlan, UpdatePlan
    <2>2. pc[r] \in {"createPlan", "updatePlan"}
        BY <1>9 DEF CreatePlan, UpdatePlan
    <2>3. memory[r].prices = There(Currency)
        BY <1>k, <2>2 DEF CurrencyStages, CurrencyKnows
    <2>4. entry' = entry /\ pc'[r] = "idle"
        BY <2>1, Ends DEF SavePlan, ListTypes
    <2>5. There(Currency)' = There(Currency) /\ Enabled(Currency)' = Enabled(Currency)
        BY <2>4 DEF There, Enabled
    <2>6. CurrencyKnows(r)'
        BY <2>4 DEF CurrencyKnows, CurrencyStages
    <2>7. PricesFor(r)'
        <3>1. \A p \in Plan : plan'[p] = plan[p] \/ plan'[p] = {"plan"} \cup There(Currency)
            BY <2>1, <2>3 DEF SavePlan, ListTypes, DocumentTypes
        <3> QED
            BY <2>2, <2>4, <2>5, <3>1 DEF PricesFor
    <2> QED
        BY <1>e, <2>5, <2>6, <2>7
<1> QED
    BY <1>1, <1>2, <1>3, <1>4, <1>5, <1>6, <1>7, <1>8, <1>9 DEF Currencies

\* While requests about currencies do not overlap, every step keeps an enabled
\* currency and the prices in line.
LEMMA CurrencyStep ==
    ListTypes /\ AloneInv /\ CurrencyInv /\ [CatalogNext]_catalogVars /\ AloneInv' => CurrencyInv'
<1> SUFFICES ASSUME ListTypes, AloneInv, CurrencyInv, [CatalogNext]_catalogVars, AloneInv',
                    "currencies" \notin raced'
             PROVE  CurrenciesAgree'
    BY DEF CurrencyInv
<1>0. raced \subseteq raced' /\ CurrenciesAgree /\ "currencies" \in Areas
    BY RacedGrows DEF CurrencyInv, Areas
<1>1. CASE UNCHANGED catalogVars
    BY <1>0, <1>1, CurrencyFrame DEF catalogVars
<1>2. CASE Single
    <2>1. UNCHANGED <<pc, memory>>
        BY <1>2, SingleWaits
    <2>2. CASE \E p \in Plan : DeletePlan(p)
        <3>1. PICK p \in Plan : DeletePlan(p)
            BY <2>2
        <3>2. entry' = entry /\ \A q \in Plan : plan'[q] = plan[q] \/ plan'[q] = {}
            BY <3>1 DEF DeletePlan, ListTypes, DocumentTypes
        <3>3. There(Currency)' = There(Currency) /\ Enabled(Currency)' = Enabled(Currency)
            BY <3>2 DEF There, Enabled
        <3>4. \A q \in Request : CurrencyKnows(q)' = CurrencyKnows(q)
            BY <2>1, <3>2, <3>3 DEF CurrencyKnows
        <3>5. PricesInv'
            BY <1>0, <2>1, <3>2, <3>3 DEF CurrenciesAgree, PricesInv
        <3> QED
            BY <1>0, <2>1, <3>3, <3>4, <3>5 DEF CurrenciesAgree
    <2>3. CASE ~\E p \in Plan : DeletePlan(p)
        <3>1. plan' = plan
            BY <1>2, <2>3 DEF Single, DeleteGateway, DeleteMailer, DeleteProvider, CreateTheme, PatchTheme,
                              DeleteOverride
        <3>2. ASSUME NEW c \in Currency PROVE entry'[c] = entry[c]
            <4>1. c \notin Theme /\ c \notin Gateway /\ c \notin Mailer /\ c \in Entry
                BY CatalogAssumption DEF Entry
            <4> QED
                BY <1>2, <2>3, <4>1
                DEF Single, DeleteGateway, DeleteMailer, DeleteProvider, CreateTheme, PatchTheme,
                    DeleteOverride, ListTypes, DocumentTypes
        <3> QED
            BY <1>0, <2>1, <3>1, <3>2, CurrencyFrame
    <2> QED
        BY <2>2, <2>3
<1>3. ASSUME NEW r \in Request, Act(r) PROVE CurrenciesAgree'
    <2>o. Own(r) /\ raced \subseteq raced' /\ \A q \in Request \ {r} : memory'[q] = memory[q] /\ pc'[q] = pc[q]
        BY <1>3, Moves, OthersWait DEF ListTypes
    <2>1. ASSUME memory[r].area # "currencies", memory'[r].area # "currencies",
                 plan' = plan, \A c \in Currency : entry'[c] = entry[c]
          PROVE  CurrenciesAgree'
        BY <1>0, <2>1, <2>o, CurrencyFrame
    <2>2. ASSUME memory[r].area = "currencies" \/ memory'[r].area = "currencies"
          PROVE  /\ \A q \in Request \ {r} : memory[q].area # "currencies" /\ memory'[q].area # "currencies"
                 /\ PricesFor(r)
        <3>1. \A q \in Request \ {r} : memory[q].area # "currencies" /\ memory'[q].area # "currencies"
            BY <1>0, <2>2, <2>o, OnItsOwn
        <3> QED
            BY <1>0, <3>1, PricesAlone DEF CurrenciesAgree
    <2>3. memory[r].area = "currencies" => CurrencyKnows(r)
        BY <1>0 DEF CurrenciesAgree
    <2>4. CASE Currencies(r)
        <3>1. CASE memory[r].area = "currencies" \/ memory'[r].area = "currencies"
            BY <1>0, <2>2, <2>3, <2>4, <3>1, CurrencyMoves, CurrencyOwn
        <3>2. CASE memory[r].area # "currencies" /\ memory'[r].area # "currencies"
            <4>1. pc[r] \notin CurrencyStages
                BY <3>2 DEF ListTypes, RequestTypes, InArea
            <4>2. plan' = plan
                BY <2>4, <4>1 DEF Currencies, StartCreateCurrency, SeedPrices, StartPatchCurrency, CountEnabled,
                                  SaveCurrency, StartDeleteCurrency, UnsetPrices, StartSavePlan, CreatePlan,
                                  UpdatePlan, CurrencyStages
            <4>3. CASE ~StartCreateCurrency(r)
                <5>1. entry' = entry
                    BY <2>4, <4>1, <4>3
                    DEF Currencies, SeedPrices, StartPatchCurrency, CountEnabled,
                        SaveCurrency, StartDeleteCurrency, UnsetPrices, StartSavePlan, CreatePlan,
                        UpdatePlan, CurrencyStages
                <5> QED
                    BY <2>1, <3>2, <4>2, <5>1
            <4>4. CASE StartCreateCurrency(r)
                <5>1. PICK c, default :
                         Begin(r, "seedPrices", [area |-> "currencies", entry |-> c, default |-> default])
                    BY <4>4 DEF StartCreateCurrency
                <5>2. memory'[r].area = "currencies"
                    BY <5>1, Begins DEF ListTypes
                <5> QED
                    BY <3>2, <5>2
            <4> QED
                BY <4>3, <4>4
        <3> QED
            BY <3>1, <3>2
    <2>5. CASE Themes(r)
        <3>1. memory[r].area # "currencies" /\ memory'[r].area # "currencies"
            BY <2>5, AreasOf
        <3>2. plan' = plan
            BY <2>5 DEF Themes, StartSetDefault, SaveDefault, StartDeleteTheme, CountUses, StartSetTheme,
                        SaveTimelineTheme, StartAddOverride, FindOverlap, CreateOverride
        <3>3. CASE SaveDefault(r)
            <4>1. memory[r].entry \notin Currency
                BY <3>3, CatalogAssumption
                DEF SaveDefault, ListTypes, RequestTypes, Minds, ThemeStages
            <4>2. \A c \in Currency : entry'[c] = entry[c]
                BY <3>3, <4>1 DEF SaveDefault, ListTypes, DocumentTypes, Entry
            <4> QED
                BY <2>1, <3>1, <3>2, <4>2
        <3>4. CASE ~SaveDefault(r)
            <4>1. entry' = entry
                BY <2>5, <3>4 DEF Themes, StartSetDefault, StartDeleteTheme, CountUses, StartSetTheme,
                                  SaveTimelineTheme, StartAddOverride, FindOverlap, CreateOverride
            <4> QED
                BY <2>1, <3>1, <3>2, <4>1
        <3> QED
            BY <3>3, <3>4
    <2>6. CASE StartPutGateway(r) \/ StartPutMailer(r)
        <3>1. memory[r].area # "currencies" /\ memory'[r].area # "currencies"
            BY <2>6, AreasOf
        <3>2. PICK d \in Gateway \cup Mailer : Upsert(r, d)
            BY <2>6 DEF StartPutGateway, StartPutMailer
        <3>3. d \notin Currency
            BY CatalogAssumption
        <3>4. \A c \in Currency : entry'[c] = entry[c]
            BY <3>2, <3>3 DEF Upsert, ListTypes, DocumentTypes, Entry
        <3> QED
            BY <2>1, <3>1, <3>2, <3>4 DEF Upsert
    <2>7. CASE ClearOthers(r)
        <3> DEFINE d == memory[r].entry
        <3>1. pc[r] = "clearOthers" /\ plan' = plan /\ pc'[r] = "idle" /\ memory'[r].area = "none"
            BY <2>7, AreasOf, Ends DEF ClearOthers, ListTypes
        <3>2. \A e \in Entry : entry'[e].there = entry[e].there /\ entry'[e].on = entry[e].on
            BY <2>7 DEF ClearOthers, ListTypes, DocumentTypes, Documents
        <3>3. There(Currency)' = There(Currency) /\ Enabled(Currency)' = Enabled(Currency)
            BY <3>2 DEF There, Enabled, Entry
        <3>4. CASE memory[r].area = "currencies"
            <4>1. PricesFor(r)'
                BY <2>2, <3>1, <3>3, <3>4 DEF PricesFor
            <4> QED
                BY <1>0, <2>2, <3>1, <3>3, <3>4, <4>1, CurrencyOwn DEF CurrenciesAgree
        <3>5. CASE memory[r].area # "currencies"
            <4>1. d \in Theme \cup Gateway \cup Mailer
                BY <3>1, <3>5 DEF ListTypes, RequestTypes, InArea
            <4>2. PICK k \in Lists : d \in k /\ k # Currency
                BY <4>1, CatalogAssumption DEF Lists
            <4>3. ListOf(d) = k
                BY <4>2, InItsList
            <4>4. \A c \in Currency : c \notin k
                BY <4>2, Disjoint DEF Lists
            <4>5. \A c \in Currency : entry'[c] = entry[c]
                BY <2>7, <4>3, <4>4 DEF ClearOthers, Entry
            <4> QED
                BY <2>1, <3>1, <3>5, <4>5
        <3> QED
            BY <3>4, <3>5
    <2>8. CASE DeleteEntry(r)
        <3> DEFINE d == memory[r].entry
        <3>1. /\ pc[r] = "deleteEntry" /\ plan' = plan /\ pc'[r] = "idle" /\ memory'[r].area = "none"
              /\ entry' = [entry EXCEPT ![d] = Nothing]
            BY <2>8, AreasOf, Ends DEF DeleteEntry, ListTypes
        <3>2. CASE memory[r].area = "currencies"
            <4>1. d \in Currency
                BY <3>1, <3>2 DEF ListTypes, RequestTypes, InArea
            <4>2. There(Currency)' = There(Currency) \ {d} /\ Enabled(Currency)' = Enabled(Currency) \ {d}
                BY <3>1, <4>1 DEF There, Enabled, Nothing, ListTypes, DocumentTypes, Entry
            <4>3. Enabled(Currency)' # {}
                BY <2>3, <3>1, <3>2, <4>2 DEF CurrencyKnows
            <4>4. PricesFor(r)'
                <5>1. "plan" # d
                    BY <4>1, CatalogAssumption
                <5>2. ASSUME NEW p \in Plan, plan'[p] # {} PROVE plan'[p] = {"plan"} \cup There(Currency)'
                    <6>1. plan[p] \cup {d} = {"plan"} \cup There(Currency) /\ d \notin plan[p]
                        BY <2>2, <3>1, <3>2, <5>2 DEF PricesFor
                    <6> QED
                        BY <3>1, <4>2, <5>1, <6>1
                <5> QED
                    BY <3>1, <5>2 DEF PricesFor
            <4> QED
                BY <2>2, <3>1, <3>2, <4>3, <4>4, CurrencyOwn
        <3>3. CASE memory[r].area # "currencies"
            <4>1. d \notin Currency
                BY <3>1, <3>3, CatalogAssumption DEF ListTypes, RequestTypes, InArea
            <4>2. \A c \in Currency : entry'[c] = entry[c]
                BY <3>1, <4>1 DEF ListTypes, DocumentTypes, Entry
            <4> QED
                BY <2>1, <3>1, <3>3, <4>2
        <3> QED
            BY <3>2, <3>3
    <2>9. CASE Fail(r)
        <3>1. /\ plan' = plan /\ entry' = entry /\ pc'[r] = "idle" /\ memory'[r].area = "none"
              /\ pc[r] \in Halves => memory[r].area \in raced'
            BY <2>9, AreasOf, Fails DEF Fail, ListTypes
        <3>2. CASE memory[r].area = "currencies"
            <4>1. pc[r] \notin {"seedPrices", "deleteEntry"}
                BY <3>1, <3>2 DEF Halves
            <4>2. There(Currency)' = There(Currency) /\ Enabled(Currency)' = Enabled(Currency)
                BY <3>1 DEF There, Enabled
            <4>3. PricesFor(r)'
                BY <2>2, <3>1, <3>2, <4>1, <4>2 DEF PricesFor
            <4> QED
                BY <1>0, <2>2, <3>1, <3>2, <4>2, <4>3, CurrencyOwn DEF CurrenciesAgree
        <3>3. CASE memory[r].area # "currencies"
            BY <2>1, <3>1, <3>3
        <3> QED
            BY <3>2, <3>3
    <2>10. CASE StartUploadLight(r) \/ StartUploadDark(r) \/ StartRemoveLight(r) \/ StartRemoveDark(r)
                \/ SaveImage(r) \/ StartEdit(r) \/ SaveSettings(r)
        <3>1. memory[r].area # "currencies" /\ memory'[r].area # "currencies"
            BY <2>10, AreasOf
        <3>2. plan' = plan /\ entry' = entry
            BY <2>10 DEF StartUploadLight, StartUploadDark, StartRemoveLight, StartRemoveDark,
                         ChangeImages, SaveImage, StartEdit, SaveSettings
        <3> QED
            BY <2>1, <3>1, <3>2
    <2> QED
        BY <1>3, <2>4, <2>5, <2>6, <2>7, <2>8, <2>9, <2>10 DEF Act
<1> QED
    BY <1>1, <1>2, <1>3, Steps

-----------------------------------------------------------------------------
(* Themes and their uses                                                   *)

\* With nobody else at the themes, what the one request knows is all there is.
LEMMA ThemeOwn ==
    ASSUME NEW r \in Request, \A q \in Request \ {r} : memory'[q].area # "themes",
           Default(Theme)' # {}, memory'[r].area = "themes" => ThemeKnows(r)', UsesAgree'
    PROVE  ThemesSettled'
<1>1. \A q \in Request : memory'[q].area = "themes" => ThemeKnows(q)'
    OBVIOUS
<1> QED
    BY <1>1 DEF ThemesSettled

\* A request about themes is about a theme.
LEMMA ThemeEntry ==
    ASSUME ListTypes, NEW r \in Request, memory[r].area = "themes"
    PROVE  memory[r].entry \in Theme
BY DEF ListTypes, RequestTypes, InArea, Minds, Stages, CurrencyStages, ThemeStages

\* What leaves the themes there are and the requests of the area alone.
LEMMA ThemeFrame ==
    ASSUME ListTypes, ThemesSettled,
           \A t \in Theme : entry[t].there => entry'[t].there /\ entry'[t].default = entry[t].default,
           theme' = theme, \A o \in Override : override'[o] \in {override[o], NoOverride},
           \A q \in Request : memory[q].area = "themes" \/ memory'[q].area = "themes" =>
                                 memory'[q] = memory[q] /\ pc'[q] = pc[q]
    PROVE  ThemesSettled'
<1>1. Default(Theme)' # {}
    BY DEF ThemesSettled, Default, There
<1>2. ASSUME NEW t \in Theme, InUse(t)' PROVE InUse(t)
    BY <1>2, CatalogAssumption DEF InUse, NoOverride
<1>3. \A o \in Override : override'[o].days \subseteq override[o].days
    BY DEF NoOverride, ListTypes, DocumentTypes, Overrides
<1>4. UsesAgree'
    BY <1>2, <1>3 DEF ThemesSettled, UsesAgree
<1>5. ASSUME NEW q \in Request, memory'[q].area = "themes" PROVE ThemeKnows(q)'
    <2>1. memory'[q] = memory[q] /\ pc'[q] = pc[q] /\ ThemeKnows(q)
        BY <1>5 DEF ThemesSettled
    <2>2. memory[q].entry \in Theme
        BY <1>5, <2>1, ThemeEntry
    <2>3. InUse(memory[q].entry)' => InUse(memory[q].entry)
        BY <1>2, <2>1, <2>2
    <2> QED
        BY <1>3, <2>1, <2>2, <2>3 DEF ThemeKnows
<1> QED
    BY <1>1, <1>4, <1>5 DEF ThemesSettled

\* A request that is alone with the themes leaves a default theme, knows what it
\* relies on, and leaves every use in order.
LEMMA ThemeMoves ==
    ASSUME ListTypes, ThemesSettled, NEW r \in Request, Themes(r)
    PROVE  Default(Theme)' # {} /\ (memory'[r].area = "themes" => ThemeKnows(r)') /\ UsesAgree'
<1> DEFINE Fine == Default(Theme)' # {} /\ (memory'[r].area = "themes" => ThemeKnows(r)') /\ UsesAgree'
<1> SUFFICES Fine
    OBVIOUS
<1>c. Theme \subseteq Entry /\ entry \in [Entry -> Documents]
    BY DEF Entry, ListTypes, DocumentTypes
<1>k. pc[r] \in ThemeStages => memory[r].area = "themes" /\ ThemeKnows(r) /\ memory[r].entry \in Theme
    BY DEF ListTypes, RequestTypes, InArea, Minds, ThemesSettled
<1>s. Default(Theme) # {} /\ UsesAgree
    BY DEF ThemesSettled
<1>u. ASSUME UNCHANGED <<entry, theme, override>>
      PROVE  Default(Theme)' # {} /\ UsesAgree' /\ \A t : InUse(t)' = InUse(t)
    BY <1>s, <1>u DEF Default, There, UsesAgree, InUse
<1>v. Over(r) => memory'[r].area # "themes"
    BY Ends DEF ListTypes, Idle
<1>1. CASE StartSetDefault(r)
    <2>1. PICK t \in Enabled(Theme) :
             Begin(r, "saveDefault", [area |-> "themes", entry |-> t, read |-> entry[t]])
        BY <1>1 DEF StartSetDefault
    <2>2. pc'[r] = "saveDefault" /\ memory'[r] = [area |-> "themes", entry |-> t, read |-> entry[t]]
        BY <2>1, Begins DEF ListTypes
    <2>3. UNCHANGED <<entry, theme, override>> /\ entry[t].there
        BY <1>1 DEF StartSetDefault, Enabled, There
    <2>4. ThemeKnows(r)'
        BY <2>2, <2>3 DEF ThemeKnows
    <2> QED
        BY <1>u, <2>3, <2>4
<1>2. CASE SaveDefault(r)
    <2> DEFINE t == memory[r].entry
    <2>1. pc[r] = "saveDefault" /\ theme' = theme /\ override' = override
        BY <1>2 DEF SaveDefault
    <2>2. /\ t \in Theme /\ entry[t].there
          /\ memory[r].read.default => entry[t].default
        BY <1>k, <2>1 DEF ThemeStages, ThemeKnows
    <2>3. /\ Continue(r, "clearOthers")
          /\ \/ entry' = entry /\ entry[t].default
             \/ entry' = [entry EXCEPT ![t].default = TRUE]
        BY <1>2, <2>2 DEF SaveDefault
    <2>4. /\ \A e \in Entry : entry'[e].there = entry[e].there /\ (entry[e].default => entry'[e].default)
          /\ entry'[t].default
        BY <2>2, <2>3, <1>c DEF Documents
    <2>5. pc'[r] = "clearOthers" /\ memory'[r] = memory[r]
        BY <2>3, Goes DEF ListTypes
    <2>6. ThemeKnows(r)'
        BY <2>2, <2>4, <2>5, <1>c DEF ThemeKnows
    <2>7. Default(Theme)' # {}
        BY <2>2, <2>4, <1>c DEF Default, There
    <2>8. UsesAgree'
        BY <1>s, <1>c, <2>1, <2>4 DEF UsesAgree, InUse
    <2> QED
        BY <2>6, <2>7, <2>8
<1>3. CASE StartDeleteTheme(r)
    <2>1. PICK t \in There(Theme) \ Default(Theme) : Begin(r, "countUses", [area |-> "themes", entry |-> t])
        BY <1>3 DEF StartDeleteTheme
    <2>2. pc'[r] = "countUses" /\ memory'[r] = [area |-> "themes", entry |-> t]
        BY <2>1, Begins DEF ListTypes
    <2>3. UNCHANGED <<entry, theme, override>> /\ entry[t].there /\ ~entry[t].default
        BY <1>3 DEF StartDeleteTheme, There, Default
    <2>4. ThemeKnows(r)'
        BY <2>2, <2>3 DEF ThemeKnows
    <2> QED
        BY <1>u, <2>3, <2>4
<1>4. CASE CountUses(r)
    <2>1. UNCHANGED <<entry, theme, override>> /\ pc[r] = "countUses"
        BY <1>4 DEF CountUses
    <2>2. ThemeKnows(r)
        BY <1>k, <2>1 DEF ThemeStages
    <2>3. CASE ~InUse(memory[r].entry) /\ Continue(r, "deleteEntry")
        <3>1. pc'[r] = "deleteEntry" /\ memory'[r] = memory[r]
            BY <2>3, Goes DEF ListTypes
        <3>2. ThemeKnows(r)'
            BY <1>u, <2>1, <2>2, <2>3, <3>1 DEF ThemeKnows
        <3> QED
            BY <1>u, <2>1, <3>2
    <2>4. CASE Over(r)
        BY <1>u, <1>v, <2>1, <2>4
    <2> QED
        BY <1>4, <2>3, <2>4 DEF CountUses
<1>5. CASE StartSetTheme(r)
    <2>1. PICK t \in Enabled(Theme) : Begin(r, "saveTimelineTheme", [area |-> "themes", entry |-> t])
        BY <1>5 DEF StartSetTheme
    <2>2. pc'[r] = "saveTimelineTheme" /\ memory'[r] = [area |-> "themes", entry |-> t]
        BY <2>1, Begins DEF ListTypes
    <2>3. UNCHANGED <<entry, theme, override>> /\ entry[t].there
        BY <1>5 DEF StartSetTheme, There, Enabled
    <2>4. ThemeKnows(r)'
        BY <2>2, <2>3 DEF ThemeKnows
    <2> QED
        BY <1>u, <2>3, <2>4
<1>6. CASE SaveTimelineTheme(r)
    <2>1. /\ pc[r] = "saveTimelineTheme" /\ theme' = memory[r].entry /\ Over(r)
          /\ entry' = entry /\ override' = override
        BY <1>6 DEF SaveTimelineTheme
    <2>2. entry[memory[r].entry].there
        BY <1>k, <2>1 DEF ThemeStages, ThemeKnows
    <2>3. Default(Theme)' # {} /\ UsesAgree'
        BY <1>s, <2>1, <2>2 DEF Default, There, UsesAgree, InUse
    <2> QED
        BY <1>v, <2>1, <2>3
<1>7. CASE StartAddOverride(r)
    <2>1. PICK t \in Enabled(Theme), days \in SUBSET Date \ {{}} :
             Begin(r, "findOverlap", [area |-> "themes", entry |-> t, days |-> days])
        BY <1>7 DEF StartAddOverride
    <2>2. pc'[r] = "findOverlap" /\ memory'[r] = [area |-> "themes", entry |-> t, days |-> days]
        BY <2>1, Begins DEF ListTypes
    <2>3. UNCHANGED <<entry, theme, override>> /\ entry[t].there
        BY <1>7 DEF StartAddOverride, There, Enabled
    <2>4. ThemeKnows(r)'
        BY <2>2, <2>3 DEF ThemeKnows
    <2> QED
        BY <1>u, <2>3, <2>4
<1>8. CASE FindOverlap(r)
    <2>1. UNCHANGED <<entry, theme, override>> /\ pc[r] = "findOverlap"
        BY <1>8 DEF FindOverlap
    <2>2. ThemeKnows(r)
        BY <1>k, <2>1 DEF ThemeStages
    <2>3. CASE Over(r)
        BY <1>u, <1>v, <2>1, <2>3
    <2>4. CASE ~Over(r)
        <3>1. /\ \A o \in Override : override[o].days \cap memory[r].days = {}
              /\ Continue(r, "createOverride")
            BY <1>8, <2>4 DEF FindOverlap
        <3>2. pc'[r] = "createOverride" /\ memory'[r] = memory[r]
            BY <3>1, Goes DEF ListTypes
        <3>3. ThemeKnows(r)'
            BY <2>1, <2>2, <3>1, <3>2 DEF ThemeKnows
        <3> QED
            BY <1>u, <2>1, <3>3
    <2> QED
        BY <2>3, <2>4
<1>9. CASE CreateOverride(r)
    <2> DEFINE k == memory[r]
    <2>1. /\ pc[r] = "createOverride" /\ entry' = entry /\ theme' = theme /\ Over(r)
        BY <1>9 DEF CreateOverride
    <2>2. PICK o \in Override : override' = [override EXCEPT ![o] = [theme |-> k.entry, days |-> k.days]]
        BY <1>9 DEF CreateOverride
    <2>3. entry[k.entry].there /\ \A q \in Override : override[q].days \cap k.days = {}
        BY <1>k, <2>1 DEF ThemeStages, ThemeKnows
    <2>4. /\ override'[o].theme = k.entry /\ override'[o].days = k.days
          /\ \A q \in Override \ {o} : override'[q] = override[q]
        BY <2>2 DEF ListTypes, DocumentTypes
    <2>5. ASSUME NEW t \in Theme, InUse(t)' PROVE entry'[t].there
        BY <1>s, <2>1, <2>3, <2>4, <2>5 DEF UsesAgree, InUse
    <2>6. ASSUME NEW p \in Override, NEW q \in Override, p # q
          PROVE  override'[p].days \cap override'[q].days = {}
        BY <1>s, <2>3, <2>4, <2>6 DEF UsesAgree
    <2>7. Default(Theme)' # {}
        BY <1>s, <2>1 DEF Default, There
    <2> QED
        BY <1>v, <2>1, <2>5, <2>6, <2>7 DEF UsesAgree
<1> QED
    BY <1>1, <1>2, <1>3, <1>4, <1>5, <1>6, <1>7, <1>8, <1>9 DEF Themes

\* While requests about themes do not overlap, every step keeps a default theme and
\* every use of a theme in order.
LEMMA ThemeStep ==
    ListTypes /\ AloneInv /\ ThemeInv /\ [CatalogNext]_catalogVars /\ AloneInv' => ThemeInv'
<1> SUFFICES ASSUME ListTypes, AloneInv, ThemeInv, [CatalogNext]_catalogVars, AloneInv',
                    "themes" \notin raced'
             PROVE  ThemesSettled'
    BY DEF ThemeInv
<1>0. raced \subseteq raced' /\ ThemesSettled /\ "themes" \in Areas
    BY RacedGrows DEF ThemeInv, Areas
<1>c. Theme \subseteq Entry /\ entry \in [Entry -> Documents] /\ override \in [Override -> Overrides]
    BY DEF Entry, ListTypes, DocumentTypes
<1>d. \A t \in Theme : t \notin Currency /\ t \notin Gateway /\ t \notin Mailer
    BY CatalogAssumption
<1>1. CASE UNCHANGED catalogVars
    BY <1>0, <1>1, ThemeFrame DEF catalogVars
<1>2. CASE Single
    <2>1. UNCHANGED <<pc, memory>>
        BY <1>2, SingleWaits
    <2>2. theme' = theme
        BY <1>2 DEF Single, DeletePlan, DeleteGateway, DeleteMailer, DeleteProvider, CreateTheme, PatchTheme,
                    DeleteOverride
    <2>3. \A o \in Override : override'[o] \in {override[o], NoOverride}
        <3>1. CASE \E o \in Override : DeleteOverride(o)
            BY <3>1, <1>c DEF DeleteOverride
        <3>2. CASE ~\E o \in Override : DeleteOverride(o)
            BY <1>2, <3>2 DEF Single, DeletePlan, DeleteGateway, DeleteMailer, DeleteProvider, CreateTheme,
                              PatchTheme
        <3> QED
            BY <3>1, <3>2
    <2>4. ASSUME NEW t \in Theme, entry[t].there
          PROVE  entry'[t].there /\ entry'[t].default = entry[t].default
        <3>1. CASE \E u \in Theme : CreateTheme(u)
            BY <2>4, <3>1, <1>c DEF CreateTheme
        <3>2. CASE \E u \in Theme : PatchTheme(u)
            BY <2>4, <3>2, <1>c DEF PatchTheme, Documents
        <3>3. CASE DeleteGateway \/ DeleteMailer
            BY <2>4, <3>3, <1>c, <1>d DEF DeleteGateway, DeleteMailer, DeleteProvider
        <3>4. CASE (\E p \in Plan : DeletePlan(p)) \/ (\E o \in Override : DeleteOverride(o))
            BY <2>4, <3>4 DEF DeletePlan, DeleteOverride
        <3> QED
            BY <1>2, <3>1, <3>2, <3>3, <3>4 DEF Single
    <2> QED
        BY <1>0, <2>1, <2>2, <2>3, <2>4, ThemeFrame
<1>3. ASSUME NEW r \in Request, Act(r) PROVE ThemesSettled'
    <2>o. Own(r) /\ raced \subseteq raced' /\ \A q \in Request \ {r} : memory'[q] = memory[q] /\ pc'[q] = pc[q]
        BY <1>3, Moves, OthersWait DEF ListTypes
    <2>1. ASSUME memory[r].area # "themes", memory'[r].area # "themes",
                 theme' = theme, override' = override, \A t \in Theme : entry'[t] = entry[t]
          PROVE  ThemesSettled'
        BY <1>0, <2>1, <2>o, ThemeFrame
    <2>2. ASSUME memory[r].area = "themes" \/ memory'[r].area = "themes"
          PROVE  \A q \in Request \ {r} : memory[q].area # "themes" /\ memory'[q].area # "themes"
        BY <1>0, <2>2, <2>o, OnItsOwn
    <2>3. memory[r].area = "themes" => ThemeKnows(r) /\ memory[r].entry \in Theme
        BY <1>0, ThemeEntry DEF ThemesSettled
    <2>4. CASE Themes(r)
        <3>1. CASE memory[r].area = "themes" \/ memory'[r].area = "themes"
            BY <1>0, <2>2, <2>4, <3>1, ThemeMoves, ThemeOwn
        <3>2. CASE memory[r].area # "themes" /\ memory'[r].area # "themes"
            <4>1. pc[r] \notin ThemeStages
                BY <3>2 DEF ListTypes, RequestTypes, InArea
            <4>2. UNCHANGED <<entry, theme, override>>
                BY <2>4, <4>1 DEF Themes, StartSetDefault, SaveDefault, StartDeleteTheme, CountUses,
                                  StartSetTheme, SaveTimelineTheme, StartAddOverride, FindOverlap,
                                  CreateOverride, ThemeStages
            <4> QED
                BY <2>1, <3>2, <4>2
        <3> QED
            BY <3>1, <3>2
    <2>5. CASE Currencies(r)
        <3>1. memory[r].area # "themes" /\ memory'[r].area # "themes"
            BY <2>5, AreasOf
        <3>2. theme' = theme /\ override' = override
            BY <2>5 DEF Currencies, StartCreateCurrency, SeedPrices, StartPatchCurrency, CountEnabled,
                        SaveCurrency, StartDeleteCurrency, UnsetPrices, StartSavePlan, CreatePlan,
                        UpdatePlan, SavePlan
        <3>3. \A t \in Theme : entry'[t] = entry[t]
            <4>1. CASE SaveCurrency(r)
                <5>1. memory[r].entry \in Currency
                    BY <4>1 DEF SaveCurrency, ListTypes, RequestTypes, Minds, CurrencyStages
                <5> QED
                    BY <4>1, <5>1, <1>c, <1>d DEF SaveCurrency
            <4>2. CASE StartCreateCurrency(r)
                BY <4>2, <1>c, <1>d DEF StartCreateCurrency
            <4>3. CASE ~SaveCurrency(r) /\ ~StartCreateCurrency(r)
                BY <2>5, <4>3 DEF Currencies, SeedPrices, StartPatchCurrency, CountEnabled,
                                  StartDeleteCurrency, UnsetPrices, StartSavePlan, CreatePlan, UpdatePlan,
                                  SavePlan
            <4> QED
                BY <4>1, <4>2, <4>3
        <3> QED
            BY <2>1, <3>1, <3>2, <3>3
    <2>6. CASE StartPutGateway(r) \/ StartPutMailer(r)
        <3>1. memory[r].area # "themes" /\ memory'[r].area # "themes"
            BY <2>6, AreasOf
        <3>2. PICK d \in Gateway \cup Mailer : Upsert(r, d)
            BY <2>6 DEF StartPutGateway, StartPutMailer
        <3>3. \A t \in Theme : entry'[t] = entry[t]
            BY <3>2, <1>c, <1>d DEF Upsert
        <3> QED
            BY <2>1, <3>1, <3>2, <3>3 DEF Upsert
    <2>7. CASE ClearOthers(r)
        <3> DEFINE d == memory[r].entry
        <3>1. /\ pc[r] = "clearOthers" /\ theme' = theme /\ override' = override /\ memory'[r].area = "none"
              /\ entry' = [e \in Entry |-> IF e \in ListOf(d) \ {d} THEN [entry[e] EXCEPT !.default = FALSE]
                                           ELSE entry[e]]
            BY <2>7, AreasOf DEF ClearOthers, ListTypes
        <3>2. CASE memory[r].area = "themes"
            <4>1. d \in Theme /\ entry[d].there /\ entry[d].default
                BY <2>3, <3>1, <3>2 DEF ThemeKnows
            <4>2. Default(Theme)' # {}
                BY <3>1, <4>1, <1>c DEF Default, There
            <4>3. \A t \in Theme : entry'[t].there = entry[t].there
                BY <3>1, <1>c DEF Documents
            <4>4. UsesAgree'
                BY <1>0, <3>1, <4>3 DEF ThemesSettled, UsesAgree, InUse
            <4> QED
                BY <2>2, <3>1, <3>2, <4>2, <4>4, ThemeOwn
        <3>3. CASE memory[r].area # "themes"
            <4>1. d \in Currency \cup Gateway \cup Mailer
                BY <3>1, <3>3 DEF ListTypes, RequestTypes, InArea
            <4>2. PICK k \in Lists : d \in k /\ k # Theme
                BY <4>1, <1>d DEF Lists
            <4>3. ListOf(d) = k
                BY <4>2, InItsList
            <4>4. \A t \in Theme : t \notin k
                BY <4>2, Disjoint DEF Lists
            <4>5. \A t \in Theme : entry'[t] = entry[t]
                BY <3>1, <4>3, <4>4, <1>c
            <4> QED
                BY <2>1, <3>1, <3>3, <4>5
        <3> QED
            BY <3>2, <3>3
    <2>8. CASE DeleteEntry(r)
        <3> DEFINE d == memory[r].entry
        <3>1. /\ pc[r] = "deleteEntry" /\ theme' = theme /\ override' = override /\ memory'[r].area = "none"
              /\ entry' = [entry EXCEPT ![d] = Nothing]
            BY <2>8, AreasOf DEF DeleteEntry, ListTypes
        <3>2. CASE memory[r].area = "themes"
            <4>1. d \in Theme /\ ~entry[d].default /\ ~InUse(d)
                BY <2>3, <3>1, <3>2 DEF ThemeKnows
            <4>2. \A t \in Theme \ {d} : entry'[t] = entry[t]
                BY <3>1, <1>c
            <4>3. Default(Theme)' # {}
                <5>1. PICK t \in Default(Theme) : TRUE
                    BY <1>0 DEF ThemesSettled
                <5> QED
                    BY <4>1, <4>2, <5>1 DEF Default, There
            <4>4. UsesAgree'
                <5>1. \A t \in Theme : InUse(t)' = InUse(t)
                    BY <3>1 DEF InUse
                <5> QED
                    BY <1>0, <3>1, <4>1, <4>2, <5>1 DEF ThemesSettled, UsesAgree
            <4> QED
                BY <2>2, <3>1, <3>2, <4>3, <4>4, ThemeOwn
        <3>3. CASE memory[r].area # "themes"
            <4>1. d \notin Theme
                BY <3>1, <3>3, <1>d DEF ListTypes, RequestTypes, InArea
            <4>2. \A t \in Theme : entry'[t] = entry[t]
                BY <3>1, <4>1, <1>c
            <4> QED
                BY <2>1, <3>1, <3>3, <4>2
        <3> QED
            BY <3>2, <3>3
    <2>9. CASE Fail(r)
        <3>1. UNCHANGED <<entry, theme, override>> /\ memory'[r].area = "none"
            BY <2>9, AreasOf DEF Fail, ListTypes
        <3>2. CASE memory[r].area = "themes"
            <4>1. Default(Theme)' # {} /\ UsesAgree'
                BY <1>0, <3>1 DEF ThemesSettled, Default, There, UsesAgree, InUse
            <4> QED
                BY <2>2, <3>1, <3>2, <4>1, ThemeOwn
        <3>3. CASE memory[r].area # "themes"
            BY <2>1, <3>1, <3>3
        <3> QED
            BY <3>2, <3>3
    <2>10. CASE StartUploadLight(r) \/ StartUploadDark(r) \/ StartRemoveLight(r) \/ StartRemoveDark(r)
                \/ SaveImage(r) \/ StartEdit(r) \/ SaveSettings(r)
        <3>1. memory[r].area # "themes" /\ memory'[r].area # "themes"
            BY <2>10, AreasOf
        <3>2. UNCHANGED <<entry, theme, override>>
            BY <2>10 DEF StartUploadLight, StartUploadDark, StartRemoveLight, StartRemoveDark,
                         ChangeImages, SaveImage, StartEdit, SaveSettings
        <3> QED
            BY <2>1, <3>1, <3>2
    <2> QED
        BY <1>3, <2>4, <2>5, <2>6, <2>7, <2>8, <2>9, <2>10 DEF Act
<1> QED
    BY <1>1, <1>2, <1>3, Steps

-----------------------------------------------------------------------------
(* The images, and the settings of the timeline                            *)

\* The handlers of the other areas keep off the images and off the settings.
LEMMA KeepsOff ==
    ASSUME Single \/ \E r \in Request : \/ Currencies(r) \/ Themes(r) \/ StartPutGateway(r)
                                        \/ StartPutMailer(r) \/ ClearOthers(r) \/ DeleteEntry(r)
                                        \/ Fail(r)
    PROVE  UNCHANGED <<image, open>>
<1>1. CASE Single
    BY <1>1 DEF Single, DeletePlan, DeleteGateway, DeleteMailer, DeleteProvider, CreateTheme, PatchTheme,
                DeleteOverride
<1>2. ASSUME NEW r \in Request, Currencies(r) PROVE UNCHANGED <<image, open>>
    BY <1>2 DEF Currencies, StartCreateCurrency, SeedPrices, StartPatchCurrency, CountEnabled,
                SaveCurrency, StartDeleteCurrency, UnsetPrices, StartSavePlan, CreatePlan, UpdatePlan,
                SavePlan
<1>3. ASSUME NEW r \in Request, Themes(r) PROVE UNCHANGED <<image, open>>
    BY <1>3 DEF Themes, StartSetDefault, SaveDefault, StartDeleteTheme, CountUses, StartSetTheme,
                SaveTimelineTheme, StartAddOverride, FindOverlap, CreateOverride
<1>4. ASSUME NEW r \in Request,
             StartPutGateway(r) \/ StartPutMailer(r) \/ ClearOthers(r) \/ DeleteEntry(r) \/ Fail(r)
      PROVE  UNCHANGED <<image, open>>
    BY <1>4 DEF StartPutGateway, StartPutMailer, Upsert, ClearOthers, DeleteEntry, Fail
<1> QED
    BY <1>1, <1>2, <1>3, <1>4

\* A request that is alone with the images keeps the dark one from outliving the light one.
LEMMA ImageStep ==
    ListTypes /\ AloneInv /\ ImageInv /\ [CatalogNext]_catalogVars /\ AloneInv' => ImageInv'
<1> SUFFICES ASSUME ListTypes, AloneInv, ImageInv, [CatalogNext]_catalogVars, AloneInv',
                    "image" \notin raced'
             PROVE  ImagesSettled'
    BY DEF ImageInv, ImagesSettled
<1>0. raced \subseteq raced' /\ ImagesSettled /\ "image" \in Areas
    BY RacedGrows DEF ImageInv, ImagesSettled, Areas
<1>t. \A q \in Request : InArea(q)'
    BY TypesStep DEF ListTypes, RequestTypes
<1>1. ASSUME image' = image,
             \A q \in Request : pc'[q] = "saveImage" => pc[q] = "saveImage" /\ memory'[q] = memory[q]
      PROVE  ImagesSettled'
    BY <1>0, <1>1 DEF ImagesSettled
<1>2. CASE UNCHANGED catalogVars
    BY <1>1, <1>2 DEF catalogVars
<1>3. CASE Single
    BY <1>1, <1>3, SingleWaits, KeepsOff
<1>4. ASSUME NEW r \in Request, Act(r) PROVE ImagesSettled'
    <2>o. Own(r) /\ raced \subseteq raced' /\ \A q \in Request \ {r} : memory'[q] = memory[q] /\ pc'[q] = pc[q]
        BY <1>4, Moves, OthersWait DEF ListTypes
    <2>a. ASSUME memory[r].area = "image" \/ memory'[r].area = "image", NEW q \in Request \ {r}
          PROVE  pc'[q] # "saveImage"
        <3>1. memory'[q].area # "image"
            BY <1>0, <2>a, <2>o, OnItsOwn
        <3> QED
            BY <1>t, <3>1 DEF InArea
    <2>1. ASSUME memory'[r].area # "image", image' = image PROVE ImagesSettled'
        BY <1>1, <1>t, <2>o, <2>1 DEF InArea
    <2>2. CASE \/ Currencies(r) \/ Themes(r) \/ StartPutGateway(r) \/ StartPutMailer(r)
               \/ ClearOthers(r) \/ DeleteEntry(r) \/ Fail(r)
        <3>1. memory'[r].area # "image"
            BY <2>2, AreasOf
        <3> QED
            BY <2>1, <2>2, <3>1, KeepsOff
    <2>3. CASE StartEdit(r) \/ SaveSettings(r)
        <3>1. memory'[r].area # "image"
            BY <2>3, AreasOf
        <3>2. image' = image
            BY <2>3 DEF StartEdit, SaveSettings
        <3> QED
            BY <2>1, <3>1, <3>2
    <2>4. ASSUME NEW gains, NEW loses, ChangeImages(r, gains, loses),
                 LET saved == (image \ (loses \cap image)) \cup gains IN
                    "dark" \in saved => "light" \in saved
          PROVE  ImagesSettled'
        <3>1. /\ image' = image
              /\ memory'[r] = [area |-> "image", gains |-> gains, loses |-> loses \cap image]
            BY <2>4, Begins DEF ChangeImages, ListTypes
        <3>2. \A q \in Request \ {r} : pc'[q] # "saveImage"
            BY <2>a, <3>1
        <3> QED
            BY <1>0, <2>4, <3>1, <3>2 DEF ImagesSettled
    <2>5. CASE StartUploadLight(r)
        <3>1. PICK gains \in {{"light"}, {"light"} \ image} : ChangeImages(r, gains, {})
            BY <2>5 DEF StartUploadLight
        <3> QED
            BY <1>0, <2>4, <3>1 DEF ImagesSettled
    <2>6. CASE StartUploadDark(r)
        <3>1. PICK gains \in {{"dark"}, {"dark"} \ image} : ChangeImages(r, gains, {})
            BY <2>6 DEF StartUploadDark
        <3> QED
            BY <2>4, <2>6, <3>1 DEF StartUploadDark
    <2>7. CASE StartRemoveLight(r)
        BY <2>4, <2>7 DEF StartRemoveLight, Images
    <2>8. CASE StartRemoveDark(r)
        BY <2>4, <2>8 DEF StartRemoveDark
    <2>9. CASE SaveImage(r)
        <3>1. /\ pc[r] = "saveImage" /\ image' = (image \ memory[r].loses) \cup memory[r].gains
              /\ memory[r].area = "image" /\ memory'[r].area = "none"
            BY <2>9, AreasOf DEF SaveImage
        <3>2. \A q \in Request : pc'[q] # "saveImage"
            BY <1>t, <2>a, <3>1 DEF InArea
        <3> QED
            BY <1>0, <3>1, <3>2 DEF ImagesSettled
    <2> QED
        BY <1>4, <2>2, <2>3, <2>5, <2>6, <2>7, <2>8, <2>9 DEF Act
<1> QED
    BY <1>2, <1>3, <1>4, Steps

\* A request that edits a timeline alone leaves no guest view of what is not public.
LEMMA OpenStep ==
    ListTypes /\ AloneInv /\ OpenInv /\ [CatalogNext]_catalogVars /\ AloneInv' => OpenInv'
<1> SUFFICES ASSUME ListTypes, AloneInv, OpenInv, [CatalogNext]_catalogVars, AloneInv',
                    "timeline" \notin raced'
             PROVE  OpenSettled'
    BY DEF OpenInv, OpenSettled
<1>0. raced \subseteq raced' /\ OpenSettled /\ "timeline" \in Areas
    BY RacedGrows DEF OpenInv, OpenSettled, Areas
<1>t. \A q \in Request : InArea(q)'
    BY TypesStep DEF ListTypes, RequestTypes
<1>1. ASSUME open' = open,
             \A q \in Request : pc'[q] = "saveSettings" => pc[q] = "saveSettings" /\ memory'[q] = memory[q]
      PROVE  OpenSettled'
    BY <1>0, <1>1 DEF OpenSettled
<1>2. CASE UNCHANGED catalogVars
    BY <1>1, <1>2 DEF catalogVars
<1>3. CASE Single
    BY <1>1, <1>3, SingleWaits, KeepsOff
<1>4. ASSUME NEW r \in Request, Act(r) PROVE OpenSettled'
    <2>o. Own(r) /\ raced \subseteq raced' /\ \A q \in Request \ {r} : memory'[q] = memory[q] /\ pc'[q] = pc[q]
        BY <1>4, Moves, OthersWait DEF ListTypes
    <2>a. ASSUME memory[r].area = "timeline" \/ memory'[r].area = "timeline", NEW q \in Request \ {r}
          PROVE  pc'[q] # "saveSettings"
        <3>1. memory'[q].area # "timeline"
            BY <1>0, <2>a, <2>o, OnItsOwn
        <3> QED
            BY <1>t, <3>1 DEF InArea
    <2>1. ASSUME memory'[r].area # "timeline", open' = open PROVE OpenSettled'
        BY <1>1, <1>t, <2>o, <2>1 DEF InArea
    <2>2. CASE \/ Currencies(r) \/ Themes(r) \/ StartPutGateway(r) \/ StartPutMailer(r)
               \/ ClearOthers(r) \/ DeleteEntry(r) \/ Fail(r)
        <3>1. memory'[r].area # "timeline"
            BY <2>2, AreasOf
        <3> QED
            BY <2>1, <2>2, <3>1, KeepsOff
    <2>3. CASE StartUploadLight(r) \/ StartUploadDark(r) \/ StartRemoveLight(r) \/ StartRemoveDark(r)
               \/ SaveImage(r)
        <3>1. memory'[r].area # "timeline"
            BY <2>3, AreasOf
        <3>2. open' = open
            BY <2>3 DEF StartUploadLight, StartUploadDark, StartRemoveLight, StartRemoveDark,
                        ChangeImages, SaveImage
        <3> QED
            BY <2>1, <3>1, <3>2
    <2>4. CASE StartEdit(r)
        <3>1. PICK new \in Settings :
                 Begin(r, "saveSettings", [area |-> "timeline", read |-> open, new |-> new])
            BY <2>4 DEF StartEdit
        <3>2. memory'[r] = [area |-> "timeline", read |-> open, new |-> new] /\ open' = open
            BY <2>4, <3>1, Begins DEF StartEdit, ListTypes
        <3>3. \A q \in Request \ {r} : pc'[q] # "saveSettings"
            BY <2>a, <3>2
        <3> QED
            BY <1>0, <3>2, <3>3 DEF OpenSettled
    <2>5. CASE SaveSettings(r)
        <3> DEFINE k == [memory[r] EXCEPT !.new.guests = @ /\ memory[r].new.public]
        <3>1. /\ pc[r] = "saveSettings" /\ memory[r].area = "timeline" /\ memory'[r].area = "none"
              /\ memory[r].read = open /\ memory[r].new \in Settings /\ open \in Settings
            BY <1>0, <2>5, AreasOf DEF SaveSettings, OpenSettled, ListTypes, RequestTypes, DocumentTypes,
                                      Minds
        <3>2. open' = [public |-> Changed(k, open.public, "public"),
                       guests |-> Changed(k, open.guests, "guests")]
            BY <2>5 DEF SaveSettings
        <3>3. \A q \in Request : pc'[q] # "saveSettings"
            BY <1>t, <2>a, <3>1 DEF InArea
        <3>4. k.read = open /\ k.new.public = memory[r].new.public
              /\ k.new.guests = (memory[r].new.guests /\ memory[r].new.public)
            BY <3>1 DEF Settings
        <3>5. open'.guests => open'.public
            BY <3>1, <3>2, <3>4 DEF Changed, Settings
        <3> QED
            BY <3>3, <3>5 DEF OpenSettled
    <2> QED
        BY <1>4, <2>2, <2>3, <2>4, <2>5 DEF Act
<1> QED
    BY <1>2, <1>3, <1>4, Steps

-----------------------------------------------------------------------------
(* The theorems                                                            *)

\* At first nobody is at work, every list has its one default, and no plan or range exists.
LEMMA SettledInit ==
    CatalogInit => AloneInv /\ DefaultInv /\ CurrencyInv /\ ThemeInv /\ ImageInv /\ OpenInv
<1> SUFFICES ASSUME CatalogInit
             PROVE  AloneInv /\ DefaultInv /\ CurrencyInv /\ ThemeInv /\ ImageInv /\ OpenInv
    OBVIOUS
<1>1. \A r \in Request : pc[r] = "idle" /\ memory[r].area = "none"
    BY DEF CatalogInit, Idle
<1>2. \A d \in Entry : (entry[d].there <=> d \in Standard) /\ (entry[d].on <=> d \in Standard)
                       /\ (entry[d].default <=> d \in Standard)
    BY DEF CatalogInit
<1>3. Currency \subseteq Entry /\ Theme \subseteq Entry /\ \A l \in Lists : l \subseteq Entry
    BY DEF Entry, Lists
<1>4. AloneInv
    BY <1>1 DEF AloneInv, Areas
<1>5. DefaultInv
    <2>1. ASSUME NEW l \in Lists PROVE \A d, e \in Default(l) : d = e
        <3>1. PICK c \in l : Standard \cap l = {c}
            BY CatalogAssumption
        <3> QED
            BY <1>2, <1>3, <3>1 DEF Default, There
    <2> QED
        BY <2>1 DEF DefaultInv, OneOrMoving
<1>6. CurrencyInv
    <2>1. PICK c \in Currency : Standard \cap Currency = {c}
        BY CatalogAssumption DEF Lists
    <2>2. Enabled(Currency) # {}
        BY <1>2, <1>3, <2>1 DEF Enabled, There
    <2>3. PricesInv
        BY DEF PricesInv, CatalogInit
    <2> QED
        BY <1>1, <2>2, <2>3 DEF CurrencyInv, CurrenciesAgree
<1>7. ThemeInv
    <2>1. Default(Theme) # {} /\ entry[theme].there /\ theme \in Theme
        BY <1>2, <1>3 DEF CatalogInit, Default, There
    <2>2. \A o \in Override : override[o].theme = "none" /\ override[o].days = {}
        BY DEF CatalogInit, NoOverride
    <2>3. UsesAgree
        BY <2>1, <2>2, CatalogAssumption DEF UsesAgree, InUse
    <2> QED
        BY <1>1, <2>1, <2>3 DEF ThemeInv, ThemesSettled
<1>8. ImageInv /\ OpenInv
    BY <1>1 DEF ImageInv, ImagesSettled, OpenInv, OpenSettled, CatalogInit
<1> QED
    BY <1>4, <1>5, <1>6, <1>7, <1>8

\* Every state of the lists, of what hangs on them, and of the requests at work satisfies IInv.
THEOREM CatalogInductive == CatalogSpec => []IInv
<1>1. CatalogInit => IInv
    BY TypesInit, SettledInit DEF IInv
<1>2. IInv /\ [CatalogNext]_catalogVars => IInv'
    BY TypesStep, AloneStep, DefaultStep, CurrencyStep, ThemeStep, ImageStep, OpenStep DEF IInv
<1> QED
    BY <1>1, <1>2, PTL DEF CatalogSpec

\* No list (currencies, themes, gateways, e-mail providers) has two defaults once nobody is
\* moving its default, unless the last move was cut in half.
THEOREM OneDefaultAlways == CatalogSpec => []OneDefault
<1>1. ASSUME IInv, NEW l \in Lists, l \notin torn, ~\E r \in Request : Moving(r, l)
      PROVE  Cardinality(Default(l)) <= 1
    <2>1. \A d, e \in Default(l) : d = e
        BY <1>1 DEF IInv, DefaultInv, OneOrMoving
    <2>2. CASE Default(l) = {}
        BY <2>2, FS_EmptySet
    <2>3. CASE Default(l) # {}
        <3>1. PICK d \in Default(l) : Default(l) = {d}
            BY <2>1, <2>3
        <3> QED
            BY <3>1, FS_Singleton
    <2> QED
        BY <2>2, <2>3
<1>2. IInv => OneDefault
    BY <1>1 DEF OneDefault
<1> QED
    BY <1>2, CatalogInductive, PTL

\* While the requests about themes do not overlap there is a default theme, and while those
\* about currencies do not there is an enabled currency.
THEOREM AlwaysAFallbackAlways == CatalogSpec => []AlwaysAFallback
<1>1. IInv => AlwaysAFallback
    BY DEF IInv, CurrencyInv, CurrenciesAgree, ThemeInv, ThemesSettled, AlwaysAFallback
<1> QED
    BY <1>1, CatalogInductive, PTL

\* While nothing overlaps in their area: a plan has a price for every currency and no other
\* once nobody is at work on them; every theme in use is there, and no day has two; the dark
\* image does not outlive the light one; and guests view only a public timeline.
THEOREM SettingsAgreeAlways == CatalogSpec => []SettingsAgree
<1>1. ASSUME IInv, Quiet("currencies"), NEW p \in Plan, plan[p] # {}
      PROVE  plan[p] = {"plan"} \cup There(Currency)
    BY <1>1 DEF IInv, CurrencyInv, CurrenciesAgree, PricesInv, Quiet
<1>2. IInv => PlansPriceEverything
    BY <1>1 DEF PlansPriceEverything
<1>3. IInv => ThemesAgree
    BY DEF IInv, ThemeInv, ThemesSettled, UsesAgree, ThemesAgree
<1>4. IInv => FollowersFollow
    BY DEF IInv, ImageInv, ImagesSettled, OpenInv, OpenSettled, FollowersFollow
<1>5. IInv => SettingsAgree
    BY <1>2, <1>3, <1>4 DEF SettingsAgree
<1> QED
    BY <1>5, CatalogInductive, PTL
=============================================================================
