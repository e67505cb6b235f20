------------------------------- MODULE Orders -------------------------------
(***************************************************************************)
(* Credit purchases: the life of an order from checkout to payment and     *)
(* refund, the coupon it may redeem, and the balance it tops up.           *)
(*                                                                         *)
(* An order is paid by the mock gateway's completion, by the client's      *)
(* /verify call or by the gateway's webhook; the last two race, and a      *)
(* webhook may come late or more than once.  /verify asks only that the    *)
(* gateway signed some payment.  Each database call is atomic, a handler   *)
(* makes several; an error of one ends the handler, and a restart of the   *)
(* server forgets what every handler had still to do.                      *)
(*                                                                         *)
(* Code: routes/payments.js, routes/coupons.js.                            *)
(***************************************************************************)
EXTENDS Integers

CONSTANTS
    Order,        \* the orders one user may place
    Mock,         \* those placed with the mock gateway; the others use Razorpay
    PaidBefore,   \* whether the user has a payment the gateway signed before these orders
    Couponed,     \* those placed with the coupon
    Credits,      \* what a plan grants
    Price,        \* what a purchase of storage costs
    Caps,         \* the values maxRedemptions may take, 0 for null
    MaxRefunds,   \* bound: how often one order is refunded
    MaxErrors     \* bound: errors of the database and restarts of the server

ASSUME ConstantsAssumption ==
    /\ Mock \subseteq Order
    /\ PaidBefore \in BOOLEAN
    /\ Couponed \subseteq Order
    /\ Credits \in Nat \ {0}
    /\ Price \in Nat \ {0}
    /\ Caps \subseteq Nat
    /\ Caps # {}
    /\ MaxRefunds \in Nat
    /\ MaxErrors \in Nat

VARIABLES
    \* the order's document, and the checkout handler that creates it
    status, checkout,
    \* external: the gateway has taken the client's money for it
    captured,
    \* the coupon's document
    coupon, cap, redemptionCount,
    \* the user's balance
    credits,
    \* handlers that have flipped the order and go on to count the redemption,
    \* to grant the credits, or (a refund) to deduct them
    counting, granting, deducting,
    errors,       \* of the database, and restarts, so far
    \* history: transitions into and out of "paid", updates of the balance,
    \* redemptions counted and flagged
    payments, refunds, topUps, deductions, counted, flagged,
    \* history: paid orders that their failing checkout saved as failed, and the
    \* payments whose redemption or whose top-up an error or a restart has lost
    overwritten, uncounted, uncredited

orderVars   == <<status, checkout, captured>>
couponVars  == <<coupon, cap, redemptionCount>>
handlerVars == <<counting, granting, deducting>>
ledgerVars  == <<payments, refunds, topUps, deductions, counted, flagged>>
lossVars    == <<overwritten, uncounted, uncredited>>
historyVars == <<ledgerVars, lossVars>>
vars == <<orderVars, couponVars, credits, handlerVars, errors, historyVars>>

-----------------------------------------------------------------------------

PerOrder == [Order -> Nat]

\* Type invariant; the balance is a natural number: neither a refund nor a
\* purchase ever overdraws it.
TypeOK ==
    /\ status \in [Order -> {"none", "created", "paid", "failed", "refunded"}]
    /\ checkout \in [Order -> {"idle", "resolved", "created", "offered", "over"}]
    /\ captured \in [Order -> BOOLEAN]
    /\ coupon \in {"active", "inactive", "renamed", "deleted"}
    /\ cap \in Caps
    /\ redemptionCount \in Nat
    /\ credits \in Nat
    /\ counting \in PerOrder
    /\ granting \in PerOrder
    /\ deducting \in PerOrder
    /\ errors \in 0..MaxErrors
    /\ payments \in PerOrder
    /\ refunds \in [Order -> 0..MaxRefunds]
    /\ topUps \in PerOrder
    /\ deductions \in PerOrder
    /\ counted \in PerOrder
    /\ flagged \in PerOrder
    /\ overwritten \subseteq Order
    /\ uncounted \in PerOrder
    /\ uncredited \in PerOrder

Zero == [o \in Order |-> 0]

Init ==
    /\ status = [o \in Order |-> "none"]
    /\ checkout = [o \in Order |-> "idle"]
    /\ captured = [o \in Order |-> FALSE]
    /\ coupon = "active"
    /\ cap \in Caps
    /\ redemptionCount = 0
    /\ credits = 0
    /\ counting = Zero
    /\ granting = Zero
    /\ deducting = Zero
    /\ errors = 0
    /\ payments = Zero
    /\ refunds = Zero
    /\ topUps = Zero
    /\ deductions = Zero
    /\ counted = Zero
    /\ flagged = Zero
    /\ overwritten = {}
    /\ uncounted = Zero
    /\ uncredited = Zero

Bump(f, o) == [f EXCEPT ![o] = @ + 1]
Drop(f, o) == [f EXCEPT ![o] = @ - 1]

-----------------------------------------------------------------------------
(* Checkout                                                                *)

BelowCap == cap = 0 \/ redemptionCount < cap

\* resolveCoupon: the count is only looked at here, and may be stale later.
ResolveCoupon(o) ==
    /\ checkout[o] = "idle"
    /\ o \in Couponed => coupon = "active" /\ BelowCap
    /\ checkout' = [checkout EXCEPT ![o] = "resolved"]
    /\ UNCHANGED <<status, captured, couponVars, credits, handlerVars, errors, historyVars>>

CreateOrder(o) ==
    /\ checkout[o] = "resolved"
    /\ status' = [status EXCEPT ![o] = "created"]
    /\ checkout' = [checkout EXCEPT ![o] = "created"]
    /\ UNCHANGED <<captured, couponVars, credits, handlerVars, errors, historyVars>>

\* The gateway has made its order; its id is saved and the client is told.
OfferPayment(o) ==
    /\ checkout[o] = "created"
    /\ checkout' = [checkout EXCEPT ![o] = "offered"]
    /\ UNCHANGED <<status, captured, couponVars, credits, handlerVars, errors, historyVars>>

\* The gateway, or a write, has failed: the order is saved as failed, whatever
\* its stored status is by now.
FailCheckout(o) ==
    /\ checkout[o] = "created"
    /\ status' = [status EXCEPT ![o] = "failed"]
    /\ checkout' = [checkout EXCEPT ![o] = "over"]
    /\ overwritten' = IF status[o] = "paid" THEN overwritten \cup {o} ELSE overwritten
    /\ UNCHANGED <<captured, couponVars, credits, handlerVars, errors, ledgerVars,
                   uncounted, uncredited>>

\* External: the client pays at the gateway whose order it was told of.
Capture(o) ==
    /\ o \notin Mock
    /\ checkout[o] = "offered"
    /\ ~captured[o]
    /\ captured' = [captured EXCEPT ![o] = TRUE]
    /\ UNCHANGED <<status, checkout, couponVars, credits, handlerVars, errors, historyVars>>

-----------------------------------------------------------------------------
(* Payment.  findOneAndUpdate flips the status only from the ones its      *)
(* filter allows; the handler that flipped it goes on alone.               *)

BecomePaid(o) ==
    /\ status' = [status EXCEPT ![o] = "paid"]
    /\ payments' = Bump(payments, o)
    /\ counting' = Bump(counting, o)
    /\ UNCHANGED <<checkout, captured, couponVars, credits, granting, deducting, errors,
                   refunds, topUps, deductions, counted, flagged, lossVars>>

\* The mock gateway's order may be completed as soon as it is listed.
CompleteMock(o) ==
    /\ o \in Mock
    /\ status[o] = "created"
    /\ BecomePaid(o)

\* The client shows a payment that the gateway has signed; nothing compares it with
\* the gateway's order of the order it is shown for.
SomeSignature == PaidBefore \/ \E q \in Order \ Mock : captured[q]

\* Mutant: the status is checked by the read before, not by the update.
VerifyUnguarded(o) ==
    /\ o \notin Mock
    /\ status[o] # "none"
    /\ SomeSignature
    /\ counting[o] + granting[o] < 2
    /\ topUps[o] < 3
    /\ BecomePaid(o)

\* /verify completes any order of the client's that is not paid, a failed or a
\* refunded one too.
Verify(o) ==
    /\ o \notin Mock
    /\ status[o] \notin {"none", "paid"}
    /\ SomeSignature
    /\ BecomePaid(o)

\* The webhook finds the order by the gateway's id, with the same filter on its
\* status.  It is sent once the money is taken, and again when the gateway is not
\* sure that it arrived.
Webhook(o) ==
    /\ o \notin Mock
    /\ captured[o]
    /\ status[o] # "paid"
    /\ BecomePaid(o)

\* The coupon can still be found by the code the orders were placed with.
HasCode == coupon \in {"active", "inactive"}

\* Something fails, as long as the bound allows.
Errs == errors < MaxErrors /\ errors' = errors + 1

\* Mutant: the limit of the coupon is not part of the update.
CountUnlimited(o) ==
    /\ counting[o] > 0
    /\ IF o \in Couponed
       THEN /\ redemptionCount' = redemptionCount + 1
            /\ counted' = Bump(counted, o)
            /\ UNCHANGED flagged
       ELSE UNCHANGED <<redemptionCount, counted, flagged>>
    /\ counting' = Drop(counting, o)
    /\ granting' = Bump(granting, o)
    /\ UNCHANGED <<orderVars, coupon, cap, credits, deducting, errors,
                   payments, refunds, topUps, deductions, lossVars>>

\* Mutant: a redemption over the limit is passed over in silence.
CountUnflagged(o) ==
    /\ counting[o] > 0
    /\ IF o \in Couponed /\ HasCode /\ BelowCap
       THEN /\ redemptionCount' = redemptionCount + 1
            /\ counted' = Bump(counted, o)
            /\ UNCHANGED flagged
       ELSE UNCHANGED <<redemptionCount, counted, flagged>>
    /\ counting' = Drop(counting, o)
    /\ granting' = Bump(granting, o)
    /\ UNCHANGED <<orderVars, coupon, cap, credits, deducting, errors,
                   payments, refunds, topUps, deductions, lossVars>>

\* incrementCouponRedemption, atomically below the limit, else flagCouponOverLimit,
\* whose own failure the logger swallows: the handler goes on.
CountRedemption(o) ==
    /\ counting[o] > 0
    /\ \/ /\ o \in Couponed
          /\ HasCode /\ BelowCap
          /\ redemptionCount' = redemptionCount + 1
          /\ counted' = Bump(counted, o)
          /\ UNCHANGED <<flagged, errors, uncounted>>
       \/ /\ o \in Couponed
          /\ ~HasCode \/ ~BelowCap
          /\ \/ flagged' = Bump(flagged, o) /\ UNCHANGED <<errors, uncounted>>
             \/ Errs /\ uncounted' = Bump(uncounted, o) /\ UNCHANGED flagged
          /\ UNCHANGED <<redemptionCount, counted>>
       \/ /\ o \notin Couponed
          /\ UNCHANGED <<redemptionCount, counted, flagged, errors, uncounted>>
    /\ counting' = Drop(counting, o)
    /\ granting' = Bump(granting, o)
    /\ UNCHANGED <<orderVars, coupon, cap, credits, deducting, payments, refunds, topUps,
                   deductions, overwritten, uncredited>>

\* Mutant: the handler answers before the balance is updated.
GrantNothing(o) ==
    /\ granting[o] > 0
    /\ granting' = Drop(granting, o)
    /\ UNCHANGED <<orderVars, couponVars, credits, counting, deducting, errors, historyVars>>

GrantCredits(o) ==
    /\ granting[o] > 0
    /\ granting' = Drop(granting, o)
    /\ credits' = credits + Credits
    /\ topUps' = Bump(topUps, o)
    /\ UNCHANGED <<orderVars, couponVars, counting, deducting, errors,
                   payments, refunds, deductions, counted, flagged, lossVars>>

-----------------------------------------------------------------------------
(* Refund, spending, and the coupon's administration                       *)

\* Mutant: the order's status is not part of the refund's update.
RefundAgain(o) ==
    /\ status[o] \in {"paid", "refunded"}
    /\ deductions[o] + deducting[o] < 2
    /\ status' = [status EXCEPT ![o] = "refunded"]
    /\ refunds' = Bump(refunds, o)
    /\ deducting' = Bump(deducting, o)
    /\ UNCHANGED <<checkout, captured, couponVars, credits, counting, granting, errors,
                   payments, topUps, deductions, counted, flagged, lossVars>>

RefundOrder(o) ==
    /\ status[o] = "paid"
    /\ refunds[o] < MaxRefunds
    /\ status' = [status EXCEPT ![o] = "refunded"]
    /\ refunds' = Bump(refunds, o)
    /\ deducting' = Bump(deducting, o)
    /\ UNCHANGED <<checkout, captured, couponVars, credits, counting, granting, errors,
                   payments, topUps, deductions, counted, flagged, lossVars>>

\* Mutant: the balance is not clamped to zero.
DeductUnclamped(o) ==
    /\ deducting[o] > 0
    /\ deducting' = Drop(deducting, o)
    /\ credits' = credits - Credits
    /\ deductions' = Bump(deductions, o)
    /\ UNCHANGED <<orderVars, couponVars, counting, granting, errors,
                   payments, refunds, topUps, counted, flagged, lossVars>>

DeductCredits(o) ==
    /\ deducting[o] > 0
    /\ deducting' = Drop(deducting, o)
    /\ credits' = IF credits >= Credits THEN credits - Credits ELSE 0
    /\ deductions' = Bump(deductions, o)
    /\ UNCHANGED <<orderVars, couponVars, counting, granting, errors,
                   payments, refunds, topUps, counted, flagged, lossVars>>

\* The purchase of storage: the balance is checked and debited in one update.
SpendCredits ==
    /\ credits >= Price
    /\ credits' = credits - Price
    /\ UNCHANGED <<orderVars, couponVars, handlerVars, errors, historyVars>>

\* The code may be changed as well, and changed back.
UpdateCoupon ==
    /\ coupon # "deleted"
    /\ coupon' \in {"active", "inactive", "renamed"}
    /\ cap' \in Caps
    /\ UNCHANGED <<orderVars, redemptionCount, credits, handlerVars, errors, historyVars>>

DeleteCoupon ==
    /\ coupon # "deleted"
    /\ coupon' = "deleted"
    /\ UNCHANGED <<orderVars, cap, redemptionCount, credits, handlerVars, errors, historyVars>>

\* A call to the database throws: the handler that made it answers 500 and does no
\* more.  (A write that was applied before the error reached the handler is the
\* handler's step followed by the loss of the next one.)
Throw(o) ==
    /\ Errs
    /\ \/ /\ counting[o] > 0
          /\ counting' = Drop(counting, o)
          /\ uncounted' = Bump(uncounted, o)
          /\ uncredited' = Bump(uncredited, o)
          /\ UNCHANGED <<checkout, granting, deducting>>
       \/ /\ granting[o] > 0
          /\ granting' = Drop(granting, o)
          /\ uncredited' = Bump(uncredited, o)
          /\ UNCHANGED <<checkout, counting, deducting, uncounted>>
       \/ /\ deducting[o] > 0
          /\ deducting' = Drop(deducting, o)
          /\ UNCHANGED <<checkout, counting, granting, uncounted, uncredited>>
       \/ /\ checkout[o] \in {"resolved", "created"}
          /\ checkout' = [checkout EXCEPT ![o] = "over"]
          /\ UNCHANGED <<handlerVars, uncounted, uncredited>>
    /\ UNCHANGED <<status, captured, couponVars, credits, ledgerVars, overwritten>>

\* The server restarts: every handler in progress is gone.
Crash ==
    /\ Errs
    /\ checkout' = [o \in Order |->
                       IF checkout[o] \in {"resolved", "created"} THEN "over" ELSE checkout[o]]
    /\ uncounted' = [o \in Order |-> uncounted[o] + counting[o]]
    /\ uncredited' = [o \in Order |-> uncredited[o] + counting[o] + granting[o]]
    /\ counting' = Zero
    /\ granting' = Zero
    /\ deducting' = Zero
    /\ UNCHANGED <<status, captured, couponVars, credits, ledgerVars, overwritten>>

-----------------------------------------------------------------------------

Settle(o) == CountRedemption(o) \/ GrantCredits(o) \/ DeductCredits(o)

Next ==
    \/ \E o \in Order :
          \/ ResolveCoupon(o) \/ CreateOrder(o) \/ OfferPayment(o) \/ FailCheckout(o)
          \/ Capture(o)
          \/ CompleteMock(o) \/ Verify(o) \/ Webhook(o)
          \/ RefundOrder(o)
          \/ Settle(o) \/ Throw(o)
    \/ SpendCredits \/ UpdateCoupon \/ DeleteCoupon
    \/ Crash

\* A handler that has begun goes on, or ends with an error: the event loop resumes it.
Fairness == \A o \in Order :
    WF_vars(CountRedemption(o)) /\ WF_vars(GrantCredits(o)) /\ WF_vars(DeductCredits(o))

Spec == Init /\ [][Next]_vars

FairSpec == Spec /\ Fairness

-----------------------------------------------------------------------------
(* Properties                                                              *)

\* However /verify, the webhook and the completion of a mock order race, however
\* often a webhook is delivered and whatever payment is shown for an order, the order
\* tops the balance up at most once more than it left "paid": by a refund, or by a
\* checkout that failed after the order was paid and saved it as failed.
CreditedOncePerPayment ==
    \A o \in Order : topUps[o] + counting[o] + granting[o]
                         <= refunds[o] + 1 + (IF o \in overwritten THEN 1 ELSE 0)

\* Two refunds of one order, or a refund of an order never paid, never take
\* credits back twice.
DeductedOncePerPayment ==
    \A o \in Order : deductions[o] + deducting[o] <= payments[o]

\* Concurrent checkouts may all see the coupon below its limit; the redemptions
\* counted still never exceed a limit the coupon has had.
CouponCapHolds ==
    0 \notin Caps => \E c \in Caps : redemptionCount <= c

\* Every payment made with the coupon is counted, or flagged for the administrator,
\* or about to be; nothing else than an error or a restart at that very step, or the
\* failed write of the flag, loses one, and it loses no other.
RedemptionsAccounted ==
    \A o \in Couponed : counted[o] + flagged[o] + counting[o] + uncounted[o] = payments[o]

\* Every payment is followed by its top-up, except those whose handler an error or a
\* restart has ended on the way: nothing resumes them.
PaymentsAreCredited ==
    \A o \in Order : topUps[o] + uncredited[o] < payments[o]
                         ~> topUps[o] + uncredited[o] >= payments[o]
=============================================================================
