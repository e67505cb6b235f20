\* Two orders with one coupon of a single redemption, by either gateway; a refund of each, one failure;
\* the client has a payment from before.
SPECIFICATION FairSpec
CONSTANTS
    Order = {1, 2}
    Mock = {1}
    PaidBefore = TRUE
    Couponed = {1, 2}
    Credits = 1
    Price = 1
    Caps = {1}
    MaxRefunds = 1
    MaxErrors = 1
INVARIANTS
    TypeOK
    CreditedOncePerPayment
    DeductedOncePerPayment
    CouponCapHolds
    RedemptionsAccounted
PROPERTIES
    PaymentsAreCredited
\* Nobody has to place an order, and every order may be over.
CHECK_DEADLOCK FALSE
