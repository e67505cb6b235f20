\* Two currencies and two themes, one of each in use, one gateway and two mailers; two requests, one failure.
SPECIFICATION CatalogSpec
CONSTANTS
    Currency = {inr, usd}
    Theme = {plain, forest}
    Gateway = {razorpay, mock}
    Mailer = {smtp}
    Standard = {inr, plain, razorpay, smtp}
    Plan = {p1}
    Override = {o1, o2}
    Date = {monday, tuesday}
    Request = {r1, r2}
    MaxFailures = 1
INVARIANTS
    OneDefault
    AlwaysAFallback
    SettingsAgree
CONSTRAINT Interesting
SYMMETRY Symmetry
\* Every entry may be there, and every edit been made.
CHECK_DEADLOCK FALSE
