\* Two requests at once, two sessions, three tokens for each, one change that ends sessions, one failure.
SPECIFICATION Spec
CONSTANTS
    Session = {s1, s2}
    Request = {r1, r2}
    MaxTokens = 3
    MaxEpoch = 1
    MaxFailures = 1
INVARIANTS
    SessionsAreCurrent
    BannedIsOut
    TokensAreUsedOnce
PROPERTIES
    RevocationSticks
SYMMETRY Symmetry
\* The account may be gone, and every session with it.
CHECK_DEADLOCK FALSE
