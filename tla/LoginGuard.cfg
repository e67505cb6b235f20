\* Two requests at once, two codes of two attempts, a lock after two wrong passwords and one after three.
SPECIFICATION Spec
CONSTANTS
    Request = {r1, r2}
    Code = {c1, c2}
    Thresholds = {2, 3}
    MaxAttempts = 2
    MaxGuesses = 5
    MaxFailures = 1
INVARIANTS
    LocksAtThresholds
    CodesAreSpent
CONSTRAINT Apart
SYMMETRY Symmetry
\* Every code may have been sent, and every password been tried.
CHECK_DEADLOCK FALSE
