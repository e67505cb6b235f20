\* Two providers, one file of a kind the scan looks for and one of another; two requests, one failure.
SPECIFICATION Spec
CONSTANTS
    Provider = {local, s3}
    Bootstrapped = local
    Key = {photo, dark}
    Counted = {photo}
    Library = {photo}
    Process = {web}
    Web = web
    Request = {r1, r2}
    MaxConfig = 1
    MaxFailures = 1
INVARIANTS
    OneActive
    CacheFollows
    ScanSparesUsed
CONSTRAINT ScanOrSwitch
SYMMETRY Symmetry
\* Every provider may be there and every file be stored.
CHECK_DEADLOCK FALSE
