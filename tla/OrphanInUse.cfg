\* The dark image of a theme, which the scan does not look for, and a photo; one request.
SPECIFICATION Spec
CONSTANTS
    Provider = {local}
    Bootstrapped = local
    Key = {photo, dark}
    Counted = {photo}
    Library = {}
    Process = {web}
    Web = web
    Request = {r1}
    MaxConfig = 0
    MaxFailures = 0
INVARIANTS
    OrphansAreUnused
\* Every provider may be there and every file be stored.
CHECK_DEADLOCK FALSE
