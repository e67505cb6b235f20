\* A video waiting for the worker and an image to be uploaded; two requests, two tasks, one stall.
SPECIFICATION Spec
CONSTANTS
    Media = {1, 2}
    Video = {1}
    Initial = {1}
    Day = {1}
    Request = {r1, r2}
    Task = {t1, t2}
    Cron = {"sweep"}
    Quota = 2
    MaxAttempts = 1
    MaxStalls = 1
    MaxFailures = 0
INVARIANTS
    TypeOK
    LiveHasFiles
PROPERTIES
    PurgesOnlyTrash
SYMMETRY Symmetry
\* Every request ends, and there may be nothing to sweep.
CHECK_DEADLOCK FALSE
