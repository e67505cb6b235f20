\* Weak fairness of the worker only; the target already holds a file.
SPECIFICATION FairSpec
CONSTANTS
    NKeys = 2
    FixedKeys = {}
    InitialSource = {1}
    InitialTarget = {1}
    PageSize = 1
    Concurrency = 2
    MaxAttempts = 2
    MaxVerifyPasses = 2
    MaxVersion = 1
    MaxInterruptions = 1
    MaxCancels = 1
PROPERTIES
    JobEnds
    ImplementsHandover
\* Nobody has to send a request once the job is over.
CHECK_DEADLOCK FALSE
