\* An avatar that is overwritten in place, a media file that may be uploaded at any time; the
\* target already holds an object under the avatar's key. One cancel, one interruption.
SPECIFICATION Spec
CONSTANTS
    NKeys = 2
    FixedKeys = {1}
    InitialSource = {1}
    InitialTarget = {1}
    PageSize = 1
    Concurrency = 2
    MaxAttempts = 2
    MaxVerifyPasses = 2
    MaxVersion = 2
    MaxInterruptions = 1
    MaxCancels = 1
INVARIANTS
    TypeOK
    ActiveFollowsStatus
    DoneIsCopied
    NoFileLost
    NothingSlips
PROPERTIES
    SourceEmptiedOnlyIfCopied
\* Nobody has to send a request once the job is over.
CHECK_DEADLOCK FALSE
