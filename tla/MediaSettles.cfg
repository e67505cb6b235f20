\* Two uploads, a video's and an image's, that may race for the room of one, or one upload and another request.
SPECIFICATION FairSpec
CONSTANTS
    Media = {1, 2}
    Video = {1}
    Initial = {}
    Day = {1, 2}
    Request = {r1, r2}
    Task = {t1}
    Cron = {"reconcile"}
    Quota = 1
    MaxAttempts = 2
    MaxStalls = 0
    MaxFailures = 1
INVARIANTS
    QuotaHolds
PROPERTIES
    VideosSettle
    SummariesConverge
\* Every request ends, and there may be no day to reconcile.
CHECK_DEADLOCK FALSE
