\* A worker that dies every time it runs the job.
SPECIFICATION FairSpec
CONSTANTS
    Workers = {w1}
    Keys = {k1}
    Ids <- MCOneId
    MaxAttempts = 2
    AttemptCap = 3
    Lease = 1
    BackoffBase = 1
    BackoffCap = 1
    OldAge = 0
    NoWorker = NoWorker
PROPERTY DyingJobReachesDead
