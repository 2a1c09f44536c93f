\* Two workers and a job, fair: what dies, fails or overruns its lease is settled.
SPECIFICATION FairSpec
CONSTANTS
    Workers = {w1, w2}
    Keys = {k1}
    Ids <- MCOneId
    MaxAttempts = 2
    AttemptCap = 3
    Lease = 1
    BackoffBase = 1
    BackoffCap = 1
    OldAge = 0
    NoWorker = NoWorker
PROPERTY EventuallySettled
