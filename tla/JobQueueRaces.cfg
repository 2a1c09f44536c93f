\* Two workers, two jobs, of one key or of two: zombies, lost answers and notifications.
SPECIFICATION Spec
CONSTANTS
    Workers = {w1, w2}
    Keys = {k1, k2}
    Ids <- MCIds
    MaxAttempts = 2
    AttemptCap = 3
    Lease = 0
    BackoffBase = 1
    BackoffCap = 1
    OldAge = 0
    NoWorker = NoWorker
SYMMETRY MCSymmetry
INVARIANTS TypeOK ActiveKeysUnique NoLostWakeup
PROPERTIES FencedFinish ImplementsTaskQueue
