\* Two workers, two operations, batches of one: the chain of the second operation.
SPECIFICATION Spec
CONSTANTS
    Users <- MCTwo
    Nodes <- MCOne
    Plans = {p1}
    Workers = {w1, w2}
    Nobody = Nobody
    Batch = 1
    MaxAttempts = 2
    MaxOps = 2
    MaxFaults = 0
    MismatchPossible = FALSE
SYMMETRY WorkerSymmetry
INVARIANT PublishedWhenQuiet
CHECK_DEADLOCK FALSE
