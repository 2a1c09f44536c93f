\* Two workers, fair, on one operation of a node of three users in batches of one: one that
\* lost its lease goes on beside the one that took the job over.
SPECIFICATION FairSpec
CONSTANTS
    Users <- MCThree
    Nodes <- MCOne
    Plans = {p1}
    Workers = {w1, w2}
    Nobody = Nobody
    Batch = 1
    MaxAttempts = 1
    MaxOps = 1
    MaxFaults = 1
    MismatchPossible = TRUE
INVARIANT RevocationsNotWithheld
PROPERTY QueueDrains
CHECK_DEADLOCK FALSE
