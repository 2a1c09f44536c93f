\* Two workers publish two users and one node against each other.
SPECIFICATION Spec
CONSTANTS
    Users <- MCTwo
    Nodes <- MCOne
    Plans = {p1, p2}
    Workers = {w1, w2}
    Nobody = Nobody
    Batch = 3
    MaxAttempts = 2
    MaxOps = 2
    MaxFaults = 1
    MismatchPossible = FALSE
SYMMETRY MCSymmetry
INVARIANTS PublishedWhenQuiet SequenceCoversRows CredentialsFollowRows NoDeadlock
PROPERTY WritesStreams
CHECK_DEADLOCK FALSE
