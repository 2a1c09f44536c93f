\* A reset of the password that is cut short, or that a login with the old one outlasts.
SPECIFICATION Spec
CONSTANTS
    Sessions = {s1, s2}
    Free = Free
    MaxTokens = 3
    MaxIdentities = 3
    Epochs = {e1, e2}
    Seqs <- MCSeqs
    Lengths <- MCLengths
    MaxParts = 2
    Composition <- MCComposition
    Bodies <- MCBodies
    Rate = 4
    Tolerance = 0
    PartsDeadline = 2
    MaxAge = 3
    BufferDepth = 1
    MaxOpen = 2
    EpochWindow = 3
    MaxEpochs = 1
    IssuedAt = 0
    FirstAssignment = 1
    MaxTime = 5
    Requests = {r1, r2}
    Sids <- MCSids
    Links <- MCLinks
    Idleness = 2
    Callers = {c1, c2}
    Count = 2
    Window = 4
    Lag = 1
    Most = 4
    Instances = {i1, i2}
    Executors = {w1}
    Slots <- MCSlots
    Placements <- MCPlacements
    MaxMishaps = 2
    NoInstance = NoInstance
    NoSlot = NoSlot
    Processes = {p1, p2, p3}
    CipherKeys = {k1, k2}
    NoKey = NoKey
    Types <- MCTypes
    Models <- MCModels
    Wide = 8
    Payloads <- MCPayloads
INVARIANT OldPasswordIsOut
CHECK_DEADLOCK FALSE
