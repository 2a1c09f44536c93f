\* Two transactions of a service at a time: three periods and a grant, or two changes of
\* the histories of a node and two groups.
SPECIFICATION Spec
CONSTANTS
    Sessions = {s1, s2}
    Free = Free
    Plans <- MCPlans
    Duration <- MCDuration
    MaxPeriods = 3
    MaxGrants = 1
    MaxSubTime = 1
    Node = Node
    Groups = {g1, g2}
    MaxRows = 3
    MaxTime = 2
SYMMETRY SessionSymmetry
INVARIANTS OneRenewalPerPeriod DeviceFollowsPlan HistoryTiles
PROPERTIES BonusReachesCurrent FollowsWhatItClosed ResolvedForGood
CHECK_DEADLOCK FALSE
