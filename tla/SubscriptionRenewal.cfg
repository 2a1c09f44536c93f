\* Two transactions at a time, a renewal and a change of plan, two plans.
SPECIFICATION SubscriptionSpec
CONSTANTS
    Sessions = {s1, s2}
    Free = Free
    Plans <- MCPlans
    Duration <- MCDuration
    MaxPeriods = 3
    MaxGrants = 1
    MaxSubTime = 1
SYMMETRY SessionSymmetry
PROPERTY RenewalFollowsCurrent
CHECK_DEADLOCK FALSE
