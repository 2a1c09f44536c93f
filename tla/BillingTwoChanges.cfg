\* Two changes of one history at a time.
SPECIFICATION BillingSpec
CONSTANTS
    Sessions = {s1, s2}
    Free = Free
    Node = Node
    Groups = {g1, g2}
    MaxRows = 4
    MaxTime = 2
SYMMETRY Symmetry
PROPERTY OneOfTwoIsRefused
CHECK_DEADLOCK FALSE
