\* Two users, three publications, every status; answers are lost at any point.
SPECIFICATION FairSpec
CONSTANTS
    Users = {u1, u2}
    MaxSeq = 3
INVARIANTS RevocationsApplied HiddenGrantsAreOwed
PROPERTIES CursorFollows Converges
