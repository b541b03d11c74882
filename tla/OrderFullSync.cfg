SPECIFICATION FairSpec
CONSTANTS
    r1 = r1
    r2 = r2
    Runs = {r1, r2}
    Orders = {1, 2, 3}
    Time <- TimeOfOrders
    Start = 0
    End = 3
    Step = 3
    PageSizes = {1}
    Limit = 2
    ResetAlone = TRUE
    MaxResets = 1
    MaxFaults = 1
INVARIANTS
    ProgressIsEarned
    FinishedWindowIsComplete
    NothingElseLost
PROPERTIES
    LoneRunEnds
