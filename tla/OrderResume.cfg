SPECIFICATION Spec
CONSTANTS
    r1 = r1
    Runs = {r1}
    Orders = {1, 2, 3}
    Time <- TimeOfOrders
    Start = 0
    End = 4
    Step = 3
    PageSizes = {1}
    Limit = 2
    ResetAlone = TRUE
    MaxResets = 0
    MaxFaults = 1
INVARIANTS
    RerunResumes
