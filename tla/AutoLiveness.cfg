SPECIFICATION FairSpec
CONSTANTS
    o1 = o1
    o2 = o2
    w1 = w1
    w2 = w2
    h1 = h1
    c1 = c1
    NoOrder = NoOrder
    Recovery = Recovery
    Orders = {o1, o2}
    Workers = {w1}
    Handlers = {h1}
    Callbacks = {c1}
    QueueCap = 4
    MaxAttempts = 2
    Requests = {"single", "bulk"}
    Outcomes = {"completed", "unconfirmed", "failed"}
    EarlyRequests = FALSE
    MaxRequests = 2
    MaxCrashes = 1
    MaxDbErrors = 0
PROPERTIES
    BatchFinishes
    JobSettles
CHECK_DEADLOCK FALSE
