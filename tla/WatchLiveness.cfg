SPECIFICATION FairSpec
CONSTANTS
    w1 = w1
    h1 = h1
    p1 = p1
    p2 = p2
    None = None
    Watchers = {w1}
    Callers = {h1}
    Ids = {p1, p2}
    Kinds = {"dps", "dps_other_shop", "oms"}
    Requests = {"list", "upload", "report"}
    MaxRequests = 1
    MaxFaults = 1
    MaxMoves = 1
PROPERTIES
    ShippedLeavesWatch
    ParcelIsRecorded
CHECK_DEADLOCK FALSE
