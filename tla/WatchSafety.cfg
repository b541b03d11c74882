SPECIFICATION Spec
CONSTANTS
    w1 = w1
    h1 = h1
    p1 = p1
    p2 = p2
    None = None
    Watchers = {w1}
    Callers = {h1}
    Ids = {p1, p2}
    Kinds = {"dps"}
    Requests = {"sync", "create", "hand_over", "report"}
    MaxRequests = 1
    MaxFaults = 1
    MaxMoves = 1
SYMMETRY Symmetry
INVARIANTS
    OneActiveParcel
    ArchivedMeansShipped
PROPERTY ResolvedStays
CHECK_DEADLOCK FALSE
