CONSTANTS
    gofo_d2d = gofo_d2d
    gofo_line = gofo_line
    standard = standard
    gofo = gofo
    ups = ups
    Handlers = {h1, h2}
    AutoRun = auto
    ManualKeys = {k1, k2}
    OperatorQuotes = {q1}
    AutoQuotes = {a1, a2}
    Channels <- MCChannels
    Carriers <- MCCarriers
    QuotedCarrier <- MCQuotedCarrier
    CodeCarrier <- MCCodeCarrier
    None = none
    Ops = {"place", "print"}
    MaxStarts = 2
    MaxCrashes = 1
    MaxDbErrors = 1
SPECIFICATION Spec
SYMMETRY Symmetry
CHECK_DEADLOCK FALSE
INVARIANTS
    OneCallPerKey
    PurchaseLeavesChoice
    PendingPurchaseInProgress
    LiveLabelNotRejected
    NoSecondLabel
PROPERTIES
    ImplementsLedger
    RejectedNotBoughtAgain
