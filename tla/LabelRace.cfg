CONSTANTS
    gofo_d2d = gofo_d2d
    gofo_line = gofo_line
    standard = standard
    gofo = gofo
    ups = ups
    Handlers = {h1, h2}
    AutoRun = auto
    ManualKeys = {k1, k2}
    OperatorQuotes = {q1}
    AutoQuotes = {}
    Channels <- MCChannels
    Carriers <- MCCarriers
    QuotedCarrier <- MCQuotedCarrier
    CodeCarrier <- MCCodeCarrier
    None = none
    Ops = {"place"}
    MaxStarts = 2
    MaxCrashes = 0
    MaxDbErrors = 0
SPECIFICATION Spec
SYMMETRY Symmetry
CHECK_DEADLOCK FALSE
INVARIANT ChosenChannelIsBought
