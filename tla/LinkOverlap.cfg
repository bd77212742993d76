SPECIFICATION FairSpec
CONSTANTS
    t1 = t1
    t2 = t2
    i1 = i1
    i2 = i2
    i3 = i3
    Tokens = {t1, t2}
    Items = {i1, i2, i3}
    ItemsOf <- MCItemsOf
    NoToken = NoToken
    Handlers = {h1, h2}
    OneUse = TRUE
    MaxFaults = 1
CHECK_DEADLOCK FALSE
INVARIANTS
    AtMostOnce
    CompletedMeansUsable
PROPERTIES
    FinishedIsSettled
