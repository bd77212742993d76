SPECIFICATION FairSpec
CONSTANTS
    t1 = t1
    t2 = t2
    i1 = i1
    i2 = i2
    i3 = i3
    Tokens = {t1, t2}
    Items = {i1, i2, i3}
    ItemsOf <- MCItemsOf
    NoToken = NoToken
    Handlers = {h1}
    OneUse = TRUE
    MaxFaults = 2
CHECK_DEADLOCK FALSE
PROPERTIES
    ImplementsLinkSession
    FinishedIsUsable
