SPECIFICATION FairSpec
CONSTANTS
    NoLink = NoLink
    Links = {l1}
    Syncs = {s1, s2}
    Ext = {a}
    Overlap = TRUE
    MaxVersion = 2
    MaxFaults = 1
    MaxDeletes = 1
CHECK_DEADLOCK FALSE
INVARIANTS
    CopiesBounded
PROPERTIES
    BalancesCatchUp
