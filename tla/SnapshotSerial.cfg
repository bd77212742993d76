SPECIFICATION SnapshotSpec
CONSTANTS
    NoLink = NoLink
    Links = {l1}
    Syncs = {s1}
    Ext = {a, b}
    Overlap = FALSE
    MaxVersion = 2
    MaxFaults = 1
    MaxDeletes = 1
    Listeners = {n1, n2}
    MaxDay = 1
    MaxLosses = 1
    Drained = TRUE
CHECK_DEADLOCK FALSE
INVARIANTS
    SnapshotTypeOK
    UniqueAccounts
    
PROPERTIES
    NoRollback
    PastStays
