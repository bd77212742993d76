SPECIFICATION Spec
CONSTANTS
    Handlers = {h1}
    Syncs = {s1}
    Backfills = {b1}
    HasItemId = FALSE
    Window = 1
    MaxNow = 1
    MaxWebhooks = 2
    MaxInst = 1
    MaxFaults = 1
CHECK_DEADLOCK FALSE
INVARIANTS
    LastAcquiredShows
PROPERTIES
    StatusIsWebhooks
    OnlySyncsLoseItemId
