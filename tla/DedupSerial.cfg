SPECIFICATION Spec
CONSTANTS
    Items = {a}
    Unknown = {}
    Types = {TRANSACTIONS, HOLDINGS}
    Handlers = {h1}
    Window = 2
    MaxNow = 4
    MaxChanges = 2
    MaxFaults = 1
CHECK_DEADLOCK FALSE
INVARIANTS
    Spaced
    OnlyCloseChangesDropped
