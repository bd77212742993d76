SPECIFICATION GateSpec
CONSTANTS
    Items = {a}
    Unknown = {x}
    Types = {TRANSACTIONS}
    Handlers = {h1, h2}
    Window = 2
    MaxNow = 2
    MaxChanges = 1
    MaxFaults = 1
    MaxAge = 1
    CacheTTL = 1
    MaxKeys = 2
SYMMETRY HandlerSymmetry
CHECK_DEADLOCK FALSE
INVARIANTS
    OnlyOverlapsDuplicate
PROPERTIES
    GenuineAccepted
