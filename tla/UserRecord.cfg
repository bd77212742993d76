SPECIFICATION PageSpec
CONSTANTS
    r1 = r1
    r2 = r2
    r3 = r3
    Requests = {r1, r2, r3}
    Ids = {"user", "transaction"}
    User = "user"
    Owned = {"transaction"}
    FieldsOf <- MCFieldsOf
    ColumnOf <- MCColumnOf
    ValuesOf <- MCValuesOf
    UpdatesOf <- MCUpdatesOf
    Joins = {"category"}
    Settings = {"currency", "timezone"}
    Defaults <- MCDefaults
    Passwords = {"p1", "p2"}
    Token = Token
    Null = Null
    Absent = Absent
    MaxFaults = 1
    MaxEdits = 1
SYMMETRY Symmetry
CHECK_DEADLOCK FALSE
INVARIANTS
    RegisteredCanLogin
    TokenKept
    
PROPERTIES
    
    RemovedStays
    OnlyEditsChange
