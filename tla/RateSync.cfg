SPECIFICATION Spec
CONSTANTS
    USD = "USD"
    Currency = {"ETH", "EUR", "USD"}
    Crypto = {"ETH"}
    Rank <- MCRank
    Users = {u1, u2}
    Tasks = {t1, t2}
    MaxDay = 1
    MaxStarts = 3
    MaxFaults = 1
SYMMETRY TaskSymmetry
CHECK_DEADLOCK FALSE
INVARIANTS
    TypeOK
    RowsForward
    NothingForgotten
PROPERTIES
    CryptoCovered
