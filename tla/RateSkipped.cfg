SPECIFICATION Spec
CONSTANTS
    USD = "USD"
    Currency = {"EUR", "GBP", "USD"}
    Crypto = {}
    Rank <- MCRank
    Users = {u1}
    Tasks = {t1, t2}
    MaxDay = 0
    MaxStarts = 3
    MaxFaults = 0
CHECK_DEADLOCK FALSE
PROPERTIES
    FiatCovered
