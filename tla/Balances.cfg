SPECIFICATION Spec
CONSTANTS
    USD = "USD"
    Currency = {"ETH", "EUR", "USD"}
    Crypto = {"ETH"}
    Rank <- MCRank
    PerMajor <- MCPerMajor
    Parts = 30
    MaxBigint = 100
    Scale = 20
    Accounts = {"broker", "card"}
    Manual = {"cash"}
    TypeOf <- MCTypeOf
    Reports <- MCReports
    Price <- MCPrice
    Preferred = {"ETH", "EUR"}
    MaxDay = 2
    MaxOverlap = 1
    Requests <- MCRequests
    Ranges <- MCRanges
INVARIANTS
    TypeOK
    HistoryFaithful
    RateNotStale
    
    DashboardAddsUp
    GreenIsGood
    
