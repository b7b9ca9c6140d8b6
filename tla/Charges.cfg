CONSTANTS
    Price = {1, 2}
    Quantity = {1, 2}
    MonthLength = 2
    LastDay = 3
    LastRequest = 4
    MaxRunning = 2
    Fallible = TRUE
    NONE = NONE
SPECIFICATION FairSpec
INVARIANTS
    TypeOK
    
    AppliedIsExact
PROPERTIES
    PricesStandWithinMonth
    CorrectionsKeepPrices
    SettledTotalStands
    QueuedPricesLand
CHECK_DEADLOCK FALSE
