CONSTANTS
    Product = {"milk", "butter"}
    LastDay = 2
    Hour = {0, 3, 15}
    Cutoff <- MCCutoff
    Order <- MCOrder
    Items <- MCItems
    LastLink = 1
    LastChange = 2
    LastIncident = 1
    Held = {"morning"}
    Fallible = TRUE
    NONE = NONE
SPECIFICATION FairSpec
INVARIANTS
    TypeOK
    
    ChangesReachTheRound
    PlannedADayAhead
    NewestApprovalIsLive
PROPERTIES
    OneSlotPerCustomer
    RoundClosed
    ChangesFollowTheBook
    ApprovedChangesLand
CHECK_DEADLOCK FALSE
