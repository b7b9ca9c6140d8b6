CONSTANTS
    Customer = {c1}
    Driver = {d1}
    MaxOrder = 1
    Decision = {"DELIVERED"}
    Fallible = TRUE
    Request = {"Update", "AdminUpsert", "EditPlannedOrder", "UpdateDriver"}
    NONE = NONE
SPECIFICATION FairSpec
INVARIANTS
    TypeOK
    SweepSparesFirstShifts
PROPERTIES
    DecisionsStand
    PlanStands
    ForgottenShiftIsClosed
CHECK_DEADLOCK FALSE
