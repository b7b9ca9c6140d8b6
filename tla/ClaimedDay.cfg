CONSTANTS
    Customer = {c1}
    Payment = {}
    LastMonth = 0
    DaysInMonth = 2
    LastReminderDay = 1
    Fallible = TRUE
    Request = {}
    MarkStatus = {}
    NONE = NONE
SPECIFICATION Spec
INVARIANT ClaimedDayGetsGenerated
CHECK_DEADLOCK FALSE
