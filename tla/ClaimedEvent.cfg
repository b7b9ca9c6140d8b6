CONSTANTS
    Customer = {c1}
    Payment = {p1}
    LastMonth = 0
    DaysInMonth = 2
    LastReminderDay = 1
    Fallible = TRUE
    Request = {}
    MarkStatus = {}
    NONE = NONE
SPECIFICATION Spec
INVARIANT ClaimedEventIsWorkedOn
CHECK_DEADLOCK FALSE
