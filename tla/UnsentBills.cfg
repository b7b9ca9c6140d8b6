CONSTANTS
    Customer = {c1, c2}
    Payment = {}
    LastMonth = 0
    DaysInMonth = 2
    LastReminderDay = 1
    Fallible = TRUE
    Request = {"generate"}
    MarkStatus = {}
    NONE = NONE
SPECIFICATION Spec
PROPERTY NextRunSendsTheRest
CHECK_DEADLOCK FALSE
