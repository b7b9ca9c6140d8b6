CONSTANTS
    Customer = {c1}
    Payment = {}
    LastMonth = 0
    DaysInMonth = 2
    LastReminderDay = 1
    Fallible = FALSE
    Request = {}
    MarkStatus = {"PAID_CASH"}
    NONE = NONE
SPECIFICATION FairSpec
PROPERTY CashLiftsSuspension
CHECK_DEADLOCK FALSE
