CONSTANTS
    Customer = {c1}
    Payment = {p1}
    LastMonth = 0
    DaysInMonth = 4
    LastReminderDay = 3
    Fallible = TRUE
    Request = {"pause", "resume", "delete", "approve", "reject"}
    MarkStatus = {"PAID_CASH"}
    NONE = NONE
SPECIFICATION Spec
INVARIANTS
    TypeOK
    SuspensionGrounds
    OneReminderADay
    AutomatedRunBillsOnce
PROPERTIES
    OnlyPaymentRestoresService
    PaymentsFollowTheLedger
CHECK_DEADLOCK FALSE
