CONSTANTS
    Customer = {c1}
    Payment = {p1}
    LastMonth = 1
    DaysInMonth = 3
    LastReminderDay = 2
    Fallible = FALSE
    Request = {"pause", "resume"}
    MarkStatus = {"PAID_CASH"}
    NONE = NONE
SPECIFICATION FairSpec
INVARIANTS
    SuspensionGrounds
PROPERTIES
    OnlyPaymentRestoresService
    UnpaidIsChased
    EveryInvoiceIsBilled
    CapturedMoneySettles
    PaymentLiftsSuspension
CHECK_DEADLOCK FALSE
