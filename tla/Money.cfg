CONSTANTS
    Customer = {c1}
    Payment = {p1, p2}
    LastMonth = 0
    DaysInMonth = 3
    LastReminderDay = 2
    Fallible = TRUE
    Request = {"approve", "deleteCustomer"}
    MarkStatus = {"PENDING", "PAID_ONLINE", "PAID_CASH"}
    NONE = NONE
SPECIFICATION Spec
SYMMETRY Symmetry
INVARIANTS
    AuditAgrees
    OneReceiptPerPayment
PROPERTIES
    WebhookNeverOverwrites
CHECK_DEADLOCK FALSE
