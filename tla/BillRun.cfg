CONSTANTS
    Customer = {c1, c2}
    Payment = {}
    LastMonth = 0
    DaysInMonth = 2
    LastReminderDay = 1
    Fallible = TRUE
    Request = {"generate", "finalInvoice", "deleteCustomer", "lateDelivery"}
    MarkStatus = {}
    NONE = NONE
SPECIFICATION Spec
SYMMETRY Symmetry
INVARIANTS
    MarkedBillsWentOut
    QueuedBillsAreInvoices

    
CHECK_DEADLOCK FALSE
