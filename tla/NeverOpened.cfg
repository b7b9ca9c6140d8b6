CONSTANTS
    Customer = {c1}
    Driver = {d1}
    MaxOrder = 1
    Decision = {"DELIVERED"}
    Fallible = FALSE
    Request = {}
    NONE = NONE
SPECIFICATION FairSpec
PROPERTY NeverOpenedIsClosed
CHECK_DEADLOCK FALSE
