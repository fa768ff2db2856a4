SPECIFICATION Spec
CONSTANTS
    Null = Null
    Expiry = 2
    Retention = 2
    Window = 1
    IsCar = TRUE
    MaxTime = 6
    MaxRequests = 1
    MaxFaults = 0
    Lead = 1
    CustomDays = {1, 3, 5}
    Procs = {"sweep", "client"}
    Outcomes = {"sold_elsewhere"}
    InitialRows <- MCRows
PROPERTIES
    CustomExpiryHonoured
\* The row may be gone and the clock at its bound.
CHECK_DEADLOCK FALSE
