SPECIFICATION Spec
CONSTANTS
    Null = Null
    Expiry = 2
    Retention = 2
    Window = 1
    IsCar = TRUE
    MaxTime = 4
    MaxRequests = 2
    MaxFaults = 0
    Lead = 1
    CustomDays = {1}
    Procs = {"sweep", "client"}
    Outcomes = {"sold_elsewhere"}
    InitialRows <- MCRows
INVARIANTS
    TypeOK ExtensionWithinExpiry
PROPERTIES
    SoldStaysSold RenewalPersisted
\* The row may be gone and the clock at its bound.
CHECK_DEADLOCK FALSE
