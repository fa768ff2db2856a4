SPECIFICATION FairSpec
CONSTANTS
    Null = Null
    Expiry = 2
    Retention = 2
    Window = 1
    IsCar = TRUE
    MaxTime = 6
    MaxRequests = 1
    MaxFaults = 1
    Lead = 1
    CustomDays = {1}
    Procs = {"sweep", "client"}
    Outcomes = {"sold_elsewhere"}
    InitialRows <- MCRows
PROPERTIES
    PurgeHonoursRetention RemovalHonoursWindow OverdueResolved
\* The row may be gone and the clock at its bound.
CHECK_DEADLOCK FALSE
