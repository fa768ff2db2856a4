\* Three events of one visitor, batches of two, one fault.
SPECIFICATION FairSpec
CONSTANTS
  e1 = e1
  e2 = e2
  e3 = e3
  v1 = v1
  Null = Null
  Events = {e1, e2, e3}
  Visitors = {v1}
  Limit = 2
  Window = 1
  MaxTime = 3
  MaxFaults = 1
INVARIANTS CountedOnce Accounted TallyAgrees LeadsApart
PROPERTY CaughtUp
