\* Two licences and two uploads at once, two replicas of the worker, one fault.
SPECIFICATION FairSpec
CONSTANTS
    t1 = t1  t2 = t2  x1 = x1  u1 = u1  u2 = u2  w1 = w1  w2 = w2
    Trade = {t1, t2}
    Tax = {x1}
    Rows = {1}
    Uploads = {u1, u2}
    Workers = {w1, w2}
    MaxFaults = 1
    Null = Null
INVARIANTS NoticeOnce ScoredOnly
PROPERTIES VerifiedOnDocuments RowSettles
\* All documents, rows and faults may be used up.
CHECK_DEADLOCK FALSE
