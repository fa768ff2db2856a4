SPECIFICATION MCSpec
CONSTANTS
    s1 = s1
    i1 = i1  i2 = i2  f1 = f1  f2 = f2
    r1 = r1  r2 = r2  e1 = e1  e2 = e2  g1 = g1  g2 = g2
    u1 = u1  u2 = u2  j1 = j1  j2 = j2  j3 = j3
    p1 = p1  p2 = p2  p3 = p3
    Null = Null
    Source = Source
    Ids = {s1}
    Importers = {i1, i2}
    Pollers = {f1, f2}
    Jobs = {1}
    File <- OneFile
    Feeds <- ShortFeeds
    Stamps = {1, 2, 3, 4}
    MaxFaults = 1
    Processes = {g1, g2}
    Readers = {r1, r2}
    Editors = {e1, e2}
    Process <- ProcessOf
    Locking = {r2}
    MaxVersion = 2
    MaxOutages = 2
    Users = {u1, u2}
    Tasks = {j1, j2, j3}
    MaxVisits = 5
    MaxLosses = 1
    Photos = {p1, p2, p3}
    Cats = {"car", "parts"}
    Vehicles = {"car"}
    Saves = {1}
    MinPhotos = 2
    MaxPhotos = 2
    MaxTaps = 5
    MaxFailures = 1
INVARIANTS OkComplete SucceededComplete StaleExplained FollowsPreference OwnCategory
PROPERTIES DisabledAfterTwo
\* The user of the device may do nothing more.
CHECK_DEADLOCK FALSE
