SPECIFICATION MCSpec
CONSTANTS
    ann = ann  bob = bob
    d1 = d1  d2 = d2  d3 = d3  c1 = c1  c2 = c2  c3 = c3
    p1 = p1  p2 = p2  b1 = b1  b2 = b2
    q1 = q1  q2 = q2  l1 = l1  l2 = l2  cars = cars  bikes = bikes
    Null = Null
    Users = {ann, bob}
    Listings = {p1, p2}
    Calls = {c1, c2, c3}
    Web = TRUE
    Documents = {d1, d2, d3}
    Form = "car"
    Photos = {p1, p2}
    Batches = {b1, b2}
    Car = TRUE
    MaxPhotos = 2
    MinPhotos = 2
    Queries = {q1, q2}
    Default = q1
    FirstPages = {l1, l2}
    PageSize = 2
    Cap = 4
    MaxRows = 5
    MaxChoices = 2
    MaxApprovals = 1
    MaxRefusals = 1
    Kinds = {cars, bikes}
    KindOf <- KindOfRow
    MaxRow = 4
    MaxTime = 4
    MaxEdits = 1
SYMMETRY Symmetric
INVARIANTS
    ShownAgrees OwnDocument PhotosKept PostedOnce NoneLeftOut NoneTwice NothingBetween
\* After a listing is posted its form is gone, and a feed that has ended stays
\* as it is: the system may stop.
CHECK_DEADLOCK FALSE
