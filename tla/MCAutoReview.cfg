\* Three photos, one of them explicit, two reviewers, two interventions, two faults.
SPECIFICATION FairSpec
CONSTANTS
  p1 = p1
  p2 = p2
  p3 = p3
  r1 = r1
  r2 = r2
  Photos = {p1, p2, p3}
  Explicit = {p1}
  Reviewers = {r1, r2}
  MinPhotos = 1
  MaxActs = 2
  MaxFaults = 2
\* The owner and administrators may do nothing more, and the review is done.
CHECK_DEADLOCK FALSE
INVARIANT ExplicitHidden
PROPERTIES InnocentStay Reviewed
