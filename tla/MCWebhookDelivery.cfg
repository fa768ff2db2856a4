SPECIFICATION FairSpec
CONSTANTS
    h1 = h1
    h2 = h2
    w1 = w1
    w2 = w2
    Hooks = {h1, h2}
    Events = {"sold"}
    Workers = {w1, w2}
    BATCH_LIMIT = 2
    BACKOFF_SECONDS <- MCBackoff
    MAX_ATTEMPTS = 2
    LEASE_SECONDS = 1
    MaxFaults = 1
    None = None
INVARIANTS
    ExclusiveLease PostsAccounted
PROPERTIES
    BackoffRespected KeepsContract EveryDeliverySettles
\* Everything may be delivered.
CHECK_DEADLOCK FALSE
