\* Two replicas with copies of their own and one they share.
SPECIFICATION CacheSpec
CONSTANTS
    r1 = r1
    r2 = r2
    Replicas = {r1, r2}
    Ttl = 2
    MaxLoad = 1
    HasL2 = TRUE
    MaxTime = 8
INVARIANTS
    StaleAtMostBound
    MissingIsNotKept
