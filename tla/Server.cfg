\* Three connections: one active, one idle and one that is just coming.
SPECIFICATION FairServerSpec
CONSTANTS
    c1 = c1
    c2 = c2
    c3 = c3
    Conns = {c1, c2, c3}
INVARIANTS
    DrainedOnSuccess
    ReleasedInOrder
    EndsWellOnlyWhenTold
PROPERTIES
    EndsWhenToldOrBroken
