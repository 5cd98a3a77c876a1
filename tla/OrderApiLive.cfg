\* Liveness, the tables' own specification and the abstract ride service: three
\* requests, no symmetry.
SPECIFICATION FairRoleSpec
CONSTANTS
    c1 = c1
    c2 = c2
    c3 = c3
    o1 = o1
    r1 = r1
    d1 = d1
    Calls = {c1, c2, c3}
    Posts = {c1}
    Gets = {c2, c3}
    Accepts = {c2, c3}
    Invalid = {c2, c3}
    Caching = {TRUE}
    Reading = {TRUE, FALSE}
    Levels = {"own"}
    OrderIds = {o1}
    Riders = {r1}
    Drivers = {d1}
    Faults = TRUE
    Forms = {"canonical"}
PROPERTIES
    EveryRequestAnswered
    UsesTheStore
    ImplementsRide
    EveryStatementEnds
