\* Owners write their id in one of two ways.
SPECIFICATION RoleSpec
CONSTANTS
    c1 = c1
    c2 = c2
    c3 = c3
    o1 = o1
    r1 = r1
    r2 = r2
    d1 = d1
    Calls = {c1, c2, c3}
    Posts = {c1}
    Accepts = {c2, c3}
    Gets = {c2, c3}
    Invalid = {}
    Caching = {TRUE}
    Reading = {TRUE}
    Levels = {"own"}
    OrderIds = {o1}
    Riders = {r1, r2}
    Drivers = {d1}
    Faults = FALSE
    Forms = {"canonical", "other"}
INVARIANTS
    OwnersSeeTheirOrders
