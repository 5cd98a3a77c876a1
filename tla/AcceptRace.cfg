\* Two accepts race for one order; nothing fails.
SPECIFICATION RoleSpec
CONSTANTS
    c1 = c1
    c2 = c2
    c3 = c3
    o1 = o1
    r1 = r1
    r2 = r2
    d1 = d1
    Calls = {c1, c2, c3}
    Posts = {c1}
    Accepts = {c2, c3}
    Gets = {}
    Invalid = {}
    Caching = {TRUE}
    Reading = {TRUE}
    Levels = {"shared"}
    OrderIds = {o1}
    Riders = {r1, r2}
    Drivers = {d1}
    Faults = FALSE
    Forms = {"canonical"}
INVARIANTS
    AcceptsGet201Or409
