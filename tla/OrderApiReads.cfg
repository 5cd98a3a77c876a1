\* Reads: an order is requested and accepted while three reads of its rider
\* come and go, with a cache of this process alone: L1 only, or L1 and L2.
SPECIFICATION RoleSpec
CONSTANTS
    c1 = c1
    c2 = c2
    c3 = c3
    c4 = c4
    c5 = c5
    o1 = o1
    r1 = r1
    d1 = d1
    Calls = {c1, c2, c3, c4, c5}
    Posts = {c1}
    Accepts = {c2}
    Gets = {c3, c4, c5}
    Invalid = {}
    Caching = {TRUE}
    Reading = {TRUE}
    Levels = {"off", "own"}
    OrderIds = {o1}
    Riders = {r1}
    Drivers = {d1}
    Faults = FALSE
    Forms = {"canonical"}
SYMMETRY ReaderSymmetry
INVARIANTS
    ReadsNeverGoBack
    ViewsNeverAhead
