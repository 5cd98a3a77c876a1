\* Safety: any three requests for one order, ids written in two ways, without
\* cache and with one whose L2 other replicas share, faults and crashes at any time.
SPECIFICATION RoleSpec
CONSTANTS
    c1 = c1
    c2 = c2
    c3 = c3
    o1 = o1
    r1 = r1
    r2 = r2
    d1 = d1
    d2 = d2
    Calls = {c1, c2, c3}
    Posts = {c1, c2, c3}
    Gets = {c1, c2, c3}
    Accepts = {c1, c2, c3}
    Invalid = {}
    Caching = {TRUE, FALSE}
    Reading = {TRUE}
    Levels = {"shared"}
    OrderIds = {o1}
    Riders = {r1, r2}
    Drivers = {d1, d2}
    Faults = TRUE
    Forms = {"canonical", "other"}
SYMMETRY Symmetry
INVARIANTS
    ApiTypeOK
    CreatedIsStored
    RefusedWritesNothing
    ConflictsAreReal
    ViewsNeverAhead
    ShownToOwnerOnly
    ServerErrorsHaveCauses
    NobodyIsStuck
