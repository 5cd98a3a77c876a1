\* Safety: four calls, two orders, faults at any time.
SPECIFICATION StoreSpec
CONSTANTS
    c1 = c1
    c2 = c2
    c3 = c3
    c4 = c4
    o1 = o1
    o2 = o2
    r1 = r1
    r2 = r2
    d1 = d1
    d2 = d2
    Calls = {c1, c2, c3, c4}
    OrderIds = {o1, o2}
    Riders = {r1, r2}
    Drivers = {d1, d2}
    Faults = TRUE
SYMMETRY Symmetry
INVARIANTS
    OneEventPerChange
    OneDriverPerOrder
    StatusAgreesWithRows
    GuardIsCurrentStatus
    OutcomeIsTrue
    LoserHasWinner
    HoldersCanGo
