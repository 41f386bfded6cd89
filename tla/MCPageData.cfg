SPECIFICATION Spec
CONSTANTS
    Loads = {l1, l2}
    Keys = {k1, k2}
    Home = k1
    NoKey = NoKey
    MaxVer = 1
    Open <- OneOfEachKind
INVARIANTS
    TypeOK
    GuardedFresh
    ReadsOwnWrites
    AloneSettles
PROPERTIES
    SpinnerStops
