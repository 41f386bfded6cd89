SPECIFICATION Spec
CONSTANTS
    Slots = {h1, h2}
    NoSlot = NoSlot
    Ops <- OneOfEachKind
    Crowds <- Encounters
    Links <- FromEveryPage
SYMMETRY Interchangeable
INVARIANTS
    TypeOK
    WriteOnlyConfirmed
    RetriesSafe
    WaitersHeld
    OneAtATime
    OutcomeShown
