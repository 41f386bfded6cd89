SPECIFICATION Spec
CONSTANTS
    Ports = {22, 2222}
    DefaultPort = 22
    BasePorts <- NoPortLines
    Calls = {c1, c2}
    MayCrash = TRUE
SYMMETRY Interchangeable
INVARIANTS
    TypeOK
    OnlyPortKept
    PendingAnswerTrue
    ConfirmChooses
