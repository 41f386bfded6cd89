SPECIFICATION Spec
CONSTANTS
    Ports = {22, 2222}
    DefaultPort = 22
    BasePorts <- NoPortLines
    Calls = {c1}
    MayCrash = FALSE
INVARIANTS
    ProvenPortServed
