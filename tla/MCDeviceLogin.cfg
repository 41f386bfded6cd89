SPECIFICATION Spec
CONSTANTS
    Tries = 3
INVARIANTS
    TypeOK
    TokenByConsent
    OneFlowPerSession
    LogoutClears
PROPERTIES
    ChainEnds
