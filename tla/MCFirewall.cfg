SPECIFICATION FairSpec
CONSTANTS
    Calls = {c1, c2}
INVARIANTS TypeOK OnIsAccounted ConfirmHolds
PROPERTY Recovers
