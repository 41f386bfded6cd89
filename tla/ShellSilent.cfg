SPECIFICATION Spec
CONSTANTS
    Slots = {h1}
    NoSlot = NoSlot
    Ops <- ReleaseUpload
    Crowds <- Nothing
    Links <- FromEveryPage
INVARIANTS
    NoSilentEnd
