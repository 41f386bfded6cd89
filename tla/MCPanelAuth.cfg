SPECIFICATION Spec
CONSTANTS
    Reqs = {r1, r2}
    Sids = {s1, s2}
    NoSid = NoSid
    Users = {"admin", "luke"}
    Passwords = {"old", "new"}
    FirstKdf = "pbkdf2"
    CodesPerSet = 1
    MaxHash = 2
    MaxSets = 1
    MaxEpoch = 1
SYMMETRY Interchangeable
INVARIANTS
    TypeOK
    CodeSpentPerInstall
    SecondFactorHeld
    OldSessionsExplained
PROPERTIES
    PasswordOnlyByChange
