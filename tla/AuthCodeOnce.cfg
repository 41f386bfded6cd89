SPECIFICATION Spec
CONSTANTS
    Reqs = {r1, r2}
    Sids = {s1}
    NoSid = NoSid
    Users = {"admin"}
    Passwords = {"old"}
    FirstKdf = "argon2id"
    CodesPerSet = 1
    MaxHash = 1
    MaxSets = 1
    MaxEpoch = 1
INVARIANTS
    RecoveryCodeOnce
