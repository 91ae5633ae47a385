SPECIFICATION FairSpec
CONSTANTS
    Purposes = {verify}
    Codes = {k1, k2, k3}
    Generators = {g1, g2}
    Verifiers = {}
    MaxAttempts = 3
    MaxPerHour = 1
    Faults = {"err", "lost", "cut"}
    NoCode = NoCode
INVARIANTS TypeOK RateBounded LockedForCause
PROPERTIES LockoutEnds
CHECK_DEADLOCK FALSE
