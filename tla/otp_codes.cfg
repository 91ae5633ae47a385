SPECIFICATION Spec
CONSTANTS
    Purposes = {verify, reset}
    Codes = {k1, k2}
    Generators = {g1}
    Verifiers = {v1, v2}
    MaxAttempts = 1
    MaxPerHour = 2
    Faults = {}
    NoCode = NoCode
SYMMETRY Symmetry
INVARIANTS GuessesBounded SingleUse
CHECK_DEADLOCK FALSE
