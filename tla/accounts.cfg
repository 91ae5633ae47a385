SPECIFICATION Spec
CONSTANTS
    Requests = {r1, r2, r3}
    Emails = {home, away}
    Home = home
    Faults = {"err", "lost"}
    AdminIdKnown = TRUE
    NoRequest = NoRequest
SYMMETRY Symmetry
INVARIANTS TypeOK BansSettled ResetEndsSessions LetInIsLinked
PROPERTIES BlockEnds
CHECK_DEADLOCK FALSE
