SPECIFICATION Spec
CONSTANTS
    Creators = {c1}
    Tips = {t1, t2}
    Payouts = {p1}
    Manuals = {m1, m2}
    Amounts = {60, 100}
    PlatformFeePct = 10
    PayoutThreshold = 50
    PayPalConfigured = TRUE
    RouteBindsCreator = FALSE
    Faults = {}
    NoCreator = NoCreator
INVARIANTS BalanceNonNegative
CHECK_DEADLOCK FALSE
