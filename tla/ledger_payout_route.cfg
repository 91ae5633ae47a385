SPECIFICATION Spec
CONSTANTS
    Creators = {c1}
    Tips = {t1}
    Payouts = {p1}
    Manuals = {m1}
    Amounts = {60, 100}
    PlatformFeePct = 10
    PayoutThreshold = 50
    PayPalConfigured = TRUE
    RouteBindsCreator = FALSE
    Faults = {}
    NoCreator = NoCreator
PROPERTIES RefusedOnlyBelowThreshold
CHECK_DEADLOCK FALSE
