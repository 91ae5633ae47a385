SPECIFICATION Spec
CONSTANTS
    Creators = {c1, c2}
    Tips = {t1, t2}
    Payouts = {p1, p2}
    Manuals = {m1}
    Amounts <- SignedAmounts
    PlatformFeePct = 10
    PayoutThreshold = 50
    PayPalConfigured = TRUE
    RouteBindsCreator = TRUE
    Faults = {"err", "lost"}
    NoCreator = NoCreator
SYMMETRY Symmetry
INVARIANTS TypeOK LedgerBounded NoOverpay OverdrawnOnlyByRaces CreditsBacked PayPalBacked Conserved PaidPerRow
PROPERTIES DebitsBecomePending ImplementsAccount
CHECK_DEADLOCK FALSE
