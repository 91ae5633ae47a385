SPECIFICATION FairSpec
CONSTANTS
    Emails = {e1, e2}
    Registered = {e1}
    Gated = {"/history"}
    MaxCalls = 2
    None = None
INVARIANTS TypeOK SessionWhole CodeEarned
PROPERTIES SessionAsSeen RequestsEnd SignedInLeaves
