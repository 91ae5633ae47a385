SPECIFICATION FairSpec
CONSTANTS
    Users = {u1}
    MaxCalls = 1
    MaxChanges = 2
    AdminIdKnown = TRUE
INVARIANTS TypeOK EndsWereEarned BulkHasRows
PROPERTIES BusyEnds
