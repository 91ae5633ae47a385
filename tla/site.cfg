SPECIFICATION Spec
CONSTANTS
    MaxEvents = 2
    MaxDrift = 2
    MaxTimers = 2
INVARIANTS TypeOK MediaInSync NothingStaysUp LikesCounted
