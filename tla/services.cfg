SPECIFICATION ServicesSpec
CONSTANTS
    Viewers = {u1, u2}
    Conns = {c1, c2, c3}
    Messages = {m1}
    StoresFail = TRUE
    NoViewer = NoViewer
    NoMessage = NoMessage
    MaxPublishes = 3
    Providers = {p1, p2}
    Changers = {r1, r2}
    Senders = {s1, s2}
    MaxVersion = 3
    Requests = {q1, q2, q3, q4}
    Rate = 2
    Window = 4
    MaxClock = 5
INVARIANTS ServicesTypeOK ViewersCounted LiveIsOnAir PoolWhole WindowBounded
SYMMETRY ConnsAlike
CHECK_DEADLOCK FALSE
