SPECIFICATION ChatSpec
CONSTANTS
    Viewers = {u1}
    Conns = {c1, c2}
    Messages = {m1}
    StoresFail = FALSE
    NoViewer = NoViewer
    NoMessage = NoMessage
PROPERTIES TypedArrives
CHECK_DEADLOCK FALSE
