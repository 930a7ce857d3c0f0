CONSTANTS
    Files = {"a", "b"}
    Requests = {q1, q2}
    Polls = {p1, p2}
    Bounds <- MoveBounds
    Attached <- MCThree
    Sender <- MCSenders
    Settings <- MCSettings
SPECIFICATION Spec
INVARIANT NoMailLost
CHECK_DEADLOCK FALSE
