CONSTANTS
    Files = {"a", "b"}
    Requests = {q1, q2}
    Polls = {p1, p2}
    Bounds <- MCBounds
    Attached <- MCAttached
    Sender <- MCSender
    Settings <- MCSettings
SYMMETRY Symmetric
SPECIFICATION Spec
INVARIANTS TypeOK NoMailLost FailureTold OneReply JobsTellTruth FilesKeptUnlessKilled SaidImported
CHECK_DEADLOCK FALSE
