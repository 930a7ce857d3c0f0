\* Cancelling while the last batch, one with documents, is being closed.
SPECIFICATION StillSpec
CONSTANTS
    Docs = {1, 2}
    Workers = {w1, w2}
    Tokens = {t1, t2, t3}
    NoToken = NoToken
    BatchSize = 1
    Lease = 2
    TaskLimit = 1
    StaleAfter = 1
    MaxPlain = 2
    MaxFaults = 0
PROPERTY CancelledStaysFailed
CHECK_DEADLOCK FALSE
