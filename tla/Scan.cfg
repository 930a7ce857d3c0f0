\* Scan optimization: the lease outlives the task limit (32 and 30 minutes).
SPECIFICATION Spec
CONSTANTS
    Docs = {1, 2}
    Workers = {w1, w2}
    Tokens = {t1, t2, t3}
    NoToken = NoToken
    BatchSize = 1
    Lease = 2
    TaskLimit = 1
    StaleAfter = 1
    MaxPlain = 2
    MaxFaults = 1
SYMMETRY Symmetric
INVARIANTS
    TypeOK
    SingleRunner
    LeaseHasHolder
    OpenJobInHand
    CompletedMeansCovered
PROPERTIES
    JobSweeps
CHECK_DEADLOCK FALSE
