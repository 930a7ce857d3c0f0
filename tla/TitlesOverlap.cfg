\* Title refresh as configured: a lease of 10 minutes, a task limit of 30.
SPECIFICATION Spec
CONSTANTS
    Docs = {1, 2}
    Workers = {w1, w2}
    Tokens = {t1, t2, t3}
    NoToken = NoToken
    BatchSize = 1
    Lease = 1
    TaskLimit = 2
    StaleAfter = 1
    MaxPlain = 2
    MaxFaults = 0
INVARIANT SingleRunner
CHECK_DEADLOCK FALSE
