\* Every created job ends, with Beat, one worker and one crash.
SPECIFICATION LiveSpec
CONSTANTS
    Docs = {1, 2}
    Workers = {w1}
    Tokens = {t1, t2, t3}
    NoToken = NoToken
    BatchSize = 1
    Lease = 2
    TaskLimit = 1
    StaleAfter = 1
    MaxPlain = 2
    MaxFaults = 1
PROPERTY JobFinishes
CHECK_DEADLOCK FALSE
