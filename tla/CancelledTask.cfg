CONSTANTS
    Requests = {r1, r2}
    Last = 2
SPECIFICATION Spec
PROPERTY CompletedWhileOpen
CHECK_DEADLOCK FALSE
