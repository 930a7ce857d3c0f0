CONSTANTS
    Requests = {r1, r2, r3}
    Last = 3
SYMMETRY Symmetric
SPECIFICATION Spec
INVARIANTS RunningHasTask NoStepSkipped TypeOK
PROPERTY NeverReopened
CHECK_DEADLOCK FALSE
