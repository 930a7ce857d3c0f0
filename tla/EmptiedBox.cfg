CONSTANTS
    Boxes = {1, 2, 3}
    FirstBoxes <- MCFirstBoxes
    Root = 0
    Slugs = {"1", "2"}
    Fields <- MCFields
    Values <- MCValues
    Optimizers = {w1, w2}
    Indexers = {w1, w2}
    Dispatchers = {w1, w2}
    Alarms = {"a1", "a2"}
    Found <- MCFound
    Sources <- MCSources
    JobWorkers = {w1, w2}
    BatchSize = 2
    Members = {"m", "n"}
    Roles <- MCRoles
    FieldRows <- MCFieldRows
    AlarmRows <- MCAlarmRows
    RoleRows <- MCRoleRows
    Bounds <- EmptyBounds
SYMMETRY MCSymmetry
SPECIFICATION Spec
INVARIANT NothingLeftOfEmptied
CHECK_DEADLOCK FALSE
