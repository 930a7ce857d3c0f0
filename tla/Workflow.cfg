CONSTANTS
    Docs = {d1, d2}
    Boxes <- MCBoxes
    Templates <- MCTemplates
    Automatic <- MCAuto
    Spaces <- MCSpaces
    Steps <- MCSteps
    NoStep = NoStep
    Config <- MCConfig
    FirstOrder <- Distinct
    SortOrders <- EditOrders
    Bounds <- MCBounds
SYMMETRY Symmetric
SPECIFICATION Spec
INVARIANTS TypeOK OneOpenTask EveryStepDone AutoStarted OneAutomaticRun RelationTasksWait
PROPERTIES HistoryIsFinal RunningFits RunsWalk
CHECK_DEADLOCK FALSE
