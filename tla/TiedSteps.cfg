CONSTANTS
    Docs = {d1}
    Boxes <- MCBoxes
    Templates <- MCTemplates
    Automatic <- MCAuto
    Spaces <- MCSpaces
    Steps <- MCSteps
    NoStep = NoStep
    Config <- MCConfig
    FirstOrder <- Tied
    SortOrders <- EditOrders
    Bounds <- OneDocument
SPECIFICATION Spec
INVARIANT EveryStepDone
CHECK_DEADLOCK FALSE
