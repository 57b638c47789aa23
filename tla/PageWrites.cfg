SPECIFICATION Spec
CONSTANTS
    Items = {"i1", "i2"}
    Handlers <- AllHandlers
    MaxPresses = 3
INVARIANTS PageAgrees HealsAfterLoss NothingTwice
PROPERTIES BusyEnds
CHECK_DEADLOCK FALSE
