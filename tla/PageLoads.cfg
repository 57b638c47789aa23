SPECIFICATION LoadsSpec
CONSTANTS
    Keys = {"k1", "k2"}
    Loads <- AllLoads
    MaxRuns = 4
INVARIANTS  NeverAnotherKey 
 
CHECK_DEADLOCK FALSE
