SPECIFICATION Spec
CONSTANTS
    Users = {u1, u2}
    Events = {"e1"}
    Audiences = {"friends"}
    DefaultAudience = "friends"
    NoUser = NoUser
    NoAudience = "none"
    MaxRequests = 3
    MaxOps = 2
    MaxFaults = 1
INVARIANTS SessionAgrees 
PROPERTIES OthersUntouched ForeignReadsIgnored EventuallyReady
