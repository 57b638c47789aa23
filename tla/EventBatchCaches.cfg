SPECIFICATION Spec
CONSTANTS
    Ids = {1, 2}
    Hidden = {2}
    Viewers = {v1, v2}
    NoUser = NoUser
    MaxBatch = 1
    MaxInflight = 3
    MaxOps = 3
    MaxFaults = 1
INVARIANTS CardsServed  
PROPERTIES Settles
