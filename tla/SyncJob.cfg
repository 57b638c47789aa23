CONSTANTS
  Instances = {i1, i2}
  Jobs = {j1, j2}
  NoJob = NoJob
  Faults = {"crash"}
SPECIFICATION Spec
SYMMETRY Symmetry
INVARIANTS SingleFlight NoLeakedLock FinalStatusPersisted
PROPERTIES ImplementsMutex
CHECK_DEADLOCK FALSE
