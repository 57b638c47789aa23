CONSTANTS
  Instances = {i1, i2}
  Jobs = {j1}
  NoJob = NoJob
  Faults = {"crash", "raise", "slow", "db", "conn"}
SPECIFICATION FairSpec
PROPERTIES RunningRowSettles
CHECK_DEADLOCK FALSE
