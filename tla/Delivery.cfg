CONSTANTS
  r1 = r1
  k1 = k1
  Rows = {r1}
  Mixes <- EachPath
  KeyOf <- SoleKey
  Batches <- Sole
  Email = {r1}
  Push = {r1}
  Ticks = {tick}
  Faults = {"crash", "error", "withdraw", "age", "stop", "lock"}
  MaxSpoiled = 1
  Keys = {k1}
  NoKey = NoKey
  TaskIds = {t1}
  Concurrency = 1
  MaxAttempts = 2
  MaxPosts = 1
SPECIFICATION FairSpec
 
PROPERTIES DeliveredOnce SweepDelivers
