CONSTANTS
  Fields = {"title", "description"}
  Extracted = {"description"}
  v1 = v1
  v2 = v2
  v3 = v3
  Values = {v1, v2, v3}
  u1 = u1
  Users = {u1}
  org = org
  Organizer = org
  ShowPending = TRUE
  MaxEdited = 1
  MaxPulls = 3
  MaxWrites = 2
SPECIFICATION Spec
SYMMETRY ValueSymmetry
CHECK_DEADLOCK FALSE
INVARIANTS ReviewSound
PROPERTIES OnlyMovedIsProposed
