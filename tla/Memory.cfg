SPECIFICATION FairSpec
CONSTANTS
  Native = {1}
  Jit = {2, 3}
  PfGrow = {1}
  VaPages = 2
  VaSlots = 2
  Extent = 2
  MaxJit = 1
  MaxPool = 1
  MaxDev = 1
  KernelPages = 3
  InsertMayFail = TRUE
  HasTlb = FALSE
  MaxOps = 3
  MaxReclaims = 1
CHECK_DEADLOCK FALSE
INVARIANTS PagesSafe
PROPERTIES FaultAnswered
