SPECIFICATION FairSpec
CONSTANTS
  NumAtoms = 5
  Programs <- MC_Programs
  Events = {"e1", "e2"}
  JitIds = {"i1", "i2"}
  JitMax = 1
  GpuMayFail = TRUE
  MaxUpdates = 1
  MaxSuspends = 1
CHECK_DEADLOCK FALSE
INVARIANTS SoftJobsSound
PROPERTIES JobsEnd
