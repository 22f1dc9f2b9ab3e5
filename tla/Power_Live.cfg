SPECIFICATION FairSpec
CONSTANTS
  NumJobs = 2
  CtxOf <- MC_OneContext
  Needs <- MC_Needs
  GpuTicks = 1
  ShaderTicks = 1
  Returns = FALSE
  Faults = FALSE
  Suspends = TRUE
  PolicyChanges = FALSE
INVARIANTS IdlePoweroff
PROPERTIES PowerProgress
