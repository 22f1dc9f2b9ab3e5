SPECIFICATION Spec
CONSTANTS
  NumJobs = 2
  CtxOf <- MC_OneContext
  Needs <- MC_Needs
  GpuTicks = 0
  ShaderTicks = 1
  Returns = TRUE
  Faults = TRUE
  Suspends = FALSE
  PolicyChanges = TRUE
INVARIANTS PowerFollowsWork NeverSpins
