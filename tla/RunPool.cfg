SPECIFICATION FairSpec
CONSTANTS
  c1 = c1
  c2 = c2
  vi = vi
  InstrCtx = vi
  NoCtx = NoCtx
  Ctx <- MC_Ctx3
  NumAS = 2
  MaxRefs = 8
  MaxAtoms = 2
  MaxOwed = 1
  Suspends = TRUE
INVARIANTS LeasesSound RetryAndSuspend
PROPERTIES RunningKeepsAs RunPoolProgress
