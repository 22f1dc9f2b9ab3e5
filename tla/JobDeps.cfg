SPECIFICATION Spec
CONSTANTS
  NumAtoms = 3
  Rerun = FALSE
  Jobs <- MixedJobs
INVARIANTS JobsOrdered FailuresReported
