SPECIFICATION FairSpec
CONSTANTS
  NumAtoms = 2
  Rerun = TRUE
  Jobs <- PairJobs
PROPERTIES ReportedUnlessRerun ZapCompletes
