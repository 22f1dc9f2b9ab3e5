SPECIFICATION Spec
CONSTANTS
  NumAtoms = 3
  CtxOf <- MC_Mixed
  Protected = {3}
  Faulty = {2}
  Hung = {3}
  Dead = {3}
  StopResets = TRUE
  MaxCalls = 1
INVARIANTS JobsEndRightly SlotMatchesRing
