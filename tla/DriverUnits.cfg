SPECIFICATION UnitsSpec
CONSTANTS
  f1 = f1
  f2 = f2
  Files = {f1, f2}
  Compat = {f1}
  DirMayFail = FALSE
  PropsMayFail = FALSE
INVARIANTS
  DeviceWhole
  EventsReported
  QueuesExact
  CoresExact
  FencesExact
  TimeoutsKept
  FaultsDumped
  StreamExact
\* A unit stops when its bounds are reached.
CHECK_DEADLOCK FALSE
