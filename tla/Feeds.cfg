\* Vehicles move, feeds stop and return, probes fail, the daemon restarts,
\* the fence is made again.
SPECIFICATION Spec
CONSTANTS
  Operators = {1, 2}
  Watches = {{}, {1}}
  NearestInterval = 2
  Lookback = 2
  MaxClock = 3
  MaxChanges = 2
  Env = {"move", "dark", "shutdown", "probe", "restart", "remake"}
CHECK_DEADLOCK FALSE
INVARIANTS TypeOK AbsentIsNotDark CountsOfLastTick
PROPERTIES HoldsBackOnDark ReadingIsCurrent
