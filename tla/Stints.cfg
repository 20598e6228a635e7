\* One process: sightings, blinks and failed ticks in every order, and a
\* consumer that reads its windows in between.
SPECIFICATION Spec
CONSTANTS
  Vehicles = {v1, v2}
  Processes = {d}
  Stale = 1
  MaxClock = 4
CHECK_DEADLOCK FALSE
INVARIANTS
  StintsAreRuns
  EachArrivalOnce

