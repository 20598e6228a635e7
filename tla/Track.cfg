\* Spots ten metres apart: two steps of one are news, one is jitter.
SPECIFICATION Spec
CONSTANTS
  Vehicles = {v1, v2}
  Spots = {0, 10, 20, 40}
  Jitter = 15
  Deadline = 2
  Blank = blank
  Gone = gone
INVARIANTS
  TypeOK
  DiaryIsCurrent
PROPERTIES
  KeepsDiary
  Ends
CHECK_DEADLOCK FALSE
