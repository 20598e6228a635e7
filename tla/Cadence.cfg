\* One step of time is two seconds and a half: the poll interval is at its
\* floor of five seconds, and a query may take longer than that.
SPECIFICATION Spec
CONSTANTS
  hall = hall
  door = door
  Poll = poll
  Streams = {hall, door}
  Interval = 2
  Wanted <- MCWanted
  MinInterval = 2
  TickLimit = 3
  Timeout = 3
  Grace = 1
  Long = 3
INVARIANTS
  TypeOK
  Hears
PROPERTIES
  NoThreeInAnInterval
  StreamEnds
  Exits
  KeepsTicking
CHECK_DEADLOCK FALSE
