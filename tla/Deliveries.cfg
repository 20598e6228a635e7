\* Two notifications, three sinks that break down, recover or stay mute, a stop.
SPECIFICATION Spec
CONSTANTS
  Notes = {n1, n2}
  Sinks = {"mqtt", "ntfy", "log"}
CHECK_DEADLOCK FALSE
INVARIANTS HealthySinkDelivers
PROPERTIES Stops
