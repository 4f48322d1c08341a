CONSTANTS
  Limit = 30
  MinRoom = 4
  Events <- Alerts
  RetryAfters = {0, 5, 30, 90}
  Durations = {0, 10}
SPECIFICATION Spec
INVARIANTS
  TextAccepted
  ResultHonest
CHECK_DEADLOCK FALSE
