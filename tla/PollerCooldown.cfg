CONSTANTS
  Duration <- Cooldowns
  Pollers = {"temperature"}
  Interval <- EverySecond
  BusSize = 1
  MaxAge = 4
SPECIFICATION Spec
INVARIANT TempWarnCooled
