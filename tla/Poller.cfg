CONSTANTS
  Duration <- Cooldowns
  Pollers = {"cpu", "temperature"}
  Interval <- EverySecond
  BusSize = 1
  MaxAge = 0
SPECIFICATION FairSpec
INVARIANTS
  LevelShown
PROPERTIES
  LevelsInOrder
  LastingLevelReported
