CONSTANTS
  Duration <- Cooldowns
  Reports <- Seen
  BusSize = 2
  MaxEvents = 4
  MaxTime = 2
SPECIFICATION FairSpec
INVARIANTS
  TypeOK
  HandedInOrder
  ShutdownHandled
  CooldownsKept
  LastWord
PROPERTIES
  SuppressedForReason
  ShutdownCompletes
