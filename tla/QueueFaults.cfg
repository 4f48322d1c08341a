CONSTANTS
  Max = 2
  MaxEvents = 4
  Budget <- OneOfEach
SPECIFICATION Spec
INVARIANTS
  TypeOK
  NothingVanishes
  RepeatsExplained
  NotOverAnnounced
  FrontStaysInFront
PROPERTY OrderKept
