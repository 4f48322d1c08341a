CONSTANTS
  Max = 2
  MaxEvents = 5
  Budget <- Outages
SPECIFICATION Spec
INVARIANT EveryDropReported
