CONSTANTS
  Duration <- Cooldowns
  Checks = {"redis", "web"}
  Failures <- Thresholds
  Configs <- Services
  Hosts <- States
  BusSize = 1
  MaxRestarts = 2
SPECIFICATION FairSpec
INVARIANTS
  TypeOK
  DownAfterThreshold
  OwnerKnows
  
PROPERTIES
  AlertsAlternate
  OutageReported
  MonitorStops
