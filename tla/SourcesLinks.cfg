CONSTANTS
  Threshold = 3
  Window = 2
  MaxIPs = 2
  DedupWindow = 2
  Units = {"web"}
  Watch <- WatchList
  ContainerWatch <- ContainerPatterns
  Services <- CustomServices
  Configs <- SomeConfigs
  Lines <- SomeLines
  DockerEvents <- Containers
  LinkMessages <- Links
  MaxLines = 5
  MaxTime = 3
SPECIFICATION FairSpec
CHECK_DEADLOCK FALSE
INVARIANTS
  LinkChangesReported
