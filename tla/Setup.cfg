CONSTANTS
  Toggles = {"ssh", "disk"}
  Intervals = {"cpu"}
  Thresholds = {"temp"}
  Lists = {"services"}
  Types = {"http", "redis", "systemd"}
  DefaultInterval = 15
  DefaultThreshold = 75
  HandWritten <- Files
  Found <- Starts
  Creds = {"own"}
  Numerals = {60}
  Patterns <- Globs
  Cooldowns <- DefaultCooldowns
  CheckAnswers <- Answers
  Content <- Services
  MaxEdits = 3
  MaxFaults = 1
SPECIFICATION Spec
INVARIANTS
  TypeOK
  EditsReachDaemon
  DaemonComesUp
  HiddenByFaultOnly
PROPERTIES
  CredentialsLost
