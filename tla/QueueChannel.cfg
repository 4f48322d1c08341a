CONSTANTS
  Max = 2
  MaxEvents = 4
  Budget <- Crashes
SPECIFICATION FairSpec
PROPERTIES
  ImplementsChannel
  EveryAlertSettles
  DropsAnnounced
  SendReturns
