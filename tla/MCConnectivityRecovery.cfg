SPECIFICATION FairSpec
CONSTANTS
  AdvertSteps = 3
  MissedEvents = TRUE
  Requests = {"sleep", "ota", "config"}
PROPERTIES
  StableRecovery
  OutageEnds
  SleepCompletes
