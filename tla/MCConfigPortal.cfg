SPECIFICATION FairSpec
CONSTANTS
  Wifi <- MCWifi
  Mqtt = {m1, m2}
  Keep = Keep
  None = None
  WifiDeadline = 2
  MqttDeadline = 1
  CloseDeadline = 2
  MaxTests = 2
INVARIANT FailureIsExplained
PROPERTIES SavedWasTested TestEnds
