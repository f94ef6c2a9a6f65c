SPECIFICATION Spec
CONSTANTS
  AdvertSteps = 3
  MissedEvents = TRUE
  Requests = {"sleep", "reset", "ota", "config"}
INVARIANTS
  TypeOK
  NoStrandedLeg
  WatchdogArmed
  SketchView
  SleepNotForgotten
PROPERTIES
  ConnectionStartsAfresh
  ReadinessWithdrawnForCause
  SessionClosedForCause
