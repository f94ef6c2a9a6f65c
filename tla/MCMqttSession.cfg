SPECIFICATION Spec
CONSTANTS
  lamp = lamp strip = strip post = post
  strip0 = strip0 strip1 = strip1 strip2 = strip2 strip9 = strip9
  stripX = stripX nobody = nobody
  on = on level = level
  Capacity = 2
  NoItem = NoItem
  Item <- MCItem
  Conventions <- MCConventions
  NodesUnder <- MCNodesUnder
  Builds <- MCBuilds
  Message <- MCMessage
  Addressed <- MCAddressed
  Suffix <- MCSuffix
  MaxPayload = 2
  MessagesPerLoop = 2
  AcksPerLoop = 1
  AckCapacity = 1
  MaxMessages <- MCMaxMessages
  MaxConnections = 2
  MaxFarewells = 1
INVARIANTS TypeOK DropsAreCounted SleepAckIsExact AnnouncedInFull CommandReachesItsProperty
PROPERTIES PendingIsFifo CommandOfOpenSession
