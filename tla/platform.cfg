SPECIFICATION Spec
CONSTANTS
  v1 = v1
  v2 = v2
  v3 = v3
  Visitors = {v1, v2, v3}
  Publishers = {v1, v2}
  PoolSize = 2
  MaxStops = 1
  MaxCommands = 3
  MaxLines = 4
INVARIANTS
  PlatformTypeOK
  ConnectionsAreReturned
  RevisionsAreSound
  AnswersAreRead
PROPERTIES
  EveryRequestEnds
CHECK_DEADLOCK FALSE
