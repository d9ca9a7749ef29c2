SPECIFICATION Spec
CONSTANTS
  Ids <- MCIds
  EndPoint <- MCEndPoint
  Self = 0
  Tokens = {k1}
  NoToken = NoToken
  Threads = {t1}
  Zombie = 1
  Lifetime = 2
  MaxStarts = 2
INVARIANTS
  BusTypeOK
  RemovedTokenForgotten
PROPERTIES
  RevocationTakesHold
  StableServiceReached
  DeadServicesForgotten
