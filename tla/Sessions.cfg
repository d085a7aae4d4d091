SPECIFICATION FairSpec
CONSTANTS
  MaxPair = 3
  MaxAttempts = 2
  Handlers = {h1, h2}
  RedisMayFail = FALSE
INVARIANTS
  OneLivePerLogin
  LoggedOutIsOver
PROPERTIES
  RequestEnds
