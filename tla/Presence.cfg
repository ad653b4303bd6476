SPECIFICATION Spec
CONSTANTS
  h1 = h1  h2 = h2  s1 = s1  s2 = s2
  Nil = Nil
  Hubs <- TwoHubs
  Sessions <- TwoSessions
  OfflineAfter = 3
  PutInterval = 1
  RoundTime = 1
  Setups <- AllSetups
INVARIANTS EndedIsOffline
PROPERTIES OpenIsShownOnline GoneIsShownOffline
CHECK_DEADLOCK FALSE
