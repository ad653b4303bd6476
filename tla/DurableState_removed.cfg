SPECIFICATION Spec
CONSTANTS
  w1 = w1
  w2 = w2
  e1 = e1
  e2 = e2
  Msgs <- TwoMsgs
  Keys = {"k"}
  NoKey = NoKey
  Entries <- TwoEntries
  MaxDeliveries = 4
  Workers <- TwoWorkers
  Setups <- Removed
INVARIANTS RemovedStaysRemoved
CHECK_DEADLOCK FALSE
