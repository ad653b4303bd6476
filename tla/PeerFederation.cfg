SPECIFICATION Spec
CONSTANTS
  Peers <- OnePeer
  Msgs = {m1, m2}
  Publishers = {w1}
  Background = bg
  Slots = {c1, c2}
  Limit = 1
  OrgScoped = TRUE
  Hanging <- OnePeer
  QueueFails = {m2}
  Nil = Nil
INVARIANTS AtMostOnce NothingOfGonePeers
PROPERTIES ImplementsChannel OutboxKeepsUndelivered
CHECK_DEADLOCK FALSE
