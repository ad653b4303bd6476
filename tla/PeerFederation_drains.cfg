SPECIFICATION FairSpec
CONSTANTS
  Peers <- OnePeer
  Msgs = {m1, m2}
  Publishers = {w1}
  Background = bg
  Slots = {c1, c2}
  Limit = 1
  OrgScoped = FALSE
  Hanging <- NoPeers
  QueueFails = {}
  Nil = Nil
PROPERTIES OutboxDrains
CHECK_DEADLOCK FALSE
