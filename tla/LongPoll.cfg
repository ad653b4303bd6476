CONSTANTS
  a1 = a1
  a2 = a2
  p1 = p1
  p2 = p2
  b1 = b1
  Nil = Nil
  Agents <- TwoAgents
  Pulls <- TwoPulls
  Producers <- OneProducer
  Flaky <- SecondAgent
  MaxQueued = 1
SPECIFICATION FairSpec
INVARIANTS NoWaiterLeaks NoLostWakeup
PROPERTIES WaiterIsServed EveryPullEnds
