CONSTANTS
  a1 = a1
  a2 = a2
  a3 = a3
  w1 = w1
  w2 = w2
  k1 = k1
  Nil = Nil
  Agents <- ThreeAgents
  Msgs <- TwoMsgs
  Keys <- NoKeys
  Workers <- TwoWorkers
  Removals <- ThirdAgent
  Served <- AgentCalls
  MaxAttempts = 2
SPECIFICATION Spec
CHECK_DEADLOCK FALSE
SYMMETRY WorkerSymmetry
INVARIANTS NoInnocentLoss
