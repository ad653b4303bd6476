CONSTANTS
  a1 = a1
  a2 = a2
  a3 = a3
  w1 = w1
  w2 = w2
  k1 = k1
  Nil = Nil
  Agents <- TwoAgents
  Msgs <- TwoMsgs
  Keys <- OneKey
  Workers <- TwoWorkers
  Removals <- EitherAgent
  Served <- AllCalls
  MaxAttempts = 2
SPECIFICATION Spec
CHECK_DEADLOCK FALSE
SYMMETRY Symmetry
INVARIANTS SingleCustody NothingForgotten ClaimNeverFails MetricsExact OneRecordPerKey LossNeedsRemoval
