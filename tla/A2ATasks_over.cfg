SPECIFICATION Spec
CONSTANTS
  r = r  w = w  o = o
  Nil = Nil
  Agents <- ThreeAgents
  MaxDeliveries = 2
  PageSize = 1
  MaxLeft = 0
  Setups <- JustReported
PROPERTIES OverIsOver
CHECK_DEADLOCK FALSE
