SPECIFICATION Spec
CONSTANTS
  ann = ann  bob = bob  o1 = o1  w1 = w1  w2 = w2
  hA = hA  hB = hB  hC = hC  x = x  y = y
  Nil = Nil
  Humans <- TwoHumans
  Orgs <- OneOrg
  Handles <- ThreeHandles
  Names <- TwoNames
  Workers <- TwoWorkers
  Unlimited <- JustBob
  Attempts = 2
  MaxAgents = 4
  MaxBinds = 4
  MaxTokens = 2
  Setups <- AllSetups
INVARIANTS NamesLeadToAgents DeletedNamesStay TokensOpenTheirAgent OneAnswerPerBind LimitHolds
SYMMETRY NameSymmetry
CHECK_DEADLOCK FALSE
