CONSTANTS
  a1 = a1
  a2 = a2
  a3 = a3
  h1 = h1
  h2 = h2
  h3 = h3
  Nil = Nil
  Orgs <- TwoOrgs
  Agents <- TwoAgents
  Humans <- TwoHumans
  Supers <- OneSuper
  Served = {"CreateOrg", "DeleteOrg", "CreateBind", "Join", "RevokeMembership", "InviteAgent", "DeleteAgent"}
  Invitable = {"admin"}
  Closings = {"blocked", "revoked"}
  MaxBinds = 1
SPECIFICATION Spec
SYMMETRY Symmetry
INVARIANTS PublishNeedsConsent NoDanglingTrust
