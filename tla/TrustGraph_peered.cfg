CONSTANTS
  a1 = a1
  a2 = a2
  a3 = a3
  h1 = h1
  h2 = h2
  h3 = h3
  Nil = Nil
  Orgs <- OneOrg
  Agents <- TwoAgents
  Humans <- OneHuman
  Supers <- NoSupers
  Served = {"CreateOrg", "InviteAgent", "CreateBind", "DeleteAgent"}
  Invitable = {}
  Closings = {"blocked", "revoked"}
  MaxBinds = 1
SPECIFICATION Spec
PROPERTIES HostedIsPeered
