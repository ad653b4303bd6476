SPECIFICATION Spec
CONSTANTS
  ann = ann  bob = bob  cid = cid
  annMail = annMail  bobMail = bobMail  cidMail = cidMail  rootMail = rootMail
  annName = annName  bobName = bobName  newName = newName
  o1 = o1  o2 = o2  acme = acme  beta = beta
  listHumans = listHumans  listAgents = listAgents
  Nil = Nil
  Humans <- ThreeHumans
  Orgs <- TwoOrgs
  OrgHandles <- TwoHandles
  HumanHandles <- ThreeNames
  Emails <- FourEmails
  SuperEmails <- JustRoot
  Scopes <- TwoScopes
  MaxMemberships = 5
  MaxInvites = 3
  MaxKeys = 2
  Setups <- AllSetups
INVARIANTS MembersHaveTheirRole NamesAreForEver SpentKeysOpenNothing
PROPERTIES IsADirectory JoinsNeedAnInvite
