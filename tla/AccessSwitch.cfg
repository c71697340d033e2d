CONSTANTS
  ann = ann
  bob = bob
  aMail = aMail
  aId = aId
  aAlt = aAlt
  bMail = bMail
  bId = bId
  bAlt = bAlt
  a1 = a1
  a2 = a2
  b1 = b1
  maint = maint
  NoIdentity = NoIdentity
  Absent = Absent
  Shared = Shared
  Identities = {aMail, aId, aAlt, bMail, bId, bAlt}
  Sessions = {a1, a2, b1, maint}
  Platforms = {"cli", "gateway", "webui"}
  People = {ann, bob}
  Signals <- MCSignals
  Owned <- MCOwned
  Requests <- MCNamingRequests
  Configs <- MCConfigs
  MaintenanceSession = maint
  SwitchPersons = TRUE
  MaxRows = 1
SPECIFICATION Spec
INVARIANT PrincipalIsCallers
