CONSTANTS
  d1 = d1  d2 = d2  sg = sg  sb = sb  m1 = m1  m2 = m2  l1 = l1  c1 = c1  c2 = c2
  NoLabel = NoLabel  NoRow = NoRow  NoCall = NoCall
  Docs = {sg}
  ManifestIDs = {m1}
  DocID <- OneSigned
  Signed = {sg}
  Genuine = {sg}
  Labels = {NoLabel}
  CfgInsecure = FALSE
  CfgForce = FALSE
  CfgRequireLabel = FALSE
  Clients = {c1}
  Ops = {"VerifyAndAddBytes", "DeleteManifest"}
  Isolation = "serializable"
  MaxCalls = 3
SPECIFICATION Spec
INVARIANT UniqueTokens
CHECK_DEADLOCK FALSE
