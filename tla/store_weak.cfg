CONSTANTS
  d1 = d1  d2 = d2  sg = sg  sb = sb  m1 = m1  m2 = m2  l1 = l1  c1 = c1  c2 = c2
  NoLabel = NoLabel  NoRow = NoRow  NoCall = NoCall
  Docs = {d1, sg, sb}
  ManifestIDs = {m1, m2}
  DocID <- SignedAndUnsigned
  Signed = {sg, sb}
  Genuine = {sg}
  Labels = {NoLabel, l1}
  CfgInsecure = FALSE
  CfgForce = TRUE
  CfgRequireLabel = TRUE
  Clients = {c1, c2}
  Ops = {"AddBytes", "VerifyAndAddBytes", "AddCoRIM", "DeleteManifest"}
  Isolation = "read_committed"
  MaxCalls = 3
SPECIFICATION Spec
SYMMETRY Symmetry
INVARIANTS TxInv FailedLeavesNothing SignedTokensVerified
PROPERTIES AddsAreAtomic
CHECK_DEADLOCK FALSE
