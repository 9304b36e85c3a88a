CONSTANTS
  d1 = d1  d2 = d2  sg = sg  sb = sb  m1 = m1  m2 = m2  l1 = l1  c1 = c1  c2 = c2
  NoLabel = NoLabel  NoRow = NoRow  NoCall = NoCall
  Docs = {d1, d2}
  ManifestIDs = {m1}
  DocID <- TwoUnsigned
  Signed = {}
  Genuine = {}
  Labels = {NoLabel, l1}
  CfgInsecure = FALSE
  CfgForce = TRUE
  CfgRequireLabel = FALSE
  Clients = {c1, c2}
  Ops = {"AddBytes", "DeleteManifest"}
  Isolation = "serializable"
  MaxCalls = 3
SPECIFICATION Spec
SYMMETRY Symmetry
INVARIANTS TypeOK UniqueManifests UniqueTokens EveryManifestHasToken
PROPERTIES OverwriteKeepsAValue ImplementsStoreSpec
CHECK_DEADLOCK FALSE
