CONSTANTS
  c1 = c1  c2 = c2  A = A  A2 = A2  B = B  E = E  F = F
  NoEnv = NoEnv
  Envs = {E, F}
  RowKeys <- MCRowKeys
  Docs <- ThreeDocs
  IdOf <- ThreeIds
  ManifestOf <- ThreeManifests
  TokenOf <- ThreeTokens
  Clients = {c1, c2}
  Ops = {"add", "delete"}
  Isolation = "serializable"
  MaxCalls = 3
SPECIFICATION Spec
INVARIANT NoDanglingEnv
CHECK_DEADLOCK FALSE
