CONSTANTS
  c1 = c1  c2 = c2  A = A  A2 = A2  B = B  E = E  F = F
  NoEnv = NoEnv
  Envs = {E, F}
  RowKeys <- MCRowKeys
  Docs <- ThreeDocs
  IdOf <- ThreeIds
  ManifestOf <- ThreeManifests
  TokenOf <- ThreeTokens
  Clients = {c1, c2}
  Ops = {"add", "delete"}
  Isolation = "serializable"
  MaxCalls = 4
SPECIFICATION Spec
SYMMETRY Symmetry
INVARIANTS Retriable UniqueEnvs EnvsAreOwned NothingLeft
CHECK_DEADLOCK FALSE
