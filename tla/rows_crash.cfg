CONSTANTS
  c1 = c1  c2 = c2  A = A  A2 = A2  B = B  E = E  F = F
  NoEnv = NoEnv
  Envs = {E, F}
  RowKeys <- MCRowKeys
  Docs <- OneDoc
  IdOf <- OneId
  ManifestOf <- OneManifest
  TokenOf <- OneToken
  Clients = {c1}
  Ops = {"add", "delete"}
  Isolation = "serializable"
  MaxCalls = 4
SPECIFICATION Spec
INVARIANTS TypeOK Retriable FullyPopulated NoDanglingEnv
CHECK_DEADLOCK FALSE
