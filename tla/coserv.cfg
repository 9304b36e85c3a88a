CONSTANTS
  d1 = d1  d2 = d2  d3 = d3  r1 = r1  k1 = k1  e2 = e2  c3 = c3  e3 = e3
  Docs = {d1, d2, d3}
  IdOf <- MCIdOf
  ProfileOf <- MCProfileOf
  NotBefore <- MCNotBefore
  NotAfter <- MCNotAfter
  TagOf <- MCTagOf
  VersionOf <- MCVersionOf
  HowAdded <- MCHowAdded
  Triples = {r1, k1, e2, c3, e3}
  DocOf <- MCDocOf
  KindOf <- MCKindOf
  EnvOf <- MCEnvOf
  Requests <- MCRequests
  AnyProfile = AnyProfile
  Never = Never
  MaxExpiry = 2
  MaxTime = 3
  MaxQueries = 1
SPECIFICATION Spec
INVARIANTS TypeOK ExpiryCovers FailureSurfaces
PROPERTIES Complete RimIsSelected
CHECK_DEADLOCK FALSE
