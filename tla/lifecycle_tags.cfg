CONSTANTS
  c1 = c1  c2 = c2  k1 = k1  k2 = k2  v1 = v1  v2 = v2  o1 = o1  w1 = w1  t1 = t1  t2 = t2
  Triples = {k1, k2, v1}
  KindOf <- SmallKindOf
  Tags = {t1}
  TagOf <- SmallTagOf
  Clients = {c1}
  OwnerColumn = TRUE
  Commands <- DeactivateTags
  MaxCommands = 1
SPECIFICATION Spec
PROPERTY TagsEndAsAsked
CHECK_DEADLOCK FALSE
