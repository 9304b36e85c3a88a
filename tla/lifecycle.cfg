CONSTANTS
  c1 = c1  c2 = c2  k1 = k1  k2 = k2  v1 = v1  v2 = v2  o1 = o1  w1 = w1  t1 = t1  t2 = t2
  Triples = {k1, v1, v2, o1, w1}
  KindOf <- MCKindOf
  Tags = {t1, t2}
  TagOf <- MCTagOf
  Clients = {c1, c2}
  OwnerColumn = FALSE
  Commands <- All
  MaxCommands = 2
SPECIFICATION Spec
SYMMETRY Symmetry
INVARIANT TypeOK
PROPERTIES ChangesAsAsked OnlyTargetsChange TagsAreWhole
CHECK_DEADLOCK FALSE
