SPECIFICATION Spec
CONSTANTS
  d1 = d1
  d2 = d2
  d3 = d3
  a = a
  b = b
  c = c
  x = x
  z = z
  A1 = A1
  A2 = A2
  A3 = A3
  AX = AX
  r1 = r1
  r2 = r2
  r3 = r3
  n1 = n1
  n2 = n2
  Absent = Absent
  Deleted = Deleted
  None = None
  Dropped = Dropped
  Doc = {d1, d2, d3}
  Entity = {a, b, c, x, z}
  Alias = {A1, A2, A3, AX}
  Reference = {r1, r2, r3}
  Home <- MCHome
  Root <- MCRoot
  AliasOf <- MCAliasOf
  NameOf <- MCNameOf
  From <- MCFrom
  To <- MCTo
  Place <- MCPlace
  MaxPlans = 2
  Replacements <- MCReplacements
  LegacyOnly = TRUE
  RecoverFirst = TRUE
INVARIANTS MigrationTypeOK IdentitiesDistinct MapDescribesCorpus CheckIsSound
PROPERTIES MintedOnce ReferencesKept
CHECK_DEADLOCK FALSE
