SPECIFICATION AllocSpec
CONSTANTS
  L = L
  PS = PS
  f1 = f1
  f2 = f2
  f3 = f3
  i1 = i1
  i2 = i2
  NoFile = NoFile
  Unreadable = Unreadable
  Process = {i1}
  Type = {L, PS}
  File = {f1, f2, f3}
  TypeOf <- MCTypeOf
  NormalEnd = 3
  ReservedEnd = 4
  Declared = {0, 2, 4}
  Serial = TRUE
SYMMETRY FileSymmetry
INVARIANTS IdTypeOK
PROPERTIES NeverReissued NeverOccupied
