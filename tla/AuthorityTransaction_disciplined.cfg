SPECIFICATION Spec
CONSTANTS
  p1 = p1
  p2 = p2
  p3 = p3
  old = old
  new = new
  Absent = Absent
  Torn = Torn
  j1 = j1
  j2 = j2
  Path = {p1, p2, p3}
  Bytes = {old, new}
  Journal = {j1, j2}
  Plans <- MCPlans
  NoOverlap = TRUE
  FreshRecovery = TRUE
SYMMETRY JournalSymmetry
INVARIANTS TypeOK AllOrNone Recoverable
PROPERTIES RestoresOnlyCommitting ImplementsAtomicCommit
CHECK_DEADLOCK FALSE
