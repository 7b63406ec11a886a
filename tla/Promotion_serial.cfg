SPECIFICATION Spec
CONSTANTS
  A = A
  B = B
  pA = pA
  pB = pB
  pN = pN
  m1 = m1
  m2 = m2
  m3 = m3
  v0 = v0
  None = None
  Absent = Absent
  Path = {pA, pN}
  Contract = {A, B}
  MutationId = {m1, m2, m3}
  Mutations <- MCDistinct
  Original = {v0}
  Edited = {v0, Absent}
  Serial = TRUE
  MaxCommits = 1
PROPERTIES NoLostWork EvidenceIsTrue CommitsLockedBytes
