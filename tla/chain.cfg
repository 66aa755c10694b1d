SPECIFICATION Spec
CONSTANTS
  Writers = {w1, w2, w3}
  Bodies = {b1, b2}
  Parties = {p1, p2}
  Keys = {k1, k2}
  MaxSeq = 3
  NULL = NULL
SYMMETRY WriterSymmetry
INVARIANTS
  TypeOK
  BadHasCause
  SerialTamperLocated
