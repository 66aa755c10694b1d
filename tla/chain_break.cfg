SPECIFICATION Spec
CONSTANTS
  Writers = {w1, w2}
  Bodies = {b1, b2}
  Parties = {p1}
  Keys = {k1, k2}
  MaxSeq = 2
  NULL = NULL
SYMMETRY WriterSymmetry
INVARIANT
  BreakMeansTamperOrRotation
