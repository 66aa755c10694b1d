----------------------------- MODULE MCAuditChain -----------------------------
\* Writers, bodies, parties and keys are interchangeable: no property names one.
EXTENDS AuditChain, TLC
WriterSymmetry ==
  Permutations(Writers) \cup Permutations(Bodies) \cup Permutations(Parties)
    \cup Permutations(Keys)
=============================================================================
