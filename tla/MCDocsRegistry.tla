--------------------------- MODULE MCDocsRegistry ---------------------------
EXTENDS DocsRegistry, TLC
CONSTANTS d1, d2, p1, p2
DocSymmetry == Permutations({d1, d2})
=============================================================================
