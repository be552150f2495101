CONSTANTS
  d1 = d1
  d2 = d2
  p1 = p1
  p2 = p2
  Blank = Blank
  Torn = Torn
  NoFile = NoFile
  Docs = {d1, d2}
  Procs = {p1, p2}
SPECIFICATION RegSpec
INVARIANTS NeverTornAlone NoSpuriousError
PROPERTY AtomicSpec
SYMMETRY DocSymmetry
