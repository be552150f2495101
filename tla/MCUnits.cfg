CONSTANTS
  Ids = {b1, b2}
  Contents = {c1, c2}
  Loop = loop
  Pool = {t1, t2}
  NoId = NoId
  Missing = Missing
  v1 = v1
  k3 = k3
  f1 = f1
  f2 = f2
  Keys = {k1, k2, k3}
  Confs = {f1, f2}
  FileOf <- Layout
  Values = {v1}
  Placeholder = CHANGEME
  Absent = Absent
  Inherited <- Parents
  NoBundle = NoBundle
  MaxOps = 4
  MaxCrashes = 1
SPECIFICATION Spec
INVARIANTS OneBackup SelectedExists ConfiguredOnly SecretAgrees NodeWhole
PROPERTIES SelectionKept EditKept
SYMMETRY UnitSymmetry
CHECK_DEADLOCK FALSE
