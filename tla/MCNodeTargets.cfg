CONSTANTS
  Nodes = {n1, n2}
  Threads = {t1, t2}
  Instances = {i1, i2}
  NoInst = NoInst
  Publics = {a1, a2}
  Privates = {b1, b2}
  NoAddr = NoAddr
  Blank = Blank
  Torn = Torn
  NoFile = NoFile
  Placeholder = Placeholder
  SendsPublicIp = FALSE
  MaxOps = 4
  MaxRestarts = 0
SPECIFICATION Spec
PROPERTIES OwnTarget BeatsKeepInstance
SYMMETRY NodeSymmetry
CHECK_DEADLOCK FALSE
