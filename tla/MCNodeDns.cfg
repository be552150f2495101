CONSTANTS
  Nodes = {n1}
  Threads = {t1, t2}
  Instances = {i1}
  NoInst = NoInst
  Publics = {a1, a2}
  Privates = {b1}
  NoAddr = NoAddr
  Blank = Blank
  Torn = Torn
  NoFile = NoFile
  Placeholder = Placeholder
  SendsPublicIp = TRUE
  MaxOps = 3
  MaxRestarts = 1
SPECIFICATION FairSpec
INVARIANT RecordParses
PROPERTY DnsConverges
CHECK_DEADLOCK FALSE
