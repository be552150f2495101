CONSTANTS
  Docs = {1, 2}
  Hashes = {h1}
  Workers = {w1}
  Loop = loop
  Deleters = {q1}
  Syncs = {}
  Procs = {w1, loop, q1}
  NoThread = NoThread
  NoDoc = 0
  NoHash = NoHash
  Blank = Blank
  Torn = Torn
  NoFile = NoFile
  Uploading = TRUE
  MaxCrashes = 0
  MaxDeletes = 1
SPECIFICATION Spec
INVARIANT FailurePersisted
