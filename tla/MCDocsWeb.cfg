CONSTANTS
  Docs = {1, 2}
  Hashes = {h1, h2}
  Workers = {w1, w2}
  Loop = loop
  Deleters = {}
  Syncs = {}
  Procs = {w1, w2, loop}
  NoThread = NoThread
  NoDoc = 0
  NoHash = NoHash
  Blank = Blank
  Torn = Torn
  NoFile = NoFile
  Uploading = TRUE
  MaxCrashes = 1
  MaxDeletes = 0
SPECIFICATION FairSpec
INVARIANTS OneWorker NoDuplicateContent
PROPERTIES QueueDrains
