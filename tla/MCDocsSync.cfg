CONSTANTS
  Docs = {1, 2}
  Hashes = {h1, h2}
  Workers = {w1}
  Loop = loop
  Deleters = {}
  Syncs = {s1}
  Procs = {w1, loop, s1}
  NoThread = NoThread
  NoDoc = 0
  NoHash = NoHash
  Blank = Blank
  Torn = Torn
  NoFile = NoFile
  Uploading = FALSE
  MaxCrashes = 0
  MaxDeletes = 0
SPECIFICATION Spec
INVARIANT ReadyWasChunked
SYMMETRY PipelineSymmetry
