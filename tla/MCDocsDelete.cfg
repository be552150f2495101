CONSTANTS
  Docs = {1, 2}
  Hashes = {h1, h2}
  Workers = {w1, w2}
  Loop = loop
  Deleters = {q1}
  Syncs = {}
  Procs = {w1, w2, loop, q1}
  NoThread = NoThread
  NoDoc = 0
  NoHash = NoHash
  Blank = Blank
  Torn = Torn
  NoFile = NoFile
  Uploading = TRUE
  MaxCrashes = 1
  MaxDeletes = 1
SPECIFICATION Spec
INVARIANT TerminalAgrees
PROPERTY LeavesByDelete
SYMMETRY PipelineSymmetry
