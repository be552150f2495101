CONSTANTS
  Users = {1, 2}
  Syncs = {s1, s2}
  Rooms = {r1}
  NoFile = NoFile
  Husk = Husk
  Limit = 2
  MaxJobs = 3
SPECIFICATION Spec
INVARIANTS HusksFromCrossing LatestKept ServerAsDone
SYMMETRY BookmarkSymmetry
