SPECIFICATION Spec
CONSTANTS
  u1 = u1
  u2 = u2
  g1 = g1
  Users = {u1, u2}
  Asked = {u1}
  Groups = {g1}
  NoUser = NoUser
  NoDraft = NoDraft
  Pool = {t1}
  Jobs = {j1}
  Rows <- MCRows
  MaxOps = 3
  MaxFaults = 1
INVARIANTS
  PasswordOnFile
  NothingKept
  GroupsAsGranted
PROPERTIES
  JobsEnd
