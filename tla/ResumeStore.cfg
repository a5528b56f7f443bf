SPECIFICATION FairSpec
CONSTANTS
  u1 = u1
  r1 = r1
  r2 = r2
  r3 = r3
  r4 = r4
  r5 = r5
  r6 = r6
  e1 = e1
  e2 = e2
  j1 = j1
  Users = {u1}
  Resumes = {r1, r2, r3, r4, r5, r6}
  Erasures = {e1, e2}
  Jobs = {j1}
  Pasts <- GroupPasts
  Rosters <- Groups
  Owner <- OneOwner
  Target <- OneTarget
  Subject <- FirstResume
INVARIANTS
  Inv
  RowHasFile
  ActiveResumeExists
  TwoActiveOnlyIfOverlapping
  NothingOutlivesAccount
  ErasureDeletesEarlierFiles
PROPERTIES
  KeepsContract
  RequestsCanEnd
  RequestsEnd
