SPECIFICATION Spec
CONSTANTS
  u1 = u1
  r1 = r1
  r2 = r2
  r3 = r3
  r4 = r4
  r5 = r5
  r6 = r6
  e1 = e1
  e2 = e2
  j1 = j1
  Users = {u1}
  Resumes = {r1, r2}
  Erasures = {e1}
  Jobs = {}
  Pasts <- OnePast
  Rosters <- Everything
  Owner <- OneOwner
  Target <- OneTarget
  Subject <- FirstResume
SYMMETRY Symmetry
INVARIANTS
  NoFileOutlivesAccount
