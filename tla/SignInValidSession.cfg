SPECIFICATION Spec
CONSTANTS
  s1 = s1
  s2 = s2
  a1 = a1
  a2 = a2
  b1 = b1
  b2 = b2
  t1 = t1
  t2 = t2
  c1 = c1
  c2 = c2
  None = None
  Subjects = {s1}
  Accounts = {a1}
  Browsers = {b1}
  Attempts = {t1}
  Callbacks = {c1}
INVARIANTS
  ValidSessionAccepted
