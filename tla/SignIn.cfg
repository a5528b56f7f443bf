SPECIFICATION Spec
CONSTANTS
  s1 = s1
  s2 = s2
  a1 = a1
  a2 = a2
  b1 = b1
  b2 = b2
  t1 = t1
  t2 = t2
  c1 = c1
  c2 = c2
  None = None
  Subjects = {s1, s2}
  Accounts = {a1, a2}
  Browsers = {b1, b2}
  Attempts = {t1, t2}
  Callbacks = {c1, c2}
SYMMETRY MCSymmetry
INVARIANTS
  Inv
  AccountsAreIdentified
  SessionIsOwn
  NoServiceAfterErasure
PROPERTIES
  KeepsContract
