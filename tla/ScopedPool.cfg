SPECIFICATION Spec
CONSTANTS
  r1 = r1
  r2 = r2
  r3 = r3
  u1 = u1
  u2 = u2
  Requests = {r1, r2, r3}
  Users = {u1, u2}
  UserOf <- MCUserOf
  Offered <- MCOffered
  Clients = {c1, c2}
  Stored <- MCStored
  None = None
  Empty = Empty
INVARIANTS
  Inv
  Isolation
  PoolIsWhole
  IdleClientsAreClean
  ExportIsWhole
PROPERTIES
  ChangedByOwnCommit
  KeepsContract
  RequestsCanEnd
  RequestsEnd
