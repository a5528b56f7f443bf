SPECIFICATION FairSpec
CONSTANTS
  u1 = u1
  c1 = c1
  Users = {u1}
  Slots = {c1, c2}
  Caller <- OneCaller
  Talking <- OneTalking
  Cap = 3
  MaxCost = 2
  MaxTurns = 2
INVARIANTS
  TypeOK
  OvershootBound
  RealSpendBound
  TurnsBound
PROPERTIES
  NoNewAttemptOverCap
  PaidReplyKept
  ImplementsLedger
  CallsRunOut
  CallsEnd
