SPECIFICATION Spec
CONSTANTS
  nameAndRoles = nameAndRoles
  roles = roles
  polish = polish
  nameOnly = nameOnly
  spoken = spoken
  p1 = p1
  None = None
  Steps = {nameOnly, roles}
  Valid = {nameOnly}
  Coded = {}
  Previews = {}
  ProfileKeys = {"targetRoles", "uiLanguage"}
  Carries <- NameStep
INVARIANTS
  EveryStepCanBeSaved
CHECK_DEADLOCK FALSE
