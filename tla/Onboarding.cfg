SPECIFICATION FairSpec
CONSTANTS
  nameAndRoles = nameAndRoles
  roles = roles
  polish = polish
  nameOnly = nameOnly
  spoken = spoken
  p1 = p1
  None = None
  Steps = {nameAndRoles, roles, polish, nameOnly, spoken}
  Valid = {nameAndRoles, roles, polish, nameOnly, spoken}
  Coded = {polish}
  Previews = {p1}
  ProfileKeys = {"targetRoles", "uiLanguage"}
  Carries <- WizardSteps
INVARIANTS
  Inv
  NoSaveLost
  NoProfileWithoutAccount
  StoredLanguageIsTaken
PROPERTIES
  SavesEnd
CHECK_DEADLOCK FALSE
