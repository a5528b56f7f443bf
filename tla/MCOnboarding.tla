---------------------------- MODULE MCOnboarding ----------------------------
(* Instances of Onboarding: which fields each step of the wizard carries.   *)
EXTENDS Onboarding, TLC

CONSTANTS nameAndRoles, roles, polish, nameOnly, spoken, p1

WizardSteps ==
  nameAndRoles :> {"name", "targetRoles"} @@ roles :> {"targetRoles"}
    @@ polish :> {"uiLanguage"} @@ nameOnly :> {"name"} @@ spoken :> {"uiLanguage"}
NameStep == nameOnly :> {"name"} @@ roles :> {"targetRoles"}
=============================================================================
