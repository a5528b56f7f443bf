----------------------------- MODULE Onboarding -----------------------------
(***************************************************************************)
(* POST /onboarding: the wizard's steps, each saving the fields it carries *)
(* to the name in users and to the one row of user_profiles, while other   *)
(* steps of the same account are in flight and the account may be erased;  *)
(* and POST /onboarding/parse-preview, which asks the LLM layer in the     *)
(* language the profile names and saves nothing.                           *)
(*                                                                         *)
(* A field's value is the step that wrote it.  A step is one transaction   *)
(* of up to two statements under READ COMMITTED: UPDATE users locks the    *)
(* name until the end, the upsert locks the profile row until the end.     *)
(***************************************************************************)
EXTENDS FiniteSets

CONSTANTS
  Steps,        \* requests to save, each sent once
  ProfileKeys,  \* the columns of user_profiles a step may carry
  Carries,      \* the fields of each step
  Coded,        \* steps whose uiLanguage is two small letters
  Valid,        \* steps whose other values pass OnboardingService.validate
  Previews,     \* requests to parse the free text, each sent once
  None

Fields == ProfileKeys \cup {"name"}
Maybe(S) == S \cup {None}
Rows == [ProfileKeys -> Maybe(Steps)]

ASSUME CarriesAssumption == Carries \in [Steps -> SUBSET Fields]
ASSUME NameAssumption == "name" \notin ProfileKeys
ASSUME LanguageAssumption == "uiLanguage" \in ProfileKeys /\ Coded \in SUBSET Steps
ASSUME NoneAssumption == None \notin Steps \cup Rows
ASSUME PreviewsAssumption == Previews \cap Steps = {}
ASSUME ValidAssumption == Valid \in SUBSET Steps

VARIABLES
  save,      \* where each step is
  account,   \* the users row exists
  name,      \* users.name
  profile,   \* the committed row of user_profiles, or None
  draft,     \* the version of that row an open step has written
  accepted,  \* of each field, the last step carrying it that was committed
  preview,   \* where each preview is
  faulted    \* steps and previews hit by a failure that is not their own

committed == <<account, name, profile, accepted>>
vars == <<save, account, name, profile, draft, accepted, preview, faulted>>

Open == {"begun", "named", "upserted"}
Ended == {"saved", "invalid", "failed"}
\* 400 or 401, 429, 503 and a bare 500.
Answers == {"answered", "refused", "limited", "unavailable", "failed"}

TypeOK ==
  /\ save \in [Steps -> {"idle", "arrived"} \cup Open \cup Ended]
  /\ account \in BOOLEAN
  /\ name \in Maybe(Steps)
  /\ profile \in Maybe(Rows)
  /\ draft \in [Steps -> Maybe(Rows)]
  /\ \A s \in Steps : draft[s] # None <=> save[s] = "upserted"
  /\ accepted \in [Fields -> Maybe(Steps)]
  /\ preview \in [Previews -> {"idle", "arrived", "asking"} \cup Answers]
  /\ faulted \in SUBSET (Steps \cup Previews)

Init ==
  /\ save = [s \in Steps |-> "idle"]
  /\ account = TRUE
  /\ name = None
  /\ profile = None
  /\ draft = [s \in Steps |-> None]
  /\ accepted = [f \in Fields |-> None]
  /\ preview = [p \in Previews |-> "idle"]
  /\ faulted = {}

Patch(s) == Carries[s] \ {"name"}

\* An open step that updated users keeps the row, and so does a written profile row.
LocksName(s) == save[s] \in {"named", "upserted"} /\ "name" \in Carries[s]
LocksProfile(s) == draft[s] # None

SaveStep(s, from, to) ==
  /\ save[s] = from
  /\ save' = [save EXCEPT ![s] = to]
  /\ UNCHANGED preview

Fault(s) == faulted' = faulted \cup {s}

-----------------------------------------------------------------------------
\* The guard's own look at users, in a transaction that has ended when validate runs.
SaveArrives(s) ==
  /\ IF account
     THEN SaveStep(s, "idle", "arrived") /\ UNCHANGED faulted
     ELSE SaveStep(s, "idle", "failed") /\ Fault(s)
  /\ UNCHANGED <<committed, draft>>

\* isValidUiLanguage, and the other checks of validate.
IsValidUiLanguage(s) == s \in Coded
Accepts(s) == s \in Valid /\ ("uiLanguage" \in Carries[s] => IsValidUiLanguage(s))

\* Mutant: the language is stored unchecked.
ValidateAnyLanguage(s) ==
  /\ SaveStep(s, "arrived", IF s \in Valid THEN "begun" ELSE "invalid")
  /\ UNCHANGED <<committed, draft, faulted>>

Validate(s) ==
  /\ SaveStep(s, "arrived", IF Accepts(s) THEN "begun" ELSE "invalid")
  /\ UNCHANGED <<committed, draft, faulted>>

\* Mutant: the name is written on the pool, outside the transaction.
UpdateNameOutside(s) ==
  /\ SaveStep(s, "begun", "named")
  /\ name' = IF account /\ "name" \in Carries[s] THEN s ELSE name
  /\ UNCHANGED <<account, profile, accepted, draft, faulted>>

\* UPDATE users waits for a step that updated it; without an account it updates
\* no row and says nothing.
UpdateName(s) ==
  /\ "name" \in Carries[s] => \A o \in Steps : ~LocksName(o)
  /\ SaveStep(s, "begun", "named")
  /\ UNCHANGED <<committed, draft, faulted>>

\* Mutant: every column is set, the omitted ones to null.
UpsertedWhole(s) == [k \in ProfileKeys |-> IF k \in Patch(s) THEN s ELSE None]

\* The row the upsert leaves: its own fields over what is committed.
Upserted(s) ==
  [k \in ProfileKeys |->
     IF k \in Patch(s) THEN s ELSE IF profile = None THEN None ELSE profile[k]]

\* Mutant: no foreign key from user_profiles to users.
UpsertNoForeignKey(s) ==
  /\ Patch(s) # {}
  /\ \A o \in Steps : ~LocksProfile(o)
  /\ SaveStep(s, "named", "upserted")
  /\ draft' = [draft EXCEPT ![s] = Upserted(s)]
  /\ UNCHANGED <<committed, faulted>>

\* Mutant: the row is rewritten from what was read, without waiting for its lock.
UpsertUnlocked(s) ==
  /\ Patch(s) # {} /\ account
  /\ SaveStep(s, "named", "upserted")
  /\ draft' = [draft EXCEPT ![s] = Upserted(s)]
  /\ UNCHANGED <<committed, faulted>>

\* INSERT .. ON CONFLICT DO UPDATE waits for a step that wrote the row.  The query
\* builder refuses an empty SET ("No values to set"), the foreign key a row without
\* an account.
Upsert(s) ==
  /\ \/ /\ Patch(s) = {}
        /\ SaveStep(s, "named", "failed")
        /\ UNCHANGED <<draft, faulted>>
     \/ /\ Patch(s) # {} /\ ~account
        /\ SaveStep(s, "named", "failed")
        /\ Fault(s)
        /\ UNCHANGED draft
     \/ /\ Patch(s) # {} /\ account
        /\ \A o \in Steps : ~LocksProfile(o)
        /\ SaveStep(s, "named", "upserted")
        /\ draft' = [draft EXCEPT ![s] = Upserted(s)]
        /\ UNCHANGED faulted
  /\ UNCHANGED committed

\* Name and profile become visible together; the reply to COMMIT may be lost.
Commit(s) ==
  /\ \/ SaveStep(s, "upserted", "saved") /\ UNCHANGED faulted
     \/ SaveStep(s, "upserted", "failed") /\ Fault(s)
  /\ name' = IF "name" \in Carries[s] THEN s ELSE name
  /\ profile' = draft[s]
  /\ accepted' = [f \in Fields |-> IF f \in Carries[s] THEN s ELSE accepted[f]]
  /\ draft' = [draft EXCEPT ![s] = None]
  /\ UNCHANGED account

\* Mutant: the error path returns the client without ROLLBACK.
AbortNoRollback(s) ==
  /\ \E p \in Open : SaveStep(s, p, "failed")
  /\ Fault(s)
  /\ UNCHANGED <<committed, draft>>

\* A query fails or the process stops: ROLLBACK.
Abort(s) ==
  /\ \E p \in Open : SaveStep(s, p, "failed")
  /\ draft' = [draft EXCEPT ![s] = None]
  /\ Fault(s)
  /\ UNCHANGED committed

\* DELETE FROM users waits for the locks of open steps and takes the profile along.
EraseAccount ==
  /\ account
  /\ \A s \in Steps : ~LocksName(s) /\ ~LocksProfile(s)
  /\ account' = FALSE
  /\ name' = None
  /\ profile' = None
  /\ accepted' = [f \in Fields |-> None]
  /\ UNCHANGED <<save, draft, preview, faulted>>

-----------------------------------------------------------------------------
(***************************************************************************)
(* The preview.                                                            *)
(***************************************************************************)

PreviewStep(p, from, to) ==
  /\ preview[p] = from
  /\ preview' = [preview EXCEPT ![p] = to]
  /\ UNCHANGED <<save, committed, draft>>

\* The guard, and the check for an empty text.
PreviewArrives(p) ==
  /\ \/ account /\ PreviewStep(p, "idle", "arrived")
     \/ PreviewStep(p, "idle", "refused")
  /\ UNCHANGED faulted

\* What a statement outside the open steps sees.
UiLanguage == IF profile = None THEN None ELSE profile["uiLanguage"]

\* The layer's own check of the code: a plain Error, which httpErrorFor lets through.
AssertValidParams(language) == language # None => language \in Coded

\* The profile is read in a transaction of its own; run() checks what it is given before
\* its first await, and goes on to the guards and the model.
PreviewReads(p) ==
  /\ PreviewStep(p, "arrived", IF AssertValidParams(UiLanguage) THEN "asking" ELSE "failed")
  /\ UNCHANGED faulted

\* httpErrorFor, by the kind of error the layer ends with (module LlmLayer).
PreviewAnswers(p) ==
  /\ \E answer \in Answers \ {"failed"} : PreviewStep(p, "asking", answer)
  /\ UNCHANGED faulted

\* A query fails, an error of no kind leaves the layer, or the process stops.
PreviewFails(p) ==
  /\ \E from \in {"arrived", "asking"} : PreviewStep(p, from, "failed")
  /\ Fault(p)

Progress(s) == Validate(s) \/ UpdateName(s) \/ Upsert(s) \/ Commit(s)

Next ==
  \/ \E s \in Steps :
       \/ SaveArrives(s)
       \/ Validate(s)
       \/ UpdateName(s)
       \/ Upsert(s)
       \/ Commit(s)
       \/ Abort(s)
  \/ EraseAccount
  \/ \E p \in Previews :
       PreviewArrives(p) \/ PreviewReads(p) \/ PreviewAnswers(p) \/ PreviewFails(p)

Spec == Init /\ [][Next]_vars

\* The database answers a running handler, and a row lock goes to one that waits for
\* it; nobody owes a step, a failure or an erasure.
FairSpec ==
  /\ Spec
  /\ WF_vars(\E s \in Steps : Progress(s))
  /\ WF_vars(\E p \in Previews : PreviewReads(p) \/ PreviewAnswers(p))

-----------------------------------------------------------------------------
(***************************************************************************)
(* Properties.                                                             *)
(***************************************************************************)

\* "Omitted fields keep their current value": in the name and in every column the
\* account holds what the last committed step that carried the field wrote, however
\* the steps overlapped, and a step that was not committed left nothing, not even
\* its name (one transaction; the upsert sets only the keys present).
NoSaveLost ==
  /\ name = accepted["name"]
  /\ \A k \in ProfileKeys : (IF profile = None THEN None ELSE profile[k]) = accepted[k]

\* A step that passed the guard before an erasure writes nothing after it: no
\* profile and no name without an account (foreign key, cascade).
NoProfileWithoutAccount == ~account => profile = None /\ name = None

\* What the row locks give: one open step at a time has written the profile row, its
\* version is the committed row with its own fields on top, and its account stays.
DraftIsCurrent ==
  /\ \A s \in Steps : draft[s] # None => account /\ draft[s] = Upserted(s)
  /\ \A s, o \in Steps : draft[s] # None /\ draft[o] # None => s = o

\* The language is checked where it is stored and again where a prompt is built, by two
\* modules that know nothing of each other: whatever steps were taken in, committed or
\* undone before the preview looks, it fails bare only by a failure around it, never
\* because the account has stored a language the layer will not take.
StoredLanguageIsTaken == \A p \in Previews : preview[p] = "failed" => p \in faulted

\* What that rests on: an open step has passed validate, and so had whoever wrote the
\* language the account holds (the columns of a row are kept or replaced one by one).
LanguagesAreCoded ==
  /\ \A s \in Steps : save[s] \in Open => Accepts(s)
  /\ AssertValidParams(UiLanguage)

\* A step in flight whose next statement waits for a row another step has written.
InFlight(s) == save[s] \in {"arrived"} \cup Open
Waits(s) ==
  \/ save[s] = "begun" /\ "name" \in Carries[s] /\ \E o \in Steps : LocksName(o)
  \/ save[s] = "named" /\ Patch(s) # {} /\ account /\ \E o \in Steps : LocksProfile(o)

\* The name is locked before the profile by every step, so steps wait for each other in no
\* circle, and no row stays locked by a step that has ended: they never all wait.
NobodyIsStuck ==
  (\E s \in Steps : InFlight(s)) => \E s \in Steps : InFlight(s) /\ ~Waits(s)

\* Everything at once: the rows are well formed, no committed field is lost and none outlives
\* its account, what an open step is about to publish is the committed row with its own fields
\* laid over it, the stored language has a code, and steps never all wait.
Inv ==
  /\ TypeOK
  /\ NoSaveLost
  /\ NoProfileWithoutAccount
  /\ DraftIsCurrent
  /\ LanguagesAreCoded
  /\ NobodyIsStuck

\* A step that was taken in is answered, whoever holds the rows it waits for, and so is
\* a preview: in the end none is in flight.
SavesEnd ==
  <>[](/\ \A s \in Steps : save[s] \in {"idle"} \cup Ended
       /\ \A p \in Previews : preview[p] \in {"idle"} \cup Answers)

\* Refuted. "Every field is optional - submit one wizard step at a time"
\* (onboarding.controller.ts): a valid step fails only by a failure around it.
EveryStepCanBeSaved == \A s \in Steps : Accepts(s) /\ save[s] = "failed" => s \in faulted
=============================================================================
