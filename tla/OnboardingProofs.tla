-------------------------- MODULE OnboardingProofs --------------------------
(***************************************************************************)
(* That no save of the wizard is lost, for any number of overlapping steps, *)
(* whatever fields they carry, and any erasure among them.                 *)
(*                                                                         *)
(* NoSaveLost is not inductive: a commit publishes a row version that was  *)
(* computed earlier.  DraftIsCurrent says that version is still built on   *)
(* what is committed, because the lock kept every other writer out.        *)
(***************************************************************************)
EXTENDS Onboarding, TLAPS

IInv == TypeOK /\ NoSaveLost /\ NoProfileWithoutAccount /\ DraftIsCurrent

USE NoneAssumption, NameAssumption, CarriesAssumption, LanguageAssumption

\* The row an upsert leaves is a row, over any committed state.
LEMMA UpsertedIsRow ==
  ASSUME TypeOK, NEW s \in Steps
  PROVE  Upserted(s) \in Rows
BY SMT DEF TypeOK, Upserted, Rows, Maybe, Patch, Fields

\* At the start nothing is saved, and no step is open.
LEMMA InitIInv == Init => IInv
BY DEF Init, IInv, TypeOK, NoSaveLost, NoProfileWithoutAccount, DraftIsCurrent, Maybe, Fields, Open, Ended

\* Where saves and previews may be.
SaveStates == {"idle", "arrived"} \cup Open \cup Ended
PreviewStates == {"idle", "arrived", "asking"} \cup Answers
Hit == Steps \cup Previews

\* Steps that touch neither database rows nor drafts.
LEMMA OutsideStep ==
  ASSUME IInv, UNCHANGED <<committed, draft>>,
         save' \in [Steps -> SaveStates],
         preview' \in [Previews -> PreviewStates],
         faulted' \in SUBSET Hit,
         \A o \in Steps : save'[o] = "upserted" <=> save[o] = "upserted"
  PROVE  IInv'
<1>1. TypeOK'
  BY DEF IInv, TypeOK, committed, Maybe, SaveStates, PreviewStates, Hit
<1>2. NoSaveLost' /\ NoProfileWithoutAccount'
  BY DEF IInv, NoSaveLost, NoProfileWithoutAccount, committed
<1>3. DraftIsCurrent'
  BY DEF IInv, DraftIsCurrent, committed, Upserted
<1>4. QED
  BY <1>1, <1>2, <1>3 DEF IInv

\* Steps and erasures keep what the rows hold and what the open steps are about to publish.
LEMMA NextIInv == IInv /\ [Next]_vars => IInv'
<1> SUFFICES ASSUME IInv, [Next]_vars PROVE IInv'
  OBVIOUS
<1> USE DEF IInv
<1>1. ASSUME NEW s \in Steps, SaveArrives(s) PROVE IInv'
  <2>1. UNCHANGED <<committed, draft>>
    BY <1>1 DEF SaveArrives
  <2>2. /\ save' \in [Steps -> SaveStates]
        /\ preview' \in [Previews -> PreviewStates]
        /\ faulted' \in SUBSET Hit
    BY <1>1 DEF SaveArrives, SaveStep, Fault, TypeOK, Ended, SaveStates, PreviewStates, Hit
  <2>3. \A o \in Steps : save'[o] = "upserted" <=> save[o] = "upserted"
    BY <1>1 DEF SaveArrives, SaveStep, TypeOK
  <2>4. QED
    BY <2>1, <2>2, <2>3, OutsideStep
<1>2. ASSUME NEW s \in Steps, Validate(s) PROVE IInv'
  <2>1. UNCHANGED <<committed, draft>>
    BY <1>2 DEF Validate
  <2>2. /\ save' \in [Steps -> SaveStates]
        /\ preview' \in [Previews -> PreviewStates]
        /\ faulted' \in SUBSET Hit
    BY <1>2 DEF Validate, SaveStep, TypeOK, Open, Ended, SaveStates, PreviewStates, Hit
  <2>3. \A o \in Steps : save'[o] = "upserted" <=> save[o] = "upserted"
    BY <1>2 DEF Validate, SaveStep, TypeOK
  <2>4. QED
    BY <2>1, <2>2, <2>3, OutsideStep
<1>3. ASSUME NEW s \in Steps, UpdateName(s) PROVE IInv'
  <2>1. UNCHANGED <<committed, draft>>
    BY <1>3 DEF UpdateName
  <2>2. /\ save' \in [Steps -> SaveStates]
        /\ preview' \in [Previews -> PreviewStates]
        /\ faulted' \in SUBSET Hit
    BY <1>3 DEF UpdateName, SaveStep, TypeOK, Open, SaveStates, PreviewStates, Hit
  <2>3. \A o \in Steps : save'[o] = "upserted" <=> save[o] = "upserted"
    BY <1>3 DEF UpdateName, SaveStep, TypeOK
  <2>4. QED
    BY <2>1, <2>2, <2>3, OutsideStep
<1>4. ASSUME NEW s \in Steps, Upsert(s) PROVE IInv'
  <2>1. CASE UNCHANGED draft /\ SaveStep(s, "named", "failed")
    <3>1. UNCHANGED <<committed, draft>>
      BY <1>4, <2>1 DEF Upsert
    <3>2. /\ save' \in [Steps -> SaveStates]
          /\ preview' \in [Previews -> PreviewStates]
          /\ faulted' \in SUBSET Hit
      BY <1>4, <2>1 DEF Upsert, SaveStep, Fault, TypeOK, Ended, SaveStates, PreviewStates, Hit
    <3>3. \A o \in Steps : save'[o] = "upserted" <=> save[o] = "upserted"
      BY <2>1 DEF SaveStep, TypeOK
    <3>4. QED
      BY <3>1, <3>2, <3>3, OutsideStep
  <2>2. CASE /\ account
             /\ \A o \in Steps : ~LocksProfile(o)
             /\ SaveStep(s, "named", "upserted")
             /\ draft' = [draft EXCEPT ![s] = Upserted(s)]
             /\ UNCHANGED faulted
    <3>1. Upserted(s) \in Rows
      BY UpsertedIsRow
    <3>2. UNCHANGED committed
      BY <1>4 DEF Upsert
    <3>3. draft[s] = None /\ \A o \in Steps : draft[o] = None
      BY <2>2 DEF LocksProfile
    <3>4. TypeOK'
      BY <2>2, <3>1, <3>2, <3>3 DEF TypeOK, SaveStep, committed, Maybe, Open
    <3>5. NoSaveLost' /\ NoProfileWithoutAccount'
      BY <3>2 DEF NoSaveLost, NoProfileWithoutAccount, committed
    <3>6. DraftIsCurrent'
      <4>1. \A o \in Steps : draft'[o] # None => o = s
        BY <2>2, <3>3 DEF TypeOK
      <4>2. draft'[s] = Upserted(s)' /\ account'
        BY <2>2, <3>2 DEF TypeOK, committed, Upserted
      <4>3. QED
        BY <4>1, <4>2 DEF DraftIsCurrent
    <3>7. QED
      BY <3>4, <3>5, <3>6
  <2>3. QED
    BY <1>4, <2>1, <2>2 DEF Upsert
<1>5. ASSUME NEW s \in Steps, Commit(s) PROVE IInv'
  <2>1. save[s] = "upserted" /\ draft[s] = Upserted(s) /\ draft[s] \in Rows /\ account
    BY <1>5, UpsertedIsRow DEF Commit, SaveStep, TypeOK, DraftIsCurrent
  <2>2. \A o \in Steps : draft'[o] = None
    BY <1>5, <2>1 DEF Commit, TypeOK, DraftIsCurrent
  <2>3. TypeOK'
    <3>1. \A o \in Steps : save'[o] # "upserted"
      BY <1>5, <2>1 DEF Commit, SaveStep, TypeOK, DraftIsCurrent
    <3>2. name' \in Maybe(Steps) /\ profile' \in Maybe(Rows) /\ accepted' \in [Fields -> Maybe(Steps)]
      BY <1>5, <2>1 DEF Commit, TypeOK, Maybe
    <3>3. /\ save' \in [Steps -> {"idle", "arrived"} \cup Open \cup Ended]
          /\ preview' \in [Previews -> {"idle", "arrived", "asking"} \cup Answers]
          /\ faulted' \in SUBSET (Steps \cup Previews)
          /\ draft' \in [Steps -> Maybe(Rows)]
          /\ account' \in BOOLEAN
      BY <1>5 DEF Commit, SaveStep, Fault, TypeOK, Maybe, Ended
    <3>4. QED
      BY <2>2, <3>1, <3>2, <3>3 DEF TypeOK
  <2>4. NoSaveLost'
    <3>1. name' = accepted'["name"]
      BY <1>5 DEF Commit, NoSaveLost, Fields
    <3>2. ASSUME NEW k \in ProfileKeys PROVE profile'[k] = accepted'[k]
      <4>1. profile'[k] = IF k \in Carries[s] THEN s ELSE IF profile = None THEN None ELSE profile[k]
        BY <1>5, <2>1 DEF Commit, Upserted, Patch
      <4>2. accepted'[k] = IF k \in Carries[s] THEN s ELSE accepted[k]
        BY <1>5 DEF Commit, Fields
      <4>3. QED
        BY <4>1, <4>2 DEF NoSaveLost
    <3>3. profile' # None
      BY <1>5, <2>1 DEF Commit
    <3>4. QED
      BY <3>1, <3>2, <3>3 DEF NoSaveLost
  <2>5. NoProfileWithoutAccount' /\ DraftIsCurrent'
    BY <1>5, <2>1, <2>2 DEF Commit, NoProfileWithoutAccount, DraftIsCurrent
  <2>6. QED
    BY <2>3, <2>4, <2>5
<1>6. ASSUME NEW s \in Steps, Abort(s) PROVE IInv'
  <2>1. UNCHANGED committed
    BY <1>6 DEF Abort
  <2>2. TypeOK'
    BY <1>6, <2>1 DEF Abort, SaveStep, Fault, TypeOK, committed, Maybe, Ended
  <2>3. NoSaveLost' /\ NoProfileWithoutAccount'
    BY <2>1 DEF NoSaveLost, NoProfileWithoutAccount, committed
  <2>4. \A o \in Steps : draft'[o] # None => draft'[o] = draft[o]
    BY <1>6 DEF Abort, TypeOK
  <2>5. DraftIsCurrent'
    BY <2>1, <2>4 DEF DraftIsCurrent, committed, Upserted
  <2>6. QED
    BY <2>2, <2>3, <2>5
<1>7. CASE EraseAccount
  <2>1. \A s \in Steps : draft'[s] = None
    BY <1>7 DEF EraseAccount, LocksProfile
  <2>2. TypeOK'
    BY <1>7 DEF EraseAccount, TypeOK, Maybe
  <2>3. NoSaveLost' /\ NoProfileWithoutAccount' /\ DraftIsCurrent'
    BY <1>7, <2>1 DEF EraseAccount, NoSaveLost, NoProfileWithoutAccount, DraftIsCurrent, Fields
  <2>4. QED
    BY <2>2, <2>3
<1>8. ASSUME NEW p \in Previews,
             PreviewArrives(p) \/ PreviewReads(p) \/ PreviewAnswers(p) \/ PreviewFails(p)
      PROVE  IInv'
  <2>1. UNCHANGED <<save, committed, draft>>
    BY <1>8 DEF PreviewArrives, PreviewReads, PreviewAnswers, PreviewFails, PreviewStep
  <2>2. PICK answer \in PreviewStates : preview' = [preview EXCEPT ![p] = answer]
    BY <1>8 DEF PreviewArrives, PreviewReads, PreviewAnswers, PreviewFails, PreviewStep,
      PreviewStates, Answers
  <2>3. faulted' \in SUBSET Hit
    BY <1>8 DEF PreviewArrives, PreviewReads, PreviewAnswers, PreviewFails, Fault, TypeOK, Hit
  <2>4. save' \in [Steps -> SaveStates] /\ preview' \in [Previews -> PreviewStates]
    BY <2>1, <2>2 DEF TypeOK, SaveStates, PreviewStates
  <2>5. QED
    BY <2>1, <2>3, <2>4, OutsideStep
<1>9. CASE UNCHANGED vars
  BY <1>9 DEF vars, TypeOK, NoSaveLost, NoProfileWithoutAccount, DraftIsCurrent, Upserted
<1>10. QED
  BY <1>1, <1>2, <1>3, <1>4, <1>5, <1>6, <1>7, <1>8, <1>9 DEF Next

\* So it holds in every reachable state.
LEMMA IInvCorrect == Spec => []IInv
BY InitIInv, NextIInv, PTL DEF Spec

\* Type correctness; a written row version belongs to a step that is still open.
THEOREM TypeCorrect == Spec => []TypeOK
BY IInvCorrect, PTL DEF IInv

\* The account holds of every field what the last committed step carrying it wrote.
THEOREM SavesAreKept == Spec => []NoSaveLost
BY IInvCorrect, PTL DEF IInv

\* Nothing of a profile is left or written once the account is erased.
THEOREM ErasedProfileStaysErased == Spec => []NoProfileWithoutAccount
BY IInvCorrect, PTL DEF IInv

\* A version that an open step has written is the committed row with the step's own
\* fields on top, at most one step has one, and its account is still there.
THEOREM OpenDraftIsCurrent == Spec => []DraftIsCurrent
BY IInvCorrect, PTL DEF IInv

\* Of the steps in flight one can go on: whoever has written the profile row waits for
\* nothing, without it nobody waits for that row, and whoever has the name is past waiting
\* for a name.
THEOREM SomebodyGoesOn == Spec => []NobodyIsStuck
<1>1. TypeOK => NobodyIsStuck
  <2> SUFFICES ASSUME TypeOK, NEW s \in Steps, InFlight(s), \A o \in Steps : InFlight(o) => Waits(o)
               PROVE  FALSE
    BY DEF NobodyIsStuck
  <2>1. \A o \in Steps : InFlight(o) => save[o] \in {"begun", "named"}
    BY DEF Waits
  <2>2. \A o \in Steps : ~LocksProfile(o)
    BY <2>1 DEF TypeOK, LocksProfile, InFlight, Open
  <2>3. \A o \in Steps : InFlight(o) => save[o] = "begun"
    BY <2>1, <2>2 DEF Waits
  <2>4. \A o \in Steps : ~LocksName(o)
    BY <2>3 DEF LocksName, InFlight, Open
  <2> QED
    BY <2>3, <2>4 DEF Waits
<1> QED
  BY <1>1, TypeCorrect, PTL

-----------------------------------------------------------------------------
(***************************************************************************)
(* Languages.  A committed row holds, column by column, what accepted      *)
(* steps wrote: an upsert keeps the language it found or replaces it by    *)
(* its own, which validate has passed.                                     *)
(***************************************************************************)

LInv == LanguagesAreCoded /\ StoredLanguageIsTaken

\* At the start no language is stored.
LEMMA InitLInv == Init => LInv
BY DEF Init, LInv, LanguagesAreCoded, StoredLanguageIsTaken, UiLanguage, AssertValidParams, Open

\* A language is stored by a step that passed validate, or kept.
LEMMA NextLInv == IInv /\ LInv /\ [Next]_vars => LInv'
<1> SUFFICES ASSUME IInv, LInv, [Next]_vars PROVE LInv'
  OBVIOUS
<1>1. LanguagesAreCoded'
  <2>1. ASSUME NEW s \in Steps, save'[s] \in Open PROVE Accepts(s)
    <3>1. CASE save[s] \in Open
      BY <3>1 DEF LInv, LanguagesAreCoded
    <3>2. CASE save[s] \notin Open
      <4>1. Validate(s)
        BY <2>1, <3>2 DEF Next, vars, IInv, TypeOK, SaveArrives, Validate, UpdateName, Upsert,
          Commit, Abort, EraseAccount, PreviewArrives, PreviewReads, PreviewAnswers,
          PreviewFails, PreviewStep, SaveStep, Open
      <4>2. QED
        BY <2>1, <3>2, <4>1 DEF Validate, SaveStep, IInv, TypeOK, Open
    <3>3. QED
      BY <3>1, <3>2
  <2>2. AssertValidParams(UiLanguage)'
    <3>1. CASE \E s \in Steps : Commit(s)
      <4>1. PICK s \in Steps : Commit(s)
        BY <3>1
      <4>2. save[s] = "upserted" /\ draft[s] = Upserted(s)
        BY <4>1 DEF Commit, SaveStep, IInv, TypeOK, DraftIsCurrent
      <4>3. profile' = Upserted(s) /\ Accepts(s)
        BY <4>1, <4>2 DEF Commit, LInv, LanguagesAreCoded, Open
      <4>4. profile'["uiLanguage"] = IF "uiLanguage" \in Carries[s] THEN s ELSE UiLanguage
        BY <4>3 DEF Upserted, Patch, UiLanguage
      <4>5. CASE "uiLanguage" \in Carries[s]
        BY <4>3, <4>4, <4>5 DEF Accepts, IsValidUiLanguage, AssertValidParams, UiLanguage
      <4>6. CASE "uiLanguage" \notin Carries[s]
        BY <4>4, <4>6 DEF AssertValidParams, UiLanguage, LInv, LanguagesAreCoded
      <4>7. QED
        BY <4>5, <4>6
    <3>2. CASE EraseAccount
      BY <3>2 DEF EraseAccount, AssertValidParams, UiLanguage
    <3>3. CASE UNCHANGED profile
      BY <3>3 DEF AssertValidParams, UiLanguage, LInv, LanguagesAreCoded
    <3>4. QED
      BY <3>1, <3>2, <3>3 DEF Next, vars, committed, SaveArrives, Validate, UpdateName, Upsert,
        Abort, PreviewArrives, PreviewReads, PreviewAnswers, PreviewFails, PreviewStep
  <2>3. QED
    BY <2>1, <2>2 DEF LanguagesAreCoded, Accepts, IsValidUiLanguage
<1>2. StoredLanguageIsTaken'
  <2>1. faulted \subseteq faulted'
    BY DEF Next, vars, SaveArrives, Validate, UpdateName, Upsert, Commit, Abort, EraseAccount,
      PreviewArrives, PreviewReads, PreviewAnswers, PreviewFails, Fault
  <2>2. ASSUME NEW p \in Previews, preview'[p] = "failed", preview[p] # "failed"
        PROVE  p \in faulted'
    <3>1. \E q \in Previews :
            PreviewArrives(q) \/ PreviewReads(q) \/ PreviewAnswers(q) \/ PreviewFails(q)
      BY <2>2 DEF Next, vars, SaveArrives, Validate, UpdateName, Upsert, Commit, Abort,
        EraseAccount, SaveStep
    <3>2. PICK q \in Previews :
            PreviewArrives(q) \/ PreviewReads(q) \/ PreviewAnswers(q) \/ PreviewFails(q)
      BY <3>1
    <3>3. q = p
      BY <2>2, <3>2 DEF PreviewArrives, PreviewReads, PreviewAnswers, PreviewFails, PreviewStep,
        IInv, TypeOK
    <3>4. PreviewFails(p)
      BY <2>2, <3>2, <3>3 DEF PreviewArrives, PreviewReads, PreviewAnswers, PreviewStep,
        IInv, TypeOK, LInv, LanguagesAreCoded
    <3>5. QED
      BY <3>4 DEF PreviewFails, Fault
  <2>3. QED
    BY <2>1, <2>2 DEF StoredLanguageIsTaken, LInv
<1>3. QED
  BY <1>1, <1>2 DEF LInv

\* A preview never fails because of the language the account has stored.
THEOREM LanguagesAreTaken == Spec => []StoredLanguageIsTaken
<1>1. Spec => [](IInv /\ LInv)
  BY InitIInv, InitLInv, NextIInv, NextLInv, PTL DEF Spec
<1>2. QED
  BY <1>1, PTL DEF LInv

\* All of it: what the rows hold and the open steps are about to publish.
THEOREM InvCorrect == Spec => []Inv
<1>1. Spec => [](IInv /\ LInv)
  BY InitIInv, InitLInv, NextIInv, NextLInv, PTL DEF Spec
<1>2. IInv /\ LInv /\ NobodyIsStuck => Inv
  BY DEF IInv, LInv, Inv
<1>3. QED
  BY <1>1, <1>2, SomebodyGoesOn, PTL
=============================================================================
