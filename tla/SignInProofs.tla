---------------------------- MODULE SignInProofs ----------------------------
(***************************************************************************)
(* That sign-in keeps accounts and sessions apart, for any number of       *)
(* people, browsers, flows and callbacks.                                  *)
(*                                                                         *)
(* Inv is inductive.  A session is issued from what a callback looked up   *)
(* several steps before, so SessionIsOwn rests on FlowsBelong; one account *)
(* per person rests on InsertsAreUnique and IdsAreUnique, which say what   *)
(* open statements may still commit; NoServiceAfterErasure rests on ids    *)
(* not coming back, in SessionsAreOfAccounts.                              *)
(***************************************************************************)
EXTENDS SignIn, TLAPS

USE NoneAssumption

\* Every initial state satisfies the invariant, whoever is admitted.
LEMMA InitInv == Init => Inv
<1> SUFFICES ASSUME Init PROVE Inv
  OBVIOUS
<1>1. TypeOK
  BY DEF Init, TypeOK, Maybe
<1>2. AccountsAreIdentified /\ SessionIsOwn /\ NoServiceAfterErasure
  BY DEF Init, AccountsAreIdentified, SessionIsOwn, NoServiceAfterErasure
<1>3. FlowsBelong /\ IdsAreUnique /\ InsertsAreUnique /\ SessionsAreOfAccounts
  BY DEF Init, FlowsBelong, IdsAreUnique, InsertsAreUnique, SessionsAreOfAccounts, CallbackLive, RequestLive
<1>4. QED
  BY <1>1, <1>2, <1>3 DEF Inv

\* Every action preserves it, conjunct by conjunct.
LEMMA NextInv == Inv /\ [Next]_vars => Inv'
<1> SUFFICES ASSUME TypeOK, AccountsAreIdentified, SessionIsOwn, NoServiceAfterErasure, FlowsBelong,
                    IdsAreUnique, InsertsAreUnique, SessionsAreOfAccounts, [Next]_vars
             PROVE  Inv'
  BY DEF Inv
<1> USE DEF google, cookies, flow, db, guarded
<1>1. ASSUME NEW t \in Attempts, Consent(t) PROVE Inv'
  <2>1. /\ AccountsAreIdentified'
        /\ NoServiceAfterErasure'
        /\ IdsAreUnique'
        /\ SessionsAreOfAccounts'
    BY <1>1 DEF Consent, AccountsAreIdentified, NoServiceAfterErasure, IdsAreUnique,
       SessionsAreOfAccounts
  <2>2. TypeOK'
    BY <1>1 DEF Consent, TypeOK, CallbackLive, CallbackEnded, RequestLive, RequestEnded,
       Maybe
  <2>3. SessionIsOwn'
    <3>1. ASSUME NEW b \in Browsers, session'[b] # None
          PROVE  \E o \in Attempts : opened'[o] = b /\ <<consent'[o], session'[b]>> \in history'
      <4>1. PICK o \in Attempts : opened[o] = b /\ <<consent[o], session[b]>> \in history
        BY <1>1, <3>1 DEF Consent, SessionIsOwn
      <4>2. consent[o] # None
        BY <4>1 DEF TypeOK
      <4>3. consent'[o] = consent[o]
        BY <1>1, <4>2 DEF Consent, TypeOK
      <4>4. QED
        BY <1>1, <4>1, <4>3 DEF Consent
    <3>2. QED
      BY <3>1 DEF SessionIsOwn
  <2>4. FlowsBelong'
    BY <1>1 DEF Consent, FlowsBelong, TypeOK, SubjectOf, CallbackLive, Maybe
  <2>5. InsertsAreUnique'
    <3>1. \A c \in Callbacks : callback[c] = "commit" => SubjectOf(c)' = SubjectOf(c)
      BY <1>1 DEF Consent, FlowsBelong, CallbackLive, SubjectOf, TypeOK, Maybe
    <3>2. QED
      BY <1>1, <3>1 DEF Consent, InsertsAreUnique
  <2>6. QED
    BY <2>1, <2>2, <2>3, <2>4, <2>5 DEF Inv
<1>2. ASSUME NEW c \in Callbacks, CallbackArrives(c) PROVE Inv'
  <2>1. /\ AccountsAreIdentified'
        /\ SessionIsOwn'
        /\ NoServiceAfterErasure'
        /\ SessionsAreOfAccounts'
    BY <1>2 DEF CallbackArrives, AccountsAreIdentified, SessionIsOwn,
       NoServiceAfterErasure, SessionsAreOfAccounts
  <2>2. TypeOK'
    BY <1>2 DEF CallbackArrives, CallbackStep, TypeOK, CallbackLive, CallbackEnded,
       RequestLive, RequestEnded, Maybe
  <2>3. FlowsBelong'
    BY <1>2 DEF CallbackArrives, CallbackStep, FlowsBelong, TypeOK, SubjectOf,
       CallbackLive, Maybe
  <2>4. IdsAreUnique'
    BY <1>2 DEF CallbackArrives, CallbackStep, IdsAreUnique, TypeOK, Maybe
  <2>5. InsertsAreUnique'
    BY <1>2 DEF CallbackArrives, CallbackStep, InsertsAreUnique, TypeOK, SubjectOf
  <2>6. QED
    BY <2>1, <2>2, <2>3, <2>4, <2>5 DEF Inv
<1>3. ASSUME NEW c \in Callbacks, Exchange(c) PROVE Inv'
  <2>1. /\ AccountsAreIdentified'
        /\ SessionIsOwn'
        /\ NoServiceAfterErasure'
        /\ SessionsAreOfAccounts'
    BY <1>3 DEF Exchange, AccountsAreIdentified, SessionIsOwn, NoServiceAfterErasure,
       SessionsAreOfAccounts
  <2>2. TypeOK'
    <3>1. returned[c] \in Attempts
      BY <1>3 DEF Exchange, CallbackStep, FlowsBelong, CallbackLive, TypeOK, Maybe
    <3>2. redeemed' \in SUBSET Attempts
      BY <1>3, <3>1 DEF Exchange, TypeOK
    <3>3. callback' \in [Callbacks -> {"idle"} \cup CallbackLive \cup CallbackEnded]
      BY <1>3 DEF Exchange, CallbackStep, TypeOK, CallbackLive, CallbackEnded
    <3>4. \A d \in Callbacks : callback'[d] \in {"insert", "commit", "issue"} => account'[d] # None
      BY <1>3 DEF Exchange, CallbackStep, TypeOK
    <3>5. QED
      BY <1>3, <3>2, <3>3, <3>4 DEF Exchange, TypeOK
  <2>3. FlowsBelong'
    BY <1>3 DEF Exchange, CallbackStep, FlowsBelong, TypeOK, SubjectOf, CallbackLive, Maybe
  <2>4. IdsAreUnique'
    BY <1>3 DEF Exchange, CallbackStep, IdsAreUnique, TypeOK, Maybe
  <2>5. InsertsAreUnique'
    BY <1>3 DEF Exchange, CallbackStep, InsertsAreUnique, TypeOK, SubjectOf
  <2>6. QED
    BY <2>1, <2>2, <2>3, <2>4, <2>5 DEF Inv
<1>4. ASSUME NEW c \in Callbacks, FindIdentity(c) PROVE Inv'
  <2>1. /\ AccountsAreIdentified'
        /\ SessionIsOwn'
        /\ NoServiceAfterErasure'
        /\ SessionsAreOfAccounts'
    BY <1>4 DEF FindIdentity, AccountsAreIdentified, SessionIsOwn,
       NoServiceAfterErasure, SessionsAreOfAccounts
  <2>2. TypeOK'
    BY <1>4 DEF FindIdentity, CallbackStep, Fresh, TypeOK, CallbackLive, CallbackEnded,
       RequestLive, RequestEnded, Maybe
  <2>3. FlowsBelong'
    <3>1. callback[c] = "find" /\ SubjectOf(c)' = SubjectOf(c)
      BY <1>4 DEF FindIdentity, CallbackStep, SubjectOf
    <3>2. callback'[c] = "issue" => <<SubjectOf(c), account'[c]>> \in history
      <4>1. SUFFICES ASSUME callback'[c] = "issue" PROVE <<SubjectOf(c), account'[c]>> \in history
        OBVIOUS
      <4>2. PICK row \in identities : row[1] = SubjectOf(c) /\ account' = [account EXCEPT ![c] = row[2]]
        BY <1>4, <4>1 DEF FindIdentity, CallbackStep, TypeOK
      <4>3. row = <<SubjectOf(c), account'[c]>>
        BY <4>2 DEF TypeOK
      <4>4. QED
        BY <4>2, <4>3 DEF SessionsAreOfAccounts
    <3>3. \A d \in Callbacks \ {c} :
            callback'[d] = callback[d] /\ account'[d] = account[d] /\ SubjectOf(d)' = SubjectOf(d)
      BY <1>4 DEF FindIdentity, CallbackStep, SubjectOf, TypeOK
    <3>4. callback'[c] \in {"issue", "insert"}
      BY <1>4 DEF FindIdentity, CallbackStep, TypeOK
    <3>5. QED
      BY <1>4, <3>1, <3>2, <3>3, <3>4 DEF FindIdentity, FlowsBelong, CallbackLive
  <2>4. IdsAreUnique'
    <3>1. \A d \in Callbacks \ {c} : callback'[d] = callback[d] /\ account'[d] = account[d]
      BY <1>4 DEF FindIdentity, CallbackStep, TypeOK
    <3>2. CASE \E row \in identities :
                 account' = [account EXCEPT ![c] = row[2]] /\ CallbackStep(c, "find", "issue")
      <4>1. callback'[c] = "issue" /\ \E p \in history : p[2] = account'[c]
        BY <3>2 DEF CallbackStep, TypeOK, SessionsAreOfAccounts
      <4>2. QED
        BY <1>4, <3>1, <4>1 DEF FindIdentity, IdsAreUnique
    <3>3. CASE \E a \in Fresh :
                 account' = [account EXCEPT ![c] = a] /\ CallbackStep(c, "find", "insert")
      <4>1. account'[c] \in Fresh
        BY <3>3 DEF TypeOK
      <4>2. QED
        BY <1>4, <3>1, <4>1 DEF FindIdentity, IdsAreUnique, Fresh
    <3>4. QED
      BY <1>4, <3>2, <3>3 DEF FindIdentity
  <2>5. InsertsAreUnique'
    BY <1>4 DEF FindIdentity, CallbackStep, Fresh, InsertsAreUnique, TypeOK, SubjectOf
  <2>6. QED
    BY <2>1, <2>2, <2>3, <2>4, <2>5 DEF Inv
<1>5. ASSUME NEW c \in Callbacks, InsertIdentity(c) PROVE Inv'
  <2>1. /\ AccountsAreIdentified'
        /\ SessionIsOwn'
        /\ NoServiceAfterErasure'
        /\ SessionsAreOfAccounts'
    BY <1>5 DEF InsertIdentity, AccountsAreIdentified, SessionIsOwn,
       NoServiceAfterErasure, SessionsAreOfAccounts
  <2>2. TypeOK'
    BY <1>5 DEF InsertIdentity, CallbackStep, TypeOK, CallbackLive, CallbackEnded,
       RequestLive, RequestEnded, Maybe
  <2>3. FlowsBelong'
    BY <1>5 DEF InsertIdentity, CallbackStep, FlowsBelong, TypeOK, SubjectOf,
       CallbackLive, Maybe
  <2>4. IdsAreUnique'
    BY <1>5 DEF InsertIdentity, CallbackStep, IdsAreUnique, TypeOK, Maybe
  <2>5. InsertsAreUnique'
    BY <1>5 DEF InsertIdentity, CallbackStep, InsertsAreUnique, TypeOK, SubjectOf
  <2>6. QED
    BY <2>1, <2>2, <2>3, <2>4, <2>5 DEF Inv
<1>6. ASSUME NEW c \in Callbacks, CommitAccount(c) PROVE Inv'
  <2>1. NoServiceAfterErasure'
    BY <1>6 DEF CommitAccount, NoServiceAfterErasure
  <2>2. TypeOK'
    <3>1. SubjectOf(c) \in Subjects /\ account[c] \in Accounts
      BY <1>6 DEF CommitAccount, CallbackStep, FlowsBelong, CallbackLive, SubjectOf,
         TypeOK, Maybe
    <3>2. callback' \in [Callbacks -> {"idle"} \cup CallbackLive \cup CallbackEnded]
      BY <1>6 DEF CommitAccount, CallbackStep, TypeOK, CallbackLive, CallbackEnded
    <3>3. users' \in SUBSET Accounts
          /\ identities' \in SUBSET (Subjects \X Accounts) /\ history' \in SUBSET (Subjects \X Accounts)
      BY <1>6, <3>1 DEF CommitAccount, TypeOK
    <3>4. \A d \in Callbacks : callback'[d] \in {"insert", "commit", "issue"} => account'[d] # None
      BY <1>6 DEF CommitAccount, CallbackStep, TypeOK
    <3>5. QED
      BY <1>6, <3>2, <3>3, <3>4 DEF CommitAccount, TypeOK
  <2>3. AccountsAreIdentified'
    <3>1. /\ callback[c] = "commit"
          /\ users' = users \cup {account[c]}
          /\ identities' = identities \cup {<<SubjectOf(c), account[c]>>}
      BY <1>6 DEF CommitAccount, CallbackStep
    <3>2. \A row \in identities : row[1] # SubjectOf(c) /\ row[2] # account[c]
      BY <3>1 DEF InsertsAreUnique, IdsAreUnique, SessionsAreOfAccounts
    <3>3. users' = {row[2] : row \in identities'}
      <4>1. ASSUME NEW x PROVE x \in users' <=> \E row \in identities' : x = row[2]
        <5>1. x \in users <=> \E row \in identities : x = row[2]
          BY DEF AccountsAreIdentified
        <5>2. <<SubjectOf(c), account[c]>>[2] = account[c]
          OBVIOUS
        <5>3. QED
          BY <3>1, <5>1, <5>2
      <4>2. QED
        BY <4>1
    <3>4. \A p, q \in identities' : p[1] = q[1] \/ p[2] = q[2] => p = q
      BY <3>1, <3>2 DEF AccountsAreIdentified
    <3>5. QED
      BY <3>3, <3>4 DEF AccountsAreIdentified
  <2>4. SessionIsOwn'
    BY <1>6 DEF CommitAccount, CallbackStep, SessionIsOwn, TypeOK, Maybe
  <2>5. FlowsBelong'
    BY <1>6 DEF CommitAccount, CallbackStep, FlowsBelong, TypeOK, SubjectOf,
       CallbackLive, Maybe
  <2>6. IdsAreUnique'
    BY <1>6 DEF CommitAccount, CallbackStep, IdsAreUnique, TypeOK, Maybe
  <2>7. InsertsAreUnique'
    BY <1>6 DEF CommitAccount, CallbackStep, InsertsAreUnique, TypeOK, SubjectOf
  <2>8. SessionsAreOfAccounts'
    <3>1. callback[c] = "commit" /\ users' = users \cup {account[c]} /\ history \subseteq history'
      BY <1>6 DEF CommitAccount, CallbackStep
    <3>2. identities' \subseteq history'
      BY <1>6 DEF CommitAccount, SessionsAreOfAccounts
    <3>3. account[c] # None /\ \A p \in history : p[2] # account[c]
      BY <3>1 DEF IdsAreUnique, TypeOK
    <3>4. \A b \in Browsers : claimed[b] # account[c]
      BY <3>3 DEF SessionsAreOfAccounts
    <3>5. QED
      BY <1>6, <3>1, <3>2, <3>4 DEF CommitAccount, SessionsAreOfAccounts
  <2>9. QED
    BY <2>1, <2>2, <2>3, <2>4, <2>5, <2>6, <2>7, <2>8 DEF Inv
<1>7. ASSUME NEW c \in Callbacks, IssueSession(c) PROVE Inv'
  <2>1. AccountsAreIdentified' /\ NoServiceAfterErasure'
    BY <1>7 DEF IssueSession, AccountsAreIdentified, NoServiceAfterErasure
  <2>2. TypeOK'
    BY <1>7 DEF IssueSession, CallbackStep, KeyRead, KeyUnreadable, TypeOK,
       CallbackLive, CallbackEnded, RequestLive, RequestEnded, Maybe
  <2>3. SessionIsOwn'
    <3>1. /\ returned[c] \in Attempts
          /\ opened[returned[c]] = carried[c]
          /\ <<consent[returned[c]], account[c]>> \in history
      BY <1>7 DEF IssueSession, CallbackStep, FlowsBelong, CallbackLive, SubjectOf,
         TypeOK, Maybe
    <3>2. \A b \in Browsers : session'[b] = session[b] \/ (b = carried[c] /\ session'[b] = account[c])
      BY <1>7 DEF IssueSession, TypeOK
    <3>3. UNCHANGED <<opened, consent, history>>
      BY <1>7 DEF IssueSession
    <3>4. ASSUME NEW b \in Browsers, session'[b] # None
          PROVE  \E t \in Attempts : opened'[t] = b /\ <<consent'[t], session'[b]>> \in history'
      <4>1. CASE session'[b] = session[b]
        BY <3>3, <3>4, <4>1 DEF SessionIsOwn
      <4>2. CASE b = carried[c] /\ session'[b] = account[c]
        BY <3>1, <3>3, <4>2
      <4>3. QED
        BY <3>2, <4>1, <4>2
    <3>5. QED
      BY <3>4 DEF SessionIsOwn
  <2>4. FlowsBelong'
    BY <1>7 DEF IssueSession, CallbackStep, KeyRead, KeyUnreadable, FlowsBelong, TypeOK,
       SubjectOf, CallbackLive, Maybe
  <2>5. IdsAreUnique'
    BY <1>7 DEF IssueSession, CallbackStep, KeyRead, KeyUnreadable, IdsAreUnique,
       TypeOK, Maybe
  <2>6. InsertsAreUnique'
    BY <1>7 DEF IssueSession, CallbackStep, KeyRead, KeyUnreadable, InsertsAreUnique,
       TypeOK, SubjectOf
  <2>7. SessionsAreOfAccounts'
    <3>1. <<SubjectOf(c), account[c]>> \in history
      BY <1>7 DEF IssueSession, CallbackStep, FlowsBelong
    <3>2. \E p \in history : p[2] = account[c]
      BY <3>1
    <3>3. \A b \in Browsers : session'[b] = session[b] \/ session'[b] = account[c]
      BY <1>7 DEF IssueSession, TypeOK
    <3>4. QED
      BY <1>7, <3>2, <3>3 DEF IssueSession, SessionsAreOfAccounts
  <2>8. QED
    BY <2>1, <2>2, <2>3, <2>4, <2>5, <2>6, <2>7 DEF Inv
<1>8. ASSUME NEW c \in Callbacks, CallbackFails(c) PROVE Inv'
  <2>1. /\ AccountsAreIdentified'
        /\ SessionIsOwn'
        /\ NoServiceAfterErasure'
        /\ SessionsAreOfAccounts'
    BY <1>8 DEF CallbackFails, AccountsAreIdentified, SessionIsOwn,
       NoServiceAfterErasure, SessionsAreOfAccounts
  <2>2. TypeOK'
    BY <1>8 DEF CallbackFails, CallbackStep, TypeOK, CallbackLive, CallbackEnded,
       RequestLive, RequestEnded, Maybe
  <2>3. FlowsBelong'
    BY <1>8 DEF CallbackFails, CallbackStep, FlowsBelong, TypeOK, SubjectOf,
       CallbackLive, Maybe
  <2>4. IdsAreUnique'
    BY <1>8 DEF CallbackFails, CallbackStep, IdsAreUnique, TypeOK, Maybe
  <2>5. InsertsAreUnique'
    BY <1>8 DEF CallbackFails, CallbackStep, InsertsAreUnique, TypeOK, SubjectOf
  <2>6. QED
    BY <2>1, <2>2, <2>3, <2>4, <2>5 DEF Inv
<1>9. ASSUME NEW b \in Browsers, StartGoogle(b) PROVE Inv'
  <2>1. /\ AccountsAreIdentified'
        /\ NoServiceAfterErasure'
        /\ IdsAreUnique'
        /\ InsertsAreUnique'
        /\ SessionsAreOfAccounts'
    BY <1>9 DEF StartGoogle, AccountsAreIdentified, NoServiceAfterErasure, IdsAreUnique,
       InsertsAreUnique, SessionsAreOfAccounts, SubjectOf
  <2>2. TypeOK'
    BY <1>9 DEF StartGoogle, TypeOK, CallbackLive, CallbackEnded, RequestLive,
       RequestEnded, Maybe
  <2>3. SessionIsOwn'
    BY <1>9 DEF StartGoogle, SessionIsOwn, TypeOK, Maybe
  <2>4. FlowsBelong'
    BY <1>9 DEF StartGoogle, FlowsBelong, TypeOK, SubjectOf, CallbackLive, Maybe
  <2>5. QED
    BY <2>1, <2>2, <2>3, <2>4 DEF Inv
<1>10. ASSUME NEW b \in Browsers, PendingExpires(b) PROVE Inv'
  <2>1. /\ AccountsAreIdentified'
        /\ SessionIsOwn'
        /\ NoServiceAfterErasure'
        /\ IdsAreUnique'
        /\ InsertsAreUnique'
        /\ SessionsAreOfAccounts'
    BY <1>10 DEF PendingExpires, AccountsAreIdentified, SessionIsOwn,
       NoServiceAfterErasure, IdsAreUnique, InsertsAreUnique, SessionsAreOfAccounts,
       SubjectOf
  <2>2. TypeOK'
    BY <1>10 DEF PendingExpires, TypeOK, CallbackLive, CallbackEnded, RequestLive,
       RequestEnded, Maybe
  <2>3. FlowsBelong'
    BY <1>10 DEF PendingExpires, FlowsBelong, TypeOK, SubjectOf, CallbackLive, Maybe
  <2>4. QED
    BY <2>1, <2>2, <2>3 DEF Inv
<1>11. ASSUME NEW b \in Browsers, RequestArrives(b) PROVE Inv'
  <2>1. /\ AccountsAreIdentified'
        /\ SessionIsOwn'
        /\ FlowsBelong'
        /\ IdsAreUnique'
        /\ InsertsAreUnique'
    BY <1>11 DEF RequestArrives, AccountsAreIdentified, SessionIsOwn, FlowsBelong,
       IdsAreUnique, InsertsAreUnique, SubjectOf
  <2>2. TypeOK'
    BY <1>11 DEF RequestArrives, RequestStep, RequestEnded, TypeOK, CallbackLive,
       CallbackEnded, RequestLive, Maybe
  <2>3. NoServiceAfterErasure'
    BY <1>11 DEF RequestArrives, RequestStep, RequestEnded, NoServiceAfterErasure,
       TypeOK, RequestLive
  <2>4. SessionsAreOfAccounts'
    BY <1>11 DEF RequestArrives, RequestStep, RequestEnded, SessionsAreOfAccounts,
       TypeOK, RequestLive, Maybe
  <2>5. QED
    BY <2>1, <2>2, <2>3, <2>4 DEF Inv
<1>12. ASSUME NEW b \in Browsers, Verify(b) PROVE Inv'
  <2>1. /\ AccountsAreIdentified'
        /\ SessionIsOwn'
        /\ FlowsBelong'
        /\ IdsAreUnique'
        /\ InsertsAreUnique'
    BY <1>12 DEF Verify, AccountsAreIdentified, SessionIsOwn, FlowsBelong, IdsAreUnique,
       InsertsAreUnique, SubjectOf
  <2>2. TypeOK'
    BY <1>12 DEF Verify, RequestStep, KeyRead, KeyUnreadable, TypeOK, CallbackLive,
       CallbackEnded, RequestLive, RequestEnded, Maybe
  <2>3. NoServiceAfterErasure'
    BY <1>12 DEF Verify, RequestStep, KeyRead, KeyUnreadable, NoServiceAfterErasure,
       TypeOK, RequestLive
  <2>4. SessionsAreOfAccounts'
    BY <1>12 DEF Verify, RequestStep, KeyRead, KeyUnreadable, SessionsAreOfAccounts,
       TypeOK, RequestLive, Maybe
  <2>5. QED
    BY <2>1, <2>2, <2>3, <2>4 DEF Inv
<1>13. ASSUME NEW b \in Browsers, GuardCheck(b) PROVE Inv'
  <2>1. /\ AccountsAreIdentified'
        /\ SessionIsOwn'
        /\ FlowsBelong'
        /\ IdsAreUnique'
        /\ InsertsAreUnique'
    BY <1>13 DEF GuardCheck, AccountsAreIdentified, SessionIsOwn, FlowsBelong,
       IdsAreUnique, InsertsAreUnique, SubjectOf
  <2>2. TypeOK'
    BY <1>13 DEF GuardCheck, RequestStep, TypeOK, CallbackLive, CallbackEnded,
       RequestLive, RequestEnded, Maybe
  <2>3. NoServiceAfterErasure'
    BY <1>13 DEF GuardCheck, RequestStep, NoServiceAfterErasure, SessionsAreOfAccounts,
       TypeOK, RequestLive
  <2>4. SessionsAreOfAccounts'
    BY <1>13 DEF GuardCheck, RequestStep, SessionsAreOfAccounts, TypeOK, RequestLive, Maybe
  <2>5. QED
    BY <2>1, <2>2, <2>3, <2>4 DEF Inv
<1>14. ASSUME NEW b \in Browsers, HandlerAnswers(b) PROVE Inv'
  <2>1. /\ AccountsAreIdentified'
        /\ SessionIsOwn'
        /\ FlowsBelong'
        /\ IdsAreUnique'
        /\ InsertsAreUnique'
    BY <1>14 DEF HandlerAnswers, AccountsAreIdentified, SessionIsOwn, FlowsBelong,
       IdsAreUnique, InsertsAreUnique, SubjectOf
  <2>2. TypeOK'
    BY <1>14 DEF HandlerAnswers, RequestStep, TypeOK, CallbackLive, CallbackEnded,
       RequestLive, RequestEnded, Maybe
  <2>3. NoServiceAfterErasure'
    BY <1>14 DEF HandlerAnswers, RequestStep, NoServiceAfterErasure, TypeOK, RequestLive
  <2>4. SessionsAreOfAccounts'
    BY <1>14 DEF HandlerAnswers, RequestStep, SessionsAreOfAccounts, TypeOK,
       RequestLive, Maybe
  <2>5. QED
    BY <2>1, <2>2, <2>3, <2>4 DEF Inv
<1>15. ASSUME NEW b \in Browsers, EraseAccount(b) PROVE Inv'
  <2>1. SessionIsOwn' /\ FlowsBelong'
    BY <1>15 DEF EraseAccount, SessionIsOwn, FlowsBelong, SubjectOf
  <2>2. TypeOK'
    BY <1>15 DEF EraseAccount, RequestStep, TypeOK, CallbackLive, CallbackEnded,
       RequestLive, RequestEnded, Maybe
  <2>3. AccountsAreIdentified'
    BY <1>15 DEF EraseAccount, RequestStep, AccountsAreIdentified, TypeOK
  <2>4. NoServiceAfterErasure'
    BY <1>15 DEF EraseAccount, RequestStep, NoServiceAfterErasure, TypeOK, RequestLive
  <2>5. IdsAreUnique'
    BY <1>15 DEF EraseAccount, RequestStep, IdsAreUnique, TypeOK, Maybe
  <2>6. InsertsAreUnique'
    BY <1>15 DEF EraseAccount, RequestStep, InsertsAreUnique, TypeOK, SubjectOf
  <2>7. SessionsAreOfAccounts'
    BY <1>15 DEF EraseAccount, RequestStep, SessionsAreOfAccounts, TypeOK, RequestLive,
       Maybe
  <2>8. QED
    BY <2>1, <2>2, <2>3, <2>4, <2>5, <2>6, <2>7 DEF Inv
<1>16. ASSUME NEW b \in Browsers, EraseAnswers(b) PROVE Inv'
  <2>1. AccountsAreIdentified' /\ FlowsBelong' /\ IdsAreUnique' /\ InsertsAreUnique'
    BY <1>16 DEF EraseAnswers, AccountsAreIdentified, FlowsBelong, IdsAreUnique,
       InsertsAreUnique, SubjectOf
  <2>2. TypeOK'
    BY <1>16 DEF EraseAnswers, RequestStep, TypeOK, CallbackLive, CallbackEnded,
       RequestLive, RequestEnded, Maybe
  <2>3. SessionIsOwn'
    BY <1>16 DEF EraseAnswers, RequestStep, SessionIsOwn, TypeOK, Maybe
  <2>4. NoServiceAfterErasure'
    BY <1>16 DEF EraseAnswers, RequestStep, NoServiceAfterErasure, TypeOK, RequestLive
  <2>5. SessionsAreOfAccounts'
    BY <1>16 DEF EraseAnswers, RequestStep, SessionsAreOfAccounts, TypeOK, RequestLive,
       Maybe
  <2>6. QED
    BY <2>1, <2>2, <2>3, <2>4, <2>5 DEF Inv
<1>17. ASSUME NEW b \in Browsers, RequestFails(b) PROVE Inv'
  <2>1. /\ AccountsAreIdentified'
        /\ SessionIsOwn'
        /\ FlowsBelong'
        /\ IdsAreUnique'
        /\ InsertsAreUnique'
    BY <1>17 DEF RequestFails, AccountsAreIdentified, SessionIsOwn, FlowsBelong,
       IdsAreUnique, InsertsAreUnique, SubjectOf
  <2>2. TypeOK'
    BY <1>17 DEF RequestFails, RequestStep, TypeOK, CallbackLive, CallbackEnded,
       RequestLive, RequestEnded, Maybe
  <2>3. NoServiceAfterErasure'
    BY <1>17 DEF RequestFails, RequestStep, NoServiceAfterErasure, TypeOK, RequestLive
  <2>4. SessionsAreOfAccounts'
    BY <1>17 DEF RequestFails, RequestStep, SessionsAreOfAccounts, TypeOK, RequestLive,
       Maybe
  <2>5. QED
    BY <2>1, <2>2, <2>3, <2>4 DEF Inv
<1>18. ASSUME NEW b \in Browsers, Logout(b) PROVE Inv'
  <2>1. /\ AccountsAreIdentified'
        /\ NoServiceAfterErasure'
        /\ FlowsBelong'
        /\ IdsAreUnique'
        /\ InsertsAreUnique'
    BY <1>18 DEF Logout, AccountsAreIdentified, NoServiceAfterErasure, FlowsBelong,
       IdsAreUnique, InsertsAreUnique, SubjectOf
  <2>2. TypeOK'
    BY <1>18 DEF Logout, TypeOK, CallbackLive, CallbackEnded, RequestLive, RequestEnded,
       Maybe
  <2>3. SessionIsOwn'
    BY <1>18 DEF Logout, SessionIsOwn, TypeOK, Maybe
  <2>4. SessionsAreOfAccounts'
    BY <1>18 DEF Logout, SessionsAreOfAccounts, TypeOK, RequestLive, Maybe
  <2>5. QED
    BY <2>1, <2>2, <2>3, <2>4 DEF Inv
<1>19. ASSUME NEW b \in Browsers, SessionExpires(b) PROVE Inv'
  <2>1. /\ AccountsAreIdentified'
        /\ NoServiceAfterErasure'
        /\ FlowsBelong'
        /\ IdsAreUnique'
        /\ InsertsAreUnique'
    BY <1>19 DEF SessionExpires, AccountsAreIdentified, NoServiceAfterErasure,
       FlowsBelong, IdsAreUnique, InsertsAreUnique, SubjectOf
  <2>2. TypeOK'
    BY <1>19 DEF SessionExpires, TypeOK, CallbackLive, CallbackEnded, RequestLive,
       RequestEnded, Maybe
  <2>3. SessionIsOwn'
    BY <1>19 DEF SessionExpires, SessionIsOwn, TypeOK, Maybe
  <2>4. SessionsAreOfAccounts'
    BY <1>19 DEF SessionExpires, SessionsAreOfAccounts, TypeOK, RequestLive, Maybe
  <2>5. QED
    BY <2>1, <2>2, <2>3, <2>4 DEF Inv
<1>20. ASSUME Restart PROVE Inv'
  <2>1. AccountsAreIdentified' /\ SessionIsOwn'
    BY <1>20 DEF Restart, AccountsAreIdentified, SessionIsOwn
  <2>2. TypeOK'
    BY <1>20 DEF Restart, TypeOK, CallbackLive, CallbackEnded, RequestLive,
       RequestEnded, Maybe
  <2>3. NoServiceAfterErasure'
    BY <1>20 DEF Restart, NoServiceAfterErasure, TypeOK, RequestLive
  <2>4. FlowsBelong'
    BY <1>20 DEF Restart, FlowsBelong, TypeOK, SubjectOf, CallbackLive, Maybe
  <2>5. IdsAreUnique'
    BY <1>20 DEF Restart, IdsAreUnique, TypeOK, Maybe
  <2>6. InsertsAreUnique'
    BY <1>20 DEF Restart, InsertsAreUnique, TypeOK, SubjectOf
  <2>7. SessionsAreOfAccounts'
    BY <1>20 DEF Restart, SessionsAreOfAccounts, TypeOK, RequestLive, Maybe
  <2>8. QED
    BY <2>1, <2>2, <2>3, <2>4, <2>5, <2>6, <2>7 DEF Inv
<1>21. CASE UNCHANGED vars
  <2>1. TypeOK' /\ AccountsAreIdentified' /\ SessionIsOwn' /\ NoServiceAfterErasure'
    BY <1>21 DEF vars, TypeOK, AccountsAreIdentified, SessionIsOwn, NoServiceAfterErasure
  <2>2. FlowsBelong' /\ IdsAreUnique' /\ InsertsAreUnique' /\ SessionsAreOfAccounts'
    BY <1>21 DEF vars, FlowsBelong, IdsAreUnique, InsertsAreUnique,
       SessionsAreOfAccounts, SubjectOf
  <2>3. QED
    BY <2>1, <2>2 DEF Inv
<1>22. QED
  BY <1>1, <1>2, <1>3, <1>4, <1>5, <1>6, <1>7, <1>8, <1>9, <1>10, <1>11, <1>12, <1>13,
     <1>14, <1>15, <1>16, <1>17, <1>18, <1>19, <1>20, <1>21 DEF Next

\* The inductive invariant of flows, accounts, sessions and requests.
THEOREM InvCorrect == Spec => []Inv
BY InitInv, NextInv, PTL DEF Spec

\* One account per person, with its identity, however first sign-ins race.
THEOREM OneAccountEach == Spec => []AccountsAreIdentified
BY InvCorrect, PTL DEF Inv

\* A browser holds sessions only of people who consented to a flow it started.
THEOREM SessionsAreOwn == Spec => []SessionIsOwn
BY InvCorrect, PTL DEF Inv

\* No handler runs for a session whose account was gone when the request came.
THEOREM ErasedAreNotServed == Spec => []NoServiceAfterErasure
BY InvCorrect, PTL DEF Inv

\* Accounts and identities implement AccountContract, whoever signs in or erases
\* together.
THEOREM IdentitiesKeepContract == Spec => KeepsContract
<1> DEFINE once == {row[2] : row \in history}
<1>1. Init => Contract!Init
  BY DEF Init, Contract!Init
<1>2. Inv /\ [Next]_vars => [Contract!Next]_(Contract!vars)
  <2> SUFFICES ASSUME Inv, [Next]_vars PROVE [Contract!Next]_(Contract!vars)
    OBVIOUS
  <2> USE DEF Inv
  <2>1. ASSUME NEW c \in Callbacks, CommitAccount(c) PROVE Contract!Next
    <3> DEFINE a == account[c]
               row == <<SubjectOf(c), a>>
    <3>1. callback[c] = "commit"
      BY <2>1 DEF CommitAccount, CallbackStep
    <3>2. a \in Accounts /\ SubjectOf(c) \in Subjects
      BY <3>1 DEF TypeOK, FlowsBelong, CallbackLive, SubjectOf, Maybe
    <3>3. a \notin users \cup once
      BY <3>1 DEF IdsAreUnique
    <3>4. row \in Contract!RowsOf(a)
      BY <3>2 DEF Contract!RowsOf
    <3>5. identities' = identities \cup {row} /\ {row} \in SUBSET Contract!RowsOf(a)
      BY <2>1, <3>4 DEF CommitAccount
    <3>6. users' = users \cup {a} /\ once' = once \cup {a}
      <4>1. users' = users \cup {a} /\ history' = history \cup {row}
        BY <2>1 DEF CommitAccount
      <4>2. row[2] = a
        OBVIOUS
      <4> QED
        BY <4>1, <4>2
    <3>7. (once \ users)' = once \ users
      BY <3>3, <3>6
    <3>8. Contract!Open(a)
      BY <3>3, <3>5, <3>6, <3>7 DEF Contract!Open
    <3> QED
      BY <3>2, <3>8 DEF Contract!Next
  <2>2. ASSUME NEW b \in Browsers, EraseAccount(b) PROVE [Contract!Next]_(Contract!vars)
    <3>1. CASE claimed[b] \in users
      <4>1. PICK a \in Accounts : a = claimed[b]
        BY <3>1 DEF TypeOK
      <4>2. a \in once
        BY <3>1, <4>1 DEF AccountsAreIdentified, SessionsAreOfAccounts
      <4>3. (once \ users)' = (once \ users) \cup {a}
        BY <2>2, <4>1, <4>2 DEF EraseAccount
      <4>4. identities' = identities \ Contract!RowsOf(a)
        BY <2>2, <4>1 DEF EraseAccount, Contract!RowsOf, TypeOK
      <4>5. Contract!Erase(a)
        BY <2>2, <3>1, <4>1, <4>3, <4>4 DEF EraseAccount, Contract!Erase
      <4> QED
        BY <4>5 DEF Contract!Next
    <3>2. CASE claimed[b] \notin users
      <4>1. identities' = identities /\ users' = users /\ history' = history
        BY <2>2, <3>2 DEF EraseAccount, AccountsAreIdentified
      <4> QED
        BY <4>1 DEF Contract!vars
    <3> QED
      BY <3>1, <3>2
  <2>3. CASE UNCHANGED db
    BY <2>3 DEF db, Contract!vars
  <2>4. (\E c \in Callbacks : CommitAccount(c)) \/ (\E b \in Browsers : EraseAccount(b)) \/ UNCHANGED db
    BY DEF Next, vars, db, Consent, CallbackArrives, Exchange, FindIdentity, InsertIdentity,
       IssueSession, CallbackFails, StartGoogle, PendingExpires, RequestArrives, Verify,
       GuardCheck, HandlerAnswers, EraseAnswers, RequestFails, Logout, SessionExpires, Restart
  <2> QED
    BY <2>1, <2>2, <2>3, <2>4
<1> QED
  BY <1>1, <1>2, InvCorrect, PTL DEF Spec, KeepsContract, Contract!Spec
=============================================================================
