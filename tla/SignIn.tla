------------------------------- MODULE SignIn -------------------------------
(***************************************************************************)
(* Sign-in with Google, the stateless session it issues, and the guard that *)
(* turns a session back into an account on every request.                  *)
(*                                                                         *)
(* A browser keeps two things: the state and verifier cookies of the last  *)
(* flow it started, and the session cookie.  Between the redirect to       *)
(* Google and the callback anything may happen: the flow is started again  *)
(* in another tab, the callback URL is opened twice or in another browser, *)
(* the same person signs in from two browsers, the account is erased, the  *)
(* process restarts with another admission list.                           *)
(***************************************************************************)
EXTENDS FiniteSets

CONSTANTS
  Subjects,    \* provider:subject pairs
  Accounts,    \* ids the database may generate
  Browsers,
  Attempts,    \* authorization transactions: one state and verifier each
  Callbacks,   \* GET /auth/google/callback requests
  None

ASSUME NoneAssumption == None \notin Subjects \cup Accounts \cup Browsers \cup Attempts

VARIABLES
  opened,      \* the browser that started each attempt
  consent,     \* the subject that consented to it at Google
  redeemed,    \* attempts whose code has been exchanged
  pending,     \* attempt named by the transaction cookies of each browser
  session,     \* account named by the session cookie of each browser
  callback,    \* where each callback request is
  carried,     \* the browser it came from
  returned,    \* the attempt its URL names
  account,     \* account id the database function is working with
  users,       \* committed rows of users
  identities,  \* committed rows of auth_identities
  history,     \* rows of auth_identities ever committed
  request,     \* where the guarded request of each browser is
  claimed,     \* the account its session named when it arrived
  stale,       \* that account was already gone then
  key,         \* the signing key has been read
  allowed      \* AUTH_ALLOWED_SUBJECTS of this process

google == <<opened, consent, redeemed>>
cookies == <<pending, session>>
flow == <<callback, carried, returned, account>>
db == <<users, identities, history>>
guarded == <<request, claimed, stale>>
vars == <<opened, consent, redeemed, pending, session, callback, carried, returned,
          account, users, identities, history, request, claimed, stale, key, allowed>>

CallbackLive == {"exchange", "find", "insert", "commit", "issue"}
CallbackEnded == {"signedIn", "failed"}
RequestLive == {"arrived", "verified", "handling", "erased"}
RequestEnded == {"answered", "unauthorized", "error"}

Maybe(S) == S \cup {None}

TypeOK ==
  /\ opened \in [Attempts -> Maybe(Browsers)]
  /\ consent \in [Attempts -> Maybe(Subjects)]
  /\ redeemed \in SUBSET Attempts
  /\ pending \in [Browsers -> Maybe(Attempts)]
  /\ session \in [Browsers -> Maybe(Accounts)]
  /\ callback \in [Callbacks -> {"idle"} \cup CallbackLive \cup CallbackEnded]
  /\ carried \in [Callbacks -> Maybe(Browsers)]
  /\ returned \in [Callbacks -> Maybe(Attempts)]
  /\ account \in [Callbacks -> Maybe(Accounts)]
  /\ \A c \in Callbacks : callback[c] \in {"insert", "commit", "issue"} => account[c] # None
  /\ users \in SUBSET Accounts
  /\ identities \in SUBSET (Subjects \X Accounts)
  /\ history \in SUBSET (Subjects \X Accounts)
  /\ request \in [Browsers -> {"idle"} \cup RequestLive \cup RequestEnded]
  /\ claimed \in [Browsers -> Maybe(Accounts)]
  /\ stale \in [Browsers -> BOOLEAN]
  /\ key \in BOOLEAN
  /\ allowed \in SUBSET Subjects

Init ==
  /\ opened = [t \in Attempts |-> None]
  /\ consent = [t \in Attempts |-> None]
  /\ redeemed = {}
  /\ pending = [b \in Browsers |-> None]
  /\ session = [b \in Browsers |-> None]
  /\ callback = [c \in Callbacks |-> "idle"]
  /\ carried = [c \in Callbacks |-> None]
  /\ returned = [c \in Callbacks |-> None]
  /\ account = [c \in Callbacks |-> None]
  /\ users = {}
  /\ identities = {}
  /\ history = {}
  /\ request = [b \in Browsers |-> "idle"]
  /\ claimed = [b \in Browsers |-> None]
  /\ stale = [b \in Browsers |-> FALSE]
  /\ key = FALSE
  /\ allowed \in SUBSET Subjects

\* The person a callback is about, once Google has vouched for it.
SubjectOf(c) == IF returned[c] = None THEN None ELSE consent[returned[c]]

\* SessionService.signingKey: read once, then kept.
KeyRead == key' = TRUE
KeyUnreadable == ~key /\ UNCHANGED key

-----------------------------------------------------------------------------
(***************************************************************************)
(* GET /auth/google, the consent at Google, GET /auth/google/callback.     *)
(***************************************************************************)

\* A second start in the same browser overwrites the cookies of the first.
StartGoogle(b) ==
  /\ \E t \in Attempts :
       /\ opened[t] = None
       /\ opened' = [opened EXCEPT ![t] = b]
       /\ pending' = [pending EXCEPT ![b] = t]
  /\ UNCHANGED <<consent, redeemed, session, flow, db, guarded, key, allowed>>

Consent(t) ==
  /\ opened[t] # None
  /\ consent[t] = None
  /\ \E s \in Subjects : consent' = [consent EXCEPT ![t] = s]
  /\ UNCHANGED <<opened, redeemed, cookies, flow, db, guarded, key, allowed>>

\* The transaction cookies live for minutes.
PendingExpires(b) ==
  /\ pending[b] # None
  /\ pending' = [pending EXCEPT ![b] = None]
  /\ UNCHANGED <<google, session, flow, db, guarded, key, allowed>>

CallbackStep(c, from, to) ==
  /\ callback[c] = from
  /\ callback' = [callback EXCEPT ![c] = to]

\* Mutant: the state of the URL is not compared with the browser's cookie.
CallbackArrivesUnchecked(c) ==
  /\ \E b \in Browsers, t \in Attempts :
       /\ consent[t] # None
       /\ CallbackStep(c, "idle", IF pending[b] # None THEN "exchange" ELSE "failed")
       /\ carried' = [carried EXCEPT ![c] = b]
       /\ returned' = [returned EXCEPT ![c] = t]
  /\ UNCHANGED <<google, cookies, account, db, guarded, key, allowed>>

\* A callback without transaction cookies, or with those of another attempt, is
\* refused.  The URL may be opened in any browser, and more than once.
CallbackArrives(c) ==
  /\ \E b \in Browsers, t \in Attempts :
       /\ consent[t] # None
       /\ CallbackStep(c, "idle", IF pending[b] = t THEN "exchange" ELSE "failed")
       /\ carried' = [carried EXCEPT ![c] = b]
       /\ returned' = [returned EXCEPT ![c] = t]
  /\ UNCHANGED <<google, cookies, account, db, guarded, key, allowed>>

\* Google redeems a code once; assertAdmitted follows without another await.
Exchange(c) ==
  LET t == returned[c] IN
  /\ CallbackStep(c, "exchange",
       IF t \notin redeemed /\ SubjectOf(c) \in allowed THEN "find" ELSE "failed")
  /\ redeemed' = redeemed \cup {t}
  /\ UNCHANGED <<opened, consent, cookies, carried, returned, account, db, guarded, key, allowed>>

-----------------------------------------------------------------------------
(***************************************************************************)
(* auth_find_or_create_user: one statement for the application, three for   *)
(* the database, each on a snapshot of its own.                            *)
(***************************************************************************)
Fresh == {a \in Accounts : a \notin users
                        /\ (\A p \in history : p[2] # a)
                        /\ (\A c \in Callbacks : account[c] # a)}

\* Mutant: an unknown subject is linked to an account that looks like its own.
FindIdentityLinks(c) ==
  /\ IF identities # {}
     THEN \E row \in identities :
            /\ account' = [account EXCEPT ![c] = row[2]]
            /\ CallbackStep(c, "find", "issue")
     ELSE \E a \in Fresh :
            /\ account' = [account EXCEPT ![c] = a]
            /\ CallbackStep(c, "find", "insert")
  /\ UNCHANGED <<google, cookies, carried, returned, db, guarded, key, allowed>>

\* Mutant: an empty answer of the function is not noticed.
FindIdentityEmpty(c) ==
  /\ CallbackStep(c, "find", "issue")
  /\ UNCHANGED <<google, cookies, carried, returned, account, db, guarded, key, allowed>>

\* SELECT by provider and subject; with no row, INSERT INTO users.
FindIdentity(c) ==
  LET found == {row \in identities : row[1] = SubjectOf(c)} IN
  /\ IF found # {}
     THEN \E row \in found :
            /\ account' = [account EXCEPT ![c] = row[2]]
            /\ CallbackStep(c, "find", "issue")
     ELSE \E a \in Fresh :
            /\ account' = [account EXCEPT ![c] = a]
            /\ CallbackStep(c, "find", "insert")
  /\ UNCHANGED <<google, cookies, carried, returned, db, guarded, key, allowed>>

\* Mutant: no unique index on provider and subject.
InsertIdentityAnyway(c) ==
  /\ CallbackStep(c, "insert", "commit")
  /\ UNCHANGED <<google, cookies, carried, returned, account, db, guarded, key, allowed>>

\* INSERT INTO auth_identities waits for an open transaction that inserted the
\* same subject, and fails on the unique index when that one committed.
InsertIdentity(c) ==
  /\ CallbackStep(c, "insert",
       IF \E row \in identities : row[1] = SubjectOf(c) THEN "failed" ELSE "commit")
  /\ \A d \in Callbacks \ {c} : callback[d] = "commit" => SubjectOf(d) # SubjectOf(c)
  /\ UNCHANGED <<google, cookies, carried, returned, account, db, guarded, key, allowed>>

\* The rows become visible together; the answer may still be lost.
CommitAccount(c) ==
  /\ \E to \in {"issue", "failed"} : CallbackStep(c, "commit", to)
  /\ users' = users \cup {account[c]}
  /\ identities' = identities \cup {<<SubjectOf(c), account[c]>>}
  /\ history' = history \cup {<<SubjectOf(c), account[c]>>}
  /\ UNCHANGED <<google, cookies, carried, returned, account, guarded, key, allowed>>

\* The transaction cookies are cleared whether or not the session can be signed.
IssueSession(c) ==
  LET b == carried[c] IN
  /\ \/ /\ CallbackStep(c, "issue", "signedIn")
        /\ KeyRead
        /\ session' = [session EXCEPT ![b] = account[c]]
     \/ /\ CallbackStep(c, "issue", "failed")
        /\ KeyUnreadable
        /\ UNCHANGED session
  /\ pending' = [pending EXCEPT ![b] = None]
  /\ UNCHANGED <<google, carried, returned, account, db, guarded, allowed>>

\* Google, the database or the connection to the browser fails; an open statement
\* is rolled back.
CallbackFails(c) ==
  /\ \E p \in CallbackLive : CallbackStep(c, p, "failed")
  /\ UNCHANGED <<google, cookies, carried, returned, account, db, guarded, key, allowed>>

-----------------------------------------------------------------------------
(***************************************************************************)
(* Requests to guarded routes, one at a time per browser.                  *)
(***************************************************************************)

RequestStep(b, from, to) ==
  /\ request[b] \in from
  /\ request' = [request EXCEPT ![b] = to]

RequestArrives(b) ==
  /\ RequestStep(b, {"idle"} \cup RequestEnded, "arrived")
  /\ claimed' = [claimed EXCEPT ![b] = session[b]]
  /\ stale' = [stale EXCEPT ![b] = session[b] \notin users]
  /\ UNCHANGED <<google, cookies, flow, db, key, allowed>>

\* verify answers null for a missing token, and for any that it could not check
\* because the signing key could not be read.
Verify(b) ==
  /\ \/ /\ claimed[b] # None
        /\ RequestStep(b, {"arrived"}, "verified")
        /\ KeyRead
     \/ /\ claimed[b] # None => KeyUnreadable
        /\ RequestStep(b, {"arrived"}, "unauthorized")
        /\ UNCHANGED key
  /\ UNCHANGED <<google, cookies, flow, db, claimed, stale, allowed>>

\* Mutant: the signature is all that is checked.
GuardCheckSkipped(b) ==
  /\ RequestStep(b, {"verified"}, "handling")
  /\ UNCHANGED <<google, cookies, flow, db, claimed, stale, key, allowed>>

GuardCheck(b) ==
  /\ RequestStep(b, {"verified"}, IF claimed[b] \in users THEN "handling" ELSE "unauthorized")
  /\ UNCHANGED <<google, cookies, flow, db, claimed, stale, key, allowed>>

\* Every route but the erasure leaves accounts and cookies alone.
HandlerAnswers(b) ==
  /\ RequestStep(b, {"handling"}, "answered")
  /\ UNCHANGED <<google, cookies, flow, db, claimed, stale, key, allowed>>

\* Mutant: the identity does not cascade with its account.
EraseAccountOnly(b) ==
  /\ RequestStep(b, {"handling"}, "erased")
  /\ users' = users \ {claimed[b]}
  /\ UNCHANGED <<google, cookies, flow, identities, history, claimed, stale, key, allowed>>

\* DELETE /me: the identity goes with the account.
EraseAccount(b) ==
  /\ RequestStep(b, {"handling"}, "erased")
  /\ users' = users \ {claimed[b]}
  /\ identities' = {row \in identities : row[2] # claimed[b]}
  /\ UNCHANGED <<google, cookies, flow, history, claimed, stale, key, allowed>>

EraseAnswers(b) ==
  /\ RequestStep(b, {"erased"}, "answered")
  /\ session' = [session EXCEPT ![b] = None]
  /\ UNCHANGED <<google, pending, flow, db, claimed, stale, key, allowed>>

\* The database fails under the guard or the handler, or the answer is lost.
RequestFails(b) ==
  /\ RequestStep(b, {"verified", "handling", "erased"}, "error")
  /\ UNCHANGED <<google, cookies, flow, db, claimed, stale, key, allowed>>

-----------------------------------------------------------------------------
\* GET /auth/logout clears the cookie and nothing else.
Logout(b) ==
  /\ session[b] # None
  /\ session' = [session EXCEPT ![b] = None]
  /\ UNCHANGED <<google, pending, flow, db, guarded, key, allowed>>

\* Token and cookie live equally long; a token may expire on the way.
SessionExpires(b) ==
  /\ session[b] # None
  /\ session' = [session EXCEPT ![b] = None]
  /\ claimed' = [claimed EXCEPT ![b] = IF request[b] = "arrived" THEN None ELSE @]
  /\ UNCHANGED <<google, pending, flow, db, request, stale, key, allowed>>

\* Work in flight is gone, a deployment may have changed the admission list, and
\* the sessions out there stay good.
Restart ==
  /\ callback' = [c \in Callbacks |-> IF callback[c] \in CallbackLive THEN "failed" ELSE callback[c]]
  /\ request' = [b \in Browsers |-> IF request[b] \in RequestLive THEN "error" ELSE request[b]]
  /\ key' = FALSE
  /\ allowed' \in SUBSET Subjects
  /\ UNCHANGED <<google, cookies, carried, returned, account, db, claimed, stale>>

Next ==
  \/ \E t \in Attempts : Consent(t)
  \/ \E c \in Callbacks :
       \/ CallbackArrives(c)
       \/ Exchange(c)
       \/ FindIdentity(c)
       \/ InsertIdentity(c)
       \/ CommitAccount(c)
       \/ IssueSession(c)
       \/ CallbackFails(c)
  \/ \E b \in Browsers :
       \/ StartGoogle(b)
       \/ PendingExpires(b)
       \/ RequestArrives(b)
       \/ Verify(b)
       \/ GuardCheck(b)
       \/ HandlerAnswers(b)
       \/ EraseAccount(b)
       \/ EraseAnswers(b)
       \/ RequestFails(b)
       \/ Logout(b)
       \/ SessionExpires(b)
  \/ Restart

Spec == Init /\ [][Next]_vars

-----------------------------------------------------------------------------
(***************************************************************************)
(* Properties.                                                             *)
(***************************************************************************)

\* Committed rows pair subjects and accounts one to one, and no account is left
\* without the identity that opens it: first sign-ins of one person that race end
\* with one account (unique index), and an erased person starts over (cascade).
AccountsAreIdentified ==
  /\ users = {row[2] : row \in identities}
  /\ \A p, q \in identities : p[1] = q[1] \/ p[2] = q[2] => p = q

\* A browser holds a session for an account only if that browser started a sign-in
\* to which the account's own subject consented: neither another browser's
\* callback URL nor another person's account is ever turned into its session.
SessionIsOwn ==
  \A b \in Browsers : session[b] # None =>
    \E t \in Attempts : opened[t] = b /\ <<consent[t], session[b]>> \in history

\* A session outlives its account by up to thirty days; no handler runs for a
\* request that carried it after the account was gone (auth.guard.ts, userExists).
NoServiceAfterErasure ==
  \A b \in Browsers : request[b] \in {"handling", "erased"} => ~stale[b]

\* Accounts and identities keep the contract of AccountContract: an account is opened
\* with its identity in one step, rows go with their account in one step, and an id
\* that was erased never opens again.
Contract == INSTANCE AccountContract WITH
  Rows <- Subjects \X Accounts,
  AccountOf <- [row \in Subjects \X Accounts |-> row[2]],
  existing <- users,
  erased <- {row[2] : row \in history} \ users,
  rows <- identities

KeepsContract == Contract!Spec

\* What the properties rest on: cookies and live callbacks belong to a flow of their
\* own browser, and a callback about to answer has a committed identity.
FlowsBelong ==
  /\ \A b \in Browsers : pending[b] # None => opened[pending[b]] = b
  /\ \A c \in Callbacks : callback[c] \in CallbackLive =>
       /\ returned[c] # None /\ carried[c] # None
       /\ opened[returned[c]] = carried[c]
       /\ consent[returned[c]] # None
  /\ \A c \in Callbacks : callback[c] = "issue" => <<SubjectOf(c), account[c]>> \in history

\* An id in use by an open statement is nobody else's, then or before.
IdsAreUnique ==
  \A c \in Callbacks : callback[c] \in {"insert", "commit"} =>
    /\ account[c] \notin users
    /\ \A p \in history : p[2] # account[c]
    /\ \A d \in Callbacks \ {c} : account[d] # account[c]

\* The unique index lets one open statement per unknown subject past its insert.
InsertsAreUnique ==
  \A c \in Callbacks : callback[c] = "commit" =>
    /\ \A row \in identities : row[1] # SubjectOf(c)
    /\ \A d \in Callbacks \ {c} : callback[d] = "commit" => SubjectOf(d) # SubjectOf(c)

\* Sessions, in cookies and in requests, name accounts that once existed, and an
\* account found gone stays gone.
SessionsAreOfAccounts ==
  /\ identities \subseteq history
  /\ \A b \in Browsers : session[b] # None => \E p \in history : p[2] = session[b]
  /\ \A b \in Browsers : claimed[b] # None => \E p \in history : p[2] = claimed[b]
  /\ \A b \in Browsers : request[b] \in RequestLive /\ stale[b] => claimed[b] \notin users

Inv ==
  /\ TypeOK
  /\ AccountsAreIdentified
  /\ SessionIsOwn
  /\ NoServiceAfterErasure
  /\ FlowsBelong
  /\ IdsAreUnique
  /\ InsertsAreUnique
  /\ SessionsAreOfAccounts

\* Refuted. "Returns the user id, or null if the cookie is absent, tampered with,
\* or expired" (session.service.ts): a person turned away as not signed in has no
\* valid session.
ValidSessionAccepted ==
  \A b \in Browsers : request[b] = "unauthorized" => claimed[b] \notin users
=============================================================================
