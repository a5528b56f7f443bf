# Verification of the career consulting API

TLA+ modules, TLC configurations and TLAPS proofs for the NestJS API in `src/`: a
single-process service over Postgres (row-level security, one pool), Azure blob
storage, Key Vault, Google sign-in and a paid language-model provider. The process
scales to zero and to one replica at most (`infra/containerapp.bicep`), so every
handler may stop at any `await`, and no state outlives the process but what Postgres,
blob storage and the browsers' cookies hold.

| Module | Models | Checked by | Proved in |
|---|---|---|---|
| `ResumeStore` | resumes across Postgres and blob storage: upload, extraction, account erasure | `MCResumeStore`, 3 runs | `ResumeStoreProofs` |
| `LlmLayer` | the call loop of the LLM layer and the spend guards | `MCLlmLayer`, 3 runs | `LlmLayerProofs` |
| `SignIn` | Google sign-in, accounts and identities, sessions, the auth guard | `MCSignIn`, 2 runs | `SignInProofs` |
| `Onboarding` | overlapping saves of the onboarding wizard, the parse preview | `MCOnboarding`, 2 runs | `OnboardingProofs` |
| `ScopedPool` | the pool, `withUserContext`, the row-level policies, the export | `MCScopedPool`, 1 run | `ScopedPoolProofs` |
| `LazyClients` | secrets, cached clients and promises, outages, start and stop of the process | `MCLazyClients`, 1 run | `LazyClientsProofs` |
| `MeteredLedger` | abstract: a monthly budget with reservations | implemented by `LlmLayer` | `LlmLayerProofs` |
| `AccountContract` | abstract: accounts and the rows under them | implemented by `ResumeStore`, `SignIn`, `ScopedPool` | `ResumeStoreProofs`, `SignInProofs`, `ScopedPoolProofs` |
| `AbstractProofs` | what the two abstract specifications promise by themselves | | itself |
| `FiniteInduction` | lemmas on finite sets and sums over them | | itself |

Run from this directory: `tlc -config SignIn.cfg MCSignIn`, `tlapm SignInProofs.tla`.
Operators whose comment starts with "Mutant:" are not part of any behaviour: each is a
plausible bug of the operator that follows it, and `PROJECT.json` names the property
that finds it.

## Inventory

**Resumes** (`src/resumes`). State: rows of `resumes` (path, `is_active`) and
`resume_extractions`, files `{userId}/{resumeId}.{ext}`. Operations: upload (insert with
a placeholder path, store the file, set the path, deactivate the others, all inside one
transaction), content, extract (read, download and parse, ask the model, insert). Hard:
two stores and one transaction; overlapping uploads under READ COMMITTED; a model call
between reading a row and writing its extraction; row locks against foreign-key locks.
Correct when a row never points at a file that was never stored, an account with
resumes has an active one (the documentation says exactly one), and every request ends.

**Blob storage** (`src/storage`). State: the files, and a cached promise of the
container. Operations: upload, download, deleteByPrefix (a listing, then one delete per
file). Hard: no transactions; two sweeps meet; the cached promise keeps a failure.

**Account erasure and export** (`src/auth/me.controller.ts`, `src/db/user-data.ts`).
Erasure deletes files by prefix first, then the `users` row with its cascades. Hard:
requests past the guard are still running; a second erasure runs along; the cascade
takes locks in another order than an insert. Correct when nothing of the account is
left or appears after it. The export is a series of SELECTs.

**LLM layer** (`src/llm`). State: `llm_usage_logs`. One operation, `run`: render, check
the conversation limit, then per attempt check the monthly budget, call the provider,
log the usage, validate, retry once on a schema error. Hard: check and payment are not
one transaction; calls overlap; the log insert fails or the process stops after the
provider billed; the month turns or the account goes away in between. Correct when
overspend is bounded, no attempt passes the budget check at the cap, a paid reply is not
lost to a failed log, and every failure has a kind. Rendering, scrubbing and JSON extraction are
text functions without state.

**Sign-in** (`src/auth`, `drizzle/0008_auth_bootstrap_function.sql`). State: transaction
cookies and session cookie in the browser, `users` and `auth_identities`, the signing key
in memory. Operations: start, callback (state check, code exchange, admission, find or
create, issue), logout. Hard: two tabs, a callback opened twice or elsewhere, racing
first sign-ins, erasure and return, restarts with another admission list or a vault
that does not answer. Correct when every person has one account, and no browser gets
another's.

**Auth guard** (`src/auth/auth.guard.ts`). Stateless sessions, checked against `users` in
a transaction of its own; the handler runs after that transaction. Hard: the gap.

**Onboarding** (`src/onboarding`). State: `users.name`, the row of `user_profiles`.
Operations: save a step (validate, update the name, upsert the fields present), read,
parse preview (an LLM call that saves nothing). Hard: overlapping steps; a language
that is checked where it is stored and again, by another module, where it is used.

**User context and pool** (`src/db`). `withUserContext` takes a pooled client, opens a
transaction, sets `app.current_user_id` for its duration; RLS policies compare it. Hard:
a client must come back without an open transaction or a user, a request must not take
a second client while it holds one.

**Secrets and lazily created clients** (`src/config`, and the caches in storage, Google,
session and Anthropic services). State: values of secrets and clients, and two promises,
all in memory. Only the pool is made at startup; everything else by the first request
that needs it. Hard: callers that share a promise, an outage during the first use, an
outage during the start. Correct when a request fails only through what was out of reach
for it, or for a promise it shares, and none waits for ever.

**Rate limiting, health, observability, deployment**: configuration of libraries,
probes and logging. **Stub modules** (intake, scoring, tailoring, memory, tracker,
self-audit, wellbeing) are empty.

How they interact: the guard precedes every handler and shares no transaction with it;
resumes and onboarding call the LLM layer between transactions of theirs; erasure
cascades into every table the others write; everything shares the pool, and every
backend is reached through `SecretsService` first.

## ResumeStore

Three kinds of request: uploads, erasures, and jobs (extract; content is a prefix of
it). One action per await: `UploadStart` (guard and file validation), `UploadInsert`,
`UploadStoreBlob`, `UploadSetPath`, `UploadFindOthers` and `UploadDeactivate` (the one
UPDATE, which fixes its rows on its own snapshot and then locks them one by one),
`UploadCommit`; `EraseStart`, `EraseList`, `EraseDeleteBlob`, `EraseSwept`,
`EraseLockUser`, `EraseCommit`; `JobStart` to `JobCommit`. Each has an abort (any error,
with the transaction rolled back) and COMMIT has an outcome whose reply is lost
(`unacked`). `Crash` ends all requests at once.

Database state is what is committed; an open transaction's writes are implied by its
phase. Foreign-key locks (`UserKeyShared`, `ResumeKeyShared`), the deleter's row lock
(`UserRowLocked`) and the updated rows (`ResumeRowLocked`) are derived from phases too,
and the deadlock detector is the action that aborts one member of a cycle. The order of
an extraction's two foreign-key locks follows the order in which the constraints were
created (migrations 0000 and 0005).

| Run | Instance | Shows |
|---|---|---|
| `resume_store` | one account with 2 resumes, 2 new uploads, 1 erasure; or with 1 resume, 1 upload, 1 extraction, 2 erasures | `Inv`, `RowHasFile`, `ActiveResumeExists`, `TwoActiveOnlyIfOverlapping`, `NothingOutlivesAccount`, `ErasureDeletesEarlierFiles`, `KeepsContract`, `RequestsCanEnd`, `RequestsEnd` |
| `one_active_resume` | 2 uploads | refutes `OneActiveResume` |
| `erased_files` | 1 upload, 1 erasure | refutes `NoFileOutlivesAccount` |

Two earlier resumes and two uploads are the smallest instance in which two UPDATEs lock
two rows in opposite orders; two erasures the smallest in which sweeps meet. Both are in
one run: `Pasts` bounds which resumes an account may start with and `Rosters` which
requests may come together. Requests of different accounts touch different rows, so one
account is enough. The resumes of a past were uploaded one after the other, which is why
exactly one of them is active initially.

`KeepsContract` is the refinement of `AccountContract`: an account exists or was erased,
`TableRows` are the committed resumes and extractions, `RowOwner` the accounts their
`user_id` refers to. A step of the store writes a row under an existing account, takes
an account away together with all its rows, or does not show at all. No row ever leaves
alone. Files are not part of it; run `erased_files` shows why they cannot be.

`RequestsCanEnd` is what `RequestsEnd` rests on, and has two halves, `NobodyIsStuck` and
`StepsRunOut`. `UploadWaits`, `EraseWaits` and `JobWaits` say when a request in flight waits for a lock of another.
The first half says that if all of them wait, some wait in one of the two circles
the model lets Postgres break, uploads among themselves or an erasure and an
extraction: the locks of the three kinds make no third one. The second gives every
request a number of steps it has left, in which a row of its UPDATE or a file of its
sweep counts as one, and says that each step, a crash included, lowers one of these
numbers and raises none, though other requests may add rows and files meanwhile.

## LlmLayer

A slot is one place for a request in flight; it serves one call after another, so calls
are unbounded and only their overlap is bounded. `CallStart` is `run` up to the loop,
`TurnCheck` the conversation guard, `BudgetCheck` the two per-attempt guards in one
transaction, `ProviderReply`, `ProviderError` and `ProviderReplyLost` the provider's
outcomes (billed, not billed, billed and never heard of), `LogUsage` and `LogUsageFails`
the insert, `ReplyAccepted`, `ReplyTruncated` and `ReplyInvalid` the verdict on the
reply, with the one retry. `MonthTurns`, `AccountDeleted` and `Crash` may happen
between any two of them. `spent` and `turns` are the sums the guards query; `real` is
what the provider billed, a history variable that is dropped (`untracked`) as soon as a
bill is missing from the log.

| Run | Shows |
|---|---|
| `llm_layer` | two slots of one user: `OvershootBound`, `RealSpendBound`, `TurnsBound`, `NoNewAttemptOverCap`, `PaidReplyKept`, `ImplementsLedger`, `CallsRunOut`, `CallsEnd` |
| `llm_conversation_guard` | refutes `ConversationGuardOnRetry` |
| `llm_error_kinds` | refutes `EveryFailureHasAKind` |

`Cap = 3`, `MaxCost = 2`: the cap is not a multiple of a cost, so sums land below, at and
above it. `MaxTurns = 2` lets a conversation reach its limit. No variable needs a bound
of its own: the guards keep the sums finite, which is the point of `OvershootBound`.

`ImplementsLedger` is the refinement of `MeteredLedger`, whose users hold reservations.
A reservation is an attempt between its budget check and its usage row (`InFlight`); the
check takes it, the row charges it, and an error, a lost reply, a lost row or a crash
gives it back uncharged. So no row is written that was not reserved under the cap and
none twice, and an attempt that is retried reserves again.

`CallsRunOut` bounds a call by ten steps, five in each of its attempts, whatever the
model answers. Calls follow one another in a slot, so the bound is per call.

## SignIn

`opened`, `consent` and `redeemed` describe authorization flows as Google and the state
parameter identify them; `pending` and `session` are the browsers' cookies. A callback
request goes through `CallbackArrives` (state check), `Exchange` (the code is good once;
admission follows in the same tick), `FindIdentity`, `InsertIdentity`, `CommitAccount`
(the SECURITY DEFINER function: its three statements see different snapshots, and the
insert waits for an uncommitted insert of the same subject), `IssueSession`. Guarded
requests go through `Verify`, `GuardCheck` and a handler, which may be the erasure.
`Restart` drops requests in flight and the signing key and may change the admission
list; cookies survive it. Ids are random uuids and never come back (`Fresh`).

| Run | Instance | Shows |
|---|---|---|
| `sign_in` | 2 people, 2 browsers, 2 flows, 2 callbacks, 2 account ids | `Inv`, `AccountsAreIdentified`, `SessionIsOwn`, `NoServiceAfterErasure`, `KeepsContract` |
| `session_verdict` | 1 of each | refutes `ValidSessionAccepted` |

Each callback creates one account at most, so two ids are enough for two callbacks. Two
flows, callbacks and browsers contain every case the code distinguishes: two tabs of one
browser, one person in two browsers, two people in one, a URL opened twice or in the
wrong browser, an erased person who returns while the old session is still out. The
sets are symmetric and no liveness is checked here, so TLC permutes them.

`KeepsContract` is the refinement of `AccountContract` with identities as rows: an account
is opened together with its identity, and neither is left by an erasure that took the
other.

`identities` and users' rows are compared by subject only: the code never looks at the
e-mail. Token signatures are trusted: a session cookie names an account because
`IssueSession` wrote it.

## Onboarding

A field's value is the step that wrote it. A step is `SaveArrives` (guard), `Validate`,
`UpdateName`, `Upsert`, `Commit`, or `Abort`. `draft` is the version of the profile row a
step has written and not committed: while it exists the row is locked. `accepted` is a
history variable: per field, the last committed step that carried it. A preview is
`PreviewArrives` (guard, empty text), `PreviewReads` (the committed language, and the
layer's check of it in the same tick), `PreviewAnswers` (the LLM layer's outcome as
`httpErrorFor` maps it) or `PreviewFails`. `Coded` are the steps whose language is two
small letters, which is what `isValidUiLanguage` and `assertValidParams` both ask for.

| Run | Instance | Shows |
|---|---|---|
| `onboarding` | 5 steps: name and roles, roles, a language, name only, a language that is no code; one preview; one erasure | `Inv`, `NoSaveLost`, `NoProfileWithoutAccount`, `StoredLanguageIsTaken`, `SavesEnd` |
| `onboarding_name_step` | a name-only step and another | refutes `EveryStepCanBeSaved` |

Pairs of steps that share the name, share a column, share nothing, or are refused all
occur. Deadlock checking is off: once every step has been sent, the system may stop.
`Inv` joins the state invariants: types, `NoSaveLost`, `NoProfileWithoutAccount`,
`DraftIsCurrent`, `LanguagesAreCoded` and `NobodyIsStuck`. The last says that steps in
flight never all wait for each other's rows: all lock the name before the profile.
Nothing breaks a circle in this module, unlike in `ResumeStore`, because there is none
to break.
Request bodies have the types their DTOs declare, which nothing checks at run time.
The erasure is one action that waits for the locks of open steps; waiting in two parts,
as the database does, only blocks others longer.

## ScopedPool

A request is one HTTP request, a sequence of units (`Routes`), each of which holds one
client from `Grant` to `Release` or `Abandon`. `Ask` and `Grant` are the pool's queue,
first come first served; `ConnectFails` is a connection that does not open. Then come
`Begin`, `SetUser`, the unit's statements (`Exists` is the guard's, `Lookup` reads a row
by the id in the URL, `ExportAccount`, `ExportTable` and `ExportDone` are
`exportUserData`, `Store`, `StoreRefused` and `Erase` write) and `Commit`. `Throw` may
come instead of any of them and leads to `Rollback` or `RollbackFails`;
`CommitReplyLost` is a COMMIT that took effect and threw. `Query` is the readiness
probe, which runs without a transaction and without a user. `HandlerThrows` is an error
between two units.

`setting` is what each client's session holds for `app.current_user_id`. It differs
from NULL even after the transaction: Postgres leaves the empty string, which is why
the policies have `NULLIF`, and `CurrentUser` is that expression. `stayed` and `came`
are history variables: the account's rows that were there all the time, and at some
time, since the export's first statement. The rows of one account in one table count as
one row. `ChildTables` are the tables of the schema that refer to users, and
`ExportOrder` the statements of `exportUserData`, each translated from its own file. The
units that the LLM layer opens in the course of an extraction are those of `LlmLayer`.

| Run | Instance | Shows |
|---|---|---|
| `scoped_pool` | 2 clients; 2 requests of one account and 1 of another; they write one of the ten child tables (`Stored`), the export reads all | `Inv`, `Isolation`, `PoolIsWhole`, `IdleClientsAreClean`, `ExportIsWhole`, `ChangedByOwnCommit`, `KeepsContract`, `RequestsCanEnd`, `RequestsEnd` |

`Offered` bounds what each request may be: the first an export or an erasure, the
second an upload or an erasure, the third (the other account's) an extraction or a
probe. So an export and an erasure meet an upload and an erasure on the same account;
with three requests for two clients somebody waits; and with two units per request each
client serves both accounts in turn, after commits, rollbacks and lost connections. The
routes themselves do not depend on the instance.

A commit that lands between two statements of an export leaves it with rows of both
states, since READ COMMITTED gives each statement its own snapshot. Nothing in the
documentation promises otherwise. `ExportIsWhole` says what such an export may be: no row
that stayed is left out, and none is in it that never was there; without an interruption
the two bounds are the same. The mutant forgets a table. Files are no part of it.
A request is made once: an endless series of newcomers whose foreign-key locks overlap
could delay a DELETE for ever, and `RequestsEnd` says nothing about that.

`RequestsCanEnd` is again `NobodyIsStuck` and `StepsRunOut`. The first is the reason why
a pool of any size will do: a request that waits for a client holds none, one that waits
for a lock waits for a request that waits for nothing, and the first in the queue finds a
client as soon as one is idle. `StepsRunOut` counts the steps of a request's units; none
is taken twice. `RequestsEnd` says the same under fairness: from some time on no request
is under way. `KeepsContract` refines `AccountContract` with the child tables as rows:
the open transactions' inserts are the store's own variables here, so it says in what
order foreign key, cascade and commit have to come, where `ResumeStore` has the same of
phases.

## LazyClients

`process` goes from `Start` through telemetry and the pool to serving, and `Stop` takes
it and its memory away at any moment; `Outage` and `Recovery` move backends in and out of
reach. A request follows one of the `Routes`, a sequence of operations each of which asks
for a client (`ClientOf`) and may then call a service (`ServiceOf`). `Begin` is the tick
in which the client is asked for. The two clients in `Promised` are fields that hold a
promise: the first caller makes it, all later callers share what becomes of it, and
`ReadSecret`, `Connected` and `Rejected` are its steps. The two others are values: every
caller that finds none looks it up for itself (`LookedUp`, `LookupFails`). `known` is the
cache of `SecretsService`. `Used` and `UseFails` end an operation.

`missed` and `spoiled` are history variables: the backends out of reach at some time
during an operation, and during the connecting of a promise.

| Run | Instance | Shows |
|---|---|---|
| `lazy_clients` | 2 requests, each pair of routes in `Mixes` | `ClientsAreShared`, `FailuresAreExcused`, `RequestsEnd` |

`Mixes` bounds what the two ask for together: the pairs that share a promise, share a
value, or use one client after another. With two requests one makes a promise or looks a
value up while the other asks for it, before, during and after; a third would meet
nothing else, as a promise has one maker and any number of alike callers.

`ClientsAreShared` is that all requests of a process have the same clients, and has two
halves. `WaitersShareAPromise`: between the asking and the making of a promised client
there is no step at which a second promise could be made, or a caller left with an old
one; the mutant whose caller does not keep its promise in the field breaks it.
`NothingIsTakenBack`: two callers look up one value at the same time, and the failure of
one does not undo what the other found; the mutant that resets the field on its error
path breaks it. Types and the bookkeeping of the history variables are `Inv`, which is
proved (`InvCorrect`).

`FailuresAreExcused` says precisely what is remembered of an outage. With a client
kept as a value an outage fails the requests it meets and no other; a promise that was
rejected fails every later caller, and is excused by `spoiled`, until the process stops. The mutant that remembers a
failed lookup breaks it. That a rejected promise stays in the field is what the code does
and is nowhere documented as wrong; the property states how far it reaches, and the
invariant that it ends with the process.

## Fairness

Weak fairness of the steps of requests that have started, and of nothing else: a query
ends or fails, an SDK call returns or times out, a row lock goes to a waiter, the
deadlock detector runs. No client owes a request, and failures, crashes, erasures,
outages, recoveries and the turn of the month are never forced.

Fairness is per slot in `LlmLayer`. In `ScopedPool` each request is fair in `Advance`,
its steps without the failures, as the pool serves its queue in order. `ResumeStore`,
`Onboarding` and `LazyClients` need less, fairness of each kind of handler as a whole:
requests are sent once and have finitely many steps, so if some step is always taken all
end. `LazyClients` adds that the platform starts a replica for a request at the ingress;
its `RequestsEnd` assumes that the process is some day no longer stopped and that the
vault stays in reach from some time on, since a start without it fails. `SignIn` has
safety properties only.

## What is proved

For every value of the constants, under the assumptions named in the modules (owners,
targets and subjects are functions on the right sets; `Cap`, `MaxCost` and `MaxTurns` are
positive; `Slots` and `Resumes` are finite; the pool has a client; `None` and `Empty` are
not values; a column is not called "name"; `Stored` are child tables; a profile has a
language; `Mixes` are routes):

- **ResumeStoreProofs**: `TypeCorrect`, `InvCorrect` and from it `RowsHaveFiles`,
  `SomeResumeIsActive`, `SequentialUploadsSupersede`, `ErasureIsFinal`,
  `ErasureSweepsListing`. The properties speak of committed rows, but a row is committed
  by steps taken earlier: `FileBeforeRow` says what an upload has stored at each phase,
  `DeactivatesCommittedRows` what its UPDATE found and what is inactive after it,
  `OpenUploadsKeepAccount`, `OpenInsertsKeepResume` and `RowLockExcludesUploads` that
  foreign-key locks keep the referenced rows, `SweepDeletesListed` how far a sweep is.
  `TablesKeepContract` maps each step to a step of `AccountContract` or a stutter: a
  commit is a `Write` because the foreign key's lock has kept the account, the cascade
  an `Erase`. `SomebodyGoesOn`: when all wait, no extraction waits (it would be in a
  circle with the erasure that it waits for), so no erasure holds a row lock, so only
  uploads are left, whose waiters are stuck as a set (a request that ended holds no
  row); and among finitely many uploads a stuck set has a smallest stuck part, which is
  the circle Postgres sees. `RequestsEndInSteps` is `StepsRunOut`, from cardinalities of
  what an UPDATE or a sweep has left, and `RequestsReachTheirEnd` joins the two. The
  invariant without the types is `StoreInv`, which the proofs carry through the steps.
- **LlmLayerProofs**: `TypeCorrect`, `SpendBounded`, `CapStopsAttempts`,
  `PaidRepliesKept`, `TurnsBounded`. `OvershootBound` is inductive as stated, because it
  counts attempts that have passed the check as spent at their dearest; the proof is
  about how the number of attempts in flight changes. `TurnsBound` needs `TurnsReserved`:
  a first attempt past its guard has its turn reserved. `LayerImplementsLedger` is the
  refinement, action by action: the count of attempts in flight is the reservation.
  `RealSpendBounded` is about bills, not the log: `BillsCovered` says that what was
  billed is at most what is logged and what the replies in hand cost together, and those
  are attempts in flight, which `OvershootBound` has reserved for. It is an inequality
  because a reply of the month before may still be in hand. The sum is a function with
  the sum of every set of slots, which each step updates. `CallsEndInSteps` is
  `CallsRunOut`.
- **SignInProofs**: `InvCorrect`, `OneAccountEach`, `SessionsAreOwn`,
  `ErasedAreNotServed`. The session is written from what the callback looked up before,
  so `FlowsBelong` ties cookies and callbacks to a flow of the same browser;
  `IdsAreUnique` and `InsertsAreUnique` say what an open statement may still commit;
  `SessionsAreOfAccounts` says an account found gone stays gone. `IdentitiesKeepContract`
  is the refinement, where `Fresh` keeps an erased id from being opened again.
- **OnboardingProofs**: `TypeCorrect`, `SavesAreKept`, `ErasedProfileStaysErased`,
  `OpenDraftIsCurrent`, `LanguagesAreTaken`, and `InvCorrect` of all of them. A commit
  publishes a row computed earlier; `DraftIsCurrent` says it is still the committed row
  with the step's fields on top, because its lock kept other writers out. From it,
  `LanguagesAreCoded`: the row a commit publishes holds a language that validate has
  passed, the step's own or the one it found. `SomebodyGoesOn`: who waits for the name
  waits for a step past it, who waits for the profile for one that has written it.
- **ScopedPoolProofs**: `InvCorrect`, `AccountsAreIsolated`, `ClientsAreNotLost`,
  `ClientsComeBackClean`, `ExportsAreWhole`, `CommitsAreOwn`, for any number of clients
  and requests that write any of the schema's tables. A policy looks at the client's session and not at the request,
  so isolation rests on `WorkIsScoped` (a statement runs on a client that names the
  request's account), which lasts because `PoolIsWhole` keeps other requests off the
  client. `HeldClientsAreClean` carries the end of a transaction to the release;
  `ExportSoFar` is the export's loop invariant: of the tables read so far, what was seen
  lies between what stayed and what came. `LocksKeepAccount` (an open insert keeps
  its account, an open delete keeps inserts out) gives `TablesKeepContract`, and with
  `QueueIsOfWaiting` also `SomebodyGoesOn`. `RequestsEndInSteps` is `StepsRunOut`, and
  `RequestsReachTheirEnd` both.
- **LazyClientsProofs**: `InvCorrect`, `AllHaveTheSameClients`, `FailuresHaveAnExcuse`,
  for any requests.
  `OutagesAreRecorded` is the heart: whatever is out of reach is in the record of every
  operation and promise it concerns, so a failure, which happens only while a backend is
  out of reach or through a rejected promise, finds its excuse there;
  `WaitersShareAPromise` says who is settled by a promise, `ClientsBelongToProcess` that
  nothing of it survives the process.
- **AbstractProofs**: what implementing a contract is worth. In `AccountContract` an
  erased account has no row, never comes back, and rows leave only with it and all
  together (`ErasedHaveNothing`, `ErasedStayErased`, `RowsLeaveTogether`); in
  `MeteredLedger` the log passes the cap by less than one charge per lane
  (`LedgerIsBounded`). The modules that refine them inherit this.
- **FiniteInduction** has the lemmas the others rest on. The library's induction
  theorems take an operator, which the provers cannot instantiate; `SubsetInduction` and
  `MinimalSubset` take a set of sets instead, and follow from the library's theorem that
  strict inclusion among finite sets is well founded.

Only model-checked: `RequestsEnd` (of `ResumeStore`, `ScopedPool` and `LazyClients`),
`CallsEnd` and `SavesEnd`, since liveness under fairness and ENABLED are beyond the
prover. Of the first two, and of `CallsEnd`, the parts without time are proved:
`StepsRunOut` and `CallsRunOut` say that steps run out, `NobodyIsStuck` that somebody
can take one, under definitions of waiting that are stated with the actions' own guards.
That a step which can be taken is taken is what fairness adds. `LazyClients` has no such
measure: outages may come back for ever, and its `RequestsEnd` assumes that they stop.

## Where the code and its documentation differ

1. `one_active_resume`: overlapping uploads of one account leave two active resumes.
2. `erased_files`: an upload in flight stores its file after the erasure's listing, and
   the file outlives the account.
3. `llm_conversation_guard`: the retry does not pass the conversation guard again.
4. `llm_error_kinds`: a failed guard query or key lookup is an error without a kind.
5. `session_verdict`: a signing key that cannot be read makes a valid session look absent.
6. `onboarding_name_step`: a wizard step with only the name fails and is rolled back.

`PROJECT.json` quotes the lines on both sides.

## Not modelled

- Text: prompt templates, delimiters, scrubbing, JSON extraction, document parsing,
  price tables. They are outcomes of actions (a reply is valid or not, a file is
  refused or not, an attempt costs up to `MaxCost`).
- The per-attempt ceiling's estimate (`pricing.ts:27`): four characters per token is too
  few tokens for some scripts. `MaxCost` is what an attempt may really be billed.
- Reads that change nothing: resume list, profile. The export and the lookups are in
  `ScopedPool`.
- Connections lost outside a query. While idle, the pool has no listener for its `error`
  event; while checked out, pg-pool takes its own listener off the client and
  `db.module.ts` adds none. Either way the process would stop. `ScopedPool` lets the
  request go on, through `Throw` and `RollbackFails`: that is more than the process would
  still do, so no safety property is affected, and a stop ends the requests too.
- In `LlmLayer`, the Anthropic SDK's own retries inside one `complete`: an attempt is what
  `LlmService` makes of it, and it starts at the budget check, where its cost is not yet
  known. In `SignIn`, a consent belongs to one attempt and a URL names one, so the PKCE
  verifier is not told apart from the check of the state. In `LazyClients`, a download
  and a completion stand for the routes that use the blob store and the provider in the
  same way (upload, erasure, preview).
- In every module but `ScopedPool`, every transaction gets a client and a handler sees
  its own account's rows; `ScopedPool` is where that is shown. In every module but
  `LazyClients`, a client is there or the call fails.
- A secret that does not exist in the vault: a configuration error no waiting mends.
- Rate limits: counters in the memory of the process, lost with it, counted per client
  address before the guard runs. They share no state with any handler.
- The liveness probe, request ids and logs, the empty modules.
- The deploy workflow (`.github/workflows/deploy.yml`). Two things to know of it: it
  verifies the new revision through the shared address (line 168), where a revision that
  still serves answers for one that does not start; and nothing keeps two deployments
  from overlapping.
- In `SignIn`, blobs are left out of the erasure (they are in `ResumeStore`), and a
  browser has one guarded request in flight at a time.

## Plan

Done, in this order, each with its proofs: `ResumeStore`, `LlmLayer`, `SignIn`,
`Onboarding`, `ScopedPool`; then the abstract specifications `MeteredLedger` and
`AccountContract` with their refinements, `LazyClients`, and the parse preview in
`Onboarding`. What is left, each of lesser weight:

1. `AccountLifecycle`, composing erasure and return (`SignIn`) with the rows that
   reference the account (`ResumeStore`, `Onboarding`); the modules keep the same
   contract, which is most of what the composition would say.
2. Revisions and the deploy workflow, with a model of the platform's traffic switch.
3. Rate limiting, if its in-process window proves worth a module.

Where a question is about a module that already has a run, its properties join that run.
