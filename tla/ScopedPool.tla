----------------------------- MODULE ScopedPool -----------------------------
(***************************************************************************)
(* The connection pool and withUserContext: every request is a sequence of *)
(* short units of work, each of which takes one client from the pool, runs *)
(* one transaction that names the request's account, and gives the client  *)
(* back.  Row-level policies compare the owner of each row with the account *)
(* the client's session names, so one client serves many accounts in turn. *)
(*                                                                         *)
(* Reads are those of READ COMMITTED: each statement sees what is committed *)
(* when it runs.  The rows of one account in one table count as one row.   *)
(***************************************************************************)
EXTENDS Naturals, Sequences

CONSTANTS
  Requests,
  Users,
  UserOf,      \* the account the session of each request names
  Offered,     \* bound: the routes each request may take
  Clients,     \* connections of the pool
  Stored,      \* bound: the tables whose rows requests look up and write
  None,
  Empty        \* the empty string

\* The tables that reference users.
ChildTables ==
  {"auth_identities", "user_profiles", "resumes", "resume_extractions", "vacancies",
   "vacancy_scores", "tailored_documents", "applications", "application_events",
   "llm_usage_logs"}

\* Mutant: nobody has thought of a statement for one of them.
ExportOrderForgets ==
  <<"auth_identities", "user_profiles", "resume_extractions", "vacancies", "vacancy_scores",
    "tailored_documents", "applications", "application_events", "llm_usage_logs">>

\* The statements of exportUserData after the account's, by the table they read.
ExportOrder ==
  <<"auth_identities", "user_profiles", "resumes", "resume_extractions", "vacancies",
    "vacancy_scores", "tailored_documents", "applications", "application_events",
    "llm_usage_logs">>

\* The units of work of each route.  "exists" is the check of the auth guard; the
\* units LlmService opens in the course of extract are those of module LlmLayer.
Routes ==
  [content |-> <<"exists", "lookup">>,
   export |-> <<"exists", "export">>,
   deleteAccount |-> <<"exists", "erase">>,
   upload |-> <<"exists", "store">>,
   extract |-> <<"exists", "lookup", "store">>,
   ready |-> <<"ping">>]

ASSUME UserAssumption == UserOf \in [Requests -> Users]
ASSUME OfferAssumption == Offered \in [Requests -> SUBSET DOMAIN Routes]
ASSUME TableAssumption == Stored \subseteq ChildTables
ASSUME ClientAssumption == Clients # {}
ASSUME NoneAssumption == None # Empty /\ {None, Empty} \cap (Users \cup Clients) = {}

VARIABLES
  pc,          \* where each request is
  route,       \* what it asks for
  unit,        \* which of the route's units of work it is at
  client,      \* the client it holds
  idle,        \* clients nobody holds
  waiting,     \* requests waiting for a client, first come first served
  setting,     \* app.current_user_id of each client's session
  open,        \* the client is inside a transaction
  rows,        \* committed rows, as <<table, owner>>
  added,       \* rows inserted by the request's open transaction
  erased,      \* accounts deleted by it
  reads,       \* statements of the export done
  seen,        \* rows the unit's statements returned
  stayed,      \* rows of the account that were there all the time since the export began
  came         \* and those that were there at some time

control == <<pc, route, unit>>
pool == <<client, idle, waiting>>
session == <<setting, open>>
writes == <<added, erased>>
results == <<reads, seen, stayed, came>>
vars == <<pc, route, unit, client, idle, waiting, setting, open, rows, added, erased,
          reads, seen, stayed, came>>

Job(r) == Routes[route[r]][unit[r]]

Tables == {"users"} \cup ChildTables
Rows == Tables \X Users
RowsOf(u) == {row \in rows : row[2] = u}

Holding == {"begin", "scope", "work", "commit", "rollback", "query", "release", "abandon"}

TypeOK ==
  /\ pc \in [Requests -> {"idle", "asking", "waiting", "done"} \cup Holding]
  /\ route \in [Requests -> DOMAIN Routes]
  /\ unit \in [Requests -> 1..3]
  /\ \A r \in Requests : unit[r] \in DOMAIN Routes[route[r]]
  /\ \A r \in Requests : pc[r] = "idle" => unit[r] = 1
  /\ client \in [Requests -> Clients \cup {None}]
  /\ idle \in SUBSET Clients
  /\ waiting \in Seq(Requests)
  /\ setting \in [Clients -> Users \cup {None, Empty}]
  /\ open \in [Clients -> BOOLEAN]
  /\ rows \in SUBSET Rows
  /\ added \in [Requests -> SUBSET Rows]
  /\ erased \in [Requests -> SUBSET Users]
  /\ reads \in [Requests -> 0..(Len(ExportOrder) + 1)]
  /\ seen \in [Requests -> SUBSET Rows]
  /\ stayed \in [Requests -> SUBSET Rows]
  /\ came \in [Requests -> SUBSET Rows]
  /\ \A r \in Requests : added[r] # {} \/ erased[r] # {} => pc[r] \in {"commit", "rollback"}

Init ==
  /\ pc = [r \in Requests |-> "idle"]
  /\ route = [r \in Requests |-> "ready"]
  /\ unit = [r \in Requests |-> 1]
  /\ client = [r \in Requests |-> None]
  /\ idle = Clients
  /\ waiting = <<>>
  /\ setting = [c \in Clients |-> None]
  /\ open = [c \in Clients |-> FALSE]
  /\ rows = {"users"} \X Users
  /\ added = [r \in Requests |-> {}]
  /\ erased = [r \in Requests |-> {}]
  /\ reads = [r \in Requests |-> 0]
  /\ seen = [r \in Requests |-> {}]
  /\ stayed = [r \in Requests |-> {}]
  /\ came = [r \in Requests |-> {}]

At(r, from, to) == pc[r] = from /\ pc' = [pc EXCEPT ![r] = to]

-----------------------------------------------------------------------------
(***************************************************************************)
(* The policies.                                                           *)
(***************************************************************************)

\* NULLIF(current_setting('app.current_user_id', true), ''): the account named by the
\* client's session, if any.
CurrentUser(c) == IF setting[c] = Empty THEN None ELSE setting[c]

\* Mutant: the role that owns the table, without FORCE ROW LEVEL SECURITY.
PolicyOfOwner(c, row) == TRUE

\* user_owns_row, USING and WITH CHECK, on every table.
Policy(c, row) == row[2] = CurrentUser(c)

\* Mutant: set_config(..., false), which outlives the transaction.
ResetNothing(c) == setting[c]

\* What a transaction's end leaves of a setting made for the transaction only.
Reset(c) == IF setting[c] \in Users THEN Empty ELSE setting[c]

-----------------------------------------------------------------------------
(***************************************************************************)
(* Requests and the pool.                                                  *)
(***************************************************************************)

Arrive(r) ==
  /\ At(r, "idle", "asking")
  /\ \E name \in Offered[r] : route' = [route EXCEPT ![r] = name]
  /\ UNCHANGED <<unit, pool, session, rows, writes, results>>

\* The request is answered or fails, and its variables go with it.
End(r, from) ==
  /\ At(r, from, "done")
  /\ route' = [route EXCEPT ![r] = "ready"]
  /\ unit' = [unit EXCEPT ![r] = 1]
  /\ reads' = [reads EXCEPT ![r] = 0]
  /\ seen' = [seen EXCEPT ![r] = {}]
  /\ stayed' = [stayed EXCEPT ![r] = {}]
  /\ came' = [came EXCEPT ![r] = {}]

\* pool.connect() queues the request.
Ask(r) ==
  /\ At(r, "asking", "waiting")
  /\ waiting' = Append(waiting, r)
  /\ UNCHANGED <<route, unit, client, idle, session, rows, writes, results>>

\* A client for the first in the queue; pool.query() runs its statement at once.
Grant(r) ==
  /\ waiting # <<>> /\ Head(waiting) = r
  /\ At(r, "waiting", IF Job(r) = "ping" THEN "query" ELSE "begin")
  /\ waiting' = Tail(waiting)
  /\ \E c \in idle :
       /\ client' = [client EXCEPT ![r] = c]
       /\ idle' = idle \ {c}
  /\ UNCHANGED <<route, unit, session, rows, writes, results>>

\* Mutant: a connection that cannot be opened is asked for again, at the end of the queue.
ConnectRetried(r) ==
  /\ waiting # <<>> /\ Head(waiting) = r
  /\ idle # {}
  /\ waiting' = Append(Tail(waiting), r)
  /\ UNCHANGED <<control, client, idle, session, rows, writes, results>>

\* The pool could not open the connection: connect() is called outside the try.
ConnectFails(r) ==
  /\ waiting # <<>> /\ Head(waiting) = r
  /\ idle # {}
  /\ End(r, "waiting")
  /\ waiting' = Tail(waiting)
  /\ UNCHANGED <<client, idle, session, rows, writes>>

\* Work between two units fails: a file that does not download, a model call.
HandlerThrows(r) ==
  /\ unit[r] > 1
  /\ End(r, "asking")
  /\ UNCHANGED <<pool, session, rows, writes>>

GiveBack(r) ==
  /\ client' = [client EXCEPT ![r] = None]
  /\ idle' = idle \cup {client[r]}

\* An account or a row that was not found ends the request: 401, 404.
Found(r) == Job(r) \in {"exists", "lookup"} => seen[r] # {}

NextUnit(r) ==
  /\ At(r, "release", "asking")
  /\ unit' = [unit EXCEPT ![r] = @ + 1]
  /\ seen' = [seen EXCEPT ![r] = {}]
  /\ UNCHANGED <<route, reads, stayed, came>>

\* Mutant: the next unit runs inside the callback of this one, which keeps its client.
ReleaseAtTheEnd(r) ==
  /\ IF Found(r) /\ unit[r] < Len(Routes[route[r]])
     THEN NextUnit(r) /\ UNCHANGED <<client, idle>>
     ELSE End(r, "release") /\ GiveBack(r)
  /\ UNCHANGED <<waiting, session, rows, writes>>

\* finally: the client goes back, after a unit that succeeded...
Release(r) ==
  /\ IF Found(r) /\ unit[r] < Len(Routes[route[r]]) THEN NextUnit(r) ELSE End(r, "release")
  /\ GiveBack(r)
  /\ UNCHANGED <<waiting, session, rows, writes>>

\* Mutant: release() after COMMIT, not in a finally.
AbandonWithoutRelease(r) ==
  /\ End(r, "abandon")
  /\ UNCHANGED <<pool, session, rows, writes>>

\* ... and after one that did not.
Abandon(r) ==
  /\ End(r, "abandon")
  /\ GiveBack(r)
  /\ UNCHANGED <<waiting, session, rows, writes>>

-----------------------------------------------------------------------------
(***************************************************************************)
(* The transaction of a unit.                                              *)
(***************************************************************************)

Begin(r) ==
  /\ At(r, "begin", "scope")
  /\ open' = [open EXCEPT ![client[r]] = TRUE]
  /\ UNCHANGED <<route, unit, pool, setting, rows, writes, results>>

\* set_config('app.current_user_id', userId, true)
SetUser(r) ==
  /\ At(r, "scope", "work")
  /\ setting' = [setting EXCEPT ![client[r]] = UserOf[r]]
  /\ UNCHANGED <<route, unit, pool, open, rows, writes, results>>

\* What a SELECT of some rows returns.
Select(r, wanted) == {row \in rows \cap wanted : Policy(client[r], row)}

Exists(r) ==
  /\ Job(r) = "exists"
  /\ At(r, "work", "commit")
  /\ seen' = [seen EXCEPT ![r] = Select(r, {<<"users", UserOf[r]>>})]
  /\ UNCHANGED <<route, unit, pool, session, rows, writes, reads, stayed, came>>

\* By the id in the URL alone, which may be that of anybody's row.
Lookup(r) ==
  /\ Job(r) = "lookup"
  /\ At(r, "work", "commit")
  /\ \E row \in Stored \X Users : seen' = [seen EXCEPT ![r] = Select(r, {row})]
  /\ UNCHANGED <<route, unit, pool, session, rows, writes, reads, stayed, came>>

\* exportUserData: the account, then one statement per table.
ExportAccount(r) ==
  /\ Job(r) = "export" /\ pc[r] = "work" /\ reads[r] = 0
  /\ LET found == Select(r, {<<"users", UserOf[r]>>})
     IN  /\ pc' = [pc EXCEPT ![r] = IF found = {} THEN "rollback" ELSE "work"]
         /\ seen' = [seen EXCEPT ![r] = found]
  /\ reads' = [reads EXCEPT ![r] = 1]
  /\ stayed' = [stayed EXCEPT ![r] = RowsOf(UserOf[r])]
  /\ came' = [came EXCEPT ![r] = RowsOf(UserOf[r])]
  /\ UNCHANGED <<route, unit, pool, session, rows, writes>>

ExportTable(r) ==
  /\ Job(r) = "export" /\ pc[r] = "work" /\ reads[r] \in 1..Len(ExportOrder)
  /\ seen' = [seen EXCEPT ![r] = @ \cup Select(r, {<<ExportOrder[reads[r]], UserOf[r]>>})]
  /\ reads' = [reads EXCEPT ![r] = @ + 1]
  /\ UNCHANGED <<control, pool, session, rows, writes, stayed, came>>

ExportDone(r) ==
  /\ Job(r) = "export" /\ reads[r] = Len(ExportOrder) + 1
  /\ At(r, "work", "commit")
  /\ UNCHANGED <<route, unit, pool, session, rows, writes, results>>

\* An INSERT keeps the account's row for itself and other INSERTs; a DELETE of the
\* account waits for them, and they for it.
Others(r) == {s \in Requests \ {r} : UserOf[s] = UserOf[r]}
AccountShared(r) == \A s \in Others(r) : erased[s] = {}
AccountLocked(r) == AccountShared(r) /\ \A s \in Others(r) : added[s] = {}

\* Mutant: user_id is a plain column, without its reference to users.
StoreWithoutReference(r) ==
  /\ Job(r) = "store"
  /\ At(r, "work", "commit")
  /\ \E table \in Stored :
       /\ Policy(client[r], <<table, UserOf[r]>>)
       /\ added' = [added EXCEPT ![r] = {<<table, UserOf[r]>>}]
  /\ UNCHANGED <<route, unit, pool, session, rows, erased, results>>

Store(r) ==
  /\ Job(r) = "store"
  /\ AccountShared(r)
  /\ <<"users", UserOf[r]>> \in rows
  /\ At(r, "work", "commit")
  /\ \E table \in Stored :
       /\ Policy(client[r], <<table, UserOf[r]>>)
       /\ added' = [added EXCEPT ![r] = {<<table, UserOf[r]>>}]
  /\ UNCHANGED <<route, unit, pool, session, rows, erased, results>>

\* The reference to users finds no account.
StoreRefused(r) ==
  /\ Job(r) = "store"
  /\ AccountShared(r)
  /\ <<"users", UserOf[r]>> \notin rows
  /\ At(r, "work", "rollback")
  /\ UNCHANGED <<route, unit, pool, session, rows, writes, results>>

\* deleteUserData, with the cascade to every table.
Erase(r) ==
  /\ Job(r) = "erase"
  /\ AccountLocked(r)
  /\ At(r, "work", "commit")
  /\ erased' = [erased EXCEPT ![r] = {row[2] : row \in Select(r, {<<"users", UserOf[r]>>})}]
  /\ UNCHANGED <<route, unit, pool, session, rows, added, results>>

Committed(r) == {row \in rows \cup added[r] : row[2] \notin erased[r]}

\* The end of a transaction, whatever it kept.
EndTransaction(r, value) ==
  /\ added' = [added EXCEPT ![r] = {}]
  /\ erased' = [erased EXCEPT ![r] = {}]
  /\ open' = [open EXCEPT ![client[r]] = FALSE]
  /\ setting' = [setting EXCEPT ![client[r]] = value]

CommitTo(r, to) ==
  /\ At(r, "commit", to)
  /\ rows' = Committed(r)
  /\ stayed' = [s \in Requests |-> stayed[s] \cap Committed(r)]
  /\ came' = [s \in Requests |->
       IF reads[s] > 0 THEN came[s] \cup {row \in Committed(r) : row[2] = UserOf[s]} ELSE {}]
  /\ EndTransaction(r, Reset(client[r]))
  /\ UNCHANGED <<route, unit, pool, reads, seen>>

Commit(r) == CommitTo(r, "release")

\* It took effect, and its reply was lost.
CommitReplyLost(r) == CommitTo(r, "rollback")

\* BEGIN, set_config, a statement, the callback or COMMIT throws.
Throw(r) ==
  /\ pc[r] \in {"begin", "scope", "work", "commit"}
  /\ pc' = [pc EXCEPT ![r] = "rollback"]
  /\ UNCHANGED <<route, unit, pool, session, rows, writes, results>>

\* Mutant: a finally that commits whatever the callback did before it threw.
RollbackCommits(r) ==
  /\ At(r, "rollback", "abandon")
  /\ rows' = Committed(r)
  /\ EndTransaction(r, Reset(client[r]))
  /\ UNCHANGED <<route, unit, pool, results>>

\* Mutant: the error path rethrows without ROLLBACK.
RollbackSkipped(r) ==
  /\ At(r, "rollback", "abandon")
  /\ UNCHANGED <<route, unit, pool, session, rows, writes, results>>

Rollback(r) ==
  /\ At(r, "rollback", "abandon")
  /\ EndTransaction(r, Reset(client[r]))
  /\ UNCHANGED <<route, unit, pool, rows, results>>

\* ROLLBACK throws in its turn: the connection is gone, Postgres ends the transaction,
\* and the pool replaces the client when it is released.
RollbackFails(r) ==
  /\ At(r, "rollback", "abandon")
  /\ EndTransaction(r, None)
  /\ UNCHANGED <<route, unit, pool, rows, results>>

\* SELECT 1 of the readiness probe, outside any transaction.
Query(r) ==
  /\ At(r, "query", "release")
  /\ UNCHANGED <<route, unit, pool, session, rows, writes, results>>

QueryFails(r) ==
  /\ At(r, "query", "abandon")
  /\ UNCHANGED <<route, unit, pool, session, rows, writes, results>>

-----------------------------------------------------------------------------
Statement(r) ==
  \/ Exists(r)
  \/ Lookup(r)
  \/ ExportAccount(r)
  \/ ExportTable(r)
  \/ ExportDone(r)
  \/ Store(r)
  \/ StoreRefused(r)
  \/ Erase(r)
  \/ Query(r)

\* What a request does unless something fails.
Advance(r) ==
  \/ Ask(r)
  \/ Grant(r)
  \/ Begin(r)
  \/ SetUser(r)
  \/ Statement(r)
  \/ Commit(r)
  \/ Rollback(r)
  \/ Release(r)
  \/ Abandon(r)

Failure(r) ==
  \/ ConnectFails(r)
  \/ HandlerThrows(r)
  \/ Throw(r)
  \/ CommitReplyLost(r)
  \/ RollbackFails(r)
  \/ QueryFails(r)

AllDone == (\A r \in Requests : pc[r] = "done") /\ UNCHANGED vars

Next ==
  \/ \E r \in Requests : Arrive(r) \/ Advance(r) \/ Failure(r)
  \/ AllDone

\* Every request that can take a step takes one, fails or not; nothing has to fail,
\* and nobody has to ask.
Spec == Init /\ [][Next]_vars /\ \A r \in Requests : WF_vars(Advance(r))

-----------------------------------------------------------------------------
(***************************************************************************)
(* Properties.                                                             *)
(***************************************************************************)

\* No statement returns, inserts or deletes a row of another account, although clients
\* pass from one account to the next and lookups go by id alone (user-context.ts and the
\* policies).
Isolation ==
  \A r \in Requests :
    /\ \A row \in seen[r] \cup added[r] : row[2] = UserOf[r]
    /\ erased[r] \subseteq {UserOf[r]}

\* No client is lost and none is held twice, whichever statement threw: at any moment a
\* client is idle or with the one request whose unit is running.
PoolIsWhole ==
  /\ \A r \in Requests : client[r] # None <=> pc[r] \in Holding
  /\ \A c \in Clients : c \notin idle <=> \E r \in Requests : client[r] = c
  /\ \A r, s \in Requests : client[r] = client[s] /\ client[r] # None => r = s

\* A client goes back without a transaction and without an account: what next runs on
\* it unscoped, a probe or a forgotten context, is denied every row.
IdleClientsAreClean ==
  \A c \in idle : ~open[c] /\ CurrentUser(c) = None

\* However many commits come between its statements, an export leaves out no row that was
\* there from its first statement to its last and has none that never was: without a commit,
\* it is all the account holds.  Every table that references users has its statement.
ExportIsWhole ==
  \A r \in Requests : pc[r] = "release" /\ Job(r) = "export" =>
    stayed[r] \subseteq seen[r] /\ seen[r] \subseteq came[r]

\* What the properties rest on: statements run on a client that names their account,
\* and a client held outside a transaction is as clean as an idle one.
WorkIsScoped ==
  \A r \in Requests : pc[r] = "work" => setting[client[r]] = UserOf[r]

HeldClientsAreClean ==
  \A r \in Requests : pc[r] \in {"begin", "query", "release", "abandon"} =>
    ~open[client[r]] /\ CurrentUser(client[r]) = None

\* Only the unit of an export counts statements, and only the probe has no transaction.
StepsAreOfUnit ==
  \A r \in Requests :
    /\ pc[r] = "query" => Job(r) = "ping"
    /\ reads[r] > 0 => /\ Job(r) = "export"
                       /\ pc[r] \in {"work", "commit", "rollback", "release", "abandon"}

\* An export has what stayed in the tables read so far, and nothing that never came.
ReadSoFar(r) == {"users"} \cup {ExportOrder[i] : i \in 1..(reads[r] - 1)}

ExportSoFar ==
  \A r \in Requests :
    /\ reads[r] > 0 => stayed[r] \subseteq RowsOf(UserOf[r]) /\ RowsOf(UserOf[r]) \subseteq came[r]
    /\ Job(r) = "export" /\ pc[r] \in {"commit", "release"} => reads[r] = Len(ExportOrder) + 1
    /\ reads[r] > 0 => /\ seen[r] \subseteq came[r]
                       /\ {row \in stayed[r] : row[1] \in ReadSoFar(r)} \subseteq seen[r]

PoolInv ==
  /\ TypeOK
  /\ PoolIsWhole
  /\ Isolation
  /\ IdleClientsAreClean
  /\ WorkIsScoped
  /\ HeldClientsAreClean
  /\ StepsAreOfUnit
  /\ ExportSoFar

\* An open transaction that inserted under an account keeps it from being deleted, and one
\* that deletes it keeps others from inserting or deleting.
LocksKeepAccount ==
  /\ \A row \in rows : <<"users", row[2]>> \in rows
  /\ \A r \in Requests :
       /\ added[r] # {} => /\ <<"users", UserOf[r]>> \in rows
                          /\ erased[r] = {} /\ AccountShared(r)
                          /\ \E table \in ChildTables : added[r] = {<<table, UserOf[r]>>}
       /\ erased[r] # {} => AccountLocked(r)

\* The queue is of those who wait for a client, each once.
QueueIsOfWaiting ==
  /\ \A r \in Requests : pc[r] = "waiting" <=> \E i \in 1..Len(waiting) : waiting[i] = r
  /\ \A i, j \in 1..Len(waiting) : waiting[i] = waiting[j] => i = j

Inv == PoolInv /\ LocksKeepAccount /\ QueueIsOfWaiting

\* Rows of an account change only when a request of that account commits.
ChangedByOwnCommit ==
  [][\A u \in Users : RowsOf(u)' # RowsOf(u) =>
       \E r \in Requests : UserOf[r] = u /\ pc[r] = "commit"]_vars

\* Whatever units of work overlap, throw or are abandoned, the tables keep the contract of
\* AccountContract: a row is committed only under an account that exists, and the cascade
\* takes all rows of an account with it, for good.
Contract == INSTANCE AccountContract WITH
  Accounts <- Users,
  Rows <- ChildTables \X Users,
  AccountOf <- [row \in ChildTables \X Users |-> row[2]],
  existing <- {u \in Users : <<"users", u>> \in rows},
  erased <- {u \in Users : <<"users", u>> \notin rows},
  rows <- {row \in rows : row[1] # "users"}

KeepsContract == Contract!Spec

\* A request is under way and cannot go on by itself: no client for it yet, or its
\* statement waits for another request's transaction.
Underway(r) == pc[r] \notin {"idle", "done"}
Waits(r) ==
  \/ pc[r] = "waiting" /\ (idle = {} \/ Head(waiting) # r)
  \/ pc[r] = "work" /\ Job(r) = "store" /\ ~AccountShared(r)
  \/ pc[r] = "work" /\ Job(r) = "erase" /\ ~AccountLocked(r)

\* However few clients there are, the requests never all wait: whoever holds the last
\* clients needs no second one, and whoever holds the locks has all it needs.
NobodyIsStuck ==
  (\E r \in Requests : Underway(r)) => \E r \in Requests : Underway(r) /\ ~Waits(r)

\* How many steps a request may still take: those of its unit, and of the units after it.
StepsOfUnit == Len(ExportOrder) + 10
StepsAhead ==
  [idle |-> StepsOfUnit, asking |-> StepsOfUnit - 1, waiting |-> StepsOfUnit - 2,
   begin |-> StepsOfUnit - 3, scope |-> StepsOfUnit - 4, work |-> StepsOfUnit - 5,
   commit |-> 3, rollback |-> 2, query |-> 2, release |-> 1, abandon |-> 1]
Ahead(r) == StepsAhead[pc[r]] - (IF pc[r] = "work" THEN reads[r] ELSE 0)
StepsLeft(r) == IF pc[r] = "done" THEN 0 ELSE (3 - unit[r]) * StepsOfUnit + Ahead(r)

\* Nothing is tried for ever, a client that cannot be had or a statement that throws least
\* of all: each step brings one request nearer its end and no other further from its own.
StepsRunOut ==
  [][\E r \in Requests :
       /\ StepsLeft(r)' \in 0..(StepsLeft(r) - 1)
       /\ \A s \in Requests \ {r} : StepsLeft(s)' = StepsLeft(s)]_vars

\* So whatever they hold and wait for, the requests can go on until all are answered, and
\* no step leads away from that: what is left to fairness is to take the steps.
RequestsCanEnd == []NobodyIsStuck /\ StepsRunOut

\* Every request is answered, however few clients there are: no unit waits for a client
\* while it holds one.  Each is made once, so that from some point on none is under way.
RequestsEnd == <>[](\A r \in Requests : ~Underway(r))
=============================================================================
