---------------------------- MODULE LazyClients ----------------------------
(***************************************************************************)
(* How one process comes to its secrets and its clients of other services, *)
(* while those services come and go and the process itself is stopped and  *)
(* started.  Nothing but the Postgres pool is made at startup: every other *)
(* client is made by the first request that needs it, and kept.            *)
(*                                                                         *)
(* Two clients are kept as the promise of a connection, which all callers  *)
(* share, whatever becomes of it; two as a value, which every caller that  *)
(* finds none looks up for itself.  SecretsService keeps what it has read, *)
(* never that it could not read it.                                        *)
(***************************************************************************)
EXTENDS Naturals, Sequences

\* The secrets each client reads, one after the other, before it exists.
Needs == [
  container |-> <<"AZURE_STORAGE_CONNECTION_STRING">>,
  config    |-> <<"GOOGLE_CLIENT_ID", "GOOGLE_CLIENT_SECRET">>,
  anthropic |-> <<"ANTHROPIC_API_KEY">>,
  key       |-> <<"SESSION_SECRET">>]

Clients == DOMAIN Needs

\* Whom a promise calls last: createIfNotExists, and the discovery document.
ConnectsTo == [container |-> "storage", config |-> "google"]

Promised == DOMAIN ConnectsTo

\* What requests do, with which client, and whom it then calls; the rest is local.
ClientOf == [
  authorize |-> "config",    exchange |-> "config",
  verify    |-> "key",       issue    |-> "key",
  download  |-> "container", complete |-> "anthropic"]

ServiceOf == [exchange |-> "google", download |-> "storage", complete |-> "provider"]

Operations == DOMAIN ClientOf
Backends == {"vault", "storage", "google", "provider"}
Secrets == {"DATABASE_URL"} \cup UNION {{Needs[c][i] : i \in DOMAIN Needs[c]} : c \in Clients}

Routes == [
  start    |-> <<"authorize">>,
  callback |-> <<"exchange", "issue">>,
  content  |-> <<"verify", "download">>,
  extract  |-> <<"verify", "download", "complete">>]

CONSTANTS
  Requests,  \* each sent once
  Mixes      \* bound: what they may ask for together

ASSUME MixesAssumption == Mixes \subseteq [Requests -> DOMAIN Routes]

VARIABLES
  process,    \* where the one process is between its starts and stops
  reachable,  \* the backends that answer
  known,      \* SecretsService.cache
  client,     \* of each client, whether the process has it
  route,      \* what each request asks for
  request,    \* where each request is in its current operation
  at,         \* which operation of its route that is
  found,      \* how that operation found its client
  missed,     \* backends out of reach at some time during that operation
  spoiled     \* and those out of reach while a promise was connecting

calls == <<route, request, at, found, missed>>
vars == <<process, reachable, known, client, spoiled, calls>>

Running == {"waiting", "using"}
Ended == {"answered", "failed", "dropped"}
ClientStates == {"absent", "connecting", "ready", "rejected"}

Sources(c) == {"vault"} \cup IF c \in Promised THEN {ConnectsTo[c]} ELSE {}

Operation(q) == Routes[route[q]][at[q]]
Wants(q) == ClientOf[Operation(q)]
Remote(q) == Operation(q) \in DOMAIN ServiceOf
Service(q) == IF Remote(q) THEN {ServiceOf[Operation(q)]} ELSE {}

\* Whom an operation that found its client in this state depends on.
Concerns(q, state) == Service(q) \cup IF state = "ready" THEN {} ELSE Sources(Wants(q))

TypeOK ==
  /\ process \in {"down", "telemetry", "pool", "serving"}
  /\ reachable \in SUBSET Backends
  /\ known \in SUBSET Secrets
  /\ client \in [Clients -> ClientStates]
  /\ route \in [Requests -> DOMAIN Routes]
  /\ request \in [Requests -> {"idle", "arrived", "next"} \cup Running \cup Ended]
  /\ at \in [Requests -> Nat]
  /\ \A q \in Requests : at[q] \in DOMAIN Routes[route[q]]
  /\ found \in [Requests -> ClientStates]
  /\ missed \in [Requests -> SUBSET Backends]
  /\ spoiled \in [Promised -> SUBSET Backends]

Init ==
  /\ process = "down"
  /\ reachable = Backends
  /\ known = {}
  /\ client = [c \in Clients |-> "absent"]
  /\ route \in Mixes
  /\ request = [q \in Requests |-> "idle"]
  /\ at = [q \in Requests |-> 1]
  /\ found = [q \in Requests |-> "absent"]
  /\ missed = [q \in Requests |-> {}]
  /\ spoiled = [c \in Promised |-> {}]

-----------------------------------------------------------------------------
(***************************************************************************)
(* The process and the services around it.                                 *)
(***************************************************************************)

\* Telemetry looks for a secret of its own, and the start goes on without it.
Start ==
  /\ process = "down"
  /\ process' = "telemetry"
  /\ UNCHANGED <<reachable, known, client, spoiled, calls>>

TelemetryDone ==
  /\ process = "telemetry"
  /\ process' = "pool"
  /\ UNCHANGED <<reachable, known, client, spoiled, calls>>

\* The pool is made with the connection string; no connection is opened.
PoolMade ==
  /\ process = "pool"
  /\ "vault" \in reachable
  /\ process' = "serving"
  /\ known' = known \cup {"DATABASE_URL"}
  /\ UNCHANGED <<reachable, client, spoiled, calls>>

\* A crash, a deployment, a scale to zero, or a start that cannot read DATABASE_URL:
\* memory and the requests in flight are gone; those at the ingress wait.
Stop ==
  /\ process # "down"
  /\ process' = "down"
  /\ known' = {}
  /\ client' = [c \in Clients |-> "absent"]
  /\ request' = [q \in Requests |->
       IF request[q] \in Running \cup {"next"} THEN "dropped" ELSE request[q]]
  /\ spoiled' = [c \in Promised |-> {}]
  /\ at' = [q \in Requests |-> 1]
  /\ found' = [q \in Requests |-> "absent"]
  /\ missed' = [q \in Requests |-> {}]
  /\ UNCHANGED <<route, reachable>>

Outage(b) ==
  /\ b \in reachable
  /\ reachable' = reachable \ {b}
  /\ missed' = [q \in Requests |->
       IF request[q] \in Running /\ b \in Concerns(q, found[q])
       THEN missed[q] \cup {b} ELSE missed[q]]
  /\ spoiled' = [c \in Promised |->
       IF client[c] = "connecting" /\ b \in Sources(c)
       THEN spoiled[c] \cup {b} ELSE spoiled[c]]
  /\ UNCHANGED <<route, process, known, client, request, at, found>>

Recovery(b) ==
  /\ b \in Backends \ reachable
  /\ reachable' = reachable \cup {b}
  /\ UNCHANGED <<process, known, client, spoiled, calls>>

-----------------------------------------------------------------------------
(***************************************************************************)
(* Requests.                                                               *)
(***************************************************************************)

Arrive(q) ==
  /\ request[q] = "idle"
  /\ request' = [request EXCEPT ![q] = "arrived"]
  /\ UNCHANGED <<route, process, reachable, known, client, spoiled, at, found, missed>>

\* Mutant: the promise goes into the field only once its connection is there.
BeginKeepsNothing(q) ==
  LET c == Wants(q) IN
  /\ process = "serving"
  /\ request[q] \in {"arrived", "next"}
  /\ request' = [request EXCEPT ![q] =
       CASE client[c] = "ready" -> "using"
         [] client[c] = "rejected" -> "failed"
         [] OTHER -> "waiting"]
  /\ found' = [found EXCEPT ![q] = client[c]]
  /\ missed' = [missed EXCEPT ![q] = Concerns(q, client[c]) \ reachable]
  /\ UNCHANGED <<route, process, reachable, known, at, client, spoiled>>

\* The next operation asks for its client, in one tick: it has it, or shares what has
\* become of the promise, or makes the promise, or looks the value up.
Begin(q) ==
  LET c == Wants(q) IN
  /\ process = "serving"
  /\ request[q] \in {"arrived", "next"}
  /\ request' = [request EXCEPT ![q] =
       CASE client[c] = "ready" -> "using"
         [] client[c] = "rejected" -> "failed"
         [] OTHER -> "waiting"]
  /\ found' = [found EXCEPT ![q] = client[c]]
  /\ missed' = [missed EXCEPT ![q] = Concerns(q, client[c]) \ reachable]
  /\ IF c \in Promised /\ client[c] = "absent"
     THEN /\ client' = [client EXCEPT ![c] = "connecting"]
          /\ spoiled' = [spoiled EXCEPT ![c] = Sources(c) \ reachable]
     ELSE UNCHANGED <<client, spoiled>>
  /\ UNCHANGED <<route, process, reachable, known, at>>

\* A caller that found no value has looked it up; whoever asks from now on finds it.
LookedUp(q) ==
  /\ request[q] = "waiting" /\ Wants(q) \notin Promised
  /\ "vault" \in reachable
  /\ known' = known \cup {Needs[Wants(q)][1]}
  /\ client' = [client EXCEPT ![Wants(q)] = "ready"]
  /\ request' = [request EXCEPT ![q] = "using"]
  /\ UNCHANGED <<route, process, reachable, spoiled, at, found, missed>>

\* Mutant: a lookup that failed is remembered like one that did not.
LookupFailsForGood(q) ==
  /\ request[q] = "waiting" /\ Wants(q) \notin Promised
  /\ "vault" \notin reachable
  /\ client' = [client EXCEPT ![Wants(q)] = "rejected"]
  /\ request' = [request EXCEPT ![q] = "failed"]
  /\ UNCHANGED <<route, process, reachable, known, spoiled, at, found, missed>>

\* Mutant: the error path resets the field, whatever another caller has put there.
LookupFailsForgets(q) ==
  /\ request[q] = "waiting" /\ Wants(q) \notin Promised
  /\ "vault" \notin reachable
  /\ client' = [client EXCEPT ![Wants(q)] = "absent"]
  /\ request' = [request EXCEPT ![q] = "failed"]
  /\ UNCHANGED <<route, process, reachable, known, spoiled, at, found, missed>>

\* Only this caller fails: others may still be asking, or find what they find.
LookupFails(q) ==
  /\ request[q] = "waiting" /\ Wants(q) \notin Promised
  /\ "vault" \notin reachable
  /\ request' = [request EXCEPT ![q] = "failed"]
  /\ UNCHANGED <<route, process, reachable, known, client, spoiled, at, found, missed>>

Callers(c) == {q \in Requests : request[q] = "waiting" /\ Wants(q) = c}

\* The promise is fulfilled or rejected for all who share it.
Settle(c, state, fate) ==
  /\ client[c] = "connecting"
  /\ client' = [client EXCEPT ![c] = state]
  /\ request' = [q \in Requests |-> IF q \in Callers(c) THEN fate ELSE request[q]]
  /\ UNCHANGED <<route, process, reachable, spoiled, at, found, missed>>

Unread(c) == {i \in DOMAIN Needs[c] : Needs[c][i] \notin known}

\* getSecret, in the order of Needs; a secret already read is not asked for.
ReadSecret(c) ==
  \E i \in Unread(c) :
    /\ client[c] = "connecting"
    /\ \A j \in Unread(c) : i <= j
    /\ "vault" \in reachable
    /\ known' = known \cup {Needs[c][i]}
    /\ UNCHANGED <<process, reachable, client, spoiled, calls>>

Connected(c) ==
  /\ Unread(c) = {}
  /\ ConnectsTo[c] \in reachable
  /\ Settle(c, "ready", "using")
  /\ UNCHANGED known

\* Mutant: the field is not reset, and the callers are left with the old promise.
RejectedUnnoticed(c) ==
  /\ (IF Unread(c) = {} THEN ConnectsTo[c] ELSE "vault") \notin reachable
  /\ Settle(c, "rejected", "waiting")
  /\ UNCHANGED known

\* The promise stays in the field: this process will not try again.
Rejected(c) ==
  /\ (IF Unread(c) = {} THEN ConnectsTo[c] ELSE "vault") \notin reachable
  /\ Settle(c, "rejected", "failed")
  /\ UNCHANGED known

\* The operation is done: the next one of the route, or the answer.
Used(q) ==
  /\ request[q] = "using"
  /\ Remote(q) => ServiceOf[Operation(q)] \in reachable
  /\ IF at[q] < Len(Routes[route[q]])
     THEN /\ request' = [request EXCEPT ![q] = "next"]
          /\ at' = [at EXCEPT ![q] = @ + 1]
     ELSE /\ request' = [request EXCEPT ![q] = "answered"]
          /\ UNCHANGED at
  /\ UNCHANGED <<route, process, reachable, known, client, spoiled, found, missed>>

UseFails(q) ==
  /\ request[q] = "using"
  /\ Remote(q) /\ ServiceOf[Operation(q)] \notin reachable
  /\ request' = [request EXCEPT ![q] = "failed"]
  /\ UNCHANGED <<route, process, reachable, known, client, spoiled, at, found, missed>>

Connect(c) == ReadSecret(c) \/ Connected(c) \/ Rejected(c)
Advance(q) == Begin(q) \/ LookedUp(q) \/ LookupFails(q) \/ Used(q) \/ UseFails(q)

Next ==
  \/ Start \/ TelemetryDone \/ PoolMade \/ Stop
  \/ \E b \in Backends : Outage(b) \/ Recovery(b)
  \/ \E c \in Promised : Connect(c)
  \/ \E q \in Requests : Arrive(q) \/ Advance(q)

Spec == Init /\ [][Next]_vars

\* The platform starts a replica for a request at the ingress, what has started goes on,
\* and calls return or fail; nobody owes a request, an outage, a recovery or a stop.
FairSpec ==
  /\ Spec
  /\ WF_vars(Start /\ \E q \in Requests : request[q] = "arrived")
  /\ WF_vars(TelemetryDone \/ PoolMade)
  /\ WF_vars(\E c \in Promised : Connect(c))
  /\ WF_vars(\E q \in Requests : Advance(q))

-----------------------------------------------------------------------------
(***************************************************************************)
(* Properties.                                                             *)
(***************************************************************************)

\* Who may be to blame for a client that was not to be had: what it is made from, during
\* this operation or, with a shared promise, before it in the same process.
ClientIsExcused(q) ==
  \/ missed[q] \cap Sources(Wants(q)) # {}
  \/ Wants(q) \in Promised /\ found[q] # "ready" /\ spoiled[Wants(q)] # {}

UseIsExcused(q) == missed[q] \cap Service(q) # {}

\* No outage is remembered but by the two promises, and by them only until the process
\* stops: a request never fails for another reason.  In particular a client once made
\* outlives the vault, and one caller's failed lookup is not another's.
FailuresAreExcused ==
  [][\A q \in Requests : request[q] # "failed" /\ request'[q] = "failed" =>
       IF request[q] = "using" THEN UseIsExcused(q)' ELSE ClientIsExcused(q)']_vars

\* Whoever waits for a promised client waits for the one promise of the process, and that
\* one is still to be settled.
WaitersShareAPromise ==
  \A q \in Requests : request[q] = "waiting" /\ Wants(q) \in Promised =>
    client[Wants(q)] = "connecting"

\* What one caller has got, all have from then on: while the process lasts, no failure of a
\* lookup or a connection takes away a client or a secret that another caller, asking at the
\* same time, has put in its place.
NothingIsTakenBack ==
  [][process' # "down" =>
       /\ known \subseteq known'
       /\ \A c \in Clients : client[c] = "ready" => client'[c] = "ready"]_vars

\* So all requests of a process have the same clients, those that were waiting as well as
\* those that come later.
ClientsAreShared == []WaitersShareAPromise /\ NothingIsTakenBack

\* What that rests on: a client is there only in a running process that has read its
\* secrets, and a value is there or not.
ClientsBelongToProcess ==
  /\ \A c \in Clients : client[c] # "absent" => process = "serving"
  /\ \A c \in Clients : client[c] = "ready" => Unread(c) = {}
  /\ \A c \in Clients \ Promised : client[c] \in {"absent", "ready"}
  /\ \A q \in Requests : request[q] \in Running \cup {"next"} => process = "serving"
  /\ known # {} => process = "serving"

\* An outage is in the record of all it meets.
OutagesAreRecorded ==
  /\ \A q \in Requests : request[q] \in Running => Concerns(q, found[q]) \ reachable \subseteq missed[q]
  /\ \A c \in Promised : client[c] = "connecting" => Sources(c) \ reachable \subseteq spoiled[c]
  /\ \A c \in Promised : client[c] = "rejected" => spoiled[c] # {}
  /\ \A q \in Requests : request[q] = "waiting" =>
       \/ found[q] = "absent"
       \/ found[q] = "connecting" /\ Wants(q) \in Promised

Inv ==
  /\ TypeOK
  /\ WaitersShareAPromise
  /\ ClientsBelongToProcess
  /\ OutagesAreRecorded

\* Once the process is no longer stopped and the vault stays in reach, every request
\* ends: the start needs nothing else, and no caller waits for a promise for ever.
RequestsEnd ==
  <>[][~Stop]_vars /\ <>[]("vault" \in reachable) =>
    <>[](\A q \in Requests : request[q] \in {"idle"} \cup Ended)
=============================================================================
