------------------------- MODULE LazyClientsProofs -------------------------
(***************************************************************************)
(* What a failure of a request may be blamed on, for any number of         *)
(* requests and any mix of routes.  Inv is inductive: that a failure has   *)
(* its excuse rests on OutagesAreRecorded, which says that whatever is out *)
(* of reach while something waits for it is in that one's record, and that *)
(* a rejected promise has such a record.                                   *)
(***************************************************************************)
EXTENDS LazyClients, TLAPS

USE MixesAssumption

\* The names in the tables of operations and clients.
LEMMA ClientNames ==
  /\ Clients = {"container", "config", "anthropic", "key"}
  /\ Promised = {"container", "config"}
  /\ \A o \in Operations : ClientOf[o] \in Clients
  /\ \A o \in DOMAIN ServiceOf : ServiceOf[o] \in Backends
  /\ \A c \in Clients : "vault" \in Sources(c) /\ Sources(c) \subseteq Backends
  /\ \A c \in Promised : ConnectsTo[c] \in Sources(c)
BY DEF Clients, Needs, Promised, ConnectsTo, Operations, ClientOf, ServiceOf, Backends, Sources

\* Every client has a secret to read, and a value client has one.
LEMMA ClientSecrets ==
  /\ \A c \in Clients : \A i \in DOMAIN Needs[c] : i \in 1..2 /\ Needs[c][i] \in Secrets
  /\ \A c \in Clients \ Promised : DOMAIN Needs[c] = {1}
<1>1. \A c \in Clients : \A i \in DOMAIN Needs[c] : Needs[c][i] \in Secrets
  BY DEF Secrets
<1>2. \A c \in Clients : DOMAIN Needs[c] \subseteq 1..2
  BY DEF Clients, Needs
<1>3. \A c \in Clients \ Promised : DOMAIN Needs[c] = {1}
  BY DEF Clients, Needs, Promised, ConnectsTo
<1>4. QED
  BY <1>1, <1>2, <1>3

\* A route is a sequence of one to three operations.
LEMMA RouteOperations ==
  \A name \in DOMAIN Routes :
    /\ Len(Routes[name]) \in 1..3
    /\ DOMAIN Routes[name] = 1..Len(Routes[name])
    /\ \A i \in DOMAIN Routes[name] : Routes[name][i] \in Operations
BY DEF Routes, Operations, ClientOf

\* What a request wants and whom it calls.
LEMMA RequestOperation ==
  ASSUME TypeOK, NEW q \in Requests
  PROVE  /\ Operation(q) \in Operations
         /\ Wants(q) \in Clients
         /\ Service(q) \subseteq Backends
         /\ \A state : Concerns(q, state) \subseteq Backends
<1>1. Operation(q) \in Operations
  BY RouteOperations DEF TypeOK, Operation
<1>2. Wants(q) \in Clients
  BY <1>1, ClientNames DEF Wants
<1>3. Service(q) \subseteq Backends
  BY ClientNames DEF Service, Remote
<1>4. QED
  BY <1>1, <1>2, <1>3, ClientNames DEF Concerns

\* At the start there is no process, and nothing is known or asked for.
LEMMA InitInv == Init => Inv
<1> SUFFICES ASSUME Init PROVE Inv
  OBVIOUS
<1>1. route \in [Requests -> DOMAIN Routes]
  BY MixesAssumption DEF Init
<1>2. ASSUME NEW q \in Requests PROVE at[q] \in DOMAIN Routes[route[q]]
  <2>1. route[q] \in DOMAIN Routes /\ at[q] = 1
    BY <1>1 DEF Init
  <2>2. QED
    BY <2>1, RouteOperations
<1>3. at \in [Requests -> Nat] /\ spoiled \in [Promised -> SUBSET Backends]
  BY DEF Init
<1>4. TypeOK
  BY <1>1, <1>2, <1>3 DEF Init, TypeOK, ClientStates, Running, Ended
<1>5. QED
  BY <1>4, ClientNames DEF Inv, Init, WaitersShareAPromise, ClientsBelongToProcess,
    OutagesAreRecorded, Running

\* An operation is what it was as long as its route and its place in it are.
LEMMA SameOperation ==
  ASSUME UNCHANGED <<route, at>>
  PROVE  \A q \in Requests : /\ Wants(q)' = Wants(q)
                             /\ Service(q)' = Service(q)
                             /\ \A state : Concerns(q, state)' = Concerns(q, state)
BY DEF Wants, Service, Remote, Concerns, Operation

\* Starts and recoveries disturb nothing that a request or a client relies on.
LEMMA StartsKeepInv == Inv /\ (Start \/ TelemetryDone \/ PoolMade) => Inv'
<1> SUFFICES ASSUME Inv, Start \/ TelemetryDone \/ PoolMade PROVE Inv'
  OBVIOUS
<1>1. UNCHANGED <<reachable, client, spoiled, route, request, at, found, missed>>
  BY DEF Start, TelemetryDone, PoolMade, calls
<1>2. process # "serving" /\ process' \in {"telemetry", "pool", "serving"}
  BY DEF Start, TelemetryDone, PoolMade
<1>3. known' \in {known, known \cup {"DATABASE_URL"}} /\ (known' # {} => process' = "serving")
  BY <1>2 DEF Start, TelemetryDone, PoolMade, Inv, ClientsBelongToProcess
<1>4. TypeOK'
  BY <1>1, <1>2, <1>3 DEF Inv, TypeOK, Secrets
<1>5. WaitersShareAPromise' /\ OutagesAreRecorded'
  BY <1>1, SameOperation DEF Inv, WaitersShareAPromise, OutagesAreRecorded
<1>6. /\ \A c \in Clients : client[c] = "absent"
      /\ \A q \in Requests : request[q] \notin Running \cup {"next"}
  BY <1>2 DEF Inv, ClientsBelongToProcess
<1>7. ClientsBelongToProcess'
  BY <1>1, <1>3, <1>6 DEF ClientsBelongToProcess
<1>8. QED
  BY <1>4, <1>5, <1>7 DEF Inv

\* A stop forgets the clients together with those who waited for them.
LEMMA StopKeepsInv == Inv /\ Stop => Inv'
<1> SUFFICES ASSUME Inv, Stop PROVE Inv'
  OBVIOUS
<1>1. \A q \in Requests : request'[q] \notin Running \cup {"next"}
  BY DEF Stop, Running
<1>2. TypeOK'
  BY RouteOperations DEF Inv, TypeOK, Stop, ClientStates, Running, Ended
<1>3. \A c \in Clients : client'[c] = "absent"
  BY DEF Stop
<1>4. WaitersShareAPromise' /\ OutagesAreRecorded'
  BY <1>1, <1>3, ClientNames DEF WaitersShareAPromise, OutagesAreRecorded, Running
<1>5. ClientsBelongToProcess'
  BY <1>1, <1>3 DEF Stop, ClientsBelongToProcess
<1>6. QED
  BY <1>2, <1>4, <1>5 DEF Inv

\* An outage is put on the record of whatever it meets.
LEMMA OutageKeepsInv == ASSUME Inv, NEW b \in Backends, Outage(b) PROVE Inv'
<1>1. UNCHANGED <<process, known, client, route, request, at, found>>
  BY DEF Outage
<1>2. TypeOK'
  BY <1>1 DEF Inv, TypeOK, Outage
<1>3. WaitersShareAPromise' /\ ClientsBelongToProcess'
  BY <1>1, SameOperation DEF Inv, WaitersShareAPromise, ClientsBelongToProcess, Unread
<1>4. OutagesAreRecorded'
  <2>1. ASSUME NEW q \in Requests, request'[q] \in Running
        PROVE  (Concerns(q, found[q]) \ reachable \subseteq missed[q])'
    <3>1. Concerns(q, found[q]) \ reachable \subseteq missed[q]
      BY <1>1, <2>1 DEF Inv, OutagesAreRecorded
    <3>2. missed'[q] = IF b \in Concerns(q, found[q]) THEN missed[q] \cup {b} ELSE missed[q]
      BY <1>1, <2>1 DEF Outage
    <3>3. QED
      BY <1>1, <3>1, <3>2, SameOperation DEF Outage
  <2>2. ASSUME NEW c \in Promised, client'[c] = "connecting"
        PROVE  Sources(c) \ reachable' \subseteq spoiled'[c]
    BY <1>1, <2>2 DEF Inv, OutagesAreRecorded, Outage
  <2>3. \A c \in Promised : client'[c] = "rejected" => spoiled'[c] # {}
    BY <1>1 DEF Inv, OutagesAreRecorded, Outage
  <2>4. \A q \in Requests : request'[q] = "waiting" =>
          \/ found'[q] = "absent"
          \/ found'[q] = "connecting" /\ Wants(q)' \in Promised
    BY <1>1, SameOperation DEF Inv, OutagesAreRecorded
  <2>5. QED
    BY <2>1, <2>2, <2>3, <2>4 DEF OutagesAreRecorded, Sources
<1>5. QED
  BY <1>2, <1>3, <1>4 DEF Inv

\* A recovery leaves the records as they are.
LEMMA RecoveryKeepsInv == ASSUME Inv, NEW b \in Backends, Recovery(b) PROVE Inv'
<1>1. UNCHANGED <<process, known, client, spoiled, route, request, at, found, missed>>
  BY DEF Recovery, calls
<1>2. reachable' = reachable \cup {b}
  BY DEF Recovery
<1>3. TypeOK'
  BY <1>1, <1>2 DEF Inv, TypeOK
<1>4. WaitersShareAPromise' /\ ClientsBelongToProcess'
  BY <1>1, SameOperation DEF Inv, WaitersShareAPromise, ClientsBelongToProcess, Unread
<1>5. OutagesAreRecorded'
  <2>1. ASSUME NEW q \in Requests, request'[q] \in Running
        PROVE  (Concerns(q, found[q]) \ reachable \subseteq missed[q])'
    BY <1>1, <1>2, <2>1, SameOperation DEF Inv, OutagesAreRecorded
  <2>2. \A c \in Promised : client'[c] = "connecting" => Sources(c) \ reachable' \subseteq spoiled'[c]
    BY <1>1, <1>2 DEF Inv, OutagesAreRecorded
  <2>3. QED
    BY <1>1, <2>1, <2>2, SameOperation DEF Inv, OutagesAreRecorded, Sources
<1>6. QED
  BY <1>3, <1>4, <1>5 DEF Inv

\* What a step needs to show when it moves one request, and no client with it.
LEMMA RequestStep ==
  ASSUME Inv, NEW q \in Requests,
         UNCHANGED <<process, reachable, known, client, spoiled, route, at, found, missed>>,
         NEW to, request' = [request EXCEPT ![q] = to],
         to \in {"arrived", "using"} \cup Ended,
         to = "using" => request[q] = "waiting"
  PROVE  Inv'
<1>1. TypeOK'
  BY DEF Inv, TypeOK, Running, Ended
<1>2. \A o \in Requests : /\ request'[o] = "waiting" => request[o] = "waiting"
                          /\ request'[o] \in Running => request[o] \in Running
                          /\ request'[o] = "next" => request[o] = "next"
  BY DEF Inv, TypeOK, Running, Ended
<1>3. WaitersShareAPromise' /\ ClientsBelongToProcess'
  BY <1>2, SameOperation DEF Inv, WaitersShareAPromise, ClientsBelongToProcess, Unread
<1>4. OutagesAreRecorded'
  BY <1>2, SameOperation DEF Inv, OutagesAreRecorded, Sources
<1>5. QED
  BY <1>1, <1>3, <1>4 DEF Inv

\* An operation starts with a record of what is out of reach already.
LEMMA BeginKeepsInv == ASSUME Inv, NEW q \in Requests, Begin(q) PROVE Inv'
<1> DEFINE c == Wants(q)
<1>1. /\ c \in Clients /\ Wants(q)' = c
      /\ \A o \in Requests : /\ Wants(o)' = Wants(o)
                             /\ \A state : Concerns(o, state)' = Concerns(o, state)
  BY RequestOperation, SameOperation DEF Inv, Begin
<1>2. UNCHANGED <<process, reachable, known, route, at>> /\ process = "serving"
  BY DEF Begin
<1>3. CASE c \in Promised /\ client[c] = "absent"
  <2>1. /\ client' = [client EXCEPT ![c] = "connecting"]
        /\ spoiled' = [spoiled EXCEPT ![c] = Sources(c) \ reachable]
        /\ request' = [request EXCEPT ![q] = "waiting"]
        /\ found' = [found EXCEPT ![q] = "absent"]
        /\ missed' = [missed EXCEPT ![q] = Concerns(q, "absent") \ reachable]
    BY <1>3 DEF Begin
  <2>2. TypeOK'
    BY <1>1, <1>2, <1>3, <2>1, ClientNames, RequestOperation DEF Inv, TypeOK, ClientStates, Running
  <2>3. WaitersShareAPromise'
    BY <1>1, <1>3, <2>1, ClientNames DEF Inv, TypeOK, WaitersShareAPromise
  <2>4. ClientsBelongToProcess'
    BY <1>1, <1>2, <1>3, <2>1, ClientNames DEF Inv, TypeOK, ClientsBelongToProcess, Unread
  <2>5. OutagesAreRecorded'
    <3>1. \A o \in Requests : request'[o] \in Running =>
            (Concerns(o, found[o]) \ reachable \subseteq missed[o])'
      BY <1>1, <1>2, <2>1 DEF Inv, TypeOK, OutagesAreRecorded
    <3>2. \A d \in Promised : client'[d] = "connecting" => Sources(d) \ reachable' \subseteq spoiled'[d]
      BY <1>2, <1>3, <2>1, ClientNames DEF Inv, TypeOK, OutagesAreRecorded
    <3>3. \A d \in Promised : client'[d] = "rejected" => spoiled'[d] # {}
      BY <2>1, ClientNames DEF Inv, TypeOK, OutagesAreRecorded
    <3>4. \A o \in Requests : request'[o] = "waiting" =>
            \/ found'[o] = "absent"
            \/ found'[o] = "connecting" /\ Wants(o)' \in Promised
      BY <1>1, <2>1 DEF Inv, TypeOK, OutagesAreRecorded
    <3>5. QED
      BY <3>1, <3>2, <3>3, <3>4 DEF OutagesAreRecorded, Sources
  <2>6. QED
    BY <2>2, <2>3, <2>4, <2>5 DEF Inv
<1>4. CASE ~(c \in Promised /\ client[c] = "absent")
  <2>1. PICK to \in {"using", "failed", "waiting"} :
          /\ request' = [request EXCEPT ![q] = to]
          /\ to = "waiting" => client[c] \notin {"ready", "rejected"}
    BY DEF Begin
  <2>2. /\ UNCHANGED <<client, spoiled>>
        /\ found' = [found EXCEPT ![q] = client[c]]
        /\ missed' = [missed EXCEPT ![q] = Concerns(q, client[c]) \ reachable]
    BY <1>4 DEF Begin
  <2>3. client[c] \in ClientStates
    BY <1>1 DEF Inv, TypeOK
  <2>4. TypeOK'
    BY <1>1, <1>2, <2>1, <2>2, <2>3, RequestOperation DEF Inv, TypeOK, Running, Ended
  <2>5. to = "waiting" => client[c] = "absent" \/ (client[c] = "connecting" /\ c \in Promised)
    BY <1>1, <2>1, <2>3 DEF ClientStates, Inv, ClientsBelongToProcess
  <2>6. WaitersShareAPromise'
    BY <1>1, <1>4, <2>1, <2>2, <2>5 DEF Inv, TypeOK, WaitersShareAPromise
  <2>7. ClientsBelongToProcess'
    BY <1>2, <2>2 DEF Inv, ClientsBelongToProcess, Unread
  <2>8. OutagesAreRecorded'
    <3>1. \A o \in Requests : request'[o] \in Running =>
            (Concerns(o, found[o]) \ reachable \subseteq missed[o])'
      BY <1>1, <1>2, <2>1, <2>2 DEF Inv, TypeOK, OutagesAreRecorded
    <3>2. \A o \in Requests : request'[o] = "waiting" =>
            \/ found'[o] = "absent"
            \/ found'[o] = "connecting" /\ Wants(o)' \in Promised
      BY <1>1, <2>1, <2>2, <2>5 DEF Inv, TypeOK, OutagesAreRecorded
    <3>3. QED
      BY <1>2, <2>2, <3>1, <3>2 DEF Inv, OutagesAreRecorded, Sources
  <2>9. QED
    BY <2>4, <2>6, <2>7, <2>8 DEF Inv
<1>5. QED
  BY <1>3, <1>4

\* The secrets of a client that has them stay read.
LEMMA ReadStaysRead ==
  ASSUME NEW c \in Clients, Unread(c) = {}, known \subseteq known'
  PROVE  Unread(c)' = {}
BY DEF Unread

\* A value is kept by a process that has read its secret.
LEMMA LookedUpKeepsInv == ASSUME Inv, NEW q \in Requests, LookedUp(q) PROVE Inv'
<1>1. PICK c \in Clients \ Promised :
        /\ c = Wants(q)
        /\ \A o \in Requests : /\ Wants(o)' = Wants(o)
                               /\ \A state : Concerns(o, state)' = Concerns(o, state)
  BY RequestOperation, SameOperation DEF Inv, LookedUp
<1>2. /\ UNCHANGED <<process, reachable, spoiled, route, at, found, missed>>
      /\ known' = known \cup {Needs[c][1]}
      /\ client' = [client EXCEPT ![c] = "ready"]
      /\ request' = [request EXCEPT ![q] = "using"]
      /\ request[q] = "waiting"
  BY <1>1 DEF LookedUp
<1>3. /\ \A d \in Promised : client'[d] = client[d]
      /\ \A o \in Requests : /\ request'[o] = "waiting" => request[o] = "waiting"
                             /\ request'[o] \in Running => request[o] \in Running
                             /\ request'[o] = "next" => request[o] = "next"
  BY <1>1, <1>2 DEF Inv, TypeOK, Running
<1>4. DOMAIN Needs[c] = {1} /\ Needs[c][1] \in Secrets
  BY <1>1, ClientSecrets
<1>5. process = "serving"
  BY <1>2 DEF Inv, ClientsBelongToProcess, Running
<1>6. TypeOK'
  BY <1>1, <1>2, <1>4 DEF Inv, TypeOK, ClientStates, Running
<1>7. WaitersShareAPromise'
  BY <1>1, <1>3 DEF Inv, WaitersShareAPromise
<1>8. ClientsBelongToProcess'
  <2>1. Unread(c)' = {}
    BY <1>2, <1>4 DEF Unread
  <2>2. \A d \in Clients : client'[d] = "ready" => Unread(d)' = {}
    <3>1. ASSUME NEW d \in Clients, client'[d] = "ready", d # c PROVE Unread(d)' = {}
      <4>1. Unread(d) = {}
        BY <1>2, <3>1 DEF Inv, TypeOK, ClientsBelongToProcess
      <4>2. QED
        BY <1>2, <4>1, ReadStaysRead
    <3>2. QED
      BY <2>1, <3>1
  <2>3. \A d \in Clients \ Promised : client'[d] \in {"absent", "ready"}
    BY <1>1, <1>2 DEF Inv, TypeOK, ClientsBelongToProcess
  <2>4. QED
    BY <1>2, <1>5, <2>2, <2>3 DEF ClientsBelongToProcess
<1>9. OutagesAreRecorded'
  <2>1. \A o \in Requests : request'[o] \in Running =>
          (Concerns(o, found[o]) \ reachable \subseteq missed[o])'
    BY <1>1, <1>2, <1>3 DEF Inv, OutagesAreRecorded
  <2>2. QED
    BY <1>1, <1>2, <1>3, <2>1 DEF Inv, OutagesAreRecorded, Sources
<1>10. QED
  BY <1>6, <1>7, <1>8, <1>9 DEF Inv

\* A promise reads one secret more.
LEMMA ReadSecretKeepsInv == ASSUME Inv, NEW c \in Promised, ReadSecret(c) PROVE Inv'
<1>1. PICK i \in DOMAIN Needs[c] : known' = known \cup {Needs[c][i]}
  BY DEF ReadSecret, Unread
<1>2. /\ UNCHANGED <<process, reachable, client, spoiled, route, request, at, found, missed>>
      /\ client[c] = "connecting"
  BY DEF ReadSecret, calls
<1>3. c \in Clients /\ Needs[c][i] \in Secrets
  BY ClientNames, ClientSecrets
<1>4. TypeOK'
  BY <1>1, <1>2, <1>3 DEF Inv, TypeOK
<1>5. WaitersShareAPromise' /\ OutagesAreRecorded'
  BY <1>2, SameOperation DEF Inv, WaitersShareAPromise, OutagesAreRecorded, Sources
<1>6. ClientsBelongToProcess'
  BY <1>1, <1>2, <1>3, ReadStaysRead DEF Inv, ClientsBelongToProcess
<1>7. QED
  BY <1>4, <1>5, <1>6 DEF Inv

\* A promise that settles leaves none of its callers waiting.
LEMMA SettleKeepsInv ==
  ASSUME Inv, NEW c \in Promised, UNCHANGED known,
         NEW state, NEW fate, Settle(c, state, fate),
         \/ state = "ready" /\ fate = "using" /\ Unread(c) = {}
         \/ state = "rejected" /\ fate = "failed" /\ spoiled[c] # {}
  PROVE  Inv'
<1>1. /\ c \in Clients
      /\ \A o \in Requests : /\ Wants(o)' = Wants(o)
                             /\ \A s : Concerns(o, s)' = Concerns(o, s)
  BY ClientNames, SameOperation DEF Settle
<1>2. /\ UNCHANGED <<process, reachable, known, spoiled, route, at, found, missed>>
      /\ client' = [client EXCEPT ![c] = state] /\ client[c] = "connecting"
  BY DEF Settle
<1>3. \A o \in Requests :
        /\ request'[o] = "waiting" => request[o] = "waiting" /\ Wants(o) # c
        /\ request'[o] \in Running => request[o] \in Running
        /\ request'[o] = "next" => request[o] = "next"
  BY DEF Settle, Callers, Running
<1>4. TypeOK'
  <2>1. request' \in [Requests -> {"idle", "arrived", "next"} \cup Running \cup Ended]
    BY DEF Inv, TypeOK, Settle, Running, Ended
  <2>2. client' \in [Clients -> ClientStates]
    BY <1>1, <1>2 DEF Inv, TypeOK, ClientStates
  <2>3. QED
    BY <1>2, <2>1, <2>2 DEF Inv, TypeOK
<1>5. WaitersShareAPromise'
  BY <1>1, <1>2, <1>3, ClientNames DEF Inv, TypeOK, WaitersShareAPromise
<1>6. ClientsBelongToProcess'
  <2>1. process = "serving"
    BY <1>1, <1>2 DEF Inv, ClientsBelongToProcess
  <2>2. \A d \in Clients : client'[d] = "ready" => Unread(d)' = {}
    BY <1>1, <1>2 DEF Inv, TypeOK, ClientsBelongToProcess, Unread
  <2>3. \A d \in Clients \ Promised : client'[d] \in {"absent", "ready"}
    BY <1>1, <1>2 DEF Inv, TypeOK, ClientsBelongToProcess
  <2>4. QED
    BY <1>2, <2>1, <2>2, <2>3 DEF ClientsBelongToProcess
<1>7. OutagesAreRecorded'
  <2>1. \A o \in Requests : request'[o] \in Running =>
          (Concerns(o, found[o]) \ reachable \subseteq missed[o])'
    BY <1>1, <1>2, <1>3 DEF Inv, OutagesAreRecorded
  <2>2. \A d \in Promised : client'[d] = "connecting" => Sources(d) \ reachable \subseteq spoiled[d]
    BY <1>1, <1>2, ClientNames DEF Inv, TypeOK, OutagesAreRecorded
  <2>3. \A d \in Promised : client'[d] = "rejected" => spoiled[d] # {}
    BY <1>1, <1>2, ClientNames DEF Inv, TypeOK, OutagesAreRecorded
  <2>4. QED
    BY <1>1, <1>2, <1>3, <2>1, <2>2, <2>3 DEF Inv, OutagesAreRecorded, Sources
<1>8. QED
  BY <1>4, <1>5, <1>6, <1>7 DEF Inv

\* Whatever a promise does next, its callers share it.
LEMMA ConnectKeepsInv == ASSUME Inv, NEW c \in Promised, Connect(c) PROVE Inv'
<1>1. CASE ReadSecret(c)
  BY <1>1, ReadSecretKeepsInv
<1>2. CASE Connected(c)
  BY <1>2, SettleKeepsInv DEF Connected
<1>3. CASE Rejected(c)
  <2>1. client[c] = "connecting"
    BY <1>3 DEF Rejected, Settle
  <2>2. spoiled[c] # {}
    BY <1>3, <2>1, ClientNames DEF Rejected, Inv, OutagesAreRecorded
  <2>3. QED
    BY <1>3, <2>2, SettleKeepsInv DEF Rejected
<1>4. QED
  BY <1>1, <1>2, <1>3 DEF Connect

\* An operation that is done leaves its client to the next.
LEMMA UsedKeepsInv == ASSUME Inv, NEW q \in Requests, Used(q) PROVE Inv'
<1>1. PICK to \in {"next", "answered"} : request' = [request EXCEPT ![q] = to]
  BY DEF Used
<1>2. /\ UNCHANGED <<process, reachable, known, client, spoiled, route, found, missed>>
      /\ request[q] = "using"
      /\ \A o \in Requests \ {q} : at'[o] = at[o]
  BY DEF Used, Inv, TypeOK
<1>3. process = "serving"
  BY <1>2 DEF Inv, ClientsBelongToProcess, Running
<1>4. \A o \in Requests : request'[o] \in Running =>
        /\ request[o] = request'[o] /\ Wants(o)' = Wants(o)
        /\ \A state : Concerns(o, state)' = Concerns(o, state)
  BY <1>1, <1>2 DEF Inv, TypeOK, Running, Wants, Service, Remote, Concerns, Operation
<1>5. TypeOK'
  <2>1. at' \in [Requests -> Nat] /\ \A o \in Requests : at'[o] \in DOMAIN Routes[route[o]]
    <3>1. at[q] \in 1..Len(Routes[route[q]]) /\ Len(Routes[route[q]]) \in 1..3
      BY RouteOperations DEF Inv, TypeOK
    <3>2. at'[q] \in 1..Len(Routes[route[q]]) /\ at' \in [Requests -> Nat]
      BY <3>1 DEF Used, Inv, TypeOK
    <3>3. QED
      BY <1>2, <3>2, RouteOperations DEF Inv, TypeOK
  <2>2. QED
    BY <1>1, <1>2, <2>1 DEF Inv, TypeOK, Running, Ended
<1>6. WaitersShareAPromise'
  BY <1>2, <1>4 DEF Inv, WaitersShareAPromise, Running
<1>7. ClientsBelongToProcess'
  BY <1>2, <1>3 DEF Inv, ClientsBelongToProcess, Unread
<1>8. OutagesAreRecorded'
  <2>1. \A o \in Requests : request'[o] \in Running =>
          (Concerns(o, found[o]) \ reachable \subseteq missed[o])'
    BY <1>2, <1>4 DEF Inv, OutagesAreRecorded
  <2>2. \A o \in Requests : request'[o] = "waiting" =>
          (found[o] = "absent" \/ (found[o] = "connecting" /\ Wants(o) \in Promised))'
    BY <1>2, <1>4 DEF Inv, OutagesAreRecorded, Running
  <2>3. QED
    BY <1>2, <2>1, <2>2 DEF Inv, OutagesAreRecorded, Sources
<1>9. QED
  BY <1>5, <1>6, <1>7, <1>8 DEF Inv

\* A request keeps the invariant, whichever step it takes.
LEMMA RequestKeepsInv ==
  ASSUME Inv, NEW q \in Requests, Arrive(q) \/ Advance(q) PROVE Inv'
<1>1. CASE Arrive(q)
  BY <1>1, RequestStep DEF Arrive
<1>2. CASE Begin(q)
  BY <1>2, BeginKeepsInv
<1>3. CASE LookedUp(q)
  BY <1>3, LookedUpKeepsInv
<1>4. CASE LookupFails(q) \/ UseFails(q)
  BY <1>4, RequestStep DEF LookupFails, UseFails, Ended
<1>5. CASE Used(q)
  BY <1>5, UsedKeepsInv
<1>6. QED
  BY <1>1, <1>2, <1>3, <1>4, <1>5 DEF Advance

\* And so does every step of the process and of what is around it.
LEMMA NextInv == Inv /\ [Next]_vars => Inv'
<1> SUFFICES ASSUME Inv, [Next]_vars PROVE Inv'
  OBVIOUS
<1>1. CASE Start \/ TelemetryDone \/ PoolMade
  BY <1>1, StartsKeepInv
<1>2. CASE Stop
  BY <1>2, StopKeepsInv
<1>3. CASE \E b \in Backends : Outage(b) \/ Recovery(b)
  BY <1>3, OutageKeepsInv, RecoveryKeepsInv
<1>4. CASE \E c \in Promised : Connect(c)
  BY <1>4, ConnectKeepsInv
<1>5. CASE \E q \in Requests : Arrive(q) \/ Advance(q)
  BY <1>5, RequestKeepsInv
<1>6. CASE UNCHANGED vars
  <2>1. UNCHANGED <<process, reachable, known, client, spoiled, route, request, at, found, missed>>
    BY <1>6 DEF vars, calls
  <2>2. QED
    BY <2>1, SameOperation DEF Inv, TypeOK, WaitersShareAPromise, ClientsBelongToProcess,
      OutagesAreRecorded, Unread, Sources
<1>7. QED
  BY <1>1, <1>2, <1>3, <1>4, <1>5, <1>6 DEF Next

\* Types; callers of a promise wait for one that will be settled; clients and secrets
\* belong to a running process; an outage is in the record of all it meets.
THEOREM InvCorrect == Spec => []Inv
BY InitInv, NextInv, PTL DEF Spec

\* A step of a running process that is not its stop loses neither secret nor client.
LEMMA StepTakesNothingBack ==
  ASSUME Inv, [Next]_vars, process' # "down"
  PROVE  /\ known \subseteq known'
         /\ \A c \in Clients : client[c] = "ready" => client'[c] = "ready"
<1>1. CASE \/ Start \/ TelemetryDone \/ PoolMade \/ Stop
           \/ \E b \in Backends : Outage(b) \/ Recovery(b)
           \/ UNCHANGED vars
  BY <1>1 DEF Start, TelemetryDone, PoolMade, Stop, Outage, Recovery, vars
<1>2. ASSUME NEW c \in Promised, Connect(c)
      PROVE  known \subseteq known' /\ \A d \in Clients : client[d] = "ready" => client'[d] = "ready"
  BY <1>2 DEF Connect, ReadSecret, Connected, Rejected, Settle, Inv, TypeOK
<1>3. ASSUME NEW q \in Requests, Arrive(q) \/ Advance(q)
      PROVE  known \subseteq known' /\ \A d \in Clients : client[d] = "ready" => client'[d] = "ready"
  <2>1. CASE Begin(q)
    BY <2>1 DEF Begin, Inv, TypeOK
  <2>2. CASE LookedUp(q)
    BY <2>2 DEF LookedUp, Inv, TypeOK
  <2>3. CASE Arrive(q) \/ LookupFails(q) \/ Used(q) \/ UseFails(q)
    BY <2>3 DEF Arrive, LookupFails, Used, UseFails
  <2>4. QED
    BY <1>3, <2>1, <2>2, <2>3 DEF Advance
<1>4. QED
  BY <1>1, <1>2, <1>3 DEF Next

\* Requests that wait share the promise that will be settled, and what one of them got
\* stays for all others until the process stops, whatever fails meanwhile.
THEOREM AllHaveTheSameClients == Spec => ClientsAreShared
<1>1. Inv => WaitersShareAPromise
  BY DEF Inv
<1>2. Inv /\ [Next]_vars =>
        [process' # "down" =>
           /\ known \subseteq known'
           /\ \A c \in Clients : client[c] = "ready" => client'[c] = "ready"]_vars
  BY StepTakesNothingBack
<1>3. QED
  BY <1>1, <1>2, InvCorrect, PTL DEF Spec, ClientsAreShared, NothingIsTakenBack

\* A rejected promise was spoiled, and a caller that fails with it shares its record or
\* has met the outage itself.
LEMMA StepIsExcused ==
  ASSUME Inv, [Next]_vars, NEW q \in Requests, request[q] # "failed", request'[q] = "failed"
  PROVE  IF request[q] = "using" THEN UseIsExcused(q)' ELSE ClientIsExcused(q)'
<1>1. CASE \E c \in Promised : Connect(c)
  <2>1. PICK c \in Promised : Rejected(c) /\ q \in Callers(c)
    BY <1>1 DEF Connect, ReadSecret, Connected, Rejected, Settle, calls
  <2>2. /\ UNCHANGED <<reachable, spoiled, route, at, found, missed>>
        /\ request[q] = "waiting" /\ Wants(q) = c /\ client[c] = "connecting"
    BY <2>1 DEF Rejected, Settle, Callers
  <2>3. spoiled[c] # {}
    BY <2>1, <2>2, ClientNames DEF Rejected, Inv, OutagesAreRecorded
  <2>4. found[q] # "ready" /\ Wants(q)' = c
    BY <2>2, SameOperation DEF Inv, OutagesAreRecorded
  <2>5. QED
    BY <2>2, <2>3, <2>4 DEF ClientIsExcused
<1>2. CASE Begin(q)
  <2>1. client[Wants(q)] = "rejected"
    BY <1>2 DEF Begin, Inv, TypeOK
  <2>2. Wants(q) \in Promised
    BY <2>1, RequestOperation DEF Inv, ClientsBelongToProcess
  <2>3. spoiled[Wants(q)] # {} /\ UNCHANGED spoiled /\ found'[q] = "rejected"
    BY <1>2, <2>1, <2>2 DEF Begin, Inv, TypeOK, OutagesAreRecorded
  <2>4. Wants(q)' = Wants(q) /\ request[q] # "using"
    BY <1>2, SameOperation DEF Begin
  <2>5. QED
    BY <2>2, <2>3, <2>4 DEF ClientIsExcused
<1>3. CASE LookupFails(q)
  <2>1. "vault" \in Concerns(q, found[q])
    BY <1>3, RequestOperation, ClientNames DEF LookupFails, Inv, OutagesAreRecorded, Concerns
  <2>2. "vault" \in missed[q] \cap Sources(Wants(q))
    BY <1>3, <2>1, RequestOperation, ClientNames
    DEF LookupFails, Inv, OutagesAreRecorded, Running
  <2>3. UNCHANGED missed /\ Wants(q)' = Wants(q) /\ request[q] = "waiting"
    BY <1>3, SameOperation DEF LookupFails
  <2>4. QED
    BY <2>2, <2>3 DEF ClientIsExcused, Sources
<1>4. CASE UseFails(q)
  <2>1. ServiceOf[Operation(q)] \in Service(q) \ reachable
    BY <1>4 DEF UseFails, Service
  <2>2. missed[q] \cap Service(q) # {}
    BY <1>4, <2>1 DEF UseFails, Inv, OutagesAreRecorded, Running, Concerns
  <2>3. UNCHANGED missed /\ Service(q)' = Service(q) /\ request[q] = "using"
    BY <1>4, SameOperation DEF UseFails
  <2>4. QED
    BY <2>2, <2>3 DEF UseIsExcused
<1>5. ASSUME NEW o \in Requests, Arrive(o) \/ Advance(o), ~Begin(q), ~LookupFails(q), ~UseFails(q)
      PROVE  request'[q] = request[q] \/ request'[q] # "failed"
  BY <1>5 DEF Advance, Arrive, Begin, LookedUp, LookupFails, Used, UseFails, Inv, TypeOK
<1>6. CASE \/ Start \/ TelemetryDone \/ PoolMade \/ Stop
           \/ \E b \in Backends : Outage(b) \/ Recovery(b)
           \/ UNCHANGED vars
  <2>1. request'[q] = request[q] \/ request'[q] # "failed"
    BY <1>6 DEF Start, TelemetryDone, PoolMade, Stop, Outage, Recovery, vars, calls
  <2>2. QED
    BY <2>1
<1>7. QED
  BY <1>1, <1>2, <1>3, <1>4, <1>5, <1>6 DEF Next

\* Nothing but an outage makes a request fail: of its operation's service, of what its
\* missing client is made from, or of what the promise it shares was made from.
THEOREM FailuresHaveAnExcuse == Spec => FailuresAreExcused
<1>1. Inv /\ [Next]_vars =>
        [\A q \in Requests : request[q] # "failed" /\ request'[q] = "failed" =>
           IF request[q] = "using" THEN UseIsExcused(q)' ELSE ClientIsExcused(q)']_vars
  BY StepIsExcused
<1>2. QED
  BY <1>1, InvCorrect, PTL DEF Spec, FailuresAreExcused
=============================================================================
