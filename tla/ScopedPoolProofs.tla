-------------------------- MODULE ScopedPoolProofs --------------------------
(***************************************************************************)
(* That the pool keeps accounts apart, for any number of requests,         *)
(* accounts, clients and tables.                                           *)
(*                                                                         *)
(* Inv is inductive.  Isolation rests on WorkIsScoped: a statement runs on *)
(* a client that names its own account, which another request cannot       *)
(* change because the client is not shared (PoolIsWhole).  That a client   *)
(* goes back clean rests on every way out of a transaction resetting it    *)
(* (HeldClientsAreClean), and ExportIsWhole on what an export has read so  *)
(* far being between what stayed and what came (ExportSoFar).              *)
(*                                                                         *)
(* Its other two parts are for the contract and the waiting: an insert     *)
(* keeps its account until it commits (LocksKeepAccount), and whoever      *)
(* waits for a client is in the queue once (QueueIsOfWaiting).             *)
(***************************************************************************)
EXTENDS ScopedPool, TLAPS

USE UserAssumption, NoneAssumption

\* Every route has one to three units of work.
LEMMA RouteLengths ==
  /\ "ready" \in DOMAIN Routes
  /\ \A name \in DOMAIN Routes :
       /\ Len(Routes[name]) \in 1..3
       /\ DOMAIN Routes[name] = 1..Len(Routes[name])
BY DEF Routes

\* An export is the last unit of its route.
LEMMA ExportIsLast ==
  \A name \in DOMAIN Routes : \A k \in DOMAIN Routes[name] :
    Routes[name][k] = "export" => k = Len(Routes[name])
<1> SUFFICES ASSUME NEW name \in DOMAIN Routes, NEW k \in DOMAIN Routes[name],
                    Routes[name][k] = "export"
             PROVE  k = Len(Routes[name])
  OBVIOUS
<1>1. CASE name = "export"
  BY <1>1 DEF Routes
<1>2. CASE name = "ready"
  BY <1>2 DEF Routes
<1>3. CASE name = "extract"
  BY <1>3 DEF Routes
<1>4. CASE name \in {"content", "deleteAccount", "upload"}
  <2>1. Routes[name] \in {<<"exists", "lookup">>, <<"exists", "erase">>, <<"exists", "store">>}
    BY <1>4 DEF Routes
  <2>2. QED
    BY <2>1
<1>5. QED
  BY <1>1, <1>2, <1>3, <1>4 DEF Routes

\* The export has a statement for each table that references users.
LEMMA ExportTables ==
  /\ Len(ExportOrder) = 10
  /\ \A t \in ChildTables : \E i \in 1..10 : ExportOrder[i] = t
  /\ "users" \notin ChildTables
<1>1. Len(ExportOrder) = 10
  BY DEF ExportOrder
<1>2. /\ ExportOrder[1] = "auth_identities" /\ ExportOrder[2] = "user_profiles"
      /\ ExportOrder[3] = "resumes" /\ ExportOrder[4] = "resume_extractions"
      /\ ExportOrder[5] = "vacancies" /\ ExportOrder[6] = "vacancy_scores"
      /\ ExportOrder[7] = "tailored_documents" /\ ExportOrder[8] = "applications"
      /\ ExportOrder[9] = "application_events" /\ ExportOrder[10] = "llm_usage_logs"
  BY DEF ExportOrder
<1>3. \A t \in ChildTables : \E i \in 1..10 : ExportOrder[i] = t
  BY <1>2 DEF ChildTables
<1>4. QED
  BY <1>1, <1>3 DEF ChildTables

\* One account's rows of one table.
LEMMA RowOfTable ==
  ASSUME TypeOK, NEW t, NEW u \in Users
  PROVE  rows \cap {<<t, u>>} = {row \in RowsOf(u) : row[1] = t}
<1>1. \A row \in rows : row = <<row[1], row[2]>>
  BY DEF TypeOK, Rows
<1>2. QED
  BY <1>1 DEF RowsOf

\* A statement on one row of the request's own account finds it if it is there.
LEMMA OwnRowIsVisible ==
  ASSUME TypeOK, WorkIsScoped, NEW r \in Requests, pc[r] = "work", NEW t
  PROVE  Select(r, {<<t, UserOf[r]>>}) = rows \cap {<<t, UserOf[r]>>}
<1>1. CurrentUser(client[r]) = UserOf[r]
  BY DEF WorkIsScoped, CurrentUser
<1>2. QED
  BY <1>1 DEF Select, Policy

\* Whatever it asks for, it finds rows of the request's own account only.
LEMMA OnlyOwnRows ==
  ASSUME TypeOK, WorkIsScoped, NEW r \in Requests, pc[r] = "work", NEW wanted
  PROVE  /\ Select(r, wanted) \subseteq rows
         /\ \A row \in Select(r, wanted) : row[2] = UserOf[r]
<1>1. CurrentUser(client[r]) = UserOf[r]
  BY DEF WorkIsScoped, CurrentUser
<1>2. QED
  BY <1>1 DEF Select, Policy

\* At the start every client is idle and nothing is held, read or written.
LEMMA InitPool == Init => PoolInv
<1> SUFFICES ASSUME Init PROVE PoolInv
  OBVIOUS
<1>1. TypeOK
  BY RouteLengths, ExportTables DEF Init, TypeOK, Rows, Tables, Routes
<1>2. PoolIsWhole /\ Isolation
  BY DEF Init, PoolIsWhole, Isolation, Holding
<1>3. IdleClientsAreClean /\ WorkIsScoped /\ HeldClientsAreClean
  BY DEF Init, IdleClientsAreClean, WorkIsScoped, HeldClientsAreClean, CurrentUser
<1>4. StepsAreOfUnit /\ ExportSoFar
  BY DEF Init, StepsAreOfUnit, ExportSoFar
<1>5. QED
  BY <1>1, <1>2, <1>3, <1>4 DEF PoolInv

\* Every step preserves the pool's part of the invariant, conjunct by conjunct.
LEMMA NextPool == PoolInv /\ [Next]_vars => PoolInv'
<1> SUFFICES ASSUME TypeOK, PoolIsWhole, Isolation, IdleClientsAreClean, WorkIsScoped,
                    HeldClientsAreClean, StepsAreOfUnit, ExportSoFar, [Next]_vars
             PROVE  PoolInv'
  BY DEF PoolInv
<1> USE DEF control, pool, session, writes, results
<1>1. ASSUME NEW r \in Requests, Arrive(r) PROVE PoolInv'
  <2>1. Isolation' /\ IdleClientsAreClean'
    BY <1>1 DEF Arrive, At, Isolation, IdleClientsAreClean, CurrentUser
  <2>2. TypeOK'
    <3>1. \A name \in DOMAIN Routes : 1 \in DOMAIN Routes[name]
      BY RouteLengths
    <3>2. Offered[r] \subseteq DOMAIN Routes
      BY OfferAssumption
    <3>3. QED
      BY <1>1, <3>1, <3>2 DEF Arrive, At, TypeOK, Holding
  <2>3. PoolIsWhole'
    BY <1>1 DEF Arrive, At, TypeOK, PoolIsWhole, Holding
  <2>4. WorkIsScoped'
    BY <1>1 DEF Arrive, At, TypeOK, WorkIsScoped, PoolIsWhole, Holding
  <2>5. HeldClientsAreClean'
    BY <1>1 DEF Arrive, At, TypeOK, PoolIsWhole, IdleClientsAreClean, HeldClientsAreClean,
       CurrentUser, Holding
  <2>6. StepsAreOfUnit'
    BY <1>1 DEF Arrive, At, TypeOK, StepsAreOfUnit, Job
  <2>7. ExportSoFar'
    BY <1>1 DEF Arrive, At, TypeOK, StepsAreOfUnit, ExportSoFar, Job, RowsOf, ReadSoFar
  <2>8. QED
    BY <2>1, <2>2, <2>3, <2>4, <2>5, <2>6, <2>7 DEF PoolInv
<1>2. ASSUME NEW r \in Requests, Ask(r) PROVE PoolInv'
  <2>1. Isolation' /\ IdleClientsAreClean'
    BY <1>2 DEF Ask, At, Isolation, IdleClientsAreClean, CurrentUser
  <2>2. TypeOK'
    BY <1>2 DEF Ask, At, TypeOK, Holding
  <2>3. PoolIsWhole'
    BY <1>2 DEF Ask, At, TypeOK, PoolIsWhole, Holding
  <2>4. WorkIsScoped'
    BY <1>2 DEF Ask, At, TypeOK, WorkIsScoped, PoolIsWhole, Holding
  <2>5. HeldClientsAreClean'
    BY <1>2 DEF Ask, At, TypeOK, PoolIsWhole, IdleClientsAreClean, HeldClientsAreClean,
       CurrentUser, Holding
  <2>6. StepsAreOfUnit'
    BY <1>2 DEF Ask, At, TypeOK, StepsAreOfUnit, Job
  <2>7. ExportSoFar'
    BY <1>2 DEF Ask, At, TypeOK, StepsAreOfUnit, ExportSoFar, Job, RowsOf, ReadSoFar
  <2>8. QED
    BY <2>1, <2>2, <2>3, <2>4, <2>5, <2>6, <2>7 DEF PoolInv
<1>3. ASSUME NEW r \in Requests, Grant(r) PROVE PoolInv'
  <2>1. Isolation'
    BY <1>3 DEF Grant, At, Isolation
  <2>2. TypeOK'
    BY <1>3 DEF Grant, At, TypeOK, Holding
  <2>3. PoolIsWhole'
    <3>1. PICK c \in idle : client' = [client EXCEPT ![r] = c] /\ idle' = idle \ {c}
      BY <1>3 DEF Grant
    <3>2. c \in Clients /\ c # None /\ \A s \in Requests : client[s] # c
      BY <3>1 DEF TypeOK, PoolIsWhole
    <3>3. client[r] = None /\ pc'[r] \in Holding /\ \A s \in Requests \ {r} : pc'[s] = pc[s]
      BY <1>3 DEF Grant, At, TypeOK, PoolIsWhole, Holding
    <3>4. client'[r] = c /\ \A s \in Requests \ {r} : client'[s] = client[s]
      BY <3>1 DEF TypeOK
    <3>5. \A s \in Requests : client'[s] # None <=> pc'[s] \in Holding
      BY <3>2, <3>3, <3>4 DEF PoolIsWhole
    <3>6. \A d \in Clients : d \notin idle' <=> \E s \in Requests : client'[s] = d
      BY <3>1, <3>2, <3>3, <3>4 DEF PoolIsWhole
    <3>7. \A s, t \in Requests : client'[s] = client'[t] /\ client'[s] # None => s = t
      BY <3>2, <3>4 DEF PoolIsWhole
    <3>8. QED
      BY <3>5, <3>6, <3>7 DEF PoolIsWhole
  <2>4. IdleClientsAreClean'
    BY <1>3 DEF Grant, At, TypeOK, PoolIsWhole, IdleClientsAreClean, HeldClientsAreClean,
       CurrentUser, Holding
  <2>5. WorkIsScoped'
    BY <1>3 DEF Grant, At, TypeOK, WorkIsScoped, PoolIsWhole, Holding
  <2>6. HeldClientsAreClean'
    BY <1>3 DEF Grant, At, TypeOK, PoolIsWhole, IdleClientsAreClean, HeldClientsAreClean,
       CurrentUser, Holding
  <2>7. StepsAreOfUnit'
    BY <1>3 DEF Grant, At, TypeOK, StepsAreOfUnit, Job
  <2>8. ExportSoFar'
    BY <1>3 DEF Grant, At, TypeOK, StepsAreOfUnit, ExportSoFar, Job, RowsOf, ReadSoFar
  <2>9. QED
    BY <2>1, <2>2, <2>3, <2>4, <2>5, <2>6, <2>7, <2>8 DEF PoolInv
<1>4. ASSUME NEW r \in Requests, ConnectFails(r) PROVE PoolInv'
  <2>1. IdleClientsAreClean'
    BY <1>4 DEF ConnectFails, End, At, IdleClientsAreClean, CurrentUser
  <2>2. TypeOK'
    <3>1. 1 \in DOMAIN Routes["ready"] /\ "ready" \in DOMAIN Routes
      BY RouteLengths
    <3>2. QED
      BY <1>4, <3>1 DEF ConnectFails, End, At, TypeOK, Holding
  <2>3. PoolIsWhole'
    BY <1>4 DEF ConnectFails, End, At, TypeOK, PoolIsWhole, Holding
  <2>4. Isolation'
    BY <1>4 DEF ConnectFails, End, At, TypeOK, Isolation
  <2>5. WorkIsScoped'
    BY <1>4 DEF ConnectFails, End, At, TypeOK, WorkIsScoped, PoolIsWhole, Holding
  <2>6. HeldClientsAreClean'
    BY <1>4 DEF ConnectFails, End, At, TypeOK, PoolIsWhole, IdleClientsAreClean,
       HeldClientsAreClean, CurrentUser, Holding
  <2>7. StepsAreOfUnit'
    BY <1>4 DEF ConnectFails, End, At, TypeOK, StepsAreOfUnit, Job
  <2>8. ExportSoFar'
    BY <1>4 DEF ConnectFails, End, At, TypeOK, StepsAreOfUnit, ExportSoFar, Job, RowsOf, ReadSoFar
  <2>9. QED
    BY <2>1, <2>2, <2>3, <2>4, <2>5, <2>6, <2>7, <2>8 DEF PoolInv
<1>5. ASSUME NEW r \in Requests, HandlerThrows(r) PROVE PoolInv'
  <2>1. IdleClientsAreClean'
    BY <1>5 DEF HandlerThrows, End, At, IdleClientsAreClean, CurrentUser
  <2>2. TypeOK'
    <3>1. 1 \in DOMAIN Routes["ready"] /\ "ready" \in DOMAIN Routes
      BY RouteLengths
    <3>2. QED
      BY <1>5, <3>1 DEF HandlerThrows, End, At, TypeOK, Holding
  <2>3. PoolIsWhole'
    BY <1>5 DEF HandlerThrows, End, At, TypeOK, PoolIsWhole, Holding
  <2>4. Isolation'
    BY <1>5 DEF HandlerThrows, End, At, TypeOK, Isolation
  <2>5. WorkIsScoped'
    BY <1>5 DEF HandlerThrows, End, At, TypeOK, WorkIsScoped, PoolIsWhole, Holding
  <2>6. HeldClientsAreClean'
    BY <1>5 DEF HandlerThrows, End, At, TypeOK, PoolIsWhole, IdleClientsAreClean,
       HeldClientsAreClean, CurrentUser, Holding
  <2>7. StepsAreOfUnit'
    BY <1>5 DEF HandlerThrows, End, At, TypeOK, StepsAreOfUnit, Job
  <2>8. ExportSoFar'
    BY <1>5 DEF HandlerThrows, End, At, TypeOK, StepsAreOfUnit, ExportSoFar, Job, RowsOf, ReadSoFar
  <2>9. QED
    BY <2>1, <2>2, <2>3, <2>4, <2>5, <2>6, <2>7, <2>8 DEF PoolInv
<1>6. ASSUME NEW r \in Requests, Release(r) PROVE PoolInv'
  <2>1. TypeOK'
    <3>0. GiveBack(r) /\ UNCHANGED <<waiting, session, rows, writes>>
      BY <1>6 DEF Release
    <3>1. client[r] \in Clients
      BY <1>6 DEF Release, End, NextUnit, At, TypeOK, PoolIsWhole, Holding
    <3>2. CASE End(r, "release")
      <4>1. 1 \in DOMAIN Routes["ready"] /\ "ready" \in DOMAIN Routes
        BY RouteLengths
      <4>2. QED
        BY <3>0, <3>1, <3>2, <4>1 DEF GiveBack, End, At, TypeOK, Holding
    <3>3. CASE NextUnit(r) /\ unit[r] < Len(Routes[route[r]])
      <4>1. unit[r] + 1 \in DOMAIN Routes[route[r]] /\ unit[r] + 1 \in 1..3
        <5>1. /\ Len(Routes[route[r]]) \in 1..3
              /\ DOMAIN Routes[route[r]] = 1..Len(Routes[route[r]])
          BY RouteLengths DEF TypeOK
        <5>2. unit \in [Requests -> 1..3]
          BY Zenon DEF TypeOK
        <5>3. unit[r] \in 1..3 /\ unit[r] < Len(Routes[route[r]])
          BY <3>3, <5>2
        <5>4. \A n \in 1..3 : unit[r] < n => unit[r] + 1 \in 1..n /\ unit[r] + 1 \in 1..3
          BY <5>3
        <5>5. QED
          BY <5>1, <5>3, <5>4, Zenon
      <4>2. QED
        BY <3>0, <3>1, <3>3, <4>1 DEF GiveBack, NextUnit, At, TypeOK, Holding
    <3>4. QED
      BY <1>6, <3>2, <3>3 DEF Release
  <2>2. PoolIsWhole'
    BY <1>6 DEF Release, End, NextUnit, At, GiveBack, TypeOK, PoolIsWhole, Holding
  <2>3. Isolation'
    BY <1>6 DEF Release, End, NextUnit, At, GiveBack, TypeOK, Isolation
  <2>4. IdleClientsAreClean'
    BY <1>6 DEF Release, End, NextUnit, At, GiveBack, TypeOK, PoolIsWhole, IdleClientsAreClean,
       HeldClientsAreClean, CurrentUser, Holding
  <2>5. WorkIsScoped'
    BY <1>6 DEF Release, End, NextUnit, At, GiveBack, TypeOK, WorkIsScoped, PoolIsWhole, Holding
  <2>6. HeldClientsAreClean'
    BY <1>6 DEF Release, End, NextUnit, At, GiveBack, TypeOK, PoolIsWhole, IdleClientsAreClean,
       HeldClientsAreClean, CurrentUser, Holding
  <2>7. StepsAreOfUnit'
    <3>1. pc'[r] \in {"asking", "done"} /\ reads'[r] = 0
      <4>1. CASE End(r, "release")
        BY <4>1 DEF End, At, TypeOK
      <4>2. CASE NextUnit(r) /\ unit[r] < Len(Routes[route[r]])
        <5>1. Job(r) # "export"
          BY <4>2, ExportIsLast DEF TypeOK, Job
        <5>2. reads[r] = 0
          <6>1. reads[r] \in 0..11
            BY ExportTables DEF TypeOK
          <6>2. QED
            BY <5>1, <6>1 DEF StepsAreOfUnit
        <5>3. QED
          BY <4>2, <5>2 DEF NextUnit, At, TypeOK
      <4>3. QED
        BY <1>6, <4>1, <4>2 DEF Release
    <3>2. \A s \in Requests \ {r} : pc'[s] = pc[s] /\ Job(s)' = Job(s) /\ reads'[s] = reads[s]
      BY <1>6 DEF Release, End, NextUnit, At, TypeOK, Job
    <3>3. QED
      BY <3>1, <3>2 DEF StepsAreOfUnit
  <2>8. ExportSoFar'
    <3>1. pc'[r] \in {"asking", "done"} /\ rows' = rows
      BY <1>6 DEF Release, End, NextUnit, At, TypeOK
    <3>2. ASSUME NEW s \in Requests \ {r}
          PROVE  /\ pc'[s] = pc[s] /\ Job(s)' = Job(s) /\ reads'[s] = reads[s]
                 /\ seen'[s] = seen[s] /\ stayed'[s] = stayed[s] /\ came'[s] = came[s]
      BY <1>6 DEF Release, End, NextUnit, At, TypeOK, Job
    <3>3. QED
      BY <2>7, <3>1, <3>2 DEF ExportSoFar, StepsAreOfUnit, RowsOf, ReadSoFar
  <2>9. QED
    BY <2>1, <2>2, <2>3, <2>4, <2>5, <2>6, <2>7, <2>8 DEF PoolInv
<1>7. ASSUME NEW r \in Requests, Abandon(r) PROVE PoolInv'
  <2>1. TypeOK'
    <3>1. 1 \in DOMAIN Routes["ready"] /\ "ready" \in DOMAIN Routes
      BY RouteLengths
    <3>2. QED
      BY <1>7, <3>1 DEF Abandon, End, At, GiveBack, PoolIsWhole, TypeOK, Holding
  <2>2. PoolIsWhole'
    BY <1>7 DEF Abandon, End, At, GiveBack, TypeOK, PoolIsWhole, Holding
  <2>3. Isolation'
    BY <1>7 DEF Abandon, End, At, GiveBack, TypeOK, Isolation
  <2>4. IdleClientsAreClean'
    BY <1>7 DEF Abandon, End, At, GiveBack, TypeOK, PoolIsWhole, IdleClientsAreClean,
       HeldClientsAreClean, CurrentUser, Holding
  <2>5. WorkIsScoped'
    BY <1>7 DEF Abandon, End, At, GiveBack, TypeOK, WorkIsScoped, PoolIsWhole, Holding
  <2>6. HeldClientsAreClean'
    BY <1>7 DEF Abandon, End, At, GiveBack, TypeOK, PoolIsWhole, IdleClientsAreClean,
       HeldClientsAreClean, CurrentUser, Holding
  <2>7. StepsAreOfUnit'
    BY <1>7 DEF Abandon, End, At, GiveBack, TypeOK, StepsAreOfUnit, Job
  <2>8. ExportSoFar'
    BY <1>7 DEF Abandon, End, At, GiveBack, TypeOK, StepsAreOfUnit, ExportSoFar, Job, RowsOf,
       ReadSoFar
  <2>9. QED
    BY <2>1, <2>2, <2>3, <2>4, <2>5, <2>6, <2>7, <2>8 DEF PoolInv
<1>8. ASSUME NEW r \in Requests, Begin(r) PROVE PoolInv'
  <2>1. Isolation'
    BY <1>8 DEF Begin, At, Isolation
  <2>2. TypeOK'
    BY <1>8 DEF Begin, At, TypeOK, Holding
  <2>3. PoolIsWhole'
    BY <1>8 DEF Begin, At, TypeOK, PoolIsWhole, Holding
  <2>4. IdleClientsAreClean'
    BY <1>8 DEF Begin, At, TypeOK, PoolIsWhole, IdleClientsAreClean, HeldClientsAreClean,
       CurrentUser, Holding
  <2>5. WorkIsScoped'
    BY <1>8 DEF Begin, At, TypeOK, WorkIsScoped, PoolIsWhole, Holding
  <2>6. HeldClientsAreClean'
    BY <1>8 DEF Begin, At, TypeOK, PoolIsWhole, IdleClientsAreClean, HeldClientsAreClean,
       CurrentUser, Holding
  <2>7. StepsAreOfUnit'
    BY <1>8 DEF Begin, At, TypeOK, StepsAreOfUnit, Job
  <2>8. ExportSoFar'
    BY <1>8 DEF Begin, At, TypeOK, StepsAreOfUnit, ExportSoFar, Job, RowsOf, ReadSoFar
  <2>9. QED
    BY <2>1, <2>2, <2>3, <2>4, <2>5, <2>6, <2>7, <2>8 DEF PoolInv
<1>9. ASSUME NEW r \in Requests, SetUser(r) PROVE PoolInv'
  <2>1. Isolation'
    BY <1>9 DEF SetUser, At, Isolation
  <2>2. TypeOK'
    BY <1>9 DEF SetUser, At, TypeOK, Holding
  <2>3. PoolIsWhole'
    BY <1>9 DEF SetUser, At, TypeOK, PoolIsWhole, Holding
  <2>4. IdleClientsAreClean'
    BY <1>9 DEF SetUser, At, TypeOK, PoolIsWhole, IdleClientsAreClean, HeldClientsAreClean,
       CurrentUser, Holding
  <2>5. WorkIsScoped'
    BY <1>9 DEF SetUser, At, TypeOK, WorkIsScoped, PoolIsWhole, Holding
  <2>6. HeldClientsAreClean'
    BY <1>9 DEF SetUser, At, TypeOK, PoolIsWhole, IdleClientsAreClean, HeldClientsAreClean,
       CurrentUser, Holding
  <2>7. StepsAreOfUnit'
    BY <1>9 DEF SetUser, At, TypeOK, StepsAreOfUnit, Job
  <2>8. ExportSoFar'
    BY <1>9 DEF SetUser, At, TypeOK, StepsAreOfUnit, ExportSoFar, Job, RowsOf, ReadSoFar
  <2>9. QED
    BY <2>1, <2>2, <2>3, <2>4, <2>5, <2>6, <2>7, <2>8 DEF PoolInv
<1>10. ASSUME NEW r \in Requests, Exists(r) PROVE PoolInv'
  <2>1. IdleClientsAreClean'
    BY <1>10 DEF Exists, At, IdleClientsAreClean, CurrentUser
  <2>2. TypeOK'
    <3>1. pc[r] = "work"
      BY <1>10 DEF Exists, At
    <3>2. QED
      BY <1>10, <3>1, OnlyOwnRows DEF Exists, At, TypeOK, Holding
  <2>3. PoolIsWhole'
    BY <1>10 DEF Exists, At, TypeOK, PoolIsWhole, Holding
  <2>4. Isolation'
    <3>1. pc[r] = "work"
      BY <1>10 DEF Exists, At
    <3>2. QED
      BY <1>10, <3>1, OnlyOwnRows DEF Exists, At, TypeOK, Isolation
  <2>5. WorkIsScoped'
    BY <1>10 DEF Exists, At, TypeOK, WorkIsScoped, PoolIsWhole, Holding
  <2>6. HeldClientsAreClean'
    BY <1>10 DEF Exists, At, TypeOK, PoolIsWhole, IdleClientsAreClean, HeldClientsAreClean,
       CurrentUser, Holding
  <2>7. StepsAreOfUnit'
    BY <1>10 DEF Exists, At, TypeOK, StepsAreOfUnit, Job
  <2>8. ExportSoFar'
    BY <1>10 DEF Exists, At, TypeOK, StepsAreOfUnit, ExportSoFar, Job, RowsOf, ReadSoFar
  <2>9. QED
    BY <2>1, <2>2, <2>3, <2>4, <2>5, <2>6, <2>7, <2>8 DEF PoolInv
<1>11. ASSUME NEW r \in Requests, Lookup(r) PROVE PoolInv'
  <2>1. IdleClientsAreClean'
    BY <1>11 DEF Lookup, At, IdleClientsAreClean, CurrentUser
  <2>2. TypeOK'
    <3>1. PICK row : seen' = [seen EXCEPT ![r] = Select(r, {row})]
      BY <1>11 DEF Lookup
    <3>2. Select(r, {row}) \subseteq rows
      BY <1>11, OnlyOwnRows DEF Lookup, At
    <3>3. QED
      BY <1>11, <3>1, <3>2 DEF Lookup, At, TypeOK, Holding
  <2>3. PoolIsWhole'
    BY <1>11 DEF Lookup, At, TypeOK, PoolIsWhole, Holding
  <2>4. Isolation'
    <3>1. pc[r] = "work"
      BY <1>11 DEF Lookup, At
    <3>2. QED
      BY <1>11, <3>1, OnlyOwnRows DEF Lookup, At, TypeOK, Isolation
  <2>5. WorkIsScoped'
    BY <1>11 DEF Lookup, At, TypeOK, WorkIsScoped, PoolIsWhole, Holding
  <2>6. HeldClientsAreClean'
    BY <1>11 DEF Lookup, At, TypeOK, PoolIsWhole, IdleClientsAreClean, HeldClientsAreClean,
       CurrentUser, Holding
  <2>7. StepsAreOfUnit'
    BY <1>11 DEF Lookup, At, TypeOK, StepsAreOfUnit, Job
  <2>8. ExportSoFar'
    BY <1>11 DEF Lookup, At, TypeOK, StepsAreOfUnit, ExportSoFar, Job, RowsOf, ReadSoFar
  <2>9. QED
    BY <2>1, <2>2, <2>3, <2>4, <2>5, <2>6, <2>7, <2>8 DEF PoolInv
<1>12. ASSUME NEW r \in Requests, ExportAccount(r) PROVE PoolInv'
  <2>1. IdleClientsAreClean'
    BY <1>12 DEF ExportAccount, IdleClientsAreClean, CurrentUser
  <2>2. TypeOK'
    <3>1. pc[r] = "work" /\ Len(ExportOrder) = 10
      BY <1>12, ExportTables DEF ExportAccount
    <3>2. RowsOf(UserOf[r]) \subseteq Rows
      BY DEF TypeOK, RowsOf
    <3>3. QED
      BY <1>12, <3>1, <3>2, OnlyOwnRows DEF ExportAccount, TypeOK, Holding
  <2>3. PoolIsWhole'
    BY <1>12 DEF ExportAccount, TypeOK, PoolIsWhole, Holding
  <2>4. Isolation'
    <3>1. pc[r] = "work"
      BY <1>12 DEF ExportAccount
    <3>2. QED
      BY <1>12, <3>1, OnlyOwnRows DEF ExportAccount, TypeOK, Isolation
  <2>5. WorkIsScoped'
    BY <1>12 DEF ExportAccount, TypeOK, WorkIsScoped, PoolIsWhole, Holding
  <2>6. HeldClientsAreClean'
    BY <1>12 DEF ExportAccount, TypeOK, PoolIsWhole, IdleClientsAreClean, HeldClientsAreClean,
       CurrentUser, Holding
  <2>7. StepsAreOfUnit'
    BY <1>12 DEF ExportAccount, TypeOK, StepsAreOfUnit, Job
  <2>8. ExportSoFar'
    <3>1. ASSUME NEW s \in Requests \ {r}
          PROVE  /\ pc'[s] = pc[s] /\ Job(s)' = Job(s) /\ reads'[s] = reads[s]
                 /\ seen'[s] = seen[s] /\ stayed'[s] = stayed[s] /\ came'[s] = came[s]
      BY <1>12 DEF ExportAccount, TypeOK, Job
    <3>2. rows' = rows /\ Job(r)' = Job(r) /\ pc'[r] \in {"work", "rollback"}
      BY <1>12 DEF ExportAccount, TypeOK, Job
    <3>3. /\ reads'[r] = 1 /\ seen'[r] = Select(r, {<<"users", UserOf[r]>>})
          /\ stayed'[r] = RowsOf(UserOf[r]) /\ came'[r] = RowsOf(UserOf[r])
      BY <1>12 DEF ExportAccount, TypeOK
    <3>4. Select(r, {<<"users", UserOf[r]>>}) = rows \cap {<<"users", UserOf[r]>>}
      BY <1>12, OwnRowIsVisible DEF ExportAccount
    <3>5. seen'[r] = {row \in RowsOf(UserOf[r]) : row[1] = "users"}
      BY <3>3, <3>4, RowOfTable
    <3>6. ReadSoFar(r)' = {"users"}
      BY <3>3 DEF ReadSoFar
    <3>7. \A s \in Requests : RowsOf(UserOf[s])' = RowsOf(UserOf[s])
      BY <3>2 DEF RowsOf
    <3>8. \A s \in Requests \ {r} : ReadSoFar(s)' = ReadSoFar(s)
      BY <3>1 DEF ReadSoFar
    <3>9. QED
      BY <3>1, <3>2, <3>3, <3>5, <3>6, <3>7, <3>8 DEF ExportSoFar
  <2>9. QED
    BY <2>1, <2>2, <2>3, <2>4, <2>5, <2>6, <2>7, <2>8 DEF PoolInv
<1>13. ASSUME NEW r \in Requests, ExportTable(r) PROVE PoolInv'
  <2>1. /\ PoolIsWhole'
        /\ IdleClientsAreClean'
        /\ WorkIsScoped'
        /\ HeldClientsAreClean'
    BY <1>13 DEF ExportTable, PoolIsWhole, IdleClientsAreClean, WorkIsScoped,
       HeldClientsAreClean, CurrentUser
  <2>2. TypeOK'
    <3>1. pc[r] = "work" /\ Len(ExportOrder) = 10
      BY <1>13, ExportTables DEF ExportTable
    <3>2. QED
      BY <1>13, <3>1, OnlyOwnRows DEF ExportTable, TypeOK, Holding
  <2>3. Isolation'
    <3>1. pc[r] = "work"
      BY <1>13 DEF ExportTable
    <3>2. QED
      BY <1>13, <3>1, OnlyOwnRows DEF ExportTable, TypeOK, Isolation
  <2>4. StepsAreOfUnit'
    BY <1>13 DEF ExportTable, TypeOK, StepsAreOfUnit, Job
  <2>5. ExportSoFar'
    <3>1. ASSUME NEW s \in Requests \ {r}
          PROVE  /\ pc'[s] = pc[s] /\ Job(s)' = Job(s) /\ reads'[s] = reads[s]
                 /\ seen'[s] = seen[s] /\ stayed'[s] = stayed[s] /\ came'[s] = came[s]
      BY <1>13 DEF ExportTable, TypeOK, Job
    <3>2. rows' = rows /\ stayed' = stayed /\ came' = came /\ pc'[r] = "work"
      BY <1>13 DEF ExportTable
    <3> DEFINE t == ExportOrder[reads[r]]
    <3>3. /\ reads[r] \in 1..10 /\ reads'[r] = reads[r] + 1
          /\ seen'[r] = seen[r] \cup Select(r, {<<t, UserOf[r]>>})
      BY <1>13, ExportTables DEF ExportTable, TypeOK
    <3>4. Select(r, {<<t, UserOf[r]>>}) = rows \cap {<<t, UserOf[r]>>}
      BY <1>13, OwnRowIsVisible DEF ExportTable
    <3>5. Select(r, {<<t, UserOf[r]>>}) = {row \in RowsOf(UserOf[r]) : row[1] = t}
      BY <3>4, RowOfTable
    <3> HIDE DEF t
    <3>6. ReadSoFar(r)' = ReadSoFar(r) \cup {t}
      BY <3>3 DEF ReadSoFar, t
    <3>7. \A s \in Requests : RowsOf(UserOf[s])' = RowsOf(UserOf[s])
      BY <3>2 DEF RowsOf
    <3>8. \A s \in Requests \ {r} : ReadSoFar(s)' = ReadSoFar(s)
      BY <3>1 DEF ReadSoFar
    <3>9. /\ stayed[r] \subseteq RowsOf(UserOf[r]) /\ RowsOf(UserOf[r]) \subseteq came[r]
          /\ seen[r] \subseteq came[r]
          /\ {row \in stayed[r] : row[1] \in ReadSoFar(r)} \subseteq seen[r]
      BY <3>3 DEF ExportSoFar
    <3>10. /\ seen'[r] \subseteq came[r]
           /\ {row \in stayed[r] : row[1] \in ReadSoFar(r)'} \subseteq seen'[r]
      BY <3>3, <3>5, <3>6, <3>9
    <3>11. ASSUME NEW s \in Requests \ {r}, reads'[s] > 0
           PROVE  /\ stayed'[s] \subseteq RowsOf(UserOf[s])' /\ RowsOf(UserOf[s])' \subseteq came'[s]
                  /\ seen'[s] \subseteq came'[s]
                  /\ {row \in stayed'[s] : row[1] \in ReadSoFar(s)'} \subseteq seen'[s]
      BY <3>1, <3>7, <3>8, <3>11 DEF ExportSoFar
    <3>12. \A s \in Requests : Job(s)' = "export" /\ pc'[s] \in {"commit", "release"} =>
             reads'[s] = Len(ExportOrder) + 1
      BY <3>1, <3>2 DEF ExportSoFar
    <3>13. QED
      BY <3>2, <3>7, <3>9, <3>10, <3>11, <3>12 DEF ExportSoFar
  <2>6. QED
    BY <2>1, <2>2, <2>3, <2>4, <2>5 DEF PoolInv
<1>14. ASSUME NEW r \in Requests, ExportDone(r) PROVE PoolInv'
  <2>1. Isolation' /\ IdleClientsAreClean'
    BY <1>14 DEF ExportDone, At, Isolation, IdleClientsAreClean, CurrentUser
  <2>2. TypeOK'
    BY <1>14 DEF ExportDone, At, TypeOK, Holding
  <2>3. PoolIsWhole'
    BY <1>14 DEF ExportDone, At, TypeOK, PoolIsWhole, Holding
  <2>4. WorkIsScoped'
    BY <1>14 DEF ExportDone, At, TypeOK, WorkIsScoped, PoolIsWhole, Holding
  <2>5. HeldClientsAreClean'
    BY <1>14 DEF ExportDone, At, TypeOK, PoolIsWhole, IdleClientsAreClean, HeldClientsAreClean,
       CurrentUser, Holding
  <2>6. StepsAreOfUnit'
    BY <1>14 DEF ExportDone, At, TypeOK, StepsAreOfUnit, Job
  <2>7. ExportSoFar'
    BY <1>14 DEF ExportDone, At, TypeOK, StepsAreOfUnit, ExportSoFar, Job, RowsOf, ReadSoFar
  <2>8. QED
    BY <2>1, <2>2, <2>3, <2>4, <2>5, <2>6, <2>7 DEF PoolInv
<1>15. ASSUME NEW r \in Requests, Store(r) PROVE PoolInv'
  <2>1. IdleClientsAreClean'
    BY <1>15 DEF Store, At, IdleClientsAreClean, CurrentUser
  <2>2. TypeOK'
    <3>1. \A t \in Stored : <<t, UserOf[r]>> \in Rows
      BY TableAssumption DEF Rows, Tables
    <3>2. QED
      BY <1>15, <3>1 DEF Store, At, TypeOK, Holding
  <2>3. PoolIsWhole'
    BY <1>15 DEF Store, At, TypeOK, PoolIsWhole, Holding
  <2>4. Isolation'
    BY <1>15 DEF Store, At, TypeOK, Isolation
  <2>5. WorkIsScoped'
    BY <1>15 DEF Store, At, TypeOK, WorkIsScoped, PoolIsWhole, Holding
  <2>6. HeldClientsAreClean'
    BY <1>15 DEF Store, At, TypeOK, PoolIsWhole, IdleClientsAreClean, HeldClientsAreClean,
       CurrentUser, Holding
  <2>7. StepsAreOfUnit'
    BY <1>15 DEF Store, At, TypeOK, StepsAreOfUnit, Job
  <2>8. ExportSoFar'
    BY <1>15 DEF Store, At, TypeOK, StepsAreOfUnit, ExportSoFar, Job, RowsOf, ReadSoFar
  <2>9. QED
    BY <2>1, <2>2, <2>3, <2>4, <2>5, <2>6, <2>7, <2>8 DEF PoolInv
<1>16. ASSUME NEW r \in Requests, StoreRefused(r) PROVE PoolInv'
  <2>1. Isolation' /\ IdleClientsAreClean'
    BY <1>16 DEF StoreRefused, At, Isolation, IdleClientsAreClean, CurrentUser
  <2>2. TypeOK'
    BY <1>16 DEF StoreRefused, At, TypeOK, Holding
  <2>3. PoolIsWhole'
    BY <1>16 DEF StoreRefused, At, TypeOK, PoolIsWhole, Holding
  <2>4. WorkIsScoped'
    BY <1>16 DEF StoreRefused, At, TypeOK, WorkIsScoped, PoolIsWhole, Holding
  <2>5. HeldClientsAreClean'
    BY <1>16 DEF StoreRefused, At, TypeOK, PoolIsWhole, IdleClientsAreClean,
       HeldClientsAreClean, CurrentUser, Holding
  <2>6. StepsAreOfUnit'
    BY <1>16 DEF StoreRefused, At, TypeOK, StepsAreOfUnit, Job
  <2>7. ExportSoFar'
    BY <1>16 DEF StoreRefused, At, TypeOK, StepsAreOfUnit, ExportSoFar, Job, RowsOf, ReadSoFar
  <2>8. QED
    BY <2>1, <2>2, <2>3, <2>4, <2>5, <2>6, <2>7 DEF PoolInv
<1>17. ASSUME NEW r \in Requests, Erase(r) PROVE PoolInv'
  <2>1. IdleClientsAreClean'
    BY <1>17 DEF Erase, At, IdleClientsAreClean, CurrentUser
  <2>2. TypeOK'
    <3>1. pc[r] = "work"
      BY <1>17 DEF Erase, At
    <3>2. QED
      BY <1>17, <3>1, OnlyOwnRows DEF Erase, At, TypeOK, Holding
  <2>3. PoolIsWhole'
    BY <1>17 DEF Erase, At, TypeOK, PoolIsWhole, Holding
  <2>4. Isolation'
    <3>1. pc[r] = "work"
      BY <1>17 DEF Erase, At
    <3>2. QED
      BY <1>17, <3>1, OnlyOwnRows DEF Erase, At, TypeOK, Isolation
  <2>5. WorkIsScoped'
    BY <1>17 DEF Erase, At, TypeOK, WorkIsScoped, PoolIsWhole, Holding
  <2>6. HeldClientsAreClean'
    BY <1>17 DEF Erase, At, TypeOK, PoolIsWhole, IdleClientsAreClean, HeldClientsAreClean,
       CurrentUser, Holding
  <2>7. StepsAreOfUnit'
    BY <1>17 DEF Erase, At, TypeOK, StepsAreOfUnit, Job
  <2>8. ExportSoFar'
    BY <1>17 DEF Erase, At, TypeOK, StepsAreOfUnit, ExportSoFar, Job, RowsOf, ReadSoFar
  <2>9. QED
    BY <2>1, <2>2, <2>3, <2>4, <2>5, <2>6, <2>7, <2>8 DEF PoolInv
<1>18. ASSUME NEW r \in Requests, Commit(r) PROVE PoolInv'
  <2>1. TypeOK'
    <3>1. Committed(r) \subseteq Rows
      BY DEF TypeOK, Committed
    <3>2. client[r] \in Clients /\ Reset(client[r]) \in Users \cup {None, Empty}
      BY <1>18 DEF Commit, CommitTo, At, TypeOK, PoolIsWhole, Holding, Reset
    <3>3. QED
      BY <1>18, <3>1, <3>2 DEF Commit, CommitTo, At, EndTransaction, TypeOK, Holding
  <2>2. PoolIsWhole'
    BY <1>18 DEF Commit, CommitTo, At, EndTransaction, TypeOK, PoolIsWhole, Holding
  <2>3. Isolation'
    BY <1>18 DEF Commit, CommitTo, At, EndTransaction, TypeOK, Isolation
  <2>4. IdleClientsAreClean'
    BY <1>18 DEF Commit, CommitTo, At, EndTransaction, TypeOK, PoolIsWhole, IdleClientsAreClean,
       HeldClientsAreClean, CurrentUser, Holding
  <2>5. WorkIsScoped'
    BY <1>18 DEF Commit, CommitTo, At, EndTransaction, TypeOK, WorkIsScoped, PoolIsWhole,
       Holding
  <2>6. HeldClientsAreClean'
    <3>1. client[r] \in Clients /\ setting[client[r]] \in Users \cup {None, Empty}
      BY <1>18 DEF Commit, CommitTo, At, TypeOK, PoolIsWhole, Holding
    <3>2. ~open'[client[r]] /\ CurrentUser(client[r])' = None
      BY <1>18, <3>1 DEF Commit, CommitTo, EndTransaction, TypeOK, CurrentUser, Reset
    <3>3. \A s \in Requests \ {r} : pc'[s] = pc[s]
      BY <1>18 DEF Commit, CommitTo, At, TypeOK
    <3>4. \A s \in Requests \ {r} : pc[s] \in Holding => client[s] \in Clients /\ client[s] # client[r]
      BY <3>1 DEF TypeOK, PoolIsWhole
    <3>5. \A c \in Clients \ {client[r]} : open'[c] = open[c] /\ CurrentUser(c)' = CurrentUser(c)
      BY <1>18 DEF Commit, CommitTo, EndTransaction, TypeOK, CurrentUser
    <3>6. QED
      BY <1>18, <3>2, <3>3, <3>4, <3>5 DEF Commit, CommitTo, HeldClientsAreClean, Holding
  <2>7. StepsAreOfUnit'
    BY <1>18 DEF Commit, CommitTo, At, EndTransaction, TypeOK, StepsAreOfUnit, Job
  <2>8. ExportSoFar'
    BY <1>18 DEF Commit, CommitTo, At, EndTransaction, TypeOK, StepsAreOfUnit, ExportSoFar, Job,
       RowsOf, ReadSoFar
  <2>9. QED
    BY <2>1, <2>2, <2>3, <2>4, <2>5, <2>6, <2>7, <2>8 DEF PoolInv
<1>19. ASSUME NEW r \in Requests, CommitReplyLost(r) PROVE PoolInv'
  <2>1. TypeOK'
    <3>1. Committed(r) \subseteq Rows
      BY DEF TypeOK, Committed
    <3>2. client[r] \in Clients /\ Reset(client[r]) \in Users \cup {None, Empty}
      BY <1>19 DEF CommitReplyLost, CommitTo, At, TypeOK, PoolIsWhole, Holding, Reset
    <3>3. QED
      BY <1>19, <3>1, <3>2 DEF CommitReplyLost, CommitTo, At, EndTransaction, TypeOK, Holding
  <2>2. PoolIsWhole'
    BY <1>19 DEF CommitReplyLost, CommitTo, At, EndTransaction, TypeOK, PoolIsWhole, Holding
  <2>3. Isolation'
    BY <1>19 DEF CommitReplyLost, CommitTo, At, EndTransaction, TypeOK, Isolation
  <2>4. IdleClientsAreClean'
    BY <1>19 DEF CommitReplyLost, CommitTo, At, EndTransaction, TypeOK, PoolIsWhole,
       IdleClientsAreClean, HeldClientsAreClean, CurrentUser, Holding
  <2>5. WorkIsScoped'
    BY <1>19 DEF CommitReplyLost, CommitTo, At, EndTransaction, TypeOK, WorkIsScoped,
       PoolIsWhole, Holding
  <2>6. HeldClientsAreClean'
    BY <1>19 DEF CommitReplyLost, CommitTo, At, EndTransaction, TypeOK, PoolIsWhole,
       IdleClientsAreClean, HeldClientsAreClean, CurrentUser, Holding
  <2>7. StepsAreOfUnit'
    BY <1>19 DEF CommitReplyLost, CommitTo, At, EndTransaction, TypeOK, StepsAreOfUnit, Job
  <2>8. ExportSoFar'
    BY <1>19 DEF CommitReplyLost, CommitTo, At, EndTransaction, TypeOK, StepsAreOfUnit,
       ExportSoFar, Job, RowsOf, ReadSoFar
  <2>9. QED
    BY <2>1, <2>2, <2>3, <2>4, <2>5, <2>6, <2>7, <2>8 DEF PoolInv
<1>20. ASSUME NEW r \in Requests, Throw(r) PROVE PoolInv'
  <2>1. Isolation' /\ IdleClientsAreClean'
    BY <1>20 DEF Throw, Isolation, IdleClientsAreClean, CurrentUser
  <2>2. TypeOK'
    BY <1>20 DEF Throw, TypeOK, Holding
  <2>3. PoolIsWhole'
    BY <1>20 DEF Throw, TypeOK, PoolIsWhole, Holding
  <2>4. WorkIsScoped'
    BY <1>20 DEF Throw, TypeOK, WorkIsScoped, PoolIsWhole, Holding
  <2>5. HeldClientsAreClean'
    BY <1>20 DEF Throw, TypeOK, PoolIsWhole, IdleClientsAreClean, HeldClientsAreClean,
       CurrentUser, Holding
  <2>6. StepsAreOfUnit'
    BY <1>20 DEF Throw, TypeOK, StepsAreOfUnit, Job
  <2>7. ExportSoFar'
    BY <1>20 DEF Throw, TypeOK, StepsAreOfUnit, ExportSoFar, Job, RowsOf, ReadSoFar
  <2>8. QED
    BY <2>1, <2>2, <2>3, <2>4, <2>5, <2>6, <2>7 DEF PoolInv
<1>21. ASSUME NEW r \in Requests, Rollback(r) PROVE PoolInv'
  <2>1. TypeOK'
    <3>1. client[r] \in Clients /\ Reset(client[r]) \in Users \cup {None, Empty}
      BY <1>21 DEF Rollback, At, TypeOK, PoolIsWhole, Holding, Reset
    <3>2. QED
      BY <1>21, <3>1 DEF Rollback, At, EndTransaction, TypeOK, Holding
  <2>2. PoolIsWhole'
    BY <1>21 DEF Rollback, At, EndTransaction, TypeOK, PoolIsWhole, Holding
  <2>3. Isolation'
    BY <1>21 DEF Rollback, At, EndTransaction, TypeOK, Isolation
  <2>4. IdleClientsAreClean'
    BY <1>21 DEF Rollback, At, EndTransaction, TypeOK, PoolIsWhole, IdleClientsAreClean,
       HeldClientsAreClean, CurrentUser, Holding
  <2>5. WorkIsScoped'
    BY <1>21 DEF Rollback, At, EndTransaction, TypeOK, WorkIsScoped, PoolIsWhole, Holding
  <2>6. HeldClientsAreClean'
    <3>1. client[r] \in Clients /\ setting[client[r]] \in Users \cup {None, Empty}
      BY <1>21 DEF Rollback, At, TypeOK, PoolIsWhole, Holding
    <3>2. ~open'[client[r]] /\ CurrentUser(client[r])' = None
      BY <1>21, <3>1 DEF Rollback, EndTransaction, TypeOK, CurrentUser, Reset
    <3>3. \A s \in Requests \ {r} : pc'[s] = pc[s]
      BY <1>21 DEF Rollback, At, TypeOK
    <3>4. \A s \in Requests \ {r} : pc[s] \in Holding => client[s] \in Clients /\ client[s] # client[r]
      BY <3>1 DEF TypeOK, PoolIsWhole
    <3>5. \A c \in Clients \ {client[r]} : open'[c] = open[c] /\ CurrentUser(c)' = CurrentUser(c)
      BY <1>21 DEF Rollback, EndTransaction, TypeOK, CurrentUser
    <3>6. QED
      BY <1>21, <3>2, <3>3, <3>4, <3>5 DEF Rollback, HeldClientsAreClean, Holding
  <2>7. StepsAreOfUnit'
    BY <1>21 DEF Rollback, At, EndTransaction, TypeOK, StepsAreOfUnit, Job
  <2>8. ExportSoFar'
    BY <1>21 DEF Rollback, At, EndTransaction, TypeOK, StepsAreOfUnit, ExportSoFar, Job, RowsOf,
       ReadSoFar
  <2>9. QED
    BY <2>1, <2>2, <2>3, <2>4, <2>5, <2>6, <2>7, <2>8 DEF PoolInv
<1>22. ASSUME NEW r \in Requests, RollbackFails(r) PROVE PoolInv'
  <2>1. TypeOK'
    BY <1>22 DEF RollbackFails, At, EndTransaction, TypeOK, Holding
  <2>2. PoolIsWhole'
    BY <1>22 DEF RollbackFails, At, EndTransaction, TypeOK, PoolIsWhole, Holding
  <2>3. Isolation'
    BY <1>22 DEF RollbackFails, At, EndTransaction, TypeOK, Isolation
  <2>4. IdleClientsAreClean'
    BY <1>22 DEF RollbackFails, At, EndTransaction, TypeOK, PoolIsWhole, IdleClientsAreClean,
       HeldClientsAreClean, CurrentUser, Holding
  <2>5. WorkIsScoped'
    BY <1>22 DEF RollbackFails, At, EndTransaction, TypeOK, WorkIsScoped, PoolIsWhole, Holding
  <2>6. HeldClientsAreClean'
    BY <1>22 DEF RollbackFails, At, EndTransaction, TypeOK, PoolIsWhole, IdleClientsAreClean,
       HeldClientsAreClean, CurrentUser, Holding
  <2>7. StepsAreOfUnit'
    BY <1>22 DEF RollbackFails, At, EndTransaction, TypeOK, StepsAreOfUnit, Job
  <2>8. ExportSoFar'
    BY <1>22 DEF RollbackFails, At, EndTransaction, TypeOK, StepsAreOfUnit, ExportSoFar, Job,
       RowsOf, ReadSoFar
  <2>9. QED
    BY <2>1, <2>2, <2>3, <2>4, <2>5, <2>6, <2>7, <2>8 DEF PoolInv
<1>23. ASSUME NEW r \in Requests, Query(r) PROVE PoolInv'
  <2>1. Isolation' /\ IdleClientsAreClean'
    BY <1>23 DEF Query, At, Isolation, IdleClientsAreClean, CurrentUser
  <2>2. TypeOK'
    BY <1>23 DEF Query, At, TypeOK, Holding
  <2>3. PoolIsWhole'
    BY <1>23 DEF Query, At, TypeOK, PoolIsWhole, Holding
  <2>4. WorkIsScoped'
    BY <1>23 DEF Query, At, TypeOK, WorkIsScoped, PoolIsWhole, Holding
  <2>5. HeldClientsAreClean'
    BY <1>23 DEF Query, At, TypeOK, PoolIsWhole, IdleClientsAreClean, HeldClientsAreClean,
       CurrentUser, Holding
  <2>6. StepsAreOfUnit'
    BY <1>23 DEF Query, At, TypeOK, StepsAreOfUnit, Job
  <2>7. ExportSoFar'
    BY <1>23 DEF Query, At, TypeOK, StepsAreOfUnit, ExportSoFar, Job, RowsOf, ReadSoFar
  <2>8. QED
    BY <2>1, <2>2, <2>3, <2>4, <2>5, <2>6, <2>7 DEF PoolInv
<1>24. ASSUME NEW r \in Requests, QueryFails(r) PROVE PoolInv'
  <2>1. Isolation' /\ IdleClientsAreClean'
    BY <1>24 DEF QueryFails, At, Isolation, IdleClientsAreClean, CurrentUser
  <2>2. TypeOK'
    BY <1>24 DEF QueryFails, At, TypeOK, Holding
  <2>3. PoolIsWhole'
    BY <1>24 DEF QueryFails, At, TypeOK, PoolIsWhole, Holding
  <2>4. WorkIsScoped'
    BY <1>24 DEF QueryFails, At, TypeOK, WorkIsScoped, PoolIsWhole, Holding
  <2>5. HeldClientsAreClean'
    BY <1>24 DEF QueryFails, At, TypeOK, PoolIsWhole, IdleClientsAreClean, HeldClientsAreClean,
       CurrentUser, Holding
  <2>6. StepsAreOfUnit'
    BY <1>24 DEF QueryFails, At, TypeOK, StepsAreOfUnit, Job
  <2>7. ExportSoFar'
    BY <1>24 DEF QueryFails, At, TypeOK, StepsAreOfUnit, ExportSoFar, Job, RowsOf, ReadSoFar
  <2>8. QED
    BY <2>1, <2>2, <2>3, <2>4, <2>5, <2>6, <2>7 DEF PoolInv
<1>25. CASE UNCHANGED vars
  BY <1>25 DEF vars, PoolInv, TypeOK, PoolIsWhole, Isolation, IdleClientsAreClean, WorkIsScoped,
     HeldClientsAreClean, StepsAreOfUnit, ExportSoFar, Job, RowsOf, ReadSoFar, CurrentUser
<1>26. QED
  BY <1>1, <1>2, <1>3, <1>4, <1>5, <1>6, <1>7, <1>8, <1>9, <1>10, <1>11, <1>12, <1>13, <1>14,
     <1>15, <1>16, <1>17, <1>18, <1>19, <1>20, <1>21, <1>22, <1>23, <1>24, <1>25
     DEF Next, AllDone, Advance, Statement, Failure

\* At the start every account is there, and no transaction is open.
LEMMA InitLocks == Init => LocksKeepAccount
BY DEF Init, LocksKeepAccount

\* A step that writes nothing leaves the locks as they are.
LEMMA QuietLocks ==
  ASSUME LocksKeepAccount, UNCHANGED <<rows, added, erased>>
  PROVE  LocksKeepAccount'
BY DEF LocksKeepAccount, AccountShared, AccountLocked, Others

\* A transaction ends: what it kept is let go, and the others keep what they had.
LEMMA ClosedLocks ==
  ASSUME PoolInv, LocksKeepAccount, NEW r \in Requests,
         added' = [added EXCEPT ![r] = {}], erased' = [erased EXCEPT ![r] = {}],
         rows' = rows \/ rows' = Committed(r)
  PROVE  LocksKeepAccount'
<1> USE DEF PoolInv, TypeOK
<1>1. ASSUME NEW row \in rows' PROVE <<"users", row[2]>> \in rows'
  <2>1. CASE rows' = rows
    BY <2>1, <1>1 DEF LocksKeepAccount
  <2>2. CASE rows' = Committed(r)
    <3>1. row[2] \notin erased[r] /\ <<"users", row[2]>> \in rows
      BY <2>2, <1>1 DEF LocksKeepAccount, Committed, Isolation
    <3> QED
      BY <2>2, <3>1 DEF Committed
  <2> QED
    BY <2>1, <2>2
<1>2. ASSUME NEW s \in Requests, added'[s] # {}
      PROVE  /\ <<"users", UserOf[s]>> \in rows'
             /\ erased'[s] = {} /\ AccountShared(s)'
             /\ \E table \in ChildTables : added'[s] = {<<table, UserOf[s]>>}
  <2>1. s # r /\ added'[s] = added[s] /\ erased'[s] = erased[s]
    BY <1>2
  <2>2. /\ <<"users", UserOf[s]>> \in rows /\ erased[s] = {} /\ AccountShared(s)
        /\ \E table \in ChildTables : added[s] = {<<table, UserOf[s]>>}
    BY <1>2, <2>1 DEF LocksKeepAccount
  <2>3. UserOf[s] \notin erased[r]
    BY <2>1, <2>2 DEF AccountShared, Others, Isolation
  <2>4. <<"users", UserOf[s]>> \in rows'
    BY <2>2, <2>3 DEF Committed
  <2>5. AccountShared(s)'
    BY <2>2 DEF AccountShared, Others
  <2> QED
    BY <2>1, <2>2, <2>4, <2>5
<1>3. ASSUME NEW s \in Requests, erased'[s] # {} PROVE AccountLocked(s)'
  <2>1. erased[s] # {}
    BY <1>3
  <2>2. AccountLocked(s)
    BY <2>1 DEF LocksKeepAccount
  <2> QED
    BY <2>2 DEF AccountLocked, AccountShared, Others
<1> QED
  BY <1>1, <1>2, <1>3 DEF LocksKeepAccount

\* An INSERT finds the account and no transaction that deletes it.
LEMMA StoreLocks ==
  ASSUME PoolInv, LocksKeepAccount, NEW r \in Requests, Store(r)
  PROVE  LocksKeepAccount'
<1> USE DEF PoolInv, TypeOK
<1>1. PICK table \in ChildTables : added' = [added EXCEPT ![r] = {<<table, UserOf[r]>>}]
  BY TableAssumption DEF Store
<1>2. rows' = rows /\ erased' = erased /\ added[r] = {} /\ erased[r] = {}
      /\ AccountShared(r) /\ <<"users", UserOf[r]>> \in rows
  BY DEF Store, At, writes, session, results
<1>3. ASSUME NEW s \in Requests, added'[s] # {}
      PROVE  /\ <<"users", UserOf[s]>> \in rows
             /\ erased[s] = {} /\ AccountShared(s)
             /\ \E t \in ChildTables : added'[s] = {<<t, UserOf[s]>>}
  <2>1. CASE s = r
    BY <1>1, <1>2, <2>1
  <2>2. CASE s # r
    BY <1>1, <1>3, <2>2 DEF LocksKeepAccount
  <2> QED
    BY <2>1, <2>2
<1>4. ASSUME NEW s \in Requests, erased[s] # {} PROVE AccountLocked(s)'
  <2>1. AccountLocked(s) /\ s # r
    BY <1>2, <1>4 DEF LocksKeepAccount
  <2>2. r \notin Others(s)
    BY <1>2, <1>4, <2>1 DEF AccountShared, Others
  <2> QED
    BY <1>1, <1>2, <2>1, <2>2 DEF AccountLocked, AccountShared, Others
<1> QED
  BY <1>2, <1>3, <1>4 DEF LocksKeepAccount, AccountShared

\* A DELETE of the account finds no other transaction that inserted under it or deletes it.
LEMMA EraseLocks ==
  ASSUME PoolInv, LocksKeepAccount, NEW r \in Requests, Erase(r)
  PROVE  LocksKeepAccount'
<1> USE DEF PoolInv, TypeOK
<1>1. /\ rows' = rows /\ added' = added /\ added[r] = {} /\ AccountLocked(r)
      /\ \A s \in Requests \ {r} : erased'[s] = erased[s]
  BY DEF Erase, At, session, results
<1>2. ASSUME NEW s \in Requests, added[s] # {} PROVE erased'[s] = {} /\ AccountShared(s)'
  <2>1. s # r /\ erased[s] = {} /\ AccountShared(s) /\ r \notin Others(s)
    BY <1>1, <1>2 DEF LocksKeepAccount, AccountLocked, Others
  <2> QED
    BY <1>1, <2>1 DEF AccountShared, Others
<1>3. ASSUME NEW s \in Requests, erased'[s] # {} PROVE AccountLocked(s)'
  <2>1. CASE s = r
    BY <1>1, <2>1 DEF AccountLocked, AccountShared, Others
  <2>2. CASE s # r
    <3>1. AccountLocked(s) /\ r \notin Others(s)
      BY <1>1, <1>3, <2>2 DEF LocksKeepAccount, AccountLocked, AccountShared, Others
    <3> QED
      BY <1>1, <3>1 DEF AccountLocked, AccountShared, Others
  <2> QED
    BY <2>1, <2>2
<1> QED
  BY <1>1, <1>2, <1>3 DEF LocksKeepAccount

\* The steps of a request that write or let go.
Writing(r) ==
  \/ Store(r)
  \/ Erase(r)
  \/ Commit(r)
  \/ CommitReplyLost(r)
  \/ Rollback(r)
  \/ RollbackFails(r)

\* Every other step leaves the tables and the open transactions alone.
LEMMA WritingSteps ==
  ASSUME [Next]_vars
  PROVE  (\E r \in Requests : Writing(r)) \/ UNCHANGED <<rows, added, erased>>
<1> USE DEF control, pool, session, writes, results
<1>1. ASSUME NEW r \in Requests, Arrive(r) \/ Advance(r) \/ Failure(r), ~Writing(r)
      PROVE  UNCHANGED <<rows, added, erased>>
  <2>1. CASE Arrive(r) \/ Ask(r) \/ Grant(r) \/ Begin(r) \/ SetUser(r)
    BY <2>1 DEF Arrive, Ask, Grant, Begin, SetUser
  <2>2. CASE Statement(r)
    BY <1>1, <2>2 DEF Statement, Writing, Exists, Lookup, ExportAccount, ExportTable, ExportDone,
       StoreRefused, Query
  <2>3. CASE Release(r) \/ Abandon(r) \/ ConnectFails(r) \/ HandlerThrows(r) \/ Throw(r) \/ QueryFails(r)
    BY <2>3 DEF Release, Abandon, ConnectFails, HandlerThrows, Throw, QueryFails
  <2> QED
    BY <1>1, <2>1, <2>2, <2>3 DEF Advance, Failure, Writing
<1>2. CASE UNCHANGED vars
  BY <1>2 DEF vars
<1> QED
  BY <1>1, <1>2 DEF Next, AllDone

\* The tables change in a commit only.
LEMMA RowsChange ==
  ASSUME [Next]_vars, rows' # rows
  PROVE  \E r \in Requests : rows' = Committed(r) /\ pc[r] = "commit"
<1>1. PICK r \in Requests : Writing(r)
  BY WritingSteps
<1> QED
  BY <1>1 DEF Writing, Store, Erase, Commit, CommitReplyLost, CommitTo, Rollback, RollbackFails,
     At

\* Who is neither queued nor served stays as it was in the queue.
LEMMA QuietQueue ==
  ASSUME TypeOK, QueueIsOfWaiting, waiting' = waiting,
         \A s \in Requests : pc'[s] = "waiting" <=> pc[s] = "waiting"
  PROVE  QueueIsOfWaiting'
BY DEF QueueIsOfWaiting

\* connect() puts a request at the end of the queue.
LEMMA AskQueue ==
  ASSUME TypeOK, QueueIsOfWaiting, NEW r \in Requests, Ask(r)
  PROVE  QueueIsOfWaiting'
<1> DEFINE n == Len(waiting)
<1>1. /\ n \in Nat /\ waiting' = Append(waiting, r)
      /\ Len(waiting') = n + 1 /\ waiting'[n + 1] = r
      /\ \A i \in 1..n : waiting'[i] = waiting[i]
  BY DEF TypeOK, Ask
<1>2. /\ pc[r] # "waiting" /\ pc'[r] = "waiting"
      /\ \A s \in Requests \ {r} : pc'[s] = pc[s]
  BY DEF TypeOK, Ask, At
<1>3. \A i \in 1..n : waiting[i] # r
  BY <1>2 DEF QueueIsOfWaiting
<1>4. 1..(n + 1) = 1..n \cup {n + 1}
  BY <1>1
<1> HIDE DEF n
<1>5. \A s \in Requests : pc'[s] = "waiting" <=> \E i \in 1..(n + 1) : waiting'[i] = s
  <2>1. \A s \in Requests : pc[s] = "waiting" <=> \E i \in 1..n : waiting[i] = s
    BY DEF QueueIsOfWaiting, n
  <2> QED
    BY <1>1, <1>2, <1>4, <2>1
<1>6. \A i, j \in 1..(n + 1) : waiting'[i] = waiting'[j] => i = j
  <2>1. \A i, j \in 1..n : waiting[i] = waiting[j] => i = j
    BY DEF QueueIsOfWaiting, n
  <2> QED
    BY <1>1, <1>3, <1>4, <2>1
<1> QED
  BY <1>1, <1>5, <1>6 DEF QueueIsOfWaiting

\* The first in the queue leaves it, with a client or without.
LEMMA ServedQueue ==
  ASSUME TypeOK, QueueIsOfWaiting, NEW r \in Requests,
         waiting # <<>>, Head(waiting) = r, waiting' = Tail(waiting),
         pc'[r] # "waiting", \A s \in Requests \ {r} : pc'[s] = pc[s]
  PROVE  QueueIsOfWaiting'
<1> DEFINE n == Len(waiting)
<1>1. /\ n \in Nat /\ n >= 1 /\ waiting[1] = r
      /\ Len(waiting') = n - 1
      /\ \A i \in 1..(n - 1) : waiting'[i] = waiting[i + 1]
  BY DEF TypeOK
<1>2. \A i, j \in 1..n : waiting[i] = waiting[j] => i = j
  BY DEF QueueIsOfWaiting
<1>3. \A s \in Requests : pc[s] = "waiting" <=> \E i \in 1..n : waiting[i] = s
  BY DEF QueueIsOfWaiting
<1> HIDE DEF n
<1>4. \A i \in 1..(n - 1) : i + 1 \in 1..n /\ i + 1 # 1
  BY <1>1
<1>5. \A i \in 1..(n - 1) : waiting'[i] # r
  BY <1>1, <1>2, <1>4
<1>6. ASSUME NEW s \in Requests PROVE pc'[s] = "waiting" <=> \E i \in 1..(n - 1) : waiting'[i] = s
  <2>1. CASE s = r
    BY <1>5, <2>1
  <2>2. CASE s # r
    <3>1. (\E i \in 1..n : waiting[i] = s) <=> \E i \in 1..(n - 1) : waiting'[i] = s
      <4>1. ASSUME NEW i \in 1..n, waiting[i] = s PROVE i - 1 \in 1..(n - 1) /\ waiting'[i - 1] = s
        <5>1. i # 1
          BY <1>1, <2>2, <4>1
        <5>2. i - 1 \in 1..(n - 1) /\ (i - 1) + 1 = i
          BY <1>1, <5>1
        <5> QED
          BY <1>1, <4>1, <5>2
      <4> QED
        BY <1>1, <1>4, <4>1
    <3> QED
      BY <1>3, <2>2, <3>1
  <2> QED
    BY <2>1, <2>2
<1>7. \A i, j \in 1..(n - 1) : waiting'[i] = waiting'[j] => i = j
  BY <1>1, <1>2, <1>4
<1> QED
  BY <1>1, <1>6, <1>7 DEF QueueIsOfWaiting

\* Every step keeps the queue.
LEMMA NextQueue ==
  ASSUME TypeOK, QueueIsOfWaiting, [Next]_vars
  PROVE  QueueIsOfWaiting'
<1> USE DEF control, pool, session, writes, results
<1>1. ASSUME NEW r \in Requests, Arrive(r) \/ Advance(r) \/ Failure(r)
      PROVE  QueueIsOfWaiting'
  <2>1. CASE Ask(r)
    BY <2>1, AskQueue
  <2>2. CASE Grant(r)
    BY <2>2, ServedQueue DEF Grant, At, TypeOK
  <2>3. CASE ConnectFails(r)
    BY <2>3, ServedQueue DEF ConnectFails, End, At, TypeOK
  <2>4. CASE Arrive(r) \/ Begin(r) \/ SetUser(r)
    BY <2>4, QuietQueue DEF Arrive, Begin, SetUser, At, TypeOK
  <2>5. CASE Statement(r)
    BY <2>5, QuietQueue DEF Statement, Exists, Lookup, ExportAccount, ExportTable, ExportDone,
       Store, StoreRefused, Erase, Query, At, TypeOK
  <2>6. CASE Commit(r) \/ CommitReplyLost(r) \/ Rollback(r) \/ RollbackFails(r)
    BY <2>6, QuietQueue DEF Commit, CommitReplyLost, CommitTo, Rollback, RollbackFails, At, TypeOK
  <2>7. CASE Release(r)
    BY <2>7, QuietQueue DEF Release, NextUnit, End, GiveBack, At, TypeOK
  <2>8. CASE Abandon(r) \/ HandlerThrows(r)
    BY <2>8, QuietQueue DEF Abandon, HandlerThrows, End, GiveBack, At, TypeOK
  <2>9. CASE Throw(r) \/ QueryFails(r)
    BY <2>9, QuietQueue DEF Throw, QueryFails, At, TypeOK
  <2> QED
    BY <1>1, <2>1, <2>2, <2>3, <2>4, <2>5, <2>6, <2>7, <2>8, <2>9 DEF Advance, Failure
<1>2. CASE UNCHANGED vars
  BY <1>2, QuietQueue DEF vars
<1> QED
  BY <1>1, <1>2 DEF Next, AllDone

\* The whole invariant is inductive.
LEMMA InitInv == Init => Inv
<1>1. Init => QueueIsOfWaiting
  BY DEF Init, QueueIsOfWaiting
<1> QED
  BY <1>1, InitPool, InitLocks DEF Inv

\* The part about locks as well, step by step.
LEMMA NextLocks == PoolInv /\ LocksKeepAccount /\ [Next]_vars => LocksKeepAccount'
<1> SUFFICES ASSUME PoolInv, LocksKeepAccount, [Next]_vars PROVE LocksKeepAccount'
  OBVIOUS
<1>1. ASSUME NEW r \in Requests, Writing(r) PROVE LocksKeepAccount'
  <2>1. CASE Store(r) \/ Erase(r)
    BY <2>1, StoreLocks, EraseLocks
  <2>2. CASE Commit(r) \/ CommitReplyLost(r) \/ Rollback(r) \/ RollbackFails(r)
    BY <2>2, ClosedLocks
       DEF Commit, CommitReplyLost, CommitTo, Rollback, RollbackFails, EndTransaction
  <2> QED
    BY <1>1, <2>1, <2>2 DEF Writing
<1> QED
  BY <1>1, WritingSteps, QuietLocks

\* So every step preserves all of it.
LEMMA NextInv == Inv /\ [Next]_vars => Inv'
<1>1. PoolInv => TypeOK
  BY DEF PoolInv
<1> QED
  BY <1>1, NextPool, NextLocks, NextQueue DEF Inv

\* The invariant holds, whatever the requests, the accounts, the clients and the tables.
THEOREM InvCorrect == Spec => []Inv
<1>1. Init => Inv
  BY InitInv
<1>2. Inv /\ [Next]_vars => Inv'
  BY NextInv
<1>3. QED
  BY <1>1, <1>2, PTL DEF Spec

\* No statement returns, inserts or deletes a row of another account.
THEOREM AccountsAreIsolated == Spec => []Isolation
<1>1. Inv => Isolation
  BY DEF Inv, PoolInv
<1>2. QED
  BY <1>1, InvCorrect, PTL

\* No client is lost, and none is with two requests.
THEOREM ClientsAreNotLost == Spec => []PoolIsWhole
<1>1. Inv => PoolIsWhole
  BY DEF Inv, PoolInv
<1>2. QED
  BY <1>1, InvCorrect, PTL

\* A client in the pool has no open transaction and names no account.
THEOREM ClientsComeBackClean == Spec => []IdleClientsAreClean
<1>1. Inv => IdleClientsAreClean
  BY DEF Inv, PoolInv
<1>2. QED
  BY <1>1, InvCorrect, PTL

\* An export has each row of the account that stayed from its first statement to its last,
\* in whatever table, and none that never was the account's.
THEOREM ExportsAreWhole == Spec => []ExportIsWhole
<1>1. Inv => ExportIsWhole
  <2> SUFFICES ASSUME TypeOK, ExportSoFar, NEW r \in Requests,
                      pc[r] = "release", Job(r) = "export"
               PROVE  stayed[r] \subseteq seen[r] /\ seen[r] \subseteq came[r]
    BY DEF Inv, PoolInv, ExportIsWhole
  <2>1. reads[r] = 11
    BY ExportTables DEF ExportSoFar
  <2>2. Tables \subseteq ReadSoFar(r)
    BY <2>1, ExportTables DEF ReadSoFar, Tables
  <2>3. \A row \in stayed[r] : row[1] \in Tables
    BY DEF TypeOK, Rows
  <2>4. QED
    BY <2>1, <2>2, <2>3 DEF ExportSoFar
<1>2. QED
  BY <1>1, InvCorrect, PTL

\* An account's rows change only when a request of that account commits.
THEOREM CommitsAreOwn == Spec => ChangedByOwnCommit
<1>1. Inv /\ [Next]_vars =>
        [\A u \in Users : RowsOf(u)' # RowsOf(u) =>
           \E r \in Requests : UserOf[r] = u /\ pc[r] = "commit"]_vars
  <2> SUFFICES ASSUME TypeOK, Isolation, Next, NEW u \in Users, RowsOf(u)' # RowsOf(u)
               PROVE  \E r \in Requests : UserOf[r] = u /\ pc[r] = "commit"
    BY DEF Inv, PoolInv
  <2>1. rows' # rows
    BY DEF RowsOf
  <2>2. PICK r \in Requests : rows' = Committed(r) /\ pc[r] = "commit"
    BY <2>1, RowsChange
  <2>3. ASSUME UserOf[r] # u PROVE RowsOf(u)' = RowsOf(u)
    BY <2>2, <2>3 DEF RowsOf, Committed, Isolation
  <2>4. QED
    BY <2>2, <2>3
<1>2. QED
  BY <1>1, InvCorrect, PTL DEF Spec, ChangedByOwnCommit

-----------------------------------------------------------------------------
(***************************************************************************)
(* Who waits for whom.  A request waits for a client, or holds a client    *)
(* and waits for locks, or holds locks and waits for nothing.              *)
(***************************************************************************)

\* Who waits for a lock waits for a request that waits for nothing.
LEMMA LockHoldersGoOn ==
  ASSUME TypeOK, NEW r \in Requests, pc[r] = "work", ~AccountLocked(r)
  PROVE  \E s \in Requests : Underway(s) /\ ~Waits(s)
<1>1. PICK s \in Requests : added[s] # {} \/ erased[s] # {}
  BY DEF AccountLocked, AccountShared, Others
<1>2. pc[s] \in {"commit", "rollback"}
  BY <1>1 DEF TypeOK
<1> QED
  BY <1>2 DEF Underway, Waits

\* Of the requests under way one can go on, with a single client even.
THEOREM SomebodyGoesOn == Spec => []NobodyIsStuck
<1>1. Inv => NobodyIsStuck
  <2> SUFFICES ASSUME Inv, NEW r \in Requests, Underway(r)
               PROVE  \E s \in Requests : Underway(s) /\ ~Waits(s)
    BY DEF NobodyIsStuck
  <2> USE DEF Inv, PoolInv
  <2>1. ASSUME NEW s \in Requests, Underway(s), pc[s] # "waiting"
        PROVE  \E t \in Requests : Underway(t) /\ ~Waits(t)
    <3>1. CASE pc[s] = "work" /\ ~AccountLocked(s)
      BY <3>1, LockHoldersGoOn
    <3>2. CASE ~(pc[s] = "work" /\ ~AccountLocked(s))
      BY <2>1, <3>2 DEF Waits, AccountLocked
    <3> QED
      BY <3>1, <3>2
  <2>2. CASE pc[r] # "waiting"
    BY <2>1, <2>2
  <2>3. CASE pc[r] = "waiting" /\ idle = {}
    <3>1. PICK c \in Clients : TRUE
      BY ClientAssumption
    <3>2. PICK s \in Requests : client[s] = c
      BY <2>3 DEF PoolIsWhole
    <3>3. pc[s] \in Holding
      BY <3>2 DEF PoolIsWhole
    <3>4. Underway(s) /\ pc[s] # "waiting"
      BY <3>3 DEF Holding, Underway
    <3> QED
      BY <2>1, <3>4
  <2>4. CASE pc[r] = "waiting" /\ idle # {}
    <3>1. Len(waiting) \in Nat /\ 1 \in 1..Len(waiting)
      BY <2>4 DEF QueueIsOfWaiting, TypeOK
    <3>2. waiting[1] \in Requests /\ Head(waiting) = waiting[1]
      BY <3>1 DEF TypeOK
    <3>3. pc[waiting[1]] = "waiting"
      BY <3>1, <3>2 DEF QueueIsOfWaiting
    <3> QED
      BY <2>4, <3>2, <3>3 DEF Underway, Waits
  <2> QED
    BY <2>2, <2>3, <2>4
<1> QED
  BY <1>1, InvCorrect, PTL

-----------------------------------------------------------------------------
(***************************************************************************)
(* Every step is one of a bounded number.  The phases of a unit come in    *)
(* one order, and a request goes back only to start its next unit.         *)
(***************************************************************************)

\* A unit has ten steps and one for each table an export reads.
LEMMA UnitLength ==
  /\ Len(ExportOrder) \in Nat /\ StepsOfUnit = Len(ExportOrder) + 10
  /\ StepsOfUnit \in Nat /\ StepsOfUnit >= 10
BY ExportTables DEF StepsOfUnit

\* The steps ahead of a phase are no more than a unit has.
LEMMA PhaseRange ==
  ASSUME NEW p \in {"idle", "asking", "waiting"} \cup Holding, NEW n \in 0..(Len(ExportOrder) + 1)
  PROVE  StepsAhead[p] - (IF p = "work" THEN n ELSE 0) \in 1..StepsOfUnit
<1>1. CASE p = "work"
  BY <1>1, UnitLength DEF StepsAhead
<1>2. CASE p # "work"
  <2>1. StepsAhead[p] \in 1..StepsOfUnit
    BY <1>2, UnitLength DEF StepsAhead, Holding
  <2> QED
    BY <1>2, <2>1, UnitLength
<1> QED
  BY <1>1, <1>2

\* A request that has not ended has a step left.
LEMMA StepsLeftRange ==
  ASSUME TypeOK, NEW r \in Requests, pc[r] # "done"
  PROVE  /\ Ahead(r) \in 1..StepsOfUnit
         /\ (3 - unit[r]) * StepsOfUnit \in Nat
         /\ StepsLeft(r) = (3 - unit[r]) * StepsOfUnit + Ahead(r)
         /\ StepsLeft(r) \in Nat /\ StepsLeft(r) >= 1
<1>1. Ahead(r) \in 1..StepsOfUnit
  <2>1. pc[r] \in {"idle", "asking", "waiting"} \cup Holding /\ reads[r] \in 0..(Len(ExportOrder) + 1)
    BY DEF TypeOK
  <2> QED
    BY <2>1, PhaseRange DEF Ahead
<1>2. (3 - unit[r]) * StepsOfUnit \in Nat
  <2>1. unit \in [Requests -> 1..3]
    BY Zenon DEF TypeOK
  <2>2. 3 - unit[r] \in {0, 1, 2}
    BY <2>1
  <2> QED
    BY <2>2, UnitLength
<1>3. StepsLeft(r) = (3 - unit[r]) * StepsOfUnit + Ahead(r)
  BY DEF StepsLeft
<1> QED
  BY <1>1, <1>2, <1>3, UnitLength

\* A request that ends has none.
LEMMA EndLowers ==
  ASSUME TypeOK, NEW r \in Requests, pc[r] # "done", pc'[r] = "done"
  PROVE  StepsLeft(r)' \in 0..(StepsLeft(r) - 1)
<1>1. StepsLeft(r)' = 0
  BY DEF StepsLeft
<1> QED
  BY <1>1, StepsLeftRange

\* One that goes on in its unit has fewer.
LEMMA GoingOnLowers ==
  ASSUME TypeOK, TypeOK', NEW r \in Requests, pc[r] # "done", pc'[r] # "done",
         unit'[r] = unit[r], Ahead(r)' < Ahead(r)
  PROVE  StepsLeft(r)' \in 0..(StepsLeft(r) - 1)
<1>1. Ahead(r)' \in 1..StepsOfUnit
  <2>1. pc'[r] \in {"idle", "asking", "waiting"} \cup Holding /\ reads'[r] \in 0..(Len(ExportOrder) + 1)
    BY DEF TypeOK
  <2> QED
    BY <2>1, PhaseRange DEF Ahead
<1>2. StepsLeft(r)' = (3 - unit[r]) * StepsOfUnit + Ahead(r)'
  BY DEF StepsLeft
<1> QED
  BY <1>1, <1>2, StepsLeftRange, UnitLength

\* And so has one that goes on to its next unit.
LEMMA NextUnitLowers ==
  ASSUME TypeOK, TypeOK', NEW r \in Requests, pc[r] # "done", pc'[r] = "asking",
         unit'[r] = unit[r] + 1
  PROVE  StepsLeft(r)' \in 0..(StepsLeft(r) - 1)
<1> DEFINE k == unit[r]
           n == StepsOfUnit
<1>1. n \in Nat /\ n >= 10
  BY UnitLength
<1>2. k \in {1, 2}
  <2>1. unit \in [Requests -> 1..3] /\ unit' \in [Requests -> 1..3]
    BY Zenon DEF TypeOK
  <2>2. unit[r] \in 1..3 /\ unit[r] + 1 \in 1..3
    BY <2>1
  <2> QED
    BY <2>2
<1>3. StepsLeft(r)' = (3 - (k + 1)) * n + (n - 1)
  <2>1. Ahead(r)' = (n - 1) - 0
    BY DEF Ahead, StepsAhead
  <2>2. StepsLeft(r)' = (3 - (k + 1)) * n + Ahead(r)'
    BY DEF StepsLeft
  <2> QED
    BY <1>1, <2>1, <2>2
<1>4. StepsLeft(r) = (3 - k) * n + Ahead(r) /\ Ahead(r) \in 1..n
  BY StepsLeftRange
<1> HIDE DEF k, n
<1>5. (3 - (k + 1)) * n + n = (3 - k) * n /\ (3 - (k + 1)) * n \in Nat
  BY <1>1, <1>2
<1> QED
  BY <1>1, <1>3, <1>4, <1>5

\* A request changes where it is, its unit and its count of statements, and nobody else's.
LEMMA OthersKeepSteps ==
  ASSUME NEW r \in Requests, NEW s \in Requests,
         pc'[s] = pc[s], unit'[s] = unit[s], reads'[s] = reads[s]
  PROVE  StepsLeft(s)' = StepsLeft(s)
BY DEF StepsLeft, Ahead

\* Where one step leads within a unit.
Forward ==
  {<<"idle", "asking">>, <<"asking", "waiting">>, <<"waiting", "begin">>, <<"waiting", "query">>,
   <<"begin", "scope">>, <<"begin", "rollback">>, <<"scope", "work">>, <<"scope", "rollback">>,
   <<"work", "commit">>, <<"work", "rollback">>, <<"commit", "release">>,
   <<"commit", "rollback">>, <<"rollback", "abandon">>, <<"query", "release">>,
   <<"query", "abandon">>}

\* To a phase with fewer steps ahead.
LEMMA ForwardLowers ==
  ASSUME TypeOK, TypeOK', NEW r \in Requests, <<pc[r], pc'[r]>> \in Forward,
         unit'[r] = unit[r]
  PROVE  StepsLeft(r)' \in 0..(StepsLeft(r) - 1)
<1>1. pc[r] # "done" /\ pc'[r] # "done"
  BY DEF Forward
<1>2. Ahead(r)' < Ahead(r)
  <2>1. /\ reads[r] \in 0..(Len(ExportOrder) + 1) /\ reads'[r] \in 0..(Len(ExportOrder) + 1)
        /\ Len(ExportOrder) \in Nat /\ StepsOfUnit = Len(ExportOrder) + 10
    BY UnitLength DEF TypeOK
  <2>2. CASE pc[r] = "work"
    <3>1. Ahead(r) = StepsOfUnit - 5 - reads[r]
      BY <2>2 DEF Ahead, StepsAhead
    <3>2. Ahead(r)' \in {3, 2}
      BY <2>1, <2>2 DEF Ahead, StepsAhead, Forward
    <3> QED
      BY <2>1, <3>1, <3>2
  <2>3. CASE pc'[r] = "work"
    <3>1. Ahead(r) = StepsOfUnit - 4
      BY <2>1, <2>3 DEF Ahead, StepsAhead, Forward
    <3>2. Ahead(r)' = StepsOfUnit - 5 - reads'[r]
      BY <2>3 DEF Ahead, StepsAhead
    <3> QED
      BY <2>1, <3>1, <3>2
  <2>4. CASE pc[r] # "work" /\ pc'[r] # "work"
    <3>1. Ahead(r) = StepsAhead[pc[r]] - 0 /\ Ahead(r)' = StepsAhead[pc'[r]] - 0
      BY <2>4 DEF Ahead
    <3>2. /\ StepsAhead[pc'[r]] < StepsAhead[pc[r]]
          /\ StepsAhead[pc'[r]] \in Nat /\ StepsAhead[pc[r]] \in Nat
      BY <2>1, <2>4 DEF StepsAhead, Forward
    <3> QED
      BY <3>1, <3>2
  <2> QED
    BY <2>2, <2>3, <2>4
<1> QED
  BY <1>1, <1>2, GoingOnLowers

\* An export that reads one table after the other has fewer left to read.
LEMMA ReadingLowers ==
  ASSUME TypeOK, TypeOK', NEW r \in Requests, pc[r] = "work", pc'[r] = "work",
         unit'[r] = unit[r], reads'[r] = reads[r] + 1
  PROVE  StepsLeft(r)' \in 0..(StepsLeft(r) - 1)
<1>1. /\ reads[r] \in 0..(Len(ExportOrder) + 1)
      /\ Len(ExportOrder) \in Nat /\ StepsOfUnit = Len(ExportOrder) + 10
  BY UnitLength DEF TypeOK
<1>2. Ahead(r) = StepsOfUnit - 5 - reads[r] /\ Ahead(r)' = StepsOfUnit - 5 - (reads[r] + 1)
  BY DEF Ahead, StepsAhead
<1>3. Ahead(r)' < Ahead(r)
  BY <1>1, <1>2
<1> QED
  BY <1>3, GoingOnLowers

\* What a step of a request does to it, and to the others.
LEMMA StepLowers ==
  ASSUME TypeOK, TypeOK', NEW r \in Requests, Arrive(r) \/ Advance(r) \/ Failure(r)
  PROVE  /\ StepsLeft(r)' \in 0..(StepsLeft(r) - 1)
         /\ \A s \in Requests \ {r} : StepsLeft(s)' = StepsLeft(s)
<1> USE DEF control, pool, session, writes, results, At
<1> DEFINE OthersStay ==
      \A s \in Requests \ {r} : pc'[s] = pc[s] /\ unit'[s] = unit[s] /\ reads'[s] = reads[s]
<1>1. CASE End(r, "waiting") \/ End(r, "asking") \/ End(r, "release") \/ End(r, "abandon")
  <2>1. pc[r] # "done" /\ pc'[r] = "done" /\ OthersStay
    BY <1>1 DEF TypeOK, End
  <2> QED
    BY <2>1, EndLowers, OthersKeepSteps
<1>2. CASE NextUnit(r)
  <2>1. pc[r] # "done" /\ pc'[r] = "asking" /\ unit'[r] = unit[r] + 1 /\ OthersStay
    BY <1>2 DEF TypeOK, NextUnit
  <2> QED
    BY <2>1, NextUnitLowers, OthersKeepSteps
<1>3. CASE ExportAccount(r) \/ ExportTable(r)
  <2>1. unit' = unit /\ OthersStay /\ reads'[r] = reads[r] + 1
    BY <1>3 DEF TypeOK, ExportAccount, ExportTable
  <2>2. pc[r] = "work" /\ pc'[r] \in {"work", "rollback"}
    BY <1>3 DEF TypeOK, ExportAccount, ExportTable
  <2>3. CASE pc'[r] = "work"
    BY <2>1, <2>2, <2>3, ReadingLowers, OthersKeepSteps
  <2>4. CASE pc'[r] = "rollback"
    <3>1. <<pc[r], pc'[r]>> \in Forward
      BY <2>2, <2>4 DEF Forward
    <3> QED
      BY <2>1, <3>1, ForwardLowers, OthersKeepSteps
  <2> QED
    BY <2>2, <2>3, <2>4
<1>4. CASE <<pc[r], pc'[r]>> \in Forward /\ unit' = unit /\ reads' = reads
           /\ \A s \in Requests \ {r} : pc'[s] = pc[s]
  BY <1>4, ForwardLowers, OthersKeepSteps
<1>5. Release(r) \/ Abandon(r) \/ ConnectFails(r) \/ HandlerThrows(r)
        => NextUnit(r) \/ End(r, "waiting") \/ End(r, "asking") \/ End(r, "release") \/ End(r, "abandon")
  BY DEF Release, Abandon, ConnectFails, HandlerThrows
<1>6. CASE Arrive(r) \/ Ask(r) \/ Grant(r) \/ Begin(r) \/ SetUser(r)
  <2>1. <<pc[r], pc'[r]>> \in Forward /\ unit' = unit /\ reads' = reads
        /\ \A s \in Requests \ {r} : pc'[s] = pc[s]
    BY <1>6 DEF TypeOK, Forward, Arrive, Ask, Grant, Begin, SetUser
  <2> QED
    BY <2>1, <1>4
<1>7. CASE Exists(r) \/ Lookup(r) \/ ExportDone(r) \/ Store(r) \/ StoreRefused(r) \/ Erase(r) \/ Query(r)
  <2>1. <<pc[r], pc'[r]>> \in Forward /\ unit' = unit /\ reads' = reads
        /\ \A s \in Requests \ {r} : pc'[s] = pc[s]
    BY <1>7 DEF TypeOK, Forward, Exists, Lookup, ExportDone, Store, StoreRefused, Erase, Query
  <2> QED
    BY <2>1, <1>4
<1>8. CASE \/ Commit(r) \/ CommitReplyLost(r) \/ Rollback(r) \/ RollbackFails(r)
           \/ Throw(r) \/ QueryFails(r)
  <2>1. <<pc[r], pc'[r]>> \in Forward /\ unit' = unit /\ reads' = reads
        /\ \A s \in Requests \ {r} : pc'[s] = pc[s]
    BY <1>8 DEF TypeOK, Forward, Commit, CommitReplyLost, CommitTo, Rollback, RollbackFails,
       Throw, QueryFails
  <2> QED
    BY <2>1, <1>4
<1> QED
  BY <1>1, <1>2, <1>3, <1>5, <1>6, <1>7, <1>8 DEF Advance, Statement, Failure

\* For any requests, clients and tables, a step of a request brings it nearer its end and
\* moves no other.
THEOREM RequestsEndInSteps == Spec => StepsRunOut
<1>1. TypeOK /\ TypeOK' /\ [Next]_vars =>
        [\E r \in Requests :
           /\ StepsLeft(r)' \in 0..(StepsLeft(r) - 1)
           /\ \A s \in Requests \ {r} : StepsLeft(s)' = StepsLeft(s)]_vars
  BY StepLowers DEF Next, AllDone
<1>2. Inv => TypeOK
  BY DEF Inv, PoolInv
<1> QED
  BY <1>1, <1>2, InvCorrect, PTL DEF Spec, StepsRunOut

\* Both together: requests never come to a standstill, and never go on for ever.
THEOREM RequestsReachTheirEnd == Spec => RequestsCanEnd
BY SomebodyGoesOn, RequestsEndInSteps, PTL DEF RequestsCanEnd

-----------------------------------------------------------------------------
(***************************************************************************)
(* The tables keep the contract of accounts: the locks of LocksKeepAccount *)
(* make a commit that inserted a Write and one that deleted an Erase.      *)
(***************************************************************************)

\* One account's child rows, as the contract has them.
LEMMA ContractRows ==
  ASSUME NEW u \in Users
  PROVE  Contract!RowsOf(u) = {row \in ChildTables \X Users : row[2] = u}
BY DEF Contract!RowsOf

\* A commit that inserted is a Write.
LEMMA CommitWrites ==
  ASSUME Inv, NEW r \in Requests, rows' = Committed(r), added[r] # {}
  PROVE  [Contract!Next]_(Contract!vars)
<1> USE DEF Inv, PoolInv, TypeOK
<1>1. PICK table \in ChildTables : added[r] = {<<table, UserOf[r]>>}
  BY DEF LocksKeepAccount
<1>2. erased[r] = {} /\ <<"users", UserOf[r]>> \in rows /\ UserOf[r] \in Users
  BY DEF LocksKeepAccount
<1>3. rows' = rows \cup {<<table, UserOf[r]>>}
  BY <1>1, <1>2 DEF Committed
<1>4. table # "users"
  BY <1>1, ExportTables
<1>5. Contract!Write(<<table, UserOf[r]>>)
  <2>1. [row \in ChildTables \X Users |-> row[2]][<<table, UserOf[r]>>] = UserOf[r]
    BY <1>1, <1>2
  <2>2. \A w \in Users : <<"users", w>> \in rows' <=> <<"users", w>> \in rows
    BY <1>3, <1>4
  <2>3. {row \in rows' : row[1] # "users"}
          = {row \in rows : row[1] # "users"} \cup {<<table, UserOf[r]>>}
    BY <1>3, <1>4
  <2> QED
    BY <1>2, <2>1, <2>2, <2>3 DEF Contract!Write
<1> QED
  BY <1>1, <1>2, <1>5 DEF Contract!Next

\* One that deleted the account, if it was still there, is an Erase.
LEMMA CommitErases ==
  ASSUME Inv, NEW r \in Requests, rows' = Committed(r), erased[r] # {}
  PROVE  [Contract!Next]_(Contract!vars)
<1> USE DEF Inv, PoolInv, TypeOK
<1> DEFINE u == UserOf[r]
<1>1. u \in Users /\ erased[r] = {u} /\ added[r] = {}
  <2>1. erased[r] \subseteq {u}
    BY DEF Isolation
  <2>2. added[r] = {}
    BY DEF LocksKeepAccount
  <2> QED
    BY <2>1, <2>2
<1>2. rows' = {row \in rows : row[2] # u}
  BY <1>1 DEF Committed
<1>3. CASE <<"users", u>> \in rows
  <2>1. \A row \in rows : row[1] \in Tables /\ row[2] \in Users /\ row = <<row[1], row[2]>>
    BY DEF Rows
  <2>2. Contract!Erase(u)
    BY <1>2, <1>3, <2>1, ContractRows DEF Contract!Erase, Tables
  <2> QED
    BY <1>1, <2>2 DEF Contract!Next
<1>4. CASE <<"users", u>> \notin rows
  <2>1. rows' = rows
    BY <1>2, <1>4 DEF LocksKeepAccount
  <2> QED
    BY <2>1 DEF Contract!vars
<1> QED
  BY <1>3, <1>4

\* The tables implement AccountContract: whatever overlaps, throws or loses its reply, a row
\* is committed under an existing account only and leaves with all others of it.
THEOREM TablesKeepContract == Spec => KeepsContract
<1>1. Init => Contract!Init
  BY ExportTables DEF Init, Contract!Init
<1>2. Inv /\ [Next]_vars => [Contract!Next]_(Contract!vars)
  <2> SUFFICES ASSUME Inv, [Next]_vars PROVE [Contract!Next]_(Contract!vars)
    OBVIOUS
  <2>1. CASE rows' = rows
    BY <2>1 DEF Contract!vars
  <2>2. CASE rows' # rows
    <3>1. PICK r \in Requests : rows' = Committed(r)
      BY <2>2, RowsChange
    <3>2. CASE added[r] # {}
      BY <3>1, <3>2, CommitWrites
    <3>3. CASE erased[r] # {}
      BY <3>1, <3>3, CommitErases
    <3>4. added[r] # {} \/ erased[r] # {}
      BY <2>2, <3>1 DEF Committed
    <3> QED
      BY <3>2, <3>3, <3>4
  <2> QED
    BY <2>1, <2>2
<1> QED
  BY <1>1, <1>2, InvCorrect, PTL DEF Spec, KeepsContract, Contract!Spec
=============================================================================
