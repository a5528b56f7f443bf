--------------------------- MODULE LlmLayerProofs ---------------------------
(***************************************************************************)
(* Theorems about LlmLayer for any users, slots, budget and turn limit.    *)
(***************************************************************************)
EXTENDS LlmLayer, FiniteInduction

USE DEF ErrorKinds, Ended, Unlogged, Live, MAX_STRUCTURED_ATTEMPTS, log, bills

-----------------------------------------------------------------------------
(***************************************************************************)
(* Type correctness.                                                       *)
(***************************************************************************)

\* At the start no call is made and nothing is logged.
LEMMA InitType == Init => TypeOK
BY MaxCostAssumption DEF Init, TypeOK

\* What a slot does, whichever request it serves.
SlotStep(c) == CallStart(c) \/ Progress(c) \/ Return(c)

\* A slot counts its attempts up to the limit of its call.
LEMMA SlotType ==
  ASSUME TypeOK, NEW c \in Slots, SlotStep(c)
  PROVE  TypeOK'
<1> USE CallerAssumption, MaxCostAssumption DEF TypeOK, Goto
<1>1. CASE CallStart(c)
  BY <1>1 DEF CallStart
<1>2. CASE TurnCheck(c)
  BY <1>2 DEF TurnCheck
<1>3. CASE BudgetCheck(c)
  BY <1>3 DEF BudgetCheck
<1>4. CASE ProviderReply(c)
  BY <1>4 DEF ProviderReply, Billed
<1>5. CASE ProviderError(c)
  BY <1>5 DEF ProviderError
<1>6. CASE ProviderReplyLost(c)
  BY <1>6 DEF ProviderReplyLost, LoseTrack
<1>7. CASE LogUsage(c)
  BY <1>7 DEF LogUsage
<1>8. CASE LogUsageFails(c)
  BY <1>8 DEF LogUsageFails, LoseTrack
<1>9. CASE ReplyAccepted(c)
  BY <1>9 DEF ReplyAccepted
<1>10. CASE ReplyTruncated(c)
  BY <1>10 DEF ReplyTruncated
<1>11. CASE ReplyInvalid(c)
  BY <1>11 DEF ReplyInvalid
<1>12. CASE Return(c)
  BY <1>12 DEF Return
<1> QED
  BY <1>1, <1>2, <1>3, <1>4, <1>5, <1>6, <1>7, <1>8, <1>9, <1>10, <1>11, <1>12
     DEF SlotStep, Progress

\* Every step is well typed.
LEMMA NextType == TypeOK /\ [Next]_vars => TypeOK'
<1> SUFFICES ASSUME TypeOK, [Next]_vars PROVE TypeOK'
  OBVIOUS
<1>1. CASE \E u \in Users : AccountDeleted(u)
  BY <1>1 DEF TypeOK, AccountDeleted, LoseTrack
<1>2. CASE MonthTurns
  BY <1>2 DEF TypeOK, MonthTurns
<1>3. CASE Crash
  BY <1>3 DEF TypeOK, Crash
<1>4. CASE UNCHANGED vars
  BY <1>4 DEF TypeOK, vars
<1> QED
  BY <1>1, <1>2, <1>3, <1>4, SlotType DEF Next, SlotStep

\* Type correctness of every reachable state.
THEOREM TypeCorrect == Spec => []TypeOK
BY InitType, NextType, PTL DEF Spec

-----------------------------------------------------------------------------
(***************************************************************************)
(* The spend bound.  Three kinds of step matter: a passed budget check adds *)
(* an attempt while the log is under the cap, a logged attempt trades its  *)
(* reserve for its cost, and every other step adds neither.                *)
(***************************************************************************)

Bound(u) ==
  spent[u] + MaxCost * Cardinality(InFlight(u)) < Cap + MaxCost * Cardinality(SlotsOf(u))

\* Slots of a user, and the attempts in flight in them, are finitely many.
LEMMA SlotsFinite ==
  ASSUME NEW u
  PROVE  /\ IsFiniteSet(SlotsOf(u)) /\ Cardinality(SlotsOf(u)) \in Nat
         /\ IsFiniteSet(InFlight(u)) /\ Cardinality(InFlight(u)) \in Nat
         /\ Cardinality(InFlight(u)) <= Cardinality(SlotsOf(u))
<1>1. IsFiniteSet(SlotsOf(u))
  BY SlotsAssumption, FS_Subset DEF SlotsOf
<1>2. InFlight(u) \in SUBSET SlotsOf(u)
  BY DEF InFlight
<1>3. IsFiniteSet(InFlight(u)) /\ Cardinality(InFlight(u)) <= Cardinality(SlotsOf(u))
  BY <1>1, <1>2, FS_Subset
<1> QED
  BY <1>1, <1>3, FS_CardinalityType

\* Reserves are monotone in the number of attempts they are for.
LEMMA Reserve ==
  ASSUME NEW m \in Nat, NEW n \in Nat
  PROVE  /\ MaxCost * m \in Nat
         /\ MaxCost * (m + 1) = MaxCost * m + MaxCost
         /\ m <= n => MaxCost * m <= MaxCost * n
BY MaxCostAssumption

\* A step that adds neither cost to the log nor attempts in flight keeps the bound.
LEMMA StepBound ==
  ASSUME TypeOK, TypeOK', NEW u \in Users, Bound(u),
         spent'[u] <= spent[u], InFlight(u)' \subseteq InFlight(u)
  PROVE  Bound(u)'
<1> DEFINE m == Cardinality(InFlight(u)')
           n == Cardinality(InFlight(u))
<1>1. n \in Nat /\ m \in Nat /\ m <= n
  BY SlotsFinite, FS_Subset, FS_CardinalityType
<1>2. MaxCost * m <= MaxCost * n /\ MaxCost * m \in Nat /\ MaxCost * n \in Nat
  BY <1>1, Reserve
<1>3. SlotsOf(u)' = SlotsOf(u)
  BY DEF SlotsOf
<1>4. Cardinality(SlotsOf(u)) \in Nat /\ MaxCost * Cardinality(SlotsOf(u)) \in Nat
  BY SlotsFinite, Reserve
<1>5. spent[u] \in Nat /\ spent'[u] \in Nat
  BY DEF TypeOK
<1>6. spent[u] + MaxCost * n < Cap + MaxCost * Cardinality(SlotsOf(u))
  BY DEF Bound
<1>7. spent'[u] + MaxCost * m < Cap + MaxCost * Cardinality(SlotsOf(u))
  <2> HIDE DEF m, n
  <2> QED
    BY <1>2, <1>4, <1>5, <1>6, CapAssumption
<1> QED
  BY <1>3, <1>7 DEF Bound

\* A passed check: the log is under the cap, and the attempts in flight, this one
\* included, are no more than the slots.
LEMMA PassedCheckBound ==
  ASSUME TypeOK, NEW u \in Users, spent'[u] = spent[u], spent[u] < Cap
  PROVE  Bound(u)'
<1> DEFINE m == Cardinality(InFlight(u)')
           n == Cardinality(SlotsOf(u))
<1>1. SlotsOf(u)' = SlotsOf(u) /\ InFlight(u)' \in SUBSET SlotsOf(u)
  BY DEF SlotsOf, InFlight
<1>2. m \in Nat /\ n \in Nat /\ m <= n
  BY <1>1, SlotsFinite, FS_Subset, FS_CardinalityType
<1>3. MaxCost * m <= MaxCost * n /\ MaxCost * m \in Nat /\ MaxCost * n \in Nat
  BY <1>2, Reserve
<1>4. spent'[u] + MaxCost * m < Cap + MaxCost * n
  <2> HIDE DEF m, n
  <2> QED
    BY <1>3, CapAssumption DEF TypeOK
<1> QED
  BY <1>1, <1>4 DEF Bound

\* A logged attempt: its cost, at most MaxCost, takes the place of its reserve.
LEMMA LoggedBound ==
  ASSUME TypeOK, TypeOK', NEW c \in Slots, NEW u \in Users, LogUsage(c), Bound(u)
  PROVE  Bound(u)'
<1> USE DEF LogUsage, Goto
<1>1. CASE u # Caller[c]
  <2>1. InFlight(u)' = InFlight(u) /\ spent'[u] = spent[u]
    BY <1>1 DEF TypeOK, InFlight, SlotsOf
  <2> QED
    BY <2>1, StepBound DEF TypeOK
<1>2. CASE u = Caller[c]
  <2> DEFINE m == Cardinality(InFlight(u)')
             n == Cardinality(InFlight(u))
             k == Cardinality(SlotsOf(u))
  <2>1. c \in InFlight(u) /\ InFlight(u)' = InFlight(u) \ {c}
    BY <1>2 DEF TypeOK, InFlight, SlotsOf
  <2>2. m \in Nat /\ n = m + 1
    <3>1. m = n - 1 /\ IsFiniteSet(InFlight(u)')
      BY <2>1, SlotsFinite, FS_RemoveElement
    <3> QED
      BY <3>1, SlotsFinite, FS_CardinalityType
  <2>3. MaxCost * n = MaxCost * m + MaxCost /\ MaxCost * m \in Nat
    BY <2>2, Reserve
  <2>4. k \in Nat /\ MaxCost * k \in Nat
    BY SlotsFinite, Reserve
  <2>5. spent'[u] = spent[u] + cost[c] /\ cost[c] \in 0..MaxCost /\ spent[u] \in Nat
    BY <1>2 DEF TypeOK
  <2>6. spent[u] + MaxCost * n < Cap + MaxCost * k
    BY DEF Bound
  <2>7. spent'[u] + MaxCost * m < Cap + MaxCost * k
    <3> HIDE DEF m, n, k
    <3> QED
      BY <2>3, <2>4, <2>5, <2>6, CapAssumption, MaxCostAssumption
  <2>8. SlotsOf(u)' = SlotsOf(u)
    BY DEF SlotsOf
  <2> QED
    BY <2>7, <2>8 DEF Bound
<1> QED
  BY <1>1, <1>2

\* Every other step of a slot adds no attempt and no cost.
QuietStep(c) ==
  \/ CallStart(c)       \/ TurnCheck(c)     \/ ProviderReply(c) \/ ProviderError(c)
  \/ ProviderReplyLost(c) \/ LogUsageFails(c) \/ ReplyAccepted(c) \/ ReplyTruncated(c)
  \/ ReplyInvalid(c)    \/ Return(c)

\* No attempt is added by a verdict, an error or the end of a call.
LEMMA QuietSteps ==
  ASSUME TypeOK, NEW c \in Slots, QuietStep(c)
  PROVE  spent' = spent /\ \A u \in Users : InFlight(u)' \subseteq InFlight(u)
<1> USE DEF TypeOK, InFlight, SlotsOf, Goto
<1>1. CASE CallStart(c) \/ TurnCheck(c)
  BY <1>1 DEF CallStart, TurnCheck
<1>2. CASE ProviderReply(c) \/ ProviderError(c) \/ ProviderReplyLost(c)
  BY <1>2 DEF ProviderReply, ProviderError, ProviderReplyLost
<1>3. CASE LogUsageFails(c)
  BY <1>3 DEF LogUsageFails
<1>4. CASE ReplyAccepted(c) \/ ReplyTruncated(c) \/ ReplyInvalid(c)
  BY <1>4 DEF ReplyAccepted, ReplyTruncated, ReplyInvalid
<1>5. CASE Return(c)
  BY <1>5 DEF Return
<1> QED
  BY <1>1, <1>2, <1>3, <1>4, <1>5 DEF QuietStep

\* A budget check that passes found the log of its own user under the cap.
LEMMA BudgetChecks ==
  ASSUME TypeOK, NEW c \in Slots, BudgetCheck(c), NEW u \in Users
  PROVE  /\ spent' = spent
         /\ InFlight(u)' \subseteq InFlight(u) \/ spent[u] < Cap
BY CapAssumption DEF BudgetCheck, Goto, TypeOK, InFlight, SlotsOf

\* At the start nothing is spent, and the cap is positive.
LEMMA InitBound == Init => OvershootBound
<1> SUFFICES ASSUME Init, NEW u \in Users PROVE Bound(u)
  BY DEF OvershootBound, Bound
<1> DEFINE n == Cardinality(SlotsOf(u))
<1>1. InFlight(u) = {}
  BY DEF Init, InFlight, SlotsOf
<1>2. MaxCost * n \in Nat /\ MaxCost * 0 = 0
  BY SlotsFinite, Reserve, MaxCostAssumption
<1>3. spent[u] + MaxCost * 0 < Cap + MaxCost * n
  <2> HIDE DEF n
  <2> QED
    BY <1>2, CapAssumption DEF Init
<1> QED
  BY <1>1, <1>3, FS_EmptySet DEF Bound

\* The bound is inductive as it stands.
LEMMA NextBound == TypeOK /\ TypeOK' /\ OvershootBound /\ [Next]_vars => OvershootBound'
<1> SUFFICES ASSUME TypeOK, TypeOK', OvershootBound, [Next]_vars, NEW u \in Users
             PROVE  Bound(u)'
  BY DEF OvershootBound, Bound
<1>1. Bound(u)
  BY DEF OvershootBound, Bound
<1>2. spent[u] \in Nat
  BY DEF TypeOK
<1>3. ASSUME NEW c \in Slots, QuietStep(c) PROVE Bound(u)'
  BY <1>1, <1>2, <1>3, QuietSteps, StepBound
<1>4. ASSUME NEW c \in Slots, BudgetCheck(c) PROVE Bound(u)'
  BY <1>1, <1>2, <1>4, BudgetChecks, StepBound, PassedCheckBound
<1>5. ASSUME NEW c \in Slots, LogUsage(c) PROVE Bound(u)'
  BY <1>1, <1>5, LoggedBound
<1>6. ASSUME NEW v \in Users, AccountDeleted(v) PROVE Bound(u)'
  <2>1. spent'[u] <= spent[u] /\ InFlight(u)' = InFlight(u)
    BY <1>2, <1>6 DEF AccountDeleted, TypeOK, InFlight, SlotsOf
  <2> QED
    BY <1>1, <2>1, StepBound
<1>7. CASE MonthTurns
  <2>1. spent'[u] <= spent[u] /\ InFlight(u)' = InFlight(u)
    BY <1>2, <1>7 DEF MonthTurns, InFlight, SlotsOf
  <2> QED
    BY <1>1, <2>1, StepBound
<1>8. CASE Crash
  <2>1. spent' = spent /\ InFlight(u)' \subseteq InFlight(u)
    BY <1>8 DEF Crash, TypeOK, InFlight, SlotsOf
  <2> QED
    BY <1>1, <1>2, <2>1, StepBound
<1>9. CASE UNCHANGED vars
  <2>1. spent' = spent /\ InFlight(u)' = InFlight(u)
    BY <1>9 DEF vars, InFlight, SlotsOf
  <2> QED
    BY <1>1, <1>2, <2>1, StepBound
<1> QED
  BY <1>3, <1>4, <1>5, <1>6, <1>7, <1>8, <1>9 DEF Next, Progress, QuietStep

\* The documented overshoot of the monthly budget is bounded: whatever the calls in
\* flight, their retries, lost logs, crashes and deletions, the logged spend stays
\* under the cap plus one attempt per slot.
THEOREM SpendBounded == Spec => []OvershootBound
BY TypeCorrect, InitBound, NextBound, PTL DEF Spec

\* Once the log has reached the cap no attempt passes the budget check, retries included.
THEOREM CapStopsAttempts == Spec => NoNewAttemptOverCap
<1>1. TypeOK /\ [Next]_vars
      => [\A u \in Users : spent[u] >= Cap => InFlight(u)' \subseteq InFlight(u)]_vars
  <2> SUFFICES ASSUME TypeOK, Next, NEW u \in Users, spent[u] >= Cap
               PROVE  InFlight(u)' \subseteq InFlight(u)
    OBVIOUS
  <2>1. ~(spent[u] < Cap)
    BY CapAssumption DEF TypeOK
  <2>2. ASSUME NEW c \in Slots, QuietStep(c) PROVE InFlight(u)' \subseteq InFlight(u)
    BY <2>2, QuietSteps
  <2>3. ASSUME NEW c \in Slots, BudgetCheck(c) PROVE InFlight(u)' \subseteq InFlight(u)
    BY <2>1, <2>3, BudgetChecks
  <2>4. ASSUME NEW c \in Slots, LogUsage(c) PROVE InFlight(u)' \subseteq InFlight(u)
    BY <2>4 DEF LogUsage, Goto, TypeOK, InFlight, SlotsOf
  <2>5. CASE (\E v \in Users : AccountDeleted(v)) \/ MonthTurns
    BY <2>5 DEF AccountDeleted, MonthTurns, InFlight, SlotsOf
  <2>6. CASE Crash
    BY <2>6 DEF Crash, TypeOK, InFlight, SlotsOf
  <2> QED
    BY <2>2, <2>3, <2>4, <2>5, <2>6 DEF Next, Progress, QuietStep
<1> QED
  BY <1>1, TypeCorrect, PTL DEF Spec, NoNewAttemptOverCap

\* A paid reply is kept whatever happens to its usage row.
THEOREM PaidRepliesKept == Spec => PaidReplyKept
<1>1. TypeOK /\ [Next]_vars
      => [\A c \in Slots :
            phase[c] = "logging" => phase'[c] \in {"logging", "validating", "dropped"}]_vars
  <2> SUFFICES ASSUME TypeOK, Next, NEW c \in Slots, phase[c] = "logging"
               PROVE  phase'[c] \in {"logging", "validating", "dropped"}
    OBVIOUS
  <2> USE DEF TypeOK, Goto
  <2>1. ASSUME NEW d \in Slots, SlotStep(d)
        PROVE  phase'[c] \in {"logging", "validating", "dropped"}
    BY <2>1 DEF SlotStep, Progress, CallStart, TurnCheck, BudgetCheck, ProviderReply,
       ProviderError, ProviderReplyLost, LogUsage, LogUsageFails, ReplyAccepted,
       ReplyTruncated, ReplyInvalid, Return
  <2>2. CASE (\E v \in Users : AccountDeleted(v)) \/ MonthTurns
    BY <2>2 DEF AccountDeleted, MonthTurns
  <2>3. CASE Crash
    BY <2>3 DEF Crash
  <2> QED
    BY <2>1, <2>2, <2>3 DEF Next, SlotStep
<1> QED
  BY <1>1, TypeCorrect, PTL DEF Spec, PaidReplyKept

-----------------------------------------------------------------------------
(***************************************************************************)
(* What was billed.  A bill is in the log, or in a reply that waits to be  *)
(* logged, unless track of it was lost: no more is billed than the log and *)
(* the replies in hand hold together.  Replies of an earlier month may be  *)
(* in hand, so it may be less.                                             *)
(***************************************************************************)

InHand(u) == {c \in SlotsOf(u) : phase[c] = "logging"}

Covered(sum, u) == ~untracked[u] => real[u] <= spent[u] + sum[InHand(u)]

BillsCovered == \E sum : IsTally(sum, Slots, cost) /\ \A u \in Users : Covered(sum, u)

\* Replies in hand are of attempts in flight.
LEMMA InHandFinite ==
  ASSUME NEW u
  PROVE  InHand(u) \in SUBSET Slots /\ InHand(u) \in SUBSET InFlight(u)
BY DEF InHand, InFlight, SlotsOf

\* The sums stay what they are: nothing is billed of a user on track, and no reply of
\* such a user leaves the hand without being logged.
LEMMA SameSums ==
  ASSUME TypeOK, BillsCovered, cost' = cost,
         \A u \in Users : ~untracked'[u] =>
            \/ /\ ~untracked[u]
               /\ real'[u] = real[u] /\ spent'[u] = spent[u] /\ InHand(u)' = InHand(u)
            \/ real'[u] = 0 /\ spent'[u] \in Nat
  PROVE  BillsCovered'
<1>1. PICK sum : IsTally(sum, Slots, cost) /\ \A u \in Users : Covered(sum, u)
  BY DEF BillsCovered
<1>2. ASSUME NEW u \in Users, ~untracked'[u]
      PROVE  real'[u] <= spent'[u] + sum[InHand(u)']
  <2>1. CASE /\ ~untracked[u]
             /\ real'[u] = real[u] /\ spent'[u] = spent[u] /\ InHand(u)' = InHand(u)
    BY <1>1, <2>1 DEF Covered
  <2>2. CASE real'[u] = 0 /\ spent'[u] \in Nat
    <3>1. sum[InHand(u)'] \in Nat
      BY <1>1 DEF IsTally, InHand, SlotsOf
    <3> QED
      BY <2>2, <3>1
  <2> QED
    BY <1>2, <2>1, <2>2
<1>3. IsTally(sum, Slots, cost')
  BY <1>1
<1> QED
  BY <1>2, <1>3 DEF BillsCovered, Covered

\* The cost of a slot is set anew: the reply it then has in hand is of that cost, and
\* nobody else's is touched.
LEMMA NewCost ==
  ASSUME TypeOK, TypeOK', BillsCovered, NEW c \in Slots,
         phase[c] # "logging",
         \A d \in Slots \ {c} : cost'[d] = cost[d] /\ phase'[d] = phase[d],
         spent' = spent, untracked' = untracked,
         \A u \in Users : ~untracked[u] =>
            real'[u] <= real[u] + (IF u = Caller[c] /\ phase'[c] = "logging" THEN cost'[c] ELSE 0)
  PROVE  BillsCovered'
<1>1. PICK sum : IsTally(sum, Slots, cost) /\ \A u \in Users : Covered(sum, u)
  BY DEF BillsCovered
<1>2. PICK new : IsTally(new, Slots, cost') /\ IsReweighed(new, sum, Slots, c, cost'[c])
  <2>1. cost'[c] \in Nat /\ \A d \in Slots \ {c} : cost'[d] = cost[d] /\ cost[d] \in Nat
    BY MaxCostAssumption DEF TypeOK
  <2> QED
    BY <1>1, <2>1, TallyUpdated
<1>3. ASSUME NEW u \in Users, ~untracked[u]
      PROVE  real'[u] <= spent'[u] + new[InHand(u)']
  <2>1. InHand(u) \in SUBSET Slots /\ InHand(u)' \in SUBSET Slots /\ c \notin InHand(u)
    BY DEF InHand, SlotsOf
  <2>2. real[u] <= spent[u] + sum[InHand(u)] /\ sum[InHand(u)] \in Nat
    BY <1>1, <1>3, <2>1 DEF Covered, IsTally
  <2>3. real[u] \in Nat /\ real'[u] \in Nat /\ spent[u] \in Nat /\ cost'[c] \in Nat
    BY MaxCostAssumption DEF TypeOK
  <2>4. CASE u = Caller[c] /\ phase'[c] = "logging"
    <3>1. c \in InHand(u)' /\ InHand(u)' \ {c} = InHand(u)
      BY <2>4 DEF InHand, SlotsOf
    <3>2. new[InHand(u)'] = sum[InHand(u)] + cost'[c]
      BY <1>2, <2>1, <3>1 DEF IsReweighed
    <3>3. real'[u] <= real[u] + cost'[c]
      BY <1>3, <2>4
    <3> QED
      BY <2>2, <2>3, <3>2, <3>3
  <2>5. CASE ~(u = Caller[c] /\ phase'[c] = "logging")
    <3>1. InHand(u)' = InHand(u)
      BY <2>5 DEF InHand, SlotsOf
    <3>2. new[InHand(u)'] = sum[InHand(u)]
      BY <1>2, <2>1, <3>1 DEF IsReweighed
    <3>3. real'[u] <= real[u] + 0
      BY <1>3, <2>5
    <3> QED
      BY <2>2, <2>3, <3>2, <3>3
  <2> QED
    BY <2>4, <2>5
<1> QED
  BY <1>2, <1>3 DEF BillsCovered, Covered

\* A logged reply leaves the hand for the log.
LEMMA LoggedCovered ==
  ASSUME TypeOK, BillsCovered, NEW c \in Slots, LogUsage(c)
  PROVE  BillsCovered'
<1> USE DEF LogUsage, Goto
<1>1. PICK sum : IsTally(sum, Slots, cost) /\ \A u \in Users : Covered(sum, u)
  BY DEF BillsCovered
<1>2. ASSUME NEW u \in Users, ~untracked'[u]
      PROVE  real'[u] <= spent'[u] + sum[InHand(u)']
  <2>1. InHand(u) \in SUBSET Slots /\ InHand(u)' \in SUBSET Slots
    BY DEF InHand, SlotsOf
  <2>2. real[u] <= spent[u] + sum[InHand(u)] /\ sum[InHand(u)] \in Nat /\ sum[InHand(u)'] \in Nat
    BY <1>1, <1>2, <2>1 DEF Covered, IsTally
  <2>3. real[u] \in Nat /\ spent[u] \in Nat /\ cost[c] \in Nat
    BY MaxCostAssumption DEF TypeOK
  <2>4. CASE u = Caller[c]
    <3>1. c \in InHand(u) /\ InHand(u)' = InHand(u) \ {c} /\ spent'[u] = spent[u] + cost[c]
      BY <2>4 DEF TypeOK, InHand, SlotsOf
    <3>2. sum[InHand(u)] = sum[InHand(u)'] + cost[c]
      BY <1>1, <2>1, <3>1, TallyRemove
    <3>3. real'[u] = real[u]
      OBVIOUS
    <3> QED
      BY <2>2, <2>3, <3>1, <3>2, <3>3
  <2>5. CASE u # Caller[c]
    <3>1. InHand(u)' = InHand(u) /\ spent'[u] = spent[u] /\ real'[u] = real[u]
      BY <2>5 DEF TypeOK, InHand, SlotsOf
    <3> QED
      BY <2>2, <3>1
  <2> QED
    BY <2>4, <2>5
<1>3. IsTally(sum, Slots, cost')
  BY <1>1
<1> QED
  BY <1>2, <1>3 DEF BillsCovered, Covered

\* A bill goes to the replies in hand, from there to the log, or is lost track of.
LEMMA SlotCovers ==
  ASSUME TypeOK, TypeOK', BillsCovered, NEW c \in Slots, SlotStep(c)
  PROVE  BillsCovered'
<1> USE DEF TypeOK, Goto, InHand, SlotsOf
<1>1. CASE CallStart(c) \/ TurnCheck(c) \/ BudgetCheck(c) \/ ProviderError(c)
  <2>1. cost' = cost /\ spent' = spent /\ real' = real /\ untracked' = untracked
    BY <1>1 DEF CallStart, TurnCheck, BudgetCheck, ProviderError
  <2>2. \A u \in Users : InHand(u)' = InHand(u)
    BY <1>1 DEF CallStart, TurnCheck, BudgetCheck, ProviderError
  <2> QED
    BY <2>1, <2>2, SameSums
<1>2. CASE ReplyAccepted(c) \/ ReplyTruncated(c) \/ ReplyInvalid(c)
  <2>1. cost' = cost /\ spent' = spent /\ real' = real /\ untracked' = untracked
    BY <1>2 DEF ReplyAccepted, ReplyTruncated, ReplyInvalid
  <2>2. \A u \in Users : InHand(u)' = InHand(u)
    BY <1>2 DEF ReplyAccepted, ReplyTruncated, ReplyInvalid
  <2> QED
    BY <2>1, <2>2, SameSums
<1>3. CASE ProviderReplyLost(c) \/ LogUsageFails(c)
  <2>1. cost' = cost /\ spent' = spent
    BY <1>3 DEF ProviderReplyLost, LogUsageFails
  <2>2. untracked'[Caller[c]] /\ Caller[c] \in Users
    BY <1>3, CallerAssumption DEF ProviderReplyLost, LogUsageFails, LoseTrack
  <2>3. \A u \in Users \ {Caller[c]} :
          /\ untracked'[u] = untracked[u] /\ real'[u] = real[u]
          /\ InHand(u)' = InHand(u)
    BY <1>3 DEF ProviderReplyLost, LogUsageFails, LoseTrack
  <2> HIDE DEF TypeOK, InHand
  <2> QED
    BY <2>1, <2>2, <2>3, SameSums
<1>4. CASE ProviderReply(c)
  <2>1. /\ phase[c] # "logging" /\ phase'[c] = "logging" /\ spent' = spent /\ untracked' = untracked
        /\ \A d \in Slots \ {c} : cost'[d] = cost[d] /\ phase'[d] = phase[d]
    BY <1>4 DEF ProviderReply, Billed
  <2>2. \A u \in Users : ~untracked[u] =>
          real'[u] <= real[u] + (IF u = Caller[c] /\ phase'[c] = "logging" THEN cost'[c] ELSE 0)
    BY <1>4, <2>1, CallerAssumption, MaxCostAssumption DEF ProviderReply, Billed
  <2> HIDE DEF TypeOK, InHand
  <2> QED
    BY <2>1, <2>2, NewCost
<1>5. CASE Return(c)
  <2>1. /\ phase[c] # "logging" /\ phase'[c] # "logging" /\ spent' = spent
        /\ untracked' = untracked /\ real' = real
        /\ \A d \in Slots \ {c} : cost'[d] = cost[d] /\ phase'[d] = phase[d]
    BY <1>5 DEF Return
  <2>2. \A u \in Users : ~untracked[u] =>
          real'[u] <= real[u] + (IF u = Caller[c] /\ phase'[c] = "logging" THEN cost'[c] ELSE 0)
    BY <2>1
  <2> HIDE DEF TypeOK, InHand
  <2> QED
    BY <2>1, <2>2, NewCost
<1>6. CASE LogUsage(c)
  BY <1>6, LoggedCovered
<1> QED
  BY <1>1, <1>2, <1>3, <1>4, <1>5, <1>6 DEF SlotStep, Progress

\* At the start nothing is billed.
LEMMA InitCovered == Init => BillsCovered
<1> SUFFICES ASSUME Init PROVE BillsCovered
  OBVIOUS
<1> DEFINE sum == [A \in SUBSET Slots |-> 0]
<1>1. IsTally(sum, Slots, cost)
  BY TallyOfNothing DEF Init
<1>2. \A u \in Users : real[u] <= spent[u] + sum[InHand(u)]
  BY InHandFinite DEF Init
<1> QED
  BY <1>1, <1>2 DEF BillsCovered, Covered

\* Bills stay covered through deletions, turns of the month and crashes as well.
LEMMA NextCovered == TypeOK /\ TypeOK' /\ BillsCovered /\ [Next]_vars => BillsCovered'
<1> SUFFICES ASSUME TypeOK, TypeOK', BillsCovered, [Next]_vars PROVE BillsCovered'
  OBVIOUS
<1>1. ASSUME NEW c \in Slots, SlotStep(c) PROVE BillsCovered'
  BY <1>1, SlotCovers
<1>2. ASSUME NEW v \in Users, AccountDeleted(v) PROVE BillsCovered'
  <2>1. cost' = cost /\ untracked'[v]
    BY <1>2 DEF AccountDeleted, LoseTrack, TypeOK
  <2>2. \A u \in Users \ {v} :
          /\ untracked'[u] = untracked[u] /\ real'[u] = real[u] /\ spent'[u] = spent[u]
          /\ InHand(u)' = InHand(u)
    BY <1>2 DEF AccountDeleted, LoseTrack, TypeOK, InHand, SlotsOf
  <2> QED
    BY <2>1, <2>2, SameSums
<1>3. CASE MonthTurns
  <2>1. cost' = cost /\ \A u \in Users : real'[u] = 0 /\ spent'[u] \in Nat
    BY <1>3 DEF MonthTurns
  <2> QED
    BY <2>1, SameSums
<1>4. CASE Crash
  <2>1. cost' = cost /\ spent' = spent
    BY <1>4 DEF Crash
  <2>2. \A u \in Users : ~untracked'[u] => ~untracked[u] /\ real'[u] = real[u] /\ InFlight(u) = {}
    BY <1>4 DEF Crash
  <2>3. \A u \in Users : InFlight(u) = {} => InHand(u)' = InHand(u)
    BY <1>4 DEF Crash, InFlight, InHand, SlotsOf, TypeOK
  <2> QED
    BY <2>1, <2>2, <2>3, SameSums
<1>5. CASE UNCHANGED vars
  <2>1. cost' = cost /\ spent' = spent /\ real' = real /\ untracked' = untracked
    BY <1>5 DEF vars
  <2>2. \A u \in Users : InHand(u)' = InHand(u)
    BY <1>5 DEF vars, InHand, SlotsOf
  <2> QED
    BY <2>1, <2>2, SameSums
<1> QED
  BY <1>1, <1>2, <1>3, <1>4, <1>5 DEF Next, SlotStep

\* The replies in hand are attempts in flight, whose reserve covers them.
LEMMA CoveredIsBounded == TypeOK /\ OvershootBound /\ BillsCovered => RealSpendBound
<1> SUFFICES ASSUME TypeOK, OvershootBound, BillsCovered, NEW u \in Users, ~untracked[u]
             PROVE  real[u] < Cap + MaxCost * Cardinality(SlotsOf(u))
  BY DEF RealSpendBound
<1> DEFINE h == Cardinality(InHand(u))
           n == Cardinality(InFlight(u))
           k == Cardinality(SlotsOf(u))
<1>1. PICK sum : IsTally(sum, Slots, cost) /\ Covered(sum, u)
  BY DEF BillsCovered
<1>2. \A c \in Slots : cost[c] \in 0..MaxCost
  BY DEF TypeOK
<1>3. MaxCost \in Nat
  BY MaxCostAssumption
<1>4. sum[InHand(u)] <= MaxCost * h
  BY <1>1, <1>2, <1>3, InHandFinite, SlotsAssumption, TallyBound
<1>5. sum[InHand(u)] \in Nat
  BY <1>1, InHandFinite DEF IsTally
<1>6. h \in Nat /\ n \in Nat /\ h <= n /\ k \in Nat
  BY InHandFinite, SlotsFinite, FS_Subset, FS_CardinalityType
<1>7. MaxCost * h <= MaxCost * n /\ MaxCost * h \in Nat /\ MaxCost * n \in Nat /\ MaxCost * k \in Nat
  BY <1>6, Reserve
<1>8. spent[u] + MaxCost * n < Cap + MaxCost * k
  BY DEF OvershootBound
<1>9. real[u] <= spent[u] + sum[InHand(u)]
  BY <1>1 DEF Covered
<1>10. real[u] \in Nat /\ spent[u] \in Nat /\ Cap \in Nat
  BY CapAssumption DEF TypeOK
<1> HIDE DEF h, n, k
<1>11. real[u] < Cap + MaxCost * k
  BY <1>4, <1>5, <1>7, <1>8, <1>9, <1>10
<1> QED
  BY <1>11 DEF k

\* What the provider really bills is bounded as the log is, as long as every bill has
\* reached it: replies paid for and not logged yet were reserved at their dearest.
THEOREM RealSpendBounded == Spec => []RealSpendBound
<1>1. Spec => []BillsCovered
  BY TypeCorrect, InitCovered, NextCovered, PTL DEF Spec
<1> QED
  BY <1>1, TypeCorrect, SpendBounded, CoveredIsBounded, PTL

-----------------------------------------------------------------------------
(***************************************************************************)
(* The layer implements MeteredLedger.  Every step leaves the attempts in  *)
(* flight of every user but one alone, and of that one adds or removes the *)
(* slot that moves.                                                        *)
(***************************************************************************)

\* A slot that is no attempt in flight becomes one: its user had a lane to spare.
LEMMA AttemptReserved ==
  ASSUME TypeOK, NEW c \in Slots, phase[c] \notin Unlogged, phase'[c] \in Unlogged,
         \A d \in Slots \ {c} : phase'[d] = phase[d]
  PROVE  /\ Reserved[Caller[c]] < Lanes[Caller[c]]
         /\ Reserved' = [Reserved EXCEPT ![Caller[c]] = @ + 1]
<1> DEFINE u == Caller[c]
<1>1. u \in Users /\ c \in SlotsOf(u) /\ c \notin InFlight(u)
  BY CallerAssumption DEF SlotsOf, InFlight
<1>2. InFlight(u)' = InFlight(u) \cup {c}
  BY <1>1 DEF SlotsOf, InFlight
<1>3. \A v \in Users \ {u} : InFlight(v)' = InFlight(v)
  BY DEF SlotsOf, InFlight
<1>4. Cardinality(InFlight(u)') = Cardinality(InFlight(u)) + 1
  BY <1>1, <1>2, SlotsFinite, FS_AddElement
<1>5. Cardinality(InFlight(u)') <= Cardinality(SlotsOf(u))
  BY <1>1, <1>2, SlotsFinite, FS_Subset DEF InFlight
<1>6. Cardinality(InFlight(u)) < Cardinality(SlotsOf(u))
  BY <1>4, <1>5, SlotsFinite
<1> QED
  BY <1>1, <1>3, <1>4, <1>6 DEF Reserved, Lanes

\* An attempt in flight ends.
LEMMA AttemptReleased ==
  ASSUME TypeOK, NEW c \in Slots, phase[c] \in Unlogged, phase'[c] \notin Unlogged,
         \A d \in Slots \ {c} : phase'[d] = phase[d]
  PROVE  /\ Reserved[Caller[c]] > 0
         /\ Reserved' = [Reserved EXCEPT ![Caller[c]] = @ - 1]
<1> DEFINE u == Caller[c]
<1>1. u \in Users /\ c \in InFlight(u)
  BY CallerAssumption DEF SlotsOf, InFlight
<1>2. InFlight(u)' = InFlight(u) \ {c}
  BY <1>1 DEF SlotsOf, InFlight
<1>3. \A v \in Users \ {u} : InFlight(v)' = InFlight(v)
  BY DEF SlotsOf, InFlight
<1>4. Cardinality(InFlight(u)') = Cardinality(InFlight(u)) - 1
  BY <1>1, <1>2, SlotsFinite, FS_RemoveElement
<1>5. Cardinality(InFlight(u)) > 0
  BY <1>1, SlotsFinite, FS_EmptySet
<1> QED
  BY <1>1, <1>3, <1>4, <1>5 DEF Reserved

\* A slot that stays in flight, or out of it, changes no reservation.
LEMMA AttemptUnmoved ==
  ASSUME NEW c \in Slots, phase'[c] \in Unlogged <=> phase[c] \in Unlogged,
         \A d \in Slots \ {c} : phase'[d] = phase[d]
  PROVE  Reserved' = Reserved
<1>1. \A u \in Users : InFlight(u)' = InFlight(u)
  BY DEF SlotsOf, InFlight
<1> QED
  BY <1>1 DEF Reserved

\* A step of a slot takes, charges or gives back a reservation, or does not show.
LEMMA SlotImplements ==
  ASSUME TypeOK, NEW c \in Slots, SlotStep(c)
  PROVE  [Ledger!Next]_(Ledger!vars)
<1> DEFINE u == Caller[c]
           Quiet == UNCHANGED spent /\ (phase'[c] \in Unlogged <=> phase[c] \in Unlogged)
           Ends == UNCHANGED spent /\ phase[c] \in Unlogged /\ phase'[c] \notin Unlogged
<1>1. u \in Users /\ spent[u] \in Nat /\ cost[c] \in 0..MaxCost
  BY CallerAssumption DEF TypeOK
<1>2. \A d \in Slots \ {c} : phase'[d] = phase[d]
  BY DEF SlotStep, Progress, CallStart, TurnCheck, BudgetCheck, ProviderReply,
     ProviderError, ProviderReplyLost, LogUsage, LogUsageFails, ReplyAccepted,
     ReplyTruncated, ReplyInvalid, Return, Goto, TypeOK
<1>3. CASE Quiet
  BY <1>2, <1>3, AttemptUnmoved DEF Ledger!vars
<1>4. CASE Ends
  <2>1. Ledger!Release(u)
    BY <1>2, <1>4, AttemptReleased DEF Ledger!Release
  <2> QED
    BY <1>1, <2>1 DEF Ledger!Next
<1>5. CASE BudgetCheck(c)
  <2>1. CASE phase'[c] # "sending"
    BY <1>3, <1>5, <2>1 DEF BudgetCheck, Goto, TypeOK
  <2>2. CASE phase'[c] = "sending"
    <3>1. phase[c] = "budgetCheck" /\ spent[u] < Cap /\ UNCHANGED spent
      BY <1>1, <1>5, <2>2, CapAssumption DEF BudgetCheck, Goto, TypeOK
    <3>2. Ledger!Reserve(u)
      BY <1>2, <2>2, <3>1, AttemptReserved DEF Ledger!Reserve
    <3> QED
      BY <1>1, <3>2 DEF Ledger!Next
  <2> QED
    BY <2>1, <2>2
<1>6. CASE LogUsage(c)
  <2>1. /\ phase[c] = "logging" /\ phase'[c] = "validating"
        /\ spent' = [spent EXCEPT ![u] = @ + cost[c]]
    BY <1>6 DEF LogUsage, Goto, TypeOK
  <2>2. Reserved[u] > 0 /\ Reserved' = [Reserved EXCEPT ![u] = @ - 1]
    BY <1>2, <2>1, AttemptReleased
  <2>3. Ledger!Charge(u)
    BY <1>1, <2>1, <2>2 DEF Ledger!Charge
  <2> QED
    BY <1>1, <2>3 DEF Ledger!Next
<1>7. CASE CallStart(c) \/ TurnCheck(c) \/ Return(c) \/ ProviderReply(c)
  BY <1>3, <1>7 DEF CallStart, TurnCheck, Return, ProviderReply, Goto, TypeOK
<1>8. CASE ReplyAccepted(c) \/ ReplyTruncated(c) \/ ReplyInvalid(c)
  BY <1>3, <1>8 DEF ReplyAccepted, ReplyTruncated, ReplyInvalid, Goto, TypeOK
<1>9. CASE ProviderError(c) \/ ProviderReplyLost(c) \/ LogUsageFails(c)
  BY <1>4, <1>9 DEF ProviderError, ProviderReplyLost, LogUsageFails, Goto, TypeOK
<1> QED
  BY <1>5, <1>6, <1>7, <1>8, <1>9 DEF SlotStep, Progress

\* Every behaviour of the layer is one of MeteredLedger: a usage row is written only
\* for an attempt that passed the budget check under the cap, and once.
THEOREM LayerImplementsLedger == Spec => ImplementsLedger
<1>1. Init => Ledger!Init
  <2> SUFFICES ASSUME Init PROVE Ledger!Init
    OBVIOUS
  <2>1. \A u \in Users : InFlight(u) = {}
    BY DEF Init, InFlight, SlotsOf
  <2>2. Reserved = [u \in Users |-> 0]
    BY <2>1, FS_EmptySet DEF Reserved
  <2> QED
    BY <2>2 DEF Init, Ledger!Init
<1>2. TypeOK /\ [Next]_vars => [Ledger!Next]_(Ledger!vars)
  <2> SUFFICES ASSUME TypeOK, [Next]_vars PROVE [Ledger!Next]_(Ledger!vars)
    OBVIOUS
  <2>1. ASSUME NEW c \in Slots, SlotStep(c) PROVE [Ledger!Next]_(Ledger!vars)
    BY <2>1, SlotImplements
  <2>2. ASSUME NEW u \in Users, AccountDeleted(u) PROVE [Ledger!Next]_(Ledger!vars)
    <3>1. Ledger!Forget(u)
      BY <2>2 DEF AccountDeleted, Ledger!Forget, Reserved, InFlight, SlotsOf
    <3> QED
      BY <2>2, <3>1 DEF Ledger!Next
  <2>3. CASE MonthTurns
    BY <2>3 DEF MonthTurns, Ledger!Next, Ledger!MonthTurns, Reserved, InFlight, SlotsOf
  <2>4. CASE Crash
    <3>1. \A u \in Users : InFlight(u)' = {}
      BY <2>4 DEF Crash, TypeOK, InFlight, SlotsOf
    <3>2. Reserved' = [u \in Users |-> 0]
      BY <3>1, FS_EmptySet DEF Reserved
    <3> QED
      BY <2>4, <3>2 DEF Crash, Ledger!Next, Ledger!Abandon
  <2>5. CASE UNCHANGED vars
    BY <2>5 DEF vars, Ledger!vars, Reserved, InFlight, SlotsOf
  <2> QED
    BY <2>1, <2>2, <2>3, <2>4, <2>5 DEF Next, SlotStep
<1> QED
  BY <1>1, <1>2, TypeCorrect, PTL DEF Spec, ImplementsLedger, Ledger!Spec

-----------------------------------------------------------------------------
(***************************************************************************)
(* The turn bound, by the reserve of the first attempts in flight.         *)
(***************************************************************************)

TurnBound(u) ==
  turns[u] + Cardinality(PendingTurns(u)) < MaxTurns + Cardinality(SlotsOf(u) \cap Talking)

LiveAttempts == \A c \in Slots : phase[c] \in Live => attempt[c] >= 1

\* Slots of a user in conversations, and turns reserved, are finitely many.
LEMMA TalkersFinite ==
  ASSUME NEW u
  PROVE  /\ IsFiniteSet(SlotsOf(u) \cap Talking) /\ Cardinality(SlotsOf(u) \cap Talking) \in Nat
         /\ IsFiniteSet(PendingTurns(u)) /\ Cardinality(PendingTurns(u)) \in Nat
         /\ Cardinality(PendingTurns(u)) <= Cardinality(SlotsOf(u) \cap Talking)
<1>1. IsFiniteSet(SlotsOf(u) \cap Talking)
  BY SlotsFinite, FS_Intersection
<1>2. PendingTurns(u) \in SUBSET (SlotsOf(u) \cap Talking)
  BY DEF PendingTurns
<1> QED
  BY <1>1, <1>2, FS_Subset, FS_CardinalityType

\* A step that reserves no turn and logs none.
LEMMA StepTurns ==
  ASSUME TypeOK, TypeOK', NEW u \in Users, TurnBound(u),
         turns'[u] <= turns[u], PendingTurns(u)' \subseteq PendingTurns(u)
  PROVE  TurnBound(u)'
<1>1. /\ Cardinality(PendingTurns(u)') \in Nat
      /\ Cardinality(PendingTurns(u)') <= Cardinality(PendingTurns(u))
  BY TalkersFinite, FS_Subset, FS_CardinalityType
<1>2. SlotsOf(u)' = SlotsOf(u)
  BY DEF SlotsOf
<1> QED
  BY <1>1, <1>2, TalkersFinite, MaxTurnsAssumption DEF TurnBound, TypeOK

\* A passed conversation guard found the limit not reached.
LEMMA PassedTurnCheck ==
  ASSUME TypeOK, NEW u \in Users, turns'[u] = turns[u], turns[u] < MaxTurns
  PROVE  TurnBound(u)'
<1>1. SlotsOf(u)' = SlotsOf(u) /\ PendingTurns(u)' \in SUBSET (SlotsOf(u) \cap Talking)
  BY DEF SlotsOf, PendingTurns
<1>2. /\ Cardinality(PendingTurns(u)') \in Nat
      /\ Cardinality(PendingTurns(u)') <= Cardinality(SlotsOf(u) \cap Talking)
  BY <1>1, TalkersFinite, FS_Subset, FS_CardinalityType
<1> QED
  BY <1>1, <1>2, TalkersFinite, MaxTurnsAssumption DEF TurnBound, TypeOK

\* A logged first attempt of a conversation takes the turn reserved for it.
LEMMA LoggedTurn ==
  ASSUME TypeOK, TypeOK', NEW c \in Slots, NEW u \in Users, LogUsage(c), TurnBound(u)
  PROVE  TurnBound(u)'
<1> USE DEF LogUsage, Goto
<1>1. CASE u = Caller[c] /\ c \in Talking /\ attempt[c] = 1
  <2>1. c \in PendingTurns(u) /\ PendingTurns(u)' = PendingTurns(u) \ {c}
    BY <1>1 DEF TypeOK, PendingTurns, SlotsOf
  <2>2. /\ Cardinality(PendingTurns(u)') = Cardinality(PendingTurns(u)) - 1
        /\ Cardinality(PendingTurns(u)') \in Nat
    BY <2>1, TalkersFinite, FS_RemoveElement, FS_CardinalityType
  <2>3. turns'[u] = turns[u] + 1 /\ SlotsOf(u)' = SlotsOf(u)
    BY <1>1 DEF TypeOK, SlotsOf
  <2> QED
    BY <2>2, <2>3, TalkersFinite, MaxTurnsAssumption DEF TurnBound, TypeOK
<1>2. CASE ~(u = Caller[c] /\ c \in Talking /\ attempt[c] = 1)
  <2>1. turns'[u] = turns[u] /\ PendingTurns(u)' \subseteq PendingTurns(u)
    BY <1>2 DEF TypeOK, PendingTurns, SlotsOf
  <2> QED
    BY <2>1, StepTurns DEF TypeOK
<1> QED
  BY <1>1, <1>2

\* The other steps of a slot.  A retry advances its attempt past the first.
LEMMA QuietTurns ==
  ASSUME TypeOK, LiveAttempts, NEW c \in Slots, QuietStep(c) \/ BudgetCheck(c), ~TurnCheck(c)
  PROVE  turns' = turns /\ \A u \in Users : PendingTurns(u)' \subseteq PendingTurns(u)
<1> USE DEF TypeOK, PendingTurns, SlotsOf, Goto
<1>1. CASE CallStart(c) \/ BudgetCheck(c)
  BY <1>1 DEF CallStart, BudgetCheck
<1>2. CASE ProviderReply(c) \/ ProviderError(c) \/ ProviderReplyLost(c)
  BY <1>2 DEF ProviderReply, ProviderError, ProviderReplyLost
<1>3. CASE LogUsageFails(c)
  BY <1>3 DEF LogUsageFails
<1>4. CASE ReplyAccepted(c) \/ ReplyTruncated(c)
  BY <1>4 DEF ReplyAccepted, ReplyTruncated
<1>5. CASE ReplyInvalid(c)
  BY <1>5 DEF ReplyInvalid, LiveAttempts
<1>6. CASE Return(c)
  BY <1>6 DEF Return
<1> QED
  BY <1>1, <1>2, <1>3, <1>4, <1>5, <1>6 DEF QuietStep

\* A turn check that passes found the conversation under its limit.
LEMMA TurnChecks ==
  ASSUME TypeOK, NEW c \in Slots, TurnCheck(c), NEW u \in Users
  PROVE  /\ turns' = turns
         /\ PendingTurns(u)' \subseteq PendingTurns(u) \/ turns[u] < MaxTurns
BY MaxTurnsAssumption DEF TurnCheck, Goto, TypeOK, PendingTurns, SlotsOf

\* At the start no turn is taken.
LEMMA InitTurns == Init => TurnsReserved
<1> SUFFICES ASSUME Init PROVE TurnsReserved
  OBVIOUS
<1>1. LiveAttempts
  BY DEF Init, LiveAttempts
<1>2. ASSUME NEW u \in Users PROVE TurnBound(u)
  <2>1. PendingTurns(u) = {} /\ turns[u] = 0
    BY DEF Init, PendingTurns, SlotsOf
  <2> QED
    BY <2>1, FS_EmptySet, TalkersFinite, MaxTurnsAssumption DEF TurnBound
<1> QED
  BY <1>1, <1>2 DEF TurnsReserved, TurnBound, LiveAttempts

\* A live call is in its first attempt or a later one.
LEMMA NextAttempts == TypeOK /\ LiveAttempts /\ [Next]_vars => LiveAttempts'
<1> SUFFICES ASSUME TypeOK, LiveAttempts, [Next]_vars, NEW c \in Slots, phase'[c] \in Live
             PROVE  attempt'[c] >= 1
  BY DEF LiveAttempts
<1> USE DEF TypeOK, LiveAttempts, Goto
<1>1. ASSUME NEW d \in Slots, SlotStep(d) PROVE attempt'[c] >= 1
  BY <1>1 DEF SlotStep, Progress, CallStart, TurnCheck, BudgetCheck, ProviderReply,
     ProviderError, ProviderReplyLost, LogUsage, LogUsageFails, ReplyAccepted,
     ReplyTruncated, ReplyInvalid, Return
<1>2. CASE (\E v \in Users : AccountDeleted(v)) \/ MonthTurns
  BY <1>2 DEF AccountDeleted, MonthTurns
<1>3. CASE Crash
  BY <1>3 DEF Crash
<1>4. CASE UNCHANGED vars
  BY <1>4 DEF vars
<1> QED
  BY <1>1, <1>2, <1>3, <1>4 DEF Next, SlotStep

\* The bound on turns, with first attempts past their guard counted, is inductive.
LEMMA NextTurnBound ==
  ASSUME TypeOK, TypeOK', LiveAttempts, [Next]_vars, NEW u \in Users, TurnBound(u)
  PROVE  TurnBound(u)'
<1>1. turns[u] \in Nat
  BY DEF TypeOK
<1>2. ASSUME NEW c \in Slots, QuietStep(c) \/ BudgetCheck(c), ~TurnCheck(c) PROVE TurnBound(u)'
  BY <1>1, <1>2, QuietTurns, StepTurns
<1>3. ASSUME NEW c \in Slots, TurnCheck(c) PROVE TurnBound(u)'
  BY <1>1, <1>3, TurnChecks, StepTurns, PassedTurnCheck
<1>4. ASSUME NEW c \in Slots, LogUsage(c) PROVE TurnBound(u)'
  BY <1>4, LoggedTurn
<1>5. ASSUME NEW v \in Users, AccountDeleted(v) PROVE TurnBound(u)'
  <2>1. turns'[u] <= turns[u] /\ PendingTurns(u)' \subseteq PendingTurns(u)
    BY <1>1, <1>5 DEF AccountDeleted, TypeOK, PendingTurns, SlotsOf
  <2> QED
    BY <2>1, StepTurns
<1>6. CASE MonthTurns
  <2>1. turns'[u] <= turns[u] /\ PendingTurns(u)' \subseteq PendingTurns(u)
    BY <1>1, <1>6 DEF MonthTurns, PendingTurns, SlotsOf
  <2> QED
    BY <2>1, StepTurns
<1>7. CASE Crash
  <2>1. turns'[u] <= turns[u] /\ PendingTurns(u)' \subseteq PendingTurns(u)
    BY <1>1, <1>7 DEF Crash, TypeOK, PendingTurns, SlotsOf
  <2> QED
    BY <2>1, StepTurns
<1>8. CASE UNCHANGED vars
  <2>1. turns'[u] <= turns[u] /\ PendingTurns(u)' \subseteq PendingTurns(u)
    BY <1>1, <1>8 DEF vars, PendingTurns, SlotsOf
  <2> QED
    BY <2>1, StepTurns
<1> QED
  BY <1>2, <1>3, <1>4, <1>5, <1>6, <1>7, <1>8 DEF Next, Progress, QuietStep

\* So is all of it.
LEMMA NextTurns == TypeOK /\ TypeOK' /\ TurnsReserved /\ [Next]_vars => TurnsReserved'
BY NextAttempts, NextTurnBound DEF TurnsReserved, TurnBound, LiveAttempts

\* The conversation cap overshoots by at most one turn per slot.
THEOREM TurnsBounded == Spec => []TurnsBound
<1>1. TypeOK /\ TurnsReserved => TurnsBound
  <2> SUFFICES ASSUME TypeOK, TurnsReserved, NEW u \in Users
               PROVE  turns[u] < MaxTurns + Cardinality(SlotsOf(u) \cap Talking)
    BY DEF TurnsBound
  <2>1. turns[u] + Cardinality(PendingTurns(u)) < MaxTurns + Cardinality(SlotsOf(u) \cap Talking)
    BY DEF TurnsReserved
  <2> QED
    BY <2>1, TalkersFinite, MaxTurnsAssumption DEF TypeOK
<1>2. Spec => []TurnsReserved
  BY TypeCorrect, InitTurns, NextTurns, PTL DEF Spec
<1> QED
  BY <1>1, <1>2, TypeCorrect, PTL

-----------------------------------------------------------------------------
(***************************************************************************)
(* That a call runs out of steps.  Only a retry goes back, and it spends an *)
(* attempt, of which the loop counts no more than the call has.            *)
(***************************************************************************)

AttemptsCounted == \A c \in Slots : attempt[c] <= maxAttempts[c]

\* The loop's counter stays within the call's attempts.
LEMMA NextCounted == TypeOK /\ AttemptsCounted /\ [Next]_vars => AttemptsCounted'
<1> SUFFICES ASSUME TypeOK, AttemptsCounted, [Next]_vars, NEW c \in Slots
             PROVE  attempt'[c] <= maxAttempts'[c]
  BY DEF AttemptsCounted
<1> USE DEF TypeOK, AttemptsCounted, Goto
<1>1. ASSUME NEW d \in Slots, SlotStep(d) PROVE attempt'[c] <= maxAttempts'[c]
  BY <1>1 DEF SlotStep, Progress, CallStart, TurnCheck, BudgetCheck, ProviderReply,
     ProviderError, ProviderReplyLost, LogUsage, LogUsageFails, ReplyAccepted,
     ReplyTruncated, ReplyInvalid, Return
<1>2. CASE (\E v \in Users : AccountDeleted(v)) \/ MonthTurns \/ Crash
  BY <1>2 DEF AccountDeleted, MonthTurns, Crash
<1>3. CASE UNCHANGED vars
  BY <1>3 DEF vars
<1> QED
  BY <1>1, <1>2, <1>3 DEF Next, SlotStep

\* A live call has between one and ten steps left.
LEMMA StepsLeftRange ==
  ASSUME TypeOK, LiveAttempts, AttemptsCounted, NEW c \in Slots, phase[c] \in Live
  PROVE  /\ StepsLeft(c) = 5 * (maxAttempts[c] - attempt[c]) + StepsAhead[phase[c]]
         /\ StepsAhead[phase[c]] \in 1..5
         /\ maxAttempts[c] - attempt[c] \in 0..1
         /\ StepsLeft(c) \in 1..10
<1>1. StepsAhead[phase[c]] \in 1..5
  BY DEF StepsAhead
<1>2. maxAttempts[c] - attempt[c] \in 0..1
  BY DEF TypeOK, LiveAttempts, AttemptsCounted
<1>3. StepsLeft(c) = 5 * (maxAttempts[c] - attempt[c]) + StepsAhead[phase[c]]
  BY DEF StepsLeft
<1> HIDE DEF StepsAhead
<1> QED
  BY <1>1, <1>2, <1>3

\* A step that ends the call, or goes on to a later phase of the same attempt, or spends an
\* attempt, leaves fewer steps.
LEMMA StepLowers ==
  ASSUME TypeOK, LiveAttempts, AttemptsCounted, TypeOK', LiveAttempts', AttemptsCounted',
         NEW c \in Slots, phase[c] \in Live, maxAttempts'[c] = maxAttempts[c],
         \/ phase'[c] \notin Live
         \/ /\ attempt'[c] = attempt[c] /\ phase'[c] \in Live
            /\ StepsAhead[phase'[c]] < StepsAhead[phase[c]]
         \/ /\ attempt'[c] = attempt[c] + 1
            /\ phase[c] = "validating" /\ phase'[c] = "budgetCheck"
  PROVE  StepsLeft(c)' \in 0..(StepsLeft(c) - 1)
<1>1. StepsLeft(c) \in 1..10
  BY StepsLeftRange
<1>2. CASE phase'[c] \notin Live
  BY <1>1, <1>2 DEF StepsLeft
<1>3. CASE phase'[c] \in Live
  <2> DEFINE m == maxAttempts[c] - attempt[c]
             n == maxAttempts'[c] - attempt'[c]
             a == StepsAhead[phase[c]]
             b == StepsAhead[phase'[c]]
  <2>1. StepsLeft(c) = 5 * m + a /\ m \in 0..1 /\ a \in 1..5
    BY StepsLeftRange
  <2>2. StepsLeft(c)' = 5 * n + b /\ n \in 0..1 /\ b \in 1..5
    <3>1. StepsAhead' = StepsAhead
      BY DEF StepsAhead
    <3>2. StepsLeft(c)' = 5 * n + b
      BY <1>3 DEF StepsLeft, StepsAhead
    <3>3. b \in 1..5
      BY <1>3 DEF StepsAhead
    <3>4. n \in 0..1
      BY <1>3 DEF TypeOK, LiveAttempts, AttemptsCounted
    <3> QED
      BY <3>2, <3>3, <3>4
  <2>3. \/ n = m /\ b < a
        \/ n = m - 1 /\ a = 1 /\ b = 4
    <3>1. maxAttempts[c] \in Int /\ attempt[c] \in Int
      BY DEF TypeOK
    <3> QED
      BY <1>3, <3>1 DEF StepsAhead
  <2> HIDE DEF m, n, a, b
  <2> QED
    BY <2>1, <2>2, <2>3
<1> QED
  BY <1>2, <1>3

\* Every step of a call leaves it fewer, for any number of slots and users.
THEOREM CallsEndInSteps == Spec => CallsRunOut
<1> DEFINE CInv == TypeOK /\ LiveAttempts /\ AttemptsCounted
<1>1. Init => CInv
  BY InitType, InitTurns DEF Init, TurnsReserved, LiveAttempts, AttemptsCounted
<1>2. CInv /\ [Next]_vars => CInv'
  BY NextType, NextAttempts, NextCounted
<1>3. ASSUME CInv, CInv', Next, NEW c \in Slots, phase[c] \in Live,
             <<phase[c], attempt[c]>>' # <<phase[c], attempt[c]>>
      PROVE  StepsLeft(c) \in 1..10 /\ StepsLeft(c)' \in 0..(StepsLeft(c) - 1)
  <2>1. StepsLeft(c) \in 1..10
    BY <1>3, StepsLeftRange
  <2>2. CASE Crash
    <3>1. phase'[c] \notin Live /\ maxAttempts'[c] = maxAttempts[c]
      BY <1>3, <2>2 DEF Crash
    <3> QED
      BY <1>3, <2>1, <3>1, StepLowers
  <2>3. ASSUME NEW d \in Slots, SlotStep(d)
        PROVE  StepsLeft(c)' \in 0..(StepsLeft(c) - 1)
    <3>1. d = c
      BY <1>3, <2>3 DEF TypeOK, Goto, SlotStep, Progress, CallStart, TurnCheck, BudgetCheck,
         ProviderReply, ProviderError, ProviderReplyLost, LogUsage, LogUsageFails,
         ReplyAccepted, ReplyTruncated, ReplyInvalid, Return
    <3>2. maxAttempts'[c] = maxAttempts[c]
      BY <1>3, <2>3, <3>1 DEF Goto, SlotStep, Progress, CallStart, TurnCheck, BudgetCheck,
         ProviderReply, ProviderError, ProviderReplyLost, LogUsage, LogUsageFails,
         ReplyAccepted, ReplyTruncated, ReplyInvalid, Return
    <3>3. CASE ReplyInvalid(c)
      <4>1. phase[c] = "validating"
        BY <3>3 DEF ReplyInvalid, Goto
      <4>2. \/ phase'[c] = "budgetCheck" /\ attempt'[c] = attempt[c] + 1
            \/ phase'[c] = "permanent"
        BY <1>3, <3>3 DEF ReplyInvalid, Goto, TypeOK
      <4> QED
        BY <1>3, <3>2, <4>1, <4>2, StepLowers
    <3>4. CASE ~ReplyInvalid(c)
      <4>1. \/ phase'[c] \notin Live
            \/ /\ attempt'[c] = attempt[c]
               /\ <<phase[c], phase'[c]>> \in
                    {<<"turnCheck", "budgetCheck">>, <<"budgetCheck", "sending">>,
                     <<"sending", "logging">>, <<"logging", "validating">>}
        BY <1>3, <2>3, <3>1, <3>4 DEF TypeOK, Goto, SlotStep, Progress, CallStart, TurnCheck,
           BudgetCheck, ProviderReply, ProviderError, ProviderReplyLost, LogUsage,
           LogUsageFails, ReplyAccepted, ReplyTruncated, Return
      <4>2. ASSUME phase'[c] \in Live
            PROVE  StepsAhead[phase'[c]] < StepsAhead[phase[c]]
        BY <4>1, <4>2 DEF StepsAhead
      <4> HIDE DEF StepsAhead
      <4> QED
        BY <1>3, <3>2, <4>1, <4>2, StepLowers
    <3> QED
      BY <3>3, <3>4
  <2>4. CASE (\E u \in Users : AccountDeleted(u)) \/ MonthTurns
    BY <1>3, <2>4 DEF AccountDeleted, MonthTurns
  <2>5. \/ \E d \in Slots : SlotStep(d)
        \/ (\E u \in Users : AccountDeleted(u)) \/ MonthTurns
        \/ Crash
    BY <1>3 DEF Next, SlotStep
  <2>6. StepsLeft(c)' \in 0..(StepsLeft(c) - 1)
    BY <2>2, <2>3, <2>4, <2>5
  <2> QED
    BY <2>1, <2>6
<1>4. CInv /\ CInv' /\ [Next]_vars =>
        [\A c \in Slots :
           phase[c] \in Live /\ <<phase[c], attempt[c]>>' # <<phase[c], attempt[c]>> =>
             /\ StepsLeft(c) \in 1..10
             /\ StepsLeft(c)' \in 0..(StepsLeft(c) - 1)]_vars
  BY <1>3
<1> QED
  BY <1>1, <1>2, <1>4, PTL DEF Spec, CallsRunOut
=============================================================================
