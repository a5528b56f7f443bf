----------------------------- MODULE LlmLayer ------------------------------
(***************************************************************************)
(* LlmService.run and the spend guards in front of every paid model call.  *)
(*                                                                         *)
(* A slot is one place for a request in flight: it runs one call at a time *)
(* and then serves the next, so the number of slots of a user is the       *)
(* number of calls that user can have in flight together, and the number   *)
(* of calls is not bounded.  Each await of the loop is one action: the     *)
(* guards read the usage log in a transaction of their own, the model is   *)
(* called outside any transaction, the log is written in another one.      *)
(* Costs are whole units; llm_usage_logs is kept as the sums its readers   *)
(* ask for.                                                                *)
(***************************************************************************)
EXTENDS Integers, FiniteSets

CONSTANTS
  Users,
  Slots,
  Caller,       \* the user whose requests a slot runs
  Talking,      \* slots whose requests carry a conversationId and maxTurns
  Cap,          \* LLM_MONTHLY_BUDGET_USD
  MaxCost,      \* the most one attempt is billed
  MaxTurns      \* maxTurns of the user's conversation

ASSUME SlotsAssumption == IsFiniteSet(Slots) /\ Talking \in SUBSET Slots
ASSUME CallerAssumption == Caller \in [Slots -> Users]
ASSUME CapAssumption == Cap \in Nat \ {0}
ASSUME MaxCostAssumption == MaxCost \in Nat \ {0}
ASSUME MaxTurnsAssumption == MaxTurns \in Nat \ {0}

VARIABLES
  phase,        \* what each slot's call is waiting for, or how it ended
  attempt,      \* 1 or 2 inside the loop
  maxAttempts,  \* 1 for complete, 2 for completeStructured
  cost,         \* estimated cost of the reply being handled
  accounts,     \* users whose row exists: llm_usage_logs.user_id refers to it
  spent,        \* sum of this month's logged costs
  turns,        \* logged first attempts of the conversation
  real,         \* what the provider billed this month while every bill was logged
  untracked     \* a bill of this month is missing from the log

log == <<accounts, spent, turns>>
bills == <<real, untracked>>
vars == <<phase, attempt, maxAttempts, cost, accounts, spent, turns, real, untracked>>

MAX_STRUCTURED_ATTEMPTS == 2

\* LlmErrorKind, and "untyped" for an error of no kind.
ErrorKinds == {"retryable", "permanent", "budget"}
Ended == ErrorKinds \cup {"ok", "untyped", "dropped"}
\* Between a passed budget check and the usage row of the attempt.
Unlogged == {"sending", "logging"}
Live == {"turnCheck", "budgetCheck", "validating"} \cup Unlogged

SlotsOf(u) == {c \in Slots : Caller[c] = u}
InFlight(u) == {c \in SlotsOf(u) : phase[c] \in Unlogged}

TypeOK ==
  /\ phase \in [Slots -> {"idle"} \cup Live \cup Ended]
  /\ attempt \in [Slots -> 0..MAX_STRUCTURED_ATTEMPTS]
  /\ maxAttempts \in [Slots -> 1..MAX_STRUCTURED_ATTEMPTS]
  /\ cost \in [Slots -> 0..MaxCost]
  /\ accounts \in SUBSET Users
  /\ spent \in [Users -> Nat]
  /\ turns \in [Users -> Nat]
  /\ real \in [Users -> Nat]
  /\ untracked \in [Users -> BOOLEAN]

Init ==
  /\ phase = [c \in Slots |-> "idle"]
  /\ attempt = [c \in Slots |-> 0]
  /\ maxAttempts = [c \in Slots |-> 1]
  /\ cost = [c \in Slots |-> 0]
  /\ accounts = Users
  /\ spent = [u \in Users |-> 0]
  /\ turns = [u \in Users |-> 0]
  /\ real = [u \in Users |-> 0]
  /\ untracked = [u \in Users |-> FALSE]

Goto(c, from, to) ==
  /\ phase[c] = from
  /\ phase' = [phase EXCEPT ![c] = to]

\* The provider bills b for a call of u and a reply carries the bill here.
Billed(u, b) ==
  /\ real' = IF untracked[u] THEN real ELSE [real EXCEPT ![u] = @ + b]
  /\ UNCHANGED untracked

\* A bill of u is missing from the log: what was counted no longer tells anything.
LoseTrack(u) ==
  /\ real' = [real EXCEPT ![u] = 0]
  /\ untracked' = [untracked EXCEPT ![u] = TRUE]

-----------------------------------------------------------------------------
\* run() up to the loop.  A template, parameter or untrusted label the layer does
\* not know is a plain Error.
CallStart(c) ==
  /\ Caller[c] \in accounts
  /\ \/ Goto(c, "idle", IF c \in Talking THEN "turnCheck" ELSE "budgetCheck")
     \/ Goto(c, "idle", "untyped")
  /\ \E n \in 1..MAX_STRUCTURED_ATTEMPTS : maxAttempts' = [maxAttempts EXCEPT ![c] = n]
  /\ attempt' = [attempt EXCEPT ![c] = 1]
  /\ UNCHANGED <<cost, log, bills>>

\* assertWithinConversationLimit, once per call.  Here and below, a transaction
\* that fails throws what the driver threw.
TurnCheck(c) ==
  /\ \/ Goto(c, "turnCheck", IF turns[Caller[c]] >= MaxTurns THEN "permanent" ELSE "budgetCheck")
     \/ Goto(c, "turnCheck", "untyped")
  /\ UNCHANGED <<attempt, maxAttempts, cost, log, bills>>

\* Mutant: the guard refuses only once the cap has been passed.
BudgetCheckOffByOne(c) ==
  /\ \/ Goto(c, "budgetCheck", IF spent[Caller[c]] > Cap THEN "budget" ELSE "sending")
     \/ Goto(c, "budgetCheck", "budget")
     \/ Goto(c, "budgetCheck", "untyped")
  /\ UNCHANGED <<attempt, maxAttempts, cost, log, bills>>

\* assertWithinBudget and, without another await, assertAttemptAffordable: the
\* retry's longer prompt may be over the ceiling where the first was not.
BudgetCheck(c) ==
  /\ \/ Goto(c, "budgetCheck", IF spent[Caller[c]] >= Cap THEN "budget" ELSE "sending")
     \/ Goto(c, "budgetCheck", "budget")
     \/ Goto(c, "budgetCheck", "untyped")
  /\ UNCHANGED <<attempt, maxAttempts, cost, log, bills>>

ProviderReply(c) ==
  /\ Goto(c, "sending", "logging")
  /\ \E b \in 1..MaxCost :
       /\ cost' = [cost EXCEPT ![c] = b]
       /\ Billed(Caller[c], b)
  /\ UNCHANGED <<attempt, maxAttempts, log>>

\* toLlmError maps what the SDK throws; a key that cannot be read is thrown by
\* getClient before that mapping.
ProviderError(c) ==
  /\ \E kind \in {"retryable", "permanent", "untyped"} : Goto(c, "sending", kind)
  /\ UNCHANGED <<attempt, maxAttempts, cost, log, bills>>

\* The reply is lost after the provider did the work and billed it.
ProviderReplyLost(c) ==
  /\ Goto(c, "sending", "retryable")
  /\ LoseTrack(Caller[c])
  /\ UNCHANGED <<attempt, maxAttempts, cost, log>>

\* Mutant: only the first attempt of a call is logged.
LogUsageFirstOnly(c) ==
  LET u == Caller[c] IN
  /\ u \in accounts
  /\ Goto(c, "logging", "validating")
  /\ spent' = [spent EXCEPT ![u] = IF attempt[c] = 1 THEN @ + cost[c] ELSE @]
  /\ turns' = [turns EXCEPT ![u] = IF c \in Talking /\ attempt[c] = 1 THEN @ + 1 ELSE @]
  /\ UNCHANGED <<attempt, maxAttempts, cost, accounts, bills>>

\* Mutant: a retry counts as a turn.
LogUsageRetryIsTurn(c) ==
  LET u == Caller[c] IN
  /\ u \in accounts
  /\ Goto(c, "logging", "validating")
  /\ spent' = [spent EXCEPT ![u] = @ + cost[c]]
  /\ turns' = [turns EXCEPT ![u] = IF c \in Talking THEN @ + 1 ELSE @]
  /\ UNCHANGED <<attempt, maxAttempts, cost, accounts, bills>>

\* Mutant: the insert is retried when its reply is lost.
LogUsageRepeated(c) ==
  LET u == Caller[c] IN
  /\ u \in accounts
  /\ \E to \in {"logging", "validating"} : Goto(c, "logging", to)
  /\ spent' = [spent EXCEPT ![u] = @ + cost[c]]
  /\ turns' = [turns EXCEPT ![u] = IF c \in Talking /\ attempt[c] = 1 THEN @ + 1 ELSE @]
  /\ UNCHANGED <<attempt, maxAttempts, cost, accounts, bills>>

\* logUsage inserts the row of this attempt.
LogUsage(c) ==
  LET u == Caller[c] IN
  /\ u \in accounts
  /\ Goto(c, "logging", "validating")
  /\ spent' = [spent EXCEPT ![u] = @ + cost[c]]
  /\ turns' = [turns EXCEPT ![u] = IF c \in Talking /\ attempt[c] = 1 THEN @ + 1 ELSE @]
  /\ UNCHANGED <<attempt, maxAttempts, cost, accounts, bills>>

\* Mutant: a failed insert fails the call.
LogUsageFailsRethrown(c) ==
  /\ Goto(c, "logging", "untyped")
  /\ LoseTrack(Caller[c])
  /\ UNCHANGED <<attempt, maxAttempts, cost, log>>

\* ... or fails to, always so once the account is gone: the error is logged, the
\* paid reply is kept.
LogUsageFails(c) ==
  /\ Goto(c, "logging", "validating")
  /\ LoseTrack(Caller[c])
  /\ UNCHANGED <<attempt, maxAttempts, cost, log>>

\* Without a schema the text is the answer, with one the object parsed from it.
ReplyAccepted(c) ==
  /\ Goto(c, "validating", "ok")
  /\ UNCHANGED <<attempt, maxAttempts, cost, log, bills>>

\* LlmTruncatedError: no retry.
ReplyTruncated(c) ==
  /\ maxAttempts[c] = MAX_STRUCTURED_ATTEMPTS
  /\ Goto(c, "validating", "permanent")
  /\ UNCHANGED <<attempt, maxAttempts, cost, log, bills>>

\* Mutant: one attempt too many.
ReplyInvalidOffByOne(c) ==
  /\ maxAttempts[c] = MAX_STRUCTURED_ATTEMPTS
  /\ IF attempt[c] <= maxAttempts[c]
     THEN /\ Goto(c, "validating", "budgetCheck")
          /\ attempt' = [attempt EXCEPT ![c] = @ + 1]
     ELSE /\ Goto(c, "validating", "permanent")
          /\ UNCHANGED attempt
  /\ UNCHANGED <<maxAttempts, cost, log, bills>>

\* Mutant: the guards run before the loop, not before every attempt.
ReplyInvalidUnguarded(c) ==
  /\ maxAttempts[c] = MAX_STRUCTURED_ATTEMPTS
  /\ IF attempt[c] < maxAttempts[c]
     THEN /\ Goto(c, "validating", "sending")
          /\ attempt' = [attempt EXCEPT ![c] = @ + 1]
     ELSE /\ Goto(c, "validating", "permanent")
          /\ UNCHANGED attempt
  /\ UNCHANGED <<maxAttempts, cost, log, bills>>

\* Mutant: the retry does not advance the attempt counter.
ReplyInvalidForever(c) ==
  /\ maxAttempts[c] = MAX_STRUCTURED_ATTEMPTS
  /\ Goto(c, "validating", "budgetCheck")
  /\ UNCHANGED <<attempt, maxAttempts, cost, log, bills>>

\* The issues are fed back in the next attempt, or LlmSchemaError after the last.
ReplyInvalid(c) ==
  /\ maxAttempts[c] = MAX_STRUCTURED_ATTEMPTS
  /\ IF attempt[c] < maxAttempts[c]
     THEN /\ Goto(c, "validating", "budgetCheck")
          /\ attempt' = [attempt EXCEPT ![c] = @ + 1]
     ELSE /\ Goto(c, "validating", "permanent")
          /\ UNCHANGED attempt
  /\ UNCHANGED <<maxAttempts, cost, log, bills>>

\* The slot is free for another request.
Return(c) ==
  /\ phase[c] \in Ended
  /\ phase' = [phase EXCEPT ![c] = "idle"]
  /\ attempt' = [attempt EXCEPT ![c] = 0]
  /\ maxAttempts' = [maxAttempts EXCEPT ![c] = 1]
  /\ cost' = [cost EXCEPT ![c] = 0]
  /\ UNCHANGED <<log, bills>>

-----------------------------------------------------------------------------
\* DELETE /me cascades to the usage rows while calls may be in flight.
AccountDeleted(u) ==
  /\ u \in accounts
  /\ accounts' = accounts \ {u}
  /\ spent' = [spent EXCEPT ![u] = 0]
  /\ turns' = [turns EXCEPT ![u] = 0]
  /\ LoseTrack(u)
  /\ UNCHANGED <<phase, attempt, maxAttempts, cost>>

\* The budget query counts from date_trunc('month', now()).
MonthTurns ==
  /\ spent' = [u \in Users |-> 0]
  /\ real' = [u \in Users |-> 0]
  /\ untracked' = [u \in Users |-> FALSE]
  /\ UNCHANGED <<phase, attempt, maxAttempts, cost, accounts, turns>>

\* The process stops with calls in flight; those sent may be billed unrecorded.
Crash ==
  /\ \E c \in Slots : phase[c] \in Live
  /\ phase' = [c \in Slots |-> IF phase[c] \in Live THEN "dropped" ELSE phase[c]]
  /\ untracked' = [u \in Users |-> untracked[u] \/ InFlight(u) # {}]
  /\ real' = [u \in Users |-> IF InFlight(u) # {} THEN 0 ELSE real[u]]
  /\ UNCHANGED <<attempt, maxAttempts, cost, log>>

Progress(c) ==
  \/ TurnCheck(c)     \/ BudgetCheck(c)   \/ ProviderReply(c)
  \/ ProviderError(c) \/ ProviderReplyLost(c)
  \/ LogUsage(c)      \/ LogUsageFails(c)
  \/ ReplyAccepted(c) \/ ReplyTruncated(c) \/ ReplyInvalid(c)

Next ==
  \/ \E c \in Slots : CallStart(c) \/ Progress(c) \/ Return(c)
  \/ \E u \in Users : AccountDeleted(u)
  \/ MonthTurns
  \/ Crash

Spec == Init /\ [][Next]_vars

\* A handler that waits is answered: a query ends, the SDK times out.  Nobody owes
\* a request, a deletion or a crash.
FairSpec == Spec /\ \A c \in Slots : WF_vars(Progress(c))

-----------------------------------------------------------------------------
(***************************************************************************)
(* Properties.                                                             *)
(***************************************************************************)

\* "Parallel in-flight requests can overshoot the cap by a few requests' worth",
\* and by no more: under the cap plus one attempt per slot, attempts that passed
\* the check and are not logged yet counted at their dearest.  Holds across
\* retries, lost logs, a turn of the month and a deletion in the middle of a call.
OvershootBound ==
  \A u \in Users :
    spent[u] + MaxCost * Cardinality(InFlight(u)) < Cap + MaxCost * Cardinality(SlotsOf(u))

\* As long as every bill reached the log, what the provider billed is bounded the
\* same way: the log lags behind the bills by attempts in flight only.
RealSpendBound ==
  \A u \in Users :
    ~untracked[u] => real[u] < Cap + MaxCost * Cardinality(SlotsOf(u))

\* The conversation cap overshoots by at most one turn per slot, and a schema
\* retry never counts as a turn.
TurnsBound ==
  \A u \in Users : turns[u] < MaxTurns + Cardinality(SlotsOf(u) \cap Talking)

\* The inductive form of TurnsBound: a first attempt that passed the conversation
\* guard and is not logged yet has its turn reserved.
PendingTurns(u) ==
  {c \in SlotsOf(u) \cap Talking :
     attempt[c] = 1 /\ phase[c] \in {"budgetCheck"} \cup Unlogged}

TurnsReserved ==
  /\ \A c \in Slots : phase[c] \in Live => attempt[c] >= 1
  /\ \A u \in Users :
       turns[u] + Cardinality(PendingTurns(u)) < MaxTurns + Cardinality(SlotsOf(u) \cap Talking)

\* Once the month's log has reached the cap no attempt passes the budget check, a retry of a
\* call already under way included, until the month turns or the log is deleted.
NoNewAttemptOverCap ==
  [][\A u \in Users : spent[u] >= Cap => InFlight(u)' \subseteq InFlight(u)]_vars

\* "Metering loss must never swallow a paid-for response": once the reply is here
\* only validation, or the process stopping, decides how the call ends.
PaidReplyKept ==
  [][\A c \in Slots :
       phase[c] = "logging" => phase'[c] \in {"logging", "validating", "dropped"}]_vars

\* The layer implements the ledger of MeteredLedger: attempts past their budget check
\* and not logged yet are its reservations.  Whatever is retried, lost or deleted in
\* the middle, no usage row is written that was not reserved under the cap, and none
\* twice.
Lanes == [u \in Users |-> Cardinality(SlotsOf(u))]
Reserved == [u \in Users |-> Cardinality(InFlight(u))]

Ledger == INSTANCE MeteredLedger WITH logged <- spent, reserved <- Reserved

ImplementsLedger == Ledger!Spec

\* How many steps a call may still take: five in each attempt it has left.
StepsAhead ==
  [turnCheck |-> 5, budgetCheck |-> 4, sending |-> 3, logging |-> 2, validating |-> 1]
StepsLeft(c) ==
  IF phase[c] \in Live THEN 5 * (maxAttempts[c] - attempt[c]) + StepsAhead[phase[c]] ELSE 0

\* Whatever the model answers, however guards, inserts and the account behave, a call that
\* takes a step has fewer left: it ends in ten at the most.
CallsRunOut ==
  [][\A c \in Slots :
       phase[c] \in Live /\ <<phase[c], attempt[c]>>' # <<phase[c], attempt[c]>> =>
         /\ StepsLeft(c) \in 1..10
         /\ StepsLeft(c)' \in 0..(StepsLeft(c) - 1)]_vars

\* Every call ends: the retry loop is bounded whatever the replies are.
CallsEnd == \A c \in Slots : phase[c] \in Live ~> phase[c] \in Ended

\* "All of them run before every attempt, retries included": a retry inside a
\* conversation passes the conversation guard again.  Refuted.
ConversationGuardOnRetry ==
  [][\A c \in Talking :
       phase[c] = "validating" /\ phase'[c] \in Live => phase'[c] \in {"validating", "turnCheck"}]_vars

\* "Every failure leaving this layer carries one of three kinds".  Refuted.
EveryFailureHasAKind == \A c \in Slots : phase[c] # "untyped"
=============================================================================
