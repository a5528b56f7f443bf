--------------------------- MODULE MeteredLedger ---------------------------
(***************************************************************************)
(* What the LLM layer promises about money, without calls, retries, replies *)
(* or errors: a user is charged only for what was reserved while the log   *)
(* was under the cap, each reservation is charged at most once and for no  *)
(* more than one attempt may cost, and no failure, crash, deletion or turn *)
(* of the month lets a charge through that was never reserved.             *)
(***************************************************************************)
EXTENDS Integers

CONSTANTS
  Users,
  Lanes,      \* reservations each user may hold together
  Cap,        \* LLM_MONTHLY_BUDGET_USD
  MaxCost     \* the most one reservation is charged

VARIABLES
  logged,     \* what the log of this month says each user spent
  reserved    \* attempts of each user that may still be charged

vars == <<logged, reserved>>

Init ==
  /\ logged = [u \in Users |-> 0]
  /\ reserved = [u \in Users |-> 0]

\* A budget check that passed: the attempt will be sent.
Reserve(u) ==
  /\ logged[u] < Cap
  /\ reserved[u] < Lanes[u]
  /\ reserved' = [reserved EXCEPT ![u] = @ + 1]
  /\ UNCHANGED logged

\* The usage row of an attempt.
Charge(u) ==
  /\ reserved[u] > 0
  /\ reserved' = [reserved EXCEPT ![u] = @ - 1]
  /\ \E cost \in 0..MaxCost : logged' = [logged EXCEPT ![u] = @ + cost]

\* An attempt that failed, or whose usage row was lost.
Release(u) ==
  /\ reserved[u] > 0
  /\ reserved' = [reserved EXCEPT ![u] = @ - 1]
  /\ UNCHANGED logged

\* The account goes, and its log with it; what it reserved may still be charged to
\* nobody, so it is released like any other.
Forget(u) ==
  /\ logged' = [logged EXCEPT ![u] = 0]
  /\ UNCHANGED reserved

MonthTurns ==
  /\ logged' = [u \in Users |-> 0]
  /\ UNCHANGED reserved

\* The process stops: nothing it had reserved is ever charged.
Abandon ==
  /\ reserved' = [u \in Users |-> 0]
  /\ UNCHANGED logged

Next ==
  \/ \E u \in Users : Reserve(u) \/ Charge(u) \/ Release(u) \/ Forget(u)
  \/ MonthTurns
  \/ Abandon

Spec == Init /\ [][Next]_vars
=============================================================================
