---------------------------- MODULE AbstractProofs --------------------------
(***************************************************************************)
(* What the two abstract specifications promise, proved of them alone: all *)
(* that implements one of them inherits it.                                *)
(***************************************************************************)
EXTENDS AccountContract, Integers, TLAPS

CONSTANTS Users, Lanes, Cap, MaxCost
VARIABLES logged, reserved

Ledger == INSTANCE MeteredLedger

-----------------------------------------------------------------------------
(***************************************************************************)
(* Accounts.                                                               *)
(***************************************************************************)

\* An account is not both existing and erased, and every row is under an existing one.
RowsAreOfExisting ==
  /\ existing \cap erased = {}
  /\ \A r \in rows : r \in Rows /\ AccountOf[r] \in existing

\* Whatever is opened, written and erased in whatever order, an erased account has no row.
THEOREM ErasedHaveNothing == Spec => []RowsAreOfExisting
<1>1. Init => RowsAreOfExisting
  BY DEF Init, RowsAreOfExisting, RowsOf
<1>2. RowsAreOfExisting /\ [Next]_vars => RowsAreOfExisting'
  <2> SUFFICES ASSUME RowsAreOfExisting, [Next]_vars PROVE RowsAreOfExisting'
    OBVIOUS
  <2> USE DEF RowsAreOfExisting, RowsOf
  <2>1. ASSUME NEW a \in Accounts, Open(a) PROVE RowsAreOfExisting'
    BY <2>1 DEF Open
  <2>2. ASSUME NEW a \in Accounts, Erase(a) PROVE RowsAreOfExisting'
    BY <2>2 DEF Erase
  <2>3. ASSUME NEW r \in Rows, Write(r) PROVE RowsAreOfExisting'
    BY <2>3 DEF Write
  <2>4. CASE UNCHANGED vars
    BY <2>4 DEF vars
  <2> QED
    BY <2>1, <2>2, <2>3, <2>4 DEF Next
<1> QED
  BY <1>1, <1>2, PTL DEF Spec

\* An erased account stays erased.
THEOREM ErasedStayErased == Spec => [][erased \subseteq erased']_vars
<1>1. [Next]_vars => [erased \subseteq erased']_vars
  BY DEF Next, Open, Write, Erase, vars
<1> QED
  BY <1>1, PTL DEF Spec

\* A row leaves with its account only, and then all rows of the account leave with it.
THEOREM RowsLeaveTogether ==
  Spec => [][\A r \in rows \ rows' :
               AccountOf[r] \in erased' /\ rows' \cap RowsOf(AccountOf[r]) = {}]_vars
<1>1. [Next]_vars => [\A r \in rows \ rows' :
               AccountOf[r] \in erased' /\ rows' \cap RowsOf(AccountOf[r]) = {}]_vars
  BY DEF Next, Open, Write, Erase, RowsOf, vars
<1> QED
  BY <1>1, PTL DEF Spec

-----------------------------------------------------------------------------
(***************************************************************************)
(* Money.                                                                  *)
(***************************************************************************)

\* What is logged, with every reservation charged at its dearest, stays under the cap plus
\* the price of all lanes.
LedgerBound ==
  /\ logged \in [Users -> Nat]
  /\ reserved \in [Users -> Nat]
  /\ \A u \in Users : logged[u] + MaxCost * reserved[u] < Cap + MaxCost * Lanes[u]

\* Hence the log never passes the cap by more, whatever is reserved, charged or abandoned.
THEOREM LedgerIsBounded ==
  ASSUME Lanes \in [Users -> Nat], Cap \in Nat \ {0}, MaxCost \in Nat
  PROVE  Ledger!Spec => [](\A u \in Users : logged[u] < Cap + MaxCost * Lanes[u])
<1>1. Ledger!Init => LedgerBound
  <2> SUFFICES ASSUME Ledger!Init, NEW u \in Users
               PROVE  0 + MaxCost * 0 < Cap + MaxCost * Lanes[u]
    BY DEF Ledger!Init, LedgerBound
  <2>1. Lanes[u] \in Nat /\ MaxCost * Lanes[u] \in Nat
    OBVIOUS
  <2> QED
    BY <2>1
<1>2. LedgerBound /\ [Ledger!Next]_(Ledger!vars) => LedgerBound'
  <2> SUFFICES ASSUME LedgerBound, [Ledger!Next]_(Ledger!vars) PROVE LedgerBound'
    OBVIOUS
  <2> USE DEF LedgerBound
  <2>0. \A u \in Users, n \in Nat : MaxCost * n \in Nat /\ MaxCost * Lanes[u] \in Nat
    OBVIOUS
  <2>1. ASSUME NEW u \in Users, Ledger!Reserve(u) PROVE LedgerBound'
    <3>1. reserved[u] + 1 <= Lanes[u] /\ logged[u] < Cap /\ reserved[u] \in Nat /\ Lanes[u] \in Nat
      BY <2>1 DEF Ledger!Reserve
    <3>2. MaxCost * (reserved[u] + 1) <= MaxCost * Lanes[u]
      BY <3>1
    <3>3. logged[u] + MaxCost * (reserved[u] + 1) < Cap + MaxCost * Lanes[u]
      BY <2>0, <3>1, <3>2
    <3> QED
      BY <2>1, <3>3 DEF Ledger!Reserve
  <2>2. ASSUME NEW u \in Users, Ledger!Charge(u) PROVE LedgerBound'
    <3>1. PICK cost \in 0..MaxCost : logged' = [logged EXCEPT ![u] = @ + cost]
      BY <2>2 DEF Ledger!Charge
    <3>2. reserved' = [reserved EXCEPT ![u] = @ - 1] /\ reserved[u] - 1 \in Nat
      BY <2>2 DEF Ledger!Charge
    <3>3. MaxCost * reserved[u] = MaxCost * (reserved[u] - 1) + MaxCost
      BY <3>2
    <3>4. logged[u] + cost + MaxCost * (reserved[u] - 1) <= logged[u] + MaxCost * reserved[u]
      BY <2>0, <3>1, <3>2, <3>3
    <3>5. logged[u] + cost + MaxCost * (reserved[u] - 1) < Cap + MaxCost * Lanes[u]
      BY <2>0, <3>1, <3>2, <3>4
    <3> QED
      BY <3>1, <3>2, <3>5
  <2>3. ASSUME NEW u \in Users, Ledger!Release(u) PROVE LedgerBound'
    <3>1. reserved' = [reserved EXCEPT ![u] = @ - 1] /\ reserved[u] - 1 \in Nat /\ logged' = logged
      BY <2>3 DEF Ledger!Release
    <3>2. MaxCost * reserved[u] = MaxCost * (reserved[u] - 1) + MaxCost
      BY <3>1
    <3>3. logged[u] + MaxCost * (reserved[u] - 1) < Cap + MaxCost * Lanes[u]
      BY <2>0, <3>1, <3>2
    <3> QED
      BY <3>1, <3>3
  <2>4. ASSUME logged' \in [Users -> Nat], reserved' = reserved,
               \A u \in Users : logged'[u] <= logged[u]
        PROVE  LedgerBound'
    BY <2>0, <2>4
  <2>5. CASE Ledger!MonthTurns \/ \E u \in Users : Ledger!Forget(u)
    BY <2>4, <2>5 DEF Ledger!MonthTurns, Ledger!Forget
  <2>6. CASE Ledger!Abandon
    <3>1. \A u \in Users : reserved'[u] = 0 /\ logged'[u] = logged[u]
      BY <2>6 DEF Ledger!Abandon
    <3>2. \A u \in Users : logged[u] + MaxCost * 0 < Cap + MaxCost * Lanes[u]
      BY <2>0
    <3> QED
      BY <2>6, <3>1, <3>2 DEF Ledger!Abandon
  <2>7. CASE UNCHANGED Ledger!vars
    BY <2>7 DEF Ledger!vars
  <2> QED
    BY <2>1, <2>2, <2>3, <2>5, <2>6, <2>7 DEF Ledger!Next
<1>3. LedgerBound => \A u \in Users : logged[u] < Cap + MaxCost * Lanes[u]
  <2> SUFFICES ASSUME LedgerBound, NEW u \in Users PROVE logged[u] < Cap + MaxCost * Lanes[u]
    OBVIOUS
  <2>1. MaxCost * reserved[u] \in Nat /\ MaxCost * Lanes[u] \in Nat /\ logged[u] \in Nat
    BY DEF LedgerBound
  <2> QED
    BY <2>1 DEF LedgerBound
<1> QED
  BY <1>1, <1>2, <1>3, PTL DEF Ledger!Spec
=============================================================================
