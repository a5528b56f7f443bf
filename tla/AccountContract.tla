-------------------------- MODULE AccountContract --------------------------
(***************************************************************************)
(* What an account and the rows under it promise, without requests, locks  *)
(* or transactions: a row is written only under an account that exists,    *)
(* rows leave only with their account, all of them in the same step, and   *)
(* an erased account never comes back.                                     *)
(*                                                                         *)
(* Rows may name any kind of record: ResumeStore implements the contract   *)
(* for resumes and extractions, SignIn for identities, ScopedPool for      *)
(* every table under an account, at the level of clients and statements.   *)
(***************************************************************************)
CONSTANTS
  Accounts,
  Rows,
  AccountOf     \* the account of each row

VARIABLES
  existing,     \* accounts with a committed row in users
  erased,       \* accounts that once existed
  rows          \* committed rows under accounts

vars == <<existing, erased, rows>>

RowsOf(a) == {r \in Rows : AccountOf[r] = a}

Init ==
  /\ existing \in SUBSET Accounts
  /\ erased = {}
  /\ rows \in SUBSET UNION {RowsOf(a) : a \in existing}

\* An account appears together with the rows it cannot be without.
Open(a) ==
  /\ a \notin existing \cup erased
  /\ existing' = existing \cup {a}
  /\ rows' \in {rows \cup R : R \in SUBSET RowsOf(a)}
  /\ UNCHANGED erased

Write(r) ==
  /\ AccountOf[r] \in existing
  /\ rows' = rows \cup {r}
  /\ UNCHANGED <<existing, erased>>

Erase(a) ==
  /\ a \in existing
  /\ existing' = existing \ {a}
  /\ erased' = erased \cup {a}
  /\ rows' = rows \ RowsOf(a)

Next ==
  \/ \E a \in Accounts : Open(a) \/ Erase(a)
  \/ \E r \in Rows : Write(r)

Spec == Init /\ [][Next]_vars
=============================================================================
