-------------------------- MODULE ResumeStoreProofs -------------------------
(***************************************************************************)
(* Theorems about ResumeStore for any accounts, uploads, erasures and jobs. *)
(***************************************************************************)
EXTENDS ResumeStore, FiniteInduction

\* The sets of phases, expanded together wherever a step moves a request.
USE DEF Committed, Ended, UploadTx, UploadLive, EraseLive, JobTx, JobLive

-----------------------------------------------------------------------------
(***************************************************************************)
(* Type correctness.                                                       *)
(***************************************************************************)

\* The past of an account is well typed.
LEMMA InitType == Init => TypeOK
BY PastsAssumption DEF Init, TypeOK, OwnedBy

\* So is each step of an upload ...
LEMMA UploadType ==
  ASSUME TypeOK, NEW r \in Resumes,
         UploadStart(r) \/ UploadProgress(r) \/ UploadAbort(r)
  PROVE  TypeOK'
<1> USE DEF db, files, uploads, erasures, UploadStep
<1>1. CASE UploadStart(r)
  BY <1>1 DEF UploadStart, TypeOK
<1>2. CASE UploadInsert(r)
  BY <1>2 DEF UploadInsert, TypeOK
<1>3. CASE UploadStoreBlob(r)
  BY <1>3 DEF UploadStoreBlob, TypeOK
<1>4. CASE UploadSetPath(r)
  BY <1>4 DEF UploadSetPath, TypeOK
<1>5. CASE UploadFindOthers(r)
  BY <1>5 DEF UploadFindOthers, TypeOK
<1>6. CASE UploadDeactivate(r)
  BY <1>6 DEF UploadDeactivate, TypeOK
<1>7. CASE UploadCommit(r)
  BY <1>7 DEF UploadCommit, TypeOK
<1>8. CASE UploadAbort(r)
  BY <1>8 DEF UploadAbort, TypeOK
<1> QED
  BY <1>1, <1>2, <1>3, <1>4, <1>5, <1>6, <1>7, <1>8
     DEF UploadProgress, UploadDeadlockVictim

\* ... of an erasure ...
LEMMA EraseType ==
  ASSUME TypeOK, NEW e \in Erasures,
         EraseStart(e) \/ EraseProgress(e) \/ EraseAbort(e)
  PROVE  TypeOK'
<1> USE DEF db, files, uploads, erasures, EraseStep
<1>1. CASE EraseStart(e)
  BY <1>1 DEF EraseStart, TypeOK
<1>2. CASE EraseList(e)
  BY <1>2 DEF EraseList, TypeOK, OwnedBy
<1>3. CASE EraseDeleteBlob(e)
  BY <1>3 DEF EraseDeleteBlob, TypeOK
<1>4. CASE EraseSwept(e)
  BY <1>4 DEF EraseSwept, TypeOK
<1>5. CASE EraseLockUser(e)
  BY <1>5 DEF EraseLockUser, TypeOK
<1>6. CASE EraseCommit(e)
  BY <1>6 DEF EraseCommit, TypeOK
<1>7. CASE EraseAbort(e)
  BY <1>7 DEF EraseAbort, TypeOK
<1> QED
  BY <1>1, <1>2, <1>3, <1>4, <1>5, <1>6, <1>7 DEF EraseProgress

\* ... of a job ...
LEMMA JobType ==
  ASSUME TypeOK, NEW j \in Jobs,
         JobStart(j) \/ JobProgress(j) \/ JobAbort(j)
  PROVE  TypeOK'
<1> USE DEF db, files, uploads, erasures, JobStep
<1>1. CASE JobStart(j)
  BY <1>1 DEF JobStart, TypeOK
<1>2. CASE JobReadRow(j)
  BY <1>2 DEF JobReadRow, TypeOK
<1>3. CASE JobDownload(j)
  BY <1>3 DEF JobDownload, TypeOK
<1>4. CASE JobAnswer(j)
  BY <1>4 DEF JobAnswer, TypeOK
<1>5. CASE JobLockResume(j)
  BY <1>5 DEF JobLockResume, TypeOK
<1>6. CASE JobLockUser(j)
  BY <1>6 DEF JobLockUser, TypeOK
<1>7. CASE JobCommit(j)
  BY <1>7 DEF JobCommit, TypeOK
<1>8. CASE JobAbort(j)
  BY <1>8 DEF JobAbort, TypeOK
<1> QED
  BY <1>1, <1>2, <1>3, <1>4, <1>5, <1>6, <1>7, <1>8 DEF JobProgress

\* ... and a crash.
LEMMA CrashType == TypeOK /\ Crash => TypeOK'
BY DEF TypeOK, Crash, db, files

\* A step is a step of one request, a crash, or changes nothing.
LEMMA NextCases ==
  ASSUME [Next]_vars
  PROVE  \/ \E r \in Resumes : UploadStart(r) \/ UploadProgress(r) \/ UploadAbort(r)
         \/ \E e \in Erasures : EraseStart(e) \/ EraseProgress(e) \/ EraseAbort(e)
         \/ \E j \in Jobs : JobStart(j) \/ JobProgress(j) \/ JobAbort(j)
         \/ Crash
         \/ UNCHANGED vars
BY DEF Next, AllEnded, DeadlockVictim, EraseJobDeadlockVictim

\* So every step is.
LEMMA NextType == TypeOK /\ [Next]_vars => TypeOK'
<1> SUFFICES ASSUME TypeOK, [Next]_vars PROVE TypeOK'
  OBVIOUS
<1>1. CASE UNCHANGED vars
  BY <1>1 DEF TypeOK, vars
<1> QED
  BY NextCases, UploadType, EraseType, JobType, CrashType, <1>1

\* Type correctness of every reachable state.
THEOREM TypeCorrect == Spec => []TypeOK
BY InitType, NextType, PTL DEF Spec

-----------------------------------------------------------------------------
(***************************************************************************)
(* The inductive invariant.  Under each action the steps of their own are  *)
(* the conjuncts that need another conjunct, a lock or a guard; the others *)
(* follow from themselves.                                                 *)
(***************************************************************************)

\* Uploads of the past have stored their files and superseded each other.
LEMMA InitInv == Init => StoreInv
<1> SUFFICES ASSUME Init PROVE StoreInv
  OBVIOUS
<1> USE OwnerAssumption, PastsAssumption DEF Init, OwnedBy
<1>1. ActiveResumeExists
  BY DEF ActiveResumeExists
<1>2. DeactivatesCommittedRows
  <2> SUFFICES ASSUME NEW r \in active PROVE snapshot[r] \cap active = {}
    BY DEF DeactivatesCommittedRows
  <2>1. PICK s \in resumes : active \cap OwnedBy(Owner[r]) = {s}
    OBVIOUS
  <2> QED
    BY <2>1
<1> QED
  BY <1>1, <1>2
     DEF StoreInv, RowsAreCommittedUploads, FileBeforeRow, OpenUploadsKeepAccount,
         OpenInsertsKeepResume, RowLockExcludesUploads, UserKeyShared,
         SweepDeletesListed, NothingOutlivesAccount

\* An upload keeps the invariant, whatever the other requests hold.
LEMMA UploadInv ==
  ASSUME TypeOK, StoreInv, NEW r \in Resumes,
         UploadStart(r) \/ UploadProgress(r) \/ UploadAbort(r)
  PROVE  StoreInv'
<1> USE DEF db, files, uploads, erasures, UploadStep, StoreInv
<1>1. CASE UploadStart(r)
  BY <1>1 DEF UploadStart, TypeOK, UserKeyShared, OwnedBy,
     RowsAreCommittedUploads, FileBeforeRow, DeactivatesCommittedRows,
     OpenUploadsKeepAccount, OpenInsertsKeepResume, RowLockExcludesUploads,
     SweepDeletesListed, ActiveResumeExists, NothingOutlivesAccount
<1>2. CASE UploadInsert(r)
  \* The foreign-key check has waited for the erasure to end.
  <2>1. RowLockExcludesUploads'
    BY <1>2 DEF UploadInsert, RowLockExcludesUploads, OwnedBy, UserRowLocked,
       UserKeyShared
  <2> QED
    BY <1>2, <2>1 DEF UploadInsert, TypeOK, UserKeyShared,
       RowsAreCommittedUploads, FileBeforeRow, DeactivatesCommittedRows,
       OpenUploadsKeepAccount, OpenInsertsKeepResume, SweepDeletesListed,
       ActiveResumeExists, NothingOutlivesAccount
<1>3. CASE UploadStoreBlob(r)
  \* A file being stored was in no listing.
  <2>1. SweepDeletesListed'
    BY <1>3 DEF UploadStoreBlob, SweepDeletesListed, FileBeforeRow
  <2> QED
    BY <1>3, <2>1 DEF UploadStoreBlob, TypeOK, UserKeyShared, OwnedBy,
       RowsAreCommittedUploads, FileBeforeRow, DeactivatesCommittedRows,
       OpenUploadsKeepAccount, OpenInsertsKeepResume, RowLockExcludesUploads,
       ActiveResumeExists, NothingOutlivesAccount
<1>4. CASE UploadSetPath(r)
  BY <1>4 DEF UploadSetPath, TypeOK, UserKeyShared, RowsAreCommittedUploads,
     FileBeforeRow, DeactivatesCommittedRows, OpenUploadsKeepAccount,
     OpenInsertsKeepResume, RowLockExcludesUploads, SweepDeletesListed,
     ActiveResumeExists, NothingOutlivesAccount
<1>5. CASE UploadFindOthers(r)
  \* The UPDATE sees committed rows only.
  <2>1. DeactivatesCommittedRows'
    BY <1>5 DEF UploadFindOthers, DeactivatesCommittedRows,
       RowsAreCommittedUploads, OwnedBy
  <2> QED
    BY <1>5, <2>1 DEF UploadFindOthers, TypeOK, UserKeyShared,
       RowsAreCommittedUploads, FileBeforeRow, OpenUploadsKeepAccount,
       OpenInsertsKeepResume, RowLockExcludesUploads, SweepDeletesListed,
       ActiveResumeExists, NothingOutlivesAccount
<1>6. CASE UploadDeactivate(r)
  BY <1>6 DEF UploadDeactivate, TypeOK, UserKeyShared,
     RowsAreCommittedUploads, FileBeforeRow, DeactivatesCommittedRows,
     OpenUploadsKeepAccount, OpenInsertsKeepResume, RowLockExcludesUploads,
     SweepDeletesListed, ActiveResumeExists, NothingOutlivesAccount
<1>7. CASE UploadCommit(r)
  \* The rows deactivated belong to the account whose new row is active.
  <2>1. ActiveResumeExists'
    BY <1>7 DEF UploadCommit, ActiveResumeExists, DeactivatesCommittedRows,
       OwnedBy
  \* The open transaction has kept its account.
  <2>2. NothingOutlivesAccount'
    BY <1>7 DEF UploadCommit, NothingOutlivesAccount, OpenUploadsKeepAccount
  <2> QED
    BY <1>7, <2>1, <2>2 DEF UploadCommit, TypeOK, UserKeyShared,
       RowsAreCommittedUploads, FileBeforeRow, DeactivatesCommittedRows,
       OpenUploadsKeepAccount, OpenInsertsKeepResume, RowLockExcludesUploads,
       SweepDeletesListed
<1>8. CASE UploadAbort(r)
  BY <1>8 DEF UploadAbort, TypeOK, UserKeyShared, RowsAreCommittedUploads,
     FileBeforeRow, DeactivatesCommittedRows, OpenUploadsKeepAccount,
     OpenInsertsKeepResume, RowLockExcludesUploads, SweepDeletesListed,
     ActiveResumeExists, NothingOutlivesAccount
<1> QED
  BY <1>1, <1>2, <1>3, <1>4, <1>5, <1>6, <1>7, <1>8 DEF UploadProgress,
     UploadDeadlockVictim

\* So does an erasure ...
LEMMA EraseInv ==
  ASSUME TypeOK, StoreInv, NEW e \in Erasures,
         EraseStart(e) \/ EraseProgress(e) \/ EraseAbort(e)
  PROVE  StoreInv'
<1> USE DEF db, files, uploads, erasures, EraseStep, StoreInv
<1>1. CASE EraseStart(e)
  BY <1>1 DEF EraseStart, TypeOK, UserKeyShared, RowsAreCommittedUploads,
     FileBeforeRow, DeactivatesCommittedRows, OpenUploadsKeepAccount,
     OpenInsertsKeepResume, RowLockExcludesUploads, SweepDeletesListed,
     ActiveResumeExists, NothingOutlivesAccount
<1>2. CASE EraseList(e)
  \* The listing replaces an empty one.
  <2>1. FileBeforeRow'
    BY <1>2 DEF EraseList, FileBeforeRow, SweepDeletesListed
  <2> QED
    BY <1>2, <2>1 DEF EraseList, TypeOK, UserKeyShared,
       RowsAreCommittedUploads, DeactivatesCommittedRows,
       OpenUploadsKeepAccount, OpenInsertsKeepResume, RowLockExcludesUploads,
       SweepDeletesListed, ActiveResumeExists, NothingOutlivesAccount
<1>3. CASE EraseDeleteBlob(e)
  \* A deleted file was listed for its owner.
  <2>1. FileBeforeRow'
    BY <1>3 DEF EraseDeleteBlob, FileBeforeRow, SweepDeletesListed, OwnedBy
  <2> QED
    BY <1>3, <2>1 DEF EraseDeleteBlob, TypeOK, UserKeyShared,
       RowsAreCommittedUploads, DeactivatesCommittedRows,
       OpenUploadsKeepAccount, OpenInsertsKeepResume, RowLockExcludesUploads,
       SweepDeletesListed, ActiveResumeExists, NothingOutlivesAccount
<1>4. CASE EraseSwept(e)
  BY <1>4 DEF EraseSwept, TypeOK, UserKeyShared, RowsAreCommittedUploads,
     FileBeforeRow, DeactivatesCommittedRows, OpenUploadsKeepAccount,
     OpenInsertsKeepResume, RowLockExcludesUploads, SweepDeletesListed,
     ActiveResumeExists, NothingOutlivesAccount
<1>5. CASE EraseLockUser(e)
  BY <1>5 DEF EraseLockUser, TypeOK, UserKeyShared, RowsAreCommittedUploads,
     FileBeforeRow, DeactivatesCommittedRows, OpenUploadsKeepAccount,
     OpenInsertsKeepResume, RowLockExcludesUploads, SweepDeletesListed,
     ActiveResumeExists, NothingOutlivesAccount
<1>6. CASE EraseCommit(e)
  \* No upload of this account is open.
  <2>1. OpenUploadsKeepAccount'
    BY <1>6 DEF EraseCommit, OpenUploadsKeepAccount, RowLockExcludesUploads,
       OwnedBy, UserKeyShared
  \* The cascade has waited for the extractions.
  <2>2. OpenInsertsKeepResume'
    BY <1>6 DEF EraseCommit, OpenInsertsKeepResume, ResumeKeyShared
  <2> QED
    BY <1>6, <2>1, <2>2 DEF EraseCommit, TypeOK, UserKeyShared, OwnedBy,
       RowsAreCommittedUploads, FileBeforeRow, DeactivatesCommittedRows,
       RowLockExcludesUploads, SweepDeletesListed, ActiveResumeExists,
       NothingOutlivesAccount
<1>7. CASE EraseAbort(e)
  BY <1>7 DEF EraseAbort, TypeOK, UserKeyShared, RowsAreCommittedUploads,
     FileBeforeRow, DeactivatesCommittedRows, OpenUploadsKeepAccount,
     OpenInsertsKeepResume, RowLockExcludesUploads, SweepDeletesListed,
     ActiveResumeExists, NothingOutlivesAccount
<1> QED
  BY <1>1, <1>2, <1>3, <1>4, <1>5, <1>6, <1>7 DEF EraseProgress

\* ... a job ...
LEMMA JobInv ==
  ASSUME TypeOK, StoreInv, NEW j \in Jobs,
         JobStart(j) \/ JobProgress(j) \/ JobAbort(j)
  PROVE  StoreInv'
<1> USE DEF db, files, uploads, erasures, JobStep, StoreInv
<1>1. CASE JobStart(j)
  BY <1>1 DEF JobStart, TypeOK, UserKeyShared, RowsAreCommittedUploads,
     FileBeforeRow, DeactivatesCommittedRows, OpenUploadsKeepAccount,
     OpenInsertsKeepResume, RowLockExcludesUploads, SweepDeletesListed,
     ActiveResumeExists, NothingOutlivesAccount
<1>2. CASE JobReadRow(j)
  BY <1>2 DEF JobReadRow, TypeOK, UserKeyShared, RowsAreCommittedUploads,
     FileBeforeRow, DeactivatesCommittedRows, OpenUploadsKeepAccount,
     OpenInsertsKeepResume, RowLockExcludesUploads, SweepDeletesListed,
     ActiveResumeExists, NothingOutlivesAccount
<1>3. CASE JobDownload(j)
  BY <1>3 DEF JobDownload, TypeOK, UserKeyShared, RowsAreCommittedUploads,
     FileBeforeRow, DeactivatesCommittedRows, OpenUploadsKeepAccount,
     OpenInsertsKeepResume, RowLockExcludesUploads, SweepDeletesListed,
     ActiveResumeExists, NothingOutlivesAccount
<1>4. CASE JobAnswer(j)
  BY <1>4 DEF JobAnswer, TypeOK, UserKeyShared, RowsAreCommittedUploads,
     FileBeforeRow, DeactivatesCommittedRows, OpenUploadsKeepAccount,
     OpenInsertsKeepResume, RowLockExcludesUploads, SweepDeletesListed,
     ActiveResumeExists, NothingOutlivesAccount
<1>5. CASE JobLockResume(j)
  BY <1>5 DEF JobLockResume, TypeOK, UserKeyShared, RowsAreCommittedUploads,
     FileBeforeRow, DeactivatesCommittedRows, OpenUploadsKeepAccount,
     OpenInsertsKeepResume, RowLockExcludesUploads, SweepDeletesListed,
     ActiveResumeExists, NothingOutlivesAccount
<1>6. CASE JobLockUser(j)
  \* The foreign-key check has waited for the erasure to end.
  <2>1. RowLockExcludesUploads'
    BY <1>6 DEF JobLockUser, RowLockExcludesUploads, UserRowLocked,
       UserKeyShared
  <2> QED
    BY <1>6, <2>1 DEF JobLockUser, TypeOK, UserKeyShared,
       RowsAreCommittedUploads, FileBeforeRow, DeactivatesCommittedRows,
       OpenUploadsKeepAccount, OpenInsertsKeepResume, SweepDeletesListed,
       ActiveResumeExists, NothingOutlivesAccount
<1>7. CASE JobCommit(j)
  \* The resume has been kept since its row was locked.
  <2>1. NothingOutlivesAccount'
    BY <1>7 DEF JobCommit, NothingOutlivesAccount, OpenInsertsKeepResume
  <2> QED
    BY <1>7, <2>1 DEF JobCommit, TypeOK, UserKeyShared,
       RowsAreCommittedUploads, FileBeforeRow, DeactivatesCommittedRows,
       OpenUploadsKeepAccount, OpenInsertsKeepResume, RowLockExcludesUploads,
       SweepDeletesListed, ActiveResumeExists
<1>8. CASE JobAbort(j)
  BY <1>8 DEF JobAbort, TypeOK, UserKeyShared, RowsAreCommittedUploads,
     FileBeforeRow, DeactivatesCommittedRows, OpenUploadsKeepAccount,
     OpenInsertsKeepResume, RowLockExcludesUploads, SweepDeletesListed,
     ActiveResumeExists, NothingOutlivesAccount
<1> QED
  BY <1>1, <1>2, <1>3, <1>4, <1>5, <1>6, <1>7, <1>8 DEF JobProgress

\* ... and a crash.
LEMMA CrashInv == TypeOK /\ StoreInv /\ Crash => StoreInv'
BY DEF Crash, TypeOK, db, files, StoreInv, UserKeyShared, RowsAreCommittedUploads,
       FileBeforeRow, DeactivatesCommittedRows, OpenUploadsKeepAccount,
       OpenInsertsKeepResume, RowLockExcludesUploads, SweepDeletesListed,
       ActiveResumeExists, NothingOutlivesAccount

\* Every step keeps the invariant.
LEMMA NextInv == TypeOK /\ StoreInv /\ [Next]_vars => StoreInv'
<1> SUFFICES ASSUME TypeOK, StoreInv, [Next]_vars PROVE StoreInv'
  OBVIOUS
<1>1. CASE UNCHANGED vars
  BY <1>1 DEF vars, StoreInv, RowsAreCommittedUploads, FileBeforeRow,
     DeactivatesCommittedRows, OpenUploadsKeepAccount, OpenInsertsKeepResume,
     RowLockExcludesUploads, UserKeyShared, SweepDeletesListed,
     ActiveResumeExists, NothingOutlivesAccount
<1> QED
  BY NextCases, UploadInv, EraseInv, JobInv, CrashInv, <1>1

\* So it holds in every reachable state.
LEMMA StoreInvCorrect == Spec => []StoreInv
BY TypeCorrect, InitInv, NextInv, PTL DEF Spec

\* The invariant holds, whatever the accounts, uploads, erasures and jobs.
THEOREM InvCorrect == Spec => []Inv
BY TypeCorrect, StoreInvCorrect, PTL DEF Inv

-----------------------------------------------------------------------------
(***************************************************************************)
(* What the invariant gives.                                               *)
(***************************************************************************)

\* A committed resume row has its final path and its file, whatever fails,
\* crashes or is retried, until an erasure of its own account lists the file.
THEOREM RowsHaveFiles == Spec => []RowHasFile
<1>1. TypeOK /\ StoreInv => RowHasFile
  BY DEF TypeOK, StoreInv, RowsAreCommittedUploads, FileBeforeRow, RowHasFile
<1> QED
  BY <1>1, TypeCorrect, StoreInvCorrect, PTL

\* An account that has resumes has an active one.
THEOREM SomeResumeIsActive == Spec => []ActiveResumeExists
<1>1. StoreInv => ActiveResumeExists
  BY DEF StoreInv
<1> QED
  BY <1>1, StoreInvCorrect, PTL

\* Two resumes of an account are active together only when their uploads
\* overlapped: the later of two sequential uploads always supersedes.
THEOREM SequentialUploadsSupersede == Spec => []TwoActiveOnlyIfOverlapping
<1>1. TypeOK /\ StoreInv => TwoActiveOnlyIfOverlapping
  BY DEF TypeOK, StoreInv, RowsAreCommittedUploads, DeactivatesCommittedRows,
     TwoActiveOnlyIfOverlapping
<1> QED
  BY <1>1, TypeCorrect, StoreInvCorrect, PTL

\* After DELETE /me has committed no row of the account is left or appears.
THEOREM ErasureIsFinal == Spec => []NothingOutlivesAccount
<1>1. StoreInv => NothingOutlivesAccount
  BY DEF StoreInv
<1> QED
  BY <1>1, StoreInvCorrect, PTL

\* An erasure that reports success has removed every file its listing found.
THEOREM ErasureSweepsListing == Spec => []ErasureDeletesEarlierFiles
<1>1. StoreInv => ErasureDeletesEarlierFiles
  BY DEF StoreInv, SweepDeletesListed, ErasureDeletesEarlierFiles
<1> QED
  BY <1>1, StoreInvCorrect, PTL

-----------------------------------------------------------------------------
(***************************************************************************)
(* Who waits for whom.  An extraction waits only for an erasure that waits *)
(* for it, an upload for an erasure or for uploads, and a set of uploads   *)
(* that wait for each other has a smallest part that does, the circle      *)
(* Postgres breaks.                                                        *)
(***************************************************************************)

\* Uploads that all wait for rows are stuck as a set: whoever holds a row is one of them,
\* because a request that ended holds none.
LEMMA WaitersAreStuck ==
  ASSUME TypeOK, StoreInv,
         NEW D, D = {r \in Resumes : upload[r] = "deactivating"}, D # {},
         \A r \in D : UploadWaits(r)
  PROVE  Stuck(D)
<1>1. ASSUME NEW r \in D
      PROVE  snapshot[r] # locked[r] /\ \A s \in snapshot[r] \ locked[r] : \E t \in D \ {r} : s \in locked[t]
  <2>1. upload[r] = "deactivating" /\ UploadWaits(r)
    OBVIOUS
  <2>2. snapshot[r] # locked[r] /\ \A s \in snapshot[r] \ locked[r] : ResumeRowLocked(s)
    BY <2>1 DEF UploadWaits
  <2>3. ASSUME NEW s \in snapshot[r] \ locked[r] PROVE \E t \in D \ {r} : s \in locked[t]
    <3>1. PICK t \in Resumes : s \in locked[t]
      BY <2>2 DEF ResumeRowLocked
    <3>2. t # r /\ upload[t] = "deactivating"
      BY <3>1 DEF StoreInv, DeactivatesCommittedRows
    <3> QED
      BY <3>1, <3>2
  <2> QED
    BY <2>2, <2>3
<1> QED
  BY <1>1 DEF Stuck

\* A stuck set of uploads has a smallest stuck part, and all of that is on a circle.
LEMMA StuckHaveVictims ==
  ASSUME NEW D, D \subseteq {r \in Resumes : upload[r] = "deactivating"}, Stuck(D)
  PROVE  DeadlockedUploads # {}
<1> DEFINE T == {E \in SUBSET D : Stuck(E)}
<1>1. IsFiniteSet(D)
  BY FiniteAssumption, FS_Subset
<1>2. PICK E \in T : \A F \in T : F \subseteq E => F = E
  <2>1. T \in SUBSET SUBSET D /\ D \in T
    OBVIOUS
  <2> HIDE DEF T
  <2> QED
    BY <1>1, <2>1, MinimalSubset
<1>3. ASSUME NEW r \in E PROVE ~Stuck(E \ {r})
  BY <1>2
<1>4. E # {} /\ Stuck(E)
  BY DEF Stuck
<1>5. E \subseteq DeadlockedUploads
  BY <1>3, <1>4 DEF DeadlockedUploads
<1> QED
  BY <1>4, <1>5

\* Of the requests in flight one can go on, or Postgres has a circle to break.
THEOREM SomebodyGoesOn == Spec => []NobodyIsStuck
<1>1. TypeOK /\ StoreInv => NobodyIsStuck
  <2> SUFFICES ASSUME TypeOK, StoreInv,
                      \A r \in Resumes : upload[r] \in UploadLive => UploadWaits(r),
                      \A e \in Erasures : erase[e] \in EraseLive => EraseWaits(e),
                      \A j \in Jobs : job[j] \in JobLive => JobWaits(j),
                      DeadlockedUploads = {},
                      \A e \in Erasures, j \in Jobs : ~Deadlocked(e, j)
               PROVE  NoneInFlight
    BY DEF NobodyIsStuck
  <2>1. \A j \in Jobs : job[j] \notin JobLive
    BY DEF JobWaits, UserRowLocked, Deadlocked
  <2>2. \A e \in Erasures : erase[e] # "rowLocked"
    BY <2>1 DEF EraseWaits, ResumeKeyShared
  <2>3. \A u : ~UserRowLocked(u)
    BY <2>2 DEF UserRowLocked
  <2>4. \A r \in Resumes : upload[r] \in UploadLive => upload[r] = "deactivating"
    BY <2>3 DEF UploadWaits
  <2>5. \A r \in Resumes : upload[r] # "deactivating"
    <3> DEFINE D == {r \in Resumes : upload[r] = "deactivating"}
    <3> SUFFICES ASSUME D # {} PROVE FALSE
      OBVIOUS
    <3>1. Stuck(D)
      BY WaitersAreStuck
    <3> QED
      BY <3>1, StuckHaveVictims
  <2>6. \A r \in Resumes : upload[r] \notin UploadLive
    BY <2>4, <2>5
  <2>7. \A e \in Erasures : erase[e] \notin EraseLive
    <3>1. \A u : ~UserKeyShared(u)
      BY <2>1, <2>6 DEF UserKeyShared, OwnedBy
    <3> QED
      BY <2>2, <2>3, <3>1 DEF EraseWaits
  <2> QED
    BY <2>1, <2>6, <2>7 DEF NoneInFlight
<1> QED
  BY <1>1, TypeCorrect, StoreInvCorrect, PTL

-----------------------------------------------------------------------------
(***************************************************************************)
(* Requests run out of steps.  Each of the three kinds only ever goes      *)
(* forward, and what an UPDATE or a sweep has left is a finite set that    *)
(* loses a row or a file at each step, whatever is added elsewhere.        *)
(***************************************************************************)

\* Sets of rows or files are counted by naturals, at most all the uploads, ...
LEMMA RowsCounted ==
  /\ Cardinality(Resumes) \in Nat
  /\ \A A \in SUBSET Resumes : Cardinality(A) \in Nat /\ Cardinality(A) <= Cardinality(Resumes)
BY FiniteAssumption, FS_Subset, FS_CardinalityType

\* ... and one taken out leaves one less.
LEMMA OneRowLess ==
  ASSUME NEW A \in SUBSET Resumes, NEW s \in A
  PROVE  Cardinality(A \ {s}) < Cardinality(A)
<1>1. IsFiniteSet(A) /\ Cardinality(A) \in Nat
  BY FiniteAssumption, FS_Subset, RowsCounted
<1>2. Cardinality(A \ {s}) = Cardinality(A) - 1
  BY <1>1, FS_RemoveElement
<1> QED
  BY <1>1, <1>2

\* The steps left are a natural number, whatever the request is doing.
LeftsAreCounts ==
  /\ \A r \in Resumes : UploadLeft(r) \in Nat
  /\ \A e \in Erasures : EraseLeft(e) \in Nat
  /\ \A j \in Jobs : JobLeft(j) \in Nat

\* Which follows from the type of the phases and the sets.
LEMMA StepsCounted == TypeOK => LeftsAreCounts
<1> SUFFICES ASSUME TypeOK PROVE LeftsAreCounts
  OBVIOUS
<1>1. ASSUME NEW r \in Resumes PROVE UploadLeft(r) \in Nat
  <2>1. Cardinality(snapshot[r] \ locked[r]) \in Nat
    BY RowsCounted DEF TypeOK
  <2> QED
    BY <2>1, RowsCounted DEF UploadLeft
<1>2. ASSUME NEW e \in Erasures PROVE EraseLeft(e) \in Nat
  <2>1. Cardinality(todo[e]) \in Nat
    BY RowsCounted DEF TypeOK
  <2> QED
    BY <2>1, RowsCounted DEF EraseLeft
<1>3. ASSUME NEW j \in Jobs PROVE JobLeft(j) \in Nat
  BY DEF TypeOK, JobLeft, JobsAhead
<1> QED
  BY <1>1, <1>2, <1>3 DEF LeftsAreCounts

\* Each of the requests in S has as many steps left as before.
UploadsKept(S) == \A r \in S : UNCHANGED <<upload[r], snapshot[r], locked[r]>>
ErasuresKept(S) == \A e \in S : UNCHANGED <<erase[e], todo[e]>>
JobsKept(S) == \A j \in S : UNCHANGED job[j]

\* Whose phase and sets stay has as many steps left.
LEMMA KeptKeepSteps ==
  ASSUME TypeOK
  PROVE  /\ \A S \in SUBSET Resumes : UploadsKept(S) => \A r \in S : UploadLeft(r)' <= UploadLeft(r)
         /\ \A S \in SUBSET Erasures : ErasuresKept(S) => \A e \in S : EraseLeft(e)' <= EraseLeft(e)
         /\ \A S \in SUBSET Jobs : JobsKept(S) => \A j \in S : JobLeft(j)' <= JobLeft(j)
<1>1. ASSUME NEW S \in SUBSET Resumes, UploadsKept(S), NEW r \in S
      PROVE  UploadLeft(r)' <= UploadLeft(r)
  <2>1. UploadLeft(r)' = UploadLeft(r)
    BY <1>1 DEF UploadsKept, UploadLeft
  <2> QED
    BY <2>1, StepsCounted DEF LeftsAreCounts
<1>2. ASSUME NEW S \in SUBSET Erasures, ErasuresKept(S), NEW e \in S
      PROVE  EraseLeft(e)' <= EraseLeft(e)
  <2>1. EraseLeft(e)' = EraseLeft(e)
    BY <1>2 DEF ErasuresKept, EraseLeft
  <2> QED
    BY <2>1, StepsCounted DEF LeftsAreCounts
<1>3. ASSUME NEW S \in SUBSET Jobs, JobsKept(S), NEW j \in S
      PROVE  JobLeft(j)' <= JobLeft(j)
  <2>1. JobLeft(j)' = JobLeft(j)
    BY <1>3 DEF JobsKept, JobLeft
  <2> QED
    BY <2>1, StepsCounted DEF LeftsAreCounts
<1> QED
  BY <1>1, <1>2, <1>3

\* An upload takes one of its own steps and touches nobody else's, ...
LEMMA UploadSteps ==
  ASSUME TypeOK, NEW r \in Resumes, UploadStart(r) \/ UploadProgress(r) \/ UploadAbort(r)
  PROVE  /\ UploadLeft(r)' < UploadLeft(r)
         /\ UploadsKept(Resumes \ {r}) /\ ErasuresKept(Erasures) /\ JobsKept(Jobs)
<1> USE DEF db, files, uploads, erasures, UploadStep, UploadsKept, ErasuresKept, JobsKept
<1>t. /\ upload \in [Resumes -> {"idle"} \cup UploadLive \cup Ended]
      /\ snapshot \in [Resumes -> SUBSET Resumes]
      /\ locked \in [Resumes -> SUBSET Resumes]
      /\ resumes \in SUBSET Resumes
  BY Zenon DEF TypeOK
<1>0. Cardinality(Resumes) \in Nat
  BY RowsCounted
<1>1. CASE UploadStart(r)
  BY <1>1, <1>t, <1>0 DEF UploadStart, UploadLeft
<1>2. CASE UploadInsert(r)
  BY <1>2, <1>t, <1>0 DEF UploadInsert, UploadLeft
<1>3. CASE UploadStoreBlob(r)
  BY <1>3, <1>t, <1>0 DEF UploadStoreBlob, UploadLeft
<1>4. CASE UploadSetPath(r)
  BY <1>4, <1>t, <1>0 DEF UploadSetPath, UploadLeft
<1>5. CASE UploadFindOthers(r)
  <2>1. /\ upload[r] = "pathSet" /\ upload'[r] = "deactivating"
        /\ snapshot'[r] \ locked'[r] \in SUBSET Resumes
    BY <1>5, <1>t DEF UploadFindOthers
  <2>2. /\ Cardinality(snapshot'[r] \ locked'[r]) \in Nat
        /\ Cardinality(snapshot'[r] \ locked'[r]) <= Cardinality(Resumes)
    BY <2>1, RowsCounted
  <2>3. UploadLeft(r) = Cardinality(Resumes) + 2
    BY <2>1 DEF UploadLeft
  <2>4. UploadLeft(r)' = Cardinality(snapshot'[r] \ locked'[r]) + 1
    BY <2>1 DEF UploadLeft
  <2>5. UploadsKept(Resumes \ {r}) /\ ErasuresKept(Erasures) /\ JobsKept(Jobs)
    BY <1>5, <1>t DEF UploadFindOthers
  <2> QED
    BY <1>0, <2>2, <2>3, <2>4, <2>5
<1>6. CASE UploadDeactivate(r)
  \* The row just updated was found and not updated before.
  <2>1. PICK s \in snapshot[r] \ locked[r] : locked' = [locked EXCEPT ![r] = @ \cup {s}]
    BY <1>6 DEF UploadDeactivate
  <2> DEFINE A == snapshot[r] \ locked[r]
  <2>2. /\ upload[r] = "deactivating" /\ upload'[r] = "deactivating"
        /\ snapshot'[r] \ locked'[r] = A \ {s}
        /\ A \in SUBSET Resumes /\ s \in A
    BY <1>6, <2>1, <1>t DEF UploadDeactivate
  <2>3. UploadLeft(r) = Cardinality(A) + 1 /\ UploadLeft(r)' = Cardinality(A \ {s}) + 1
    BY <2>2 DEF UploadLeft
  <2>4. /\ Cardinality(A) \in Nat /\ Cardinality(A \ {s}) \in Nat
        /\ Cardinality(A \ {s}) < Cardinality(A)
    BY <2>2, RowsCounted, OneRowLess
  <2>5. UploadsKept(Resumes \ {r}) /\ ErasuresKept(Erasures) /\ JobsKept(Jobs)
    BY <1>6, <2>1, <1>t DEF UploadDeactivate
  <2> HIDE DEF A
  <2> QED
    BY <2>3, <2>4, <2>5
<1>7. CASE UploadCommit(r)
  <2>1. Cardinality(snapshot[r] \ locked[r]) \in Nat
    BY <1>t, RowsCounted
  <2> QED
    BY <1>7, <1>t, <2>1 DEF UploadCommit, UploadLeft
<1>8. CASE UploadAbort(r)
  <2>1. Cardinality(snapshot[r] \ locked[r]) \in Nat
    BY <1>t, RowsCounted
  <2> QED
    BY <1>8, <1>t, <1>0, <2>1 DEF UploadAbort, UploadLeft
<1> QED
  BY <1>1, <1>2, <1>3, <1>4, <1>5, <1>6, <1>7, <1>8
     DEF UploadProgress, UploadDeadlockVictim

\* ... so does an erasure ...
LEMMA EraseSteps ==
  ASSUME TypeOK, NEW e \in Erasures, EraseStart(e) \/ EraseProgress(e) \/ EraseAbort(e)
  PROVE  /\ EraseLeft(e)' < EraseLeft(e)
         /\ UploadsKept(Resumes) /\ ErasuresKept(Erasures \ {e}) /\ JobsKept(Jobs)
<1> USE DEF db, files, uploads, erasures, EraseStep, UploadsKept, ErasuresKept, JobsKept
<1>t. /\ erase \in [Erasures -> {"idle"} \cup EraseLive \cup Ended]
      /\ todo \in [Erasures -> SUBSET Resumes]
      /\ blobs \in SUBSET Resumes
  BY DEF TypeOK
<1>0. Cardinality(Resumes) \in Nat
  BY RowsCounted
<1>c. Cardinality(todo[e]) \in Nat
  BY <1>t, RowsCounted
<1>1. CASE EraseStart(e)
  BY <1>1, <1>t, <1>0 DEF EraseStart, EraseLeft
<1>2. CASE EraseList(e)
  <2>1. /\ erase[e] = "guarded" /\ erase'[e] = "sweeping"
        /\ todo'[e] \in SUBSET Resumes
    BY <1>2, <1>t DEF EraseList
  <2>2. Cardinality(todo'[e]) \in Nat /\ Cardinality(todo'[e]) <= Cardinality(Resumes)
    BY <2>1, RowsCounted
  <2>3. EraseLeft(e) = Cardinality(Resumes) + 4 /\ EraseLeft(e)' = Cardinality(todo'[e]) + 3
    BY <2>1 DEF EraseLeft
  <2>4. UploadsKept(Resumes) /\ ErasuresKept(Erasures \ {e}) /\ JobsKept(Jobs)
    BY <1>2, <1>t DEF EraseList
  <2> QED
    BY <1>0, <2>2, <2>3, <2>4
<1>3. CASE EraseDeleteBlob(e)
  <2>1. PICK r \in todo[e] :
          /\ todo' = [todo EXCEPT ![e] = @ \ {r}]
          /\ erase' = IF r \in blobs THEN erase ELSE [erase EXCEPT ![e] = "failed"]
    BY <1>3 DEF EraseDeleteBlob
  <2>2. erase[e] = "sweeping" /\ erase'[e] \in {"sweeping", "failed"} /\ todo'[e] = todo[e] \ {r}
    BY <1>3, <2>1, <1>t DEF EraseDeleteBlob
  <2>3. EraseLeft(e) = Cardinality(todo[e]) + 3 /\ EraseLeft(e)' \in {Cardinality(todo[e] \ {r}) + 3, 0}
    BY <2>2 DEF EraseLeft
  <2>4. Cardinality(todo[e] \ {r}) \in Nat /\ Cardinality(todo[e] \ {r}) < Cardinality(todo[e])
    <3>1. todo[e] \in SUBSET Resumes /\ todo[e] \ {r} \in SUBSET Resumes
      BY <1>t
    <3> QED
      BY <3>1, RowsCounted, OneRowLess
  <2>5. UploadsKept(Resumes) /\ ErasuresKept(Erasures \ {e}) /\ JobsKept(Jobs)
    BY <1>3, <2>1, <1>t DEF EraseDeleteBlob
  <2> QED
    BY <1>c, <2>3, <2>4, <2>5
<1>4. CASE EraseSwept(e)
  BY <1>4, <1>t, <1>c DEF EraseSwept, EraseLeft
<1>5. CASE EraseLockUser(e)
  BY <1>5, <1>t DEF EraseLockUser, EraseLeft
<1>6. CASE EraseCommit(e)
  BY <1>6, <1>t DEF EraseCommit, EraseLeft
<1>7. CASE EraseAbort(e)
  BY <1>7, <1>t, <1>0, <1>c DEF EraseAbort, EraseLeft
<1> QED
  BY <1>1, <1>2, <1>3, <1>4, <1>5, <1>6, <1>7 DEF EraseProgress

\* ... and a job, ...
LEMMA JobSteps ==
  ASSUME TypeOK, NEW j \in Jobs, JobStart(j) \/ JobProgress(j) \/ JobAbort(j)
  PROVE  /\ JobLeft(j)' < JobLeft(j)
         /\ UploadsKept(Resumes) /\ ErasuresKept(Erasures) /\ JobsKept(Jobs \ {j})
<1> USE DEF db, files, uploads, erasures, JobStep, UploadsKept, ErasuresKept, JobsKept, JobLeft, JobsAhead
<1>t. job \in [Jobs -> {"idle"} \cup JobLive \cup Ended]
  BY DEF TypeOK
<1>1. CASE JobStart(j)
  BY <1>1, <1>t DEF JobStart
<1>2. CASE JobReadRow(j)
  BY <1>2, <1>t DEF JobReadRow
<1>3. CASE JobDownload(j)
  BY <1>3, <1>t DEF JobDownload
<1>4. CASE JobAnswer(j)
  BY <1>4, <1>t DEF JobAnswer
<1>5. CASE JobLockResume(j)
  BY <1>5, <1>t DEF JobLockResume
<1>6. CASE JobLockUser(j)
  BY <1>6, <1>t DEF JobLockUser
<1>7. CASE JobCommit(j)
  BY <1>7, <1>t DEF JobCommit
<1>8. CASE JobAbort(j)
  BY <1>8, <1>t DEF JobAbort
<1> QED
  BY <1>1, <1>2, <1>3, <1>4, <1>5, <1>6, <1>7, <1>8 DEF JobProgress

\* ... while a crash ends every request in flight, one at least.
LEMMA CrashSteps ==
  ASSUME TypeOK, Crash
  PROVE  /\ \A r \in Resumes : /\ UploadLeft(r)' <= UploadLeft(r)
                               /\ upload[r] \in UploadLive => UploadLeft(r)' < UploadLeft(r)
         /\ \A e \in Erasures : /\ EraseLeft(e)' <= EraseLeft(e)
                                /\ erase[e] \in EraseLive => EraseLeft(e)' < EraseLeft(e)
         /\ \A j \in Jobs : /\ JobLeft(j)' <= JobLeft(j)
                            /\ job[j] \in JobLive => JobLeft(j)' < JobLeft(j)
<1>t. /\ upload \in [Resumes -> {"idle"} \cup UploadLive \cup Ended]
      /\ erase \in [Erasures -> {"idle"} \cup EraseLive \cup Ended]
      /\ job \in [Jobs -> {"idle"} \cup JobLive \cup Ended]
  BY DEF TypeOK
<1>0. Cardinality(Resumes) \in Nat
  BY RowsCounted
<1>1. ASSUME NEW r \in Resumes
      PROVE  /\ UploadLeft(r)' <= UploadLeft(r)
             /\ upload[r] \in UploadLive => UploadLeft(r)' < UploadLeft(r)
  <2>1. upload'[r] = IF upload[r] \in UploadLive THEN "failed" ELSE upload[r]
    BY <1>t DEF Crash
  <2>2. Cardinality(snapshot[r] \ locked[r]) \in Nat
    BY RowsCounted DEF TypeOK
  <2> QED
    BY <1>t, <1>0, <2>1, <2>2 DEF UploadLeft
<1>2. ASSUME NEW e \in Erasures
      PROVE  /\ EraseLeft(e)' <= EraseLeft(e)
             /\ erase[e] \in EraseLive => EraseLeft(e)' < EraseLeft(e)
  <2>1. erase'[e] = IF erase[e] \in EraseLive THEN "failed" ELSE erase[e]
    BY <1>t DEF Crash
  <2>2. Cardinality(todo[e]) \in Nat
    BY RowsCounted DEF TypeOK
  <2> QED
    BY <1>t, <1>0, <2>1, <2>2 DEF EraseLeft
<1>3. ASSUME NEW j \in Jobs
      PROVE  /\ JobLeft(j)' <= JobLeft(j)
             /\ job[j] \in JobLive => JobLeft(j)' < JobLeft(j)
  <2>1. job'[j] = IF job[j] \in JobLive THEN "failed" ELSE job[j]
    BY <1>t DEF Crash
  <2> QED
    BY <1>t, <2>1 DEF JobLeft, JobsAhead
<1> QED
  BY <1>1, <1>2, <1>3

\* A crash with nothing in flight would change nothing, and is no step.
LEMMA CrashEndsOne ==
  ASSUME TypeOK, Crash
  PROVE  ~NoneInFlight
<1> SUFFICES ASSUME NoneInFlight PROVE FALSE
  OBVIOUS
<1>1. upload' = upload
  BY DEF Crash, TypeOK, NoneInFlight
<1>2. erase' = erase
  BY DEF Crash, TypeOK, NoneInFlight
<1>3. job' = job
  BY DEF Crash, TypeOK, NoneInFlight
<1> QED
  BY <1>1, <1>2, <1>3 DEF Crash

\* Every step leaves some request fewer steps and none more.
THEOREM RequestsEndInSteps == Spec => StepsRunOut
<1> DEFINE Lower ==
      /\ \A r \in Resumes : UploadLeft(r)' <= UploadLeft(r)
      /\ \A e \in Erasures : EraseLeft(e)' <= EraseLeft(e)
      /\ \A j \in Jobs : JobLeft(j)' <= JobLeft(j)
      /\ \/ \E r \in Resumes : UploadLeft(r)' < UploadLeft(r)
         \/ \E e \in Erasures : EraseLeft(e)' < EraseLeft(e)
         \/ \E j \in Jobs : JobLeft(j)' < JobLeft(j)
<1>1. TypeOK /\ LeftsAreCounts /\ LeftsAreCounts' /\ [Next]_vars => [Lower]_vars
  <2> SUFFICES ASSUME TypeOK, LeftsAreCounts, LeftsAreCounts', [Next]_vars, ~UNCHANGED vars
               PROVE  Lower
    OBVIOUS
  <2>0. /\ \A r \in Resumes : UploadLeft(r) \in Nat /\ UploadLeft(r)' \in Nat
        /\ \A e \in Erasures : EraseLeft(e) \in Nat /\ EraseLeft(e)' \in Nat
        /\ \A j \in Jobs : JobLeft(j) \in Nat /\ JobLeft(j)' \in Nat
    BY DEF LeftsAreCounts
  <2>1. ASSUME NEW r \in Resumes, UploadStart(r) \/ UploadProgress(r) \/ UploadAbort(r)
        PROVE  Lower
    <3>1. /\ UploadLeft(r)' < UploadLeft(r)
          /\ \A s \in Resumes \ {r} : UploadLeft(s)' <= UploadLeft(s)
          /\ \A s \in Erasures : EraseLeft(s)' <= EraseLeft(s)
          /\ \A s \in Jobs : JobLeft(s)' <= JobLeft(s)
      BY <2>1, UploadSteps, KeptKeepSteps
    <3>2. UploadLeft(r)' <= UploadLeft(r)
      BY <2>0, <3>1
    <3> QED
      BY <3>1, <3>2
  <2>2. ASSUME NEW e \in Erasures, EraseStart(e) \/ EraseProgress(e) \/ EraseAbort(e)
        PROVE  Lower
    <3>1. /\ EraseLeft(e)' < EraseLeft(e)
          /\ \A s \in Resumes : UploadLeft(s)' <= UploadLeft(s)
          /\ \A s \in Erasures \ {e} : EraseLeft(s)' <= EraseLeft(s)
          /\ \A s \in Jobs : JobLeft(s)' <= JobLeft(s)
      BY <2>2, EraseSteps, KeptKeepSteps
    <3>2. EraseLeft(e)' <= EraseLeft(e)
      BY <2>0, <3>1
    <3> QED
      BY <3>1, <3>2
  <2>3. ASSUME NEW j \in Jobs, JobStart(j) \/ JobProgress(j) \/ JobAbort(j)
        PROVE  Lower
    <3>1. /\ JobLeft(j)' < JobLeft(j)
          /\ \A s \in Resumes : UploadLeft(s)' <= UploadLeft(s)
          /\ \A s \in Erasures : EraseLeft(s)' <= EraseLeft(s)
          /\ \A s \in Jobs \ {j} : JobLeft(s)' <= JobLeft(s)
      BY <2>3, JobSteps, KeptKeepSteps
    <3>2. JobLeft(j)' <= JobLeft(j)
      BY <2>0, <3>1
    <3> QED
      BY <3>1, <3>2
  <2>4. CASE Crash
    BY <2>4, CrashSteps, CrashEndsOne DEF NoneInFlight
  <2> QED
    BY <2>1, <2>2, <2>3, <2>4, NextCases
<1> QED
  BY <1>1, StepsCounted, TypeCorrect, PTL DEF Spec, StepsRunOut

\* Both together: requests never come to a standstill, and never go on for ever.
THEOREM RequestsReachTheirEnd == Spec => RequestsCanEnd
BY SomebodyGoesOn, RequestsEndInSteps, PTL DEF RequestsCanEnd

-----------------------------------------------------------------------------
(***************************************************************************)
(* The contract of accounts and their rows.                                *)
(***************************************************************************)

\* The account of each row, as the contract has it.
LEMMA RowOwners ==
  /\ \A r \in Resumes : <<"resume", r>> \in TableRows /\ RowOwner[<<"resume", r>>] = Owner[r]
  /\ \A j \in Jobs : /\ <<"extraction", j>> \in TableRows
                     /\ RowOwner[<<"extraction", j>>] = Owner[Subject[j]]
BY DEF TableRows, RowOwner

CommittedRows == ({"resume"} \X resumes) \cup ({"extraction"} \X extracted)

\* A step that changes no table is a stutter of the contract.
LEMMA QuietContract ==
  ASSUME UNCHANGED <<accounts, resumes, extracted>>
  PROVE  UNCHANGED Contract!vars
BY DEF Contract!vars

\* The commit of an upload writes a row whose account its lock has kept.
LEMMA UploadContract ==
  ASSUME TypeOK, StoreInv, NEW r \in Resumes, UploadStart(r) \/ UploadProgress(r) \/ UploadAbort(r)
  PROVE  [Contract!Next]_(Contract!vars)
<1>1. CASE UploadCommit(r)
  <2>1. Owner[r] \in accounts /\ resumes' = resumes \cup {r}
    BY <1>1 DEF UploadCommit, UploadStep, StoreInv, OpenUploadsKeepAccount, UploadTx
  <2>2. CommittedRows' = CommittedRows \cup {<<"resume", r>>}
    BY <1>1, <2>1 DEF UploadCommit, CommittedRows
  <2>3. Contract!Write(<<"resume", r>>)
    BY <1>1, <2>1, <2>2, RowOwners DEF UploadCommit, Contract!Write, CommittedRows
  <2> QED
    BY <2>3, RowOwners DEF Contract!Next
<1>2. CASE ~UploadCommit(r)
  BY <1>2, QuietContract
     DEF UploadStart, UploadProgress, UploadInsert, UploadStoreBlob, UploadSetPath, UploadFindOthers,
         UploadDeactivate, UploadDeadlockVictim, UploadAbort, db
<1> QED
  BY <1>1, <1>2

\* The commit of an erasure takes the account with its rows, or finds neither.
LEMMA EraseContract ==
  ASSUME TypeOK, StoreInv, NEW e \in Erasures, EraseStart(e) \/ EraseProgress(e) \/ EraseAbort(e)
  PROVE  [Contract!Next]_(Contract!vars)
<1>1. CASE EraseCommit(e)
  <2> DEFINE u == Target[e]
  <2>1. u \in Users
    BY TargetAssumption
  <2>2. CASE u \in accounts
    <3>1. (Users \ accounts)' = (Users \ accounts) \cup {u}
      BY <1>1, <2>1 DEF EraseCommit
    <3>2. CommittedRows' = CommittedRows \ Contract!RowsOf(u)
      <4>1. \A r \in Resumes : <<"resume", r>> \in Contract!RowsOf(u) <=> r \in OwnedBy(u)
        BY RowOwners DEF Contract!RowsOf, OwnedBy
      <4>2. \A j \in Jobs : <<"extraction", j>> \in Contract!RowsOf(u) <=> Owner[Subject[j]] = u
        BY RowOwners DEF Contract!RowsOf
      <4>3. resumes' = resumes \ OwnedBy(u) /\ extracted' = {j \in extracted : Owner[Subject[j]] # u}
        BY <1>1 DEF EraseCommit
      <4>4. resumes \in SUBSET Resumes /\ extracted \in SUBSET Jobs
        BY DEF TypeOK
      <4> QED
        BY <4>1, <4>2, <4>3, <4>4 DEF CommittedRows
    <3>3. Contract!Erase(u)
      BY <1>1, <2>2, <3>1, <3>2 DEF EraseCommit, Contract!Erase, CommittedRows
    <3> QED
      BY <2>1, <3>3 DEF Contract!Next
  <2>3. CASE u \notin accounts
    <3>1. \A r \in resumes : Owner[r] # u
      BY <2>3 DEF StoreInv, NothingOutlivesAccount
    <3>2. \A j \in extracted : Owner[Subject[j]] # u
      BY <3>1 DEF StoreInv, NothingOutlivesAccount
    <3>3. UNCHANGED <<accounts, resumes, extracted>>
      BY <1>1, <2>3, <3>1, <3>2 DEF EraseCommit, OwnedBy
    <3> QED
      BY <3>3, QuietContract
  <2> QED
    BY <2>2, <2>3
<1>2. CASE ~EraseCommit(e)
  BY <1>2, QuietContract
     DEF EraseStart, EraseProgress, EraseList, EraseDeleteBlob, EraseSwept, EraseLockUser,
         EraseAbort, db
<1> QED
  BY <1>1, <1>2

\* The commit of a job writes a row whose resume, and so account, is there.
LEMMA JobContract ==
  ASSUME TypeOK, StoreInv, NEW j \in Jobs, JobStart(j) \/ JobProgress(j) \/ JobAbort(j)
  PROVE  [Contract!Next]_(Contract!vars)
<1>1. CASE JobCommit(j)
  <2>1. Owner[Subject[j]] \in accounts /\ extracted' = extracted \cup {j}
    BY <1>1 DEF JobCommit, JobStep, StoreInv, OpenInsertsKeepResume, JobTx, NothingOutlivesAccount
  <2>2. CommittedRows' = CommittedRows \cup {<<"extraction", j>>}
    BY <1>1, <2>1 DEF JobCommit, CommittedRows
  <2>3. Contract!Write(<<"extraction", j>>)
    BY <1>1, <2>1, <2>2, RowOwners DEF JobCommit, Contract!Write, CommittedRows
  <2> QED
    BY <2>3, RowOwners DEF Contract!Next
<1>2. CASE ~JobCommit(j)
  BY <1>2, QuietContract
     DEF JobStart, JobProgress, JobReadRow, JobDownload, JobAnswer, JobLockResume, JobLockUser,
         JobAbort, db
<1> QED
  BY <1>1, <1>2

\* The tables of resumes and extractions implement AccountContract: whatever overlaps,
\* fails or is aborted, rows come under existing accounts and go with them.
THEOREM TablesKeepContract == Spec => KeepsContract
<1>1. Init => Contract!Init
  <2> SUFFICES ASSUME Init PROVE Contract!Init
    OBVIOUS
  <2>1. \A r \in resumes : Owner[r] \in Users /\ <<"resume", r>> \in Contract!RowsOf(Owner[r])
    BY RowOwners, OwnerAssumption, PastsAssumption DEF Init, Contract!RowsOf
  <2>2. CommittedRows \in SUBSET UNION {Contract!RowsOf(a) : a \in accounts}
    BY <2>1 DEF Init, CommittedRows
  <2> QED
    BY <2>2 DEF Init, Contract!Init, CommittedRows
<1>2. TypeOK /\ StoreInv /\ [Next]_vars => [Contract!Next]_(Contract!vars)
  <2> SUFFICES ASSUME TypeOK, StoreInv, [Next]_vars PROVE [Contract!Next]_(Contract!vars)
    OBVIOUS
  <2>1. CASE Crash \/ UNCHANGED vars
    BY <2>1, QuietContract DEF Crash, vars, db
  <2> QED
    BY <2>1, NextCases, UploadContract, EraseContract, JobContract
<1> QED
  BY <1>1, <1>2, TypeCorrect, StoreInvCorrect, PTL DEF Spec, KeepsContract, Contract!Spec
=============================================================================
