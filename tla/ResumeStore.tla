---------------------------- MODULE ResumeStore ----------------------------
(***************************************************************************)
(* Resumes of an account across two stores: rows in Postgres and files in  *)
(* blob storage.  The module follows three request handlers, one action    *)
(* per await:                                                              *)
(*   - POST /me/resumes            ResumesService.upload                   *)
(*   - POST /me/resumes/:id/extract (and GET .../content, a prefix of it)  *)
(*   - DELETE /me                  MeController.deleteAccount              *)
(* together with what they rely on: READ COMMITTED transactions with their *)
(* row locks and foreign-key locks, ON DELETE CASCADE, a blob store with   *)
(* no transactions, and a process that may stop at any moment.             *)
(*                                                                         *)
(* A request slot is used once.  An upload slot is also the identity of    *)
(* the row it inserts and of the file it stores: both ids come from the    *)
(* same database-generated uuid.                                           *)
(***************************************************************************)
EXTENDS Integers, FiniteSets

CONSTANTS
  Users,      \* accounts that exist when the behaviour starts
  Resumes,    \* upload requests, and so resume rows and files
  Erasures,   \* DELETE /me requests
  Jobs,       \* extract or content requests
  Owner,      \* whose session sends the upload
  Target,     \* whose session sends the erasure
  Subject,    \* the resume a job asks for
  Pasts,      \* sets of uploads; those of one of them ended, one after the other, before
  Rosters     \* sets of requests; those of one of them are all that come (a bound)

ASSUME FiniteAssumption == IsFiniteSet(Resumes)
ASSUME OwnerAssumption == Owner \in [Resumes -> Users]
ASSUME TargetAssumption == Target \in [Erasures -> Users]
ASSUME SubjectAssumption == Subject \in [Jobs -> Resumes]
ASSUME PastsAssumption == Pasts \in SUBSET SUBSET Resumes
ASSUME RostersAssumption == Rosters \in SUBSET SUBSET (Resumes \cup Erasures \cup Jobs)

VARIABLES
  accounts,    \* committed rows of users
  resumes,     \* committed rows of resumes
  active,      \* those whose is_active is true
  path,        \* blob_storage_path, written by the row's own upload only
  extracted,   \* jobs whose row of resume_extractions is committed
  blobs,       \* files present under the container
  stored,      \* files ever stored (history, read by properties only)
  upload,      \* where each upload request is
  snapshot,    \* rows the deactivating UPDATE of an upload found
  locked,      \* those it has updated, and so locked, so far
  erase,       \* where each erasure request is
  listed,      \* what its listing of the user prefix returned
  todo,        \* the part of it not deleted yet
  job          \* where each job is

db == <<accounts, resumes, active, path, extracted>>
files == <<blobs, stored>>
uploads == <<upload, snapshot, locked>>
erasures == <<erase, listed, todo>>
vars == <<accounts, resumes, active, path, extracted, blobs, stored,
          upload, snapshot, locked, erase, listed, todo, job>>

\* "unacked": COMMIT took effect but its reply was lost, the client got an error.
Committed == {"done", "unacked"}
Ended == Committed \cup {"failed"}

UploadTx == {"inserted", "stored", "pathSet", "deactivating"}
UploadLive == {"guarded"} \cup UploadTx
EraseLive == {"guarded", "sweeping", "swept", "rowLocked"}
JobTx == {"resumeLocked", "bothLocked"}
JobLive == {"guarded", "read", "downloaded", "answered"} \cup JobTx

OwnedBy(u) == {r \in Resumes : Owner[r] = u}

TypeOK ==
  /\ accounts \in SUBSET Users
  /\ resumes \in SUBSET Resumes
  /\ active \in SUBSET resumes
  /\ path \in [Resumes -> {"pending", "key"}]
  /\ extracted \in SUBSET Jobs
  /\ blobs \in SUBSET stored
  /\ stored \in SUBSET Resumes
  /\ upload \in [Resumes -> {"idle"} \cup UploadLive \cup Ended]
  /\ snapshot \in [Resumes -> SUBSET Resumes]
  /\ locked \in [Resumes -> SUBSET Resumes]
  /\ erase \in [Erasures -> {"idle"} \cup EraseLive \cup Ended]
  /\ listed \in [Erasures -> SUBSET Resumes]
  /\ todo \in [Erasures -> SUBSET Resumes]
  /\ job \in [Jobs -> {"idle"} \cup JobLive \cup Ended]

\* Of the earlier uploads of an account the last one deactivated the others.
Init ==
  /\ accounts = Users
  /\ resumes \in Pasts
  /\ active \in SUBSET resumes
  /\ \A u \in Users : resumes \cap OwnedBy(u) # {} => \E r \in resumes : active \cap OwnedBy(u) = {r}
  /\ path = [r \in Resumes |-> IF r \in resumes THEN "key" ELSE "pending"]
  /\ extracted = {}
  /\ blobs = resumes
  /\ stored = resumes
  /\ upload = [r \in Resumes |-> IF r \in resumes THEN "done" ELSE "idle"]
  /\ snapshot = [r \in Resumes |-> IF r \in active THEN (resumes \cap OwnedBy(Owner[r])) \ {r} ELSE {}]
  /\ locked = [r \in Resumes |-> {}]
  /\ erase = [e \in Erasures |-> "idle"]
  /\ listed = [e \in Erasures |-> {}]
  /\ todo = [e \in Erasures |-> {}]
  /\ job = [j \in Jobs |-> "idle"]

Arrived ==
  {r \in Resumes : upload[r] # "idle"} \cup {e \in Erasures : erase[e] # "idle"}
    \cup {j \in Jobs : job[j] # "idle"}

\* Request q may still come to this behaviour.
Comes(q) == \E roster \in Rosters : Arrived \cup {q} \subseteq roster

-----------------------------------------------------------------------------
(***************************************************************************)
(* Locks Postgres holds for these transactions.  An INSERT takes FOR KEY   *)
(* SHARE on every row its foreign keys name, until its transaction ends;   *)
(* deleting a row waits for those holders and then keeps new ones out.     *)
(***************************************************************************)
UserKeyShared(u) ==
  \/ \E r \in OwnedBy(u) : upload[r] \in UploadTx
  \/ \E j \in Jobs : Owner[Subject[j]] = u /\ job[j] = "bothLocked"

UserRowLocked(u) == \E e \in Erasures : Target[e] = u /\ erase[e] = "rowLocked"

ResumeKeyShared(r) == \E j \in Jobs : Subject[j] = r /\ job[j] \in JobTx

ResumeRowLocked(r) == \E s \in Resumes : r \in locked[s]

(***************************************************************************)
(* POST /me/resumes.                                                       *)
(***************************************************************************)
UploadStep(r, from, to) ==
  /\ upload[r] = from
  /\ upload' = [upload EXCEPT ![r] = to]

\* AuthGuard reads the account in a transaction of its own, then the file is
\* validated: an unknown account (401) or a refused file (400) ends the request.
UploadStart(r) ==
  /\ Comes(r)
  /\ \/ Owner[r] \in accounts /\ UploadStep(r, "idle", "guarded")
     \/ UploadStep(r, "idle", "failed")
  /\ UNCHANGED <<db, files, snapshot, locked, erasures, job>>

\* Mutant: the INSERT is issued on the pool instead of the transaction's
\* connection, so it commits at once with its placeholder path.
UploadInsertOutsideTx(r) ==
  /\ ~UserRowLocked(Owner[r])
  /\ Owner[r] \in accounts
  /\ UploadStep(r, "guarded", "inserted")
  /\ resumes' = resumes \cup {r}
  /\ active' = active \cup {r}
  /\ UNCHANGED <<accounts, path, extracted, files, snapshot, locked, erasures, job>>

\* Mutant: resumes.user_id without its foreign key.
UploadInsertNoForeignKey(r) ==
  /\ UploadStep(r, "guarded", "inserted")
  /\ UNCHANGED <<db, files, snapshot, locked, erasures, job>>

\* BEGIN and INSERT.  The foreign-key check waits for an erasure that has
\* deleted the account without committing, and fails once the account is gone.
UploadInsert(r) ==
  /\ ~UserRowLocked(Owner[r])
  /\ UploadStep(r, "guarded", IF Owner[r] \in accounts THEN "inserted" ELSE "failed")
  /\ UNCHANGED <<db, files, snapshot, locked, erasures, job>>

\* BlobStorageService.upload, inside the open transaction.  A call that fails
\* may have stored the file all the same; it always rolls the INSERT back.
UploadStoreBlob(r) ==
  /\ \/ UploadStep(r, "inserted", "stored")
     \/ UploadStep(r, "inserted", "failed")
  /\ blobs' = blobs \cup {r}
  /\ stored' = stored \cup {r}
  /\ UNCHANGED <<db, snapshot, locked, erasures, job>>

UploadSetPath(r) ==
  /\ UploadStep(r, "stored", "pathSet")
  /\ path' = [path EXCEPT ![r] = "key"]
  /\ UNCHANGED <<accounts, resumes, active, extracted, files, snapshot, locked,
                 erasures, job>>

\* UPDATE ... SET is_active = false starts: under READ COMMITTED it acts on the
\* rows committed now.  A row another open upload inserted is not among them.
UploadFindOthers(r) ==
  /\ UploadStep(r, "pathSet", "deactivating")
  /\ snapshot' = [snapshot EXCEPT ![r] = (resumes \cap OwnedBy(Owner[r])) \ {r}]
  /\ UNCHANGED <<db, files, locked, erasures, job>>

\* The UPDATE reaches one of those rows, in no promised order, and waits while
\* another upload holds it.
UploadDeactivate(r) ==
  /\ upload[r] = "deactivating"
  /\ \E s \in snapshot[r] \ locked[r] :
       /\ ~ResumeRowLocked(s)
       /\ locked' = [locked EXCEPT ![r] = @ \cup {s}]
  /\ UNCHANGED <<db, files, upload, snapshot, erasures, job>>

\* Mutant: the deactivating UPDATE is not awaited before the callback returns.
UploadCommitNotAwaited(r) ==
  /\ \E reply \in Committed : UploadStep(r, "deactivating", reply)
  /\ resumes' = resumes \cup {r}
  /\ active' = (active \ locked[r]) \cup {r}
  /\ locked' = [locked EXCEPT ![r] = {}]
  /\ UNCHANGED <<accounts, path, extracted, files, snapshot, erasures, job>>

\* Mutant: the UPDATE without ne(resumes.id, row.id) deactivates the new row too.
UploadCommitDeactivatesItself(r) ==
  /\ locked[r] = snapshot[r]
  /\ \E reply \in Committed : UploadStep(r, "deactivating", reply)
  /\ resumes' = resumes \cup {r}
  /\ active' = active \ locked[r]
  /\ locked' = [locked EXCEPT ![r] = {}]
  /\ UNCHANGED <<accounts, path, extracted, files, snapshot, erasures, job>>

UploadCommit(r) ==
  /\ locked[r] = snapshot[r]
  /\ \E reply \in Committed : UploadStep(r, "deactivating", reply)
  /\ resumes' = resumes \cup {r}
  /\ active' = (active \ locked[r]) \cup {r}
  /\ locked' = [locked EXCEPT ![r] = {}]
  /\ UNCHANGED <<accounts, path, extracted, files, snapshot, erasures, job>>

\* Mutant: withUserContext releases its client without ROLLBACK, so the row locks
\* of the failed transaction stay.
UploadAbortNoRollback(r) ==
  /\ \E p \in UploadLive : UploadStep(r, p, "failed")
  /\ UNCHANGED <<db, files, snapshot, locked, erasures, job>>

\* Rolled back: by withUserContext when a step throws, by Postgres when the
\* connection is lost.
UploadAbort(r) ==
  /\ \E p \in UploadLive : UploadStep(r, p, "failed")
  /\ locked' = [locked EXCEPT ![r] = {}]
  /\ UNCHANGED <<db, files, snapshot, erasures, job>>

\* A set of uploads none of which can reach its next row because of another
\* member.  No smaller set is stuck, so each of them is on the cycle.
Stuck(D) ==
  /\ D # {}
  /\ \A r \in D :
       /\ upload[r] = "deactivating"
       /\ snapshot[r] # locked[r]
       /\ \A s \in snapshot[r] \ locked[r] : \E t \in D \ {r} : s \in locked[t]

DeadlockedUploads ==
  UNION {D \in SUBSET {r \in Resumes : upload[r] = "deactivating"} :
           Stuck(D) /\ \A r \in D : ~Stuck(D \ {r})}

\* Postgres breaks a cycle of lock waits by aborting one of the waiters.
UploadDeadlockVictim(r) ==
  /\ r \in DeadlockedUploads
  /\ UploadAbort(r)

-----------------------------------------------------------------------------
(***************************************************************************)
(* DELETE /me: files first, account second.                                *)
(***************************************************************************)
EraseStep(e, from, to) ==
  /\ erase[e] = from
  /\ erase' = [erase EXCEPT ![e] = to]

\* An unknown account (401) or a missing confirm=DELETE (400) ends the request.
EraseStart(e) ==
  /\ Comes(e)
  /\ \/ Target[e] \in accounts /\ EraseStep(e, "idle", "guarded")
     \/ EraseStep(e, "idle", "failed")
  /\ UNCHANGED <<db, files, uploads, listed, todo, job>>

\* deleteByPrefix lists `{userId}/`: rows are not consulted.
EraseList(e) ==
  /\ EraseStep(e, "guarded", "sweeping")
  /\ listed' = [listed EXCEPT ![e] = blobs \cap OwnedBy(Target[e])]
  /\ todo' = [todo EXCEPT ![e] = blobs \cap OwnedBy(Target[e])]
  /\ UNCHANGED <<db, files, uploads, job>>

\* Mutant: a failed deleteBlob is caught and the loop goes on.
EraseDeleteBlobSwallowed(e) ==
  /\ erase[e] = "sweeping"
  /\ \E r \in todo[e] :
       /\ blobs' \in {blobs, blobs \ {r}}
       /\ todo' = [todo EXCEPT ![e] = @ \ {r}]
  /\ UNCHANGED <<db, stored, uploads, erase, listed, job>>

\* Mutant: a failed deleteBlob is retried for ever.
EraseDeleteBlobRetried(e) ==
  /\ erase[e] = "sweeping"
  /\ \E r \in todo[e] \cap blobs :
       /\ blobs' = blobs \ {r}
       /\ todo' = [todo EXCEPT ![e] = @ \ {r}]
  /\ UNCHANGED <<db, stored, uploads, erase, listed, job>>

\* deleteBlob throws on a file that is already gone, which ends the request.
EraseDeleteBlob(e) ==
  /\ erase[e] = "sweeping"
  /\ \E r \in todo[e] :
       /\ blobs' = blobs \ {r}
       /\ todo' = [todo EXCEPT ![e] = @ \ {r}]
       /\ erase' = IF r \in blobs THEN erase ELSE [erase EXCEPT ![e] = "failed"]
  /\ UNCHANGED <<db, stored, uploads, listed, job>>

\* Mutant: the prefix is listed again until nothing is left under it.
EraseSweepsAgain(e) ==
  /\ todo[e] = {}
  /\ EraseStep(e, "sweeping", IF blobs \cap OwnedBy(Target[e]) = {} THEN "swept" ELSE "guarded")
  /\ UNCHANGED <<db, files, uploads, listed, todo, job>>

EraseSwept(e) ==
  /\ todo[e] = {}
  /\ EraseStep(e, "sweeping", "swept")
  /\ UNCHANGED <<db, files, uploads, listed, todo, job>>

\* DELETE FROM users locks the row, after the transactions whose foreign keys
\* hold it.  When another erasure got there first, it deletes no row and commits.
EraseLockUser(e) ==
  /\ ~UserKeyShared(Target[e])
  /\ ~UserRowLocked(Target[e])
  /\ EraseStep(e, "swept", IF Target[e] \in accounts THEN "rowLocked" ELSE "done")
  /\ UNCHANGED <<db, files, uploads, listed, todo, job>>

\* Mutant: is_active kept in a table of its own that the cascade does not reach.
EraseCommitForgetsActive(e) ==
  LET u == Target[e] IN
  /\ \A r \in resumes \cap OwnedBy(u) : ~ResumeKeyShared(r)
  /\ \E reply \in Committed : EraseStep(e, "rowLocked", reply)
  /\ accounts' = accounts \ {u}
  /\ resumes' = resumes \ OwnedBy(u)
  /\ extracted' = {j \in extracted : Owner[Subject[j]] # u}
  /\ UNCHANGED <<active, path, files, uploads, listed, todo, job>>

\* The cascade deletes the rows of the account, after the transactions whose
\* foreign keys hold them, and the transaction commits.
EraseCommit(e) ==
  LET u == Target[e] IN
  /\ \A r \in resumes \cap OwnedBy(u) : ~ResumeKeyShared(r)
  /\ \E reply \in Committed : EraseStep(e, "rowLocked", reply)
  /\ accounts' = accounts \ {u}
  /\ resumes' = resumes \ OwnedBy(u)
  /\ active' = active \ OwnedBy(u)
  /\ extracted' = {j \in extracted : Owner[Subject[j]] # u}
  /\ UNCHANGED <<path, files, uploads, listed, todo, job>>

\* Any step may throw: files already deleted stay deleted.
EraseAbort(e) ==
  /\ \E p \in EraseLive : EraseStep(e, p, "failed")
  /\ UNCHANGED <<db, files, uploads, listed, todo, job>>

-----------------------------------------------------------------------------
(***************************************************************************)
(* POST /me/resumes/:id/extract.  GET /me/resumes/:id/content is its first *)
(* two steps.                                                              *)
(***************************************************************************)
JobStep(j, from, to) ==
  /\ job[j] = from
  /\ job' = [job EXCEPT ![j] = to]

JobStart(j) ==
  /\ Comes(j)
  /\ \/ Owner[Subject[j]] \in accounts /\ JobStep(j, "idle", "guarded")
     \/ JobStep(j, "idle", "failed")
  /\ UNCHANGED <<db, files, uploads, erasures>>

\* The row is read in a transaction of its own, 404 when it is not there.
JobReadRow(j) ==
  /\ JobStep(j, "guarded", IF Subject[j] \in resumes THEN "read" ELSE "failed")
  /\ UNCHANGED <<db, files, uploads, erasures>>

\* The file is downloaded outside any transaction; content answers with it.
JobDownload(j) ==
  /\ IF Subject[j] \in blobs
     THEN \E to \in {"downloaded", "done"} : JobStep(j, "read", to)
     ELSE JobStep(j, "read", "failed")
  /\ UNCHANGED <<db, files, uploads, erasures>>

\* The model call, outside any transaction.  An error or an empty structure
\* ends the request: that is JobAbort.
JobAnswer(j) ==
  /\ JobStep(j, "downloaded", "answered")
  /\ UNCHANGED <<db, files, uploads, erasures>>

\* INSERT INTO resume_extractions checks its two foreign keys in the order the
\* migrations created them: the resume first ...
JobLockResume(j) ==
  /\ JobStep(j, "answered", IF Subject[j] \in resumes THEN "resumeLocked" ELSE "failed")
  /\ UNCHANGED <<db, files, uploads, erasures>>

\* ... then the user, which an erasure that waits for this resume may hold.
JobLockUser(j) ==
  LET u == Owner[Subject[j]] IN
  /\ ~UserRowLocked(u)
  /\ JobStep(j, "resumeLocked", IF u \in accounts THEN "bothLocked" ELSE "failed")
  /\ UNCHANGED <<db, files, uploads, erasures>>

JobCommit(j) ==
  /\ \E reply \in Committed : JobStep(j, "bothLocked", reply)
  /\ extracted' = extracted \cup {j}
  /\ UNCHANGED <<accounts, resumes, active, path, files, uploads, erasures>>

JobAbort(j) ==
  /\ \E p \in JobLive : JobStep(j, p, "failed")
  /\ UNCHANGED <<db, files, uploads, erasures>>

Deadlocked(e, j) ==
  /\ erase[e] = "rowLocked"
  /\ job[j] = "resumeLocked"
  /\ Owner[Subject[j]] = Target[e]

\* Extraction and erasure wait for each other: Postgres aborts one of them.
EraseJobDeadlockVictim(e, j) ==
  /\ Deadlocked(e, j)
  /\ EraseAbort(e) \/ JobAbort(j)

-----------------------------------------------------------------------------
\* The process stops (scale to zero, a new revision, a crash): every request
\* in flight is gone and Postgres rolls its open transactions back.
Crash ==
  LET Dropped(state, live) ==
        [q \in DOMAIN state |-> IF state[q] \in live THEN "failed" ELSE state[q]]
  IN
  /\ upload' = Dropped(upload, UploadLive)
  /\ erase' = Dropped(erase, EraseLive)
  /\ job' = Dropped(job, JobLive)
  /\ <<upload, erase, job>>' # <<upload, erase, job>>
  /\ locked' = [r \in Resumes |-> {}]
  /\ UNCHANGED <<db, files, snapshot, listed, todo>>

UploadProgress(r) ==
  \/ UploadInsert(r)     \/ UploadStoreBlob(r)   \/ UploadSetPath(r)
  \/ UploadFindOthers(r) \/ UploadDeactivate(r)  \/ UploadCommit(r)
  \/ UploadDeadlockVictim(r)

EraseProgress(e) ==
  \/ EraseList(e)     \/ EraseDeleteBlob(e) \/ EraseSwept(e)
  \/ EraseLockUser(e) \/ EraseCommit(e)

JobProgress(j) ==
  \/ JobReadRow(j)    \/ JobDownload(j)  \/ JobAnswer(j)
  \/ JobLockResume(j) \/ JobLockUser(j)  \/ JobCommit(j)

DeadlockVictim(e) == \E j \in Jobs : EraseJobDeadlockVictim(e, j)

NoneInFlight ==
  /\ \A r \in Resumes : upload[r] \notin UploadLive
  /\ \A e \in Erasures : erase[e] \notin EraseLive
  /\ \A j \in Jobs : job[j] \notin JobLive

\* Every request that came has ended: nothing is left to do in this bounded history.
AllEnded == NoneInFlight /\ UNCHANGED vars

Next ==
  \/ \E r \in Resumes : UploadStart(r) \/ UploadProgress(r) \/ UploadAbort(r)
  \/ \E e \in Erasures : EraseStart(e) \/ EraseProgress(e) \/ DeadlockVictim(e) \/ EraseAbort(e)
  \/ \E j \in Jobs : JobStart(j) \/ JobProgress(j) \/ JobAbort(j)
  \/ Crash
  \/ AllEnded

Spec == Init /\ [][Next]_vars

\* Of the running handlers of a kind some one is scheduled and its I/O call answers.
\* That is enough, since every request is sent once; a client owes nothing.
Fairness ==
  /\ WF_vars(\E r \in Resumes : UploadProgress(r))
  /\ WF_vars(\E e \in Erasures : EraseProgress(e) \/ DeadlockVictim(e))
  /\ WF_vars(\E j \in Jobs : JobProgress(j))

FairSpec == Spec /\ Fairness

-----------------------------------------------------------------------------
(***************************************************************************)
(* Properties.                                                             *)
(***************************************************************************)

\* "No row may ever point at a file that was never stored": a committed row has
\* its final path, and its file is there unless an erasure of the same account
\* found the file and took it before failing.
RowHasFile ==
  \A r \in resumes :
    /\ path[r] = "key"
    /\ r \in blobs \/ \E e \in Erasures : Target[e] = Owner[r] /\ r \in listed[e]

\* Uploads that fail, crash or lose a race never leave an account that has
\* resumes without an active one for scoring to read.
ActiveResumeExists ==
  \A u \in Users : resumes \cap OwnedBy(u) # {} => active \cap OwnedBy(u) # {}

\* Two resumes of one account are active together only when their uploads
\* overlapped so that neither deactivating UPDATE found the other row: uploads
\* one after the other always supersede.
TwoActiveOnlyIfOverlapping ==
  \A r, s \in active :
    r # s /\ Owner[r] = Owner[s] => r \notin snapshot[s] /\ s \notin snapshot[r]

\* Once DELETE /me has committed, no row of the account is left or can appear,
\* whatever upload or extraction was in flight past the auth guard.
NothingOutlivesAccount ==
  /\ \A r \in resumes : Owner[r] \in accounts
  /\ \A j \in extracted : Subject[j] \in resumes

\* An erasure that reports success has removed every file its listing found,
\* those of rolled-back uploads included, even with a second erasure of the same
\* account deleting at the same time.
ErasureDeletesEarlierFiles ==
  \A e \in Erasures : erase[e] \in Committed => listed[e] \cap blobs = {}

\* The two tables keep the contract of AccountContract: a resume or an extraction is
\* written only under an account that exists, rows leave only with their account,
\* all at once, and no account comes back.
TableRows == ({"resume"} \X Resumes) \cup ({"extraction"} \X Jobs)
RowOwner == [row \in TableRows |-> IF row[1] = "resume" THEN Owner[row[2]] ELSE Owner[Subject[row[2]]]]

Contract == INSTANCE AccountContract WITH
  Accounts <- Users,
  Rows <- TableRows,
  AccountOf <- RowOwner,
  existing <- accounts,
  erased <- Users \ accounts,
  rows <- ({"resume"} \X resumes) \cup ({"extraction"} \X extracted)

KeepsContract == Contract!Spec

\* Whose next statement waits for a lock of another request.
UploadWaits(r) ==
  \/ upload[r] = "guarded" /\ UserRowLocked(Owner[r])
  \/ /\ upload[r] = "deactivating" /\ snapshot[r] # locked[r]
     /\ \A s \in snapshot[r] \ locked[r] : ResumeRowLocked(s)

EraseWaits(e) ==
  \/ erase[e] = "swept" /\ (UserKeyShared(Target[e]) \/ UserRowLocked(Target[e]))
  \/ erase[e] = "rowLocked" /\ \E r \in resumes \cap OwnedBy(Target[e]) : ResumeKeyShared(r)

JobWaits(j) == job[j] = "resumeLocked" /\ UserRowLocked(Owner[Subject[j]])

\* When every request in flight waits for a lock, some of them wait in a circle that
\* Postgres sees and breaks: no lock is kept by a request that has ended, and the locks of
\* uploads, erasures and extractions combine into no other circle.
NobodyIsStuck ==
  \/ NoneInFlight
  \/ \E r \in Resumes : upload[r] \in UploadLive /\ ~UploadWaits(r)
  \/ \E e \in Erasures : erase[e] \in EraseLive /\ ~EraseWaits(e)
  \/ \E j \in Jobs : job[j] \in JobLive /\ ~JobWaits(j)
  \/ DeadlockedUploads # {}
  \/ \E e \in Erasures, j \in Jobs : Deadlocked(e, j)

\* How many steps a request may still take: a bounded way, in it a row of the deactivating
\* UPDATE or a file of the sweep at a time.
UploadLeft(r) ==
  CASE upload[r] = "idle"         -> Cardinality(Resumes) + 6
    [] upload[r] = "guarded"      -> Cardinality(Resumes) + 5
    [] upload[r] = "inserted"     -> Cardinality(Resumes) + 4
    [] upload[r] = "stored"       -> Cardinality(Resumes) + 3
    [] upload[r] = "pathSet"      -> Cardinality(Resumes) + 2
    [] upload[r] = "deactivating" -> Cardinality(snapshot[r] \ locked[r]) + 1
    [] OTHER                      -> 0

EraseLeft(e) ==
  CASE erase[e] = "idle"      -> Cardinality(Resumes) + 5
    [] erase[e] = "guarded"   -> Cardinality(Resumes) + 4
    [] erase[e] = "sweeping"  -> Cardinality(todo[e]) + 3
    [] erase[e] = "swept"     -> 2
    [] erase[e] = "rowLocked" -> 1
    [] OTHER                  -> 0

JobsAhead ==
  [idle |-> 7, guarded |-> 6, read |-> 5, downloaded |-> 4, answered |-> 3,
   resumeLocked |-> 2, bothLocked |-> 1]
JobLeft(j) == IF job[j] \in Ended THEN 0 ELSE JobsAhead[job[j]]

\* Nothing is tried for ever: each step, a crash included, leaves some request fewer
\* steps and none more, whatever rows and files others add in the meantime.
StepsRunOut ==
  [][/\ \A r \in Resumes : UploadLeft(r)' <= UploadLeft(r)
     /\ \A e \in Erasures : EraseLeft(e)' <= EraseLeft(e)
     /\ \A j \in Jobs : JobLeft(j)' <= JobLeft(j)
     /\ \/ \E r \in Resumes : UploadLeft(r)' < UploadLeft(r)
        \/ \E e \in Erasures : EraseLeft(e)' < EraseLeft(e)
        \/ \E j \in Jobs : JobLeft(j)' < JobLeft(j)]_vars

\* From wherever the requests are, one can go on until none is in flight, and they get
\* there in a bounded number of steps: what is left to fairness is to take them.
RequestsCanEnd == []NobodyIsStuck /\ StepsRunOut

\* Every request that got past the auth guard ends, whatever waits for a row lock or
\* a foreign-key lock gets it or is aborted: since each request is sent once, from
\* some point on none is in flight.
RequestsEnd == <>[]NoneInFlight

\* The inductive invariant behind the safety properties: what each request in
\* flight has established, and what the locks it holds keep others from undoing.
RowsAreCommittedUploads == \A r \in resumes : upload[r] \in Committed

FileBeforeRow ==
  \A r \in Resumes :
    /\ r \in stored => upload[r] \notin {"idle", "guarded", "inserted"}
    /\ upload[r] \in {"stored", "pathSet", "deactivating"} \cup Committed => r \in stored
    /\ upload[r] \in {"pathSet", "deactivating"} \cup Committed => path[r] = "key"
    /\ r \in stored => r \in blobs \/ \E e \in Erasures : Target[e] = Owner[r] /\ r \in listed[e]

DeactivatesCommittedRows ==
  \A r \in Resumes :
    /\ \A s \in snapshot[r] : s # r /\ Owner[s] = Owner[r] /\ upload[s] \in Committed
    /\ locked[r] \subseteq IF upload[r] = "deactivating" THEN snapshot[r] ELSE {}
    /\ upload[r] \in Committed => snapshot[r] \cap active = {}

OpenUploadsKeepAccount == \A r \in Resumes : upload[r] \in UploadTx => Owner[r] \in accounts

OpenInsertsKeepResume == \A j \in Jobs : job[j] \in JobTx => Subject[j] \in resumes

RowLockExcludesUploads ==
  \A e \in Erasures : erase[e] = "rowLocked" => ~UserKeyShared(Target[e])

SweepDeletesListed ==
  \A e \in Erasures :
    /\ listed[e] \subseteq OwnedBy(Target[e]) \cap stored
    /\ todo[e] \subseteq listed[e]
    /\ erase[e] \in {"idle", "guarded"} => listed[e] = {}
    /\ erase[e] = "sweeping" => listed[e] \cap blobs \subseteq todo[e]
    /\ erase[e] \in {"swept", "rowLocked"} \cup Committed => listed[e] \cap blobs = {}

StoreInv ==
  /\ RowsAreCommittedUploads
  /\ FileBeforeRow
  /\ DeactivatesCommittedRows
  /\ OpenUploadsKeepAccount
  /\ OpenInsertsKeepResume
  /\ RowLockExcludesUploads
  /\ SweepDeletesListed
  /\ ActiveResumeExists
  /\ NothingOutlivesAccount

Inv == TypeOK /\ StoreInv

\* FR4 as documented: "Exactly one resume is active per user".  Refuted.
OneActiveResume ==
  \A u \in Users : Cardinality(active \cap OwnedBy(u)) <= 1

\* FR5 as documented: an erased account leaves nothing behind, the files its
\* requests stored included, once those requests have ended.  Refuted.
NoFileOutlivesAccount ==
  \A u \in Users \ accounts :
    (\A r \in OwnedBy(u) : upload[r] \in Ended) => blobs \cap OwnedBy(u) = {}
=============================================================================
