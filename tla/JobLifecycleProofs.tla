------------------------- MODULE JobLifecycleProofs -------------------------
(***************************************************************************)
(* TLAPS proofs about JobLifecycle, for every number of jobs, restarts and *)
(* slots and every set of requests.                                        *)
(***************************************************************************)
EXTENDS JobLifecycle, FiniteSetTheorems, TLAPS

Holders == {j \in Jobs : HoldsSlot(j)}

\* l.mu is held by the job being prepared and by no other.
MuHeldByPreparing == \A j \in Jobs : pc[j] = "preparing" <=> mu = j

\* Job IDs are handed out in order, and a job in memory was published.
FreshAreNew ==
    /\ \A j \in Jobs : j >= next => pc[j] = "none"
    /\ \A j \in jobs : pc[j] \notin NotStarted \union {"failed"}

\* A job has a result exactly when its goroutine is past setResult; the local
\* result is there from the return of runViaChild on.
ResultWhenDone ==
    \A j \in Jobs :
        /\ pc[j] \in NotStarted \union BeforeResult => ~Done(j)
        /\ pc[j] \in {"done", "exited"} \union InCleanup => Done(j)
        /\ pc[j] \in {"returned", "checked", "saved", "audited"} => res[j] \in Final

\* A job that was prepared keeps the request it was made from.
PreparedHaveRequests ==
    \A j \in Jobs : pc[j] \in {"preparing"} \union BeforeResult
                        => req[j] \in Requests

\* An unfinished job is in l.locks under its key, and the job being prepared
\* found its lock free.
LocksCoverLive ==
    \A j \in Jobs : req[j].lockKey # NoKey =>
        /\ Live(j) => locks[req[j].lockKey] = j
        /\ pc[j] = "preparing" => locks[req[j].lockKey] = NoJob

\* The job being prepared found nothing under its idempotency key.
PreparingUnseen ==
    \A j \in Jobs : pc[j] = "preparing" /\ req[j].idempotencyKey # NoKey
                        => idempotency[IndexKey(req[j])] = NoJob

IInv ==
    /\ TypeOK
    /\ MuHeldByPreparing
    /\ FreshAreNew
    /\ ResultWhenDone
    /\ PreparedHaveRequests
    /\ LocksCoverLive
    /\ PreparingUnseen
    /\ IdempotencyIndexed
    /\ SlotsMatchRunners

\* The job IDs are finitely many and none of them is the null job.
LEMMA JobsFinite == IsFiniteSet(Jobs) /\ NoJob \notin Jobs
  <1>1. NumJobs \in Nat
    BY LifecycleAssumption
  <1>2. IsFiniteSet(1..NumJobs)
    BY <1>1, FS_Interval
  <1> QED
    BY <1>1, <1>2 DEF Jobs, NoJob

\* The keys of a request are empty or keys of the two maps.
LEMMA RequestFields ==
  ASSUME NEW r \in Requests
  PROVE  /\ r.lockKey \in LockKeys \union {NoKey}
         /\ r.idempotencyKey # NoKey => IndexKey(r) \in IndexKeys
         /\ NoKey \notin LockKeys \union IdempotencyKeys
  <1>1. /\ r.tokenID \in Tokens
        /\ r.lockKey \in LockKeys \union {NoKey}
        /\ r.idempotencyKey \in IdempotencyKeys \union {NoKey}
        /\ NoKey \notin LockKeys \union IdempotencyKeys
    BY LifecycleAssumption
  <1>2. r.idempotencyKey # NoKey => IndexKey(r) \in IndexKeys
    <2>1. ASSUME NEW t \in Tokens, NEW k \in IdempotencyKeys
          PROVE  t \o k \in IndexKeys
      BY SMT DEF IndexKeys
    <2> QED
      BY <1>1, <2>1 DEF IndexKey
  <1> QED
    BY <1>1, <1>2

\* The goroutines that hold a slot are finitely many.
LEMMA HoldersFinite == IsFiniteSet(Holders)
  BY JobsFinite, FS_Subset DEF Holders

\* A goroutine that is to give a slot back finds one in the semaphore.
LEMMA HolderHasSlot ==
  ASSUME IInv, NEW j \in Jobs, HoldsSlot(j)
  PROVE  sem \in Nat /\ sem > 0
  <1>1. Holders # {}
    BY DEF Holders
  <1>2. Cardinality(Holders) \in Nat /\ Cardinality(Holders) # 0
    BY <1>1, HoldersFinite, FS_CardinalityType, FS_EmptySet
  <1> QED
    BY <1>2 DEF IInv, SlotsMatchRunners, Holders

\* Every step keeps the types.  In PreparePublishFails the type of l.sem rests
\* on the slot that the job being prepared holds.
LEMMA TypeStep ==
  ASSUME IInv, [Next]_vars
  PROVE  TypeOK'
  <1> USE DEF IInv, TypeOK, Jobs, vars, lockVars, jobVars, runVars, diskVars,
              envVars, Positions, NotStarted, BeforeResult, InCleanup, Stopped,
              Final
  <1>1. ASSUME NEW r \in Requests, PrepareBusy(r)
        PROVE  TypeOK'
    BY <1>1, RequestFields, LifecycleAssumption DEF PrepareBusy, WithoutLock, NoJob,
       NoRequest
  <1>2. ASSUME NEW r \in Requests, PrepareCreate(r)
        PROVE  TypeOK'
    <2>1. /\ locks' \in [LockKeys -> Jobs \union {NoJob}]
          /\ sem' \in 0..Concurrency
          /\ next' \in 1..NumJobs + 1
      BY <1>2, RequestFields, LifecycleAssumption
      DEF PrepareCreate, WithoutLock, NoJob
    <2> QED
      BY <1>2, <2>1 DEF PrepareCreate
  <1>3. ASSUME NEW r \in Requests, PrepareCreateFails(r)
        PROVE  TypeOK'
    BY <1>3, RequestFields, LifecycleAssumption
    DEF PrepareCreateFails, WithoutLock, NoJob, NoRequest
  <1>4. ASSUME NEW j \in Jobs, PreparePublish(j)
        PROVE  TypeOK'
    BY <1>4 DEF PreparePublish
  <1>5. ASSUME NEW j \in Jobs, PreparePublishFails(j)
        PROVE  TypeOK'
    <2>1. HoldsSlot(j)
      BY <1>5 DEF PreparePublishFails, HoldsSlot, MuHeldByPreparing
    <2>2. sem - 1 \in 0..Concurrency
      BY <2>1, HolderHasSlot, LifecycleAssumption
    <2> QED
      BY <1>5, <2>2 DEF PreparePublishFails
  <1>6. ASSUME NEW j \in Jobs, MarkRunning(j)
        PROVE  TypeOK'
    BY <1>6 DEF MarkRunning
  <1>7. ASSUME NEW j \in Jobs, SetCancel(j)
        PROVE  TypeOK'
    BY <1>7 DEF SetCancel
  <1>8. ASSUME NEW j \in Jobs, StartHelper(j)
        PROVE  TypeOK'
    BY <1>8 DEF StartHelper
  <1>9. ASSUME NEW j \in Jobs, StartFails(j)
        PROVE  TypeOK'
    BY <1>9 DEF StartFails
  <1>10. ASSUME NEW j \in Jobs, HelperReturns(j)
        PROVE  TypeOK'
    BY <1>10, LifecycleAssumption DEF HelperReturns
  <1>11. ASSUME NEW j \in Jobs, HelperDeadline(j)
        PROVE  TypeOK'
    BY <1>11 DEF HelperDeadline
  <1>12. ASSUME NEW j \in Jobs, CheckCancel(j)
        PROVE  TypeOK'
    BY <1>12 DEF CheckCancel
  <1>13. ASSUME NEW j \in Jobs, SaveResult(j)
        PROVE  TypeOK'
    BY <1>13 DEF SaveResult
  <1>14. ASSUME NEW j \in Jobs, WriteAudit(j)
        PROVE  TypeOK'
    BY <1>14 DEF WriteAudit
  <1>15. ASSUME NEW j \in Jobs, SetResult(j)
        PROVE  TypeOK'
    BY <1>15 DEF SetResult
  <1>16. ASSUME NEW j \in Jobs, ReleaseJob(j)
        PROVE  TypeOK'
    BY <1>16, LifecycleAssumption DEF ReleaseJob
  <1>17. ASSUME NEW j \in Jobs, ProtectedIDs(j)
        PROVE  TypeOK'
    BY <1>17 DEF ProtectedIDs
  <1>18. ASSUME NEW j \in Jobs, ListJobDirs(j)
        PROVE  TypeOK'
    BY <1>18 DEF ListJobDirs, Doomed, TooOld, OverCount, OverBytes, LeftByCount
  <1>19. ASSUME NEW j \in Jobs, ListJobDirsFails(j)
        PROVE  TypeOK'
    BY <1>19 DEF ListJobDirsFails, LeaveCleanup
  <1>20. ASSUME NEW j \in Jobs, RemoveDir(j)
        PROVE  TypeOK'
    BY <1>20 DEF RemoveDir
  <1>21. ASSUME NEW j \in Jobs, RemoveDirFails(j)
        PROVE  TypeOK'
    BY <1>21 DEF RemoveDirFails, LeaveCleanup
  <1>22. ASSUME NEW j \in Jobs, PruneMemory(j)
        PROVE  TypeOK'
    BY <1>22 DEF PruneMemory, LeaveCleanup, Forgotten
  <1>23. ASSUME NEW j \in Jobs, RequestCancel(j)
        PROVE  TypeOK'
    BY <1>23 DEF RequestCancel
  <1>24. ASSUME DayPasses
        PROVE  TypeOK'
    BY <1>24, LifecycleAssumption DEF DayPasses
  <1>25. ASSUME Restart
        PROVE  TypeOK'
    BY <1>25, LifecycleAssumption DEF Restart, Doomed, TooOld, OverCount, OverBytes,
       LeftByCount
  <1>26. CASE UNCHANGED vars
    BY <1>26 DEF vars
  <1> QED
    BY <1>1, <1>2, <1>3, <1>4, <1>5, <1>6, <1>7, <1>8, <1>9, <1>10, <1>11,
       <1>12, <1>13, <1>14, <1>15, <1>16, <1>17, <1>18, <1>19, <1>20, <1>21,
       <1>22, <1>23, <1>24, <1>25, <1>26
    DEF Next, Prepare, Publish, RunJob, CleanupJobs

\* Every step keeps what ties a goroutine's position to l.mu, to the job IDs
\* handed out and to the result.
LEMMA ControlStep ==
  ASSUME IInv, [Next]_vars
  PROVE  (MuHeldByPreparing /\ FreshAreNew /\ ResultWhenDone)'
  <1> USE DEF IInv, TypeOK, MuHeldByPreparing, FreshAreNew, ResultWhenDone,
              Done, vars, lockVars, jobVars, runVars, diskVars, envVars,
              NotStarted, BeforeResult, InCleanup, Final
  <1>1. ASSUME NEW r \in Requests, PrepareBusy(r)
        PROVE  (MuHeldByPreparing /\ FreshAreNew /\ ResultWhenDone)'
    BY <1>1, JobsFinite DEF PrepareBusy
  <1>2. ASSUME NEW r \in Requests, PrepareCreate(r)
        PROVE  (MuHeldByPreparing /\ FreshAreNew /\ ResultWhenDone)'
    BY <1>2, JobsFinite DEF PrepareCreate
  <1>3. ASSUME NEW r \in Requests, PrepareCreateFails(r)
        PROVE  (MuHeldByPreparing /\ FreshAreNew /\ ResultWhenDone)'
    BY <1>3, JobsFinite DEF PrepareCreateFails
  <1>4. ASSUME NEW j \in Jobs, PreparePublish(j)
        PROVE  (MuHeldByPreparing /\ FreshAreNew /\ ResultWhenDone)'
    BY <1>4, JobsFinite DEF PreparePublish
  <1>5. ASSUME NEW j \in Jobs, PreparePublishFails(j)
        PROVE  (MuHeldByPreparing /\ FreshAreNew /\ ResultWhenDone)'
    BY <1>5, JobsFinite DEF PreparePublishFails
  <1>6. ASSUME NEW j \in Jobs, MarkRunning(j)
        PROVE  (MuHeldByPreparing /\ FreshAreNew /\ ResultWhenDone)'
    BY <1>6, JobsFinite DEF MarkRunning
  <1>7. ASSUME NEW j \in Jobs, SetCancel(j)
        PROVE  (MuHeldByPreparing /\ FreshAreNew /\ ResultWhenDone)'
    BY <1>7, JobsFinite DEF SetCancel
  <1>8. ASSUME NEW j \in Jobs, StartHelper(j)
        PROVE  (MuHeldByPreparing /\ FreshAreNew /\ ResultWhenDone)'
    BY <1>8, JobsFinite DEF StartHelper
  <1>9. ASSUME NEW j \in Jobs, StartFails(j)
        PROVE  (MuHeldByPreparing /\ FreshAreNew /\ ResultWhenDone)'
    BY <1>9, JobsFinite DEF StartFails
  <1>10. ASSUME NEW j \in Jobs, HelperReturns(j)
        PROVE  (MuHeldByPreparing /\ FreshAreNew /\ ResultWhenDone)'
    BY <1>10, JobsFinite, LifecycleAssumption DEF HelperReturns
  <1>11. ASSUME NEW j \in Jobs, HelperDeadline(j)
        PROVE  (MuHeldByPreparing /\ FreshAreNew /\ ResultWhenDone)'
    BY <1>11, JobsFinite DEF HelperDeadline
  <1>12. ASSUME NEW j \in Jobs, CheckCancel(j)
        PROVE  (MuHeldByPreparing /\ FreshAreNew /\ ResultWhenDone)'
    BY <1>12, JobsFinite DEF CheckCancel
  <1>13. ASSUME NEW j \in Jobs, SaveResult(j)
        PROVE  (MuHeldByPreparing /\ FreshAreNew /\ ResultWhenDone)'
    BY <1>13, JobsFinite DEF SaveResult
  <1>14. ASSUME NEW j \in Jobs, WriteAudit(j)
        PROVE  (MuHeldByPreparing /\ FreshAreNew /\ ResultWhenDone)'
    BY <1>14, JobsFinite DEF WriteAudit
  <1>15. ASSUME NEW j \in Jobs, SetResult(j)
        PROVE  (MuHeldByPreparing /\ FreshAreNew /\ ResultWhenDone)'
    BY <1>15, JobsFinite DEF SetResult
  <1>16. ASSUME NEW j \in Jobs, ReleaseJob(j)
        PROVE  (MuHeldByPreparing /\ FreshAreNew /\ ResultWhenDone)'
    BY <1>16, JobsFinite DEF ReleaseJob
  <1>17. ASSUME NEW j \in Jobs, ProtectedIDs(j)
        PROVE  (MuHeldByPreparing /\ FreshAreNew /\ ResultWhenDone)'
    BY <1>17, JobsFinite DEF ProtectedIDs
  <1>18. ASSUME NEW j \in Jobs, ListJobDirs(j)
        PROVE  (MuHeldByPreparing /\ FreshAreNew /\ ResultWhenDone)'
    BY <1>18, JobsFinite DEF ListJobDirs
  <1>19. ASSUME NEW j \in Jobs, ListJobDirsFails(j)
        PROVE  (MuHeldByPreparing /\ FreshAreNew /\ ResultWhenDone)'
    BY <1>19, JobsFinite DEF ListJobDirsFails, LeaveCleanup
  <1>20. ASSUME NEW j \in Jobs, RemoveDir(j)
        PROVE  (MuHeldByPreparing /\ FreshAreNew /\ ResultWhenDone)'
    BY <1>20, JobsFinite DEF RemoveDir
  <1>21. ASSUME NEW j \in Jobs, RemoveDirFails(j)
        PROVE  (MuHeldByPreparing /\ FreshAreNew /\ ResultWhenDone)'
    BY <1>21, JobsFinite DEF RemoveDirFails, LeaveCleanup
  <1>22. ASSUME NEW j \in Jobs, PruneMemory(j)
        PROVE  (MuHeldByPreparing /\ FreshAreNew /\ ResultWhenDone)'
    BY <1>22, JobsFinite DEF PruneMemory, LeaveCleanup
  <1>23. ASSUME NEW j \in Jobs, RequestCancel(j)
        PROVE  (MuHeldByPreparing /\ FreshAreNew /\ ResultWhenDone)'
    BY <1>23, JobsFinite DEF RequestCancel
  <1>24. ASSUME DayPasses
        PROVE  (MuHeldByPreparing /\ FreshAreNew /\ ResultWhenDone)'
    BY <1>24, JobsFinite DEF DayPasses
  <1>25. ASSUME Restart
        PROVE  (MuHeldByPreparing /\ FreshAreNew /\ ResultWhenDone)'
    BY <1>25, JobsFinite DEF Restart
  <1>26. CASE UNCHANGED vars
    BY <1>26 DEF vars
  <1> QED
    BY <1>1, <1>2, <1>3, <1>4, <1>5, <1>6, <1>7, <1>8, <1>9, <1>10, <1>11,
       <1>12, <1>13, <1>14, <1>15, <1>16, <1>17, <1>18, <1>19, <1>20, <1>21,
       <1>22, <1>23, <1>24, <1>25, <1>26
    DEF Next, Prepare, Publish, RunJob, CleanupJobs

\* Every step keeps the unfinished jobs in l.locks.  The two steps to watch are
\* PreparePublish, which must not overwrite an unfinished holder, and
\* ReleaseJob, which must not delete the lock of a job that took it over.
LEMMA LocksStep ==
  ASSUME IInv, [Next]_vars
  PROVE  (PreparedHaveRequests /\ LocksCoverLive)'
  <1> USE DEF IInv, TypeOK, MuHeldByPreparing, FreshAreNew, ResultWhenDone,
              PreparedHaveRequests, LocksCoverLive, Done, Live, vars, lockVars,
              jobVars, runVars, diskVars, envVars, NotStarted, BeforeResult
  <1>1. ASSUME NEW r \in Requests, PrepareBusy(r)
        PROVE  (PreparedHaveRequests /\ LocksCoverLive)'
    BY <1>1, JobsFinite, RequestFields DEF PrepareBusy, Unseen, LockFree, WithoutLock
  <1>2. ASSUME NEW r \in Requests, PrepareCreate(r)
        PROVE  (PreparedHaveRequests /\ LocksCoverLive)'
    BY <1>2, JobsFinite, RequestFields DEF PrepareCreate, Unseen, LockFree, WithoutLock
  <1>3. ASSUME NEW r \in Requests, PrepareCreateFails(r)
        PROVE  (PreparedHaveRequests /\ LocksCoverLive)'
    BY <1>3, JobsFinite, RequestFields DEF PrepareCreateFails, Unseen, LockFree, WithoutLock
  <1>4. ASSUME NEW j \in Jobs, PreparePublish(j)
        PROVE  (PreparedHaveRequests /\ LocksCoverLive)'
    <2>1. pc[j] = "preparing" /\ req[j] \in Requests /\ pc' = [pc EXCEPT ![j] = "queued"]
      BY <1>4 DEF PreparePublish
    <2>2. CASE req[j].lockKey = NoKey
      BY <1>4, <2>1, <2>2 DEF PreparePublish
    <2>3. CASE req[j].lockKey # NoKey
      <3>1. req[j].lockKey \in LockKeys /\ locks[req[j].lockKey] = NoJob
        BY <2>1, <2>3, RequestFields
      <3>2. \A k \in Jobs \ {j} : Live(k) => req[k].lockKey # req[j].lockKey
        BY <2>3, <3>1, JobsFinite
      <3>3. \A k \in Jobs \ {j} : pc[k] # "preparing"
        BY <2>1
      <3>4. locks' = [locks EXCEPT ![req[j].lockKey] = j]
        BY <1>4, <2>3 DEF PreparePublish
      <3> QED
        BY <1>4, <2>1, <3>1, <3>2, <3>3, <3>4 DEF PreparePublish
    <2> QED
      BY <2>2, <2>3
  <1>5. ASSUME NEW j \in Jobs, PreparePublishFails(j)
        PROVE  (PreparedHaveRequests /\ LocksCoverLive)'
    BY <1>5, JobsFinite DEF PreparePublishFails
  <1>6. ASSUME NEW j \in Jobs, MarkRunning(j)
        PROVE  (PreparedHaveRequests /\ LocksCoverLive)'
    BY <1>6, JobsFinite DEF MarkRunning
  <1>7. ASSUME NEW j \in Jobs, SetCancel(j)
        PROVE  (PreparedHaveRequests /\ LocksCoverLive)'
    BY <1>7, JobsFinite DEF SetCancel
  <1>8. ASSUME NEW j \in Jobs, StartHelper(j)
        PROVE  (PreparedHaveRequests /\ LocksCoverLive)'
    BY <1>8, JobsFinite DEF StartHelper
  <1>9. ASSUME NEW j \in Jobs, StartFails(j)
        PROVE  (PreparedHaveRequests /\ LocksCoverLive)'
    BY <1>9, JobsFinite DEF StartFails
  <1>10. ASSUME NEW j \in Jobs, HelperReturns(j)
        PROVE  (PreparedHaveRequests /\ LocksCoverLive)'
    BY <1>10, JobsFinite DEF HelperReturns
  <1>11. ASSUME NEW j \in Jobs, HelperDeadline(j)
        PROVE  (PreparedHaveRequests /\ LocksCoverLive)'
    BY <1>11, JobsFinite DEF HelperDeadline
  <1>12. ASSUME NEW j \in Jobs, CheckCancel(j)
        PROVE  (PreparedHaveRequests /\ LocksCoverLive)'
    BY <1>12, JobsFinite DEF CheckCancel
  <1>13. ASSUME NEW j \in Jobs, SaveResult(j)
        PROVE  (PreparedHaveRequests /\ LocksCoverLive)'
    BY <1>13, JobsFinite DEF SaveResult
  <1>14. ASSUME NEW j \in Jobs, WriteAudit(j)
        PROVE  (PreparedHaveRequests /\ LocksCoverLive)'
    BY <1>14, JobsFinite DEF WriteAudit
  <1>15. ASSUME NEW j \in Jobs, SetResult(j)
        PROVE  (PreparedHaveRequests /\ LocksCoverLive)'
    BY <1>15, JobsFinite DEF SetResult
  <1>16. ASSUME NEW j \in Jobs, ReleaseJob(j)
        PROVE  (PreparedHaveRequests /\ LocksCoverLive)'
    <2>1. pc[j] = "done" /\ pc' = [pc EXCEPT ![j] = "released"] /\ req' = req
      BY <1>16 DEF ReleaseJob
    <2>2. \A k \in Jobs : req[k] \in Requests => req[k].lockKey \in LockKeys \union {NoKey}
      BY RequestFields
    <2>3. \A k \in LockKeys : locks'[k] = locks[k] \/ (locks[k] = j /\ locks'[k] = NoJob)
      BY <1>16 DEF ReleaseJob
    <2>4. \A k \in Jobs : (Live(k) \/ pc[k] = "preparing")' => k # j /\ pc'[k] = pc[k]
      BY <2>1
    <2> QED
      BY <2>1, <2>2, <2>3, <2>4, JobsFinite
  <1>17. ASSUME NEW j \in Jobs, ProtectedIDs(j)
        PROVE  (PreparedHaveRequests /\ LocksCoverLive)'
    BY <1>17, JobsFinite DEF ProtectedIDs
  <1>18. ASSUME NEW j \in Jobs, ListJobDirs(j)
        PROVE  (PreparedHaveRequests /\ LocksCoverLive)'
    BY <1>18, JobsFinite DEF ListJobDirs
  <1>19. ASSUME NEW j \in Jobs, ListJobDirsFails(j)
        PROVE  (PreparedHaveRequests /\ LocksCoverLive)'
    BY <1>19, JobsFinite DEF ListJobDirsFails, LeaveCleanup
  <1>20. ASSUME NEW j \in Jobs, RemoveDir(j)
        PROVE  (PreparedHaveRequests /\ LocksCoverLive)'
    BY <1>20, JobsFinite DEF RemoveDir
  <1>21. ASSUME NEW j \in Jobs, RemoveDirFails(j)
        PROVE  (PreparedHaveRequests /\ LocksCoverLive)'
    BY <1>21, JobsFinite DEF RemoveDirFails, LeaveCleanup
  <1>22. ASSUME NEW j \in Jobs, PruneMemory(j)
        PROVE  (PreparedHaveRequests /\ LocksCoverLive)'
    BY <1>22, JobsFinite DEF PruneMemory, LeaveCleanup
  <1>23. ASSUME NEW j \in Jobs, RequestCancel(j)
        PROVE  (PreparedHaveRequests /\ LocksCoverLive)'
    BY <1>23, JobsFinite DEF RequestCancel
  <1>24. ASSUME DayPasses
        PROVE  (PreparedHaveRequests /\ LocksCoverLive)'
    BY <1>24, JobsFinite DEF DayPasses
  <1>25. ASSUME Restart
        PROVE  (PreparedHaveRequests /\ LocksCoverLive)'
    BY <1>25, JobsFinite DEF Restart
  <1>26. CASE UNCHANGED vars
    BY <1>26 DEF vars
  <1> QED
    BY <1>1, <1>2, <1>3, <1>4, <1>5, <1>6, <1>7, <1>8, <1>9, <1>10, <1>11,
       <1>12, <1>13, <1>14, <1>15, <1>16, <1>17, <1>18, <1>19, <1>20, <1>21,
       <1>22, <1>23, <1>24, <1>25, <1>26
    DEF Next, Prepare, Publish, RunJob, CleanupJobs

\* Every step keeps l.idempotency and l.jobs in agreement.
LEMMA IndexStep ==
  ASSUME IInv, [Next]_vars
  PROVE  (PreparingUnseen /\ IdempotencyIndexed)'
  <1> USE DEF IInv, TypeOK, MuHeldByPreparing, FreshAreNew,
              PreparedHaveRequests, PreparingUnseen, IdempotencyIndexed, vars,
              lockVars, jobVars, runVars, diskVars, envVars, NotStarted,
              BeforeResult
  <1>1. ASSUME NEW r \in Requests, PrepareBusy(r)
        PROVE  (PreparingUnseen /\ IdempotencyIndexed)'
    BY <1>1, JobsFinite, RequestFields DEF PrepareBusy, Unseen, LockFree, WithoutLock
  <1>2. ASSUME NEW r \in Requests, PrepareCreate(r)
        PROVE  (PreparingUnseen /\ IdempotencyIndexed)'
    BY <1>2, JobsFinite, RequestFields DEF PrepareCreate, Unseen, LockFree, WithoutLock
  <1>3. ASSUME NEW r \in Requests, PrepareCreateFails(r)
        PROVE  (PreparingUnseen /\ IdempotencyIndexed)'
    BY <1>3, JobsFinite, RequestFields DEF PrepareCreateFails, Unseen, LockFree, WithoutLock
  <1>4. ASSUME NEW j \in Jobs, PreparePublish(j)
        PROVE  (PreparingUnseen /\ IdempotencyIndexed)'
    <2>1. pc[j] = "preparing" /\ req[j] \in Requests /\ pc' = [pc EXCEPT ![j] = "queued"]
      BY <1>4 DEF PreparePublish
    <2>2. PreparingUnseen'
      BY <1>4, <2>1 DEF PreparePublish
    <2>3. CASE req[j].idempotencyKey = NoKey
      BY <1>4, <2>1, <2>2, <2>3 DEF PreparePublish
    <2>4. CASE req[j].idempotencyKey # NoKey
      <3>1. IndexKey(req[j]) \in IndexKeys
            /\ idempotency[IndexKey(req[j])] = NoJob
        BY <2>1, <2>4, RequestFields
      <3>2. idempotency' = [idempotency EXCEPT ![IndexKey(req[j])] = j]
        BY <1>4, <2>4 DEF PreparePublish
      <3>3. jobs' = jobs \union {j} /\ req' = req
        BY <1>4 DEF PreparePublish
      <3>4. \A k \in jobs : k \in Jobs /\ k # NoJob
        BY JobsFinite
      <3> HIDE DEF IndexKey
      <3>5. \A k \in jobs' : req'[k].idempotencyKey # NoKey
                                => idempotency'[IndexKey(req[k])] = k
        BY <3>1, <3>2, <3>3, <3>4
      <3>6. \A k \in IndexKeys : idempotency'[k] # NoJob =>
               idempotency'[k] \in jobs' /\ IndexKey(req[idempotency'[k]]) = k
        BY <3>1, <3>2, <3>3
      <3>7. \A k \in Jobs : IndexKey(req[k])' = IndexKey(req[k])
        BY <3>3 DEF IndexKey
      <3>8. IdempotencyIndexed'
        BY <3>3, <3>4, <3>5, <3>6, <3>7
      <3> QED
        BY <2>2, <3>8
    <2> QED
      BY <2>3, <2>4
  <1>5. ASSUME NEW j \in Jobs, PreparePublishFails(j)
        PROVE  (PreparingUnseen /\ IdempotencyIndexed)'
    BY <1>5, JobsFinite DEF PreparePublishFails
  <1>6. ASSUME NEW j \in Jobs, MarkRunning(j)
        PROVE  (PreparingUnseen /\ IdempotencyIndexed)'
    BY <1>6, JobsFinite DEF MarkRunning
  <1>7. ASSUME NEW j \in Jobs, SetCancel(j)
        PROVE  (PreparingUnseen /\ IdempotencyIndexed)'
    BY <1>7, JobsFinite DEF SetCancel
  <1>8. ASSUME NEW j \in Jobs, StartHelper(j)
        PROVE  (PreparingUnseen /\ IdempotencyIndexed)'
    BY <1>8, JobsFinite DEF StartHelper
  <1>9. ASSUME NEW j \in Jobs, StartFails(j)
        PROVE  (PreparingUnseen /\ IdempotencyIndexed)'
    BY <1>9, JobsFinite DEF StartFails
  <1>10. ASSUME NEW j \in Jobs, HelperReturns(j)
        PROVE  (PreparingUnseen /\ IdempotencyIndexed)'
    BY <1>10, JobsFinite DEF HelperReturns
  <1>11. ASSUME NEW j \in Jobs, HelperDeadline(j)
        PROVE  (PreparingUnseen /\ IdempotencyIndexed)'
    BY <1>11, JobsFinite DEF HelperDeadline
  <1>12. ASSUME NEW j \in Jobs, CheckCancel(j)
        PROVE  (PreparingUnseen /\ IdempotencyIndexed)'
    BY <1>12, JobsFinite DEF CheckCancel
  <1>13. ASSUME NEW j \in Jobs, SaveResult(j)
        PROVE  (PreparingUnseen /\ IdempotencyIndexed)'
    BY <1>13, JobsFinite DEF SaveResult
  <1>14. ASSUME NEW j \in Jobs, WriteAudit(j)
        PROVE  (PreparingUnseen /\ IdempotencyIndexed)'
    BY <1>14, JobsFinite DEF WriteAudit
  <1>15. ASSUME NEW j \in Jobs, SetResult(j)
        PROVE  (PreparingUnseen /\ IdempotencyIndexed)'
    BY <1>15, JobsFinite DEF SetResult
  <1>16. ASSUME NEW j \in Jobs, ReleaseJob(j)
        PROVE  (PreparingUnseen /\ IdempotencyIndexed)'
    <2>1. UNCHANGED <<idempotency, jobs, req>>
      BY <1>16 DEF ReleaseJob
    <2>2. \A k \in Jobs : pc'[k] = "preparing" => pc[k] = "preparing"
      BY <1>16 DEF ReleaseJob
    <2> QED
      BY <2>1, <2>2
  <1>17. ASSUME NEW j \in Jobs, ProtectedIDs(j)
        PROVE  (PreparingUnseen /\ IdempotencyIndexed)'
    BY <1>17, JobsFinite DEF ProtectedIDs
  <1>18. ASSUME NEW j \in Jobs, ListJobDirs(j)
        PROVE  (PreparingUnseen /\ IdempotencyIndexed)'
    BY <1>18, JobsFinite DEF ListJobDirs
  <1>19. ASSUME NEW j \in Jobs, ListJobDirsFails(j)
        PROVE  (PreparingUnseen /\ IdempotencyIndexed)'
    BY <1>19, JobsFinite DEF ListJobDirsFails, LeaveCleanup
  <1>20. ASSUME NEW j \in Jobs, RemoveDir(j)
        PROVE  (PreparingUnseen /\ IdempotencyIndexed)'
    BY <1>20, JobsFinite DEF RemoveDir
  <1>21. ASSUME NEW j \in Jobs, RemoveDirFails(j)
        PROVE  (PreparingUnseen /\ IdempotencyIndexed)'
    BY <1>21, JobsFinite DEF RemoveDirFails, LeaveCleanup
  <1>22. ASSUME NEW j \in Jobs, PruneMemory(j)
        PROVE  (PreparingUnseen /\ IdempotencyIndexed)'
    <2> DEFINE gone == report[j] \union Forgotten({k \in jobs : Done(k)}, cutoff)
    <2>0. DOMAIN idempotency = IndexKeys
      OBVIOUS
    <2>1. /\ jobs' = jobs \ gone
          /\ idempotency' = [k \in DOMAIN idempotency |->
                IF idempotency[k] \in gone THEN NoJob ELSE idempotency[k]]
          /\ req' = req
      BY <1>22 DEF PruneMemory
    <2>2. /\ mu' = mu /\ mu = NoJob
          /\ pc' = [pc EXCEPT ![j] = "exited"]
      BY <1>22 DEF PruneMemory, LeaveCleanup
    <2>3. PreparingUnseen'
      BY <2>1, <2>2, JobsFinite
    <2> HIDE DEF gone
    <2>4. \A k \in jobs' : req'[k].idempotencyKey # NoKey
                               => idempotency'[IndexKey(req[k])] = k
      <3>1. \A k \in jobs : req[k].idempotencyKey # NoKey
                               => IndexKey(req[k]) \in IndexKeys
        BY RequestFields DEF NoRequest
      <3> QED
        BY <2>0, <2>1, <3>1
    <2>5. \A k \in IndexKeys : idempotency'[k] # NoJob =>
             idempotency'[k] \in jobs' /\ IndexKey(req[idempotency'[k]]) = k
      BY <2>0, <2>1
    <2>6. IdempotencyIndexed'
      <3>1. \A k \in Jobs : IndexKey(req[k])' = IndexKey(req[k])
        BY <2>1
      <3>2. \A k \in IndexKeys :
                idempotency'[k] # NoJob => idempotency'[k] \in Jobs
        BY <2>0, <2>1
      <3>3. jobs' \subseteq Jobs
        BY <2>1
      <3> QED
        BY <2>4, <2>5, <3>1, <3>2, <3>3 DEF IdempotencyIndexed
    <2> QED
      BY <2>3, <2>6
  <1>23. ASSUME NEW j \in Jobs, RequestCancel(j)
        PROVE  (PreparingUnseen /\ IdempotencyIndexed)'
    BY <1>23, JobsFinite DEF RequestCancel
  <1>24. ASSUME DayPasses
        PROVE  (PreparingUnseen /\ IdempotencyIndexed)'
    BY <1>24, JobsFinite DEF DayPasses
  <1>25. ASSUME Restart
        PROVE  (PreparingUnseen /\ IdempotencyIndexed)'
    BY <1>25, JobsFinite DEF Restart
  <1>26. CASE UNCHANGED vars
    BY <1>26 DEF vars
  <1> QED
    BY <1>1, <1>2, <1>3, <1>4, <1>5, <1>6, <1>7, <1>8, <1>9, <1>10, <1>11,
       <1>12, <1>13, <1>14, <1>15, <1>16, <1>17, <1>18, <1>19, <1>20, <1>21,
       <1>22, <1>23, <1>24, <1>25, <1>26
    DEF Next, Prepare, Publish, RunJob, CleanupJobs

\* Every step keeps l.sem equal to the number of slot holders.
LEMMA SlotsStep ==
  ASSUME IInv, [Next]_vars
  PROVE  SlotsMatchRunners'
  <1> USE DEF IInv, TypeOK, SlotsMatchRunners, Holders, HoldsSlot, vars,
              lockVars, jobVars, runVars, diskVars, envVars, NotStarted,
              BeforeResult, InCleanup
  <1>1. ASSUME NEW r \in Requests, PrepareBusy(r)
        PROVE  Holders' = Holders /\ sem' = sem
    BY <1>1 DEF PrepareBusy
  <1>2. ASSUME NEW r \in Requests, PrepareCreate(r)
        PROVE  SlotsMatchRunners'
    <2>1. Holders' = Holders \union {next} /\ next \notin Holders
      BY <1>2 DEF PrepareCreate, FreshAreNew
    <2>2. Cardinality(Holders') = Cardinality(Holders) + 1
      <3> HIDE DEF Holders
      <3> QED
        BY <2>1, HoldersFinite, FS_AddElement
    <2> QED
      BY <1>2, <2>2 DEF PrepareCreate
  <1>3. ASSUME NEW r \in Requests, PrepareCreateFails(r)
        PROVE  Holders' = Holders /\ sem' = sem
    BY <1>3 DEF PrepareCreateFails, FreshAreNew
  <1>4. ASSUME NEW j \in Jobs, PreparePublish(j)
        PROVE  Holders' = Holders /\ sem' = sem
    BY <1>4 DEF PreparePublish, MuHeldByPreparing
  <1>5. ASSUME NEW j \in Jobs, PreparePublishFails(j)
        PROVE  SlotsMatchRunners'
    <2>1. Holders' = Holders \ {j} /\ j \in Holders
      BY <1>5 DEF PreparePublishFails, MuHeldByPreparing
    <2>2. Cardinality(Holders') = Cardinality(Holders) - 1
      <3> HIDE DEF Holders
      <3> QED
        BY <2>1, HoldersFinite, FS_RemoveElement
    <2>3. sem \in Nat /\ sem > 0
      BY <2>1, HolderHasSlot
    <2> QED
      BY <1>5, <2>2, <2>3 DEF PreparePublishFails
  <1>6. ASSUME NEW j \in Jobs, MarkRunning(j)
        PROVE  Holders' = Holders /\ sem' = sem
    BY <1>6 DEF MarkRunning
  <1>7. ASSUME NEW j \in Jobs, SetCancel(j)
        PROVE  Holders' = Holders /\ sem' = sem
    BY <1>7 DEF SetCancel
  <1>8. ASSUME NEW j \in Jobs, StartHelper(j)
        PROVE  Holders' = Holders /\ sem' = sem
    BY <1>8 DEF StartHelper
  <1>9. ASSUME NEW j \in Jobs, StartFails(j)
        PROVE  Holders' = Holders /\ sem' = sem
    BY <1>9 DEF StartFails
  <1>10. ASSUME NEW j \in Jobs, HelperReturns(j)
        PROVE  Holders' = Holders /\ sem' = sem
    BY <1>10 DEF HelperReturns
  <1>11. ASSUME NEW j \in Jobs, HelperDeadline(j)
        PROVE  Holders' = Holders /\ sem' = sem
    BY <1>11 DEF HelperDeadline
  <1>12. ASSUME NEW j \in Jobs, CheckCancel(j)
        PROVE  Holders' = Holders /\ sem' = sem
    BY <1>12 DEF CheckCancel
  <1>13. ASSUME NEW j \in Jobs, SaveResult(j)
        PROVE  Holders' = Holders /\ sem' = sem
    BY <1>13 DEF SaveResult
  <1>14. ASSUME NEW j \in Jobs, WriteAudit(j)
        PROVE  Holders' = Holders /\ sem' = sem
    BY <1>14 DEF WriteAudit
  <1>15. ASSUME NEW j \in Jobs, SetResult(j)
        PROVE  Holders' = Holders /\ sem' = sem
    BY <1>15 DEF SetResult
  <1>16. ASSUME NEW j \in Jobs, ReleaseJob(j)
        PROVE  SlotsMatchRunners'
    <2>1. Holders' = Holders \ {j} /\ j \in Holders
      BY <1>16 DEF ReleaseJob, MuHeldByPreparing
    <2>2. Cardinality(Holders') = Cardinality(Holders) - 1
      <3> HIDE DEF Holders
      <3> QED
        BY <2>1, HoldersFinite, FS_RemoveElement
    <2>3. sem \in Nat /\ sem > 0
      BY <2>1, HolderHasSlot
    <2> QED
      BY <1>16, <2>2, <2>3 DEF ReleaseJob
  <1>17. ASSUME NEW j \in Jobs, ProtectedIDs(j)
        PROVE  Holders' = Holders /\ sem' = sem
    BY <1>17 DEF ProtectedIDs
  <1>18. ASSUME NEW j \in Jobs, ListJobDirs(j)
        PROVE  Holders' = Holders /\ sem' = sem
    BY <1>18 DEF ListJobDirs
  <1>19. ASSUME NEW j \in Jobs, ListJobDirsFails(j)
        PROVE  Holders' = Holders /\ sem' = sem
    BY <1>19 DEF ListJobDirsFails, LeaveCleanup
  <1>20. ASSUME NEW j \in Jobs, RemoveDir(j)
        PROVE  Holders' = Holders /\ sem' = sem
    BY <1>20 DEF RemoveDir
  <1>21. ASSUME NEW j \in Jobs, RemoveDirFails(j)
        PROVE  Holders' = Holders /\ sem' = sem
    BY <1>21 DEF RemoveDirFails, LeaveCleanup
  <1>22. ASSUME NEW j \in Jobs, PruneMemory(j)
        PROVE  Holders' = Holders /\ sem' = sem
    BY <1>22 DEF PruneMemory, LeaveCleanup
  <1>23. ASSUME NEW j \in Jobs, RequestCancel(j)
        PROVE  Holders' = Holders /\ sem' = sem
    BY <1>23 DEF RequestCancel
  <1>24. ASSUME DayPasses
        PROVE  Holders' = Holders /\ sem' = sem
    BY <1>24 DEF DayPasses
  <1>25. ASSUME Restart
        PROVE  SlotsMatchRunners'
    <2>1. Holders' = {}
      BY <1>25 DEF Restart
    <2> QED
      BY <1>25, <2>1, FS_EmptySet DEF Restart
  <1>26. CASE UNCHANGED vars
    BY <1>26 DEF vars
  <1> QED
    BY <1>1, <1>2, <1>3, <1>4, <1>5, <1>6, <1>7, <1>8, <1>9, <1>10, <1>11,
       <1>12, <1>13, <1>14, <1>15, <1>16, <1>17, <1>18, <1>19, <1>20, <1>21,
       <1>22, <1>23, <1>24, <1>25, <1>26
    DEF Next, Prepare, Publish, RunJob, CleanupJobs

\* The invariant holds when the daemon starts.
LEMMA InitIInv == Init => IInv
  <1> SUFFICES ASSUME Init
               PROVE  IInv
    OBVIOUS
  <1> USE DEF Init
  <1>1. TypeOK
    BY LifecycleAssumption DEF TypeOK, Jobs, NoJob, Positions, NotStarted
  <1>2. MuHeldByPreparing /\ FreshAreNew
    BY JobsFinite DEF MuHeldByPreparing, FreshAreNew
  <1>3. ResultWhenDone /\ PreparedHaveRequests
    BY DEF ResultWhenDone, PreparedHaveRequests, Done, NotStarted, BeforeResult,
           InCleanup
  <1>4. LocksCoverLive /\ PreparingUnseen /\ IdempotencyIndexed
    BY DEF LocksCoverLive, PreparingUnseen, IdempotencyIndexed, Live, BeforeResult
  <1>5. SlotsMatchRunners
    <2>1. Holders = {}
      BY DEF Holders, HoldsSlot, BeforeResult
    <2> QED
      BY <2>1, FS_EmptySet DEF SlotsMatchRunners, Holders
  <1> QED
    BY <1>1, <1>2, <1>3, <1>4, <1>5 DEF IInv

\* The inductive invariant holds in every reachable state.
THEOREM Invariance == Spec => []IInv
  <1>1. IInv /\ [Next]_vars => IInv'
    BY TypeStep, ControlStep, LocksStep, IndexStep, SlotsStep DEF IInv
  <1> QED
    BY InitIInv, <1>1, PTL DEF Spec

\* Every variable keeps its type; in particular l.sem never holds more than
\* Concurrency slots nor fewer than none.
THEOREM TypeCorrect == Spec => []TypeOK
  BY Invariance, PTL DEF IInv

\* Two unfinished jobs never share a lock_key (prepareJob, releaseJob), however
\* many jobs, slots and keys there are and whatever Cleanup forgets meanwhile.
THEOREM LocksExclude == Spec => []LockExclusion
  <1>1. IInv => LockExclusion
    BY DEF IInv, LocksCoverLive, LockExclusion
  <1> QED
    BY Invariance, <1>1, PTL

\* l.sem counts exactly the goroutines that have not given their slot back, so
\* releaseSlotLocked never reports an empty semaphore.
THEOREM SlotsAccounted == Spec => []SlotsMatchRunners
  BY Invariance, PTL DEF IInv

\* l.idempotency and l.jobs agree after every prepareJob and pruneMemory.
THEOREM IdempotencyAccounted == Spec => []IdempotencyIndexed
  BY Invariance, PTL DEF IInv

\* A context is open only as long as no cancel was accepted.
CancelEndsContext ==
    \A j \in Jobs : cancelRequested[j] => ctx[j] # "open"

\* Every step keeps CancelEndsContext.
LEMMA CancelStep ==
  ASSUME TypeOK, CancelEndsContext, [Next]_vars
  PROVE  CancelEndsContext'
  <1> USE DEF TypeOK, CancelEndsContext, vars, jobVars, runVars, envVars
  <1>1. ASSUME NEW r \in Requests, PrepareBusy(r)
        PROVE  CancelEndsContext'
    BY <1>1 DEF PrepareBusy
  <1>2. ASSUME NEW r \in Requests, PrepareCreate(r)
        PROVE  CancelEndsContext'
    BY <1>2 DEF PrepareCreate
  <1>3. ASSUME NEW r \in Requests, PrepareCreateFails(r)
        PROVE  CancelEndsContext'
    BY <1>3 DEF PrepareCreateFails
  <1>4. ASSUME NEW j \in Jobs, PreparePublish(j)
        PROVE  CancelEndsContext'
    BY <1>4 DEF PreparePublish
  <1>5. ASSUME NEW j \in Jobs, PreparePublishFails(j)
        PROVE  CancelEndsContext'
    BY <1>5 DEF PreparePublishFails
  <1>6. ASSUME NEW j \in Jobs, MarkRunning(j)
        PROVE  CancelEndsContext'
    BY <1>6 DEF MarkRunning
  <1>7. ASSUME NEW j \in Jobs, SetCancel(j)
        PROVE  CancelEndsContext'
    BY <1>7 DEF SetCancel
  <1>8. ASSUME NEW j \in Jobs, StartHelper(j)
        PROVE  CancelEndsContext'
    BY <1>8 DEF StartHelper
  <1>9. ASSUME NEW j \in Jobs, StartFails(j)
        PROVE  CancelEndsContext'
    BY <1>9 DEF StartFails
  <1>10. ASSUME NEW j \in Jobs, HelperReturns(j)
        PROVE  CancelEndsContext'
    BY <1>10 DEF HelperReturns
  <1>11. ASSUME NEW j \in Jobs, HelperDeadline(j)
        PROVE  CancelEndsContext'
    BY <1>11 DEF HelperDeadline
  <1>12. ASSUME NEW j \in Jobs, CheckCancel(j)
        PROVE  CancelEndsContext'
    BY <1>12 DEF CheckCancel
  <1>13. ASSUME NEW j \in Jobs, SaveResult(j)
        PROVE  CancelEndsContext'
    BY <1>13 DEF SaveResult
  <1>14. ASSUME NEW j \in Jobs, WriteAudit(j)
        PROVE  CancelEndsContext'
    BY <1>14 DEF WriteAudit
  <1>15. ASSUME NEW j \in Jobs, SetResult(j)
        PROVE  CancelEndsContext'
    BY <1>15 DEF SetResult
  <1>16. ASSUME NEW j \in Jobs, ReleaseJob(j)
        PROVE  CancelEndsContext'
    BY <1>16 DEF ReleaseJob
  <1>17. ASSUME NEW j \in Jobs, ProtectedIDs(j)
        PROVE  CancelEndsContext'
    BY <1>17 DEF ProtectedIDs
  <1>18. ASSUME NEW j \in Jobs, ListJobDirs(j)
        PROVE  CancelEndsContext'
    BY <1>18 DEF ListJobDirs
  <1>19. ASSUME NEW j \in Jobs, ListJobDirsFails(j)
        PROVE  CancelEndsContext'
    BY <1>19 DEF ListJobDirsFails, LeaveCleanup
  <1>20. ASSUME NEW j \in Jobs, RemoveDir(j)
        PROVE  CancelEndsContext'
    BY <1>20 DEF RemoveDir
  <1>21. ASSUME NEW j \in Jobs, RemoveDirFails(j)
        PROVE  CancelEndsContext'
    BY <1>21 DEF RemoveDirFails, LeaveCleanup
  <1>22. ASSUME NEW j \in Jobs, PruneMemory(j)
        PROVE  CancelEndsContext'
    BY <1>22 DEF PruneMemory, LeaveCleanup
  <1>23. ASSUME NEW j \in Jobs, RequestCancel(j)
        PROVE  CancelEndsContext'
    BY <1>23 DEF RequestCancel
  <1>24. ASSUME DayPasses
        PROVE  CancelEndsContext'
    BY <1>24 DEF DayPasses
  <1>25. ASSUME Restart
        PROVE  CancelEndsContext'
    BY <1>25 DEF Restart
  <1>26. CASE UNCHANGED vars
    BY <1>26
  <1> QED
    BY <1>1, <1>2, <1>3, <1>4, <1>5, <1>6, <1>7, <1>8, <1>9, <1>10, <1>11,
       <1>12, <1>13, <1>14, <1>15, <1>16, <1>17, <1>18, <1>19, <1>20, <1>21,
       <1>22, <1>23, <1>24, <1>25, <1>26
    DEF Next, Prepare, Publish, RunJob, CleanupJobs

\* The command of a job whose cancel was accepted is not started (setCancel,
\* requestCancel and the context check of cmd.Start).
THEOREM CanceledJobsDoNotStart == Spec => NoStartAfterCancel
  <1>1. Init => CancelEndsContext
    BY DEF Init, CancelEndsContext
  <1>2. Spec => []CancelEndsContext
    BY <1>1, CancelStep, TypeCorrect, PTL DEF Spec
  <1>3. ASSUME CancelEndsContext, [Next]_vars
        PROVE  [\A j \in Jobs : j \in executed' \ executed => ~cancelRequested[j]]_vars
    <2> SUFFICES ASSUME NEW j \in Jobs, j \in executed' \ executed
                 PROVE  ~cancelRequested[j]
      OBVIOUS
    <2>1. \E k \in Jobs : StartHelper(k)
      <3> USE DEF vars, lockVars, jobVars, runVars, diskVars, envVars
      <3>1. ASSUME NEW r \in Requests, Prepare(r)
            PROVE  executed' = executed
        BY <3>1 DEF Prepare, PrepareBusy, PrepareCreate, PrepareCreateFails
      <3>2. ASSUME NEW k \in Jobs, Publish(k)
            PROVE  executed' = executed
        BY <3>2 DEF Publish, PreparePublish, PreparePublishFails
      <3>3. ASSUME NEW k \in Jobs, RunJob(k)
            PROVE  StartHelper(k) \/ executed' = executed
        BY <3>3 DEF RunJob, MarkRunning, SetCancel, StartFails, HelperReturns,
                    CheckCancel, SaveResult, WriteAudit, SetResult, ReleaseJob
      <3>4. ASSUME NEW k \in Jobs, CleanupJobs(k)
            PROVE  executed' = executed
        BY <3>4 DEF CleanupJobs, ProtectedIDs, ListJobDirs, ListJobDirsFails,
                    RemoveDir, RemoveDirFails, PruneMemory
      <3>5. ASSUME NEW k \in Jobs, HelperDeadline(k) \/ RequestCancel(k)
            PROVE  executed' = executed
        BY <3>5 DEF HelperDeadline, RequestCancel
      <3>6. DayPasses \/ Restart \/ UNCHANGED vars => executed' = executed
        BY DEF DayPasses, Restart
      <3> QED
        BY <1>3, <3>1, <3>2, <3>3, <3>4, <3>5, <3>6 DEF Next
    <2>2. StartHelper(j)
      BY <2>1 DEF StartHelper
    <2> QED
      BY <1>3, <2>2 DEF CancelEndsContext, StartHelper
  <1> QED
    BY <1>2, <1>3, PTL DEF Spec, NoStartAfterCancel

-----------------------------------------------------------------------------
\* What is recorded of a job.

\* Before SaveResult nothing of a job's result is on the disk.
Unwritten == NotStarted \union
                 {"failed", "queued", "marked", "bound", "executing", "returned", "checked"}

\* What SaveResult and WriteAudit wrote is the local result, which SetResult is
\* to publish; and that is "canceled" on request only.
RecordsFollow ==
    \A j \in Jobs :
        /\ pc[j] \in Unwritten => saved[j] = "none" /\ audit[j] = "none"
        /\ pc[j] = "saved" => audit[j] = "none" /\ saved[j] \in {"none", res[j]}
        /\ pc[j] = "audited" => {audit[j], saved[j]} \subseteq {"none", res[j]}
        /\ res[j] = "canceled" => cancelRequested[j]

RecordsInv == RecordsFollow /\ RecordsAgree /\ CanceledOnRequest

\* Every step keeps the records in agreement.  The steps to watch are SaveResult
\* and WriteAudit, either of which may fail, a cancel that comes after
\* CheckCancel, and the steps of a Cleanup that takes result.json away.
LEMMA RecordsStep ==
  ASSUME IInv, RecordsInv, [Next]_vars
  PROVE  RecordsInv'
  <1> USE DEF IInv, TypeOK, FreshAreNew, ResultWhenDone, RecordsInv, RecordsFollow,
              RecordsAgree, CanceledOnRequest, Done, Unwritten, NotStarted,
              BeforeResult, InCleanup, Final, 
              vars, lockVars, jobVars, runVars, diskVars, envVars
  <1>1. ASSUME NEW r \in Requests, PrepareBusy(r)
        PROVE  RecordsInv'
    BY <1>1 DEF PrepareBusy
  <1>2. ASSUME NEW r \in Requests, PrepareCreate(r)
        PROVE  RecordsInv'
    BY <1>2 DEF PrepareCreate
  <1>3. ASSUME NEW r \in Requests, PrepareCreateFails(r)
        PROVE  RecordsInv'
    BY <1>3 DEF PrepareCreateFails
  <1>4. ASSUME NEW j \in Jobs, PreparePublish(j)
        PROVE  RecordsInv'
    BY <1>4, JobsFinite DEF PreparePublish, MuHeldByPreparing
  <1>5. ASSUME NEW j \in Jobs, PreparePublishFails(j)
        PROVE  RecordsInv'
    BY <1>5, JobsFinite DEF PreparePublishFails, MuHeldByPreparing
  <1>6. ASSUME NEW j \in Jobs, MarkRunning(j)
        PROVE  RecordsInv'
    BY <1>6 DEF MarkRunning
  <1>7. ASSUME NEW j \in Jobs, SetCancel(j)
        PROVE  RecordsInv'
    BY <1>7 DEF SetCancel
  <1>8. ASSUME NEW j \in Jobs, StartHelper(j)
        PROVE  RecordsInv'
    BY <1>8 DEF StartHelper
  <1>9. ASSUME NEW j \in Jobs, StartFails(j)
        PROVE  RecordsInv'
    BY <1>9 DEF StartFails
  <1>10. ASSUME NEW j \in Jobs, HelperReturns(j)
        PROVE  RecordsInv'
    BY <1>10, LifecycleAssumption DEF HelperReturns
  <1>11. ASSUME NEW j \in Jobs, HelperDeadline(j)
        PROVE  RecordsInv'
    BY <1>11 DEF HelperDeadline
  <1>12. ASSUME NEW j \in Jobs, CheckCancel(j)
        PROVE  RecordsInv'
    BY <1>12 DEF CheckCancel
  <1>13. ASSUME NEW j \in Jobs, SaveResult(j)
        PROVE  RecordsInv'
    <2>1. /\ pc[j] = "checked"
          /\ pc' = [pc EXCEPT ![j] = "saved"]
          /\ saved' \in {saved, [saved EXCEPT ![j] = res[j]]}
          /\ UNCHANGED <<state, result, cancelRequested, res, audit>>
      BY <1>13 DEF SaveResult
    <2>2. CASE saved' = saved
      BY <2>1, <2>2
    <2>3. CASE saved' = [saved EXCEPT ![j] = res[j]]
      BY <2>1, <2>3
    <2> QED
      BY <2>1, <2>2, <2>3
  <1>14. ASSUME NEW j \in Jobs, WriteAudit(j)
        PROVE  RecordsInv'
    <2>1. /\ pc[j] = "saved"
          /\ pc' = [pc EXCEPT ![j] = "audited"]
          /\ audit' \in {audit, [audit EXCEPT ![j] = res[j]]}
          /\ UNCHANGED <<state, result, cancelRequested, res, saved>>
      BY <1>14 DEF WriteAudit
    <2>2. CASE audit' = audit
      BY <2>1, <2>2
    <2>3. CASE audit' = [audit EXCEPT ![j] = res[j]]
      BY <2>1, <2>3
    <2> QED
      BY <2>1, <2>2, <2>3
  <1>15. ASSUME NEW j \in Jobs, SetResult(j)
        PROVE  RecordsInv'
    BY <1>15 DEF SetResult
  <1>16. ASSUME NEW j \in Jobs, ReleaseJob(j)
        PROVE  RecordsInv'
    BY <1>16 DEF ReleaseJob
  <1>17. ASSUME NEW j \in Jobs, ProtectedIDs(j)
        PROVE  RecordsInv'
    BY <1>17 DEF ProtectedIDs
  <1>18. ASSUME NEW j \in Jobs, ListJobDirs(j)
        PROVE  RecordsInv'
    BY <1>18 DEF ListJobDirs
  <1>19. ASSUME NEW j \in Jobs, ListJobDirsFails(j)
        PROVE  RecordsInv'
    BY <1>19 DEF ListJobDirsFails, LeaveCleanup
  <1>20. ASSUME NEW j \in Jobs, RemoveDir(j)
        PROVE  RecordsInv'
    BY <1>20 DEF RemoveDir
  <1>21. ASSUME NEW j \in Jobs, RemoveDirFails(j)
        PROVE  RecordsInv'
    BY <1>21 DEF RemoveDirFails, LeaveCleanup
  <1>22. ASSUME NEW j \in Jobs, PruneMemory(j)
        PROVE  RecordsInv'
    BY <1>22 DEF PruneMemory, LeaveCleanup
  <1>23. ASSUME NEW j \in Jobs, RequestCancel(j)
        PROVE  RecordsInv'
    BY <1>23 DEF RequestCancel
  <1>24. ASSUME DayPasses
        PROVE  RecordsInv'
    BY <1>24 DEF DayPasses
  <1>25. ASSUME Restart
        PROVE  RecordsInv'
    BY <1>25 DEF Restart
  <1>26. CASE UNCHANGED vars
    BY <1>26
  <1> QED
    BY <1>1, <1>2, <1>3, <1>4, <1>5, <1>6, <1>7, <1>8, <1>9, <1>10, <1>11,
       <1>12, <1>13, <1>14, <1>15, <1>16, <1>17, <1>18, <1>19, <1>20, <1>21,
       <1>22, <1>23, <1>24, <1>25, <1>26
    DEF Next, Prepare, Publish, RunJob, CleanupJobs

\* The records agree in every reachable state.
LEMMA RecordsHold == Spec => []RecordsInv
  <1>1. Init => RecordsInv
    BY DEF Init, RecordsInv, RecordsFollow, RecordsAgree, CanceledOnRequest, Done
  <1> QED
    BY <1>1, RecordsStep, Invariance, PTL DEF Spec

\* Memory, result.json and the audit log never tell different results of one
\* job, whichever of their writes fail and whenever the daemon is restarted
\* (runJob 175-181).
THEOREM RecordsAreOne == Spec => []RecordsAgree
  BY RecordsHold, PTL DEF RecordsInv

\* Only a job that a client canceled is recorded as canceled anywhere
\* (wasCancelRequested in runJob, requestCancel).
THEOREM CanceledIsAsked == Spec => []CanceledOnRequest
  BY RecordsHold, PTL DEF RecordsInv

-----------------------------------------------------------------------------
\* What Cleanup may take.

\* The cutoff, the directories and what a Cleanup found or removed are of jobs
\* that were handed out.
HandedOut ==
    /\ cutoff <= next
    /\ \A j \in Jobs : \A k \in dirs \union doomed[j] \union report[j] : k < next

\* A directory that was reported deleted does not come back, and an unfinished
\* job that was forgotten has no directory left to write to.
RemovedAreGone ==
    /\ \A j \in Jobs : report[j] \intersect dirs = {}
    /\ \A j \in Jobs : Live(j) /\ j \notin jobs => j \notin dirs

DirsInv == HandedOut /\ RemovedAreGone

\* Every step keeps DirsInv.  PruneMemory forgets an unfinished job only because
\* its directory is in the report.
LEMMA DirsStep ==
  ASSUME IInv, DirsInv, [Next]_vars
  PROVE  DirsInv'
  <1> USE DEF IInv, TypeOK, Jobs, MuHeldByPreparing, FreshAreNew, ResultWhenDone,
              DirsInv, HandedOut, RemovedAreGone, Live, Done, NotStarted,
              BeforeResult, vars, lockVars, jobVars, runVars, diskVars, envVars
  <1>1. ASSUME NEW r \in Requests, PrepareBusy(r)
        PROVE  DirsInv'
    BY <1>1 DEF PrepareBusy
  <1>2. ASSUME NEW r \in Requests, PrepareCreate(r)
        PROVE  DirsInv'
    BY <1>2 DEF PrepareCreate
  <1>3. ASSUME NEW r \in Requests, PrepareCreateFails(r)
        PROVE  DirsInv'
    BY <1>3 DEF PrepareCreateFails
  <1>4. ASSUME NEW j \in Jobs, PreparePublish(j)
        PROVE  DirsInv'
    BY <1>4, JobsFinite DEF PreparePublish
  <1>5. ASSUME NEW j \in Jobs, PreparePublishFails(j)
        PROVE  DirsInv'
    BY <1>5, JobsFinite DEF PreparePublishFails
  <1>6. ASSUME NEW j \in Jobs, MarkRunning(j)
        PROVE  DirsInv'
    BY <1>6 DEF MarkRunning
  <1>7. ASSUME NEW j \in Jobs, SetCancel(j)
        PROVE  DirsInv'
    BY <1>7 DEF SetCancel
  <1>8. ASSUME NEW j \in Jobs, StartHelper(j)
        PROVE  DirsInv'
    BY <1>8 DEF StartHelper
  <1>9. ASSUME NEW j \in Jobs, StartFails(j)
        PROVE  DirsInv'
    BY <1>9 DEF StartFails
  <1>10. ASSUME NEW j \in Jobs, HelperReturns(j)
        PROVE  DirsInv'
    BY <1>10 DEF HelperReturns
  <1>11. ASSUME NEW j \in Jobs, HelperDeadline(j)
        PROVE  DirsInv'
    BY <1>11 DEF HelperDeadline
  <1>12. ASSUME NEW j \in Jobs, CheckCancel(j)
        PROVE  DirsInv'
    BY <1>12 DEF CheckCancel
  <1>13. ASSUME NEW j \in Jobs, SaveResult(j)
        PROVE  DirsInv'
    BY <1>13 DEF SaveResult
  <1>14. ASSUME NEW j \in Jobs, WriteAudit(j)
        PROVE  DirsInv'
    BY <1>14 DEF WriteAudit
  <1>15. ASSUME NEW j \in Jobs, SetResult(j)
        PROVE  DirsInv'
    BY <1>15 DEF SetResult
  <1>16. ASSUME NEW j \in Jobs, ReleaseJob(j)
        PROVE  DirsInv'
    BY <1>16 DEF ReleaseJob
  <1>17. ASSUME NEW j \in Jobs, ProtectedIDs(j)
        PROVE  DirsInv'
    BY <1>17 DEF ProtectedIDs
  <1>18. ASSUME NEW j \in Jobs, ListJobDirs(j)
        PROVE  DirsInv'
    BY <1>18 DEF ListJobDirs, Doomed, TooOld, OverCount, OverBytes, LeftByCount
  <1>19. ASSUME NEW j \in Jobs, ListJobDirsFails(j)
        PROVE  DirsInv'
    BY <1>19 DEF ListJobDirsFails, LeaveCleanup
  <1>20. ASSUME NEW j \in Jobs, RemoveDir(j)
        PROVE  DirsInv'
    BY <1>20 DEF RemoveDir
  <1>21. ASSUME NEW j \in Jobs, RemoveDirFails(j)
        PROVE  DirsInv'
    BY <1>21 DEF RemoveDirFails, LeaveCleanup
  <1>22. ASSUME NEW j \in Jobs, PruneMemory(j)
        PROVE  DirsInv'
    BY <1>22 DEF PruneMemory, LeaveCleanup, Forgotten
  <1>23. ASSUME NEW j \in Jobs, RequestCancel(j)
        PROVE  DirsInv'
    BY <1>23 DEF RequestCancel
  <1>24. ASSUME DayPasses
        PROVE  DirsInv'
    BY <1>24 DEF DayPasses
  <1>25. ASSUME Restart
        PROVE  DirsInv'
    BY <1>25 DEF Restart, Doomed, TooOld, OverCount, OverBytes, LeftByCount
  <1>26. CASE UNCHANGED vars
    BY <1>26
  <1> QED
    BY <1>1, <1>2, <1>3, <1>4, <1>5, <1>6, <1>7, <1>8, <1>9, <1>10, <1>11,
       <1>12, <1>13, <1>14, <1>15, <1>16, <1>17, <1>18, <1>19, <1>20, <1>21,
       <1>22, <1>23, <1>24, <1>25, <1>26
    DEF Next, Prepare, Publish, RunJob, CleanupJobs

\* DirsInv holds in every reachable state.
LEMMA DirsHold == Spec => []DirsInv
  <1>1. Init => DirsInv
    BY DEF Init, DirsInv, HandedOut, RemovedAreGone, Live, BeforeResult
  <1> QED
    BY <1>1, DirsStep, Invariance, PTL DEF Spec

\* With a single slot, the job that holds it is the newest: the next is admitted
\* only when it has been given back.
HolderIsNewest == Concurrency = 1 => \A j \in Jobs : HoldsSlot(j) => next = j + 1

\* Every step keeps HolderIsNewest.
LEMMA NewestStep ==
  ASSUME IInv, HolderIsNewest, [Next]_vars
  PROVE  HolderIsNewest'
  <1> SUFFICES ASSUME Concurrency = 1, NEW k \in Jobs, HoldsSlot(k)'
               PROVE  next' = k + 1
    BY DEF HolderIsNewest
  <1>1. ASSUME sem < Concurrency
        PROVE  ~HoldsSlot(k)
    BY <1>1, HolderHasSlot, LifecycleAssumption
  <1>2. HoldsSlot(k) => next = k + 1
    BY DEF HolderIsNewest
  <1>3. pc \in [Jobs -> Positions] /\ (mu \in Jobs => pc[mu] = "preparing")
    BY DEF IInv, TypeOK, MuHeldByPreparing
  <1>4. ASSUME NEW r \in Requests, PrepareCreate(r)
        PROVE  next' = k + 1
    BY <1>1, <1>3, <1>4 DEF PrepareCreate, HoldsSlot, BeforeResult
  <1>5. ASSUME NEW r \in Requests, PrepareCreateFails(r)
        PROVE  FALSE
    BY <1>1, <1>3, <1>5 DEF PrepareCreateFails, HoldsSlot, BeforeResult
  <1>6. ASSUME HoldsSlot(k) \/ ~HoldsSlot(k)', next' = next
        PROVE  next' = k + 1
    BY <1>2, <1>6
  <1> USE DEF HoldsSlot, BeforeResult, InCleanup, vars, lockVars, jobVars, runVars,
  diskVars, envVars
  <1>7. ASSUME NEW r \in Requests, PrepareBusy(r)
        PROVE  next' = k + 1
    BY <1>6, <1>7 DEF PrepareBusy
  <1>8. ASSUME NEW j \in Jobs, Publish(j)
        PROVE  next' = k + 1
    BY <1>3, <1>6, <1>8 DEF Publish, PreparePublish, PreparePublishFails
  <1>9. ASSUME NEW j \in Jobs, RunJob(j)
        PROVE  next' = k + 1
    BY <1>3, <1>6, <1>9 DEF RunJob, MarkRunning, SetCancel, StartHelper, StartFails,
       HelperReturns, CheckCancel, SaveResult, WriteAudit, SetResult, ReleaseJob
  <1>10. ASSUME NEW j \in Jobs, CleanupJobs(j)
        PROVE  next' = k + 1
    BY <1>3, <1>6, <1>10 DEF CleanupJobs, ProtectedIDs, ListJobDirs, ListJobDirsFails,
       RemoveDir, RemoveDirFails, PruneMemory, LeaveCleanup
  <1>11. ASSUME NEW j \in Jobs, RequestCancel(j) \/ HelperDeadline(j)
        PROVE  next' = k + 1
    BY <1>6, <1>11 DEF RequestCancel, HelperDeadline
  <1>12. ASSUME DayPasses
        PROVE  next' = k + 1
    BY <1>6, <1>12 DEF DayPasses
  <1>13. ASSUME Restart
        PROVE  next' = k + 1
    BY <1>3, <1>6, <1>13 DEF Restart
  <1>14. CASE UNCHANGED vars
    BY <1>6, <1>14
  <1> QED
    BY <1>4, <1>5, <1>7, <1>8, <1>9, <1>10, <1>11, <1>12, <1>13, <1>14
    DEF Next, Prepare

\* HolderIsNewest holds in every reachable state.
LEMMA NewestHolds == Spec => []HolderIsNewest
  <1>1. Init => HolderIsNewest
    BY DEF Init, HolderIsNewest, HoldsSlot, BeforeResult
  <1> QED
    BY <1>1, NewestStep, Invariance, PTL DEF Spec

\* Without a limit on bytes, and with one on the number only if there is a single
\* slot, a Cleanup spares the jobs that are unfinished: those that were in memory
\* when it began are protected, and those it did not see are newer than the cutoff
\* and stay so as long as it runs; with a single slot they are the newest.
CleanupSpares ==
    \A j, k \in Jobs :
        /\ /\ pc[j] \in {"snapshot", "planned"}
           /\ Live(k) \/ pc[k] = "preparing" \/ k >= next
           => k \in protected[j] \/ (cutoff <= k /\ j < k)
        /\ Live(k) \/ pc[k] = "preparing" => k \notin doomed[j] \union report[j]

KeepInv == CleanupSpares /\ LiveJobsKept

\* The limits under which no Cleanup can meet an unfinished job.
SparingLimits ==
    /\ MaxTotalJobBytes = 0
    /\ MaxJobsRetained = 0 \/ Concurrency = 1

\* An unfinished job never has too many newer ones: the count rule is off, or the
\* job is the newest there is.
LEMMA NewestNotOver ==
  ASSUME SparingLimits, IInv, DirsInv, HolderIsNewest,
         NEW k \in Jobs, Live(k) \/ pc[k] = "preparing", NEW P
  PROVE  k \notin OverCount(dirs, P, cutoff)
  <1>1. CASE MaxJobsRetained = 0
    BY <1>1 DEF OverCount
  <1>2. CASE MaxJobsRetained > 0
    <2>1. Concurrency = 1
      BY <1>2 DEF SparingLimits
    <2>2. HoldsSlot(k)
      BY DEF Live, HoldsSlot
    <2>3. next = k + 1
      BY <2>1, <2>2 DEF HolderIsNewest
    <2>4. \A i \in dirs : i \in Nat /\ ~(i > k)
      BY <2>3 DEF DirsInv, HandedOut, IInv, TypeOK, Jobs
    <2> DEFINE left == dirs \ TooOld(dirs, P, cutoff)
    <2>5. {i \in left : i > k} = {}
      BY <2>4
    <2>6. Cardinality({i \in left : i > k}) = 0
      BY <2>5, FS_EmptySet
    <2>7. ~(Cardinality({i \in left : i > k}) >= MaxJobsRetained)
      BY <1>2, <2>6, RetentionAssumption
    <2> QED
      BY <2>7 DEF OverCount
  <1> QED
    BY <1>1, <1>2, RetentionAssumption

\* Every step keeps KeepInv.
LEMMA KeepStep ==
  ASSUME SparingLimits, IInv, DirsInv, HolderIsNewest, KeepInv, [Next]_vars
  PROVE  KeepInv'
  <1> USE DEF IInv, TypeOK, Jobs, MuHeldByPreparing, FreshAreNew, ResultWhenDone,
              DirsInv, HandedOut, KeepInv, CleanupSpares, LiveJobsKept, Live, Done,
              NotStarted, BeforeResult, InCleanup, vars, lockVars, jobVars, runVars,
              diskVars, envVars
  <1>1. ASSUME NEW r \in Requests, PrepareBusy(r)
        PROVE  KeepInv'
    BY <1>1 DEF PrepareBusy
  <1>2. ASSUME NEW r \in Requests, PrepareCreate(r)
        PROVE  KeepInv'
    BY <1>2 DEF PrepareCreate
  <1>3. ASSUME NEW r \in Requests, PrepareCreateFails(r)
        PROVE  KeepInv'
    BY <1>3 DEF PrepareCreateFails
  <1>4. ASSUME NEW j \in Jobs, PreparePublish(j)
        PROVE  KeepInv'
    BY <1>4, JobsFinite DEF PreparePublish
  <1>5. ASSUME NEW j \in Jobs, PreparePublishFails(j)
        PROVE  KeepInv'
    BY <1>5, JobsFinite DEF PreparePublishFails
  <1>6. ASSUME NEW j \in Jobs, MarkRunning(j)
        PROVE  KeepInv'
    BY <1>6 DEF MarkRunning
  <1>7. ASSUME NEW j \in Jobs, SetCancel(j)
        PROVE  KeepInv'
    BY <1>7 DEF SetCancel
  <1>8. ASSUME NEW j \in Jobs, StartHelper(j)
        PROVE  KeepInv'
    BY <1>8 DEF StartHelper
  <1>9. ASSUME NEW j \in Jobs, StartFails(j)
        PROVE  KeepInv'
    BY <1>9 DEF StartFails
  <1>10. ASSUME NEW j \in Jobs, HelperReturns(j)
        PROVE  KeepInv'
    BY <1>10 DEF HelperReturns
  <1>11. ASSUME NEW j \in Jobs, HelperDeadline(j)
        PROVE  KeepInv'
    BY <1>11 DEF HelperDeadline
  <1>12. ASSUME NEW j \in Jobs, CheckCancel(j)
        PROVE  KeepInv'
    BY <1>12 DEF CheckCancel
  <1>13. ASSUME NEW j \in Jobs, SaveResult(j)
        PROVE  KeepInv'
    BY <1>13 DEF SaveResult
  <1>14. ASSUME NEW j \in Jobs, WriteAudit(j)
        PROVE  KeepInv'
    BY <1>14 DEF WriteAudit
  <1>15. ASSUME NEW j \in Jobs, SetResult(j)
        PROVE  KeepInv'
    BY <1>15 DEF SetResult
  <1>16. ASSUME NEW j \in Jobs, ReleaseJob(j)
        PROVE  KeepInv'
    BY <1>16 DEF ReleaseJob
  <1>17. ASSUME NEW j \in Jobs, ProtectedIDs(j)
        PROVE  KeepInv'
    <2>1. /\ pc[j] = "released"
          /\ pc' = [pc EXCEPT ![j] = "snapshot"]
          /\ protected' = [protected EXCEPT ![j] = {k \in jobs : ~Done(k)}]
          /\ UNCHANGED <<jobs, dirs, result, doomed, report, next, cutoff>>
      BY <1>17 DEF ProtectedIDs
    <2>2. j < next
      BY <2>1
    <2>3. \A k \in Jobs : Live(k)' <=> Live(k)
      BY <2>1
    <2>4. \A k \in Jobs : pc[k] # "preparing"
      BY <1>17, JobsFinite DEF ProtectedIDs
    <2>5. \A k \in Jobs : Live(k) => k \in protected'[j]
      BY <2>1
    <2>6. \A k \in Jobs : k >= next => cutoff <= k /\ j < k
      BY <2>2
    <2>7. CleanupSpares'
      BY <2>1, <2>3, <2>4, <2>5, <2>6
    <2> QED
      BY <2>1, <2>3, <2>7
  <1>18. ASSUME NEW j \in Jobs, ListJobDirs(j)
        PROVE  KeepInv'
    <2>1. /\ pc[j] = "snapshot" /\ pc' = [pc EXCEPT ![j] = "planned"]
          /\ doomed' = [doomed EXCEPT ![j] =
                            Doomed(dirs, protected[j], cutoff, DirSize)]
          /\ UNCHANGED <<protected, report, jobs, dirs, next, cutoff>>
      BY <1>18 DEF ListJobDirs
    <2>2. OverBytes(dirs, protected[j], cutoff, DirSize) = {}
      BY DEF OverBytes, SparingLimits
    <2>3. ASSUME NEW k \in Jobs, Live(k) \/ pc[k] = "preparing"
          PROVE  k \notin doomed'[j]
      <3>1. k \in protected[j] \/ cutoff <= k
        BY <2>1, <2>3
      <3>2. k \notin TooOld(dirs, protected[j], cutoff)
        BY <3>1 DEF TooOld
      <3>3. k \notin OverCount(dirs, protected[j], cutoff)
        BY <2>3, NewestNotOver
      <3>4. doomed'[j] = Doomed(dirs, protected[j], cutoff, DirSize)
        BY <2>1
      <3> QED
        BY <2>2, <3>2, <3>3, <3>4 DEF Doomed
    <2>4. \A k \in Jobs : Live(k)' <=> Live(k)
      BY <2>1
    <2>5. CleanupSpares'
      BY <2>1, <2>3, <2>4
    <2> QED
      BY <2>1, <2>4, <2>5
  <1>19. ASSUME NEW j \in Jobs, ListJobDirsFails(j)
        PROVE  KeepInv'
    BY <1>19 DEF ListJobDirsFails, LeaveCleanup
  <1>20. ASSUME NEW j \in Jobs, RemoveDir(j)
        PROVE  KeepInv'
    BY <1>20 DEF RemoveDir
  <1>21. ASSUME NEW j \in Jobs, RemoveDirFails(j)
        PROVE  KeepInv'
    BY <1>21 DEF RemoveDirFails, LeaveCleanup
  <1>22. ASSUME NEW j \in Jobs, PruneMemory(j)
        PROVE  KeepInv'
    BY <1>22 DEF PruneMemory, LeaveCleanup, Forgotten
  <1>23. ASSUME NEW j \in Jobs, RequestCancel(j)
        PROVE  KeepInv'
    BY <1>23 DEF RequestCancel
  <1>24. ASSUME DayPasses
        PROVE  KeepInv'
    BY <1>24 DEF DayPasses
  <1>25. ASSUME Restart
        PROVE  KeepInv'
    BY <1>25 DEF Restart
  <1>26. CASE UNCHANGED vars
    BY <1>26
  <1> QED
    BY <1>1, <1>2, <1>3, <1>4, <1>5, <1>6, <1>7, <1>8, <1>9, <1>10, <1>11,
       <1>12, <1>13, <1>14, <1>15, <1>16, <1>17, <1>18, <1>19, <1>20, <1>21,
       <1>22, <1>23, <1>24, <1>25, <1>26
    DEF Next, Prepare, Publish, RunJob, CleanupJobs

\* KeepInv holds in every reachable state.
LEMMA KeepHolds == SparingLimits => (Spec => []KeepInv)
  <1> SUFFICES ASSUME SparingLimits
               PROVE  Spec => []KeepInv
    OBVIOUS
  <1>1. Init => KeepInv
    BY DEF Init, KeepInv, CleanupSpares, LiveJobsKept, Live, BeforeResult
  <1>2. IInv /\ DirsInv /\ HolderIsNewest /\ KeepInv /\ [Next]_vars => KeepInv'
    BY KeepStep
  <1> QED
    BY <1>1, <1>2, Invariance, DirsHold, NewestHolds, PTL DEF Spec

\* Without max_total_job_bytes, and without max_jobs_retained unless the daemon has
\* a single slot, an unfinished job keeps its directory and its place in memory
\* through any number of Cleanup calls that run beside it (protectedIDs, Cleanup
\* and pruneMemory).  With two slots and a limit on the number it does not: see
\* the run job_live_pruned.
THEOREM LiveJobsStay == SparingLimits => (Spec => []LiveJobsKept)
  <1> SUFFICES ASSUME SparingLimits
               PROVE  Spec => []LiveJobsKept
    OBVIOUS
  <1>1. Spec => []KeepInv
    BY KeepHolds
  <1> QED
    BY <1>1, PTL DEF KeepInv

\* What a step may do to the answer about a job (the action of ViewIsStable).
AnswerKept(j) ==
    /\ View(j).result # "none"
          => View(j)' = View(j) \/ View(j).state' = "not_found"
    /\ View(j).state = "not_found" /\ j < next /\ mu # j /\ pc[j] # "dead"
          => View(j).state' = "not_found"

\* No step replaces a result that could be read or answers for a job that is
\* gone.  The steps to watch are SaveResult and SetResult of a job that was
\* forgotten while it ran, and PruneMemory, which moves the answer to the disk.
LEMMA AnswerStep ==
  ASSUME IInv, RecordsInv, DirsInv, [Next]_vars, NEW k \in Jobs
  PROVE  AnswerKept(k)
  <1> USE DEF IInv, TypeOK, Jobs, MuHeldByPreparing, FreshAreNew, ResultWhenDone,
              DirsInv, RemovedAreGone, RecordsInv, RecordsFollow, RecordsAgree,
              Unwritten, Live, Done, AnswerKept, View, NotStarted, BeforeResult,
              InCleanup, Final, vars, lockVars, jobVars, runVars, diskVars, envVars
  <1>1. ASSUME NEW r \in Requests, PrepareBusy(r)
        PROVE  AnswerKept(k)
    BY <1>1 DEF PrepareBusy
  <1>2. ASSUME NEW r \in Requests, PrepareCreate(r)
        PROVE  AnswerKept(k)
    BY <1>2 DEF PrepareCreate
  <1>3. ASSUME NEW r \in Requests, PrepareCreateFails(r)
        PROVE  AnswerKept(k)
    BY <1>3 DEF PrepareCreateFails
  <1>4. ASSUME NEW j \in Jobs, PreparePublish(j)
        PROVE  AnswerKept(k)
    BY <1>4, JobsFinite DEF PreparePublish
  <1>5. ASSUME NEW j \in Jobs, PreparePublishFails(j)
        PROVE  AnswerKept(k)
    BY <1>5 DEF PreparePublishFails
  <1>6. ASSUME NEW j \in Jobs, MarkRunning(j)
        PROVE  AnswerKept(k)
    BY <1>6 DEF MarkRunning
  <1>7. ASSUME NEW j \in Jobs, SetCancel(j)
        PROVE  AnswerKept(k)
    BY <1>7 DEF SetCancel
  <1>8. ASSUME NEW j \in Jobs, StartHelper(j)
        PROVE  AnswerKept(k)
    BY <1>8 DEF StartHelper
  <1>9. ASSUME NEW j \in Jobs, StartFails(j)
        PROVE  AnswerKept(k)
    BY <1>9 DEF StartFails
  <1>10. ASSUME NEW j \in Jobs, HelperReturns(j)
        PROVE  AnswerKept(k)
    BY <1>10 DEF HelperReturns
  <1>11. ASSUME NEW j \in Jobs, HelperDeadline(j)
        PROVE  AnswerKept(k)
    BY <1>11 DEF HelperDeadline
  <1>12. ASSUME NEW j \in Jobs, CheckCancel(j)
        PROVE  AnswerKept(k)
    BY <1>12 DEF CheckCancel
  <1>13. ASSUME NEW j \in Jobs, SaveResult(j)
        PROVE  AnswerKept(k)
    <2>1. pc[j] = "checked" /\ jobs' = jobs /\ state' = state /\ result' = result
      BY <1>13 DEF SaveResult
    <2>2. CASE saved' = saved
      BY <2>1, <2>2
    <2>3. CASE j \in dirs /\ saved' = [saved EXCEPT ![j] = res[j]]
      <3>1. j \in jobs
        BY <2>1, <2>3
      <3>2. k \notin jobs => saved'[k] = saved[k]
        BY <2>3, <3>1
      <3> QED
        BY <2>1, <3>2
    <2> QED
      BY <1>13, <2>2, <2>3 DEF SaveResult
  <1>14. ASSUME NEW j \in Jobs, WriteAudit(j)
        PROVE  AnswerKept(k)
    BY <1>14 DEF WriteAudit
  <1>15. ASSUME NEW j \in Jobs, SetResult(j)
        PROVE  AnswerKept(k)
    <2>1. /\ pc[j] = "audited" /\ ~Done(j)
          /\ jobs' = jobs /\ saved' = saved
          /\ result' = [result EXCEPT ![j] = res[j]]
          /\ state' = [state EXCEPT ![j] = res[j]]
      BY <1>15 DEF SetResult
    <2>2. CASE k = j
      BY <2>1, <2>2
    <2>3. CASE k # j
      BY <2>1, <2>3
    <2> QED
      BY <2>2, <2>3
  <1>16. ASSUME NEW j \in Jobs, ReleaseJob(j)
        PROVE  AnswerKept(k)
    BY <1>16 DEF ReleaseJob
  <1>17. ASSUME NEW j \in Jobs, ProtectedIDs(j)
        PROVE  AnswerKept(k)
    BY <1>17 DEF ProtectedIDs
  <1>18. ASSUME NEW j \in Jobs, ListJobDirs(j)
        PROVE  AnswerKept(k)
    BY <1>18 DEF ListJobDirs
  <1>19. ASSUME NEW j \in Jobs, ListJobDirsFails(j)
        PROVE  AnswerKept(k)
    BY <1>19 DEF ListJobDirsFails, LeaveCleanup
  <1>20. ASSUME NEW j \in Jobs, RemoveDir(j)
        PROVE  AnswerKept(k)
    BY <1>20 DEF RemoveDir
  <1>21. ASSUME NEW j \in Jobs, RemoveDirFails(j)
        PROVE  AnswerKept(k)
    <2>1. jobs' = jobs /\ state' = state /\ result' = result
      BY <1>21 DEF RemoveDirFails
    <2>2. PICK i \in doomed[j] : saved' \in {saved, [saved EXCEPT ![i] = "none"]}
      BY <1>21 DEF RemoveDirFails
    <2>3. saved'[k] \in {saved[k], "none"}
      <3>1. CASE saved' = saved
        BY <3>1
      <3>2. CASE saved' = [saved EXCEPT ![i] = "none"]
        BY <3>2
      <3> QED
        BY <2>2, <3>1, <3>2
    <2> QED
      BY <2>1, <2>3
  <1>22. ASSUME NEW j \in Jobs, PruneMemory(j)
        PROVE  AnswerKept(k)
    BY <1>22 DEF PruneMemory, LeaveCleanup
  <1>23. ASSUME NEW j \in Jobs, RequestCancel(j)
        PROVE  AnswerKept(k)
    BY <1>23 DEF RequestCancel
  <1>24. ASSUME DayPasses
        PROVE  AnswerKept(k)
    BY <1>24 DEF DayPasses
  <1>25. ASSUME Restart
        PROVE  AnswerKept(k)
    BY <1>25 DEF Restart
  <1>26. CASE UNCHANGED vars
    BY <1>26
  <1> QED
    BY <1>1, <1>2, <1>3, <1>4, <1>5, <1>6, <1>7, <1>8, <1>9, <1>10, <1>11,
       <1>12, <1>13, <1>14, <1>15, <1>16, <1>17, <1>18, <1>19, <1>20, <1>21,
       <1>22, <1>23, <1>24, <1>25, <1>26
    DEF Next, Prepare, Publish, RunJob, CleanupJobs

\* A result, once it could be read, is never replaced, and a job that is gone
\* stays gone (handleJob 209-219 while runJob and cleanupJobs go on), also for
\* a job that retention forgot while it ran.
THEOREM AnswersAreStable == Spec => ViewIsStable
  <1>1. ASSUME IInv, RecordsInv, DirsInv, [Next]_vars
        PROVE  \A k \in Jobs : AnswerKept(k)
    BY <1>1, AnswerStep
  <1>2. (\A k \in Jobs : AnswerKept(k)) =>
            [\A j \in Jobs :
               /\ View(j).result # "none"
                     => View(j)' = View(j) \/ View(j).state' = "not_found"
               /\ View(j).state = "not_found" /\ j < next
                  /\ mu # j /\ pc[j] # "dead"
                     => View(j).state' = "not_found"]_vars
    BY DEF AnswerKept
  <1> QED
    BY <1>1, <1>2, Invariance, RecordsHold, DirsHold, PTL DEF Spec, ViewIsStable
=============================================================================
