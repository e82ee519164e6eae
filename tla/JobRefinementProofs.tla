------------------------- MODULE JobRefinementProofs -------------------------
(***************************************************************************)
(* TLAPS proof that JobLifecycle implements Executor as long as retention  *)
(* by number and by bytes is off: for every number of jobs, restarts and   *)
(* slots, every set of requests, and with every failure of the job store.  *)
(***************************************************************************)
EXTENDS JobRefinement, JobLifecycleProofs

\* The results runViaChild may return for a job: what a started command reported,
\* or start_failed if none was started.
Returnable(j) == IF j \in executed THEN Outcomes ELSE {"start_failed"}

\* How the position of a goroutine, its local result and the set of started
\* commands go together; and no dead job is in memory.
RunTracked ==
    \A j \in Jobs :
        /\ pc[j] \in NotStarted \union {"failed", "queued", "marked", "bound"}
              => j \notin executed
        /\ pc[j] = "executing" => j \in executed
        /\ pc[j] = "returned" => res[j] \in Returnable(j)
        /\ pc[j] \in {"checked", "saved", "audited"}
              => \/ res[j] \in Returnable(j)
                 \/ res[j] = "canceled" /\ cancelRequested[j]
        /\ j \in jobs => pc[j] # "dead"

\* Every step keeps RunTracked.
LEMMA RunStep ==
  ASSUME IInv, RunTracked, [Next]_vars
  PROVE  RunTracked'
  <1> USE DEF IInv, TypeOK, FreshAreNew, RunTracked, Returnable, NotStarted,
              BeforeResult, InCleanup, vars, lockVars, jobVars, runVars, diskVars, envVars
  <1>1. ASSUME NEW r \in Requests, PrepareBusy(r)
        PROVE  RunTracked'
    BY <1>1 DEF PrepareBusy
  <1>2. ASSUME NEW r \in Requests, PrepareCreate(r)
        PROVE  RunTracked'
    BY <1>2 DEF PrepareCreate
  <1>3. ASSUME NEW r \in Requests, PrepareCreateFails(r)
        PROVE  RunTracked'
    BY <1>3 DEF PrepareCreateFails
  <1>4. ASSUME NEW j \in Jobs, PreparePublish(j)
        PROVE  RunTracked'
    BY <1>4, JobsFinite DEF PreparePublish, MuHeldByPreparing
  <1>5. ASSUME NEW j \in Jobs, PreparePublishFails(j)
        PROVE  RunTracked'
    BY <1>5, JobsFinite DEF PreparePublishFails, MuHeldByPreparing
  <1>6. ASSUME NEW j \in Jobs, MarkRunning(j)
        PROVE  RunTracked'
    BY <1>6 DEF MarkRunning
  <1>7. ASSUME NEW j \in Jobs, SetCancel(j)
        PROVE  RunTracked'
    BY <1>7 DEF SetCancel
  <1>8. ASSUME NEW j \in Jobs, StartHelper(j)
        PROVE  RunTracked'
    BY <1>8 DEF StartHelper
  <1>9. ASSUME NEW j \in Jobs, StartFails(j)
        PROVE  RunTracked'
    BY <1>9 DEF StartFails
  <1>10. ASSUME NEW j \in Jobs, HelperReturns(j)
        PROVE  RunTracked'
    BY <1>10 DEF HelperReturns
  <1>11. ASSUME NEW j \in Jobs, HelperDeadline(j)
        PROVE  RunTracked'
    BY <1>11 DEF HelperDeadline
  <1>12. ASSUME NEW j \in Jobs, CheckCancel(j)
        PROVE  RunTracked'
    BY <1>12 DEF CheckCancel
  <1>13. ASSUME NEW j \in Jobs, SaveResult(j)
        PROVE  RunTracked'
    BY <1>13 DEF SaveResult
  <1>14. ASSUME NEW j \in Jobs, WriteAudit(j)
        PROVE  RunTracked'
    BY <1>14 DEF WriteAudit
  <1>15. ASSUME NEW j \in Jobs, SetResult(j)
        PROVE  RunTracked'
    BY <1>15 DEF SetResult
  <1>16. ASSUME NEW j \in Jobs, ReleaseJob(j)
        PROVE  RunTracked'
    BY <1>16 DEF ReleaseJob
  <1>17. ASSUME NEW j \in Jobs, ProtectedIDs(j)
        PROVE  RunTracked'
    BY <1>17 DEF ProtectedIDs
  <1>18. ASSUME NEW j \in Jobs, ListJobDirs(j)
        PROVE  RunTracked'
    BY <1>18 DEF ListJobDirs
  <1>19. ASSUME NEW j \in Jobs, ListJobDirsFails(j)
        PROVE  RunTracked'
    BY <1>19 DEF ListJobDirsFails, LeaveCleanup
  <1>20. ASSUME NEW j \in Jobs, RemoveDir(j)
        PROVE  RunTracked'
    BY <1>20 DEF RemoveDir
  <1>21. ASSUME NEW j \in Jobs, RemoveDirFails(j)
        PROVE  RunTracked'
    BY <1>21 DEF RemoveDirFails, LeaveCleanup
  <1>22. ASSUME NEW j \in Jobs, PruneMemory(j)
        PROVE  RunTracked'
    BY <1>22 DEF PruneMemory, LeaveCleanup
  <1>23. ASSUME NEW j \in Jobs, RequestCancel(j)
        PROVE  RunTracked'
    BY <1>23 DEF RequestCancel
  <1>24. ASSUME DayPasses
        PROVE  RunTracked'
    BY <1>24 DEF DayPasses
  <1>25. ASSUME Restart
        PROVE  RunTracked'
    BY <1>25 DEF Restart
  <1>26. CASE UNCHANGED vars
    BY <1>26
  <1> QED
    BY <1>1, <1>2, <1>3, <1>4, <1>5, <1>6, <1>7, <1>8, <1>9, <1>10, <1>11,
       <1>12, <1>13, <1>14, <1>15, <1>16, <1>17, <1>18, <1>19, <1>20, <1>21,
       <1>22, <1>23, <1>24, <1>25, <1>26
    DEF Next, Prepare, Publish, RunJob, CleanupJobs

\* RunTracked holds in every reachable state.
LEMMA RunHolds == Spec => []RunTracked
  <1>1. Init => RunTracked
    BY DEF Init, RunTracked, NotStarted
  <1> QED
    BY <1>1, RunStep, Invariance, PTL DEF Spec

-----------------------------------------------------------------------------
\* The refinement mapping.

statusBar == [j \in Jobs |-> StatusOf(j)]
askedBar  == [j \in Jobs |-> IF Admitted(j) THEN req[j] ELSE NoRequest]

MappedInv == /\ IInv /\ RecordsInv /\ DirsInv /\ KeepInv
             /\ CancelEndsContext /\ RunTracked

\* The steps nobody outside the daemon sees.
Internal ==
    \/ \E r \in Requests : Prepare(r)
    \/ \E j \in Jobs :
          \/ PreparePublishFails(j) \/ MarkRunning(j) \/ SetCancel(j)
          \/ StartFails(j) \/ HelperReturns(j) \/ CheckCancel(j)
          \/ WriteAudit(j) \/ HelperDeadline(j)
          \/ ProtectedIDs(j) \/ ListJobDirs(j) \/ ListJobDirsFails(j)
    \/ DayPasses
    \/ UNCHANGED vars

\* The state of the Executor is the same if each job has the same status and
\* request in it and the variables it shares with the daemon do not change.
LEMMA SameExecutor ==
  ASSUME \A j \in Jobs : StatusOf(j)' = StatusOf(j),
         askedBar' = askedBar,
         UNCHANGED <<cancelRequested, result, jobs, saved, executed>>
  PROVE  UNCHANGED Promise!executorVars
  <1>1. statusBar' = statusBar
    BY DEF statusBar
  <1> QED
    BY <1>1 DEF Promise!executorVars, statusBar, askedBar

\* Internal steps map to no step at all.
LEMMA InternalStep ==
  ASSUME MappedInv, Internal
  PROVE  UNCHANGED Promise!executorVars
  <1> USE DEF MappedInv, IInv, TypeOK, MuHeldByPreparing, FreshAreNew,
              ResultWhenDone, RunTracked, Done, Live, StatusOf, Admitted,
              NotStarted, BeforeResult, InCleanup, vars, lockVars, jobVars,
              runVars, diskVars, envVars
  <1> DEFINE Same == /\ \A j \in Jobs : StatusOf(j)' = StatusOf(j)
                     /\ askedBar' = askedBar
                     /\ UNCHANGED <<cancelRequested, result, jobs, saved, executed>>
  <1>1. ASSUME NEW r \in Requests, PrepareBusy(r)
        PROVE  Same
    BY <1>1, JobsFinite DEF PrepareBusy, askedBar
  <1>2. ASSUME NEW r \in Requests, PrepareCreate(r)
        PROVE  Same
    BY <1>2, JobsFinite DEF PrepareCreate, askedBar
  <1>3. ASSUME NEW r \in Requests, PrepareCreateFails(r)
        PROVE  Same
    BY <1>3, JobsFinite DEF PrepareCreateFails, askedBar
  <1>4. ASSUME NEW j \in Jobs, PreparePublishFails(j)
        PROVE  Same
    BY <1>4, JobsFinite DEF PreparePublishFails, askedBar
  <1>5. ASSUME NEW j \in Jobs, MarkRunning(j)
        PROVE  Same
    BY <1>5, JobsFinite DEF MarkRunning, askedBar
  <1>6. ASSUME NEW j \in Jobs, SetCancel(j)
        PROVE  Same
    BY <1>6, JobsFinite DEF SetCancel, askedBar
  <1>7. ASSUME NEW j \in Jobs, StartFails(j)
        PROVE  Same
    BY <1>7, JobsFinite DEF StartFails, askedBar
  <1>8. ASSUME NEW j \in Jobs, HelperReturns(j)
        PROVE  Same
    BY <1>8, JobsFinite DEF HelperReturns, askedBar
  <1>9. ASSUME NEW j \in Jobs, CheckCancel(j)
        PROVE  Same
    BY <1>9, JobsFinite DEF CheckCancel, askedBar
  <1>10. ASSUME NEW j \in Jobs, WriteAudit(j)
        PROVE  Same
    BY <1>10, JobsFinite DEF WriteAudit, askedBar
  <1>11. ASSUME NEW j \in Jobs, HelperDeadline(j)
        PROVE  Same
    BY <1>11, JobsFinite DEF HelperDeadline, askedBar
  <1>12. ASSUME NEW j \in Jobs, ProtectedIDs(j)
        PROVE  Same
    BY <1>12, JobsFinite DEF ProtectedIDs, askedBar
  <1>13. ASSUME NEW j \in Jobs, ListJobDirs(j)
        PROVE  Same
    BY <1>13, JobsFinite DEF ListJobDirs, askedBar
  <1>14. ASSUME NEW j \in Jobs, ListJobDirsFails(j)
        PROVE  Same
    BY <1>14, JobsFinite DEF ListJobDirsFails, askedBar, LeaveCleanup
  <1>15. ASSUME DayPasses
        PROVE  Same
    BY <1>15, JobsFinite DEF DayPasses, askedBar
  <1>16. CASE UNCHANGED vars
    BY <1>16 DEF askedBar, Promise!executorVars
  <1> HIDE DEF Same
  <1>17. ASSUME Same
         PROVE  UNCHANGED Promise!executorVars
    BY <1>17, SameExecutor DEF Same
  <1> QED
    BY <1>1, <1>2, <1>3, <1>4, <1>5, <1>6, <1>7, <1>8, <1>9, <1>10,
       <1>11, <1>12, <1>13, <1>14, <1>15, <1>16, <1>17
    DEF Internal, Prepare

\* The Executor counts as the daemon does.
LEMMA SameCardinality == \A S : Promise!Cardinality(S) = Cardinality(S)
  BY DEF Promise!Cardinality, Cardinality

-----------------------------------------------------------------------------
\* The steps that map to steps of the Executor, one lemma for each.

\* PreparePublish admits: the key was looked up, the lock found free and the slot
\* taken when l.mu was locked, and still stand.
LEMMA PublishAdmits ==
  ASSUME MappedInv, NEW j \in Jobs, PreparePublish(j), NEW r \in Requests, r = req[j]
  PROVE  Promise!Admit(j, r)
  <1> USE DEF MappedInv, IInv
  <1>1. /\ pc[j] = "preparing" /\ j \notin executed
        /\ pc' = [pc EXCEPT ![j] = "queued"] /\ jobs' = jobs \union {j}
        /\ UNCHANGED <<req, cancelRequested, result, saved, executed>>
        /\ pc \in [Jobs -> Positions]
    BY DEF PreparePublish, TypeOK, MuHeldByPreparing, RunTracked, NotStarted, jobVars,
       diskVars, envVars
  <1>2. statusBar[j] = "none"
    BY <1>1 DEF statusBar, StatusOf, Admitted
  <1>3. Promise!Matching(Host, r) = {}
    <2> SUFFICES ASSUME r.idempotencyKey # NoKey,
                        NEW k \in jobs, askedBar[k].idempotencyKey # NoKey,
                        Promise!IndexKey(askedBar[k]) = Promise!IndexKey(r)
                 PROVE  FALSE
      BY DEF Promise!Matching, askedBar
    <2>1. k \in Jobs /\ Admitted(k)
      BY DEF TypeOK, FreshAreNew, NotStarted, Admitted
    <2>2. askedBar[k] = req[k]
      BY <2>1 DEF askedBar
    <2>3. IndexKey(req[k]) = IndexKey(r) /\ req[k].idempotencyKey # NoKey
      BY <2>2, Zenon DEF Promise!IndexKey, IndexKey
    <2>4. idempotency[IndexKey(req[k])] = k
      BY <2>3 DEF IdempotencyIndexed
    <2>5. idempotency[IndexKey(r)] = NoJob
      BY <1>1 DEF PreparingUnseen
    <2> QED
      BY <2>1, <2>3, <2>4, <2>5, JobsFinite
  <1>4. Promise!LockFree(Host, r)
    <2> SUFFICES ASSUME r.lockKey # NoKey,
                        NEW k \in Jobs, Promise!Unfinished(k)
                 PROVE  askedBar[k].lockKey # r.lockKey
      BY DEF Promise!LockFree, Promise!On, askedBar
    <2>1. Live(k)
      BY DEF Promise!Unfinished, StatusOf
    <2>2. askedBar[k] = req[k]
      BY <2>1 DEF askedBar, Admitted, Live, BeforeResult
    <2> QED
      BY <1>1, <2>1, <2>2, JobsFinite DEF LocksCoverLive
  <1>5. Promise!SlotFree(Host)
    <2> DEFINE busy == {k \in Promise!On(Host) :
                            \/ Promise!Unfinished(k)
                            \/ [i \in Jobs |-> StatusOf(i)][k] = "done"}
    <2>1. busy = Holders \ {j} /\ j \in Holders
      BY <1>1 DEF Promise!On, Promise!Unfinished, statusBar, StatusOf, Admitted,
                  Live, Holders, HoldsSlot, BeforeResult, MuHeldByPreparing,
                  PreparePublish
    <2>2. Promise!SlotFree(Host) <=> Cardinality(busy) < Concurrency
      BY SameCardinality DEF Promise!SlotFree
    <2> HIDE DEF busy
    <2>3. Cardinality(busy) = Cardinality(Holders) - 1
      BY <2>1, HoldersFinite, FS_RemoveElement
    <2>4. Cardinality(Holders) \in 0..Concurrency
      BY DEF SlotsMatchRunners, Holders, TypeOK
    <2> QED
      BY <2>2, <2>3, <2>4, LifecycleAssumption
  <1>6. statusBar' = [statusBar EXCEPT ![j] = "queued"]
    BY <1>1 DEF statusBar, StatusOf, Admitted, Live, Done, BeforeResult
  <1>7. askedBar' = [askedBar EXCEPT ![j] = r]
    BY <1>1 DEF askedBar, Admitted
  <1> QED
    BY <1>1, <1>2, <1>3, <1>4, <1>5, <1>6, <1>7
    DEF Promise!Admit, statusBar, askedBar

\* A step of a job's goroutine changes the status of that job alone.
LEMMA StatusMoves ==
  ASSUME TypeOK, NEW j \in Jobs, NEW p \in Positions,
         pc' = [pc EXCEPT ![j] = p], result' \in [Jobs -> Final \union {"none"}],
         \A k \in Jobs \ {j} : result'[k] = result[k] /\ (k \in executed' <=> k \in executed),
         Admitted(j), p \notin {"none", "preparing", "failed"},
         req' = req
  PROVE  /\ statusBar' = [statusBar EXCEPT ![j] = StatusOf(j)']
         /\ askedBar' = askedBar
  <1>1. \A k \in Jobs \ {j} : pc'[k] = pc[k] /\ StatusOf(k)' = StatusOf(k)
    BY DEF TypeOK, StatusOf, Admitted, Live, Done
  <1>2. Admitted(j)' /\ \A k \in Jobs \ {j} : Admitted(k)' = Admitted(k)
    BY <1>1 DEF TypeOK, Admitted
  <1>3. statusBar' = [statusBar EXCEPT ![j] = StatusOf(j)']
    BY <1>1 DEF statusBar
  <1> QED
    BY <1>2, <1>3 DEF askedBar

\* StartHelper starts, and neither twice nor after a cancel.
LEMMA StartStarts ==
  ASSUME MappedInv, NEW j \in Jobs, StartHelper(j)
  PROVE  Promise!Start(j)
  <1>1. /\ pc[j] = "bound" /\ ctx[j] = "open"
        /\ pc' = [pc EXCEPT ![j] = "executing"] /\ executed' = executed \union {j}
        /\ UNCHANGED <<req, cancelRequested, result, jobs, saved>>
    BY DEF StartHelper, lockVars, jobVars, diskVars
  <1>2. TypeOK /\ j \notin executed /\ ~cancelRequested[j] /\ saved[j] = "none"
    BY <1>1 DEF MappedInv, IInv, RunTracked, CancelEndsContext, RecordsInv,
                RecordsFollow, Unwritten
  <1>3. /\ statusBar' = [statusBar EXCEPT ![j] = StatusOf(j)']
        /\ askedBar' = askedBar
    BY <1>1, <1>2, StatusMoves
    DEF TypeOK, Admitted, Positions, BeforeResult
  <1>4. StatusOf(j) = "queued" /\ StatusOf(j)' = "running"
    BY <1>1, <1>2 DEF TypeOK, StatusOf, Admitted, Live, BeforeResult
  <1> QED
    BY <1>1, <1>2, <1>3, <1>4 DEF Promise!Start, statusBar, askedBar

\* SaveResult saves a result the job may have, or nothing.
LEMMA SaveSaves ==
  ASSUME MappedInv, NEW j \in Jobs, SaveResult(j)
  PROVE  Promise!Save(j, res[j]) \/ UNCHANGED Promise!executorVars
  <1>1. /\ pc[j] = "checked" /\ pc' = [pc EXCEPT ![j] = "saved"]
        /\ saved' \in {saved, [saved EXCEPT ![j] = res[j]]}
        /\ UNCHANGED <<req, cancelRequested, result, jobs, executed>>
    BY DEF SaveResult, lockVars, jobVars, envVars
  <1>2. TypeOK /\ saved[j] = "none"
    BY <1>1 DEF MappedInv, IInv, RecordsInv, RecordsFollow, Unwritten
  <1>3. /\ statusBar' = [statusBar EXCEPT ![j] = StatusOf(j)']
        /\ askedBar' = askedBar
    BY <1>1, <1>2, StatusMoves DEF TypeOK, Admitted, Positions, BeforeResult
  <1>4. StatusOf(j) = StatusOf(j)' /\ statusBar[j] = StatusOf(j)
        /\ StatusOf(j) = IF j \in executed THEN "running" ELSE "queued"
    BY <1>1, <1>2 DEF TypeOK, statusBar, StatusOf, Admitted, Live, BeforeResult
  <1>5. statusBar' = statusBar
    BY <1>3, <1>4 DEF statusBar
  <1>6. CASE saved' = saved
    BY <1>1, <1>3, <1>5, <1>6 DEF Promise!executorVars, statusBar, askedBar
  <1>7. CASE saved' = [saved EXCEPT ![j] = res[j]]
    <2>1. res[j] \in Promise!Reportable(j)
      BY <1>1, <1>4 DEF MappedInv, RunTracked, Returnable, Promise!Reportable, statusBar
    <2>2. Promise!Unfinished(j)
      BY <1>4 DEF Promise!Unfinished, statusBar
    <2> QED
      BY <1>1, <1>2, <1>3, <1>5, <1>7, <2>1, <2>2
      DEF Promise!Save, statusBar, askedBar
  <1> QED
    BY <1>1, <1>6, <1>7

\* SetResult finishes the job with the result that was saved, if one was.
LEMMA SetFinishes ==
  ASSUME MappedInv, NEW j \in Jobs, SetResult(j)
  PROVE  Promise!Finish(j, res[j])
  <1>1. /\ pc[j] = "audited" /\ result[j] = "none"
        /\ pc' = [pc EXCEPT ![j] = "done"]
        /\ result' = [result EXCEPT ![j] = res[j]]
        /\ UNCHANGED <<req, cancelRequested, saved, jobs, executed>>
    BY DEF SetResult, MappedInv, IInv, ResultWhenDone, Done, BeforeResult,
           lockVars, diskVars, envVars
  <1>2. TypeOK /\ saved[j] \in {"none", res[j]} /\ result' \in [Jobs -> Final \union {"none"}]
    BY <1>1 DEF MappedInv, IInv, TypeOK, RecordsInv, RecordsFollow
  <1>3. /\ statusBar' = [statusBar EXCEPT ![j] = StatusOf(j)']
        /\ askedBar' = askedBar
    BY <1>1, <1>2, StatusMoves DEF TypeOK, Admitted, Positions, BeforeResult
  <1>4. /\ StatusOf(j)' = "done" /\ statusBar[j] = StatusOf(j)
        /\ StatusOf(j) = IF j \in executed THEN "running" ELSE "queued"
    BY <1>1, <1>2 DEF TypeOK, statusBar, StatusOf, Admitted, Live, BeforeResult
  <1>5. res[j] \in Promise!Reportable(j)
    BY <1>1, <1>4 DEF MappedInv, RunTracked, Returnable, Promise!Reportable, statusBar
  <1>6. Promise!Unfinished(j)
    BY <1>4 DEF Promise!Unfinished, statusBar
  <1> QED
    BY <1>1, <1>2, <1>3, <1>4, <1>5, <1>6 DEF Promise!Finish, statusBar, askedBar

\* ReleaseJob frees.
LEMMA ReleaseFrees ==
  ASSUME MappedInv, NEW j \in Jobs, ReleaseJob(j)
  PROVE  Promise!Free(j)
  <1>1. /\ pc[j] = "done" /\ pc' = [pc EXCEPT ![j] = "released"] /\ TypeOK
        /\ UNCHANGED <<req, result, cancelRequested, saved, jobs, executed>>
    BY DEF ReleaseJob, MappedInv, IInv, diskVars, envVars
  <1>2. /\ statusBar' = [statusBar EXCEPT ![j] = StatusOf(j)']
        /\ askedBar' = askedBar
    BY <1>1, StatusMoves DEF TypeOK, Admitted, Positions, InCleanup
  <1>3. StatusOf(j)' = "freed" /\ statusBar[j] = "done"
    BY <1>1 DEF TypeOK, statusBar, StatusOf, Admitted, Live, BeforeResult
  <1> QED
    BY <1>1, <1>2, <1>3 DEF Promise!Free, statusBar, askedBar

\* RemoveDir erases one job that is over.
LEMMA RemoveErases ==
  ASSUME MappedInv, NEW j \in Jobs, RemoveDir(j)
  PROVE  \E k \in Jobs : Promise!Erase(k)
  <1>1. PICK k \in doomed[j] : saved' = [saved EXCEPT ![k] = "none"]
    BY DEF RemoveDir
  <1>2. UNCHANGED <<pc, req, result, cancelRequested, jobs, executed>>
    BY DEF RemoveDir, lockVars, jobVars, envVars
  <1>3. k \in Jobs /\ ~Live(k)
    BY DEF MappedInv, IInv, TypeOK, KeepInv, CleanupSpares
  <1>4. ~Promise!Unfinished(k)
    BY <1>3 DEF Promise!Unfinished, StatusOf
  <1>5. statusBar' = statusBar /\ askedBar' = askedBar
    BY <1>2 DEF statusBar, askedBar, StatusOf, Admitted, Live, Done
  <1> QED
    BY <1>1, <1>2, <1>3, <1>4, <1>5 DEF Promise!Erase, statusBar, askedBar

\* RemoveDirFails may have erased the result of one.
LEMMA RemoveFailsErases ==
  ASSUME MappedInv, NEW j \in Jobs, RemoveDirFails(j)
  PROVE  (\E k \in Jobs : Promise!Erase(k)) \/ UNCHANGED Promise!executorVars
  <1>1. PICK k \in doomed[j] : saved' \in {saved, [saved EXCEPT ![k] = "none"]}
    BY DEF RemoveDirFails
  <1>2. /\ pc[j] = "planned" /\ pc' = [pc EXCEPT ![j] = "exited"] /\ TypeOK
        /\ UNCHANGED <<req, result, cancelRequested, jobs, executed>>
    BY DEF RemoveDirFails, LeaveCleanup, MappedInv, IInv, lockVars, jobVars, envVars
  <1>3. k \in Jobs /\ ~Live(k)
    BY DEF MappedInv, IInv, TypeOK, KeepInv, CleanupSpares
  <1>4. ~Promise!Unfinished(k)
    BY <1>3 DEF Promise!Unfinished, StatusOf
  <1>5. /\ statusBar' = [statusBar EXCEPT ![j] = StatusOf(j)']
        /\ askedBar' = askedBar
    BY <1>2, StatusMoves DEF TypeOK, Admitted, Positions, Stopped
  <1>6. StatusOf(j)' = "freed" /\ statusBar[j] = "freed"
    BY <1>2 DEF TypeOK, statusBar, StatusOf, Admitted, Live, BeforeResult
  <1>7. statusBar' = statusBar
    BY <1>5, <1>6 DEF statusBar
  <1>8. CASE saved' = saved
    BY <1>2, <1>5, <1>7, <1>8 DEF Promise!executorVars, statusBar, askedBar
  <1>9. CASE saved' = [saved EXCEPT ![k] = "none"]
    BY <1>2, <1>3, <1>4, <1>5, <1>7, <1>9 DEF Promise!Erase, statusBar, askedBar
  <1> QED
    BY <1>1, <1>8, <1>9

\* PruneMemory forgets jobs that are over.
LEMMA PruneForgets ==
  ASSUME MappedInv, NEW j \in Jobs, PruneMemory(j)
  PROVE  \E gone \in SUBSET jobs : Promise!Forget(gone)
  <1> DEFINE gone == (report[j] \union Forgotten({k \in jobs : Done(k)}, cutoff))
                         \intersect jobs
  <1>1. /\ pc[j] = "planned" /\ pc' = [pc EXCEPT ![j] = "exited"] /\ TypeOK
        /\ jobs' = jobs \ gone
        /\ UNCHANGED <<req, result, cancelRequested, saved, executed>>
    BY DEF PruneMemory, LeaveCleanup, MappedInv, IInv, jobVars, diskVars, envVars
  <1>2. \A k \in gone : k \in Jobs /\ ~Live(k)
    BY DEF MappedInv, IInv, TypeOK, KeepInv, CleanupSpares, ResultWhenDone,
           Live, Forgotten
  <1>3. \A k \in gone : ~Promise!Unfinished(k)
    BY <1>2 DEF Promise!Unfinished, StatusOf
  <1>4. /\ statusBar' = [statusBar EXCEPT ![j] = StatusOf(j)']
        /\ askedBar' = askedBar
    BY <1>1, StatusMoves DEF TypeOK, Admitted, Positions, Stopped
  <1>5. StatusOf(j)' = "freed" /\ statusBar[j] = "freed"
    BY <1>1 DEF TypeOK, statusBar, StatusOf, Admitted, Live, BeforeResult
  <1>6. statusBar' = statusBar
    BY <1>4, <1>5 DEF statusBar
  <1> HIDE DEF gone
  <1>7. Promise!Forget(gone)
    BY <1>1, <1>3, <1>4, <1>6 DEF Promise!Forget, statusBar, askedBar
  <1> QED
    BY <1>7 DEF gone

\* requestCancel cancels a job that is in memory and unfinished.
LEMMA CancelCancels ==
  ASSUME MappedInv, NEW j \in Jobs, RequestCancel(j)
  PROVE  Promise!Cancel(j)
  <1>1. /\ j \in jobs /\ result[j] = "none"
        /\ cancelRequested' = [cancelRequested EXCEPT ![j] = TRUE]
        /\ UNCHANGED <<pc, req, result, saved, jobs, executed>>
    BY DEF RequestCancel, lockVars, runVars, diskVars, envVars
  <1>2. Live(j)
    BY <1>1 DEF MappedInv, IInv, TypeOK, FreshAreNew, ResultWhenDone, RunTracked,
                Done, Live, Positions, NotStarted, BeforeResult, Stopped
  <1>3. Promise!Unfinished(j)
    BY <1>2 DEF Promise!Unfinished, StatusOf, Admitted, Live, BeforeResult
  <1>4. statusBar' = statusBar /\ askedBar' = askedBar
    BY <1>1 DEF statusBar, askedBar, StatusOf, Admitted, Live, Done
  <1> QED
    BY <1>1, <1>3, <1>4 DEF Promise!Cancel, statusBar, askedBar

\* A restart cuts what is unfinished, and its first Cleanup erases.
LEMMA RestartRestarts ==
  ASSUME MappedInv, Restart
  PROVE  \E erased \in SUBSET Promise!On(Host) : Promise!RestartHost(Host, erased)
  <1>1. TypeOK
    BY DEF MappedInv, IInv
  <1>2. Promise!On(Host) = Jobs
    BY DEF Promise!On
  <1>3. /\ jobs' = {}
        /\ pc' = [j \in Jobs |->
                     IF pc[j] \in {"none", "failed", "exited"} THEN pc[j]
                     ELSE IF pc[j] = "preparing" THEN "failed" ELSE "dead"]
        /\ UNCHANGED <<req, result, cancelRequested, executed>>
    BY DEF Restart, jobVars
  <1>4. PICK erased \in SUBSET Jobs :
            saved' = [j \in Jobs |-> IF j \in erased THEN "none" ELSE saved[j]]
    BY <1>1 DEF Restart, TypeOK, Doomed, TooOld, OverCount, OverBytes, LeftByCount
  <1>5. \A j \in Jobs :
            /\ Admitted(j)' = Admitted(j)
            /\ StatusOf(j)' = IF StatusOf(j) \in {"queued", "running"} THEN "cut"
                              ELSE IF StatusOf(j) = "done" THEN "freed"
                              ELSE StatusOf(j)
    <2> SUFFICES ASSUME NEW j \in Jobs
                 PROVE  /\ Admitted(j)' = Admitted(j)
                        /\ StatusOf(j)' = IF StatusOf(j) \in {"queued", "running"} THEN "cut"
                                          ELSE IF StatusOf(j) = "done" THEN "freed"
                                          ELSE StatusOf(j)
      OBVIOUS
    <2>1. /\ Live(j) => ~Done(j)
          /\ pc[j] \in {"done"} \union InCleanup => Done(j)
          /\ Done(j)' = Done(j)
      BY <1>3 DEF MappedInv, IInv, ResultWhenDone, Done, Live
    <2>2. /\ pc[j] \in Positions
          /\ pc'[j] = IF pc[j] \in {"none", "failed", "exited"} THEN pc[j]
                      ELSE IF pc[j] = "preparing" THEN "failed" ELSE "dead"
      BY <1>1, <1>3 DEF TypeOK
    <2> QED
      BY <1>3, <2>1, <2>2 DEF StatusOf, Admitted, Live, BeforeResult, NotStarted,
                              InCleanup, Stopped, Positions
  <1>6. statusBar' = [j \in Jobs |->
                         IF j \notin Promise!On(Host) THEN statusBar[j]
                         ELSE IF Promise!Unfinished(j) THEN "cut"
                         ELSE IF statusBar[j] = "done" THEN "freed"
                         ELSE statusBar[j]]
    BY <1>2, <1>5 DEF statusBar, Promise!Unfinished
  <1>7. askedBar' = askedBar
    BY <1>3, <1>5 DEF askedBar
  <1>8. jobs' = jobs \ Promise!On(Host)
    BY <1>1, <1>2, <1>3 DEF TypeOK
  <1>9. Promise!RestartHost(Host, erased)
    BY <1>3, <1>4, <1>6, <1>7, <1>8 DEF Promise!RestartHost, statusBar, askedBar
  <1> QED
    BY <1>2, <1>4, <1>9

\* Every step is a step of the Executor or none.
LEMMA NextImplements ==
  ASSUME MappedInv, [Next]_vars
  PROVE  [Promise!ExecutorNext]_(Promise!executorVars)
  <1> USE DEF Promise!ExecutorNext
  <1>1. CASE Internal
    BY <1>1, InternalStep
  <1>2. ASSUME NEW j \in Jobs, PreparePublish(j)
        PROVE  Promise!ExecutorNext
    <2>1. PICK r \in Requests : r = req[j]
      BY <1>2 DEF MappedInv, IInv, MuHeldByPreparing, PreparedHaveRequests, PreparePublish
    <2>2. Promise!Admit(j, r)
      BY <1>2, <2>1, PublishAdmits
    <2> QED
      BY <2>1, <2>2
  <1>3. ASSUME NEW j \in Jobs, StartHelper(j) \/ ReleaseJob(j) \/ RequestCancel(j)
        PROVE  Promise!ExecutorNext
    BY <1>3, StartStarts, ReleaseFrees, CancelCancels
  <1>4. \A j \in Jobs : pc[j] \in {"checked", "audited"}
            => res[j] \in Outcomes \union {"start_failed", "canceled"}
    BY DEF MappedInv, RunTracked, Returnable
  <1>5. ASSUME NEW j \in Jobs, SaveResult(j)
        PROVE  Promise!ExecutorNext \/ UNCHANGED Promise!executorVars
    BY <1>4, <1>5, SaveSaves DEF SaveResult
  <1>6. ASSUME NEW j \in Jobs, SetResult(j)
        PROVE  Promise!ExecutorNext
    BY <1>4, <1>6, SetFinishes DEF SetResult
  <1>7. ASSUME NEW j \in Jobs, RemoveDir(j) \/ RemoveDirFails(j)
        PROVE  Promise!ExecutorNext \/ UNCHANGED Promise!executorVars
    BY <1>7, RemoveErases, RemoveFailsErases
  <1>8. ASSUME NEW j \in Jobs, PruneMemory(j)
        PROVE  Promise!ExecutorNext
    BY <1>8, PruneForgets
  <1>9. CASE Restart
    BY <1>9, RestartRestarts
  <1> QED
    BY <1>1, <1>2, <1>3, <1>5, <1>6, <1>7, <1>8, <1>9
    DEF Internal, Next, Publish, RunJob, CleanupJobs

\* A context is open only as long as no cancel was accepted, in every reachable
\* state.
LEMMA CancelHolds == Spec => []CancelEndsContext
  <1>1. Init => CancelEndsContext
    BY DEF Init, CancelEndsContext
  <1> QED
    BY <1>1, CancelStep, TypeCorrect, PTL DEF Spec

\* Under limits that spare the unfinished jobs, the daemon is an Executor of one
\* host: whatever fails, is canceled or restarted, clients see no more than
\* admissions under slot, lock and key, one start, one result, and answers taken
\* away only of jobs that are over (job_lifecycle.go, runJob in server.go).
THEOREM Implements == SparingLimits => (Spec => ImplementsExecutor)
  <1> SUFFICES ASSUME SparingLimits
               PROVE  Spec => ImplementsExecutor
    OBVIOUS
  <1>1. Init => Promise!ExecutorInit
    BY DEF Init, Promise!ExecutorInit, StatusOf, Admitted, NoRequest, Promise!NoRequest
  <1>2. Spec => []KeepInv
    BY KeepHolds
  <1>3. MappedInv /\ [Next]_vars => [Promise!ExecutorNext]_(Promise!executorVars)
    BY NextImplements
  <1>4. Spec => []MappedInv
    BY <1>2, Invariance, RecordsHold, DirsHold, CancelHolds, RunHolds, PTL DEF MappedInv
  <1> QED
    BY <1>1, <1>3, <1>4, PTL DEF Spec, ImplementsExecutor, Promise!ExecutorSpec
=============================================================================
