---------------------------- MODULE JobLifecycle ----------------------------
(***************************************************************************)
(* The jobs of the aiops-execd daemon, from the request that prepares one  *)
(* to the pruning of its last trace: jobLifecycle (job_lifecycle.go), the  *)
(* runJob goroutines and the cancel handler (server.go), and the job       *)
(* directories they share (jobstore.go).                                   *)
(*                                                                         *)
(* Every job has its own goroutine, whose position is pc[j].  A step is    *)
(* what the code does under one acquisition of l.mu or of the job's mu, or *)
(* one effect on the disk.  A job is its creation rank, which is also the  *)
(* order of the started times that retention sorts by.                     *)
(***************************************************************************)
EXTENDS Retention, Sequences

CONSTANTS
    NumJobs,        \* bound: job IDs newJobID may hand out
    MaxRestarts,    \* bound: crashes or restarts of the daemon
    Cancelable,     \* bound: the jobs clients may cancel
    Deadlined,      \* bound: the jobs whose helper may meet its deadline
    Concurrency,    \* limits.Concurrency, the capacity of l.sem
    RetentionOn,    \* storage.RetentionDays > 0
    DirBytes,       \* abstraction: every job directory has this size
    StoreFails,     \* whether operations on the job store may fail
    Hashes, LockKeys,
    Tokens, IdempotencyKeys,    \* texts, see IndexKey
    Outcomes,       \* the states a helper may report for a command
    Requests,       \* the normalised requests clients send
    NoKey           \* the empty lock_key or idempotency_key

Jobs == 1..NumJobs

NoJob == 0

Final == {"succeeded", "failed", "timed_out", "start_failed", "canceled"}

ASSUME LifecycleAssumption ==
    /\ NumJobs \in Nat
    /\ MaxRestarts \in Nat
    /\ Cancelable \subseteq Jobs
    /\ Deadlined \subseteq Jobs
    /\ Concurrency \in Nat \ {0}
    /\ DirBytes \in Nat
    /\ RetentionOn \in BOOLEAN
    /\ StoreFails \in BOOLEAN
    /\ Outcomes \subseteq Final \ {"canceled"}
    /\ NoKey \notin LockKeys \union IdempotencyKeys
    /\ Tokens \union IdempotencyKeys \subseteq Seq(STRING) \ {<<>>}
    /\ Requests \subseteq
          [tokenID : Tokens, hash : Hashes, lockKey : LockKeys \union {NoKey},
           idempotencyKey : IdempotencyKeys \union {NoKey}]

VARIABLES
    \* jobLifecycle
    mu,             \* the job being prepared with l.mu held, or NoJob
    jobs,           \* l.jobs
    idempotency,    \* l.idempotency, by idempotencyIndexKey
    locks,          \* l.locks
    sem,            \* len(l.sem)
    \* the job structs: the request a job was made from, and the fields
    \* that change (ctx is the context its cancel function ends)
    req, state, result, cancelRequested, ctx,
    \* the locals of runJob, and of the Cleanup call it ends with
    pc, res, protected, doomed, report,
    \* storage
    dirs,           \* the job directories that exist
    saved,          \* result.json
    audit,          \* the job's audit entry
    \* environment
    next,           \* the next job ID
    cutoff,         \* jobs below it are older than RetentionDays
    restarts,
    executed        \* history: the jobs whose command was started

lockVars == <<mu, jobs, idempotency, locks, sem>>
jobVars  == <<req, state, result, cancelRequested, ctx>>
runVars  == <<pc, res, protected, doomed, report>>
diskVars == <<dirs, saved, audit>>
envVars  == <<next, cutoff, restarts, executed>>
vars     == <<lockVars, jobVars, runVars, diskVars, envVars>>

-----------------------------------------------------------------------------
\* Positions of a job's goroutine, in the order it passes them.

NotStarted == {"none", "preparing"}
BeforeResult == {"queued", "marked", "bound", "executing", "returned",
                 "checked", "saved", "audited"}
InCleanup == {"released", "snapshot", "planned"}
Stopped == {"exited", "failed", "dead"}
Positions == NotStarted \union BeforeResult \union {"done"}
                \union InCleanup \union Stopped

\* jobDone: j.done is closed by setResult.
Done(j) == result[j] # "none"

\* A published job of this daemon process that has no result yet.
Live(j) == pc[j] \in BeforeResult

HoldsSlot(j) == pc[j] \in {"preparing", "done"} \union BeforeResult

NoRequest == [tokenID |-> NoKey, hash |-> NoKey,
              lockKey |-> NoKey, idempotencyKey |-> NoKey]

\* idempotencyIndexKey joins token ID and key with a colon, and both may contain
\* colons.  A text is the sequence of its parts between colons, so that the
\* concatenation is the joined text: those of two pairs may be the same.
IndexKey(r) == r.tokenID \o r.idempotencyKey

IndexKeys == {t \o k : t \in Tokens, k \in IdempotencyKeys}

Init ==
    /\ mu = NoJob
    /\ jobs = {}
    /\ idempotency = [k \in IndexKeys |-> NoJob]
    /\ locks = [k \in LockKeys |-> NoJob]
    /\ sem = 0
    /\ req = [j \in Jobs |-> NoRequest]
    /\ state = [j \in Jobs |-> "none"]
    /\ result = [j \in Jobs |-> "none"]
    /\ cancelRequested = [j \in Jobs |-> FALSE]
    /\ ctx = [j \in Jobs |-> "unbound"]
    /\ pc = [j \in Jobs |-> "none"]
    /\ res = [j \in Jobs |-> "none"]
    /\ protected = [j \in Jobs |-> {}]
    /\ doomed = [j \in Jobs |-> {}]
    /\ report = [j \in Jobs |-> {}]
    /\ dirs = {}
    /\ saved = [j \in Jobs |-> "none"]
    /\ audit = [j \in Jobs |-> "none"]
    /\ next = 1
    /\ cutoff = 1
    /\ restarts = 0
    /\ executed = {}

-----------------------------------------------------------------------------
\* prepareJob, holding l.mu throughout.  A request is turned away or answered
\* with an existing job without a change of state, except that the lock of a
\* finished holder is dropped before the semaphore is found full.

\* The idempotency lookup finds nothing.
Unseen(r) == r.idempotencyKey # NoKey => idempotency[IndexKey(r)] = NoJob

\* Mutant: the holder counts as done once its state is final, as it is from the
\* cancel of a job that still runs.
LockFreeByState(r) == r.lockKey # NoKey =>
                         (locks[r.lockKey] # NoJob => state[locks[r.lockKey]] \in Final)

\* The lock is free or its holder is done.
LockFree(r) == r.lockKey # NoKey =>
                  (locks[r.lockKey] # NoJob => Done(locks[r.lockKey]))

WithoutLock(k) == IF k = NoKey THEN locks ELSE [locks EXCEPT ![k] = NoJob]

PrepareBusy(r) ==
    /\ mu = NoJob
    /\ Unseen(r)
    /\ LockFree(r)
    /\ sem = Concurrency
    /\ locks' = WithoutLock(r.lockKey)
    /\ UNCHANGED <<mu, jobs, idempotency, sem, jobVars, runVars, diskVars, envVars>>

\* Admission, and store.Create: the directory and its input.json.
PrepareCreate(r) ==
    /\ mu = NoJob
    /\ next \in Jobs
    /\ Unseen(r)
    /\ LockFree(r)
    /\ sem < Concurrency
    /\ locks' = WithoutLock(r.lockKey)
    /\ sem' = sem + 1
    /\ mu' = next
    /\ next' = next + 1
    /\ pc' = [pc EXCEPT ![next] = "preparing"]
    /\ req' = [req EXCEPT ![next] = r]
    /\ state' = [state EXCEPT ![next] = "queued"]
    /\ dirs' = dirs \union {next}
    /\ UNCHANGED <<jobs, idempotency, result, cancelRequested, ctx, res, protected,
                   doomed, report, saved, audit, cutoff, restarts, executed>>

\* Mutant: the error return of Create forgets releaseSlotLocked.
CreateFailsLeaksSlot(r) ==
    /\ StoreFails
    /\ mu = NoJob
    /\ next \in Jobs
    /\ Unseen(r)
    /\ LockFree(r)
    /\ sem < Concurrency
    /\ sem' = sem + 1
    /\ next' = next + 1
    /\ pc' = [pc EXCEPT ![next] = "failed"]
    /\ UNCHANGED <<mu, jobs, idempotency, locks, jobVars, res, protected, doomed,
                   report, diskVars, cutoff, restarts, executed>>

\* Create fails, before or after the directory is made; nothing removes it.
PrepareCreateFails(r) ==
    /\ StoreFails
    /\ mu = NoJob
    /\ next \in Jobs
    /\ Unseen(r)
    /\ LockFree(r)
    /\ sem < Concurrency
    /\ locks' = WithoutLock(r.lockKey)
    /\ next' = next + 1
    /\ pc' = [pc EXCEPT ![next] = "failed"]
    /\ dirs' \in {dirs, dirs \union {next}}
    /\ UNCHANGED <<mu, jobs, idempotency, sem, jobVars, res, protected, doomed,
                   report, saved, audit, cutoff, restarts, executed>>

\* SaveMetadata, the three maps, and the go statement of handleRun.
PreparePublish(j) ==
    /\ mu = j
    /\ j \in dirs
    /\ mu' = NoJob
    /\ jobs' = jobs \union {j}
    /\ locks' = IF req[j].lockKey = NoKey THEN locks
                 ELSE [locks EXCEPT ![req[j].lockKey] = j]
    /\ idempotency' = IF req[j].idempotencyKey = NoKey THEN idempotency
                       ELSE [idempotency EXCEPT ![IndexKey(req[j])] = j]
    /\ pc' = [pc EXCEPT ![j] = "queued"]
    /\ UNCHANGED <<sem, jobVars, res, protected, doomed, report, diskVars, envVars>>

\* Mutants: the error return of SaveMetadata frees the slot twice, or returns
\* with l.mu held.
PublishFailsFreesTwice(j) ==
    /\ mu = j
    /\ StoreFails
    /\ mu' = NoJob
    /\ sem' = sem - 2
    /\ pc' = [pc EXCEPT ![j] = "failed"]
    /\ UNCHANGED <<jobs, idempotency, locks, jobVars, res, protected, doomed,
                   report, diskVars, envVars>>

PublishFailsKeepsMutex(j) ==
    /\ mu = j
    /\ StoreFails
    /\ pc[j] = "preparing"
    /\ sem' = sem - 1
    /\ pc' = [pc EXCEPT ![j] = "failed"]
    /\ dirs' = dirs \ {j}
    /\ UNCHANGED <<mu, jobs, idempotency, locks, jobVars, res, protected, doomed,
                   report, saved, audit, envVars>>

\* SaveMetadata fails, or finds that a concurrent Cleanup took the directory.
\* The error of store.Remove is ignored.
PreparePublishFails(j) ==
    /\ mu = j
    /\ j \in dirs => StoreFails
    /\ mu' = NoJob
    /\ sem' = sem - 1
    /\ dirs' \in {dirs \ {j}} \union (IF StoreFails THEN {dirs} ELSE {})
    /\ pc' = [pc EXCEPT ![j] = "failed"]
    /\ UNCHANGED <<jobs, idempotency, locks, jobVars, res, protected, doomed,
                   report, saved, audit, envVars>>

-----------------------------------------------------------------------------
\* runJob

MarkRunning(j) ==
    /\ pc[j] = "queued"
    /\ state' = [state EXCEPT ![j] = IF cancelRequested[j] THEN "canceled"
                                                          ELSE "running"]
    /\ pc' = [pc EXCEPT ![j] = "marked"]
    /\ UNCHANGED <<lockVars, req, result, cancelRequested, ctx, res, protected,
                   doomed, report, diskVars, envVars>>

\* Mutant: setCancel stores the cancel function and looks at nothing.
SetCancelForgetsRequest(j) ==
    /\ pc[j] = "marked"
    /\ ctx' = [ctx EXCEPT ![j] = "open"]
    /\ pc' = [pc EXCEPT ![j] = "bound"]
    /\ UNCHANGED <<lockVars, req, state, result, cancelRequested, res, protected,
                   doomed, report, diskVars, envVars>>

\* helperContext and setCancel, which cancels at once if a cancel came first.
SetCancel(j) ==
    /\ pc[j] = "marked"
    /\ ctx' = [ctx EXCEPT ![j] = IF cancelRequested[j] THEN "ended" ELSE "open"]
    /\ pc' = [pc EXCEPT ![j] = "bound"]
    /\ UNCHANGED <<lockVars, req, state, result, cancelRequested, res, protected,
                   doomed, report, diskVars, envVars>>

\* runViaChild up to cmd.Start, which refuses a context that has ended.  From
\* that check on the command counts as started; a context that ends later kills
\* what cmd.Start launched (see Runner).
StartHelper(j) ==
    /\ pc[j] = "bound"
    /\ j \in dirs
    /\ ctx[j] = "open"
    /\ pc' = [pc EXCEPT ![j] = "executing"]
    /\ executed' = executed \union {j}
    /\ UNCHANGED <<lockVars, jobVars, res, protected, doomed, report, diskVars,
                   next, cutoff, restarts>>

\* OpenOutput finds no directory, the context has ended, or a pipe or the
\* helper cannot be made.
StartFails(j) ==
    /\ pc[j] = "bound"
    /\ res' = [res EXCEPT ![j] = "start_failed"]
    /\ pc' = [pc EXCEPT ![j] = "returned"]
    /\ UNCHANGED <<lockVars, jobVars, protected, doomed, report, diskVars, envVars>>

\* The rest of runViaChild.  A helper killed with its context reports nothing
\* and counts as failed; one that was quicker reports what it did.
HelperReturns(j) ==
    /\ pc[j] = "executing"
    /\ \E s \in Outcomes : res' = [res EXCEPT ![j] = s]
    /\ pc' = [pc EXCEPT ![j] = "returned"]
    /\ UNCHANGED <<lockVars, jobVars, protected, doomed, report, diskVars, envVars>>

\* The deadline of helperContext passes.
HelperDeadline(j) ==
    /\ j \in Deadlined
    /\ pc[j] \in {"bound", "executing"}
    /\ ctx[j] = "open"
    /\ ctx' = [ctx EXCEPT ![j] = "ended"]
    /\ UNCHANGED <<lockVars, req, state, result, cancelRequested, runVars, diskVars,
                   envVars>>

\* Mutant: the check asks whether the context has ended instead.
CheckContext(j) ==
    /\ pc[j] = "returned"
    /\ res' = [res EXCEPT ![j] = IF ctx[j] = "ended" THEN "canceled" ELSE @]
    /\ pc' = [pc EXCEPT ![j] = "checked"]
    /\ UNCHANGED <<lockVars, jobVars, protected, doomed, report, diskVars, envVars>>

\* The wasCancelRequested check.
CheckCancel(j) ==
    /\ pc[j] = "returned"
    /\ res' = [res EXCEPT ![j] = IF cancelRequested[j] THEN "canceled" ELSE @]
    /\ pc' = [pc EXCEPT ![j] = "checked"]
    /\ UNCHANGED <<lockVars, jobVars, protected, doomed, report, diskVars, envVars>>

\* An error is only logged.
SaveResult(j) ==
    /\ pc[j] = "checked"
    /\ \/ /\ j \in dirs
          /\ saved' = [saved EXCEPT ![j] = res[j]]
       \/ /\ StoreFails \/ j \notin dirs
          /\ UNCHANGED saved
    /\ pc' = [pc EXCEPT ![j] = "saved"]
    /\ UNCHANGED <<lockVars, jobVars, res, protected, doomed, report, dirs, audit,
                   envVars>>

WriteAudit(j) ==
    /\ pc[j] = "saved"
    /\ \/ audit' = [audit EXCEPT ![j] = res[j]]
       \/ StoreFails /\ UNCHANGED audit
    /\ pc' = [pc EXCEPT ![j] = "audited"]
    /\ UNCHANGED <<lockVars, jobVars, res, protected, doomed, report, dirs, saved,
                   envVars>>

\* Mutant: setResult looks at cancelRequested again.
SetResultRechecks(j) ==
    /\ pc[j] = "audited"
    /\ result' = [result EXCEPT ![j] = IF cancelRequested[j] THEN "canceled"
                                                            ELSE res[j]]
    /\ state' = [state EXCEPT ![j] = result'[j]]
    /\ pc' = [pc EXCEPT ![j] = "done"]
    /\ UNCHANGED <<lockVars, req, cancelRequested, ctx, res, protected, doomed,
                   report, diskVars, envVars>>

SetResult(j) ==
    /\ pc[j] = "audited"
    /\ IF result[j] # "none" THEN UNCHANGED <<result, state>>
       ELSE /\ result' = [result EXCEPT ![j] = res[j]]
            /\ state' = [state EXCEPT ![j] = res[j]]
    /\ pc' = [pc EXCEPT ![j] = "done"]
    /\ UNCHANGED <<lockVars, req, cancelRequested, ctx, res, protected, doomed,
                   report, diskVars, envVars>>

\* Mutants: the lock is deleted whoever holds it, or not at all.
ReleaseAnyLock(j) ==
    /\ pc[j] = "done"
    /\ mu = NoJob
    /\ locks' = WithoutLock(req[j].lockKey)
    /\ sem' = IF sem > 0 THEN sem - 1 ELSE sem
    /\ pc' = [pc EXCEPT ![j] = "released"]
    /\ UNCHANGED <<mu, jobs, idempotency, jobVars, res, protected, doomed, report,
                   diskVars, envVars>>

ReleaseSlotOnly(j) ==
    /\ pc[j] = "done"
    /\ mu = NoJob
    /\ sem' = IF sem > 0 THEN sem - 1 ELSE sem
    /\ pc' = [pc EXCEPT ![j] = "released"]
    /\ UNCHANGED <<mu, jobs, idempotency, locks, jobVars, res, protected, doomed,
                   report, diskVars, envVars>>

\* The deferred calls: cancel, then releaseJob, whose releaseSlotLocked only
\* reports an error when the semaphore is empty.
ReleaseJob(j) ==
    /\ pc[j] = "done"
    /\ mu = NoJob
    /\ ctx' = [ctx EXCEPT ![j] = "ended"]
    /\ res' = [res EXCEPT ![j] = "none"]
    /\ locks' = [k \in LockKeys |-> IF k = req[j].lockKey /\ locks[k] = j
                                      THEN NoJob ELSE locks[k]]
    /\ sem' = IF sem > 0 THEN sem - 1 ELSE sem
    /\ pc' = [pc EXCEPT ![j] = "released"]
    /\ UNCHANGED <<mu, jobs, idempotency, req, state, result, cancelRequested,
                   protected, doomed, report, diskVars, envVars>>

-----------------------------------------------------------------------------
\* cleanupJobs, which every runJob ends with; several may run at once, and only
\* ProtectedIDs and PruneMemory hold l.mu.
\* Mutant: the jobs that run are not protected.
ProtectNothing(j) ==
    /\ pc[j] = "released"
    /\ mu = NoJob
    /\ pc' = [pc EXCEPT ![j] = "snapshot"]
    /\ UNCHANGED <<lockVars, jobVars, res, protected, doomed, report, diskVars, envVars>>

ProtectedIDs(j) ==
    /\ pc[j] = "released"
    /\ mu = NoJob
    /\ protected' = [protected EXCEPT ![j] = {k \in jobs : ~Done(k)}]
    /\ pc' = [pc EXCEPT ![j] = "snapshot"]
    /\ UNCHANGED <<lockVars, jobVars, res, doomed, report, diskVars, envVars>>

DirSize == [j \in Jobs |-> DirBytes]

ListJobDirs(j) ==
    /\ pc[j] = "snapshot"
    /\ doomed' = [doomed EXCEPT ![j] = Doomed(dirs, protected[j], cutoff, DirSize)]
    /\ pc' = [pc EXCEPT ![j] = "planned"]
    /\ UNCHANGED <<lockVars, jobVars, res, protected, report, diskVars, envVars>>

\* One iteration of the loop of os.RemoveAll calls, in map order.
RemoveDir(j) ==
    /\ pc[j] = "planned"
    /\ \E k \in doomed[j] :
          /\ dirs' = dirs \ {k}
          /\ saved' = [saved EXCEPT ![k] = "none"]
          /\ doomed' = [doomed EXCEPT ![j] = @ \ {k}]
          /\ report' = [report EXCEPT ![j] = @ \union {k}]
    /\ UNCHANGED <<lockVars, jobVars, pc, res, protected, audit, envVars>>

LeaveCleanup(j) ==
    /\ pc' = [pc EXCEPT ![j] = "exited"]
    /\ protected' = [protected EXCEPT ![j] = {}]
    /\ doomed' = [doomed EXCEPT ![j] = {}]
    /\ report' = [report EXCEPT ![j] = {}]

\* RemoveAll fails, having removed some files of the directory or none.
RemoveDirFails(j) ==
    /\ StoreFails
    /\ pc[j] = "planned"
    /\ \E k \in doomed[j] : saved' \in {saved, [saved EXCEPT ![k] = "none"]}
    /\ LeaveCleanup(j)
    /\ UNCHANGED <<lockVars, jobVars, res, dirs, audit, envVars>>

\* listJobDirs fails, or a directory vanishes while it is being listed, or the
\* temporary file of metadata.json or result.json while its size is being added up.
ListJobDirsFails(j) ==
    /\ pc[j] = "snapshot"
    /\ StoreFails \/ \E k \in Jobs : doomed[k] # {} \/ pc[k] \in {"preparing", "checked"}
    /\ LeaveCleanup(j)
    /\ UNCHANGED <<lockVars, jobVars, res, diskVars, envVars>>

\* Mutant: pruneMemory leaves l.idempotency alone.
PruneJobsOnly(j) ==
    /\ pc[j] = "planned"
    /\ doomed[j] = {}
    /\ mu = NoJob
    /\ jobs' = jobs \ (report[j] \union Forgotten({k \in jobs : Done(k)}, cutoff))
    /\ LeaveCleanup(j)
    /\ UNCHANGED <<mu, idempotency, locks, sem, jobVars, res, diskVars, envVars>>

PruneMemory(j) ==
    /\ pc[j] = "planned"
    /\ doomed[j] = {}
    /\ mu = NoJob
    /\ LET gone == report[j] \union Forgotten({k \in jobs : Done(k)}, cutoff)
       IN  /\ jobs' = jobs \ gone
           /\ idempotency' = [k \in DOMAIN idempotency |->
                  IF idempotency[k] \in gone THEN NoJob ELSE idempotency[k]]
    /\ LeaveCleanup(j)
    /\ UNCHANGED <<mu, locks, sem, jobVars, res, diskVars, envVars>>

-----------------------------------------------------------------------------
\* Mutant: requestCancel does not ask whether there is a result.
CancelFinished(j) ==
    /\ j \in Cancelable
    /\ mu = NoJob
    /\ j \in jobs
    /\ cancelRequested' = [cancelRequested EXCEPT ![j] = TRUE]
    /\ state' = [state EXCEPT ![j] = "canceled"]
    /\ UNCHANGED <<lockVars, req, result, ctx, runVars, diskVars, envVars>>

\* handleCancel: getJob under l.mu, then requestCancel under the job's mu.
RequestCancel(j) ==
    /\ j \in Cancelable
    /\ mu = NoJob
    /\ j \in jobs
    /\ result[j] = "none"
    /\ cancelRequested' = [cancelRequested EXCEPT ![j] = TRUE]
    /\ state' = [state EXCEPT ![j] = "canceled"]
    /\ ctx' = [ctx EXCEPT ![j] = IF @ = "open" THEN "ended" ELSE @]
    /\ UNCHANGED <<lockVars, req, result, runVars, diskVars, envVars>>

\* Time: the oldest job still within RetentionDays leaves it.  A Cleanup call
\* takes less than RetentionDays, so no job made since it began expires in it.
DayPasses ==
    /\ RetentionOn
    /\ cutoff < next
    /\ \A j \in Jobs : pc[j] \in InCleanup => cutoff <= j
    /\ cutoff' = cutoff + 1
    /\ UNCHANGED <<lockVars, jobVars, runVars, diskVars, next, restarts, executed>>

\* The daemon dies anywhere and is started again: memory is gone, storage stays,
\* and NewServer runs Cleanup with nothing protected before it serves; an error
\* there is logged and may leave any part of the plan undone.
Restart ==
    /\ restarts < MaxRestarts
    /\ restarts' = restarts + 1
    /\ mu' = NoJob
    /\ jobs' = {}
    /\ idempotency' = [k \in DOMAIN idempotency |-> NoJob]
    /\ locks' = [k \in LockKeys |-> NoJob]
    /\ sem' = 0
    /\ pc' = [j \in Jobs |-> IF pc[j] \in {"none", "failed", "exited"} THEN pc[j]
                             ELSE IF pc[j] = "preparing" THEN "failed" ELSE "dead"]
    /\ protected' = [j \in Jobs |-> {}]
    /\ doomed' = [j \in Jobs |-> {}]
    /\ report' = [j \in Jobs |-> {}]
    /\ LET plan == Doomed(dirs, {}, cutoff, DirSize)
       IN  \E removed \in IF StoreFails THEN SUBSET plan ELSE {plan} :
              /\ dirs' = dirs \ removed
              /\ saved' = [j \in Jobs |-> IF j \in removed THEN "none"
                                          ELSE saved[j]]
    /\ UNCHANGED <<jobVars, res, audit, next, cutoff, executed>>

-----------------------------------------------------------------------------
Prepare(r) == PrepareBusy(r) \/ PrepareCreate(r) \/ PrepareCreateFails(r)

Publish(j) == PreparePublish(j) \/ PreparePublishFails(j)

RunJob(j) ==
    \/ MarkRunning(j) \/ SetCancel(j) \/ StartHelper(j) \/ StartFails(j)
    \/ HelperReturns(j) \/ CheckCancel(j) \/ SaveResult(j) \/ WriteAudit(j)
    \/ SetResult(j) \/ ReleaseJob(j)

CleanupJobs(j) ==
    \/ ProtectedIDs(j) \/ ListJobDirs(j) \/ ListJobDirsFails(j)
    \/ RemoveDir(j) \/ RemoveDirFails(j) \/ PruneMemory(j)

Next ==
    \/ \E r \in Requests : Prepare(r)
    \/ \E j \in Jobs : \/ Publish(j) \/ RunJob(j) \/ CleanupJobs(j)
                       \/ HelperDeadline(j) \/ RequestCancel(j)
    \/ DayPasses
    \/ Restart

Spec == Init /\ [][Next]_vars

\* The Go scheduler runs every goroutine that can go on, l.mu is only held
\* across Publish, and the helper returns (HelperReturns; see the README for
\* what that takes).  Requests, cancels, deadlines and restarts need not come.
Fairness == \A j \in Jobs : WF_vars(Publish(j)) /\ WF_vars(RunJob(j))
                                /\ WF_vars(CleanupJobs(j))

FairSpec == Spec /\ Fairness

-----------------------------------------------------------------------------
\* The shape of the state.
TypeOK ==
    /\ mu \in Jobs \union {NoJob}
    /\ jobs \subseteq Jobs
    /\ idempotency \in [IndexKeys -> Jobs \union {NoJob}]
    /\ locks \in [LockKeys -> Jobs \union {NoJob}]
    /\ sem \in 0..Concurrency
    /\ req \in [Jobs -> Requests \union {NoRequest}]
    /\ state \in [Jobs -> Final \union {"none", "queued", "running"}]
    /\ result \in [Jobs -> Final \union {"none"}]
    /\ cancelRequested \in [Jobs -> BOOLEAN]
    /\ ctx \in [Jobs -> {"unbound", "open", "ended"}]
    /\ pc \in [Jobs -> Positions]
    /\ res \in [Jobs -> Final \union {"none"}]
    /\ protected \in [Jobs -> SUBSET Jobs]
    /\ doomed \in [Jobs -> SUBSET Jobs]
    /\ report \in [Jobs -> SUBSET Jobs]
    /\ dirs \subseteq Jobs
    /\ saved \in [Jobs -> Final \union {"none"}]
    /\ audit \in [Jobs -> Final \union {"none"}]
    /\ next \in 1..NumJobs + 1
    /\ cutoff \in 1..NumJobs + 1
    /\ restarts \in 0..MaxRestarts
    /\ executed \subseteq Jobs

\* A lock_key is held by at most one unfinished job of this process, although
\* a finished holder's lock may be taken over before the holder's goroutine
\* releases it (prepareJob 138-145, releaseJob 205) and although Cleanup may
\* forget a job that still runs.
LockExclusion ==
    \A j, k \in Jobs :
        /\ Live(j) /\ Live(k)
        /\ req[j].lockKey = req[k].lockKey
        /\ req[j].lockKey # NoKey
        => j = k

\* len(l.sem) is the number of goroutines that have not given their slot back:
\* no slot is lost on an error path of prepareJob or freed twice, so
\* releaseSlotLocked never finds the semaphore empty.
SlotsMatchRunners ==
    sem = Cardinality({j \in Jobs : HoldsSlot(j)})

\* l.idempotency and l.jobs agree: a job in memory that was made with an
\* idempotency key is the one its index key finds, and an index key finds a job
\* in memory made with it, also where the token and key of two clients join to
\* the same text and share the entry (prepareJob 129-137, pruneMemory 311-318).
IdempotencyIndexed ==
    /\ \A j \in jobs : req[j].idempotencyKey # NoKey
                          => idempotency[IndexKey(req[j])] = j
    /\ \A k \in IndexKeys :
          idempotency[k] # NoJob => /\ idempotency[k] \in jobs
                                    /\ IndexKey(req[idempotency[k]]) = k

\* What is known of a finished job is the same everywhere it is recorded: in
\* memory, in result.json and in the audit log (runJob 175-181).
RecordsAgree ==
    \A j \in Jobs :
        /\ Done(j) => /\ state[j] = result[j]
                      /\ audit[j] \in {"none", result[j]}
                      /\ saved[j] \in {"none", result[j]}
        /\ saved[j] # "none" /\ audit[j] # "none" => saved[j] = audit[j]

\* A job is reported canceled only if a client canceled it: neither its own
\* timeout nor the helper's deadline, which end the same context, counts.
CanceledOnRequest ==
    \A j \in Jobs :
        "canceled" \in {state[j], result[j], saved[j], audit[j]}
            => cancelRequested[j]

\* Cleanup never takes the directory of an unfinished job and pruneMemory never
\* forgets one (protectedIDs, taken before the directories are listed).
LiveJobsKept == \A j \in Jobs : Live(j) => j \in jobs /\ j \in dirs

\* A client may repeat a request under its idempotency key: the commands of one
\* token that carry one key are started at most once.
RetrySafe ==
    \A j, k \in executed :
        /\ req[j].idempotencyKey # NoKey
        /\ req[j].idempotencyKey = req[k].idempotencyKey
        /\ req[j].tokenID = req[k].tokenID
        => j = k

\* Once the cancel request of a job was answered "canceled", it stays canceled.
CanceledStays ==
    [][\A j \in Jobs : state[j] = "canceled" => state'[j] = "canceled"]_vars

\* A command does not start once a cancel was accepted, although the cancel may
\* come before, between or after markRunning and setCancel (runJob 164-168).
NoStartAfterCancel ==
    [][\A j \in Jobs : j \in executed' \ executed => ~cancelRequested[j]]_vars

\* What GET /v1/jobs/{id} answers (handleJob 209-219): memory first, then
\* result.json, else not found.
View(j) == IF j \in jobs THEN [state |-> state[j], result |-> result[j]]
           ELSE IF saved[j] # "none"
                THEN [state |-> saved[j], result |-> saved[j]]
                ELSE [state |-> "not_found", result |-> "none"]

\* A result, once a client could read it, is never replaced by another or
\* taken back to an unfinished state; and a job that is gone stays gone.  The
\* answer may move from memory to disk, or disappear.
ViewIsStable ==
    [][\A j \in Jobs :
          /\ View(j).result # "none"
                => View(j)' = View(j) \/ View(j).state' = "not_found"
          /\ View(j).state = "not_found" /\ j < next
             /\ mu # j /\ pc[j] # "dead"
                => View(j).state' = "not_found"]_vars

\* Every job that is published gets a result and its goroutine ends, unless
\* the daemon stops first.
EveryJobEnds ==
    \A j \in Jobs : pc[j] = "queued" ~> pc[j] \in {"exited", "dead"}

\* An executor that is full, or a lock that is held, does not stay so.
SlotsReturn == (sem = Concurrency) ~> (sem < Concurrency)
LocksReturn == \A j \in Jobs, k \in LockKeys : (locks[k] = j) ~> (locks[k] # j)
=============================================================================
