# Specifications of vpsops

TLA+ modules for `aiops-execd`, the remote execution daemon of this repository,
for the `fleet-plan` command of its CLI and for its rollout script, with the TLC
runs that check them on small instances and TLAPS proofs of what matters most
for every instance. All paths below are relative to `src/`.

## The system

| Component | Source | State | Operations |
|---|---|---|---|
| Job lifecycle | `internal/execd/job_lifecycle.go` | `jobs`, `idempotency`, `locks`, semaphore `sem`, one mutex; per job: state, result, cancel function, cancel flag | `prepareJob`, `markRunning`, `setCancel`, `requestCancel`, `setResult`, `releaseJob`, `cleanupJobs` |
| HTTP server and job goroutine | `internal/execd/server.go` | none of its own | `handleRun`, `runJob`, `handleJob`, `handleCancel`, `handleOutput`, authentication |
| Job store | `internal/execd/jobstore.go` | one directory per job with `input.json`, `metadata.json`, `result.json`, two logs | `Create`, `SaveMetadata`, `SaveResult`, `Remove`, `Cleanup` |
| Runner | `internal/execd/runner.go` | one launched `sudo`, a context, a result pipe | `runViaChild` |
| Helper child | `internal/execd/child.go` | one payload in its own process group | `ChildMain`, `runPayload` |
| Output capping | `internal/execd/capped.go` | bytes left, truncated flag | `Write` |
| Authentication limiter | `internal/execd/auth_limiter.go` | failure times per peer | record a failure, record a success |
| Request validation | `internal/execd/validation.go` | none | `normalizeRequest` |
| Configuration | `internal/execd/config.go` | none after start | `DefaultConfig`, `Validate` |
| Audit, events, doctor | `internal/execd/*.go` | none, or append-only files | I/O, checks that only read |
| Operator CLI | `bin/aiops` | one invocation: loop positions, retries, the job it waits for | `execute_remote`, `poll_job`, `fleet-plan`, `fleet` |
| Deployment | `scripts/deploy-release.sh` | four files, their backups and a unit on every host; the operator's loop | upgrade, rollback, verification |

How they interact: `handleRun` calls `prepareJob` under `l.mu` and starts one
`runJob` goroutine. That goroutine, the handlers of other requests and the
`runJob` goroutines of other jobs share the job struct (its own mutex), the
three maps (`l.mu`), the semaphore and the job directories (no lock at all).
`runJob` calls `runViaChild`, which launches `sudo`, which runs the helper,
which runs the payload; they talk through stdin, two output pipes and a result
pipe on descriptor 3. The CLI talks to the daemons of several hosts by HTTP, one
call after the other; the rollout script is a loop of such calls, and the upgrade
it starts replaces the daemon through which it was started. When a job ends its
goroutine also cleans up, for the whole store, so cleanups of several jobs run at
the same time.

What is hard about it: a cancel may fall between any two steps of `runJob`; the
lock of a finished job is handed to the next one before its owner releases it;
cleanup uses a set of protected jobs taken before it lists directories; every
operation on disk may fail with the slot already taken; the daemon may die at
any point and forgets everything in memory; the helper may be killed without
its payload; and any process that inherits descriptor 3 keeps the job open. Output passes two
processes that each cap it and each set a flag, beside a `cmd.Wait` that closes
its pipes. A client may lose any request or answer and must decide what may be
sent again; a rollout may fail at every command of every host, and rolls back
files that are in use.

What makes each part correct: one unfinished job per `lock_key`; as many slots
taken as goroutines hold one; one record of a job's outcome everywhere; a cancel
that was accepted in time prevents the command; unfinished jobs survive cleanup;
an answered result stays; jobs end and give back what they hold; retention
deletes the oldest and no more than needed; the reported state is what happened
to the payload, and its output is complete or said to be truncated. For a client:
a command starts at most once, and no step of a plan starts before the steps in
front of it succeeded. For a rollout: each host has all of the old files or all of
the new ones, no host is touched before the ones in front of it passed, and each
stays reachable.

## Modules

| Module | Models | Checked by |
|---|---|---|
| `Executor` | what clients may rely on: admission, one start, one result, per host | `JobRefinement`, `FleetPlan` |
| `Retention` | which directories `Cleanup` deletes and which jobs `pruneMemory` forgets, as sets | through `JobLifecycle` and `CleanupPlan` |
| `JobLifecycle` | job lifecycle, `runJob`, cancel, job directories, restarts | `MCJobLifecycle` with six configurations |
| `JobRefinement` | the mapping under which `JobLifecycle` implements `Executor` | `job_faults` |
| `JobLifecycleProofs` | the inductive invariants of the daemon and their theorems | TLAPS |
| `JobRefinementProofs` | the refinement, step by step | TLAPS |
| `CleanupPlan` | the loops of `Cleanup`, step by step | `CleanupPlan.cfg` |
| `CleanupPlanProofs` | that they compute the sets of `Retention`, and what those promise | TLAPS |
| `AuthLimiter` | failed authentications per peer | `AuthLimiter.cfg` |
| `AuthLimiterProofs` | its inductive invariant and theorems | TLAPS |
| `Requests` | `normalizeRequest` under a configuration that `Validate` lets pass | through `Output` |
| `RequestsProofs` | its theorems, for every configuration and request | TLAPS |
| `ChildRun` | the helper and its payload | through `Runner` |
| `Runner` | `runViaChild`, `sudo`, the result pipe, composed with `ChildRun` | through `Output` |
| `Output` | the standard output through both copies, both caps and the log, composed with `Runner` and `Requests` | `MCOutput` (`Runner.cfg`) |
| `OutputProofs` | the inductive invariants of an execution and of its output, and their theorems | TLAPS |
| `FleetPlan` | invocations of `aiops fleet-plan` against several daemons, composed with `Executor` | `MCFleetPlan` |
| `FleetPlanProofs` | its inductive invariant and theorems, for any number of invocations and hosts | TLAPS |
| `Rollout` | `deploy-release.sh` over several hosts, with the upgrade script of each | `Rollout.cfg` |
| `RolloutProofs` | its inductive invariant and theorems, for any number of hosts | TLAPS |

Definitions whose comment begins with "Mutant" are plausible bugs: replacing the
definition that follows by one of them makes a property fail. No specification
uses them.

### JobLifecycle

A job is its creation rank, which is also the order of the `started` times. The
variables are the fields of `jobLifecycle` and of the job structs, the position
`pc` and locals of each goroutine, the directories, `result.json` and audit
entries, and history variables. One action is what the code does under one
acquisition of a mutex, or one effect on the disk:

| Action | Code |
|---|---|
| `PrepareBusy`, `PrepareCreate`, `PrepareCreateFails` | `prepareJob` to the end of `Create`; `mu` is then held by the job |
| `PreparePublish`, `PreparePublishFails` | `SaveMetadata`, the maps, the `go` statement |
| `MarkRunning`, `SetCancel`, `StartHelper`, `StartFails`, `HelperReturns`, `CheckCancel`, `SaveResult`, `WriteAudit`, `SetResult`, `ReleaseJob` | the statements of `runJob` in order |
| `ProtectedIDs`, `ListJobDirs`, `RemoveDir`, `PruneMemory` and the two failures | `cleanupJobs` |
| `RequestCancel` | `handleCancel` |
| `HelperDeadline`, `DayPasses` | time: the helper context, `retention_days` |
| `Restart` | a crash or stop anywhere, and `NewServer` with its first cleanup; systemd ends the daemon's processes with it |

A request that is answered without a change of state (a reused job, a conflict,
`job_locked`) is a stutter. `prepareJob` is two actions because cleanups touch
the directories without `l.mu`. A directory has one size (`DirBytes`); sizes that
differ are in `CleanupPlan`. Directories are listed in one step, except that the
listing may fail while another cleanup deletes or another job's temporary file is
renamed (`ListJobDirsFails`). A directory keeps its rank for as long as it exists:
in the code, one whose removal failed halfway may have lost its `metadata.json`,
after which its age is that of its last change. Jobs get IDs in increasing order and
a failed one keeps its own.

Token IDs and idempotency keys are sequences, and `IndexKey` joins them as
`idempotencyIndexKey` does: the code puts a colon between them, which both may
contain, so that two clients with different keys may come to one entry of the
index. `MCJobLifecycle` has such a pair (`ops` with `ci:nightly`, `ops:ci` with
`nightly`). The index then has one job for both, and `IdempotencyIndexed` and
`RetrySafe` say no more than that: one unfinished job for each index key, and one
start for each token and key.

### Executor and JobRefinement

`Executor` has no maps, mutexes, goroutines or files: a job is admitted if a slot
is free, no unfinished job of its host has its `lock_key` and no remembered one
its idempotency key; it starts at most once and not after a cancel; it is saved
and finished with one and the same result out of those it may have
(`Reportable`); only jobs that are over are erased or forgotten; a restart cuts
off the unfinished ones and forgets all. `JobRefinement` maps `JobLifecycle` to it
for one host (`StatusOf` makes the status of a job from the position of its
goroutine) and TLC checks every step of `job_faults` against it
(`ImplementsExecutor`). `job_faults` has no count or byte limit, because under
those an unfinished job may be erased, which is the finding `job_live_pruned` and
not a step of an `Executor`.

### CleanupPlan and Retention

`CleanupPlan` is the age loop, the count loop (newest first), the byte loop
(oldest first) and the deletion loop, one step per iteration, over any listing,
sizes, protected set and cutoff. `PlanIsDoomed` says that they compute the set
`Doomed` of `Retention`, which is what `JobLifecycle` uses in one step; it is proved
for every number of directories, so that the one step stands for the loops.

Directories are created at different times (the code sorts by time, so ties would
be broken arbitrarily).

### AuthLimiter

One step is one request of a peer with a wrong token (`Fail`) or a valid one
(`Succeed`); both run under the limiter's mutex. A failure is its number in the
order of arrival, which makes the code's slice of times a set of numbers and the
cut to the last limit+1 records the removal of the smallest. The limiter exists
only for a positive limit and window, which is the assumption on the constants.
The history variable `failed` keeps everything since the last success, so that
`ThrottleExact` can compare the answer with what it should be.

### ChildRun and Runner

The payload is a leader and at most one process it forks; each may ignore
SIGTERM and give up descriptor 3, and the forked one may be out of reach of the
helper's signals, because it left the group or changed its user (`signaled`): the
error of `kill` is dropped. A child
has descriptor 3 only if its parent still has it. What `os.Process.Kill` reaches
depends on the installation: `sudo` runs as another user, so the kill may reach
nothing, `sudo` alone, or (when `sudo` has replaced itself by the helper) the
helper; `KillReaches` names the cases. As `deploy/` installs it, the daemon is
`aiopsd`, `sudo` is root's and the helper `aiops-run`'s or root's, so that the kill
reaches nothing and a cancel leaves the command to its timeout; the other cases are
installations where the daemon may signal what it launched. A helper whose daemon stopped reading dies
of SIGPIPE at its next write (`HelperLosesPipe`). `WaitDelay` shows as an
exit status 0 that is reported as failed (`Outcomes`). A payload that writes to
descriptor 3 itself is not modelled.

### Output

The bytes of standard output are counted, not named: each stage has a prefix of
what the stage before it had. `TeeForwards` and `TeeCuts` are the two outcomes of
`cappedTeeWriter.Write`, `DaemonCopies` is one round of `io.Copy` through the
multi-writer of file and `cappedBuffer`, with any part of what the pipe holds, and
`DaemonCopyFails` one whose write of the file fails after any part of it was stored,
so that the buffer gets nothing. `HelperWaits` and `DaemonWaits` are the two `cmd.Wait` that close a
pipe with what is still in it, `HelperReports` waits for the copies. The steps of
`Runner` are conjoined with their effect on the pipes, so that no step of it is
left free. Standard error is treated the same way and its bytes are left out. The
limits are those of a request that `Requests` normalized.

### Requests

`normalizeRequest` and the helpers it calls as operators on records. Texts are
reduced to what is asked of them: empty, given, too long, a name of a set. Zero is
"not given", as in the code. `Validate` is the part of `Config.Validate` that
concerns a request, and the assumption on the limits is that it passed; the code
asks it of the timeout and of `wait_sec` and not of the limits of either output nor
of the kill grace, which is what `BareAccepted` makes precise. `Resolve` is
`EvalSymlinks`.

### FleetPlan

One process per invocation: `host` and `step` are the positions of the loops of
`command_fleet_plan`, `mode` says where its `execute_remote` is, `attempt` counts
its busy retries.

| Actions | Code |
|---|---|
| `SendAdmitted`, `SendReused`, `SendConflicts`, `SendLockBusy`, `SendBusy` | the POST and the five answers of `prepareJob`; `executor_busy` alone is tried again |
| `AnswerResult`, `AnswerAccepted` | the result, or 202 after `wait_sec` |
| `PollEnds`, `PollNotFound` | `poll_job` |
| `ConnectionReset`, `Lose` | a daemon that is gone; a lost request or answer, or the deadline of `poll_job` |
| `StepEnds`, `Abort` | the loops of `command_fleet_plan`: the next step, or the end of the invocation |
| `Daemon`, `CancelJob`, `Restart` | steps of `Executor`, where results are always saved and nothing is erased |

A check or an apply are alike here: the phases are an order of the steps. All
steps of an invocation share its idempotency key, as in the code.

### Rollout

Per host: the installed daemon and helpers (`file`), the hashes in sudoers, the
backup, the position of the upgrade script in its unit (`unit`) and the daemon
process (`running`). `Fetch`, `Backup`, `Install` (three times), `WriteSudoers`,
`Doctor`, `Restart` and `IsActive` are the commands of the script in order, `Fail`
is the failure of any of them after the backup, with what it may leave behind, and
`RestoreFile` (three times), `RestoreSudoers` and `RestoreRestart` are `rollback`.
The rollback runs under `set +e`, and every command of it may fail: `RestoreFile`
leaves a file as it is (`cp` cannot write a file that is being executed, and the
daemon executes its own for certain unless it was replaced) or cut short (a full
disk), `RestoreSudoers` likewise, and `systemctl restart` fails before or after it
has stopped the daemon. `stuck` remembers what was not restored. `Serving` is what the operator needs: a daemon that runs and a
root helper that sudoers admits. The operator's loop is `StartDeploy`, then
`VerifyHash` and `VerifyDoctor` at any later time (the script sleeps for 15 seconds,
whatever the unit does); `batch` is the host where the verification's job may still
run. `Respawn` is `Restart=always`, and a flawed daemon may exit as often as it likes
(`DaemonExits`): with `RestartSec=2s`, systemd's limit on the rate of starts is not
reached. The script itself is not killed, and the `rm -rf` of its temporary directory,
which its trap runs before the rollback, is assumed to succeed. `VerifyHash` takes the
hash of the installed daemon; the script takes the first line of the output that names
the file, which may be the one its own log ends with, and is the same within one
upgrade.

## Runs

| Run | Bounds | Question |
|---|---|---|
| `job_faults` | 2 jobs, 2 slots, 1 restart, every job may be canceled and meet its deadline, store errors, age-based retention | slots, records, cancels, protection and answers under all faults; every step is one of `Executor` |
| `job_retention` | 3 jobs, 2 slots, `MaxJobsRetained` 1 | locks and idempotency while cleanups run concurrently |
| `job_sequential` | 2 jobs, 1 slot, count 1, bytes 2, store errors, fairness | nothing unfinished is deleted; everything ends and comes back |
| `job_late_cancel` | 1 job, canceled | violated: see Findings |
| `job_live_pruned` | 3 jobs, 2 slots, `MaxJobsRetained` 1 | violated |
| `job_retry` | 2 jobs, 1 restart | violated |
| `cleanup_plan` | 4 directories of size 0 to 2, count 2, bytes 3 | retention algorithm |
| `auth_limiter` | 2 peers, 6 failures, limit 2, window 2, clock to 4 | the limiter forgets nothing that counts |
| `runner` | leader and one more process, all manners, all reaches; pipes of 2 bytes, up to 3 bytes written, 9 requests with limits of 0 to 3, a disk that may fill | one execution and its output |
| `fleet_plan` | 2 invocations with and without a common idempotency key, 2 hosts with 1 slot, 2 steps, 6 jobs, 1 busy retry, 1 restart, 1 cancel | commands start once and in order, what is reported done was done, invocations end |
| `rollout` | 2 hosts, on the first any command of the rollback may fail, any number of exits of the new daemon | all or nothing per host, hosts in order, hosts stay reachable |

Why the bounds suffice to be interesting: two jobs are enough for a contended
lock or key, for one job's cleanup to meet the other job, and for a handed-over
lock (the second job is admitted while the first is between `SetResult` and
`ReleaseJob`); a third is what it takes for a directory to be over
`MaxJobsRetained` 1 while two goroutines clean up. The requests of
`MCJobLifecycle` share a lock, share a key name under two tokens, have different keys
with one index key, or share nothing. `Outcomes = {"succeeded"}` suffices there, because the lifecycle treats
all reported states alike and only `canceled` and `start_failed`, which arise by
other actions, differ.

`runner` writes up to 3 bytes because the largest log limit a request may have
there is 2: output may fit, fill the limit or exceed it. The requests leave each
limit out, give it, or give a value that is refused, so that the log's limit equals
the answer's or exceeds it. A pipe of 2 bytes becomes full, which is what blocks a
copy, and holds a chunk that crosses the answer's limit, or of which a failing write
stores a part.

`fleet_plan` has these bounds: `Connected`, the invocations that lose nothing
(`o1`, which goes to both hosts; `o2` may lose any request or answer at any time);
`Cancelable`, the jobs somebody may cancel (the first of the first host); `Struck`,
the jobs during which their daemon may restart; `MaxRestarts`; `BusyRetries` 1, so
that a retry is both used and used up. Four jobs on the first host and two on the
second let both invocations take every step; a fault of each kind meets one job,
which is what differs for the other. In `rollout`, `FaultyHosts` is
the first of the two: what its rollback leaves is any mixture of old, new and cut
files, and the second host, where only the daemon that runs keeps its file from being
restored, is reached or not in each of them. With both in it there are more states
than a run has time for; the theorems hold for any `FaultyHosts`. A third host adds nothing to the loop: it relates
one host to those in front of it and to the one behind.

All runs have `CHECK_DEADLOCK FALSE`: clients may stop sending requests and job IDs
are bounded, so a state without a successor is the idle daemon, or an invocation, a
rollout or an execution that is over; that nothing is stuck before is what the
liveness properties say.

### Fairness

`JobLifecycle` assumes weak fairness of each goroutine: of `Publish`, which ends
a critical section, of `RunJob`, and of `CleanupJobs`. The Go scheduler runs
every goroutine that can go on and file operations return. `HelperReturns` is
in `RunJob`, so the helper is assumed to return; that is what
`ReturnsUnlessHeld` establishes in `Output` as long as no background process
keeps descriptor 3 and the log can be written. No request, cancel, deadline, day or restart is fair, nor is
`HelperDeadline`. `Output` assumes weak fairness of the daemon, of `sudo`, of the
helper, whose timers (timeout and grace period) fire, and of the two copies, which are
goroutines; nothing the payload does is fair.

`FleetPlan` assumes weak fairness of each invocation, whose calls are answered or
reset, and of each job, which goes on to its end (`EveryJobEnds`). Losses, cancels
and restarts are not fair. Waiting and polling need no strong fairness: a job that
is over stays over. `Rollout` assumes weak fairness of each host's upgrade script,
which `systemd-run` has started, and of `Restart=always`. The operator's loop is
not fair: he may stop it. `StaysReachable` is "again and again" and not "from some
time on", because a flawed daemon may exit and be started without end.

## Findings

- `job_late_cancel`: `runJob` looks at `cancelRequested` once
  (`server.go:170`); a cancel accepted later, while `result.json` or the audit
  line is written, is answered with state `canceled` and the job ends as
  `succeeded`. `README.md:204` says that the daemon marks the job as canceled.
- `job_live_pruned`: the protected set (`job_lifecycle.go:256`) is older than the
  directory listing. A job prepared in between, with `max_jobs_retained` newer
  ones behind it, is deleted and forgotten while unfinished. With the default
  limits this takes a very slow cleanup; with small limits it does not.
- `job_retry`: the idempotency index is not rebuilt from `metadata.json`, so
  "retry-safe" (`README.md:208`) ends at a restart.

## What the passing properties except

Some properties hold with an exception, and the exception is a fact about the
code that a reader should know:

- `OutputAccounted`: output is lost, with no flag set, when `cmd.Wait` closes a pipe
  that has not been read to its end (`child.go:100`, `runner.go:95`), and when
  `stdout.log` cannot be written.
- `FlagsAreTrue` excepts such a failed write too: what it stored of its chunk is in the
  log and not in the answer, and `stdout_truncated` does not say so.
- `TimeoutOutlivesCancel` excepts a helper that was killed, which no documented
  installation lets the daemon do.
- `IdempotencyIndexed` is about index keys. Two clients may have one, and share a job.
- `ReturnsUnlessHeld`: after such a failed write nobody reads the helper's pipe, and
  a helper that still has output waits there, past the payload's timeout, until
  the deadline of `helperContext`.
- `HostOkIsTrue` says little of a plan of several steps with `--idempotency-key`,
  because such a plan never completes: all steps have the one key, and the second
  step on a host is an `idempotency_conflict`.
- `AllOrNothing` and `StaysReachable` except what the rollback failed to restore; they
  say that one failure does not spread to the other files. One failure is
  certain: the rollback copies into the installed files (`deploy-release.sh:133`), and
  a file that is being executed cannot be written, which the daemon's is whenever the
  new daemon runs, so that a rollback after the restart leaves the new daemon;
  `docs/deployment.md`, "Rollback Behavior", says that the previous binaries are
  restored. If it happens to the root helper, or to the sudoers file alone, the two do
  not match and the host cannot be reached any more through its daemon.
- `LaterHostsUntouched` speaks of hosts that passed their verification, and that may
  come before the upgrade is done, and pass on the old release; the helpers' hashes
  are not compared between hosts, although `docs/testing.md` lists "Installed
  daemon/helper hashes match across all target hosts".

## Proofs

Every invariant and every action property that a passing run checks is also proved,
for every value of the constants that satisfies the assumptions of its module, with
one hypothesis on the limits, stated below, for two of them. A run shows the property
on a small instance, and that the cases it speaks of occur; the theorem shows it for
all. The assumptions are types, and what `Validate` and the installation ensure.

### Daemon

`JobLifecycleProofs` holds for any number of jobs, slots, restarts, keys and requests,
store failures or not, and any retention limits.

- `Invariance`: `Spec => []IInv`, and from it
- `TypeCorrect`, `LocksExclude`, `SlotsAccounted`, `IdempotencyAccounted`:
  the invariants `TypeOK`, `LockExclusion`, `SlotsMatchRunners`,
  `IdempotencyIndexed`;
- `CanceledJobsDoNotStart`: the action property `NoStartAfterCancel`;
- `RecordsAreOne` and `CanceledIsAsked`: `RecordsAgree` and `CanceledOnRequest`;
- `AnswersAreStable`: the action property `ViewIsStable`;
- `LiveJobsStay`: `SparingLimits => (Spec => []LiveJobsKept)`.

None of these invariants is inductive by itself. `IInv` adds that `mu` names the
one job that is being prepared (`MuHeldByPreparing`), that IDs not yet handed out
have left no trace (`FreshAreNew`), that a job has a result exactly from
`SetResult` on (`ResultWhenDone`), that jobs past admission were made from a
request (`PreparedHaveRequests`), that an unfinished job with a lock_key is the
one `locks` names (`LocksCoverLive`), and that a job being prepared has an
idempotency key the index does not know (`PreparingUnseen`). Lock exclusion
follows from `LocksCoverLive`, because `locks` is a function: this is where the
handover of a lock matters, since a finished holder is not `Live` and
`ReleaseJob` only deletes its own entry. Slots are counted by `Cardinality`, so
their steps rest on a lemma that a set of jobs is finite and on what adding or
removing one element does to its cardinality. The step proof has one lemma for
each group of conjuncts (`TypeStep`, `ControlStep`, `LocksStep`, `IndexStep`,
`SlotsStep`) and in each one step per action.

`RecordsInv` adds `RecordsFollow`: between `SaveResult` and `SetResult`, what is on
the disk and in the audit log is the local result that is still to be published, and
that is `canceled` on request only. `DirsInv` says that directories belong to IDs
that were handed out (`HandedOut`), and that what a Cleanup reported as deleted does
not come back (`RemovedAreGone`): without it, an unfinished job that was forgotten
could write a result again, and `AnswersAreStable` would not follow.

`CleanupSpares` is what protects unfinished jobs. A Cleanup protects those that were
in memory when it began; those it did not see came later, and are newer than the
cutoff for as long as it runs. That settles the age rule, but not the two others,
and no invariant could settle them: under a limit on the number, with two slots, an
unfinished job can be deleted (the finding `job_live_pruned`), and the byte limit
deletes whatever is oldest. Hence the hypothesis `SparingLimits`: no byte limit, and
no limit on the number unless there is a single slot. With a single slot the holder
of the slot is the newest job (`HolderIsNewest`), which no limit on the number
reaches. The configuration that `job_faults` checks has no limits; the single slot
is the case of `job_sequential`, whose byte limit its two jobs cannot exceed.

`JobRefinementProofs` proves `Implements`:
`SparingLimits => (Spec => ImplementsExecutor)`. The initial states map to
`ExecutorInit`; each step that the outside sees is one action of `Executor`, each
other leaves the mapped state as it is (`Internal`). `MappedInv` is what the steps
need of a reachable state: the invariants above, that a canceled job has no open
context (`CancelEndsContext`), and which jobs were executed (`RunTracked`). The
hypothesis is that of `LiveJobsStay`, for an `Executor` erases and forgets only what
is over.

### Retention

`CleanupPlanProofs` proves that the loops of `Cleanup` compute the sets of
`Retention` (`PlanComputesDoomed`), with the types (`PlanTypes`), and that those sets
keep three promises: `OldestGoFirst`, `LimitsHold`, `NoneNeedless`.

`LoopInv` says what each loop has done at its cursor. The age loop has marked the
directories that are too old and below it (`AgeInv`). The count loop keeps a counter,
which equals the number of directories it has passed until the limit and stands
still from there (`CountInv`). The byte loop has a running total, which is the sum of
what is not marked, and every unprotected directory below the cursor is one the rule
deletes (`OldestGone`); that its test is the byte rule is the lemma `ByteTest`. The
promises are lemmas about the sets alone (`DoomedOldestFirst`, `KeptMeetsCount`,
`KeptMeetsBytes`, `NothingNeedless`).

The total is a fold over a finite set, so what it computes takes an induction. The
induction theorems of the library take an operator as a parameter and cannot be
instantiated here, but an induction can be made on a smallest counterexample: the
library's `WFMin` gives a minimal element of any nonempty set under a well-founded
relation, and mentions sets only. From it follow that the recursion behind the fold
has a solution (`SumsExist`), that solutions agree (`SumsAgree`), that any element
may be taken out of a sum (`SumRemove`) and that fewer elements have no larger sum
(`SumMonotone`).

### Execution and output

`OutputProofs` holds for any limits, any size of the pipes, any number of bytes, any
manners of the payload and any reach of a kill. For `Runner`, `RunnerInv` ties what
the helper reported to the leader (and not to the helper's position, since a kill may
end a helper that has reported), and what the daemon was told to who still holds the
result pipe: `Quiet` (`QuietWhenReturned`), `OutcomeTold` (`OutcomeIsTrue`), `Reaped`
(`ReapedBeforeReport`). `OutputIsRunner` shows that every behaviour of `Output` is
one of `Runner`, so these hold of the composition too. `OutputInv` adds how the byte
counts of the stages are related (`TeeInv`, `FileInv`: log and answer are the same
until the answer is full or a write of the log fails, and the answer is never ahead)
and when each pipe is empty
(`PipesInv`): `OutputTypes`, `FlagsTold` (`FlagsAreTrue`), `OutputKept`
(`OutputAccounted`). That a request's answer limit is no larger than its log limit
comes from `AcceptedInLimits` of `RequestsProofs`.

`RequestsProofs` proves about every configuration that passes `Validate` and every
decoded request: normalizing an accepted request a second time changes nothing and
accepts it (`NormalizeTwice`), an accepted request is within the limits, with a log
no smaller than the answer (`AcceptedInLimits`), the root check sees root however it
was asked for (`RootIsPermitted`), a request of nothing but a command is accepted if
and only if the default limits, of both outputs, are within the maxima and users may be in `/tmp`
(`BareAccepted`), and the default limits pass both (`DefaultsAcceptBare`). These are
facts about operators and need no invariant.

### Authentication limiter

`AuthLimiterProofs` proves for every limit, window and set of peers that
`TypeOK` holds (no peer has more than limit+1 records) and that the answers are
exact (`LimiterExact`: `Spec => ThrottleExact`). Its invariant `IInv` says that a
failure without a record has left the window or has limit+1 newer records in
front of it (`MissingDoNotCount`), and that the order of arrival is the order of
time. The invariant is needed because the answer of a step depends only on the
records, while the property speaks of all failures.

### Fleet plan and rollout

`FleetPlanProofs` holds for any number of invocations, hosts, steps, jobs and
retries, whatever is lost, canceled or restarted: `StepsAreGated` (`GatedSteps`),
`StartsOnce` (`StepStartsOnce`), `DoneIsDone` (`HostOkIsTrue`), `NothingLeft`
(`NothingLeftRunning`), `LockedOut` (`LockedOutByOthers`) and `TypeCorrect`. The
properties speak of commands that were started; the invariant must speak of
positions. `WaitsForItsStep` says that the job an invocation waits for was made, by
itself or by another under the same key, for the very command of its step, which is
what lets a success be booked on the step; `Gates` that everything before the
position of an invocation has succeeded, and that each job was made at such a
position; `OneJobEach` that a position is left for good once a job was made for it;
`OwnJobsOver` that an invocation that goes on has no unfinished job but the one it
waits for, from which follows that it cannot meet its own lock.

`RolloutProofs` proves for every number of hosts, any failures of the upgrades and of
their rollbacks, and any number of exits of the new daemon: `RolloutTypes` (`TypeOK`), `EndsAllOrNothing`
(`AllOrNothing`) and `HostsInOrder` (`LaterHostsUntouched`). Neither property is
inductive, since it speaks of upgrades that have ended. `IInv` says for every
position of the upgrade script which files are already new (`install`), already
restored or stuck (`restore`) or as before, that from `install` on the backup is the old
release, and that the operator has started no upgrade at a host behind the one he
is at (`OperatorInv`); the last is what makes the backup one of the old release,
because no host is upgraded twice.

### Only model-checked

The liveness properties (`EveryJobEnds`, `SlotsReturn`, `LocksReturn`,
`ReturnsUnlessHeld`, `TimeoutOutlivesCancel`, `PlansEnd`, `StaysReachable`): fairness
and ENABLED are beyond the prover. `LiveJobsKept` with a byte limit, which `job_sequential` checks with one slot
and no more bytes than the limit. The three violations are counterexamples and are
found by TLC alone.

## Not modelled

- Decoding of JSON bodies, redaction, event lines and the text of answers: formats
  without state.
- Token authentication: a lookup; `AuthLimiter` takes its result as given.
- `ReadOutputTail`, `handleOutput`, `authorizeJobAccess`, the health endpoint and the
  static checks of the doctor: they only read. `RunDoctor` of `Rollout` is the probe.
- `cleanEnv` and the command line of the helper: pure functions whose result the
  models do not tell apart.
- The loading of the configuration and its paths: done once, before any state.
- The commands of `bin/aiops` other than `fleet-plan`: each is one `execute_remote`,
  `fleet` several of them on a thread pool without shared state.
- Bootstrap, installation, packaging and smoke scripts: straight-line file
  operations on one host with nothing beside them.
- An upgrade script that is killed, or a host that reboots, during an upgrade: the
  script has no means against it.

## Plan

Done: the daemon, its promise and the refinement, one execution with its output,
requests, the fleet plan, the rollout, and the theorems about all of them. Left, in
order:

1. `LiveJobsKept` with a byte limit: with a single slot it should hold for limits of
   two directories or more, since a Cleanup then protects at most one older job.
2. What `Forgotten` leaves: after a Cleanup alone, memory and disk name the same
   finished jobs.
3. `Rollout` with an upgrade script that may be killed, if the script learns to
   recover.
