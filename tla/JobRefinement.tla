---------------------------- MODULE JobRefinement ----------------------------
(***************************************************************************)
(* JobLifecycle, with its maps, mutexes, goroutine positions and disk, is  *)
(* an Executor of one host.                                                *)
(***************************************************************************)
EXTENDS JobLifecycle

Host == "this"

\* A request is admitted when its job is published.
Admitted(j) == pc[j] \notin {"none", "preparing", "failed"}

StatusOf(j) ==
    IF ~Admitted(j) THEN "none"
    ELSE IF Live(j) THEN IF j \in executed THEN "running" ELSE "queued"
    ELSE IF pc[j] = "done" THEN "done"
    ELSE IF pc[j] = "dead" /\ ~Done(j) THEN "cut"
    ELSE "freed"

Promise == INSTANCE Executor WITH
    Hosts    <- {Host},
    Home     <- [j \in Jobs |-> Host],
    Slots    <- Concurrency,
    status   <- [j \in Jobs |-> StatusOf(j)],
    asked    <- [j \in Jobs |-> IF Admitted(j) THEN req[j] ELSE NoRequest],
    canceled <- cancelRequested,
    memory   <- jobs,
    disk     <- saved,
    started  <- executed

\* Every step of the daemon is a step of the Executor, or none: commands start
\* at most once and not after a cancel; a slot, a lock_key and an idempotency
\* key admit whom they should; there is one result, and only of a job that is
\* over are answers taken away (all of job_lifecycle.go, runJob in server.go).
ImplementsExecutor == Promise!ExecutorSpec
=============================================================================
