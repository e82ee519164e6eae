------------------------------ MODULE Executor ------------------------------
(***************************************************************************)
(* What the clients of aiops-execd may rely on, host by host: a job is     *)
(* admitted under a slot, a lock_key and an idempotency key, its command   *)
(* is started at most once and never after a cancel, and what is answered  *)
(* about it is one result.  JobRefinement shows that JobLifecycle          *)
(* implements this for one host; FleetPlan composes it with the CLI.       *)
(***************************************************************************)
EXTENDS Naturals, FiniteSets, Sequences

CONSTANTS
    Hosts,
    Jobs,
    Home,           \* the host whose daemon hands out a job's ID
    Slots,          \* limits.Concurrency of every host
    Requests,       \* records with tokenID, hash, lockKey, idempotencyKey
    Outcomes,       \* the states a helper may report for a command
    NoKey           \* the empty lock_key or idempotency_key

VARIABLES
    status,         \* none, queued, running, done, freed, or cut by a restart
    asked,          \* the request of an admitted job
    canceled,       \* a cancel was accepted
    result,         \* the result set, if any
    memory,         \* the jobs their daemon remembers
    disk,           \* the result saved, if any
    started         \* history: the jobs whose command was started

executorVars == <<status, asked, canceled, result, memory, disk, started>>

NoRequest == [tokenID |-> NoKey, hash |-> NoKey,
              lockKey |-> NoKey, idempotencyKey |-> NoKey]

On(h) == {j \in Jobs : Home[j] = h}

Unfinished(j) == status[j] \in {"queued", "running"}

\* The joined text, as in JobLifecycle: token and key are sequences of the parts
\* between colons.
IndexKey(r) == r.tokenID \o r.idempotencyKey

ExecutorInit ==
    /\ status = [j \in Jobs |-> "none"]
    /\ asked = [j \in Jobs |-> NoRequest]
    /\ canceled = [j \in Jobs |-> FALSE]
    /\ result = [j \in Jobs |-> "none"]
    /\ memory = {}
    /\ disk = [j \in Jobs |-> "none"]
    /\ started = {}

-----------------------------------------------------------------------------
\* Admission.

\* The jobs a request with this idempotency key is answered with.
Matching(h, r) ==
    IF r.idempotencyKey = NoKey THEN {}
    ELSE {j \in memory \intersect On(h) : /\ asked[j].idempotencyKey # NoKey
                                         /\ IndexKey(asked[j]) = IndexKey(r)}

\* Mutant: the lock of a job is held until its slot is free.
LockFreeOnceFreed(h, r) ==
    r.lockKey # NoKey =>
        \A j \in On(h) : asked[j].lockKey = r.lockKey
                            => status[j] \in {"freed", "cut"}

LockFree(h, r) ==
    r.lockKey # NoKey =>
        \A j \in On(h) : Unfinished(j) => asked[j].lockKey # r.lockKey

SlotFree(h) ==
    Cardinality({j \in On(h) : Unfinished(j) \/ status[j] = "done"}) < Slots

Admit(j, r) ==
    /\ status[j] = "none"
    /\ Matching(Home[j], r) = {}
    /\ LockFree(Home[j], r)
    /\ SlotFree(Home[j])
    /\ status' = [status EXCEPT ![j] = "queued"]
    /\ asked' = [asked EXCEPT ![j] = r]
    /\ memory' = memory \union {j}
    /\ UNCHANGED <<canceled, result, disk, started>>

-----------------------------------------------------------------------------
\* The life of an admitted job.

Start(j) ==
    /\ status[j] = "queued"
    /\ ~canceled[j]
    /\ disk[j] = "none"
    /\ status' = [status EXCEPT ![j] = "running"]
    /\ started' = started \union {j}
    /\ UNCHANGED <<asked, canceled, result, memory, disk>>

Cancel(j) ==
    /\ j \in memory
    /\ Unfinished(j)
    /\ canceled' = [canceled EXCEPT ![j] = TRUE]
    /\ UNCHANGED <<status, asked, result, memory, disk, started>>

\* The results a job may get: what the helper reported, or start_failed if
\* nothing was started, or canceled on request.
Reportable(j) ==
    (IF status[j] = "running" THEN Outcomes ELSE {"start_failed"})
        \union (IF canceled[j] THEN {"canceled"} ELSE {})

\* result.json comes first, if it can be written; the result in memory is the
\* same.
Save(j, o) ==
    /\ Unfinished(j)
    /\ o \in Reportable(j)
    /\ disk[j] = "none"
    /\ disk' = [disk EXCEPT ![j] = o]
    /\ UNCHANGED <<status, asked, canceled, result, memory, started>>

Finish(j, o) ==
    /\ Unfinished(j)
    /\ o \in Reportable(j)
    /\ disk[j] \in {"none", o}
    /\ result' = [result EXCEPT ![j] = o]
    /\ status' = [status EXCEPT ![j] = "done"]
    /\ UNCHANGED <<asked, canceled, memory, disk, started>>

Free(j) ==
    /\ status[j] = "done"
    /\ status' = [status EXCEPT ![j] = "freed"]
    /\ UNCHANGED <<asked, canceled, result, memory, disk, started>>

\* Retention: only jobs that are over are deleted and forgotten.
Erase(j) ==
    /\ ~Unfinished(j)
    /\ disk' = [disk EXCEPT ![j] = "none"]
    /\ UNCHANGED <<status, asked, canceled, result, memory, started>>

Forget(gone) ==
    /\ \A j \in gone : ~Unfinished(j)
    /\ memory' = memory \ gone
    /\ UNCHANGED <<status, asked, canceled, result, disk, started>>

\* A daemon dies and is started again; its first cleanup may erase any job.
RestartHost(h, erased) ==
    /\ memory' = memory \ On(h)
    /\ status' = [j \in Jobs |->
                     IF j \notin On(h) THEN status[j]
                     ELSE IF Unfinished(j) THEN "cut"
                     ELSE IF status[j] = "done" THEN "freed"
                     ELSE status[j]]
    /\ disk' = [j \in Jobs |-> IF j \in erased THEN "none" ELSE disk[j]]
    /\ UNCHANGED <<asked, canceled, result, started>>

ExecutorNext ==
    \/ \E j \in Jobs :
          \/ \E r \in Requests : Admit(j, r)
          \/ Start(j) \/ Cancel(j) \/ Free(j) \/ Erase(j)
          \/ \E o \in Outcomes \union {"start_failed", "canceled"} :
                Save(j, o) \/ Finish(j, o)
    \/ \E gone \in SUBSET memory : Forget(gone)
    \/ \E h \in Hosts : \E erased \in SUBSET On(h) : RestartHost(h, erased)

ExecutorSpec == ExecutorInit /\ [][ExecutorNext]_executorVars

-----------------------------------------------------------------------------
\* What GET /v1/jobs/{id} answers: a state without a result, a result, or 404.
Answer(j) ==
    IF j \in memory
    THEN IF result[j] # "none" THEN result[j]
         ELSE IF canceled[j] THEN "cancel_requested" ELSE "unfinished"
    ELSE IF disk[j] # "none" THEN disk[j] ELSE "not_found"
=============================================================================
