------------------------------ MODULE FleetPlan ------------------------------
(***************************************************************************)
(* The operators' side: invocations of "aiops fleet-plan" (command_fleet_  *)
(* plan, execute_remote and poll_job of bin/aiops), each a process that    *)
(* takes the hosts one after another and on each the steps of the plan,    *)
(* composed with the daemons they all talk to (Executor).  Requests and    *)
(* answers may be lost and daemons may be restarted.                       *)
(***************************************************************************)
EXTENDS Executor

CONSTANTS
    Operators,      \* the invocations
    HostsOf,        \* the --hosts of an invocation, a sequence
    Steps,          \* the commands of the plan in phase order, with lock_key
    KeyChoices,     \* the --idempotency-keys the invocations may have
    BusyRetries,    \* --busy-retries
    Connected,      \* bound: the invocations that lose no request or answer
    Cancelable,     \* bound: the jobs somebody may cancel
    Struck,         \* bound: the jobs during which their daemon may restart
    MaxRestarts     \* bound: restarts of daemons

ASSUME FleetAssumption ==
    /\ Jobs \subseteq Nat \ {0}
    /\ Home \in [Jobs -> Hosts]
    /\ Slots \in Nat \ {0}
    /\ \A o \in Operators : HostsOf[o] \in Seq(Hosts) \ {<<>>}
    /\ Steps \in Seq({Steps[s] : s \in DOMAIN Steps}) \ {<<>>}
    /\ BusyRetries \in Nat
    /\ MaxRestarts \in Nat
    /\ Connected \subseteq Operators

VARIABLES
    key,            \* --idempotency-key, or NoKey
    host, step,     \* the loop positions of command_fleet_plan
    mode,           \* where execute_remote is
    attempt,        \* its loop over busy retries
    job,            \* the job it waits for
    hostOk,         \* the hosts in host_results with ok
    exit,           \* how the invocation ended
    origin,         \* history: the invocation and step a job was made for
    restarts

planVars == <<key, host, step, mode, attempt, job, hostOk, exit>>
vars == <<executorVars, planVars, origin, restarts>>

NoJob == 0

Nobody == <<>>

\* base_run_request; requestHash covers every option that goes with the command.
RequestOf(k, s) ==
    [tokenID |-> <<"root">>, hash |-> <<Steps[s].command, Steps[s].lockKey, k>>,
     lockKey |-> Steps[s].lockKey, idempotencyKey |-> k]

PlanRequests == {RequestOf(k, s) : k \in UNION {{f[o] : o \in Operators} : f \in KeyChoices},
                                   s \in DOMAIN Steps}

Init ==
    /\ ExecutorInit
    /\ key \in KeyChoices
    /\ host = [o \in Operators |-> 1]
    /\ step = [o \in Operators |-> 1]
    /\ mode = [o \in Operators |-> "sending"]
    /\ attempt = [o \in Operators |-> 0]
    /\ job = [o \in Operators |-> NoJob]
    /\ hostOk = [o \in Operators |-> {}]
    /\ exit = [o \in Operators |-> "none"]
    /\ origin = [j \in Jobs |-> Nobody]
    /\ restarts = 0

Here(o) == HostsOf[o][host[o]]
Ask(o) == RequestOf(key[o], step[o])

-----------------------------------------------------------------------------
\* How an execute_remote call ends.

\* An exception of execute_remote leaves command_fleet_plan: no summary is
\* printed, whatever has been done.
Abort(o, why) ==
    /\ mode' = [mode EXCEPT ![o] = "ended"]
    /\ exit' = [exit EXCEPT ![o] = why]
    /\ job' = [job EXCEPT ![o] = NoJob]
    /\ UNCHANGED <<key, host, step, attempt, hostOk>>

\* The next step, on this host or the next, or the end of the plan.
Advance(o) ==
    /\ UNCHANGED key
    /\ job' = [job EXCEPT ![o] = NoJob]
    /\ attempt' = [attempt EXCEPT ![o] = 0]
    /\ IF step[o] < Len(Steps)
       THEN /\ step' = [step EXCEPT ![o] = @ + 1]
            /\ mode' = [mode EXCEPT ![o] = "sending"]
            /\ UNCHANGED <<host, hostOk, exit>>
       ELSE /\ hostOk' = [hostOk EXCEPT ![o] = @ \union {host[o]}]
            /\ IF host[o] < Len(HostsOf[o])
               THEN /\ host' = [host EXCEPT ![o] = @ + 1]
                    /\ step' = [step EXCEPT ![o] = 1]
                    /\ mode' = [mode EXCEPT ![o] = "sending"]
                    /\ UNCHANGED exit
               ELSE /\ mode' = [mode EXCEPT ![o] = "ended"]
                    /\ exit' = [exit EXCEPT ![o] = "completed"]
                    /\ UNCHANGED <<host, step>>

\* Mutant: a failed step ends its phase and its host, but not the loop over the
\* hosts.
StepEndsHost(o, ok) ==
    IF ok THEN Advance(o)
    ELSE IF host[o] < Len(HostsOf[o])
    THEN /\ host' = [host EXCEPT ![o] = @ + 1]
         /\ step' = [step EXCEPT ![o] = 1]
         /\ mode' = [mode EXCEPT ![o] = "sending"]
         /\ attempt' = [attempt EXCEPT ![o] = 0]
         /\ job' = [job EXCEPT ![o] = NoJob]
         /\ UNCHANGED <<key, hostOk, exit>>
    ELSE Abort(o, "failed")

\* The step is recorded; a failed one breaks out of all three loops.
StepEnds(o, ok) == IF ok THEN Advance(o) ELSE Abort(o, "failed")

-----------------------------------------------------------------------------
\* POST /v1/run, and prepareJob's answers to it.

Fresh(h) == {j \in On(h) : status[j] = "none"}

SendAdmitted(o) ==
    /\ mode[o] = "sending"
    /\ \E j \in Fresh(Here(o)) :
          /\ \A k \in Fresh(Here(o)) : j <= k
          /\ Admit(j, Ask(o))
          /\ origin' = [origin EXCEPT ![j] = <<o, host[o], step[o]>>]
          /\ job' = [job EXCEPT ![o] = j]
    /\ mode' = [mode EXCEPT ![o] = "waiting"]
    /\ UNCHANGED <<key, host, step, attempt, hostOk, exit, restarts>>

\* Mutant: an idempotency key is enough to reuse a job.
AnyHashReused(o) ==
    /\ mode[o] = "sending"
    /\ \E j \in Matching(Here(o), Ask(o)) : job' = [job EXCEPT ![o] = j]
    /\ mode' = [mode EXCEPT ![o] = "waiting"]
    /\ UNCHANGED <<executorVars, key, host, step, attempt, hostOk, exit, origin, restarts>>

SendReused(o) ==
    /\ mode[o] = "sending"
    /\ \E j \in Matching(Here(o), Ask(o)) :
          /\ asked[j].hash = Ask(o).hash
          /\ job' = [job EXCEPT ![o] = j]
    /\ mode' = [mode EXCEPT ![o] = "waiting"]
    /\ UNCHANGED <<executorVars, key, host, step, attempt, hostOk, exit, origin, restarts>>

SendConflicts(o) ==
    /\ mode[o] = "sending"
    /\ \E j \in Matching(Here(o), Ask(o)) : asked[j].hash # Ask(o).hash
    /\ Abort(o, "idempotency_conflict")
    /\ UNCHANGED <<executorVars, origin, restarts>>

SendLockBusy(o) ==
    /\ mode[o] = "sending"
    /\ Matching(Here(o), Ask(o)) = {}
    /\ ~LockFree(Here(o), Ask(o))
    /\ Abort(o, "lock_busy")
    /\ UNCHANGED <<executorVars, origin, restarts>>

\* Mutant: one retry more than --busy-retries.
SendBusyOnceMore(o) ==
    /\ mode[o] = "sending"
    /\ Matching(Here(o), Ask(o)) = {}
    /\ LockFree(Here(o), Ask(o))
    /\ ~SlotFree(Here(o))
    /\ IF attempt[o] <= BusyRetries
       THEN /\ attempt' = [attempt EXCEPT ![o] = @ + 1]
            /\ UNCHANGED <<key, host, step, mode, job, hostOk, exit>>
       ELSE Abort(o, "executor_busy")
    /\ UNCHANGED <<executorVars, origin, restarts>>

\* executor_busy is the one refusal that is tried again.
SendBusy(o) ==
    /\ mode[o] = "sending"
    /\ Matching(Here(o), Ask(o)) = {}
    /\ LockFree(Here(o), Ask(o))
    /\ ~SlotFree(Here(o))
    /\ IF attempt[o] < BusyRetries
       THEN /\ attempt' = [attempt EXCEPT ![o] = @ + 1]
            /\ UNCHANGED <<key, host, step, mode, job, hostOk, exit>>
       ELSE Abort(o, "executor_busy")
    /\ UNCHANGED <<executorVars, origin, restarts>>

-----------------------------------------------------------------------------
\* Waiting for the answer, with the connection open and then by polling.

\* handleRun answers with the result, or after wait_sec with 202.  (A job leaves
\* memory here only with its daemon, which ends the connection.)
AnswerResult(o) ==
    /\ mode[o] = "waiting"
    /\ job[o] \in memory
    /\ result[job[o]] # "none"
    /\ StepEnds(o, result[job[o]] = "succeeded")
    /\ UNCHANGED <<executorVars, origin, restarts>>

AnswerAccepted(o) ==
    /\ mode[o] = "waiting"
    /\ job[o] \in memory
    /\ mode' = [mode EXCEPT ![o] = "polling"]
    /\ UNCHANGED <<executorVars, key, host, step, attempt, job, hostOk, exit, origin, restarts>>

\* Mutant: a job that has not been started yet counts as over.
PollQueuedEnds(o) ==
    /\ mode[o] = "polling"
    /\ Answer(job[o]) \notin {"not_found"}
    /\ Answer(job[o]) = "unfinished" => status[job[o]] = "queued"
    /\ StepEnds(o, Answer(job[o]) = "succeeded")
    /\ UNCHANGED <<executorVars, origin, restarts>>

\* poll_job sees a state that is not queued or running: a result, or a cancel.
PollEnds(o) ==
    /\ mode[o] = "polling"
    /\ Answer(job[o]) \notin {"unfinished", "not_found"}
    /\ StepEnds(o, Answer(job[o]) = "succeeded")
    /\ UNCHANGED <<executorVars, origin, restarts>>

\* Mutant: poll_job asks again after a 404.
PollNotFoundAgain(o) ==
    /\ mode[o] = "polling"
    /\ Answer(job[o]) = "not_found"
    /\ UNCHANGED vars

PollNotFound(o) ==
    /\ mode[o] = "polling"
    /\ Answer(job[o]) = "not_found"
    /\ Abort(o, "not_found")
    /\ UNCHANGED <<executorVars, origin, restarts>>

\* The daemon that was to answer is gone.
ConnectionReset(o) ==
    /\ mode[o] = "waiting"
    /\ job[o] \notin memory
    /\ Abort(o, "lost")
    /\ UNCHANGED <<executorVars, origin, restarts>>

\* Mutant: a request whose answer was lost is sent again.
SendAgain(o) ==
    /\ o \notin Connected
    /\ mode[o] # "ended"
    /\ mode' = [mode EXCEPT ![o] = "sending"]
    /\ job' = [job EXCEPT ![o] = NoJob]
    /\ UNCHANGED <<executorVars, key, host, step, attempt, hostOk, exit, origin, restarts>>

\* A request does not arrive or is answered 500, an answer is lost, or the
\* deadline of poll_job passes.
Lose(o) ==
    /\ o \notin Connected
    /\ mode[o] # "ended"
    /\ Abort(o, "lost")
    /\ UNCHANGED <<executorVars, origin, restarts>>

-----------------------------------------------------------------------------
\* The daemons.  Results are always saved here, and nothing is deleted.

Daemon(j) ==
    /\ \/ Start(j)
       \/ \E o \in Outcomes \union {"start_failed", "canceled"} : Save(j, o)
       \/ disk[j] # "none" /\ Finish(j, disk[j])
       \/ Free(j)
    /\ UNCHANGED <<planVars, origin, restarts>>

CancelJob(j) ==
    /\ j \in Cancelable
    /\ Cancel(j)
    /\ UNCHANGED <<planVars, origin, restarts>>

Restart(h) ==
    /\ restarts < MaxRestarts
    /\ \E j \in Struck \intersect On(h) : Unfinished(j) \/ status[j] = "done"
    /\ restarts' = restarts + 1
    /\ RestartHost(h, {})
    /\ UNCHANGED <<planVars, origin>>

Operator(o) ==
    \/ SendAdmitted(o) \/ SendReused(o) \/ SendConflicts(o) \/ SendLockBusy(o)
    \/ SendBusy(o) \/ AnswerResult(o) \/ AnswerAccepted(o) \/ PollEnds(o)
    \/ PollNotFound(o) \/ ConnectionReset(o)

Next ==
    \/ \E o \in Operators : Operator(o) \/ Lose(o)
    \/ \E j \in Jobs : Daemon(j) \/ CancelJob(j)
    \/ \E h \in Hosts : Restart(h)

Spec == Init /\ [][Next]_vars

\* Every call the CLI makes is answered or reset, and jobs go on to their end
\* (EveryJobEnds of JobLifecycle).  Nothing need be lost, canceled or restarted.
Fairness ==
    /\ \A o \in Operators : WF_vars(Operator(o))
    /\ \A j \in Jobs : WF_vars(Daemon(j))

FairSpec == Spec /\ Fairness

-----------------------------------------------------------------------------
\* The shape of the state.
TypeOK ==
    /\ status \in [Jobs -> {"none", "queued", "running", "done", "freed", "cut"}]
    /\ asked \in [Jobs -> PlanRequests \union {NoRequest}]
    /\ canceled \in [Jobs -> BOOLEAN]
    /\ result \in [Jobs -> Outcomes \union {"none", "start_failed", "canceled"}]
    /\ disk \in [Jobs -> Outcomes \union {"none", "start_failed", "canceled"}]
    /\ memory \subseteq Jobs
    /\ started \subseteq Jobs
    /\ origin \in [Jobs -> (Operators \X Nat \X DOMAIN Steps) \union {Nobody}]
    /\ restarts \in 0..MaxRestarts
    /\ key \in KeyChoices
    /\ host \in [Operators -> Nat \ {0}]
    /\ step \in [Operators -> DOMAIN Steps]
    /\ mode \in [Operators -> {"sending", "waiting", "polling", "ended"}]
    /\ attempt \in [Operators -> 0..BusyRetries]
    /\ job \in [Operators -> Jobs \union {NoJob}]
    /\ hostOk \in [Operators -> SUBSET Nat]
    /\ \A o \in Operators : /\ host[o] <= Len(HostsOf[o])
                            /\ hostOk[o] \subseteq DOMAIN HostsOf[o]
    /\ exit \in [Operators -> {"none", "completed", "failed", "lost", "not_found",
                    "lock_busy", "executor_busy", "idempotency_conflict"}]
    /\ \A o \in Operators : (mode[o] = "ended") = (exit[o] # "none")

\* A job of host h made for the command of step s reported success.
Succeeded(o, h, s) ==
    \E j \in started :
        /\ Home[j] = HostsOf[o][h]
        /\ asked[j].hash = RequestOf(key[o], s).hash
        /\ "succeeded" \in {result[j], disk[j]}

Before(h, s) == {p \in (1..h) \X (DOMAIN Steps) : p[1] = h => p[2] < s}

\* The plan is gated: a command starts only after every earlier step, on this
\* host and on all hosts before it, has succeeded, whatever was lost, canceled
\* or restarted in between (the loops of command_fleet_plan, bin/aiops 971-993).
GatedSteps ==
    \A j \in started :
        \A p \in Before(origin[j][2], origin[j][3]) :
            Succeeded(origin[j][1], p[1], p[2])

\* A step of an invocation starts its command at most once: only a request that
\* was certainly refused is sent again (bin/aiops 566-587).
StepStartsOnce ==
    \A j, k \in started : origin[j] = origin[k] => j = k

\* What is reported done was done: a host counts as ok only if each command of
\* the plan was started there and succeeded, also where an idempotency key let
\* a job be reused (prepareJob 129-137) or the answer came from disk.
HostOkIsTrue ==
    \A o \in Operators : \A h \in hostOk[o] : \A s \in DOMAIN Steps :
        Succeeded(o, h, s)

\* An invocation that ends with a summary leaves no command of its own behind
\* that may still run or start, except one that was canceled.
NothingLeftRunning ==
    \A o \in Operators : exit[o] \in {"completed", "failed"} =>
        \A j \in Jobs : origin[j] # Nobody /\ origin[j][1] = o
                           => ~Unfinished(j) \/ canceled[j]

\* An invocation is never locked out by a job of its own: although a result is
\* answered before the daemon releases the lock (setResult and releaseJob of
\* runJob), the next step under the same lock_key is admitted.
LockedOutByOthers ==
    [][\A o \in Operators :
          exit[o] = "none" /\ exit'[o] = "lock_busy" =>
              \E j \in On(Here(o)) : /\ Unfinished(j)
                                     /\ asked[j].lockKey = Ask(o).lockKey
                                     /\ origin[j][1] # o]_vars

\* Every invocation ends, even if the daemon it waits for is restarted.
PlansEnd == \A o \in Operators : <>(mode[o] = "ended")
=============================================================================
