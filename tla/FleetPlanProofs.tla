--------------------------- MODULE FleetPlanProofs ---------------------------
(***************************************************************************)
(* TLAPS proofs about FleetPlan, for any number of invocations, hosts,     *)
(* steps, jobs, retries and restarts, whatever is lost or canceled.        *)
(***************************************************************************)
EXTENDS FleetPlan, TLAPS

Waiting(o) == mode[o] \in {"waiting", "polling"}

Made(j) == origin[j] # Nobody

\* The step of its invocation a job was made for is over or is the current one.
Earlier(h, s, h2, s2) == h < h2 \/ (h = h2 /\ s < s2)

\* What the daemons know of a job: a job exists once it was made for a step, an
\* unfinished one is in memory, and only a command that was started succeeds.
JobsTraced ==
    \A j \in Jobs :
        /\ Made(j) <=> status[j] # "none"
        /\ status[j] = "none" => result[j] = "none" /\ disk[j] = "none"
        /\ Unfinished(j) => j \in memory /\ result[j] = "none"
        /\ status[j] = "running" => j \in started
        /\ j \in started \union memory => status[j] # "none"
        /\ "succeeded" \in {result[j], disk[j]} => j \in started

\* The job an invocation waits for was made for the command of its step, by
\* itself or, under the same idempotency key, by another.
WaitsForItsStep ==
    \A o \in Operators : Waiting(o) =>
        /\ job[o] \in Jobs
        /\ Home[job[o]] = Here(o)
        /\ asked[job[o]].hash = Ask(o).hash
        /\ status[job[o]] # "none"

\* Every step before position <<h, s>> of an invocation has succeeded.
Passed(o, h, s) ==
    \A h2 \in 1..h, s2 \in DOMAIN Steps :
        (h2 = h => s2 < s) => Succeeded(o, h2, s2)

Gates ==
    /\ \A o \in Operators : mode[o] # "ended" => Passed(o, host[o], step[o])
    /\ \A j \in Jobs : Made(j) => Passed(origin[j][1], origin[j][2], origin[j][3])

\* A position is left for good, so one job is made for it at most.
OneJobEach ==
    /\ \A j \in Jobs, o \in Operators : Made(j) /\ origin[j][1] = o =>
          \/ Earlier(origin[j][2], origin[j][3], host[o], step[o])
          \/ /\ origin[j][2] = host[o]
             /\ origin[j][3] = step[o]
             /\ mode[o] # "sending"
    /\ \A j, k \in Jobs : Made(j) /\ origin[j] = origin[k] => j = k

\* The own jobs of an invocation that goes on are over, but the one it waits for.
OwnJobsOver ==
    \A j \in Jobs, o \in Operators : Made(j) /\ origin[j][1] = o =>
        /\ mode[o] # "ended" =>
              ~Unfinished(j) \/ (Waiting(o) /\ job[o] = j)
        /\ exit[o] \in {"completed", "failed"} =>
              ~Unfinished(j) \/ canceled[j]

IInv == /\ TypeOK /\ JobsTraced /\ WaitsForItsStep /\ Gates /\ HostOkIsTrue
        /\ OneJobEach /\ OwnJobsOver

-----------------------------------------------------------------------------
\* The plan and the lists of hosts are sequences with a first element.
LEMMA PlanShape ==
  /\ Len(Steps) \in Nat \ {0} /\ DOMAIN Steps = 1..Len(Steps)
  /\ \A o \in Operators : /\ Len(HostsOf[o]) \in Nat \ {0}
                          /\ DOMAIN HostsOf[o] = 1..Len(HostsOf[o])
                          /\ \A h \in DOMAIN HostsOf[o] : HostsOf[o][h] \in Hosts
  BY FleetAssumption

\* Where an invocation is, there is a host and a step.
LEMMA Position ==
  ASSUME TypeOK, NEW o \in Operators
  PROVE  /\ host[o] \in 1..Len(HostsOf[o]) /\ Here(o) \in Hosts
         /\ step[o] \in 1..Len(Steps)
         /\ Ask(o) \in PlanRequests
  <1>1. host[o] \in 1..Len(HostsOf[o]) /\ Here(o) \in Hosts
    BY PlanShape DEF TypeOK, Here
  <1>2. step[o] \in DOMAIN Steps
    BY DEF TypeOK
  <1>3. key[o] \in UNION {{f[i] : i \in Operators} : f \in KeyChoices}
    BY DEF TypeOK
  <1>4. RequestOf(key[o], step[o]) \in PlanRequests
    <2> DEFINE Keys == UNION {{f[i] : i \in Operators} : f \in KeyChoices}
    <2>1. PlanRequests = {RequestOf(k, s) : k \in Keys, s \in DOMAIN Steps}
      BY DEF PlanRequests
    <2>2. key[o] \in Keys
      BY <1>3
    <2> HIDE DEF Keys
    <2> QED
      BY <1>2, <2>1, <2>2
  <1> QED
    BY <1>1, <1>2, <1>4, PlanShape DEF Ask

-----------------------------------------------------------------------------
\* The steps by what they do to an invocation.

Outside(o) == UNCHANGED <<executorVars, origin, restarts>>

Whys == {"failed", "lost", "not_found", "lock_busy", "executor_busy",
         "idempotency_conflict"}

Stops(o, why) ==
    /\ mode[o] # "ended"
    /\ Abort(o, why)
    /\ why = "failed" => /\ Waiting(o)
                         /\ ~Unfinished(job[o]) \/ canceled[job[o]]
    /\ why = "lock_busy" => mode[o] = "sending" /\ ~LockFree(Here(o), Ask(o))
    /\ Outside(o)

GoesOn(o) ==
    /\ Waiting(o)
    /\ ~Unfinished(job[o])
    /\ "succeeded" \in {result[job[o]], disk[job[o]]}
    /\ Advance(o)
    /\ Outside(o)

Retries(o) ==
    /\ mode[o] = "sending"
    /\ attempt[o] < BusyRetries
    /\ attempt' = [attempt EXCEPT ![o] = @ + 1]
    /\ UNCHANGED <<key, host, step, mode, job, hostOk, exit>>
    /\ Outside(o)

\* A step of an operator is one of these.
LEMMA OperatorSteps ==
  ASSUME IInv, NEW o \in Operators, Operator(o) \/ Lose(o)
  PROVE  \/ SendAdmitted(o) \/ SendReused(o) \/ AnswerAccepted(o)
         \/ \E why \in Whys : Stops(o, why)
         \/ GoesOn(o) \/ Retries(o)
  <1> USE DEF Outside, Whys
  <1>1. CASE SendConflicts(o)
    <2>1. Stops(o, "idempotency_conflict")
      BY <1>1 DEF SendConflicts, Stops
    <2> QED
      BY <2>1
  <1>2. CASE SendLockBusy(o)
    <2>1. Stops(o, "lock_busy")
      BY <1>2 DEF SendLockBusy, Stops
    <2> QED
      BY <2>1
  <1>3. CASE SendBusy(o)
    <2>1. Stops(o, "executor_busy") \/ Retries(o)
      BY <1>3 DEF SendBusy, Stops, Retries
    <2> QED
      BY <2>1
  <1>4. CASE AnswerResult(o)
    <2>1. Waiting(o) /\ job[o] \in Jobs /\ ~Unfinished(job[o])
      BY <1>4 DEF AnswerResult, Waiting, IInv, TypeOK, JobsTraced
    <2>2. Stops(o, "failed") \/ GoesOn(o)
      BY <1>4, <2>1 DEF AnswerResult, StepEnds, Stops, GoesOn
    <2> QED
      BY <2>2
  <1>5. CASE PollEnds(o)
    <2>1. Waiting(o) /\ job[o] \in Jobs
      BY <1>5 DEF PollEnds, Waiting, IInv, WaitsForItsStep
    <2>2. ~Unfinished(job[o]) \/ canceled[job[o]]
      BY <1>5, <2>1 DEF PollEnds, Answer, IInv, JobsTraced
    <2>3. Answer(job[o]) = "succeeded" =>
              /\ ~Unfinished(job[o])
              /\ "succeeded" \in {result[job[o]], disk[job[o]]}
      BY <2>1 DEF Answer, IInv, JobsTraced
    <2>4. Stops(o, "failed") \/ GoesOn(o)
      BY <1>5, <2>1, <2>2, <2>3 DEF PollEnds, StepEnds, Stops, GoesOn, Waiting
    <2> QED
      BY <2>4
  <1>6. CASE PollNotFound(o)
    <2>1. Stops(o, "not_found")
      BY <1>6 DEF PollNotFound, Stops
    <2> QED
      BY <2>1
  <1>7. CASE ConnectionReset(o) \/ Lose(o)
    <2>1. Stops(o, "lost")
      BY <1>7 DEF ConnectionReset, Lose, Stops
    <2> QED
      BY <2>1
  <1> QED
    BY <1>1, <1>2, <1>3, <1>4, <1>5, <1>6, <1>7 DEF Operator

\* The steps of the daemons and of those who cancel or restart.
Daemons ==
    \/ \E j \in Jobs : Daemon(j) \/ CancelJob(j)
    \/ \E h \in Hosts : Restart(h)

-----------------------------------------------------------------------------
\* What is said of jobs is never taken back.
Grows ==
    /\ key' = key
    /\ started \subseteq started'
    /\ \A j \in Jobs :
          /\ status[j] # "none" => /\ status'[j] # "none"
                                   /\ asked'[j] = asked[j]
                                   /\ origin'[j] = origin[j]
                                   /\ ~Unfinished(j) => ~Unfinished(j)'
          /\ result[j] # "none" => result'[j] = result[j]
          /\ disk[j] # "none" => disk'[j] = disk[j]
          /\ canceled[j] => canceled'[j]

\* The Executor's variables have their types and JobsTraced holds.
ExecutorOK ==
    /\ status \in [Jobs -> {"none", "queued", "running", "done", "freed", "cut"}]
    /\ asked \in [Jobs -> PlanRequests \union {NoRequest}]
    /\ canceled \in [Jobs -> BOOLEAN]
    /\ result \in [Jobs -> Outcomes \union {"none", "start_failed", "canceled"}]
    /\ disk \in [Jobs -> Outcomes \union {"none", "start_failed", "canceled"}]
    /\ memory \subseteq Jobs
    /\ started \subseteq Jobs
    /\ origin \in [Jobs -> (Operators \X Nat \X DOMAIN Steps) \union {Nobody}]
    /\ restarts \in 0..MaxRestarts
    /\ JobsTraced

\* What the daemons do leaves the invocations alone and takes nothing back.
LEMMA DaemonsStep ==
  ASSUME ExecutorOK, Daemons
  PROVE  ExecutorOK' /\ Grows /\ UNCHANGED <<planVars, origin, asked>>
  <1> USE DEF ExecutorOK, JobsTraced, Grows, Unfinished, Made, executorVars, planVars
  <1>1. ASSUME NEW j \in Jobs, Start(j), UNCHANGED <<planVars, origin, restarts>>
        PROVE  ExecutorOK' /\ Grows /\ UNCHANGED <<planVars, origin, asked>>
    BY <1>1 DEF Start
  <1>2. ASSUME NEW j \in Jobs, NEW o \in Outcomes \union {"start_failed", "canceled"},
               Save(j, o), UNCHANGED <<planVars, origin, restarts>>
        PROVE  ExecutorOK' /\ Grows /\ UNCHANGED <<planVars, origin, asked>>
    BY <1>2 DEF Save, Reportable
  <1>3. ASSUME NEW j \in Jobs, disk[j] # "none", Finish(j, disk[j]),
               UNCHANGED <<planVars, origin, restarts>>
        PROVE  ExecutorOK' /\ Grows /\ UNCHANGED <<planVars, origin, asked>>
    BY <1>3 DEF Finish, Reportable
  <1>4. ASSUME NEW j \in Jobs, Free(j), UNCHANGED <<planVars, origin, restarts>>
        PROVE  ExecutorOK' /\ Grows /\ UNCHANGED <<planVars, origin, asked>>
    BY <1>4 DEF Free
  <1>5. ASSUME NEW j \in Jobs, CancelJob(j)
        PROVE  ExecutorOK' /\ Grows /\ UNCHANGED <<planVars, origin, asked>>
    BY <1>5 DEF CancelJob, Cancel
  <1>6. ASSUME NEW h \in Hosts, Restart(h)
        PROVE  ExecutorOK' /\ Grows /\ UNCHANGED <<planVars, origin, asked>>
    <2>1. /\ UNCHANGED <<asked, canceled, result, started, planVars, origin>>
          /\ memory' = memory \ On(h)
          /\ restarts' = restarts + 1 /\ restarts < MaxRestarts
          /\ status' = [j \in Jobs |->
                           IF j \notin On(h) THEN status[j]
                           ELSE IF Unfinished(j) THEN "cut"
                           ELSE IF status[j] = "done" THEN "freed"
                           ELSE status[j]]
          /\ disk' = [j \in Jobs |-> IF j \in {} THEN "none" ELSE disk[j]]
      BY <1>6 DEF Restart, RestartHost
    <2>2. disk' = disk
      BY <2>1
    <2>3. restarts' \in 0..MaxRestarts
      BY <2>1, FleetAssumption
    <2>4. \A j \in Jobs :
              /\ status'[j] \in {status[j], "cut", "freed"}
              /\ status'[j] = "none" <=> status[j] = "none"
              /\ status'[j] \in {"queued", "running"}
                    => status'[j] = status[j] /\ j \notin On(h)
      BY <2>1
    <2>5. status' \in [Jobs -> {"none", "queued", "running", "done", "freed", "cut"}]
      BY <2>1
    <2>6. JobsTraced'
      BY <2>1, <2>2, <2>4
    <2>7. Grows
      BY <2>1, <2>2, <2>4
    <2> QED
      BY <2>1, <2>2, <2>3, <2>5, <2>6, <2>7
  <1> QED
    BY <1>1, <1>2, <1>3, <1>4, <1>5, <1>6 DEF Daemons, Daemon

\* Admission makes one new job and takes nothing back.
LEMMA AdmitStep ==
  ASSUME IInv, NEW o \in Operators, SendAdmitted(o)
  PROVE  ExecutorOK' /\ Grows
  <1> USE DEF IInv, TypeOK, ExecutorOK, JobsTraced, Grows, Unfinished, Made
  <1>1. PICK j \in Jobs : /\ Admit(j, Ask(o))
                          /\ origin' = [origin EXCEPT ![j] = <<o, host[o], step[o]>>]
    BY DEF SendAdmitted, Fresh, On
  <1>2. Ask(o) \in PlanRequests /\ host[o] \in Nat /\ step[o] \in DOMAIN Steps
    BY Position
  <1>3. <<o, host[o], step[o]>> \in Operators \X Nat \X DOMAIN Steps
    BY <1>2
  <1>4. <<o, host[o], step[o]>> # Nobody
    BY DEF Nobody
  <1>5. UNCHANGED <<key, restarts>>
    BY DEF SendAdmitted
  <1> QED
    BY <1>1, <1>2, <1>3, <1>4, <1>5 DEF Admit

\* What an invocation does with the answers leaves the daemons alone.
LEMMA OutsideStep ==
  ASSUME IInv, UNCHANGED <<executorVars, origin, restarts, key>>
  PROVE  ExecutorOK' /\ Grows
  BY DEF IInv, TypeOK, ExecutorOK, JobsTraced, Grows, Unfinished, Made, executorVars

\* Every step keeps what the daemons know and takes nothing back.
LEMMA GrowStep ==
  ASSUME IInv, [Next]_vars
  PROVE  ExecutorOK' /\ Grows
  <1>1. ASSUME NEW o \in Operators, Operator(o) \/ Lose(o)
        PROVE  ExecutorOK' /\ Grows
    <2>1. CASE SendAdmitted(o)
      BY <2>1, AdmitStep
    <2>2. CASE ~SendAdmitted(o)
      <3>1. UNCHANGED <<executorVars, origin, restarts, key>>
        BY <1>1, <2>2, OperatorSteps
        DEF SendReused, AnswerAccepted, Stops, GoesOn, Retries, Outside, Abort, Advance
      <3> QED
        BY <3>1, OutsideStep
    <2> QED
      BY <2>1, <2>2
  <1>2. CASE Daemons
    BY <1>2, DaemonsStep DEF IInv, TypeOK, ExecutorOK
  <1>3. CASE UNCHANGED vars
    BY <1>3, OutsideStep DEF vars, planVars
  <1> QED
    BY <1>1, <1>2, <1>3 DEF Next, Daemons

\* Success is for good.
LEMMA SuccessStays ==
  ASSUME IInv, Grows, NEW o \in Operators, NEW h, NEW s, Succeeded(o, h, s)
  PROVE  Succeeded(o, h, s)'
  <1>1. PICK j \in started : /\ Home[j] = HostsOf[o][h]
                             /\ asked[j].hash = RequestOf(key[o], s).hash
                             /\ "succeeded" \in {result[j], disk[j]}
    BY DEF Succeeded
  <1>2. j \in Jobs /\ status[j] # "none" /\ j \in started'
    BY DEF IInv, TypeOK, JobsTraced, Grows
  <1>3. asked'[j] = asked[j] /\ key' = key
    BY <1>2 DEF Grows
  <1>4. "succeeded" \in {result'[j], disk'[j]}
    BY <1>1, <1>2 DEF Grows
  <1>5. asked'[j].hash = RequestOf(key'[o], s).hash
    BY <1>1, <1>3
  <1> QED
    BY <1>1, <1>2, <1>4, <1>5 DEF Succeeded, RequestOf

-----------------------------------------------------------------------------
\* Every step is one of an invocation, or leaves all invocations where they are.
LEMMA Kinds ==
  ASSUME IInv, [Next]_vars
  PROVE  \/ \E o \in Operators :
               \/ SendAdmitted(o) \/ SendReused(o) \/ AnswerAccepted(o)
               \/ \E why \in Whys : Stops(o, why)
               \/ GoesOn(o) \/ Retries(o)
         \/ UNCHANGED <<planVars, origin, asked>>
  <1>1. CASE \E o \in Operators : Operator(o) \/ Lose(o)
    BY <1>1, OperatorSteps
  <1>2. CASE Daemons
    BY <1>2, DaemonsStep DEF IInv, TypeOK, ExecutorOK
  <1>3. CASE UNCHANGED vars
    BY <1>3 DEF vars, planVars, executorVars
  <1> QED
    BY <1>1, <1>2, <1>3 DEF Next, Daemons

\* The types of the invocations' variables.
PlanOK ==
    /\ key \in KeyChoices
    /\ host \in [Operators -> Nat \ {0}]
    /\ step \in [Operators -> DOMAIN Steps]
    /\ mode \in [Operators -> {"sending", "waiting", "polling", "ended"}]
    /\ attempt \in [Operators -> 0..BusyRetries]
    /\ job \in [Operators -> Jobs \union {NoJob}]
    /\ hostOk \in [Operators -> SUBSET Nat]
    /\ \A o \in Operators : /\ host[o] <= Len(HostsOf[o])
                            /\ hostOk[o] \subseteq DOMAIN HostsOf[o]
    /\ exit \in [Operators -> {"none", "completed", "failed", "lost", "not_found",
                    "lock_busy", "executor_busy", "idempotency_conflict"}]
    /\ \A o \in Operators : (mode[o] = "ended") = (exit[o] # "none")

\* The type invariant and JobsTraced, as one part of the plan and one of the daemons.
LEMMA TypeParts == TypeOK /\ JobsTraced <=> PlanOK /\ ExecutorOK
  BY DEF TypeOK, PlanOK, ExecutorOK

\* Where going on to the next step or the next host leads to.
LEMMA AdvanceOK ==
  ASSUME IInv, NEW o \in Operators, GoesOn(o)
  PROVE  PlanOK'
  <1> USE DEF IInv, TypeOK, PlanOK
  <1>1. /\ host[o] \in 1..Len(HostsOf[o]) /\ step[o] \in 1..Len(Steps)
        /\ Len(Steps) \in Nat /\ DOMAIN Steps = 1..Len(Steps)
        /\ Len(HostsOf[o]) \in Nat /\ DOMAIN HostsOf[o] = 1..Len(HostsOf[o])
        /\ 0 \in 0..BusyRetries
    <2>1. host[o] \in 1..Len(HostsOf[o]) /\ step[o] \in 1..Len(Steps)
      BY Position
    <2>2. 0 \in 0..BusyRetries
      BY FleetAssumption
    <2> QED
      BY <2>1, <2>2, PlanShape
  <1>2. /\ key' = key
        /\ job' = [job EXCEPT ![o] = NoJob]
        /\ attempt' = [attempt EXCEPT ![o] = 0]
    BY DEF GoesOn, Advance
  <1>3. CASE step[o] < Len(Steps)
    <2>1. /\ step' = [step EXCEPT ![o] = @ + 1]
          /\ mode' = [mode EXCEPT ![o] = "sending"]
          /\ UNCHANGED <<host, hostOk, exit>>
      BY <1>3 DEF GoesOn, Advance
    <2>2. step[o] + 1 \in DOMAIN Steps /\ mode[o] # "ended"
      BY <1>1, <1>3 DEF GoesOn, Waiting
    <2> QED
      BY <1>1, <1>2, <2>1, <2>2
  <1>4. CASE ~(step[o] < Len(Steps)) /\ host[o] < Len(HostsOf[o])
    <2>1. /\ hostOk' = [hostOk EXCEPT ![o] = @ \union {host[o]}]
          /\ host' = [host EXCEPT ![o] = @ + 1]
          /\ step' = [step EXCEPT ![o] = 1]
          /\ mode' = [mode EXCEPT ![o] = "sending"]
          /\ UNCHANGED exit
      BY <1>4 DEF GoesOn, Advance
    <2>2. host[o] + 1 \in Nat \ {0} /\ host[o] + 1 <= Len(HostsOf[o]) /\ 1 \in DOMAIN Steps
      BY <1>1, <1>4
    <2>3. hostOk[o] \union {host[o]} \in SUBSET Nat
          /\ hostOk[o] \union {host[o]} \subseteq DOMAIN HostsOf[o]
      BY <1>1
    <2>4. mode[o] # "ended"
      BY DEF GoesOn, Waiting
    <2> QED
      BY <1>1, <1>2, <2>1, <2>2, <2>3, <2>4
  <1>5. CASE ~(step[o] < Len(Steps)) /\ ~(host[o] < Len(HostsOf[o]))
    <2>1. /\ hostOk' = [hostOk EXCEPT ![o] = @ \union {host[o]}]
          /\ mode' = [mode EXCEPT ![o] = "ended"]
          /\ exit' = [exit EXCEPT ![o] = "completed"]
          /\ UNCHANGED <<host, step>>
      BY <1>5 DEF GoesOn, Advance
    <2>2. hostOk[o] \union {host[o]} \in SUBSET Nat
          /\ hostOk[o] \union {host[o]} \subseteq DOMAIN HostsOf[o]
      BY <1>1
    <2> QED
      BY <1>1, <1>2, <2>1, <2>2
  <1> QED
    BY <1>3, <1>4, <1>5

\* Every step keeps the types.
LEMMA TypeStep ==
  ASSUME IInv, [Next]_vars
  PROVE  PlanOK'
  <1> USE DEF IInv, TypeOK, PlanOK
  <1>1. ASSUME NEW o \in Operators, SendAdmitted(o) PROVE PlanOK'
    <2>1. PICK j \in Jobs : job' = [job EXCEPT ![o] = j]
      BY <1>1 DEF SendAdmitted, Fresh, On
    <2> QED
      BY <1>1, <2>1 DEF SendAdmitted
  <1>2. ASSUME NEW o \in Operators, SendReused(o) PROVE PlanOK'
    <2>1. PICK j \in Jobs : job' = [job EXCEPT ![o] = j]
      BY <1>2 DEF SendReused, Matching
    <2> QED
      BY <1>2, <2>1 DEF SendReused
  <1>3. ASSUME NEW o \in Operators, AnswerAccepted(o) PROVE PlanOK'
    BY <1>3 DEF AnswerAccepted
  <1>4. ASSUME NEW o \in Operators, NEW why \in Whys, Stops(o, why) PROVE PlanOK'
    BY <1>4 DEF Stops, Abort, Whys
  <1>5. ASSUME NEW o \in Operators, GoesOn(o) PROVE PlanOK'
    BY <1>5, AdvanceOK
  <1>6. ASSUME NEW o \in Operators, Retries(o) PROVE PlanOK'
    <2>1. attempt[o] + 1 \in 0..BusyRetries
      BY <1>6, FleetAssumption DEF Retries
    <2> QED
      BY <1>6, <2>1 DEF Retries
  <1>7. CASE UNCHANGED planVars
    BY <1>7 DEF planVars
  <1> QED
    BY <1>1, <1>2, <1>3, <1>4, <1>5, <1>6, <1>7, Kinds

-----------------------------------------------------------------------------
\* The request that is sent comes to wait for a job made for it.
LEMMA Sent ==
  ASSUME IInv, NEW o \in Operators, SendAdmitted(o) \/ SendReused(o)
  PROVE  /\ job'[o] \in Jobs
         /\ Home[job'[o]] = Here(o)
         /\ asked'[job'[o]].hash = Ask(o).hash
         /\ status'[job'[o]] # "none"
         /\ \A i \in Operators : i # o => job'[i] = job[i]
  <1> USE DEF IInv, TypeOK
  <1>1. CASE SendAdmitted(o)
    <2>1. PICK j \in Jobs : /\ Home[j] = Here(o)
                            /\ Admit(j, Ask(o))
                            /\ job' = [job EXCEPT ![o] = j]
      BY <1>1 DEF SendAdmitted, Fresh, On
    <2> QED
      BY <2>1 DEF Admit
  <1>2. CASE SendReused(o)
    <2>1. PICK j \in Jobs : /\ Home[j] = Here(o) /\ j \in memory
                            /\ asked[j].hash = Ask(o).hash
                            /\ job' = [job EXCEPT ![o] = j]
      BY <1>2 DEF SendReused, Matching, On
    <2>2. status[j] # "none"
      BY <2>1 DEF JobsTraced
    <2> QED
      BY <1>2, <2>1, <2>2 DEF SendReused, executorVars
  <1> QED
    BY <1>1, <1>2

\* Every step keeps what an invocation waits for.
LEMMA WaitsStep ==
  ASSUME IInv, [Next]_vars
  PROVE  WaitsForItsStep'
  <1>a. Grows
    BY GrowStep
  <1> DEFINE Wait(i) == /\ job[i] \in Jobs
                        /\ Home[job[i]] = Here(i)
                        /\ asked[job[i]].hash = Ask(i).hash
                        /\ status[job[i]] # "none"
  <1>b. ASSUME NEW i \in Operators, Wait(i),
               host'[i] = host[i], step'[i] = step[i], job'[i] = job[i]
        PROVE  Wait(i)'
    <2>1. Here(i)' = Here(i) /\ Ask(i)' = Ask(i)
      BY <1>a, <1>b DEF Here, Ask, RequestOf, Grows
    <2> QED
      BY <1>a, <1>b, <2>1 DEF Grows
  <1>1. ASSUME NEW o \in Operators, SendAdmitted(o) \/ SendReused(o)
        PROVE  WaitsForItsStep'
    <2>1. host' = host /\ step' = step /\ mode' = [mode EXCEPT ![o] = "waiting"]
      BY <1>1 DEF SendAdmitted, SendReused
    <2>2. Wait(o)'
      <3>1. Here(o)' = Here(o) /\ Ask(o)' = Ask(o)
        BY <1>a, <2>1 DEF Here, Ask, RequestOf, Grows
      <3> QED
        BY <1>1, <3>1, Sent
    <2>3. \A i \in Operators : i # o => job'[i] = job[i]
      BY <1>1, Sent
    <2>4. ASSUME NEW i \in Operators, i # o, Waiting(i)' PROVE Wait(i)'
      <3>1. Waiting(i)
        BY <2>1, <2>4 DEF Waiting, IInv, TypeOK
      <3>2. Wait(i)
        BY <3>1 DEF IInv, WaitsForItsStep
      <3>3. host'[i] = host[i] /\ step'[i] = step[i] /\ job'[i] = job[i]
        BY <2>1, <2>3, <2>4
      <3> QED
        BY <1>b, <3>2, <3>3
    <2> QED
      BY <2>2, <2>4 DEF WaitsForItsStep
  <1>2. ASSUME NEW o \in Operators,
               \/ AnswerAccepted(o)
               \/ \E why \in Whys : Stops(o, why)
               \/ GoesOn(o) \/ Retries(o)
        PROVE  WaitsForItsStep'
    <2>1. ASSUME NEW i \in Operators, Waiting(i)'
          PROVE  /\ Waiting(i) /\ host'[i] = host[i]
                 /\ step'[i] = step[i] /\ job'[i] = job[i]
      <3>1. CASE AnswerAccepted(o)
        BY <2>1, <3>1 DEF AnswerAccepted, Waiting, IInv, TypeOK
      <3>2. CASE \E why \in Whys : Stops(o, why)
        BY <2>1, <3>2 DEF Stops, Abort, Waiting, IInv, TypeOK
      <3>3. CASE GoesOn(o)
        <4>1. i # o
          BY <2>1, <3>3 DEF GoesOn, Advance, Waiting, IInv, TypeOK
        <4> QED
          BY <2>1, <3>3, <4>1 DEF GoesOn, Advance, Waiting, IInv, TypeOK
      <3>4. CASE Retries(o)
        BY <2>1, <3>4 DEF Retries, Waiting
      <3> QED
        BY <1>2, <3>1, <3>2, <3>3, <3>4
    <2>2. ASSUME NEW i \in Operators, Waiting(i)' PROVE Wait(i)'
      <3>1. Wait(i)
        BY <2>1, <2>2 DEF IInv, WaitsForItsStep
      <3> QED
        BY <1>b, <2>1, <2>2, <3>1
    <2> QED
      BY <2>2 DEF WaitsForItsStep
  <1>3. CASE UNCHANGED planVars
    <2>1. ASSUME NEW i \in Operators, Waiting(i)' PROVE Wait(i)'
      <3>1. Wait(i)
        BY <1>3, <2>1 DEF IInv, WaitsForItsStep, Waiting, planVars
      <3> QED
        BY <1>3, <1>b, <3>1 DEF planVars
    <2> QED
      BY <2>1 DEF WaitsForItsStep
  <1> QED
    BY <1>1, <1>2, <1>3, Kinds

-----------------------------------------------------------------------------
\* An invocation goes on when the step it is at has succeeded.
LEMMA SucceededHere ==
  ASSUME IInv, NEW o \in Operators, GoesOn(o)
  PROVE  Succeeded(o, host[o], step[o])
  <1>1. /\ job[o] \in Jobs
        /\ Home[job[o]] = HostsOf[o][host[o]]
        /\ asked[job[o]].hash = RequestOf(key[o], step[o]).hash
    BY DEF IInv, WaitsForItsStep, GoesOn, Here, Ask
  <1>2. "succeeded" \in {result[job[o]], disk[job[o]]}
    BY DEF GoesOn
  <1>3. job[o] \in started
    BY <1>1, <1>2 DEF IInv, JobsTraced
  <1> QED
    BY <1>1, <1>2, <1>3 DEF Succeeded

\* What is behind a position stays behind it.
LEMMA PassedStays ==
  ASSUME IInv, Grows, NEW o \in Operators, NEW h, NEW s, Passed(o, h, s)
  PROVE  Passed(o, h, s)'
  <1>1. ASSUME NEW h2 \in 1..h, NEW s2 \in DOMAIN Steps, h2 = h => s2 < s
        PROVE  Succeeded(o, h2, s2)'
    <2>1. Succeeded(o, h2, s2)
      BY <1>1 DEF Passed
    <2> QED
      BY <2>1, SuccessStays
  <1> QED
    BY <1>1 DEF Passed

\* The positions an invocation that goes on may come to.
LEMMA Positions ==
  ASSUME IInv, NEW o \in Operators, GoesOn(o)
  PROVE  /\ \/ /\ step[o] < Len(Steps)
               /\ host'[o] = host[o] /\ step'[o] = step[o] + 1
               /\ mode'[o] = "sending" /\ exit'[o] = "none"
               /\ UNCHANGED hostOk
            \/ /\ step[o] = Len(Steps)
               /\ host'[o] = host[o] + 1 /\ step'[o] = 1
               /\ mode'[o] = "sending" /\ exit'[o] = "none"
               /\ hostOk' = [hostOk EXCEPT ![o] = @ \union {host[o]}]
            \/ /\ step[o] = Len(Steps)
               /\ host'[o] = host[o] /\ step'[o] = step[o]
               /\ mode'[o] = "ended" /\ exit'[o] = "completed"
               /\ hostOk' = [hostOk EXCEPT ![o] = @ \union {host[o]}]
         /\ \A i \in Operators : i # o =>
               /\ host'[i] = host[i] /\ step'[i] = step[i]
               /\ mode'[i] = mode[i] /\ exit'[i] = exit[i] /\ job'[i] = job[i]
         /\ host[o] \in Nat \ {0} /\ step[o] \in Nat \ {0}
         /\ UNCHANGED <<executorVars, origin>>
  <1>1. /\ host[o] \in Nat \ {0} /\ step[o] \in 1..Len(Steps)
        /\ Len(Steps) \in Nat
    BY Position, PlanShape DEF IInv, TypeOK
  <1>2. /\ host \in [Operators -> Nat \ {0}]
        /\ step \in [Operators -> DOMAIN Steps]
        /\ mode \in [Operators -> {"sending", "waiting", "polling", "ended"}]
        /\ exit \in [Operators -> {"none", "completed", "failed", "lost", "not_found",
                        "lock_busy", "executor_busy", "idempotency_conflict"}]
        /\ job \in [Operators -> Jobs \union {NoJob}]
    BY DEF IInv, TypeOK
  <1>3. mode[o] # "ended" /\ exit[o] = "none"
    BY DEF IInv, TypeOK, GoesOn, Waiting
  <1>4. UNCHANGED <<executorVars, origin>>
    BY DEF GoesOn, Outside
  <1>5. Advance(o)
    BY DEF GoesOn
  <1> QED
    BY <1>1, <1>2, <1>3, <1>4, <1>5 DEF Advance

\* A job that was made was made for the same step ever after.
LEMMA MadeStays ==
  ASSUME IInv, Grows, NEW j \in Jobs, Made(j)
  PROVE  origin'[j] = origin[j] /\ asked'[j] = asked[j] /\ Made(j)'
  BY DEF IInv, JobsTraced, Grows, Made

\* Only admission makes a job, and it is made for the step that is due.
LEMMA MadeByAdmission ==
  ASSUME IInv, [Next]_vars, NEW j \in Jobs, ~Made(j), Made(j)'
  PROVE  \E o \in Operators : /\ SendAdmitted(o)
                              /\ origin'[j] = <<o, host[o], step[o]>>
                              /\ job'[o] = j
                              /\ \A k \in Jobs : k # j => origin'[k] = origin[k]
  <1> USE DEF IInv, TypeOK
  <1>1. ASSUME NEW o \in Operators, SendAdmitted(o)
        PROVE  /\ origin'[j] = <<o, host[o], step[o]>>
               /\ job'[o] = j
               /\ \A k \in Jobs : k # j => origin'[k] = origin[k]
    <2>1. PICK i \in Jobs : /\ origin' = [origin EXCEPT ![i] = <<o, host[o], step[o]>>]
                            /\ job' = [job EXCEPT ![o] = i]
      BY <1>1 DEF SendAdmitted, Fresh, On
    <2>2. i = j
      BY <2>1 DEF Made
    <2> QED
      BY <2>1, <2>2
  <1>2. CASE UNCHANGED origin
    BY <1>2 DEF Made
  <1>3. \/ \E o \in Operators : SendAdmitted(o)
        \/ UNCHANGED origin
    BY Kinds DEF SendReused, AnswerAccepted, Stops, GoesOn, Retries, Outside
  <1> QED
    BY <1>1, <1>2, <1>3

\* Every step keeps the gates.
LEMMA GatesStep ==
  ASSUME IInv, [Next]_vars
  PROVE  Gates' /\ HostOkIsTrue'
  <1>a. Grows
    BY GrowStep
  <1>b. ASSUME NEW i \in Operators, mode[i] # "ended",
               host'[i] = host[i], step'[i] = step[i]
        PROVE  Passed(i, host[i], step[i])'
    <2>1. Passed(i, host[i], step[i])
      BY <1>b DEF IInv, Gates
    <2>2. ASSUME NEW h, NEW s, h = host[i], s = step[i]
          PROVE  Passed(i, h, s)'
      BY <1>a, <2>1, <2>2, PassedStays
    <2>3. \A h, s : h = host[i] /\ s = step[i] => Passed(i, h, s)'
      BY <2>2
    <2> QED
      BY <1>b, <2>3 DEF Passed
  <1>c. ASSUME hostOk' = hostOk
        PROVE  HostOkIsTrue'
    <2>1. ASSUME NEW i \in Operators, NEW h \in hostOk[i], NEW s \in DOMAIN Steps
          PROVE  Succeeded(i, h, s)'
      <3>1. Succeeded(i, h, s)
        BY DEF IInv, HostOkIsTrue
      <3> QED
        BY <1>a, <3>1, SuccessStays
    <2> QED
      BY <1>c, <2>1 DEF HostOkIsTrue
  \* the positions of the invocations
  <1>1. \A i \in Operators : mode'[i] # "ended" => Passed(i, host[i], step[i])'
    <2>1. ASSUME NEW o \in Operators, GoesOn(o)
          PROVE  mode'[o] # "ended" => Passed(o, host[o], step[o])'
      <3>1. /\ Passed(o, host[o], step[o])
            /\ Succeeded(o, host[o], step[o])
        BY <2>1, SucceededHere DEF IInv, Gates, GoesOn, Waiting
      <3>2. host[o] \in Nat \ {0} /\ step[o] \in 1..Len(Steps)
            /\ DOMAIN Steps = 1..Len(Steps) /\ Len(Steps) \in Nat
        BY Position, PlanShape DEF IInv, TypeOK
      <3>3. ASSUME NEW h \in Nat, NEW s \in Nat, h = host'[o], s = step'[o],
                   mode'[o] # "ended"
            PROVE  Passed(o, h, s)
        <4>1. ASSUME NEW h2 \in 1..h, NEW s2 \in DOMAIN Steps, h2 = h => s2 < s
              PROVE  Succeeded(o, h2, s2)
          <5>1. \/ h2 \in 1..host[o] /\ (h2 = host[o] => s2 < step[o])
                \/ h2 = host[o] /\ s2 = step[o]
            BY <2>1, <3>2, <3>3, <4>1, Positions
          <5> QED
            BY <3>1, <5>1 DEF Passed
        <4> QED
          BY <4>1 DEF Passed
      <3>4. ASSUME NEW h \in Nat, NEW s \in Nat, h = host'[o], s = step'[o],
                   mode'[o] # "ended"
            PROVE  Passed(o, h, s)'
        BY <1>a, <3>3, <3>4, PassedStays
      <3>5. host'[o] \in Nat /\ step'[o] \in Nat
        BY <2>1, <3>2, Positions
      <3>6. ASSUME mode'[o] # "ended", NEW h2 \in 1..host'[o], NEW s2 \in DOMAIN Steps,
                   h2 = host'[o] => s2 < step'[o]
            PROVE  Succeeded(o, h2, s2)'
        <4>1. PICK h \in Nat, s \in Nat : h = host'[o] /\ s = step'[o]
          BY <3>5
        <4>2. Passed(o, h, s)'
          BY <3>4, <3>6, <4>1
        <4> QED
          BY <3>6, <4>1, <4>2 DEF Passed
      <3> QED
        BY <3>6 DEF Passed
    <2>2. ASSUME NEW o \in Operators, NEW i \in Operators, GoesOn(o), i # o,
                 mode'[i] # "ended"
          PROVE  Passed(i, host[i], step[i])'
      BY <1>b, <2>2, Positions
    <2>3. ASSUME NEW o \in Operators, NEW i \in Operators, mode'[i] # "ended",
                 \/ SendAdmitted(o) \/ SendReused(o) \/ AnswerAccepted(o)
                 \/ \E why \in Whys : Stops(o, why)
                 \/ Retries(o)
          PROVE  Passed(i, host[i], step[i])'
      <3>1. mode[i] # "ended" /\ host'[i] = host[i] /\ step'[i] = step[i]
        BY <2>3 DEF IInv, TypeOK, SendAdmitted, SendReused, AnswerAccepted, Stops,
                    Abort, Retries
      <3> QED
        BY <1>b, <3>1
    <2>4. ASSUME UNCHANGED planVars, NEW i \in Operators, mode'[i] # "ended"
          PROVE  Passed(i, host[i], step[i])'
      BY <1>b, <2>4 DEF planVars
    <2> QED
      BY <2>1, <2>2, <2>3, <2>4, Kinds
  \* the steps jobs were made for
  <1>2. ASSUME NEW j \in Jobs, Made(j)'
        PROVE  Passed(origin[j][1], origin[j][2], origin[j][3])'
    <2>1. CASE Made(j)
      <3>1. /\ Passed(origin[j][1], origin[j][2], origin[j][3])
            /\ origin'[j] = origin[j]
            /\ origin[j][1] \in Operators
        BY <1>a, <2>1, MadeStays DEF IInv, Gates, TypeOK, Made
      <3>2. PICK o, h, s :
                /\ o \in Operators
                /\ o = origin[j][1] /\ h = origin[j][2] /\ s = origin[j][3]
        BY <3>1
      <3>3. Passed(o, h, s)
        BY <3>1, <3>2
      <3>4. Passed(o, h, s)'
        BY <1>a, <3>2, <3>3, PassedStays
      <3>5. o = origin'[j][1] /\ h = origin'[j][2] /\ s = origin'[j][3]
        BY <3>1, <3>2
      <3> QED
        BY <3>4, <3>5 DEF Passed, Succeeded
    <2>2. CASE ~Made(j)
      <3>1. PICK o \in Operators : /\ SendAdmitted(o)
                                   /\ origin'[j] = <<o, host[o], step[o]>>
        BY <1>2, <2>2, MadeByAdmission
      <3>2. Passed(o, host[o], step[o])
        BY <3>1 DEF SendAdmitted, IInv, Gates
      <3>3. PICK h, s : h = host[o] /\ s = step[o]
        OBVIOUS
      <3>4. Passed(o, h, s)'
        BY <1>a, <3>2, <3>3, PassedStays
      <3>5. o = origin'[j][1] /\ h = origin'[j][2] /\ s = origin'[j][3]
        BY <3>1, <3>3
      <3> QED
        BY <3>4, <3>5 DEF Passed, Succeeded
    <2> QED
      BY <2>1, <2>2
  \* the hosts reported done
  <1>3. HostOkIsTrue'
    <2>1. ASSUME NEW o \in Operators, GoesOn(o)
          PROVE  HostOkIsTrue'
      <3>1. /\ Passed(o, host[o], step[o])
            /\ Succeeded(o, host[o], step[o])
            /\ hostOk \in [Operators -> SUBSET Nat]
            /\ step[o] \in 1..Len(Steps) /\ host[o] \in Nat \ {0}
            /\ DOMAIN Steps = 1..Len(Steps) /\ Len(Steps) \in Nat
        BY <2>1, SucceededHere, Position, PlanShape
        DEF IInv, Gates, GoesOn, Waiting, TypeOK
      <3>2. CASE hostOk' = hostOk
        BY <1>c, <3>2
      <3>3. CASE step[o] = Len(Steps) /\ hostOk' = [hostOk EXCEPT ![o] = @ \union {host[o]}]
        <4>1. ASSUME NEW i \in Operators, NEW h \in hostOk'[i], NEW s \in DOMAIN Steps
              PROVE  Succeeded(i, h, s)
          <5>1. CASE h \in hostOk[i]
            BY <5>1 DEF IInv, HostOkIsTrue
          <5>2. CASE h \notin hostOk[i]
            <6>1. i = o /\ h = host[o]
              BY <3>1, <3>3, <4>1, <5>2
            <6>2. h \in 1..host[o] /\ (s < step[o] \/ s = step[o])
              BY <3>1, <3>3, <6>1
            <6> QED
              BY <3>1, <6>1, <6>2 DEF Passed
          <5> QED
            BY <5>1, <5>2
        <4>2. ASSUME NEW i \in Operators, NEW h \in hostOk'[i], NEW s \in DOMAIN Steps
              PROVE  Succeeded(i, h, s)'
          BY <1>a, <4>1, <4>2, SuccessStays
        <4> QED
          BY <4>2 DEF HostOkIsTrue
      <3> QED
        BY <2>1, <3>2, <3>3, Positions
    <2>2. CASE hostOk' = hostOk
      BY <1>c, <2>2
    <2>3. \/ \E o \in Operators : GoesOn(o)
          \/ hostOk' = hostOk
      BY Kinds DEF SendAdmitted, SendReused, AnswerAccepted, Stops, Abort, Retries,
                   planVars
    <2> QED
      BY <2>1, <2>2, <2>3
  <1> QED
    BY <1>1, <1>2, <1>3 DEF Gates

-----------------------------------------------------------------------------
\* An invocation never comes back to a position it has left.
LEMMA OnceStep ==
  ASSUME IInv, [Next]_vars
  PROVE  OneJobEach'
  <1>a. Grows /\ JobsTraced /\ OneJobEach /\ TypeOK
    BY GrowStep DEF IInv
  <1> DEFINE At(j, i) == \/ Earlier(origin[j][2], origin[j][3], host[i], step[i])
                         \/ /\ origin[j][2] = host[i]
                            /\ origin[j][3] = step[i]
                            /\ mode[i] # "sending"
  <1>b. ASSUME NEW j \in Jobs, NEW i \in Operators, Made(j), origin[j][1] = i,
               host'[i] = host[i], step'[i] = step[i],
               mode[i] # "sending" => mode'[i] # "sending"
        PROVE  At(j, i)'
    BY <1>a, <1>b, MadeStays DEF OneJobEach, Earlier
  <1>c. ASSUME NEW j \in Jobs, Made(j)
        PROVE  /\ origin[j][1] \in Operators /\ origin[j][2] \in Nat
               /\ origin[j][3] \in Nat
    BY <1>a, <1>c, PlanShape DEF TypeOK, Made
  \* where the invocations are
  <1>1. ASSUME NEW j \in Jobs, NEW i \in Operators, Made(j), origin[j][1] = i
        PROVE  At(j, i)'
    <2>1. CASE GoesOn(i)
      <3>1. /\ origin'[j] = origin[j]
            /\ At(j, i)
        BY <1>a, <1>1, MadeStays DEF OneJobEach
      <3> QED
        BY <1>c, <1>1, <2>1, <3>1, Positions DEF Earlier
    <2>2. ASSUME NEW o \in Operators, GoesOn(o), i # o
          PROVE  At(j, i)'
      BY <1>1, <1>b, <2>2, Positions
    <2>3. ASSUME NEW o \in Operators,
                 \/ SendAdmitted(o) \/ SendReused(o) \/ AnswerAccepted(o)
                 \/ \E why \in Whys : Stops(o, why)
                 \/ Retries(o)
          PROVE  At(j, i)'
      <3>1. /\ host'[i] = host[i] /\ step'[i] = step[i]
            /\ mode[i] # "sending" => mode'[i] # "sending"
        BY <1>a, <2>3 DEF TypeOK, SendAdmitted, SendReused, AnswerAccepted, Stops,
                    Abort, Retries
      <3> QED
        BY <1>1, <1>b, <3>1
    <2>4. CASE UNCHANGED planVars
      BY <1>1, <1>b, <2>4 DEF planVars
    <2> QED
      BY <2>1, <2>2, <2>3, <2>4, Kinds
  \* the job that is made
  <1>2. ASSUME NEW j \in Jobs, ~Made(j), Made(j)', NEW i \in Operators, origin'[j][1] = i
        PROVE  At(j, i)'
    <2>1. PICK o \in Operators : /\ SendAdmitted(o)
                                 /\ origin'[j] = <<o, host[o], step[o]>>
      BY <1>2, MadeByAdmission
    <2>2. /\ o = i
          /\ host'[i] = host[i] /\ step'[i] = step[i] /\ mode'[i] = "waiting"
      BY <1>2, <1>a, <2>1 DEF SendAdmitted, TypeOK
    <2> QED
      BY <2>1, <2>2
  <1>3. ASSUME NEW j \in Jobs, NEW k \in Jobs, Made(j), ~Made(k), Made(k)',
               origin'[j] = origin'[k]
        PROVE  FALSE
    <2>1. PICK o \in Operators : /\ SendAdmitted(o)
                                 /\ origin'[k] = <<o, host[o], step[o]>>
      BY <1>3, MadeByAdmission
    <2>2. origin[j] = <<o, host[o], step[o]>>
      BY <1>3, <1>a, <2>1, MadeStays
    <2>3. At(j, o)
      BY <1>3, <1>a, <2>2 DEF OneJobEach
    <2>4. mode[o] = "sending" /\ host[o] \in Nat /\ step[o] \in Nat
      BY <1>a, <2>1, PlanShape DEF SendAdmitted, TypeOK
    <2> QED
      BY <2>2, <2>3, <2>4 DEF Earlier
  <1>4. ASSUME NEW j \in Jobs, NEW k \in Jobs, Made(j)', origin'[j] = origin'[k]
        PROVE  j = k
    <2>1. Made(k)'
      BY <1>4 DEF Made
    <2>2. CASE Made(j) /\ Made(k)
      BY <1>4, <1>a, <2>2, MadeStays DEF OneJobEach
    <2>3. CASE ~Made(j) /\ ~Made(k)
      BY <1>4, <2>1, <2>3, MadeByAdmission DEF Made
    <2> QED
      BY <1>3, <1>4, <2>1, <2>2, <2>3
  <1>5. \A j \in Jobs, i \in Operators : Made(j)' /\ origin'[j][1] = i => At(j, i)'
    <2> SUFFICES ASSUME NEW j \in Jobs, NEW i \in Operators, Made(j)', origin'[j][1] = i
                 PROVE  At(j, i)'
      OBVIOUS
    <2>1. CASE Made(j)
      BY <1>1, <1>a, <2>1, MadeStays
    <2> QED
      BY <1>2, <2>1
  <1> QED
    BY <1>4, <1>5 DEF OneJobEach

\* An invocation goes on or ends with a summary when its job is over.
LEMMA OwnStep ==
  ASSUME IInv, [Next]_vars
  PROVE  OwnJobsOver'
  <1>a. Grows /\ JobsTraced /\ OwnJobsOver /\ TypeOK
    BY GrowStep DEF IInv
  <1> DEFINE Over(j, i) ==
               /\ mode[i] # "ended" => ~Unfinished(j) \/ (Waiting(i) /\ job[i] = j)
               /\ exit[i] \in {"completed", "failed"} => ~Unfinished(j) \/ canceled[j]
  <1>b. ASSUME NEW j \in Jobs, Made(j)
        PROVE  /\ status[j] # "none"
               /\ ~Unfinished(j) => ~Unfinished(j)'
               /\ canceled[j] => canceled'[j]
    BY <1>a, <1>b DEF JobsTraced, Grows
  <1>1. ASSUME NEW j \in Jobs, NEW i \in Operators, Over(j, i), Made(j),
               mode'[i] = mode[i], exit'[i] = exit[i], job'[i] = job[i]
        PROVE  Over(j, i)'
    BY <1>1, <1>b DEF Waiting
  <1>2. ASSUME NEW j \in Jobs, NEW i \in Operators, Over(j, i), Made(j)
        PROVE  Over(j, i)'
    <2>1. CASE SendAdmitted(i) \/ SendReused(i)
      <3>1. mode[i] = "sending" /\ mode'[i] = "waiting" /\ exit'[i] = exit[i]
            /\ exit[i] = "none"
        BY <1>a, <2>1 DEF SendAdmitted, SendReused, TypeOK
      <3>2. ~Unfinished(j)
        BY <1>2, <3>1 DEF Waiting
      <3> QED
        BY <1>2, <1>b, <3>1, <3>2
    <2>2. CASE AnswerAccepted(i)
      <3>1. mode[i] = "waiting" /\ mode'[i] = "polling" /\ UNCHANGED <<exit, job>>
        BY <1>a, <2>2 DEF AnswerAccepted, TypeOK
      <3> QED
        BY <1>2, <1>b, <3>1 DEF Waiting
    <2>3. ASSUME NEW why \in Whys, Stops(i, why)
          PROVE  Over(j, i)'
      <3>1. mode[i] # "ended" /\ mode'[i] = "ended" /\ exit'[i] = why
        BY <1>a, <2>3 DEF Stops, Abort, TypeOK
      <3>2. why = "failed" => ~Unfinished(j) \/ canceled[j]
        BY <1>2, <2>3 DEF Stops, Waiting
      <3> QED
        BY <1>2, <1>b, <3>1, <3>2 DEF Whys
    <2>4. CASE GoesOn(i)
      <3>1. ~Unfinished(j)
        BY <1>2, <2>4 DEF GoesOn, Waiting
      <3> QED
        BY <1>2, <1>b, <3>1
    <2>5. CASE Retries(i)
      BY <1>1, <1>2, <2>5 DEF Retries
    <2>6. ASSUME NEW o \in Operators, o # i,
                 \/ SendAdmitted(o) \/ SendReused(o) \/ AnswerAccepted(o)
                 \/ \E why \in Whys : Stops(o, why)
                 \/ GoesOn(o) \/ Retries(o)
          PROVE  Over(j, i)'
      <3>1. mode'[i] = mode[i] /\ exit'[i] = exit[i] /\ job'[i] = job[i]
        <4>1. CASE SendAdmitted(o) \/ SendReused(o)
          BY <1>a, <2>6, <4>1, Sent DEF SendAdmitted, SendReused, TypeOK
        <4>2. CASE GoesOn(o)
          BY <2>6, <4>2, Positions
        <4>3. CASE AnswerAccepted(o) \/ (\E why \in Whys : Stops(o, why)) \/ Retries(o)
          BY <1>a, <2>6, <4>3 DEF AnswerAccepted, Stops, Abort, Retries, TypeOK
        <4> QED
          BY <2>6, <4>1, <4>2, <4>3
      <3> QED
        BY <1>1, <1>2, <3>1
    <2>7. CASE UNCHANGED planVars
      BY <1>1, <1>2, <2>7 DEF planVars
    <2> QED
      BY <2>1, <2>2, <2>3, <2>4, <2>5, <2>6, <2>7, Kinds
  <1>3. ASSUME NEW j \in Jobs, ~Made(j), Made(j)', NEW i \in Operators, origin'[j][1] = i
        PROVE  Over(j, i)'
    <2>1. PICK o \in Operators : /\ SendAdmitted(o)
                                 /\ origin'[j] = <<o, host[o], step[o]>>
                                 /\ job'[o] = j
      BY <1>3, MadeByAdmission
    <2>2. o = i
      BY <1>3, <2>1
    <2>3. mode[o] = "sending" /\ mode' = [mode EXCEPT ![o] = "waiting"] /\ exit' = exit
      BY <2>1 DEF SendAdmitted
    <2>4. mode'[i] = "waiting" /\ exit'[i] = "none"
      BY <1>a, <2>2, <2>3 DEF TypeOK
    <2> QED
      BY <2>1, <2>2, <2>4 DEF Waiting
  <1>4. ASSUME NEW j \in Jobs, NEW i \in Operators, Made(j)', origin'[j][1] = i
        PROVE  Over(j, i)'
    <2>1. CASE Made(j)
      <3>1. origin[j][1] = i
        BY <1>4, <1>a, <2>1, MadeStays
      <3>2. Over(j, i)
        BY <1>a, <2>1, <3>1 DEF OwnJobsOver
      <3> QED
        BY <1>2, <2>1, <3>2
    <2> QED
      BY <1>3, <1>4, <2>1
  <1> QED
    BY <1>4 DEF OwnJobsOver

-----------------------------------------------------------------------------
\* At the start nothing was made and every invocation is at its first step.
LEMMA InitIInv == ASSUME Init PROVE IInv
  <1> USE DEF Init, ExecutorInit
  <1>1. 1 \in DOMAIN Steps /\ (\A o \in Operators : 1 <= Len(HostsOf[o]))
        /\ 0 \in 0..BusyRetries /\ 0 \in 0..MaxRestarts
    BY PlanShape, FleetAssumption
  <1>2. TypeOK
    BY <1>1 DEF TypeOK
  <1>3. JobsTraced
    BY DEF JobsTraced, Made, Unfinished
  <1>4. Gates
    <2>1. \A o \in Operators : Passed(o, 1, 1)
      BY PlanShape DEF Passed
    <2> QED
      BY <2>1 DEF Gates, Made, Passed
  <1>5. WaitsForItsStep /\ HostOkIsTrue
    BY DEF WaitsForItsStep, Waiting, HostOkIsTrue
  <1>6. OneJobEach /\ OwnJobsOver
    BY DEF OneJobEach, OwnJobsOver, Made
  <1> QED
    BY <1>2, <1>3, <1>4, <1>5, <1>6 DEF IInv

\* The inductive invariant: what the daemons know of a job, what an invocation
\* waits for, what is behind its position, and whose jobs are over.
THEOREM Invariance == Spec => []IInv
  <1>1. IInv /\ [Next]_vars => IInv'
    BY GrowStep, TypeStep, WaitsStep, GatesStep, OnceStep, OwnStep
    DEF IInv, TypeOK, PlanOK, ExecutorOK
  <1> QED
    BY <1>1, InitIInv, PTL DEF Spec

\* The state has its shape, and an invocation has ended when it has an exit.
THEOREM TypeCorrect == Spec => []TypeOK
  <1>1. IInv => TypeOK
    BY DEF IInv
  <1> QED
    BY <1>1, Invariance, PTL

\* The plan is gated, whatever was lost, canceled or restarted in between: a
\* command starts only after every earlier step has succeeded (command_fleet_plan).
THEOREM StepsAreGated == Spec => []GatedSteps
  <1>1. IInv => GatedSteps
    <2> SUFFICES ASSUME IInv, NEW j \in started,
                        NEW p \in Before(origin[j][2], origin[j][3])
                 PROVE  Succeeded(origin[j][1], p[1], p[2])
      BY DEF GatedSteps
    <2>1. j \in Jobs /\ Made(j)
      BY DEF IInv, TypeOK, JobsTraced
    <2>2. Passed(origin[j][1], origin[j][2], origin[j][3])
      BY <2>1 DEF IInv, Gates
    <2>3. /\ p[1] \in 1..origin[j][2] /\ p[2] \in DOMAIN Steps
          /\ p[1] = origin[j][2] => p[2] < origin[j][3]
      BY DEF Before
    <2> QED
      BY <2>2, <2>3 DEF Passed
  <1> QED
    BY <1>1, Invariance, PTL

\* A step of an invocation starts its command at most once, over retries, lost
\* answers and restarts: only a certain refusal is sent again (execute_remote).
THEOREM StartsOnce == Spec => []StepStartsOnce
  <1>1. IInv => StepStartsOnce
    BY DEF IInv, TypeOK, JobsTraced, OneJobEach, StepStartsOnce, Made
  <1> QED
    BY <1>1, Invariance, PTL

\* A host counts as ok only if every command of the plan was started there and
\* succeeded, also where a job of another invocation was reused (prepareJob).
THEOREM DoneIsDone == Spec => []HostOkIsTrue
  <1>1. IInv => HostOkIsTrue
    BY DEF IInv
  <1> QED
    BY <1>1, Invariance, PTL

\* An invocation that ends with a summary leaves no command of its own behind
\* that may still run or start, except one that was canceled.
THEOREM NothingLeft == Spec => []NothingLeftRunning
  <1>1. IInv => NothingLeftRunning
    BY DEF IInv, OwnJobsOver, NothingLeftRunning, Made
  <1> QED
    BY <1>1, Invariance, PTL

\* An invocation is told lock_busy only for a job of somebody else: its own jobs
\* are over before it sends the next step (setResult and releaseJob of runJob).
THEOREM LockedOut == Spec => LockedOutByOthers
  <1> DEFINE Other(o) ==
               \E j \in On(Here(o)) : /\ Unfinished(j)
                                      /\ asked[j].lockKey = Ask(o).lockKey
                                      /\ origin[j][1] # o
             A == \A o \in Operators :
                     exit[o] = "none" /\ exit'[o] = "lock_busy" => Other(o)
  <1>1. ASSUME IInv, [Next]_vars, NEW o \in Operators,
               exit[o] = "none", exit'[o] = "lock_busy"
        PROVE  Other(o)
    <2>1. Stops(o, "lock_busy")
      <3>1. ASSUME NEW i \in Operators, GoesOn(i) PROVE exit'[o] # "lock_busy"
        BY <1>1, <3>1, Positions
      <3>2. ASSUME NEW i \in Operators, NEW why \in Whys, Stops(i, why)
            PROVE  i = o /\ why = "lock_busy"
        BY <1>1, <3>2 DEF Stops, Abort, IInv, TypeOK
      <3>3. exit' # exit
        BY <1>1
      <3> QED
        BY <1>1, <3>1, <3>2, <3>3, Kinds
        DEF SendAdmitted, SendReused, AnswerAccepted, Retries, planVars
    <2>2. mode[o] = "sending" /\ ~LockFree(Here(o), Ask(o))
      BY <2>1 DEF Stops
    <2>3. PICK j \in On(Here(o)) : Unfinished(j) /\ asked[j].lockKey = Ask(o).lockKey
      BY <2>2 DEF LockFree
    <2>4. j \in Jobs /\ Made(j)
      BY <1>1, <2>3 DEF On, IInv, JobsTraced, Unfinished
    <2>5. origin[j][1] # o
      BY <1>1, <2>2, <2>3, <2>4 DEF IInv, OwnJobsOver, Waiting
    <2> QED
      BY <2>3, <2>5
  <1>2. IInv /\ [Next]_vars => [A]_vars
    BY <1>1
  <1>3. [][Next]_vars /\ []IInv => [][A]_vars
    BY <1>2, PTL
  <1> QED
    BY <1>3, Invariance, PTL DEF Spec, LockedOutByOthers
=============================================================================
