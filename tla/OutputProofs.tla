---------------------------- MODULE OutputProofs ----------------------------
(***************************************************************************)
(* TLAPS proofs about Runner and Output: one execution with any limits of  *)
(* its output, any size of the pipes and any number of bytes, whatever the *)
(* payload does, whoever is killed and wherever output is lost.            *)
(***************************************************************************)
EXTENDS Output, RequestsProofs

\* A helper that has not started its payload, and one that is past its select.
Early == helper \in {"none", "decode"}
Late == helper \in {"report", "exited"}

\* The helper, its payload and its report.  KillLaunched may end a helper that
\* has reported, so that what is reported is tied to the leader, not to it.
HelperInv ==
    /\ Early => leader = "none"
    /\ helper \in {"select", "grace", "killed_group"} => leader # "none"
    /\ Early \/ helper = "select" => ~timedOut
    /\ leader = "none" => ~timedOut /\ member = "none"
    /\ Late \/ helper = "killed_group" => leader # "running"
    /\ helper = "killed_group" /\ member = "running" => ~memberIs.signaled
    /\ HelperLives => childResult = "none"
    /\ helper = "exited" => childResult # "none"
    /\ childResult # "none" => helper # "none" /\ leader # "running"
    /\ childResult = "succeeded" => leader = "exited_zero" /\ ~timedOut
    /\ childResult = "timed_out" => timedOut
    /\ timedOut /\ childResult # "none" => childResult = "timed_out"

\* The call and what it was told.  Whoever still holds the result pipe can only
\* have it from a process that does.
CallInv ==
    /\ daemon = "start" => helper = "none" /\ sudo = "none"
    /\ helper = "none" => member = "none" /\ childResult = "none"
    /\ res # "none" <=> daemon = "returned"
    /\ daemon = "returned" =>
          /\ ~Fd3Held
          /\ IF childResult = "none" THEN res \in {"failed", "start_failed"}
             ELSE res = childResult

RunnerInv == TypeOK /\ HelperInv /\ CallInv

-----------------------------------------------------------------------------
\* The invariant holds before anything is launched.
LEMMA InitRunner == ASSUME Init PROVE RunnerInv
  BY DEF Init, ChildInit, RunnerInv, TypeOK, HelperInv, CallInv, Early, Late,
         HelperLives, Fd3Held

\* A step of the helper while the daemon does nothing.
LEMMA HelperStepRunner ==
  ASSUME RunnerInv, HelperStep, UNCHANGED daemonVars
  PROVE  RunnerInv'
  <1> USE DEF RunnerInv, TypeOK, HelperInv, CallInv, Early, Late, HelperLives, Fd3Held,
              daemonVars
  <1>1. CASE StartPayload
    BY <1>1 DEF StartPayload
  <1>2. CASE StartPayloadFails
    BY <1>2 DEF StartPayloadFails
  <1>3. CASE WaitReturns
    BY <1>3 DEF WaitReturns, LeaderGone
  <1>4. CASE Timeout
    BY <1>4 DEF Timeout, Signal
  <1>5. CASE GraceWaitReturns
    BY <1>5 DEF GraceWaitReturns, LeaderGone
  <1>6. CASE GraceOver
    BY <1>6 DEF GraceOver, Signal
  <1>7. CASE KillWaitReturns
    BY <1>7 DEF KillWaitReturns, LeaderGone
  <1>8. CASE Report
    BY <1>8 DEF Report, Outcomes
  <1> QED
    BY <1>1, <1>2, <1>3, <1>4, <1>5, <1>6, <1>7, <1>8 DEF HelperStep

\* What the payload does by itself.
LEMMA PayloadStepRunner ==
  ASSUME RunnerInv, PayloadStep, UNCHANGED daemonVars
  PROVE  RunnerInv'
  <1> USE DEF RunnerInv, TypeOK, HelperInv, CallInv, Early, Late, HelperLives, Fd3Held,
              daemonVars
  <1>1. CASE LeaderExits
    BY <1>1 DEF LeaderExits
  <1>2. CASE LeaderForks
    BY <1>2 DEF LeaderForks
  <1>3. CASE MemberExits
    BY <1>3 DEF MemberExits
  <1> QED
    BY <1>1, <1>2, <1>3 DEF PayloadStep

\* A step of the daemon, of sudo or of the context.
LEMMA DaemonStepRunner ==
  ASSUME RunnerInv, DaemonStep \/ SudoExits \/ HelperLosesPipe \/ ContextEnds
  PROVE  RunnerInv'
  <1> USE DEF RunnerInv, TypeOK, HelperInv, CallInv, Early, Late, HelperLives, Fd3Held,
              daemonVars, childVars
  <1>1. CASE Start
    BY <1>1 DEF Start
  <1>2. CASE StartFails
    BY <1>2 DEF StartFails
  <1>3. CASE KillLaunched
    BY <1>3 DEF KillLaunched
  <1>4. CASE ReapLaunched
    BY <1>4 DEF ReapLaunched
  <1>5. CASE ReadResult
    BY <1>5 DEF ReadResult
  <1>6. CASE SudoExits \/ ContextEnds
    BY <1>6 DEF SudoExits, ContextEnds
  <1>7. CASE HelperLosesPipe
    BY <1>7 DEF HelperLosesPipe, BrokenPipe
  <1> QED
    BY <1>1, <1>2, <1>3, <1>4, <1>5, <1>6, <1>7 DEF DaemonStep

\* Every step of the two processes keeps it.
LEMMA RunnerStep == ASSUME RunnerInv, [Next]_vars PROVE RunnerInv'
  <1>1. CASE UNCHANGED vars
    BY <1>1 DEF vars, childVars, daemonVars, RunnerInv, TypeOK, HelperInv, CallInv,
                Early, Late, HelperLives, Fd3Held
  <1> QED
    BY <1>1, HelperStepRunner, PayloadStepRunner, DaemonStepRunner DEF Next

\* The inductive invariant of one execution.
THEOREM RunnerInvariance == Spec => []RunnerInv
  BY InitRunner, RunnerStep, PTL DEF Spec

\* When runViaChild returns, no payload process runs that has not given up the
\* result pipe, and the helper is gone, whoever was killed (runner.go 83-123).
THEOREM Quiet == Spec => []QuietWhenReturned
  <1>1. RunnerInv => QuietWhenReturned
    BY DEF RunnerInv, CallInv, QuietWhenReturned, Fd3Held
  <1> QED
    BY <1>1, RunnerInvariance, PTL

\* The state that is reported is what happened (runPayload and runViaChild).
THEOREM OutcomeTold == Spec => []OutcomeIsTrue
  <1>1. RunnerInv => OutcomeIsTrue
    BY DEF RunnerInv, TypeOK, HelperInv, CallInv, OutcomeIsTrue
  <1> QED
    BY <1>1, RunnerInvariance, PTL

\* A helper reports only once its leader has ended, and after its SIGKILL nobody
\* runs that its signals reach (runPayload of child.go).
THEOREM Reaped == Spec => []ReapedBeforeReport
  <1>1. RunnerInv => ReapedBeforeReport
    BY DEF RunnerInv, HelperInv, Late, ReapedBeforeReport
  <1> QED
    BY <1>1, RunnerInvariance, PTL

-----------------------------------------------------------------------------
\* The bytes: what the stages hold, what is cut off and what is lost.

\* The limits of a normalized request, and the state's shape.
BytesOK ==
    /\ req \in RawRequest
    /\ req.maxStdoutBytes \in Nat /\ req.maxStdoutLogBytes \in Nat
    /\ written \in 0..MaxWritten
    /\ unread \in 0..PipeSize /\ sent \in 0..PipeSize
    /\ hand \in 0..1
    /\ forwarded \in 0..req.maxStdoutLogBytes
    /\ log \in Nat /\ kept \in Nat
    /\ teeTruncated \in BOOLEAN /\ truncated \in BOOLEAN
    /\ copying \in BOOLEAN /\ dropped \in BOOLEAN

\* Up to the helper's copy: what it has cut off is what is missing.
TeeInv ==
    /\ forwarded + hand + unread <= written
    /\ teeTruncated => /\ forwarded = req.maxStdoutLogBytes
                       /\ forwarded + hand + unread < written
    /\ dropped \/ teeTruncated \/ forwarded + hand + unread = written

\* From there to the log and the buffer of the daemon.
FileInv ==
    /\ log + sent <= forwarded
    /\ dropped \/ log + sent = forwarded
    /\ truncated => kept = req.maxStdoutBytes /\ log > kept
    /\ ~truncated => kept <= log /\ kept <= req.maxStdoutBytes
    /\ ~truncated /\ copying => kept = log

\* When the stages are empty: before the payload runs, once cmd.Wait of the
\* helper or of the daemon has closed their pipe, and once a copy is awaited.
PipesInv ==
    /\ Early \/ Late \/ helper = "killed" => unread = 0
    /\ Early \/ helper \in {"exited", "killed"} => hand = 0
    /\ daemon \in {"start", "reading", "returned"} => sent = 0

BytesInv == BytesOK /\ TeeInv /\ FileInv /\ PipesInv

OutputInv == RunnerInv /\ BytesInv

-----------------------------------------------------------------------------
\* What the job is for is a request within the limits.
LEMMA RequestShape ==
  ASSUME NEW r \in RawRequest, Accepted(r)
  PROVE  /\ Normalized(r) \in RawRequest
         /\ Normalized(r).maxStdoutBytes \in Nat
         /\ Normalized(r).maxStdoutLogBytes \in Nat
  <1> DEFINE n == Normalized(r)
  <1>1. /\ n.maxStdoutBytes \in Nat /\ n.maxStdoutBytes <= n.maxStdoutLogBytes
        /\ InLimits(n)
    BY AcceptedInLimits
  <1>2. /\ n.timeoutSec \in Int /\ n.waitSec \in Int /\ n.killGraceSec \in Int
        /\ n.maxStdoutBytes \in Int /\ n.maxStdoutLogBytes \in Int
        /\ n.maxStderrBytes \in Int /\ n.maxStderrLogBytes \in Int
    BY LimitsAreInts DEF RawRequest, Normalized, Default, Numbers
  <1>3. /\ n.privilege \in {"user", "root"} /\ n.mode \in {"shell", "argv"}
        /\ n.cwd \in STRING
    BY SettingsAssumption DEF Accepted, Valid, CwdAllowed
  <1>4. /\ n.root = r.root /\ n.command = r.command /\ n.stdin = r.stdin
        /\ n.longestValue = r.longestValue /\ n.waitSecSet = r.waitSecSet
        /\ n.env = r.env /\ n.lockKey = r.lockKey
        /\ n.idempotencyKey = r.idempotencyKey
    BY DEF Normalized
  <1>5. n = [root |-> n.root, privilege |-> n.privilege, mode |-> n.mode,
             command |-> n.command, stdin |-> n.stdin, longestValue |-> n.longestValue,
             timeoutSec |-> n.timeoutSec, waitSec |-> n.waitSec,
             waitSecSet |-> n.waitSecSet, killGraceSec |-> n.killGraceSec,
             maxStdoutBytes |-> n.maxStdoutBytes,
             maxStdoutLogBytes |-> n.maxStdoutLogBytes,
             maxStderrBytes |-> n.maxStderrBytes,
             maxStderrLogBytes |-> n.maxStderrLogBytes, cwd |-> n.cwd, env |-> n.env,
             lockKey |-> n.lockKey, idempotencyKey |-> n.idempotencyKey]
    BY DEF Normalized
  <1> HIDE DEF n
  <1>6. n \in RawRequest
    BY <1>2, <1>3, <1>4, <1>5 DEF RawRequest
  <1>7. n.maxStdoutLogBytes \in Nat
    BY <1>1, <1>2
  <1> QED
    BY <1>1, <1>6, <1>7 DEF n

\* What is stored and on its way was on its way or stored before.
LEMMA Fewer ==
  ASSUME NEW a \in Nat, NEW b \in Nat, NEW c \in Nat, NEW d \in Nat, NEW all \in Nat,
         a + b <= c + d, c + d <= all
  PROVE  a + b <= all
  OBVIOUS

\* A flag that is set when a condition holds.
LEMMA Flag ==
  ASSUME NEW old \in BOOLEAN, NEW cond \in BOOLEAN, NEW new, new = (old \/ cond)
  PROVE  /\ new \in BOOLEAN
         /\ cond => new = TRUE
         /\ ~cond => new = old
  OBVIOUS

\* The invariant of the copies holds before anything is written.
LEMMA InitOutput == ASSUME OutputInit PROVE OutputInv
  <1>1. PICK r \in RawRequests : Accepted(r) /\ req = Normalized(r)
    BY DEF OutputInit
  <1>2. /\ req \in RawRequest
        /\ req.maxStdoutBytes \in Nat /\ req.maxStdoutLogBytes \in Nat
    BY <1>1, RequestShape, OutputAssumption
  <1>3. RunnerInv
    BY InitRunner DEF OutputInit
  <1>4. /\ written = 0 /\ unread = 0 /\ hand = 0 /\ forwarded = 0 /\ sent = 0
        /\ log = 0 /\ kept = 0
        /\ teeTruncated = FALSE /\ truncated = FALSE
        /\ copying = TRUE /\ dropped = FALSE
    BY DEF OutputInit
  <1>5. BytesOK
    <2>1. /\ written \in 0..MaxWritten /\ unread \in 0..PipeSize /\ sent \in 0..PipeSize
          /\ hand \in 0..1 /\ forwarded \in 0..req.maxStdoutLogBytes
          /\ log \in Nat /\ kept \in Nat
      BY <1>2, <1>4, OutputAssumption
    <2>2. /\ teeTruncated \in BOOLEAN /\ truncated \in BOOLEAN
          /\ copying \in BOOLEAN /\ dropped \in BOOLEAN
      BY <1>4
    <2> QED
      BY <1>2, <2>1, <2>2 DEF BytesOK
  <1>6. TeeInv /\ FileInv /\ PipesInv
    BY <1>2, <1>4 DEF TeeInv, FileInv, PipesInv
  <1>7. BytesInv
    BY <1>5, <1>6 DEF BytesInv
  <1> QED
    BY <1>3, <1>7 DEF OutputInv

-----------------------------------------------------------------------------
\* The steps of the bytes leave the execution where it is.
LEMMA ByteSteps ==
  ASSUME OutputInv,
         \/ PayloadWrites \/ HelperReads \/ TeeCuts \/ TeeForwards
         \/ DaemonCopies \/ DaemonCopyFails
  PROVE  BytesInv' /\ UNCHANGED vars
  <1> USE OutputAssumption
      DEF OutputInv, BytesInv, BytesOK, TeeInv, FileInv, PipesInv, teeVars, fileVars
  <1>0. UNCHANGED vars
    BY DEF PayloadWrites, HelperReads, TeeCuts, TeeForwards, DaemonCopies, DaemonCopyFails
  <1>a. Early' = Early /\ Late' = Late /\ UNCHANGED <<helper, daemon>>
    BY <1>0 DEF vars, childVars, daemonVars, Early, Late
  <1>1. CASE PayloadWrites
    BY <1>1, <1>a DEF PayloadWrites, PipeOpen, Early, Late
  <1>2. CASE HelperReads
    BY <1>2, <1>a DEF HelperReads, PipeOpen, Early, Late
  <1>3. CASE TeeCuts
    BY <1>3, <1>a DEF TeeCuts
  <1>4. CASE TeeForwards
    BY <1>4, <1>a DEF TeeForwards
  <1>5. CASE DaemonCopies
    <2>1. PICK n \in 1..sent : sent' = sent - n /\ log' = log + n /\ BufferWrite(n)
      BY <1>5 DEF DaemonCopies
    <2>2. /\ copying = TRUE /\ daemon = "waiting"
          /\ UNCHANGED <<req, written, unread, hand, forwarded, teeTruncated,
                         copying, dropped>>
      BY <1>5 DEF DaemonCopies
    <2>3. n \in Nat /\ n > 0 /\ n <= sent /\ sent \in Nat
      BY <2>1
    <2>4. sent' \in 0..PipeSize /\ log' \in Nat /\ log' + sent' = log + sent
      BY <2>1, <2>3
    <2>5. /\ truncated' \in BOOLEAN
          /\ kept + n > req.maxStdoutBytes => truncated' = TRUE
          /\ ~(kept + n > req.maxStdoutBytes) => truncated' = truncated
      <3>1. truncated \in BOOLEAN /\ (kept + n > req.maxStdoutBytes) \in BOOLEAN
            /\ truncated' = (truncated \/ kept + n > req.maxStdoutBytes)
        BY <2>1 DEF BufferWrite
      <3> QED
        BY <3>1, Flag
    <2>6. kept' = IF kept + n <= req.maxStdoutBytes THEN kept + n ELSE req.maxStdoutBytes
      BY <2>1 DEF BufferWrite
    <2>7. kept' \in Nat
      BY <2>3, <2>6
    <2>8. /\ truncated' => kept' = req.maxStdoutBytes /\ log' > kept'
          /\ ~truncated' => kept' = log' /\ kept' <= req.maxStdoutBytes
      <3>1. CASE kept + n > req.maxStdoutBytes
        BY <2>1, <2>2, <2>3, <2>5, <2>6, <3>1
      <3>2. CASE ~(kept + n > req.maxStdoutBytes)
        <4>1. truncated' = FALSE /\ truncated = FALSE
          BY <2>2, <2>3, <2>5, <3>2
        <4> QED
          BY <2>1, <2>2, <2>3, <2>6, <3>2, <4>1
      <3> QED
        BY <3>1, <3>2
    <2>9. BytesOK'
      BY <2>2, <2>4, <2>5, <2>7
    <2>10. TeeInv'
      BY <2>2
    <2>11. FileInv'
      <3>1. log' + sent' <= forwarded' /\ (dropped' \/ log' + sent' = forwarded')
        BY <2>2, <2>4
      <3>2. ~truncated' => kept' <= log' /\ kept' <= req'.maxStdoutBytes
        BY <2>2, <2>4, <2>7, <2>8
      <3> QED
        BY <2>2, <2>8, <3>1, <3>2
    <2>12. PipesInv'
      BY <1>a, <2>2
    <2> QED
      BY <1>0, <2>9, <2>10, <2>11, <2>12
  <1>6. CASE DaemonCopyFails
    <2>1. PICK n \in 1..sent, stored \in 0..(sent - 1) :
             stored < n /\ sent' = sent - n /\ log' = log + stored
      BY <1>6 DEF DaemonCopyFails
    <2>2. /\ dropped' = TRUE /\ copying' = FALSE /\ daemon = "waiting"
          /\ UNCHANGED <<req, written, unread, hand, forwarded, teeTruncated,
                         kept, truncated>>
      BY <1>6 DEF DaemonCopyFails
    <2>3. /\ sent' \in 0..PipeSize /\ log' \in Nat /\ log <= log'
          /\ log' + sent' <= log + sent
      BY <2>1
    <2>4. BytesOK'
      BY <2>2, <2>3
    <2>5. TeeInv' /\ FileInv'
      <3>1. log' + sent' <= forwarded'
        <4>1. /\ log' \in Nat /\ sent' \in Nat /\ log \in Nat /\ sent \in Nat
              /\ forwarded \in Nat /\ forwarded' = forwarded
              /\ log + sent <= forwarded
          BY <2>2, <2>3
        <4>2. log' + sent' <= log + sent
          BY <2>3
        <4> QED
          BY <4>1, <4>2, Fewer
      <3>2. truncated => log' > kept
        BY <2>3
      <3>3. ~truncated => kept <= log'
        BY <2>3
      <3> QED
        BY <2>2, <3>1, <3>2, <3>3
    <2>6. PipesInv'
      BY <1>a, <2>2
    <2> QED
      BY <1>0, <2>4, <2>5, <2>6
  <1> QED
    BY <1>0, <1>1, <1>2, <1>3, <1>4, <1>5, <1>6

\* The steps of the helper: a closed pipe is empty, and an awaited copy too.
LEMMA HelperBytes ==
  ASSUME OutputInv, HelperMoves
  PROVE  BytesInv' /\ HelperStep /\ UNCHANGED daemonVars
  <1> USE OutputAssumption
      DEF OutputInv, BytesInv, BytesOK, TeeInv, FileInv, PipesInv, teeVars, fileVars,
          Early, Late
  <1>1. CASE HelperWaits
    <2>1. /\ helper \in {"select", "grace", "killed_group"} /\ helper' = "report"
          /\ HelperStep /\ UNCHANGED <<daemon, sudo, ctx, res>>
      BY <1>1 DEF HelperWaits, WaitReturns, GraceWaitReturns, KillWaitReturns,
                  HelperStep, daemonVars
    <2> QED
      <3>1. /\ unread' = 0 /\ dropped' = (dropped \/ unread > 0)
            /\ UNCHANGED <<req, written, hand, forwarded, teeTruncated, sent, log,
                           kept, truncated, copying>>
        BY <1>1 DEF HelperWaits
      <3>2. dropped' \in BOOLEAN /\ (dropped' = FALSE => dropped = FALSE /\ unread = 0)
        <4>1. dropped \in BOOLEAN /\ (unread > 0) \in BOOLEAN /\ unread \in Nat
          OBVIOUS
        <4>2. /\ dropped' \in BOOLEAN
              /\ unread > 0 => dropped' = TRUE
              /\ ~(unread > 0) => dropped' = dropped
          BY <3>1, <4>1, Flag
        <4> QED
          BY <4>1, <4>2
      <3>3. BytesOK'
        BY <3>1, <3>2
      <3>4. TeeInv' /\ FileInv'
        BY <3>1, <3>2
      <3>5. PipesInv'
        BY <2>1, <3>1
      <3> QED
        BY <2>1, <3>3, <3>4, <3>5 DEF daemonVars
  <1>2. CASE HelperReports
    BY <1>2 DEF HelperReports, Report, HelperStep, daemonVars, outputVars
  <1>3. CASE HelperGoesOn
    BY <1>3 DEF HelperGoesOn, StartPayload, StartPayloadFails, Timeout, GraceOver,
                HelperStep, daemonVars, outputVars
  <1> QED
    BY <1>1, <1>2, <1>3 DEF HelperMoves

\* The steps of the daemon, and the ends of the helper.
LEMMA DaemonBytes ==
  ASSUME OutputInv, DaemonMoves \/ HelperPipeBreaks
  PROVE  BytesInv' /\ (DaemonStep \/ HelperLosesPipe)
  <1> USE OutputAssumption
      DEF OutputInv, BytesInv, BytesOK, TeeInv, FileInv, PipesInv, teeVars, fileVars,
          Early, Late, outputVars, childVars, daemonVars
  <1>1. CASE DaemonKills
    <2>1. /\ KillLaunched /\ daemon' = daemon /\ daemon = "waiting"
          /\ helper' \in {helper, "killed"}
      BY <1>1 DEF DaemonKills, KillLaunched
    <2>2. CASE helper' = "killed"
      BY <1>1, <2>1, <2>2 DEF DaemonKills, HelperDies, DaemonStep
    <2>3. CASE helper' # "killed"
      BY <1>1, <2>1, <2>3 DEF DaemonKills, DaemonStep
    <2> QED
      BY <2>2, <2>3
  <1>2. CASE DaemonWaits
    <2>1. /\ sent' = 0 /\ dropped' = (dropped \/ sent > 0)
          /\ UNCHANGED <<req, written, unread, hand, forwarded, teeTruncated, log,
                         kept, truncated, copying>>
          /\ daemon' = "reading" /\ helper' = helper
          /\ ReapLaunched
      BY <1>2 DEF DaemonWaits, ReapLaunched
    <2>2. dropped' \in BOOLEAN /\ (dropped' = FALSE => dropped = FALSE /\ sent = 0)
      <3>1. dropped \in BOOLEAN /\ (sent > 0) \in BOOLEAN /\ sent \in Nat
        OBVIOUS
      <3>2. /\ dropped' \in BOOLEAN
            /\ sent > 0 => dropped' = TRUE
            /\ ~(sent > 0) => dropped' = dropped
        BY <2>1, <3>1, Flag
      <3> QED
        BY <3>1, <3>2
    <2>3. BytesOK'
      BY <2>1, <2>2
    <2>4. TeeInv' /\ FileInv'
      BY <2>1, <2>2
    <2>5. PipesInv'
      BY <2>1
    <2> QED
      BY <2>1, <2>3, <2>4, <2>5 DEF DaemonStep
  <1>3. CASE DaemonGoesOn
    <2>1. /\ Start \/ StartFails \/ ReadResult
          /\ daemon' \in {"waiting", "returned"}
          /\ helper' \in {helper, "decode"}
          /\ daemon \in {"start", "reading"} /\ (daemon = "start" => helper = "none")
          /\ helper' = "decode" => helper \in {"none", "decode"}
      BY <1>3 DEF DaemonGoesOn, Start, StartFails, ReadResult, RunnerInv, CallInv
    <2> QED
      BY <1>3, <2>1 DEF DaemonGoesOn, DaemonStep
  <1>4. CASE HelperPipeBreaks
    <2>1. HelperLosesPipe /\ helper' = "killed" /\ daemon' = daemon
      BY <1>4 DEF HelperPipeBreaks, HelperLosesPipe, BrokenPipe
    <2> QED
      BY <1>4, <2>1 DEF HelperPipeBreaks, HelperDies
  <1> QED
    BY <1>1, <1>2, <1>3, <1>4 DEF DaemonMoves

\* What happens around them.
LEMMA SurroundingBytes ==
  ASSUME OutputInv, Surroundings
  PROVE  BytesInv' /\ (SudoExits \/ ContextEnds \/ (PayloadStep /\ UNCHANGED daemonVars))
  BY DEF Surroundings, SudoExits, ContextEnds, PayloadStep, LeaderExits, LeaderForks,
         MemberExits, OutputInv, BytesInv, BytesOK, TeeInv, FileInv, PipesInv, teeVars,
         fileVars, Early, Late, outputVars, childVars, daemonVars

\* A step of the composition is a step of Runner or leaves it where it is.
LEMMA OutputStep ==
  ASSUME OutputInv, [OutputNext]_allVars
  PROVE  OutputInv' /\ [Next]_vars
  <1>1. CASE PayloadWrites \/ HelperReads \/ TeeCuts \/ TeeForwards
             \/ DaemonCopies \/ DaemonCopyFails
    <2>1. BytesInv' /\ UNCHANGED vars
      BY <1>1, ByteSteps
    <2> QED
      BY <2>1, RunnerStep DEF OutputInv
  <1>2. CASE HelperMoves
    <2>1. BytesInv' /\ Next
      BY <1>2, HelperBytes DEF Next
    <2> QED
      BY <2>1, RunnerStep DEF OutputInv
  <1>3. CASE DaemonMoves \/ HelperPipeBreaks
    <2>1. BytesInv' /\ Next
      BY <1>3, DaemonBytes DEF Next
    <2> QED
      BY <2>1, RunnerStep DEF OutputInv
  <1>4. CASE Surroundings
    <2>1. BytesInv' /\ Next
      BY <1>4, SurroundingBytes DEF Next
    <2> QED
      BY <2>1, RunnerStep DEF OutputInv
  <1>5. CASE UNCHANGED allVars
    <2>1. BytesInv' /\ UNCHANGED vars
      BY <1>5 DEF allVars, vars, childVars, daemonVars, outputVars, OutputInv, BytesInv,
                  BytesOK, TeeInv, FileInv, PipesInv, teeVars, fileVars, Early, Late
    <2> QED
      BY <2>1, RunnerStep DEF OutputInv
  <1> QED
    BY <1>1, <1>2, <1>3, <1>4, <1>5 DEF OutputNext, HelperCopyMoves, DaemonCopyMoves

\* The inductive invariant of an execution with its output.
THEOREM OutputInvariance == OutputSpec => []OutputInv
  BY InitOutput, OutputStep, PTL DEF OutputSpec

\* The output is carried beside the execution: with it, every behavior is one of
\* Runner, so that what is proved of Runner holds there too.
THEOREM OutputIsRunner == OutputSpec => Spec
  <1>1. OutputInit => Init
    BY DEF OutputInit
  <1>2. OutputInv /\ [OutputNext]_allVars => [Next]_vars
    BY OutputStep
  <1> QED
    BY <1>1, <1>2, OutputInvariance, PTL DEF OutputSpec, Spec

\* The state has its shape; in particular no pipe holds more than its size.
THEOREM OutputTypes == OutputSpec => []OutputTypeOK
  <1>1. OutputInv => OutputTypeOK
    BY DEF OutputInv, RunnerInv, BytesInv, BytesOK, OutputTypeOK
  <1> QED
    BY <1>1, OutputInvariance, PTL

\* stdout_truncated is set only if the answer is full and stdout.log has more, and
\* if it is not set the two are the same, unless a write of the log failed, when it
\* may have more; the log stays within its limit, and its flag is not set for
\* output that fits (cappedBuffer and cappedTeeWriter, in two processes).
THEOREM FlagsTold == OutputSpec => []FlagsAreTrue
  <1>1. OutputInv => FlagsAreTrue
    BY DEF OutputInv, BytesInv, BytesOK, TeeInv, FileInv, FlagsAreTrue, LogTruncated
  <1> QED
    BY <1>1, OutputInvariance, PTL

\* Output that was not lost in one of the four places is in the log up to its
\* limit, and the flag says exactly whether there was more.
THEOREM OutputKept == OutputSpec => []OutputAccounted
  <1>1. OutputInv => OutputAccounted
    <2> SUFFICES ASSUME OutputInv, daemon = "returned", helper = "exited", ~dropped
                 PROVE  /\ log = IF written > req.maxStdoutLogBytes
                                 THEN req.maxStdoutLogBytes ELSE written
                        /\ LogTruncated = (written > req.maxStdoutLogBytes)
      BY DEF OutputAccounted
    <2>1. unread = 0 /\ hand = 0 /\ sent = 0
      BY DEF OutputInv, BytesInv, PipesInv, Late
    <2>2. childResult # "none"
      BY DEF OutputInv, RunnerInv, HelperInv
    <2> QED
      BY <2>1, <2>2
      DEF OutputInv, BytesInv, BytesOK, TeeInv, FileInv, LogTruncated
  <1> QED
    BY <1>1, OutputInvariance, PTL
=============================================================================
