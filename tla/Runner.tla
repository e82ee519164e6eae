------------------------------- MODULE Runner -------------------------------
(***************************************************************************)
(* One runViaChild call of the daemon (runner.go 31-123) with the sudo     *)
(* process it launches and the helper and payload behind it (ChildRun).    *)
(* The call returns when sudo has been reaped and the result pipe is at    *)
(* its end, that is, when nobody holds its write end any more.             *)
(***************************************************************************)
EXTENDS ChildRun

CONSTANTS
    KillReaches     \* what os.Process.Kill on sudo may end: "nothing", where
                    \* sudo is root's and the daemon is not, as it is installed;
                    \* "sudo" alone, or "helper" if it has taken sudo's place,
                    \* where the daemon may signal them

ASSUME RunnerAssumption == KillReaches \subseteq {"nothing", "sudo", "helper"}

VARIABLES
    daemon,     \* the position of runViaChild
    ctx,        \* its context: "open", "ended", or "killed" once acted upon
    sudo,       \* the launched process
    res         \* the state of the RunResult

daemonVars == <<daemon, ctx, sudo, res>>
vars == <<childVars, daemonVars>>

Init ==
    /\ ChildInit
    /\ daemon = "start"
    /\ ctx = "open"
    /\ sudo = "none"
    /\ res = "none"

Start ==
    /\ daemon = "start"
    /\ ctx = "open"
    /\ daemon' = "waiting"
    /\ sudo' = "running"
    /\ helper' = "decode"
    /\ UNCHANGED <<leader, leaderIs, member, memberIs, timedOut, childResult, ctx, res>>

\* Mutant: the error is reported as a state that no client knows.
StartFailsUnknown ==
    /\ daemon = "start"
    /\ daemon' = "returned"
    /\ res' = "error"
    /\ UNCHANGED <<childVars, ctx, sudo>>

\* Any error up to cmd.Start; a context that has ended is one.
StartFails ==
    /\ daemon = "start"
    /\ daemon' = "returned"
    /\ res' = "start_failed"
    /\ UNCHANGED <<childVars, ctx, sudo>>

\* A cancel, or the deadline of helperContext.
ContextEnds ==
    /\ ctx = "open"
    /\ ctx' = "ended"
    /\ UNCHANGED <<childVars, daemon, sudo, res>>

\* exec.CommandContext kills the process it launched, and that one only.
KillLaunched ==
    /\ daemon = "waiting"
    /\ ctx = "ended"
    /\ sudo = "running"
    /\ ctx' = "killed"
    /\ \E reached \in KillReaches :
          /\ sudo' = IF reached = "nothing" THEN sudo ELSE "gone"
          /\ helper' = IF reached = "helper" THEN "killed" ELSE helper
    /\ UNCHANGED <<leader, leaderIs, member, memberIs, timedOut, childResult,
                   daemon, res>>

\* sudo ends with the helper it waits for.
SudoExits ==
    /\ sudo = "running"
    /\ helper \in {"exited", "killed"}
    /\ sudo' = "gone"
    /\ UNCHANGED <<childVars, daemon, ctx, res>>

\* Mutant: runViaChild returns without waiting for the end of the result pipe.
WaitIsEnough ==
    /\ daemon = "waiting"
    /\ sudo = "gone"
    /\ daemon' = "returned"
    /\ res' = IF childResult = "none" THEN "failed" ELSE childResult
    /\ UNCHANGED <<childVars, ctx, sudo>>

\* cmd.Wait and the two copies, whose pipes Wait closes.
ReapLaunched ==
    /\ daemon = "waiting"
    /\ sudo = "gone"
    /\ daemon' = "reading"
    /\ UNCHANGED <<childVars, ctx, sudo, res>>

\* Mutant: no report counts as success when sudo could be reaped.
ReadMissingIsSuccess ==
    /\ daemon = "reading"
    /\ ~Fd3Held
    /\ daemon' = "returned"
    /\ res' = IF childResult = "none" THEN "succeeded" ELSE childResult
    /\ UNCHANGED <<childVars, ctx, sudo>>

\* io.ReadAll(resultR) meets the end of file, and decodeChildResult.
ReadResult ==
    /\ daemon = "reading"
    /\ ~Fd3Held
    /\ daemon' = "returned"
    /\ res' = IF childResult = "none" THEN "failed" ELSE childResult
    /\ UNCHANGED <<childVars, ctx, sudo>>

DaemonStep == Start \/ StartFails \/ KillLaunched \/ ReapLaunched \/ ReadResult

\* Wait has closed the pipes of an execution whose sudo was killed alone.
HelperLosesPipe ==
    /\ daemon = "reading"
    /\ BrokenPipe
    /\ UNCHANGED daemonVars

Next ==
    \/ DaemonStep
    \/ SudoExits
    \/ HelperLosesPipe
    \/ ContextEnds
    \/ (HelperStep \/ PayloadStep) /\ UNCHANGED daemonVars

Spec == Init /\ [][Next]_vars

-----------------------------------------------------------------------------
\* The shape of the state.
TypeOK ==
    /\ helper \in {"none", "decode", "select", "grace", "killed_group", "report",
                   "exited", "killed"}
    /\ leader \in {"none", "running", "exited_zero", "exited_nonzero", "signaled"}
    /\ leaderIs \in Manners /\ memberIs \in Manners
    /\ member \in {"none", "running", "gone"}
    /\ timedOut \in BOOLEAN
    /\ childResult \in {"none", "succeeded", "failed", "timed_out", "start_failed"}
    /\ daemon \in {"start", "waiting", "reading", "returned"}
    /\ ctx \in {"open", "ended", "killed"}
    /\ sudo \in {"none", "running", "gone"}
    /\ res \in {"none", "succeeded", "failed", "timed_out", "start_failed"}

\* When runViaChild returns, and with it the slot and the lock_key of the job,
\* no payload process runs that has not given up descriptor 3: also after a
\* cancel that killed sudo or the helper, where nothing else waits for them.
QuietWhenReturned ==
    daemon = "returned" =>
        /\ leader = "running" => ~leaderIs.keepsFd3
        /\ member = "running" => ~memberIs.keepsFd3
        /\ ~HelperLives

\* The state reported is what happened: success only of a leader that exited
\* with status 0 before its timeout, timed_out only after a timeout.
OutcomeIsTrue ==
    /\ res = "succeeded" => leader = "exited_zero" /\ ~timedOut
    /\ res = "timed_out" => timedOut
    /\ timedOut /\ helper = "exited" /\ daemon = "returned" => res = "timed_out"

\* A helper that reports has seen its leader end, even one that ignores SIGTERM;
\* and once it sent SIGKILL nothing is left that its signals reach.
ReapedBeforeReport ==
    /\ helper \in {"report", "exited"} => leader # "running"
    /\ helper = "killed_group" /\ member = "running" => ~memberIs.signaled
=============================================================================
