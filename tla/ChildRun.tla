------------------------------ MODULE ChildRun ------------------------------
(***************************************************************************)
(* The setuid side of one execution (child.go): the helper that sudo       *)
(* starts, the payload it runs in a process group of its own, and the      *)
(* result it writes to file descriptor 3.  The payload is its leader (the  *)
(* shell or the argv command) and, if it forks, one more process.          *)
(***************************************************************************)
EXTENDS Naturals

CONSTANTS
    Background      \* whether the payload may fork a second process

ASSUME ChildAssumption == Background \in BOOLEAN

\* How a payload process behaves: the helper's signals reach it (it is in the
\* group, and of a user the helper may signal), it ignores SIGTERM, and it keeps
\* the descriptor 3 it inherits from the helper.
Manners == [signaled : BOOLEAN, ignoresTerm : BOOLEAN, keepsFd3 : BOOLEAN]

VARIABLES
    helper,         \* the position of ChildMain
    leader,         \* cmd.Process
    leaderIs,       \* the leader's manners
    member,         \* the second process
    memberIs,       \* its manners
    timedOut,
    childResult     \* the state written to descriptor 3

childVars == <<helper, leader, leaderIs, member, memberIs, timedOut, childResult>>

HelperLives == helper \in {"decode", "select", "grace", "killed_group", "report"}

\* Some process holds the write end of the result pipe.
Fd3Held ==
    \/ HelperLives
    \/ leader = "running" /\ leaderIs.keepsFd3
    \/ member = "running" /\ memberIs.keepsFd3

ChildInit ==
    /\ helper = "none"
    /\ leader = "none"
    /\ leaderIs \in {m \in Manners : m.signaled}
    /\ member = "none"
    /\ memberIs \in Manners
    /\ timedOut = FALSE
    /\ childResult = "none"

-----------------------------------------------------------------------------
\* Decoding the spec and starting the payload, or reporting that either failed.
StartPayload ==
    /\ helper = "decode"
    /\ helper' = "select"
    /\ leader' = "running"
    /\ UNCHANGED <<leaderIs, member, memberIs, timedOut, childResult>>

StartPayloadFails ==
    /\ helper = "decode"
    /\ helper' = "report"
    /\ UNCHANGED <<leader, leaderIs, member, memberIs, timedOut, childResult>>

LeaderGone == leader \in {"exited_zero", "exited_nonzero", "signaled"}

\* cmd.Wait has reaped the leader and closed the pipes, whoever still writes
\* to them, so the copies end too.
WaitReturns ==
    /\ helper = "select"
    /\ LeaderGone
    /\ helper' = "report"
    /\ UNCHANGED <<leader, leaderIs, member, memberIs, timedOut, childResult>>

\* Mutant: only the leader is signaled.
SignalLeader(kill) ==
    /\ leader' = IF leader = "running" /\ (kill \/ ~leaderIs.ignoresTerm)
                 THEN "signaled" ELSE leader
    /\ UNCHANGED member

\* killProcessGroup, which drops the error of kill: processes that left the group
\* or changed their user are not reached.
Signal(kill) ==
    /\ leader' = IF leader = "running" /\ (kill \/ ~leaderIs.ignoresTerm)
                 THEN "signaled" ELSE leader
    /\ member' = IF member = "running" /\ memberIs.signaled
                    /\ (kill \/ ~memberIs.ignoresTerm)
                 THEN "gone" ELSE member

\* The deadline of the payload: SIGTERM to the group.
Timeout ==
    /\ helper = "select"
    /\ helper' = "grace"
    /\ timedOut' = TRUE
    /\ Signal(FALSE)
    /\ UNCHANGED <<leaderIs, memberIs, childResult>>

\* The leader is reaped within the grace period: no SIGKILL is sent.
GraceWaitReturns ==
    /\ helper = "grace"
    /\ LeaderGone
    /\ helper' = "report"
    /\ UNCHANGED <<leader, leaderIs, member, memberIs, timedOut, childResult>>

\* Mutant: the grace period ends without a SIGKILL, and the leader is awaited.
GraceOverNoKill ==
    /\ helper = "grace"
    /\ helper' = "killed_group"
    /\ UNCHANGED <<leader, leaderIs, member, memberIs, timedOut, childResult>>

\* The grace period is over: SIGKILL to the group.
GraceOver ==
    /\ helper = "grace"
    /\ helper' = "killed_group"
    /\ Signal(TRUE)
    /\ UNCHANGED <<leaderIs, memberIs, timedOut, childResult>>

KillWaitReturns ==
    /\ helper = "killed_group"
    /\ LeaderGone
    /\ helper' = "report"
    /\ UNCHANGED <<leader, leaderIs, member, memberIs, timedOut, childResult>>

\* Mutant: the exit status alone decides the state.
OutcomesByStatus == IF leader = "none" THEN {"start_failed"}
                    ELSE IF leader = "exited_zero" THEN {"succeeded"}
                    ELSE {"failed"}

\* The states runPayload may return.  Wait reports an error of its own when a
\* process left behind keeps the payload's stdin unread for WaitDelay, even if
\* the leader exited with status 0.
Outcomes ==
    IF leader = "none" THEN {"start_failed"}
    ELSE IF timedOut THEN {"timed_out"}
    ELSE {s \in {"succeeded", "failed"} :
            /\ s = "succeeded" => leader = "exited_zero"
            /\ s = "failed" => leader # "exited_zero" \/ member # "none"}

\* writeChildResult, and the end of ChildMain.
Report ==
    /\ helper = "report"
    /\ childResult' \in Outcomes
    /\ helper' = "exited"
    /\ UNCHANGED <<leader, leaderIs, member, memberIs, timedOut>>

\* The copies, which runPayload awaits before it returns, write to the pipe of a
\* daemon that no longer reads it: SIGPIPE on stdout or stderr ends a Go program.
BrokenPipe ==
    /\ helper \in {"select", "grace", "killed_group", "report"}
    /\ leader # "none"
    /\ helper' = "killed"
    /\ UNCHANGED <<leader, leaderIs, member, memberIs, timedOut, childResult>>

\* What the payload does by itself.
LeaderExits ==
    /\ leader = "running"
    /\ leader' \in {"exited_zero", "exited_nonzero", "signaled"}
    /\ UNCHANGED <<helper, leaderIs, member, memberIs, timedOut, childResult>>

\* A child cannot hold a descriptor that its parent has closed.
LeaderForks ==
    /\ Background
    /\ leader = "running"
    /\ member = "none"
    /\ memberIs.keepsFd3 => leaderIs.keepsFd3
    /\ member' = "running"
    /\ UNCHANGED <<helper, leader, leaderIs, memberIs, timedOut, childResult>>

MemberExits ==
    /\ member = "running"
    /\ member' = "gone"
    /\ UNCHANGED <<helper, leader, leaderIs, memberIs, timedOut, childResult>>

\* The steps of the helper; the payload's own are LeaderExits, LeaderForks and
\* MemberExits.
HelperStep ==
    \/ StartPayload \/ StartPayloadFails \/ WaitReturns \/ Timeout
    \/ GraceWaitReturns \/ GraceOver \/ KillWaitReturns \/ Report

PayloadStep == LeaderExits \/ LeaderForks \/ MemberExits
=============================================================================
