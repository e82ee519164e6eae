------------------------------- MODULE Output -------------------------------
(***************************************************************************)
(* The standard output of an execution (the error output is treated the    *)
(* same way): from the payload through a pipe to the copy of the helper,   *)
(* which caps it (cappedTeeWriter), through a second pipe to the copy of   *)
(* the daemon, which writes stdout.log and a capped buffer.  Both copies   *)
(* run beside a cmd.Wait that closes their pipe (Runner and ChildRun).     *)
(* Only the number of bytes matters: each stage has a prefix of what the   *)
(* stage before it had.  The helper's copy is cut into single bytes; the   *)
(* daemon's moves any part of what its pipe holds at once, because a write *)
(* of stdout.log that fails may have stored some of that.                  *)
(***************************************************************************)
EXTENDS Runner, Requests

CONSTANTS
    RawRequests,    \* bound: the requests that are sent
    PipeSize,       \* how much a pipe holds
    DiskFills,      \* whether a write of stdout.log may fail
    MaxWritten      \* bound: the bytes a payload writes

ASSUME OutputAssumption ==
    /\ RawRequests \subseteq RawRequest
    /\ PipeSize \in Nat \ {0}
    /\ DiskFills \in BOOLEAN
    /\ MaxWritten \in Nat

VARIABLES
    req,            \* the normalized request of the job
    written,        \* history: the bytes the payload wrote
    unread,         \* in the payload's pipe
    hand,           \* read by the helper's copy and not yet written
    forwarded,      \* cappedTeeWriter.written
    teeTruncated,   \* cappedTeeWriter.truncated
    sent,           \* in the helper's pipe
    log,            \* in stdout.log
    kept,           \* in the buffer
    truncated,      \* cappedBuffer.truncated
    copying,        \* whether the copy of the daemon goes on
    dropped         \* history: a byte was lost on its way

teeVars == <<hand, forwarded, teeTruncated>>
fileVars == <<log, kept, truncated>>
outputVars == <<req, written, unread, teeVars, sent, fileVars, copying, dropped>>
allVars == <<vars, outputVars>>

OutputInit ==
    /\ Init
    /\ req \in {Normalized(r) : r \in {r \in RawRequests : Accepted(r)}}
    /\ written = 0 /\ unread = 0 /\ hand = 0 /\ forwarded = 0 /\ sent = 0
    /\ log = 0 /\ kept = 0
    /\ teeTruncated = FALSE /\ truncated = FALSE
    /\ copying = TRUE
    /\ dropped = FALSE

-----------------------------------------------------------------------------
\* The bytes.

\* The helper holds the read end of the payload's pipe open.
PipeOpen == helper \in {"select", "grace", "killed_group"}

PayloadWrites ==
    /\ PipeOpen
    /\ leader = "running" \/ member = "running"
    /\ unread < PipeSize
    /\ written < MaxWritten
    /\ written' = written + 1
    /\ unread' = unread + 1
    /\ UNCHANGED <<vars, req, teeVars, sent, fileVars, copying, dropped>>

HelperReads ==
    /\ PipeOpen
    /\ hand = 0
    /\ unread > 0
    /\ unread' = unread - 1
    /\ hand' = 1
    /\ UNCHANGED <<vars, req, written, forwarded, teeTruncated, sent, fileVars, copying, dropped>>

\* cappedTeeWriter.Write beyond the limit: nothing is passed on, and the copy
\* goes on.
TeeCuts ==
    /\ HelperLives
    /\ hand = 1
    /\ forwarded >= req.maxStdoutLogBytes
    /\ hand' = 0
    /\ teeTruncated' = TRUE
    /\ UNCHANGED <<vars, req, written, unread, forwarded, sent, fileVars, copying, dropped>>

\* cappedTeeWriter.Write within the limit, once the pipe has room.
TeeForwards ==
    /\ HelperLives
    /\ daemon = "waiting"
    /\ hand = 1
    /\ forwarded < req.maxStdoutLogBytes
    /\ sent < PipeSize
    /\ hand' = 0
    /\ forwarded' = forwarded + 1
    /\ sent' = sent + 1
    /\ UNCHANGED <<vars, req, written, unread, teeTruncated, fileVars, copying, dropped>>

\* Mutant: the flag is set when the buffer becomes full.
BufferFullIsTruncated(n) ==
    /\ kept' = IF kept + n <= req.maxStdoutBytes THEN kept + n ELSE req.maxStdoutBytes
    /\ truncated' = (truncated \/ kept + n >= req.maxStdoutBytes)

\* cappedBuffer.Write of n bytes.
BufferWrite(n) ==
    /\ kept' = IF kept + n <= req.maxStdoutBytes THEN kept + n ELSE req.maxStdoutBytes
    /\ truncated' = (truncated \/ kept + n > req.maxStdoutBytes)

\* One round of io.Copy: what a read got goes to the file and then to the buffer.
DaemonCopies ==
    /\ daemon = "waiting"
    /\ copying
    /\ \E n \in 1..sent :
          /\ sent' = sent - n
          /\ log' = log + n
          /\ BufferWrite(n)
    /\ UNCHANGED <<vars, req, written, unread, teeVars, copying, dropped>>

\* The file takes a part of it, or nothing, and the buffer is not reached.  The
\* error ends the copy, is dropped, and leaves the pipe open: nobody reads it
\* any more.
DaemonCopyFails ==
    /\ DiskFills
    /\ daemon = "waiting"
    /\ copying
    /\ \E n \in 1..sent : \E stored \in 0..(n - 1) :
          /\ sent' = sent - n
          /\ log' = log + stored
    /\ copying' = FALSE
    /\ dropped' = TRUE
    /\ UNCHANGED <<vars, req, written, unread, teeVars, kept, truncated>>

-----------------------------------------------------------------------------
\* What the steps of Runner and ChildRun do to the pipes and wait for.

\* cmd.Wait of the helper closes the payload's pipe with what is still in it;
\* only the byte in hand goes on.
HelperWaits ==
    /\ WaitReturns \/ GraceWaitReturns \/ KillWaitReturns
    /\ unread' = 0
    /\ dropped' = (dropped \/ unread > 0)
    /\ UNCHANGED <<daemonVars, req, written, teeVars, sent, fileVars, copying>>

\* Mutant: the helper does not wait for its copies.
ReportsAtOnce ==
    /\ Report
    /\ hand' = 0
    /\ UNCHANGED <<daemonVars, req, written, unread, forwarded, teeTruncated, sent, fileVars,
                   copying, dropped>>

\* The helper waits for its copies before it reports.
HelperReports ==
    /\ Report
    /\ hand = 0
    /\ UNCHANGED <<daemonVars, outputVars>>

HelperGoesOn ==
    /\ StartPayload \/ StartPayloadFails \/ Timeout \/ GraceOver
    /\ UNCHANGED <<daemonVars, outputVars>>

HelperDies ==
    /\ unread' = 0
    /\ hand' = 0
    /\ dropped' = TRUE
    /\ UNCHANGED <<req, written, forwarded, teeTruncated, sent, fileVars, copying>>

HelperPipeBreaks ==
    /\ HelperLosesPipe
    /\ hand = 1
    /\ forwarded < req.maxStdoutLogBytes
    /\ HelperDies

DaemonKills ==
    /\ KillLaunched
    /\ IF helper' = "killed" THEN HelperDies ELSE UNCHANGED outputVars

\* cmd.Wait of the daemon closes the helper's pipe with what is still in it.
DaemonWaits ==
    /\ ReapLaunched
    /\ sent' = 0
    /\ dropped' = (dropped \/ sent > 0)
    /\ UNCHANGED <<req, written, unread, teeVars, fileVars, copying>>

DaemonGoesOn ==
    /\ Start \/ StartFails \/ ReadResult
    /\ UNCHANGED outputVars

Surroundings ==
    /\ SudoExits \/ ContextEnds \/ (PayloadStep /\ UNCHANGED daemonVars)
    /\ UNCHANGED outputVars

HelperMoves == HelperWaits \/ HelperReports \/ HelperGoesOn

DaemonMoves == DaemonKills \/ DaemonWaits \/ DaemonGoesOn

HelperCopyMoves == HelperReads \/ TeeCuts \/ TeeForwards \/ HelperPipeBreaks

DaemonCopyMoves == DaemonCopies \/ DaemonCopyFails

OutputNext ==
    \/ PayloadWrites \/ HelperCopyMoves \/ DaemonCopyMoves
    \/ HelperMoves \/ DaemonMoves \/ Surroundings

OutputSpec == OutputInit /\ [][OutputNext]_allVars

\* Goroutines, sudo and timers go on when they can.  The payload need neither
\* write nor exit, and nobody need cancel.
OutputFairness ==
    /\ WF_allVars(HelperMoves)
    /\ WF_allVars(DaemonMoves)
    /\ WF_allVars(HelperCopyMoves)
    /\ WF_allVars(DaemonCopyMoves)
    /\ WF_allVars(SudoExits /\ UNCHANGED outputVars)

FairOutputSpec == OutputSpec /\ OutputFairness

-----------------------------------------------------------------------------
\* The shape of the state.
OutputTypeOK ==
    /\ TypeOK
    /\ req \in RawRequest
    /\ written \in 0..MaxWritten
    /\ unread \in 0..PipeSize /\ sent \in 0..PipeSize
    /\ hand \in 0..1
    /\ forwarded \in 0..req.maxStdoutLogBytes
    /\ log \in Nat /\ kept \in Nat
    /\ teeTruncated \in BOOLEAN /\ truncated \in BOOLEAN
    /\ copying \in BOOLEAN /\ dropped \in BOOLEAN

\* StdoutLogTruncated of the result: the helper's word, if it came.
LogTruncated == childResult # "none" /\ teeTruncated

\* Two processes cap the output and each sets a flag.  When the call returns,
\* stdout_truncated is set only if the answer is full and stdout.log has more; and
\* if it is not set, log and answer are the same, unless a write of the log failed:
\* then the log may have the part of it that was stored.  The log stays within its
\* limit and its flag is not set for output that fits.
FlagsAreTrue ==
    daemon = "returned" =>
        /\ truncated => kept = req.maxStdoutBytes /\ log > kept
        /\ ~truncated => kept <= log /\ kept <= req.maxStdoutBytes
        /\ ~truncated /\ copying => kept = log
        /\ log <= req.maxStdoutLogBytes
        /\ LogTruncated => written > req.maxStdoutLogBytes

\* Output is lost in four places only: when a cmd.Wait closes a pipe that still
\* holds some, when stdout.log cannot be written and when the helper is killed.
\* Otherwise the log has all of it up to the limit, and its flag says exactly
\* whether there was more.
OutputAccounted ==
    daemon = "returned" /\ helper = "exited" /\ ~dropped =>
        /\ log = IF written > req.maxStdoutLogBytes THEN req.maxStdoutLogBytes ELSE written
        /\ LogTruncated = (written > req.maxStdoutLogBytes)

\* A payload ends, by itself or by its timeout, also one that ignores SIGTERM and
\* one whose context has ended: a cancel that may not signal sudo, a user's process
\* of its own, leaves the command to the helper and its timeout.  Only a helper that
\* was killed itself leaves it running (runPayload 105-115, runner.go 50).
TimeoutOutlivesCancel ==
    leader = "running" ~> leader # "running" \/ helper = "killed"

\* A call whose context stays open returns, because the payload timeout ends
\* the leader, unless a process the payload left behind holds the result pipe,
\* or stdout.log could not be written, when the helper may wait for a reader
\* until the deadline of helperContext.
ReturnsUnlessHeld ==
    daemon = "waiting" ~>
        \/ daemon = "returned"
        \/ ctx # "open"
        \/ member = "running" /\ memberIs.keepsFd3
        \/ ~copying
=============================================================================
