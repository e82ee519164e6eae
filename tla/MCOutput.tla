------------------------------ MODULE MCOutput ------------------------------
(***************************************************************************)
(* A configuration for the run of Output, and requests that give limits of *)
(* the output or leave them out, some of them out of range.                *)
(***************************************************************************)
EXTENDS Output

SmallLimits ==
    [DefaultTimeoutSec |-> 1, MaxTimeoutSec |-> 1, DefaultWaitSec |-> 0,
     MaxWaitSec |-> 1, DefaultKillGraceSec |-> 1,
     DefaultStdoutBytes |-> 1, MaxStdoutBytes |-> 1,
     DefaultStdoutLogBytes |-> 1, MaxStdoutLogBytes |-> 2,
     DefaultStderrBytes |-> 1, MaxStderrBytes |-> 1,
     DefaultStderrLogBytes |-> 1, MaxStderrLogBytes |-> 2]

Tmp == {"/tmp"}

NoLinks == [d \in Tmp |-> d]

LimitRequests ==
    {[Bare EXCEPT !.maxStdoutBytes = answer, !.maxStdoutLogBytes = all] :
        answer \in {0, 1, 2}, all \in {0, 2, 3}}
=============================================================================
