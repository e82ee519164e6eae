--------------------------- MODULE MCJobLifecycle ---------------------------
(***************************************************************************)
(* Requests for the runs of JobLifecycle: one lock and some idempotency    *)
(* keys shared by different commands, and a command with neither.          *)
(***************************************************************************)
EXTENDS JobRefinement

\* The token IDs "ops" and "ops:ci", and the keys "nightly" and "ci:nightly": the
\* index key of the one and the longer key is that of the other and the shorter.
Ops == <<"ops">>
OpsCi == <<"ops", "ci">>
Nightly == <<"nightly">>
CiNightly == <<"ci", "nightly">>

TwoTokens == {Ops, OpsCi}
TwoKeys == {Nightly, CiNightly}

Request(t, h, l, i) ==
    [tokenID |-> t, hash |-> h, lockKey |-> l, idempotencyKey |-> i]

\* Jobs that want the lock, one of them repeatable, and one that does not and whose
\* index key is that of the first.
LockRequests == {Request(Ops, "h1", "lock", CiNightly),
                 Request(Ops, "h2", "lock", NoKey),
                 Request(OpsCi, "h2", NoKey, Nightly)}

\* A lock and a key name under two tokens: the lock is shared, the key is not.
KeyRequests == {Request(Ops, "h1", "lock", Nightly),
                Request(OpsCi, "h2", "lock", Nightly)}

\* A job that wants the lock and one that does not.
PairRequests == {Request(Ops, "h1", "lock", NoKey),
                 Request(Ops, "h2", NoKey, NoKey)}
=============================================================================
