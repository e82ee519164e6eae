----------------------------- MODULE AuthLimiter -----------------------------
(***************************************************************************)
(* The limiter of failed authentications (auth_limiter.go) as              *)
(* authenticateRequest (server.go 289-315) uses it.  A failure is a number *)
(* in the order of arrival, so a slice of the code's times is a set here.  *)
(* The limiter exists only if limit and window are positive.               *)
(***************************************************************************)
EXTENDS Naturals, FiniteSets

CONSTANTS
    Peers,          \* TCP peer addresses
    Limit,          \* security.auth_failure_limit
    Window,         \* security.auth_failure_window_sec
    MaxFailures,    \* bound: failures that may happen
    MaxNow          \* bound: the clock

ASSUME LimiterAssumption ==
    /\ Limit \in Nat \ {0}
    /\ Window \in Nat \ {0}
    /\ MaxFailures \in Nat
    /\ MaxNow \in Nat

Failures == 1..MaxFailures

VARIABLES
    now,
    next,       \* the next failure
    at,         \* when a failure happened
    items,      \* l.items, the failures kept of each peer
    answer,     \* the last answer to each peer
    failed      \* history: all failures of a peer since its last success

vars == <<now, next, at, items, answer, failed>>

Init ==
    /\ now = 0
    /\ next = 1
    /\ at = [f \in Failures |-> 0]
    /\ items = [p \in Peers |-> {}]
    /\ answer = [p \in Peers |-> "none"]
    /\ failed = [p \in Peers |-> {}]

InWindow(s) == {f \in s : at[f] + Window > now}

\* recentLocked
Recent(p) == InWindow(items[p])

\* Mutants: one record less is kept, or all are.
LastButOne(s) ==
    IF Cardinality(s) <= Limit THEN {s}
    ELSE {s \ {f} : f \in {g \in s : \A h \in s : g <= h}}

LastAll(s) == {s}

\* What failures[len(failures)-(l.limit+1):] leaves.  The slice is never longer
\* than limit+2 there (TypeOK), so this drops the oldest record.
Last(s) ==
    IF Cardinality(s) <= Limit + 1 THEN {s}
    ELSE {s \ {f} : f \in {g \in s : \A h \in s : g <= h}}

\* recordFailureAndExceeded, and the answer.
Fail(p) ==
    /\ next \in Failures
    /\ next' = next + 1
    /\ at' = [at EXCEPT ![next] = now]
    /\ \E kept \in Last(Recent(p) \union {next}) :
          /\ items' = [items EXCEPT ![p] = kept]
          /\ answer' = [answer EXCEPT ![p] = IF Cardinality(kept) > Limit
                                             THEN "rate_limited" ELSE "unauthorized"]
    /\ failed' = [failed EXCEPT ![p] = @ \union {next}]
    /\ UNCHANGED now

\* recordSuccess: a valid token is accepted however many failures there were.
Succeed(p) ==
    /\ items' = [items EXCEPT ![p] = {}]
    /\ answer' = [answer EXCEPT ![p] = "accepted"]
    /\ failed' = [failed EXCEPT ![p] = {}]
    /\ UNCHANGED <<now, next, at>>

Tick ==
    /\ now < MaxNow
    /\ now' = now + 1
    /\ UNCHANGED <<next, at, items, answer, failed>>

Next == Tick \/ \E p \in Peers : Fail(p) \/ Succeed(p)

Spec == Init /\ [][Next]_vars

-----------------------------------------------------------------------------
\* The shape of the state; no peer has more than limit+1 records.
TypeOK ==
    /\ now \in Nat
    /\ next \in Nat \ {0}
    /\ at \in [Failures -> Nat]
    /\ items \in [Peers -> SUBSET Failures]
    /\ failed \in [Peers -> SUBSET Failures]
    /\ answer \in [Peers -> {"none", "unauthorized", "rate_limited", "accepted"}]
    /\ \A p \in Peers : Cardinality(items[p]) <= Limit + 1

\* A failure is answered 429 exactly when more than limit failures of the peer
\* since its last success, itself included, lie in the window, although the code
\* keeps limit+1 records only and drops old ones whenever it looks.
ThrottleExact ==
    [][\A p \in Peers :
          failed[p] # failed'[p] /\ failed'[p] # {}
            => (answer'[p] = "rate_limited"
                  <=> Cardinality({f \in failed'[p] : at'[f] + Window > now'})
                        > Limit)]_vars
=============================================================================
