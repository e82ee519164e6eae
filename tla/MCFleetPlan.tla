---------------------------- MODULE MCFleetPlan ----------------------------
(***************************************************************************)
(* The plan of the runs of FleetPlan: a check command and an apply command *)
(* under a lock, on two hosts that share the job IDs between them.         *)
(***************************************************************************)
EXTENDS FleetPlan

\* One invocation goes to both hosts, the others to the first.
FirstToBoth == [o \in Operators |-> IF o = "o1" THEN <<"a", "b">> ELSE <<"a">>]

EvenOnB == [j \in Jobs |-> IF j \in {2, 4} THEN "b" ELSE "a"]

CheckApply == <<[command |-> "check", lockKey |-> NoKey],
                [command |-> "apply", lockKey |-> "lock"]>>

\* The invocations give no idempotency key, or all the same.
NoneOrSame == {[o \in Operators |-> k] : k \in {NoKey, <<"key">>}}
=============================================================================
