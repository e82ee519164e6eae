------------------------------ MODULE Retention ------------------------------
(***************************************************************************)
(* Which job directories JobStore.Cleanup removes (jobstore.go 179-241),   *)
(* stated over sets.  A job is its creation rank: a smaller number is an   *)
(* older job.  CleanupPlan.tla is the loop the code runs; its run and the  *)
(* proofs about it show that it computes exactly the set defined here.     *)
(***************************************************************************)
EXTENDS Naturals, FiniteSets, Functions

CONSTANTS
    MaxJobsRetained,    \* limits.MaxJobsRetained; 0 switches the rule off
    MaxTotalJobBytes    \* storage.MaxTotalJobBytes; 0 switches the rule off

ASSUME RetentionAssumption ==
    /\ MaxJobsRetained \in Nat
    /\ MaxTotalJobBytes \in Nat

\* Rule 1: directories created before the RetentionDays cutoff.
TooOld(listed, protected, cutoff) ==
    {j \in listed \ protected : j < cutoff}

\* Mutant of rule 2: the directory itself is counted.
OverCountWithSelf(listed, protected, cutoff) ==
    LET left == listed \ TooOld(listed, protected, cutoff)
    IN  {j \in left \ protected :
            /\ MaxJobsRetained > 0
            /\ Cardinality({k \in left : k >= j}) >= MaxJobsRetained}

\* Rule 2: walking from the newest, a directory that finds MaxJobsRetained
\* others (protected or kept) in front of it.
OverCount(listed, protected, cutoff) ==
    LET left == listed \ TooOld(listed, protected, cutoff)
    IN  {j \in left \ protected :
            /\ MaxJobsRetained > 0
            /\ Cardinality({k \in left : k > j}) >= MaxJobsRetained}

\* What the first two rules leave.
LeftByCount(listed, protected, cutoff) ==
    listed \ (TooOld(listed, protected, cutoff)
                \union OverCount(listed, protected, cutoff))

\* Rule 3: the oldest unprotected directories, as long as the total is over
\* the limit.
OverBytes(listed, protected, cutoff, size) ==
    LET left == LeftByCount(listed, protected, cutoff)
    IN  {j \in left \ protected :
            /\ MaxTotalJobBytes > 0
            /\ SumFunctionOnSet(size, left \ {k \in left \ protected : k < j})
                    > MaxTotalJobBytes}

Doomed(listed, protected, cutoff, size) ==
    TooOld(listed, protected, cutoff)
        \union OverCount(listed, protected, cutoff)
        \union OverBytes(listed, protected, cutoff, size)

\* What pruneMemory forgets beyond the directories just deleted: finished jobs
\* that are too old or have MaxJobsRetained newer finished jobs.
Forgotten(done, cutoff) ==
    {j \in done : \/ j < cutoff
                  \/ /\ MaxJobsRetained > 0
                     /\ Cardinality({k \in done : k > j}) >= MaxJobsRetained}
=============================================================================
