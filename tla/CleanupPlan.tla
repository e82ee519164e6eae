----------------------------- MODULE CleanupPlan -----------------------------
(***************************************************************************)
(* JobStore.Cleanup (jobstore.go 168-254) as the loops it runs: one step   *)
(* for each iteration of the age, count and byte loops and of the loop     *)
(* that removes directories.  Directories are their creation ranks, so the *)
(* sorted slice is a cursor that counts down (newest first) or up.         *)
(***************************************************************************)
EXTENDS Retention

CONSTANTS
    NumDirs,    \* bound: directories in the store
    MaxSize     \* bound: the size of a directory

Dirs == 1..NumDirs

ASSUME PlanAssumption == NumDirs \in Nat /\ MaxSize \in Nat

VARIABLES
    listed, size,       \* listJobDirs
    protected, cutoff,  \* the arguments: protected IDs, RetentionDays ago
    loop,               \* the loop that runs
    at,                 \* its cursor
    kept, deleteSet, totalAfterDeletes,
    deletedIDs          \* report.DeletedIDs

inputs == <<listed, size, protected, cutoff>>
vars == <<inputs, loop, at, kept, deleteSet, totalAfterDeletes, deletedIDs>>

Init ==
    /\ listed \in SUBSET Dirs
    /\ size \in [Dirs -> 0..MaxSize]
    /\ protected \in SUBSET Dirs
    /\ cutoff \in 1..NumDirs + 1
    /\ loop = "age"
    /\ at = 1
    /\ kept = 0
    /\ deleteSet = {}
    /\ totalAfterDeletes = 0
    /\ deletedIDs = {}

\* Mutant: a protected directory is marked like any other.
MarkDeleteAny(j) == deleteSet' = deleteSet \union {j}

\* markDelete, which leaves protected directories alone.
MarkDelete(j) == deleteSet' = deleteSet \union ({j} \ protected)

AgeStep ==
    /\ loop = "age"
    /\ at \in Dirs
    /\ at' = at + 1
    /\ IF at \in listed /\ at < cutoff THEN MarkDelete(at) ELSE UNCHANGED deleteSet
    /\ UNCHANGED <<inputs, loop, kept, totalAfterDeletes, deletedIDs>>

AgeEnd ==
    /\ loop = "age"
    /\ at \notin Dirs
    /\ loop' = "count"
    /\ at' = NumDirs
    /\ UNCHANGED <<inputs, kept, deleteSet, totalAfterDeletes, deletedIDs>>

\* Mutant: protected directories are not counted as kept.
CountStepUnprotected ==
    /\ loop = "count"
    /\ MaxJobsRetained > 0
    /\ at \in Dirs
    /\ at' = at - 1
    /\ IF at \notin listed \/ at \in protected \/ at \in deleteSet
       THEN UNCHANGED <<kept, deleteSet>>
       ELSE IF kept >= MaxJobsRetained
            THEN MarkDelete(at) /\ UNCHANGED kept
            ELSE kept' = kept + 1 /\ UNCHANGED deleteSet
    /\ UNCHANGED <<inputs, loop, totalAfterDeletes, deletedIDs>>

\* Mutant: one directory too many is kept.
CountStepOffByOne ==
    /\ loop = "count"
    /\ MaxJobsRetained > 0
    /\ at \in Dirs
    /\ at' = at - 1
    /\ CASE at \notin listed -> UNCHANGED <<kept, deleteSet>>
         [] at \in listed \intersect protected ->
                kept' = kept + 1 /\ UNCHANGED deleteSet
         [] at \in deleteSet -> UNCHANGED <<kept, deleteSet>>
         [] OTHER -> IF kept > MaxJobsRetained
                     THEN MarkDelete(at) /\ UNCHANGED kept
                     ELSE kept' = kept + 1 /\ UNCHANGED deleteSet
    /\ UNCHANGED <<inputs, loop, totalAfterDeletes, deletedIDs>>

CountStep ==
    /\ loop = "count"
    /\ MaxJobsRetained > 0
    /\ at \in Dirs
    /\ at' = at - 1
    /\ CASE at \notin listed -> UNCHANGED <<kept, deleteSet>>
         [] at \in listed \intersect protected ->
                kept' = kept + 1 /\ UNCHANGED deleteSet
         [] at \in (listed \ protected) \intersect deleteSet ->
                UNCHANGED <<kept, deleteSet>>
         [] OTHER -> IF kept >= MaxJobsRetained
                     THEN MarkDelete(at) /\ UNCHANGED kept
                     ELSE kept' = kept + 1 /\ UNCHANGED deleteSet
    /\ UNCHANGED <<inputs, loop, totalAfterDeletes, deletedIDs>>

CountEnd ==
    /\ loop = "count"
    /\ MaxJobsRetained = 0 \/ at \notin Dirs
    /\ loop' = "bytes"
    /\ at' = 1
    /\ totalAfterDeletes' = SumFunctionOnSet(size, listed \ deleteSet)
    /\ UNCHANGED <<inputs, kept, deleteSet, deletedIDs>>

\* Mutants: the loop runs newest first, or does not stop at the limit.
BytesStepNewestFirst ==
    /\ loop = "bytes"
    /\ MaxTotalJobBytes > 0
    /\ totalAfterDeletes > MaxTotalJobBytes
    /\ at \in Dirs
    /\ at' = at + 1
    /\ LET j == NumDirs + 1 - at
       IN  IF j \in listed \ (protected \union deleteSet)
           THEN /\ MarkDelete(j)
                /\ totalAfterDeletes' = totalAfterDeletes - size[j]
           ELSE UNCHANGED <<deleteSet, totalAfterDeletes>>
    /\ UNCHANGED <<inputs, loop, kept, deletedIDs>>

BytesStepNoBreak ==
    /\ loop = "bytes"
    /\ MaxTotalJobBytes > 0
    /\ at \in Dirs
    /\ at' = at + 1
    /\ IF at \in listed \ (protected \union deleteSet)
       THEN /\ MarkDelete(at)
            /\ totalAfterDeletes' = totalAfterDeletes - size[at]
       ELSE UNCHANGED <<deleteSet, totalAfterDeletes>>
    /\ UNCHANGED <<inputs, loop, kept, deletedIDs>>

BytesStep ==
    /\ loop = "bytes"
    /\ MaxTotalJobBytes > 0
    /\ totalAfterDeletes > MaxTotalJobBytes
    /\ at \in Dirs
    /\ at' = at + 1
    /\ IF at \in listed \ (protected \union deleteSet)
       THEN /\ MarkDelete(at)
            /\ totalAfterDeletes' = totalAfterDeletes - size[at]
       ELSE UNCHANGED <<deleteSet, totalAfterDeletes>>
    /\ UNCHANGED <<inputs, loop, kept, deletedIDs>>

BytesEnd ==
    /\ loop = "bytes"
    /\ \/ MaxTotalJobBytes = 0
       \/ totalAfterDeletes <= MaxTotalJobBytes
       \/ at \notin Dirs
    /\ loop' = "remove"
    /\ UNCHANGED <<inputs, at, kept, deleteSet, totalAfterDeletes, deletedIDs>>

\* The map is ranged over in any order.
RemoveStep ==
    /\ loop = "remove"
    /\ \E j \in deleteSet \ deletedIDs : deletedIDs' = deletedIDs \union {j}
    /\ UNCHANGED <<inputs, loop, at, kept, deleteSet, totalAfterDeletes>>

\* os.RemoveAll fails: Cleanup returns what it has done so far.
RemoveFails ==
    /\ loop = "remove"
    /\ deleteSet \ deletedIDs # {}
    /\ loop' = "failed"
    /\ UNCHANGED <<inputs, at, kept, deleteSet, totalAfterDeletes, deletedIDs>>

RemoveEnd ==
    /\ loop = "remove"
    /\ deletedIDs = deleteSet
    /\ loop' = "done"
    /\ UNCHANGED <<inputs, at, kept, deleteSet, totalAfterDeletes, deletedIDs>>

Next == \/ AgeStep \/ AgeEnd \/ CountStep \/ CountEnd \/ BytesStep \/ BytesEnd
        \/ RemoveStep \/ RemoveFails \/ RemoveEnd

Spec == Init /\ [][Next]_vars

-----------------------------------------------------------------------------
Planned == loop \in {"remove", "failed", "done"}

Left == listed \ deleteSet

\* The shape of the state.
TypeOK ==
    /\ listed \subseteq Dirs
    /\ size \in [Dirs -> 0..MaxSize]
    /\ protected \subseteq Dirs
    /\ cutoff \in 1..NumDirs + 1
    /\ loop \in {"age", "count", "bytes", "remove", "failed", "done"}
    /\ at \in 0..NumDirs + 1
    /\ kept \in 0..NumDirs
    /\ deleteSet \subseteq listed \ protected
    /\ totalAfterDeletes \in Nat
    /\ deletedIDs \subseteq deleteSet

\* The three loops together compute the set that Retention defines, which is
\* what the model of the daemon uses for them.
PlanIsDoomed ==
    Planned => deleteSet = Doomed(listed, protected, cutoff, size)

\* Cleanup never deletes a directory and keeps an older one, protected ones
\* apart, although the three rules are applied one after the other.
OldestFirst ==
    Planned => \A j \in deleteSet, k \in Left \ protected : j < k

\* After it, each limit is met unless only protected directories are over it.
LimitsMet ==
    Planned =>
        /\ MaxJobsRetained > 0 =>
              \A j \in Left \ protected :
                  Cardinality({k \in Left : k > j}) < MaxJobsRetained
        /\ MaxTotalJobBytes > 0 =>
              \/ SumFunctionOnSet(size, Left) <= MaxTotalJobBytes
              \/ Left \subseteq protected

\* It deletes no more than it has to: with the newest deleted directory still
\* there, a limit would be exceeded.
NoNeedlessDelete ==
    Planned =>
        \A j \in deleteSet :
            \/ j < cutoff
            \/ \E k \in deleteSet : k > j
            \/ MaxJobsRetained > 0 /\ Cardinality(Left) >= MaxJobsRetained
            \/ /\ MaxTotalJobBytes > 0
               /\ SumFunctionOnSet(size, Left \union {j}) > MaxTotalJobBytes
=============================================================================
