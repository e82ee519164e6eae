-------------------------- MODULE AuthLimiterProofs --------------------------
(***************************************************************************)
(* TLAPS proofs about AuthLimiter, for every limit, window and set of      *)
(* peers.                                                                  *)
(***************************************************************************)
EXTENDS AuthLimiter, FiniteSetTheorems, TLAPS

\* The records of a peer are failures of it, and all failures lie in the past.
RecordsAreFailures ==
    \A p \in Peers : /\ items[p] \subseteq failed[p]
                     /\ \A f \in failed[p] : f < next

\* The order of arrival is the order of time.
TimesInOrder ==
    /\ \A f \in Failures : f < next => at[f] <= now
    /\ \A f, g \in Failures : f <= g /\ g < next => at[f] <= at[g]

\* A failure without a record has left the window, or limit+1 newer ones have
\* records.
MissingDoNotCount ==
    \A p \in Peers : \A f \in failed[p] \ items[p] :
        \/ at[f] + Window <= now
        \/ /\ Cardinality(items[p]) = Limit + 1
           /\ \A g \in items[p] : f <= g

IInv == TypeOK /\ RecordsAreFailures /\ TimesInOrder /\ MissingDoNotCount

\* Sets of failures are finite.
LEMMA FailuresFinite ==
  ASSUME NEW s \in SUBSET Failures
  PROVE  IsFiniteSet(s) /\ Cardinality(s) \in Nat
  <1>1. IsFiniteSet(Failures)
    BY FS_Interval, LimiterAssumption DEF Failures
  <1> QED
    BY <1>1, FS_Subset, FS_CardinalityType

\* What a failure does to its peer's records: they are the recent ones and the
\* new one, or limit+1 of these without the oldest.
LEMMA FailKeeps ==
  ASSUME IInv, NEW p \in Peers, next \in Failures,
         NEW kept \in Last(Recent(p) \union {next})
  PROVE  /\ kept \subseteq Recent(p) \union {next}
         /\ kept \subseteq Failures
         /\ \/ /\ kept = Recent(p) \union {next}
               /\ Cardinality(kept) = Cardinality(Recent(p)) + 1
               /\ Cardinality(Recent(p)) < Limit + 1
            \/ /\ Cardinality(kept) = Limit + 1
               /\ \A f \in (Recent(p) \union {next}) \ kept : \A g \in kept : f <= g
  <1> DEFINE s == Recent(p) \union {next}
  <1>1. /\ Recent(p) \subseteq items[p]
        /\ Recent(p) \subseteq Failures
        /\ next \notin Recent(p)
        /\ s \subseteq Failures
    BY DEF Recent, InWindow, IInv, TypeOK, RecordsAreFailures, Failures
  <1> HIDE DEF s
  <1>2. /\ IsFiniteSet(Recent(p))
        /\ IsFiniteSet(s)
        /\ Cardinality(Recent(p)) \in Nat
    BY <1>1, FailuresFinite
  <1>3. Cardinality(s) = Cardinality(Recent(p)) + 1
    BY <1>1, <1>2, FS_AddElement DEF s
  <1>4. Cardinality(Recent(p)) <= Limit + 1
    <2>1. Cardinality(Recent(p)) <= Cardinality(items[p])
      BY <1>1, FailuresFinite, FS_Subset DEF IInv, TypeOK
    <2>2. Cardinality(items[p]) \in Nat /\ Cardinality(items[p]) <= Limit + 1
      BY FailuresFinite DEF IInv, TypeOK
    <2> QED
      BY <1>2, <2>1, <2>2, LimiterAssumption
  <1>5. CASE Cardinality(s) <= Limit + 1
    <2>1. kept = s
      BY <1>5 DEF Last, s
    <2> QED
      BY <1>1, <1>2, <1>3, <1>5, <2>1, LimiterAssumption DEF s
  <1>6. CASE ~(Cardinality(s) <= Limit + 1)
    <2>1. PICK f \in s : kept = s \ {f} /\ \A h \in s : f <= h
      BY <1>6 DEF Last, s
    <2>2. Cardinality(s) = Limit + 2
      BY <1>2, <1>3, <1>4, <1>6, LimiterAssumption
    <2>3. Cardinality(kept) = Limit + 1
      <3>1. Cardinality(s \ {f}) = Cardinality(s) - 1
        BY <1>2, <2>1, FS_RemoveElement
      <3> QED
        BY <2>1, <2>2, <3>1, LimiterAssumption
    <2> QED
      BY <1>1, <2>1, <2>3 DEF s
  <1> QED
    BY <1>5, <1>6

\* The records of a peer after a failure: no recent one is missing unless
\* limit+1 newer ones are there.
LEMMA FailMissing ==
  ASSUME IInv, NEW p \in Peers, next \in Failures,
         NEW kept \in Last(Recent(p) \union {next}),
         NEW f \in failed[p] \union {next}, f \notin kept
  PROVE  \/ f # next /\ at[f] + Window <= now
         \/ /\ Cardinality(kept) = Limit + 1
            /\ \A g \in kept : f <= g
  <1>1. /\ Limit \in Nat /\ Window \in Nat /\ now \in Nat /\ next \in Nat
        /\ failed[p] \subseteq Failures /\ Failures \subseteq Nat
        /\ \A g \in Failures : at[g] \in Nat
        /\ Recent(p) \subseteq items[p]
        /\ items[p] \subseteq failed[p]
        /\ \A g \in failed[p] : g < next
    BY LimiterAssumption
    DEF IInv, TypeOK, RecordsAreFailures, Failures, Recent, InWindow
  <1>2. CASE f \in Recent(p) \union {next}
    BY <1>2, FailKeeps
  <1>3. CASE f \in items[p] \ (Recent(p) \union {next})
    <2>1. f \in Failures /\ at[f] \in Nat /\ f # next
      BY <1>1, <1>3
    <2>2. ~(at[f] + Window > now)
      BY <1>3 DEF Recent, InWindow
    <2> QED
      BY <1>1, <2>1, <2>2
  <1>4. CASE f \notin items[p] \union {next}
    <2>1. \/ at[f] + Window <= now
          \/ /\ Cardinality(items[p]) = Limit + 1
             /\ \A g \in items[p] : f <= g
      BY <1>4 DEF IInv, MissingDoNotCount
    <2>2. ASSUME ~(at[f] + Window <= now)
          PROVE  /\ Cardinality(kept) = Limit + 1
                 /\ \A g \in kept : f <= g
      <3>1. Cardinality(items[p]) = Limit + 1 /\ \A g \in items[p] : f <= g
        BY <2>1, <2>2
      <3>2. Recent(p) = items[p]
        <4>1. SUFFICES ASSUME NEW g \in items[p]
                       PROVE  at[g] + Window > now
          BY <1>1 DEF Recent, InWindow
        <4>2. f \in Failures /\ g \in Failures /\ f <= g /\ g < next
          BY <1>1, <1>4, <3>1, <4>1
        <4>3. at[f] <= at[g] /\ at[f] \in Nat /\ at[g] \in Nat
          BY <1>1, <4>2 DEF IInv, TimesInOrder
        <4> QED
          BY <1>1, <2>2, <4>3
      <3>3. Cardinality(kept) = Limit + 1 /\ kept \subseteq items[p] \union {next}
        BY <1>1, <3>1, <3>2, FailKeeps
      <3>4. f \in Nat /\ f < next
        BY <1>1, <1>4
      <3> QED
        BY <1>1, <3>1, <3>3, <3>4
    <2> QED
      BY <1>4, <2>2
  <1> QED
    BY <1>2, <1>3, <1>4

\* The invariant holds of a limiter nobody has used.
LEMMA InitIInv == Init => IInv
  <1> SUFFICES ASSUME Init
               PROVE  IInv
    OBVIOUS
  <1>1. Cardinality({}) = 0
    BY FS_EmptySet
  <1> QED
    BY <1>1, LimiterAssumption
    DEF Init, IInv, TypeOK, RecordsAreFailures, TimesInOrder, MissingDoNotCount, Failures

\* A failure keeps the invariant.
LEMMA FailStep ==
  ASSUME IInv, NEW p \in Peers, Fail(p)
  PROVE  IInv'
  <1>1. PICK kept \in Last(Recent(p) \union {next}) :
             /\ items' = [items EXCEPT ![p] = kept]
             /\ answer' = [answer EXCEPT ![p] = IF Cardinality(kept) > Limit
                                                THEN "rate_limited" ELSE "unauthorized"]
    BY DEF Fail
  <1>2. /\ next \in Failures /\ next' = next + 1 /\ now' = now
        /\ at' = [at EXCEPT ![next] = now]
        /\ failed' = [failed EXCEPT ![p] = @ \union {next}]
    BY DEF Fail
  <1>3. /\ now \in Nat /\ next \in Nat \ {0} /\ Failures \subseteq Nat
        /\ at \in [Failures -> Nat]
        /\ items \in [Peers -> SUBSET Failures]
        /\ failed \in [Peers -> SUBSET Failures]
        /\ answer \in [Peers -> {"none", "unauthorized", "rate_limited", "accepted"}]
        /\ Limit \in Nat /\ Window \in Nat
    BY LimiterAssumption DEF IInv, TypeOK, Failures
  <1>4. /\ kept \subseteq Recent(p) \union {next}
        /\ kept \subseteq Failures
        /\ Cardinality(kept) <= Limit + 1
    <2>1. Cardinality(kept) \in Nat /\ Cardinality(Recent(p)) \in Nat
      BY <1>2, FailKeeps, FailuresFinite DEF Recent, InWindow, IInv, TypeOK
    <2> QED
      BY <1>2, <1>3, <2>1, FailKeeps
  <1>5. TypeOK'
    BY <1>1, <1>2, <1>3, <1>4 DEF TypeOK, IInv
  <1>6. RecordsAreFailures'
    <2> SUFFICES ASSUME NEW q \in Peers
                 PROVE  /\ items'[q] \subseteq failed'[q]
                        /\ \A f \in failed'[q] : f < next'
      BY DEF RecordsAreFailures
    <2>1. /\ items[q] \subseteq failed[q] /\ failed[q] \subseteq Nat
          /\ \A f \in failed[q] : f < next
          /\ Recent(q) \subseteq items[q]
      BY <1>3 DEF IInv, RecordsAreFailures, Recent, InWindow
    <2>2. /\ items'[q] = IF q = p THEN kept ELSE items[q]
          /\ failed'[q] = IF q = p THEN failed[q] \union {next} ELSE failed[q]
      BY <1>1, <1>2, <1>3
    <2>3. items'[q] \subseteq failed'[q]
      BY <1>4, <2>1, <2>2
    <2>4. \A f \in failed'[q] : f < next'
      BY <1>2, <1>3, <2>1, <2>2
    <2> QED
      BY <2>3, <2>4
  <1>7. TimesInOrder'
    BY <1>2, <1>3 DEF TimesInOrder, IInv, TypeOK
  <1>8. MissingDoNotCount'
    <2> SUFFICES ASSUME NEW q \in Peers, NEW f \in failed'[q] \ items'[q]
                 PROVE  \/ at'[f] + Window <= now'
                        \/ /\ Cardinality(items'[q]) = Limit + 1
                           /\ \A g \in items'[q] : f <= g
      BY DEF MissingDoNotCount
    <2>1. CASE q = p
      <3>1. f \in failed[p] \union {next} /\ f \notin kept /\ items'[q] = kept
        BY <1>1, <1>2, <1>3, <2>1
      <3>2. \/ f # next /\ at[f] + Window <= now
            \/ Cardinality(kept) = Limit + 1 /\ \A g \in kept : f <= g
        BY <1>2, <3>1, FailMissing
      <3>3. f # next => at'[f] = at[f]
        BY <1>2, <1>3, <3>1
      <3> QED
        BY <1>2, <3>1, <3>2, <3>3
    <2>2. CASE q # p
      <3>1. failed'[q] = failed[q] /\ items'[q] = items[q]
        BY <1>1, <1>2, <1>3, <2>2
      <3>2. f \in Failures /\ f # next
        BY <1>3, <3>1 DEF IInv, RecordsAreFailures
      <3>3. at'[f] = at[f]
        BY <1>2, <1>3, <3>2
      <3> QED
        BY <1>2, <3>1, <3>3 DEF IInv, MissingDoNotCount
    <2> QED
      BY <2>1, <2>2
  <1> QED
    BY <1>5, <1>6, <1>7, <1>8 DEF IInv

\* Every request keeps the invariant.
LEMMA NextStep ==
  ASSUME IInv, [Next]_vars
  PROVE  IInv'
  <1>1. ASSUME NEW p \in Peers, Fail(p)
        PROVE  IInv'
    BY <1>1, FailStep
  <1>2. ASSUME NEW p \in Peers, Succeed(p)
        PROVE  IInv'
    <2>1. Cardinality({}) = 0
      BY FS_EmptySet
    <2>2. TypeOK'
      BY <1>2, <2>1, LimiterAssumption DEF Succeed, IInv, TypeOK
    <2>3. (RecordsAreFailures /\ TimesInOrder /\ MissingDoNotCount)'
      BY <1>2 DEF Succeed, IInv, TypeOK, RecordsAreFailures, TimesInOrder,
                  MissingDoNotCount
    <2> QED
      BY <2>2, <2>3 DEF IInv
  <1>3. CASE Tick
    <2>1. \A f \in Failures : at[f] \in Nat
      BY DEF IInv, TypeOK
    <2>2. \A p \in Peers : failed[p] \subseteq Failures
      BY DEF IInv, TypeOK
    <2>3. MissingDoNotCount'
      BY <1>3, <2>1, <2>2, LimiterAssumption DEF Tick, IInv, TypeOK, MissingDoNotCount
    <2>4. (TypeOK /\ RecordsAreFailures /\ TimesInOrder)'
      BY <1>3, <2>1 DEF Tick, IInv, TypeOK, RecordsAreFailures, TimesInOrder
    <2> QED
      BY <2>3, <2>4 DEF IInv
  <1>4. CASE UNCHANGED vars
    BY <1>4 DEF vars, IInv, TypeOK, RecordsAreFailures, TimesInOrder, MissingDoNotCount
  <1> QED
    BY <1>1, <1>2, <1>3, <1>4 DEF Next

\* The inductive invariant of the limiter (recentLocked and
\* recordFailureAndExceeded): what it forgets would not count.
THEOREM LimiterInvariance == Spec => []IInv
  <1>1. Init => IInv
    BY InitIInv
  <1>2. IInv /\ [Next]_vars => IInv'
    BY NextStep
  <1> QED
    BY <1>1, <1>2, PTL DEF Spec

\* No peer has more than limit+1 records, and every variable has its type
\* (recordFailureAndExceeded 52-54).
THEOREM LimiterTypes == Spec => []TypeOK
  <1>1. IInv => TypeOK
    BY DEF IInv
  <1> QED
    BY <1>1, LimiterInvariance, PTL

\* A failure is answered 429 exactly when more than limit failures since the
\* last success lie in the window (authenticateRequest 293-310).
THEOREM LimiterExact == Spec => ThrottleExact
  <1> DEFINE Exact(p) ==
        failed[p] # failed'[p] /\ failed'[p] # {}
            => (answer'[p] = "rate_limited"
                  <=> Cardinality({f \in failed'[p] : at'[f] + Window > now'}) > Limit)
  <1>1. ASSUME IInv, [Next]_vars, NEW p \in Peers
        PROVE  Exact(p)
    <2>1. CASE Fail(p)
      <3>1. PICK kept \in Last(Recent(p) \union {next}) :
                 /\ items' = [items EXCEPT ![p] = kept]
                 /\ answer' = [answer EXCEPT ![p] =
                       IF Cardinality(kept) > Limit THEN "rate_limited"
                                                    ELSE "unauthorized"]
        BY <2>1 DEF Fail
      <3>2. /\ next \in Failures /\ now' = now
            /\ at' = [at EXCEPT ![next] = now]
            /\ failed'[p] = failed[p] \union {next}
        BY <1>1, <2>1 DEF Fail, IInv, TypeOK
      <3>3. /\ now \in Nat /\ at \in [Failures -> Nat]
            /\ failed[p] \subseteq Failures /\ next \notin failed[p]
            /\ Limit \in Nat /\ Window \in Nat \ {0}
            /\ answer \in [Peers -> {"none", "unauthorized", "rate_limited", "accepted"}]
            /\ items[p] \subseteq failed[p]
        BY <1>1, LimiterAssumption DEF IInv, TypeOK, RecordsAreFailures, Failures
      <3> DEFINE counted == {f \in failed'[p] : at'[f] + Window > now'}
      <3>4. counted = InWindow(failed[p]) \union {next}
        BY <3>2, <3>3 DEF InWindow
      <3>5. answer'[p] = "rate_limited" <=> Cardinality(kept) > Limit
        BY <3>1, <3>3
      <3>6. kept \subseteq counted
        BY <1>1, <3>2, <3>3, <3>4, FailKeeps DEF Recent, InWindow
      <3>7. /\ IsFiniteSet(counted)
            /\ Cardinality(counted) \in Nat
            /\ Cardinality(kept) \in Nat
            /\ Cardinality(kept) <= Cardinality(counted)
        <4>1. counted \subseteq Failures /\ kept \subseteq Failures
          BY <3>2, <3>3, <3>4, <3>6 DEF InWindow
        <4> HIDE DEF counted
        <4> QED
          BY <4>1, <3>6, FailuresFinite, FS_Subset
      <3>8. CASE counted \subseteq kept
        BY <3>5, <3>6, <3>8
      <3>9. CASE ~(counted \subseteq kept)
        <4>1. PICK f \in counted : f \notin kept
          BY <3>9
        <4>2. f \in failed[p] \union {next}
          BY <3>4, <4>1 DEF InWindow
        <4>3. f # next => at[f] + Window > now
          BY <3>4, <4>1 DEF InWindow
        <4>4. f # next => at[f] \in Nat
          BY <3>3, <4>2
        <4>5. Cardinality(kept) = Limit + 1
          <5>1. \/ f # next /\ at[f] + Window <= now
                \/ Cardinality(kept) = Limit + 1
            BY <1>1, <3>1, <3>2, <4>1, <4>2, FailMissing
          <5> QED
            BY <3>3, <4>3, <4>4, <5>1
        <4> QED
          BY <3>3, <3>5, <3>7, <4>5
      <3> QED
        BY <3>8, <3>9
    <2>2. ASSUME NEW q \in Peers, Fail(q), q # p
          PROVE  Exact(p)
      BY <1>1, <2>2 DEF Fail, IInv, TypeOK
    <2>3. ASSUME NEW q \in Peers, Succeed(q)
          PROVE  Exact(p)
      BY <1>1, <2>3 DEF Succeed, IInv, TypeOK
    <2>4. CASE Tick \/ UNCHANGED vars
      BY <2>4 DEF Tick, vars
    <2> QED
      BY <1>1, <2>1, <2>2, <2>3, <2>4 DEF Next
  <1>2. IInv /\ [Next]_vars => \A p \in Peers : Exact(p)
    BY <1>1
  <1> QED
    BY <1>2, LimiterInvariance, PTL DEF Spec, ThrottleExact
=============================================================================
