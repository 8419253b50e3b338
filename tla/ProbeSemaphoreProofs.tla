------------------------ MODULE ProbeSemaphoreProofs ------------------------
(***************************************************************************)
(* The semaphore never grants more than its permits, for any finite set of  *)
(* threads and any number of permits.                                       *)
(*                                                                         *)
(* The bound is not inductive: whether a dec may return depends on count,   *)
(* and count says something about granted only because every waiting thread *)
(* still counts.  The invariant is the bound with CountPaysWaiters.  There  *)
(* is one lemma per action, stated of the action alone, so that a module    *)
(* that composes the semaphore can use them for its own steps.              *)
(***************************************************************************)
EXTENDS ProbeSemaphore, FiniteSetTheorems, TLAPS

SemInv ==
  /\ SemTypeOK
  /\ CountPaysWaiters
  /\ AtMostPermits

\* The threads in dec's loop are finitely many.
LEMMA WaitingIsFinite ==
  ASSUME SemTypeOK
  PROVE  /\ IsFiniteSet(Waiting)
         /\ Cardinality(Waiting) \in Nat
<1>1. Waiting \subseteq Thread
  BY DEF SemTypeOK, Waiting
<1>2. IsFiniteSet(Waiting)
  BY <1>1, ThreadAssumption, FS_Subset
<1>3. QED
  BY <1>2, FS_CardinalityType

LEMMA SemInitInv == SemInit => SemInv
<1> SUFFICES ASSUME SemInit PROVE SemInv
  OBVIOUS
<1>1. Waiting = {} /\ Cardinality(Waiting) = 0
  BY FS_EmptySet DEF SemInit, Waiting
<1>2. QED
  BY <1>1, PermitsAssumption
  DEF SemInit, SemInv, SemTypeOK, CountPaysWaiters, AtMostPermits

LEMMA DecPassesKeepsInv ==
  ASSUME SemInv, NEW t \in Thread, DecPasses(t)
  PROVE  SemInv'
<1>1. Waiting' = Waiting /\ Cardinality(Waiting) \in Nat
  BY WaitingIsFinite DEF DecPasses, Waiting, SemInv
<1>2. granted + 1 <= Permits
  BY <1>1, PermitsAssumption
  DEF SemInv, SemTypeOK, CountPaysWaiters, DecPasses, Passes
<1>3. QED
  BY <1>1, <1>2, PermitsAssumption
  DEF SemInv, SemTypeOK, CountPaysWaiters, AtMostPermits, DecPasses

LEMMA DecBlocksKeepsInv ==
  ASSUME SemInv, NEW t \in Thread, DecBlocks(t)
  PROVE  SemInv'
<1>1. t \notin Waiting /\ Waiting' = Waiting \cup {t}
  BY DEF DecBlocks, Waiting
<1>2. Cardinality(Waiting') = Cardinality(Waiting) + 1
      /\ Cardinality(Waiting) \in Nat
  BY <1>1, WaitingIsFinite, FS_AddElement DEF SemInv
<1>3. SemTypeOK'
  BY <1>1, PermitsAssumption DEF SemInv, SemTypeOK, DecBlocks, Waiting
<1>4. QED
  BY <1>2, <1>3, PermitsAssumption
  DEF SemInv, SemTypeOK, CountPaysWaiters, AtMostPermits, DecBlocks

LEMMA RetestPassesKeepsInv ==
  ASSUME SemInv, NEW t \in Thread, RetestPasses(t)
  PROVE  SemInv'
<1>1. t \in Waiting /\ Waiting' = Waiting \ {t}
  BY DEF RetestPasses, Waiting, SemInv, SemTypeOK
<1>2. Cardinality(Waiting') = Cardinality(Waiting) - 1
      /\ Cardinality(Waiting') \in Nat /\ Cardinality(Waiting) \in Nat
  <2>1. IsFiniteSet(Waiting) /\ Cardinality(Waiting) \in Nat
    BY WaitingIsFinite DEF SemInv
  <2>2. IsFiniteSet(Waiting \ {t})
        /\ Cardinality(Waiting \ {t}) = Cardinality(Waiting) - 1
    BY <1>1, <2>1, FS_RemoveElement
  <2>3. QED
    BY <1>1, <2>1, <2>2, FS_CardinalityType
<1>3. granted + 1 <= Permits
  BY <1>2, PermitsAssumption
  DEF SemInv, SemTypeOK, CountPaysWaiters, RetestPasses, Passes
<1>4. QED
  BY <1>2, <1>3, PermitsAssumption
  DEF SemInv, SemTypeOK, CountPaysWaiters, AtMostPermits, RetestPasses

\* A step that only moves waiting threads between asleep and awake.
LEMMA MovingKeepsInv ==
  ASSUME SemInv, UNCHANGED <<count, granted>>,
         Waiting' = Waiting, asleep' \cap awake' = {}
  PROVE  SemInv'
<1>1. SemTypeOK'
  BY DEF SemInv, SemTypeOK, Waiting
<1>2. QED
  BY <1>1 DEF SemInv, CountPaysWaiters, AtMostPermits

LEMMA RetestBlocksKeepsInv ==
  ASSUME SemInv, NEW t \in Thread, RetestBlocks(t)
  PROVE  SemInv'
<1>1. Waiting' = Waiting /\ asleep' \cap awake' = {}
  BY DEF RetestBlocks, Waiting, SemInv, SemTypeOK
<1>2. QED
  BY <1>1, MovingKeepsInv DEF RetestBlocks

LEMMA SpuriousWakeKeepsInv ==
  ASSUME SemInv, NEW t \in Thread, SpuriousWake(t)
  PROVE  SemInv'
<1>1. Waiting' = Waiting /\ asleep' \cap awake' = {}
  BY DEF SpuriousWake, Waiting, SemInv, SemTypeOK
<1>2. QED
  BY <1>1, MovingKeepsInv DEF SpuriousWake

LEMMA IncKeepsInv ==
  ASSUME SemInv, granted > 0, Inc
  PROVE  SemInv'
<1>1. Waiting' = Waiting /\ asleep' \cap awake' = {}
      /\ asleep' \subseteq Thread /\ awake' \subseteq Thread
  BY DEF Inc, NotifyOne, Waiting, SemInv, SemTypeOK
<1>2. Cardinality(Waiting) \in Nat
  BY WaitingIsFinite DEF SemInv
<1>3. QED
  BY <1>1, <1>2, PermitsAssumption
  DEF SemInv, SemTypeOK, CountPaysWaiters, AtMostPermits, Inc

-----------------------------------------------------------------------------

\* The invariant holds for every number of threads and of permits.
THEOREM SemInvariant == SemSpec => []SemInv
<1>1. SemInit => SemInv
  BY SemInitInv
<1>2. SemInv /\ [SemNext]_semVars => SemInv'
  <2> SUFFICES ASSUME SemInv, [SemNext]_semVars
               PROVE  SemInv'
    OBVIOUS
  <2>1. ASSUME NEW t \in Thread, DecPasses(t) PROVE SemInv'
    BY <2>1, DecPassesKeepsInv
  <2>2. ASSUME NEW t \in Thread, DecBlocks(t) PROVE SemInv'
    BY <2>2, DecBlocksKeepsInv
  <2>3. ASSUME NEW t \in Thread, RetestPasses(t) PROVE SemInv'
    BY <2>3, RetestPassesKeepsInv
  <2>4. ASSUME NEW t \in Thread, RetestBlocks(t) PROVE SemInv'
    BY <2>4, RetestBlocksKeepsInv
  <2>5. ASSUME NEW t \in Thread, SpuriousWake(t) PROVE SemInv'
    BY <2>5, SpuriousWakeKeepsInv
  <2>6. CASE granted > 0 /\ Inc
    BY <2>6, IncKeepsInv
  <2>7. CASE UNCHANGED semVars
    BY <2>7
    DEF semVars, SemInv, SemTypeOK, CountPaysWaiters, AtMostPermits, Waiting
  <2>8. QED
    BY <2>1, <2>2, <2>3, <2>4, <2>5, <2>6, <2>7 DEF SemNext
<1>3. QED
  BY <1>1, <1>2, PTL DEF SemSpec

\* "allow only 1 thread" (probe_RSE.rs:50), and for Permits in general: however
\* dec, inc, notifications and spurious wakeups interleave, no more calls of
\* dec than that have returned without their inc.
THEOREM PermitsBoundGrants == SemSpec => []AtMostPermits
<1>1. SemInv => AtMostPermits
  BY DEF SemInv
<1>2. QED
  BY <1>1, SemInvariant, PTL

\* A thread blocked in dec stays paid for: count is what is left of the permits
\* after every grant and every waiting thread (probe_RSE.rs:277-280).
THEOREM CountIsExact == SemSpec => []CountPaysWaiters
<1>1. SemInv => CountPaysWaiters
  BY DEF SemInv
<1>2. QED
  BY <1>1, SemInvariant, PTL

-----------------------------------------------------------------------------
(* No lost wakeup for a lone waiter, with the one permit of the probes.     *)

\* While the count lets a waiter go, one is awake to see it.
WakerInv == count >= 0 /\ Waiting # {} => awake # {}

LEMMA WakerStep ==
  ASSUME SemInv, SemInv', WakerInv, Permits = 1, [SemNext]_semVars
  PROVE  WakerInv'
<1> SUFFICES ASSUME count' >= 0, Waiting' # {}
             PROVE  awake' # {}
  BY DEF WakerInv
<1>1. count \in Int /\ granted' = 0
  <2>1. Waiting' \subseteq Thread
    BY DEF SemInv, SemTypeOK, Waiting
  <2>2. IsFiniteSet(Waiting')
    BY <2>1, ThreadAssumption, FS_Subset
  <2>3. Cardinality(Waiting') \in Nat /\ Cardinality(Waiting') # 0
    BY <2>2, FS_CardinalityType, FS_EmptySet
  <2>4. QED
    BY <2>3 DEF SemInv, SemTypeOK, CountPaysWaiters
<1>2. ASSUME NEW t \in Thread, DecPasses(t) PROVE FALSE
  BY <1>1, <1>2 DEF DecPasses, SemInv, SemTypeOK
<1>3. ASSUME NEW t \in Thread, DecBlocks(t) PROVE FALSE
  BY <1>3 DEF DecBlocks, Passes
<1>4. ASSUME NEW t \in Thread, RetestPasses(t) PROVE FALSE
  BY <1>1, <1>4 DEF RetestPasses, SemInv, SemTypeOK
<1>5. ASSUME NEW t \in Thread, RetestBlocks(t) PROVE FALSE
  BY <1>5 DEF RetestBlocks, Passes
<1>6. ASSUME NEW t \in Thread, SpuriousWake(t) PROVE awake' # {}
  BY <1>6 DEF SpuriousWake
<1>7. CASE granted > 0 /\ Inc
  <2>1. Waiting' = Waiting /\ count' = count + 1 /\ granted' = granted - 1
    BY <1>7 DEF Inc, NotifyOne, Waiting, SemInv, SemTypeOK
  <2>2. Cardinality(Waiting) \in Nat /\ Cardinality(Waiting) # 0
    BY <2>1, WaitingIsFinite, FS_EmptySet DEF SemInv
  <2>3. Notifies(count + 1)
    BY <1>1, <2>1, <2>2, <1>7
    DEF Notifies, SemInv, SemTypeOK, CountPaysWaiters
  <2>4. NotifyOne
    BY <1>7, <2>3 DEF Inc
  <2>5. QED
    BY <2>1, <2>4 DEF NotifyOne, Waiting
<1>8. CASE UNCHANGED semVars
  BY <1>8 DEF semVars, WakerInv, Waiting
<1>9. QED
  BY <1>2, <1>3, <1>4, <1>5, <1>6, <1>7, <1>8 DEF SemNext

\* With the probes' single permit no notification is lost on a lone waiter:
\* once every permit is back, it is awake and will pass (probe_RSE.rs:275-288).
THEOREM LoneWaiterWakes ==
  ASSUME Permits = 1 PROVE SemSpec => []LoneWaiterIsWoken
<1>1. SemInit => WakerInv
  BY DEF SemInit, WakerInv, Waiting
<1>2. SemInv /\ SemInv' /\ WakerInv /\ [SemNext]_semVars => WakerInv'
  BY WakerStep
<1>3. SemInv /\ WakerInv => LoneWaiterIsWoken
  <2> SUFFICES ASSUME SemInv, WakerInv, NEW t \in Thread,
                      granted = 0, Waiting = {t}
               PROVE  t \in awake /\ count >= 0
    BY DEF LoneWaiterIsWoken
  <2>1. Cardinality(Waiting) = 1
    BY FS_Singleton
  <2>2. count >= 0
    BY <2>1 DEF SemInv, SemTypeOK, CountPaysWaiters
  <2>3. QED
    BY <2>2 DEF WakerInv, Waiting
<1>4. QED
  BY <1>1, <1>2, <1>3, SemInvariant, PTL DEF SemSpec
=============================================================================
