---------------------------- MODULE HeapGCProofs ----------------------------
(***************************************************************************)
(* Proofs about HeapGC for any number of spaces and slots, any sweep       *)
(* budget, and mutators that keep or break the rooting contract.           *)
(***************************************************************************)
EXTENDS HeapGC, FiniteSetTheorems, TLAPS

USE SpacesAssumption, CapAssumption, BudgetAssumption, KeepStaleAssumption

\* A space has finitely many slots, so pending_dead counts a finite set.
LEMMA SlotsFinite ==
    ASSUME NEW S \in SUBSET Handles
    PROVE  IsFiniteSet(S) /\ Cardinality(S) \in Nat
<1>1. IsFiniteSet(Spaces \X (0..MaxCap))
  <2>1. IsFiniteSet(0..MaxCap)
    BY FS_Interval
  <2> QED
    BY <2>1, FS_Product
<1>2. S \subseteq Spaces \X (0..MaxCap)
  BY DEF Handles
<1>3. IsFiniteSet(S)
  BY <1>1, <1>2, FS_Subset
<1> QED
  BY <1>3, FS_CardinalityType

\* A sweep step moves the cursor within the slot vector, and the slot it
\* releases is a dead one of its space.
LEMMA SweepStepType ==
    ASSUME TypeOK, NEW s \in Spaces, NEW c \in 0..MaxCap, SweepStep(s, c)
    PROVE  /\ cursor' \in [Spaces -> 0..MaxCap]
           /\ released' \subseteq Slots
           /\ free' \in [Handles -> Nat]
           /\ pending' \in [Spaces -> Nat]
           /\ refs' \in [Handles -> SUBSET Slots]
           /\ weak' \in [Handles -> SUBSET Slots]
<1>1. SweepReleases(s, c) \subseteq Slots
  BY DEF SweepReleases, SweepHits, Dead, SlotsOf
<1>2. cursor' \in [Spaces -> 0..MaxCap]
  BY DEF SweepStep, TypeOK
<1>3. released' \subseteq Slots
  BY <1>1 DEF SweepStep, TypeOK
<1>4. free' \in [Handles -> Nat]
  BY DEF SweepStep, TypeOK
<1>5. pending' \in [Spaces -> Nat]
  <2>1. SweepReleases(s, c) # {} => pending[s] # 0
    BY DEF SweepReleases
  <2> QED
    BY <2>1 DEF SweepStep, TypeOK
<1>6. refs' \in [Handles -> SUBSET Slots] /\ weak' \in [Handles -> SUBSET Slots]
  BY DEF SweepStep, TypeOK
<1> QED
  BY <1>2, <1>3, <1>4, <1>5, <1>6

\* Extending a space adds exactly the slot the allocation gets.
LEMMA ExtendedSlots ==
    ASSUME TypeOK, NEW P, AllocExtend(P)
    PROVE  /\ Slots' = Slots \cup {<<target, len[target]>>}
           /\ <<target, len[target]>> \in Handles \ Slots
<1> DEFINE h == <<target, len[target]>>
<1>1. target \in Spaces /\ len[target] \in 0..MaxCap /\ len[target] < Cap[target]
  BY DEF AllocExtend, TypeOK
<1>2. h \in Handles
  BY <1>1 DEF Handles
<1>3. h \notin Slots
  BY <1>1 DEF Slots
<1>4. ASSUME NEW g \in Handles PROVE g \in Slots' <=> g \in Slots \/ g = h
  <2>1. g[1] \in Spaces /\ g[2] \in 0..MaxCap /\ g = <<g[1], g[2]>>
    BY DEF Handles
  <2>2. len'[g[1]] = IF g[1] = target THEN len[target] + 1 ELSE len[g[1]]
    BY <1>1, <2>1 DEF AllocExtend, TypeOK
  <2>3. len[g[1]] \in 0..MaxCap
    BY <2>1 DEF TypeOK
  <2> QED
    BY <1>1, <2>1, <2>2, <2>3 DEF Slots
<1> QED
  BY <1>2, <1>3, <1>4 DEF Slots

\* Every step keeps the types: handles stay inside the slot vectors, which
\* only grow, and the counters stay natural numbers.
LEMMA TypeStep == TypeOK /\ FreeListExact /\ [Next]_vars => TypeOK'
<1> SUFFICES ASSUME TypeOK, FreeListExact, [Next]_vars PROVE TypeOK'
  OBVIOUS
<1> USE DEF bookkeeping, payloads, rootsets, collector
<1>1. ASSUME NEW s \in Spaces, AllocBegin(s) PROVE TypeOK'
  BY <1>1 DEF AllocBegin, TypeOK, Slots
<1>2. ASSUME NEW h \in Handles, NEW P \in Payloads, AllocPop(h, P) PROVE TypeOK'
  <2>1. h \in Slots
    BY <1>2 DEF AllocPop, FreeListExact, TypeOK
  <2> QED
    BY <1>2, <2>1 DEF AllocPop, StorePayload, Payloads, TypeOK, Slots
<1>3. ASSUME NEW c \in 0..MaxCap, AllocSweep(c) PROVE TypeOK'
  <2>1. target \in Spaces /\ SweepStep(target, c)
    BY <1>3 DEF AllocSweep, TypeOK
  <2>2. Slots' = Slots
    BY <1>3 DEF AllocSweep, Slots
  <2> QED
    BY <1>3, <2>1, <2>2, SweepStepType DEF AllocSweep, TypeOK
<1>4. ASSUME NEW P \in Payloads, AllocExtend(P) PROVE TypeOK'
  <2> DEFINE h == <<target, len[target]>>
  <2>1. target \in Spaces /\ len[target] \in 0..MaxCap /\ len[target] < Cap[target]
    BY <1>4 DEF AllocExtend, TypeOK
  <2>2. h \in Handles
    BY <2>1 DEF Handles
  <2>3. len' \in [Spaces -> 0..MaxCap] /\ \A s \in Spaces : len'[s] <= Cap[s]
    BY <1>4, <2>1 DEF AllocExtend, TypeOK
  <2>4. Slots' = Slots \cup {h}
    BY <1>4, ExtendedSlots
  <2>5. refs' \in [Handles -> SUBSET Slots'] /\ weak' \in [Handles -> SUBSET Slots']
    BY <1>4, <2>2, <2>4 DEF AllocExtend, StorePayload, Payloads, TypeOK
  <2>6. cursor' \in [Spaces -> 0..MaxCap]
    BY <1>4, <2>1 DEF AllocExtend, TypeOK
  <2> QED
    BY <1>4, <2>2, <2>3, <2>4, <2>5, <2>6 DEF AllocExtend, TypeOK
<1>5. CASE AllocAtCap
  <2>1. target \in Spaces /\ len[target] \in 0..MaxCap
    BY <1>5 DEF AllocAtCap, TypeOK
  <2> QED
    BY <1>5, <2>1 DEF AllocAtCap, TypeOK, Slots
<1>6. ASSUME NEW h \in Handles, NEW P \in Payloads, WriteRef(h, P) PROVE TypeOK'
  BY <1>6 DEF WriteRef, Payloads, TypeOK, Slots
<1>7. ASSUME NEW h \in Handles, NEW c \in Handles, RecordTransition(h, c)
      PROVE  TypeOK'
  BY <1>7 DEF RecordTransition, TypeOK, Slots
<1>8. ASSUME NEW h \in Handles, NEW r \in Handles, ReadRef(h, r) PROVE TypeOK'
  BY <1>8 DEF ReadRef, TypeOK, Slots
<1>9. ASSUME NEW h \in Handles, AddRoot(h) \/ RemoveRoot(h) PROVE TypeOK'
  BY <1>9 DEF AddRoot, RemoveRoot, TypeOK, Slots
<1>10. ASSUME NEW h \in Handles, Pin(h) \/ DeregisterRealmGlobal(h) PROVE TypeOK'
  BY <1>10 DEF Pin, DeregisterRealmGlobal, TypeOK, Slots
<1>11. ASSUME NEW S \in SUBSET held, GcProtect(S) \/ GcProtectNoCollect(S)
       PROVE  TypeOK'
  BY <1>11 DEF GcProtect, GcProtectNoCollect, TypeOK, Slots
<1>12. CASE ForceCollect
  BY <1>12 DEF ForceCollect, TypeOK, Slots
<1>13. ASSUME NEW s \in Spaces, NEW c \in 0..MaxCap, FinishSweep(s, c) PROVE TypeOK'
  <2>1. SweepStep(s, c)
    BY <1>13 DEF FinishSweep
  <2>2. Slots' = Slots
    BY <1>13 DEF FinishSweep, Slots
  <2> QED
    BY <1>13, <2>1, <2>2, SweepStepType DEF FinishSweep, TypeOK
<1>14. CASE MarkRoots
  BY <1>14 DEF MarkRoots, RootHandles, TypeOK, Slots
<1>15. ASSUME NEW h \in Handles, MarkStep(h) PROVE TypeOK'
  BY <1>15 DEF MarkStep, TypeOK, Slots
<1>16. CASE PublishMark
  <2>1. Slots' = Slots
    BY <1>16 DEF PublishMark, Slots
  <2>2. \A s \in Spaces : PendingAfterMark[s] \in Nat
    BY SlotsFinite DEF PendingAfterMark, SlotsOf, Slots
  <2>3. pending' \in [Spaces -> Nat] /\ cursor' \in [Spaces -> 0..MaxCap]
    BY <1>16, <2>2 DEF PublishMark, PendingAfterMark, CursorAfterMark
  <2>4. weak' \in [Handles -> SUBSET Slots] /\ free' \in [Handles -> Nat]
    BY <1>16 DEF PublishMark, PrunedWeak, FreeAfterMark, TypeOK
  <2>5. released' \subseteq Slots /\ alive' \subseteq Slots /\ held' \subseteq Slots
    BY <1>16 DEF PublishMark, ReleasedAfterMark, TypeOK
  <2> QED
    BY <1>16, <2>1, <2>3, <2>4, <2>5 DEF PublishMark, TypeOK
<1>17. CASE UNCHANGED vars
  BY <1>17 DEF vars, TypeOK, Slots
<1> QED
  BY <1>1, <1>2, <1>3, <1>4, <1>5, <1>6, <1>7, <1>8, <1>9, <1>10, <1>11, <1>12,
     <1>13, <1>14, <1>15, <1>16, <1>17 DEF Next, Alloc, Mutate, Collect

-----------------------------------------------------------------------------
(* The bookkeeping invariant.  FreeListExact and SweepComplete need each     *)
(* other's company only through TypeOK; together they are inductive.        *)

BookkeepingInv == TypeOK /\ FreeListExact /\ SweepComplete

\* What one sweep step does to the dead slots of its space.
LEMMA SweepStepDead ==
    ASSUME TypeOK, SweepComplete, NEW s \in Spaces, NEW c \in 0..MaxCap,
           SweepStop(s, c)
    PROVE  /\ SweepReleases(s, c) \subseteq Dead(s)
           /\ SweepReleases(s, c) = {} \/ \E h : SweepReleases(s, c) = {h}
           /\ \A g \in Dead(s) \ SweepReleases(s, c) : c <= g[2]
<1>1. IsFiniteSet(Dead(s)) /\ Dead(s) \subseteq Handles
  BY SlotsFinite DEF Dead, SlotsOf, Slots
<1>2. \A g \in Dead(s) : /\ g = <<s, g[2]>> /\ g[2] \in Nat
                         /\ cursor[s] <= g[2] /\ g[2] < len[s]
  <2> SUFFICES ASSUME NEW g \in Dead(s)
               PROVE  /\ g = <<s, g[2]>> /\ g[2] \in Nat
                      /\ cursor[s] <= g[2] /\ g[2] < len[s]
    OBVIOUS
  <2>1. g \in Handles /\ g[1] = s /\ g[2] < len[s]
    BY DEF Dead, SlotsOf, Slots
  <2>2. g = <<g[1], g[2]>> /\ g[2] \in Nat
    BY <2>1 DEF Handles
  <2> QED
    BY <2>1, <2>2 DEF SweepComplete
<1>3. len[s] \in Nat /\ cursor[s] \in Nat /\ SweepEnd(s) \in Nat
  BY DEF TypeOK, SweepEnd
<1>4. CASE pending[s] = 0
  <2>1. Dead(s) = {}
    BY <1>1, <1>4, FS_EmptySet DEF SweepComplete
  <2> QED
    BY <1>4, <2>1 DEF SweepReleases
<1>5. CASE pending[s] # 0 /\ SweepHits(s) = {}
  <2>1. SweepReleases(s, c) = {}
    BY <1>5 DEF SweepReleases
  <2>2. c = IF cursor[s] < SweepEnd(s) THEN SweepEnd(s) ELSE cursor[s]
    BY <1>5 DEF SweepStop
  <2>3. \A g \in Dead(s) : SweepEnd(s) <= g[2]
    BY <1>2, <1>3, <1>5 DEF SweepHits
  <2> QED
    BY <1>2, <1>3, <2>1, <2>2, <2>3
<1>6. CASE pending[s] # 0 /\ SweepHits(s) # {}
  <2>1. PICK h \in SweepHits(s) : /\ \A g \in SweepHits(s) : h[2] <= g[2]
                                  /\ c = h[2] + 1
    BY <1>6 DEF SweepStop
  <2>2. SweepHits(s) \subseteq Dead(s)
    BY DEF SweepHits
  <2>3. SweepReleases(s, c) = {h}
    BY <1>2, <1>6, <2>1, <2>2 DEF SweepReleases
  <2>4. \A g \in Dead(s) \ {h} : h[2] + 1 <= g[2]
    <3> SUFFICES ASSUME NEW g \in Dead(s) \ {h} PROVE h[2] < g[2]
      BY <1>2, <2>2
    <3>1. h[2] # g[2]
      BY <1>2, <2>2
    <3>2. CASE g \in SweepHits(s)
      BY <1>2, <2>1, <2>2, <3>1, <3>2
    <3>3. CASE g \notin SweepHits(s)
      <4>1. SweepEnd(s) <= g[2]
        BY <1>2, <1>3, <3>3 DEF SweepHits
      <4>2. h[2] < SweepEnd(s)
        BY DEF SweepHits
      <4> QED
        BY <1>2, <1>3, <2>2, <4>1, <4>2
    <3> QED
      BY <3>2, <3>3
  <2> QED
    BY <2>1, <2>2, <2>3, <2>4
<1> QED
  BY <1>4, <1>5, <1>6

\* A call of sweep_step keeps the bookkeeping invariant.
LEMMA SweepStepBookkeeping ==
    ASSUME BookkeepingInv, NEW s \in Spaces, NEW c \in 0..MaxCap,
           SweepStep(s, c), UNCHANGED <<len, alive>>
    PROVE  FreeListExact' /\ SweepComplete'
<1> DEFINE R == SweepReleases(s, c)
<1>1. /\ R \subseteq Dead(s)
      /\ R = {} \/ \E h : R = {h}
      /\ \A g \in Dead(s) \ R : c <= g[2]
  BY SweepStepDead DEF BookkeepingInv, SweepStep
<1>2. Slots' = Slots
  BY DEF Slots
<1>3. FreeListExact'
  BY <1>1 DEF FreeListExact, SweepStep, Dead, BookkeepingInv
<1>4. \A t \in Spaces : Dead(t)' = IF t = s THEN Dead(s) \ R ELSE Dead(t)
  <2>1. released' = released \cup R /\ alive' = alive
    BY DEF SweepStep
  <2>2. \A g \in R : g[1] = s
    BY <1>1 DEF Dead, SlotsOf
  <2> QED
    BY <1>2, <2>1, <2>2 DEF Dead, SlotsOf
<1>5. ASSUME NEW t \in Spaces PROVE pending'[t] = Cardinality(Dead(t)')
  <2>1. pending[t] = Cardinality(Dead(t)) /\ pending[t] \in Nat
    BY DEF BookkeepingInv, SweepComplete, TypeOK
  <2>2. pending' = [pending EXCEPT ![s] = IF R = {} THEN @ ELSE @ - 1]
    BY DEF SweepStep
  <2>3. CASE t # s
    BY <1>4, <2>1, <2>2, <2>3 DEF BookkeepingInv, TypeOK
  <2>4. CASE t = s /\ R = {}
    <3>1. Dead(t)' = Dead(t)
      BY <1>4, <2>4
    <3> QED
      BY <2>1, <2>2, <2>4, <3>1 DEF BookkeepingInv, TypeOK
  <2>5. CASE t = s /\ R # {}
    <3>1. PICK h : R = {h} /\ h \in Dead(s)
      BY <1>1, <2>5
    <3>2. IsFiniteSet(Dead(s))
      BY SlotsFinite DEF Dead, SlotsOf, Slots
    <3>3. Cardinality(Dead(s) \ {h}) = Cardinality(Dead(s)) - 1
      BY <3>1, <3>2, FS_RemoveElement
    <3>4. Dead(t)' = Dead(s) \ {h}
      BY <1>4, <2>5, <3>1
    <3> QED
      BY <2>1, <2>2, <2>5, <3>3, <3>4 DEF BookkeepingInv, TypeOK
  <2> QED
    BY <2>3, <2>4, <2>5
<1>6. ASSUME NEW t \in Spaces, NEW g \in Dead(t)' PROVE cursor'[t] <= g[2]
  <2>1. cursor' = [cursor EXCEPT ![s] = c]
    BY DEF SweepStep
  <2> QED
    BY <1>1, <1>4, <1>6, <2>1 DEF BookkeepingInv, SweepComplete, TypeOK
<1> QED
  BY <1>3, <1>5, <1>6 DEF SweepComplete

\* When the alloc loop stops at the end of the space without releasing a slot,
\* no dead slot is left in it.
LEMMA SweptClean ==
    ASSUME TypeOK, SweepComplete, NEW s \in Spaces,
           SweepStop(s, len[s]), SweepReleases(s, len[s]) = {}
    PROVE  Dead(s) = {}
<1>1. len[s] \in 0..MaxCap
  BY DEF TypeOK
<1>2. \A g \in Dead(s) : len[s] <= g[2]
  BY <1>1, SweepStepDead
<1>3. \A g \in Dead(s) : g[2] \in Nat /\ g[2] < len[s]
  BY DEF Dead, SlotsOf, Slots, Handles
<1> QED
  BY <1>1, <1>2, <1>3

\* Steps that leave the flags and lists alone keep the bookkeeping invariant.
LEMMA UnchangedBookkeeping ==
    ASSUME FreeListExact, SweepComplete, UNCHANGED bookkeeping
    PROVE  FreeListExact' /\ SweepComplete'
BY DEF FreeListExact, SweepComplete, Dead, SlotsOf, Slots, bookkeeping

\* Every step keeps FreeListExact and SweepComplete.
LEMMA BookkeepingStep ==
    BookkeepingInv /\ [Next]_vars => FreeListExact' /\ SweepComplete'
<1> SUFFICES ASSUME BookkeepingInv, [Next]_vars
             PROVE  FreeListExact' /\ SweepComplete'
  OBVIOUS
<1> USE DEF BookkeepingInv
<1>1. CASE UNCHANGED bookkeeping
  BY <1>1, UnchangedBookkeeping
<1>2. ASSUME NEW h \in Handles, NEW P \in Payloads, AllocPop(h, P)
      PROVE  FreeListExact' /\ SweepComplete'
  <2>1. h \in released /\ h \notin alive /\ free[h] = 1
    BY <1>2 DEF AllocPop, FreeListExact
  <2>2. FreeListExact'
    BY <1>2, <2>1 DEF AllocPop, FreeListExact, TypeOK
  <2>3. Slots' = Slots
    BY <1>2 DEF AllocPop, Slots
  <2>4. \A s \in Spaces : Dead(s)' = Dead(s)
    BY <1>2, <2>1, <2>3 DEF AllocPop, Dead, SlotsOf
  <2>5. SweepComplete'
    BY <1>2, <2>4 DEF AllocPop, SweepComplete
  <2> QED
    BY <2>2, <2>5
<1>3. ASSUME NEW c \in 0..MaxCap, AllocSweep(c)
      PROVE  FreeListExact' /\ SweepComplete'
  BY <1>3, SweepStepBookkeeping DEF AllocSweep, TypeOK
<1>4. ASSUME NEW P \in Payloads, AllocExtend(P)
      PROVE  FreeListExact' /\ SweepComplete'
  <2> DEFINE h == <<target, len[target]>>
  <2>1. target \in Spaces /\ Dead(target) = {}
    BY <1>4, SweptClean DEF AllocExtend, TypeOK
  <2>2. Slots' = Slots \cup {h} /\ h \in Handles \ Slots
    BY <1>4, ExtendedSlots
  <2>3. FreeListExact'
    BY <1>4, <2>2 DEF AllocExtend, FreeListExact, TypeOK
  <2>4. \A s \in Spaces : Dead(s)' = Dead(s)
    BY <1>4, <2>2 DEF AllocExtend, Dead, SlotsOf
  <2>5. SweepComplete'
    BY <1>4, <2>1, <2>4 DEF AllocExtend, SweepComplete, TypeOK
  <2> QED
    BY <2>3, <2>5
<1>5. CASE AllocAtCap
  <2>1. target \in Spaces /\ Dead(target) = {}
    BY <1>5, SweptClean DEF AllocAtCap, TypeOK
  <2>2. \A s \in Spaces : Dead(s)' = Dead(s)
    BY <1>5 DEF AllocAtCap, Dead, SlotsOf, Slots
  <2>3. SweepComplete'
    BY <1>5, <2>1, <2>2 DEF AllocAtCap, SweepComplete, TypeOK
  <2> QED
    BY <1>5, <2>3 DEF AllocAtCap, FreeListExact
<1>6. ASSUME NEW s \in Spaces, NEW c \in 0..MaxCap, FinishSweep(s, c)
      PROVE  FreeListExact' /\ SweepComplete'
  BY <1>6, SweepStepBookkeeping DEF FinishSweep
<1>7. CASE PublishMark
  <2>1. FreeListExact'
    BY <1>7 DEF PublishMark, FreeAfterMark, ReleasedAfterMark, FreeListExact, TypeOK
  <2>2. \A s \in Spaces : pending'[s] = Cardinality(Dead(s)')
    BY <1>7 DEF PublishMark, PendingAfterMark, ReleasedAfterMark, Dead, SlotsOf, Slots
  <2>3. \A s \in Spaces : \A h \in Dead(s)' : cursor'[s] <= h[2]
    BY <1>7 DEF PublishMark, CursorAfterMark, Dead, SlotsOf, Slots, Handles
  <2> QED
    BY <2>1, <2>2, <2>3 DEF SweepComplete
<1>8. ASSUME NEW s \in Spaces, AllocBegin(s) PROVE UNCHANGED bookkeeping
  BY <1>8 DEF AllocBegin
<1>9. Mutate => UNCHANGED bookkeeping
  BY DEF Mutate, WriteRef, RecordTransition, ReadRef, AddRoot, RemoveRoot, Pin,
         DeregisterRealmGlobal
<1>10. ASSUME NEW S \in SUBSET held, GcProtect(S) \/ GcProtectNoCollect(S)
       PROVE  UNCHANGED bookkeeping
  BY <1>10 DEF GcProtect, GcProtectNoCollect
<1>11. ForceCollect \/ MarkRoots \/ (\E h \in Handles : MarkStep(h))
         => UNCHANGED bookkeeping
  BY DEF ForceCollect, MarkRoots, MarkStep
<1>12. UNCHANGED vars => UNCHANGED bookkeeping
  BY DEF vars
<1> QED
  BY <1>1, <1>2, <1>3, <1>4, <1>5, <1>6, <1>7, <1>8, <1>9, <1>10, <1>11, <1>12
     DEF Next, Alloc, Collect

\* The heap starts with two live shapes and empty lists.
LEMMA BookkeepingInit == Init => BookkeepingInv
<1> SUFFICES ASSUME Init PROVE BookkeepingInv
  OBVIOUS
<1>1. ShapeRoots \subseteq Slots
  BY DEF Init, ShapeRoots, Slots, Handles
<1>2. TypeOK
  BY <1>1 DEF Init, TypeOK
<1>3. FreeListExact
  BY DEF Init, FreeListExact
<1>4. ASSUME NEW s \in Spaces PROVE Dead(s) = {}
  <2>1. ASSUME NEW g \in SlotsOf(s) PROVE g \in ShapeRoots
    <3>1. /\ g = <<g[1], g[2]>> /\ g[1] = s
          /\ g[2] \in Nat /\ g[2] < IF s = ShapeSpace THEN 2 ELSE 0
      BY <2>1 DEF SlotsOf, Slots, Handles, Init
    <3>2. s = ShapeSpace /\ (g[2] = 0 \/ g[2] = 1)
      BY <3>1
    <3> QED
      BY <3>1, <3>2 DEF ShapeRoots
  <2> QED
    BY <2>1 DEF Dead, Init
<1>5. SweepComplete
  BY <1>4, FS_EmptySet DEF SweepComplete, Init
<1> QED
  BY <1>2, <1>3, <1>5 DEF BookkeepingInv

\* In every reachable state of the heap: the types, the documented agreement
\* of the released flags with the free lists, and the lazy sweep's count and
\* cursor (alloc, sweep_step, publish_mark).
THEOREM BookkeepingCorrect == Spec => []BookkeepingInv
<1>1. Init => BookkeepingInv
  BY BookkeepingInit
<1>2. BookkeepingInv /\ [Next]_vars => BookkeepingInv'
  BY TypeStep, BookkeepingStep DEF BookkeepingInv
<1> QED
  BY <1>1, <1>2, PTL DEF Spec

\* Every variable of the heap keeps its type.
THEOREM TypeCorrect == Spec => []TypeOK
<1>1. BookkeepingInv => TypeOK
  BY DEF BookkeepingInv
<1> QED
  BY <1>1, BookkeepingCorrect, PTL

\* The invariant documented on Heap::released holds in every reachable state.
THEOREM FreeListsAgree == Spec => []FreeListExact
<1>1. BookkeepingInv => FreeListExact
  BY DEF BookkeepingInv
<1> QED
  BY <1>1, BookkeepingCorrect, PTL

\* The lazy sweep loses no dead slot, however collections and allocations
\* interleave with it.
THEOREM LazySweepIsComplete == Spec => []SweepComplete
<1>1. BookkeepingInv => SweepComplete
  BY DEF BookkeepingInv
<1> QED
  BY <1>1, BookkeepingCorrect, PTL

\* alloc never hands out a slot that counts as live.
THEOREM AllocationIsFresh == Spec => AllocatesDeadSlot
<1>1. BookkeepingInv /\ [Next]_vars =>
        [pc = "alloc" /\ pc' = "run" /\ <<len, free>>' # <<len, free>>
           => \E h \in Handles \ alive : alive' = alive \cup {h}]_vars
  <2> SUFFICES ASSUME BookkeepingInv, Next, pc = "alloc", pc' = "run",
                      <<len, free>>' # <<len, free>>
               PROVE  \E h \in Handles \ alive : alive' = alive \cup {h}
    BY DEF vars, bookkeeping
  <2>1. CASE \E h \in Handles, P \in Payloads : AllocPop(h, P)
    BY <2>1 DEF AllocPop, BookkeepingInv, FreeListExact
  <2>2. CASE \E P \in Payloads : AllocExtend(P)
    <3>1. PICK P \in Payloads : AllocExtend(P)
      BY <2>2
    <3>2. <<target, len[target]>> \in Handles \ Slots
      BY <3>1, ExtendedSlots DEF BookkeepingInv
    <3>3. alive' = alive \cup {<<target, len[target]>>}
      BY <3>1 DEF AllocExtend
    <3> QED
      BY <3>2, <3>3 DEF BookkeepingInv, TypeOK
  <2>3. CASE AllocAtCap
    BY <2>3 DEF AllocAtCap
  <2> QED
    BY <2>1, <2>2, <2>3
    DEF Next, Alloc, Mutate, Collect, AllocBegin, AllocSweep, WriteRef,
        RecordTransition, ReadRef, AddRoot, RemoveRoot, Pin,
        DeregisterRealmGlobal, GcProtect, GcProtectNoCollect, ForceCollect,
        FinishSweep, MarkRoots, MarkStep, PublishMark
<1> QED
  BY <1>1, BookkeepingCorrect, PTL DEF Spec, AllocatesDeadSlot

\* The slot vector of a space grows only when every slot of it is live.
THEOREM NoSlotLeak == Spec => ExtendsOnlyWhenFull
<1>1. BookkeepingInv /\ [Next]_vars =>
        [\A s \in Spaces : len'[s] # len[s] => SlotsOf(s) \subseteq alive]_vars
  <2> SUFFICES ASSUME BookkeepingInv, Next, NEW s \in Spaces, len'[s] # len[s]
               PROVE  SlotsOf(s) \subseteq alive
    BY DEF vars
  <2>1. CASE \E P \in Payloads : AllocExtend(P)
    <3>1. PICK P \in Payloads : AllocExtend(P)
      BY <2>1
    <3>2. s = target
      BY <3>1 DEF AllocExtend, BookkeepingInv, TypeOK
    <3>3. Dead(s) = {}
      BY <3>1, <3>2, SweptClean DEF AllocExtend, BookkeepingInv
    <3>4. \A h \in Handles : h[1] = s => h \notin released
      BY <3>1, <3>2 DEF AllocExtend, FreeIsEmpty, BookkeepingInv, FreeListExact
    <3> QED
      BY <3>3, <3>4 DEF Dead, SlotsOf, Slots
  <2>2. CASE UNCHANGED len
    BY <2>2
  <2> QED
    BY <2>1, <2>2
    DEF Next, Alloc, Mutate, Collect, AllocBegin, AllocSweep, AllocPop,
        AllocAtCap, WriteRef, RecordTransition, ReadRef, AddRoot, RemoveRoot,
        Pin, DeregisterRealmGlobal, GcProtect, GcProtectNoCollect,
        ForceCollect, FinishSweep, MarkRoots, MarkStep, PublishMark, bookkeeping
<1> QED
  BY <1>1, BookkeepingCorrect, PTL DEF Spec, ExtendsOnlyWhenFull

-----------------------------------------------------------------------------
(* Nothing reachable dies.  The marker's invariant is the tri-colour one:   *)
(* the roots are marked, and a marked slot off the worklist has had all its *)
(* references marked.                                                       *)

MarkingInv ==
    pc = "mark" => /\ RootHandles \subseteq marked
                   /\ \A h \in marked \ work : refs[h] \subseteq marked

SafetyInv == BookkeepingInv /\ MarkingInv /\ NoDangling

\* A sweep step touches no live payload.
LEMMA SweepKeepsLive ==
    ASSUME BookkeepingInv, NEW s \in Spaces, NEW c \in 0..MaxCap, SweepStep(s, c)
    PROVE  \A h \in alive : refs'[h] = refs[h] /\ weak'[h] = weak[h]
<1>1. SweepReleases(s, c) \cap alive = {}
  BY DEF SweepReleases, SweepHits, Dead
<1>2. alive \subseteq Handles
  BY DEF BookkeepingInv, TypeOK, Slots
<1> QED
  BY <1>1, <1>2 DEF SweepStep

\* Every step keeps the tri-colour invariant.
LEMMA MarkingStep == SafetyInv /\ [Next]_vars => MarkingInv'
<1> SUFFICES ASSUME SafetyInv, [Next]_vars, pc' = "mark" PROVE MarkingInv'
  BY DEF MarkingInv
<1> USE DEF SafetyInv, BookkeepingInv
<1>1. CASE MarkRoots
  <2>1. RootHandles' = RootHandles
    BY <1>1 DEF MarkRoots, RootHandles, Slots, rootsets, bookkeeping
  <2> QED
    BY <1>1, <2>1 DEF MarkRoots, MarkingInv
<1>2. ASSUME NEW g \in Handles, MarkStep(g) PROVE MarkingInv'
  <2>1. RootHandles' = RootHandles
    BY <1>2 DEF MarkStep, RootHandles, Slots, rootsets, bookkeeping
  <2>2. RootHandles \subseteq marked /\ \A h \in marked \ work : refs[h] \subseteq marked
    BY <1>2 DEF MarkStep, MarkingInv
  <2>3. refs' = refs /\ \A h \in marked : refs[h] \subseteq Slots
    BY <1>2 DEF MarkStep, TypeOK, payloads, Slots
  <2>4. \A h \in marked' \ work' : refs[h] \subseteq marked'
    BY <1>2, <2>2, <2>3 DEF MarkStep
  <2> QED
    BY <1>2, <2>1, <2>2, <2>3, <2>4 DEF MarkStep, MarkingInv
<1>3. CASE UNCHANGED vars
  BY <1>3 DEF vars, MarkingInv, RootHandles, Slots, rootsets, bookkeeping,
              payloads, collector
<1> QED
  BY <1>1, <1>2, <1>3
  DEF Next, Alloc, Mutate, Collect, AllocBegin, AllocSweep, AllocPop,
      AllocExtend, AllocAtCap, WriteRef, RecordTransition, ReadRef, AddRoot,
      RemoveRoot, Pin, DeregisterRealmGlobal, GcProtect, GcProtectNoCollect,
      ForceCollect, FinishSweep, PublishMark

\* Every step of a mutator that keeps the rooting contract keeps NoDangling.
LEMMA NoDanglingStep == SafetyInv /\ [Next]_vars => NoDangling'
<1> SUFFICES ASSUME SafetyInv, [Next]_vars, ~KeepStale PROVE NoDangling'
  BY DEF NoDangling
<1> USE DEF bookkeeping, payloads, rootsets, collector
<1>1. /\ roots \cup pinned \cup held \subseteq alive
      /\ \A h \in alive : refs[h] \cup weak[h] \subseteq alive
  BY DEF SafetyInv, NoDangling
<1>2. TypeOK /\ FreeListExact /\ SweepComplete /\ BookkeepingInv
  BY DEF SafetyInv, BookkeepingInv
<1>3. alive \subseteq Handles
  BY <1>2 DEF TypeOK, Slots
<1>4. ASSUME NEW s \in Spaces, AllocBegin(s) PROVE NoDangling'
  BY <1>1, <1>4 DEF AllocBegin, NoDangling
<1>5. ASSUME NEW h \in Handles, NEW P \in Payloads,
             h \notin alive, StorePayload(h, P), alive' = alive \cup {h},
             held' = held \cup {h}, UNCHANGED rootsets
      PROVE  NoDangling'
  <2>1. P \subseteq alive
    BY <1>1 DEF Payloads
  <2>2. refs'[h] = P /\ weak'[h] = {}
    BY <1>2, <1>5 DEF StorePayload, TypeOK
  <2>3. \A g \in alive : refs'[g] = refs[g] /\ weak'[g] = weak[g]
    BY <1>2, <1>3, <1>5 DEF StorePayload, TypeOK
  <2> QED
    BY <1>1, <1>5, <2>1, <2>2, <2>3 DEF NoDangling
<1>6. ASSUME NEW h \in Handles, NEW P \in Payloads, AllocPop(h, P) PROVE NoDangling'
  BY <1>2, <1>5, <1>6 DEF AllocPop, FreeListExact
<1>7. ASSUME NEW P \in Payloads, AllocExtend(P) PROVE NoDangling'
  <2>1. <<target, len[target]>> \in Handles \ Slots
    BY <1>2, <1>7, ExtendedSlots
  <2> QED
    BY <1>2, <1>5, <1>7, <2>1 DEF AllocExtend, TypeOK
<1>8. ASSUME NEW s \in Spaces, NEW c \in 0..MaxCap, SweepStep(s, c),
             UNCHANGED <<alive, held, rootsets>>
      PROVE  NoDangling'
  BY <1>1, <1>2, <1>8, SweepKeepsLive DEF NoDangling
<1>9. ASSUME NEW c \in 0..MaxCap, AllocSweep(c) PROVE NoDangling'
  BY <1>2, <1>8, <1>9 DEF AllocSweep, TypeOK
<1>10. ASSUME NEW s \in Spaces, NEW c \in 0..MaxCap, FinishSweep(s, c)
       PROVE  NoDangling'
  BY <1>8, <1>10 DEF FinishSweep
<1>11. CASE AllocAtCap
  BY <1>1, <1>11 DEF AllocAtCap, NoDangling
<1>12. ASSUME NEW h \in Handles, NEW P \in Payloads, WriteRef(h, P) PROVE NoDangling'
  <2>1. \A g \in alive : refs'[g] = IF g = h THEN P ELSE refs[g]
    BY <1>2, <1>3, <1>12 DEF WriteRef, TypeOK
  <2> QED
    BY <1>1, <1>12, <2>1 DEF WriteRef, NoDangling, Payloads
<1>13. ASSUME NEW h \in Handles, NEW c \in Handles, RecordTransition(h, c)
       PROVE  NoDangling'
  <2>1. \A g \in alive : weak'[g] = IF g = h THEN weak[g] \cup {c} ELSE weak[g]
    BY <1>2, <1>3, <1>13 DEF RecordTransition, TypeOK
  <2> QED
    BY <1>1, <1>13, <2>1 DEF RecordTransition, NoDangling
<1>14. ASSUME NEW h \in Handles, NEW r \in Handles, ReadRef(h, r) PROVE NoDangling'
  BY <1>1, <1>14 DEF ReadRef, NoDangling
<1>15. ASSUME NEW h \in Handles,
              AddRoot(h) \/ RemoveRoot(h) \/ Pin(h) \/ DeregisterRealmGlobal(h)
       PROVE  NoDangling'
  BY <1>1, <1>15 DEF AddRoot, RemoveRoot, Pin, DeregisterRealmGlobal, NoDangling
<1>16. ASSUME NEW S \in SUBSET held, GcProtect(S) \/ GcProtectNoCollect(S)
       PROVE  NoDangling'
  BY <1>1, <1>16 DEF GcProtect, GcProtectNoCollect, NoDangling
<1>17. CASE ForceCollect \/ MarkRoots
  BY <1>1, <1>17 DEF ForceCollect, MarkRoots, NoDangling
<1>18. ASSUME NEW h \in Handles, MarkStep(h) PROVE NoDangling'
  BY <1>1, <1>18 DEF MarkStep, NoDangling
<1>19. CASE PublishMark
  <2>1. roots \cup pinned \subseteq marked
    BY <1>2, <1>19 DEF PublishMark, SafetyInv, MarkingInv, RootHandles, TypeOK
  <2>2. \A h \in marked : refs[h] \subseteq marked
    BY <1>19 DEF PublishMark, SafetyInv, MarkingInv
  <2>3. \A h \in marked : weak'[h] \subseteq marked
    BY <1>2, <1>19 DEF PublishMark, PrunedWeak, TypeOK, Slots
  <2> QED
    BY <1>19, <2>1, <2>2, <2>3 DEF PublishMark, NoDangling
<1>20. CASE UNCHANGED vars
  BY <1>1, <1>20 DEF vars, NoDangling
<1> QED
  BY <1>4, <1>6, <1>7, <1>9, <1>10, <1>11, <1>12, <1>13, <1>14, <1>15, <1>16,
     <1>17, <1>18, <1>19, <1>20 DEF Next, Alloc, Mutate, Collect

\* The new heap is safe: its two pinned shapes are live.
LEMMA SafetyInit == Init => SafetyInv
<1> SUFFICES ASSUME Init PROVE SafetyInv
  OBVIOUS
<1>1. BookkeepingInv
  BY BookkeepingInit
<1>2. MarkingInv
  BY DEF Init, MarkingInv
<1>3. NoDangling
  BY DEF Init, NoDangling, ShapeRoots, Handles
<1> QED
  BY <1>1, <1>2, <1>3 DEF SafetyInv

\* Bookkeeping, marking and rooting support each other over every step.
LEMMA SafetyStep == SafetyInv /\ [Next]_vars => SafetyInv'
  BY TypeStep, BookkeepingStep, MarkingStep, NoDanglingStep
  DEF SafetyInv, BookkeepingInv

\* Nothing the program can get at is dead: no root, local, payload or cached
\* shape transition names a freed slot, as long as the mutator keeps across a
\* collection only handles the roots reach.
THEOREM LiveDataIsSafe == Spec => []NoDangling
<1>1. SafetyInv => NoDangling
  BY DEF SafetyInv
<1> QED
  BY <1>1, SafetyInit, SafetyStep, PTL DEF Spec

-----------------------------------------------------------------------------
(* The heap implements ManagedHeap.  Its Reach is the least set of live     *)
(* handles that holds the roots and is closed under references, so the      *)
(* marker is compared with every closed set and not with paths.             *)

\* Whatever a closed set that holds the roots leaves out is never marked.
ReachedOnly ==
    pc = "mark" => \A C \in SUBSET alive :
        roots \cup pinned \subseteq C /\ (\A h \in C : refs[h] \subseteq C)
          => marked \subseteq C

\* The marker marks nothing that the roots do not reach (Collector::mark).
LEMMA ReachedOnlyStep == SafetyInv /\ ReachedOnly /\ [Next]_vars => ReachedOnly'
<1> SUFFICES ASSUME SafetyInv, ReachedOnly, [Next]_vars, pc' = "mark",
                    NEW C \in SUBSET alive', (roots \cup pinned)' \subseteq C,
                    \A h \in C : refs'[h] \subseteq C
             PROVE  marked' \subseteq C
  BY DEF ReachedOnly
<1> USE DEF bookkeeping, payloads, rootsets, collector
<1>1. CASE MarkRoots
  BY <1>1 DEF MarkRoots, RootHandles
<1>2. ASSUME NEW g \in Handles, MarkStep(g) PROVE marked' \subseteq C
  <2>1. marked \subseteq C
    BY <1>2 DEF MarkStep, ReachedOnly
  <2>2. g \in C
    BY <1>2, <2>1 DEF MarkStep, SafetyInv, BookkeepingInv, TypeOK
  <2> QED
    BY <1>2, <2>1, <2>2 DEF MarkStep
<1>3. CASE UNCHANGED vars
  BY <1>3 DEF vars, ReachedOnly
<1> QED
  BY <1>1, <1>2, <1>3
  DEF Next, Alloc, Mutate, Collect, AllocBegin, AllocSweep, AllocPop,
      AllocExtend, AllocAtCap, WriteRef, RecordTransition, ReadRef, AddRoot,
      RemoveRoot, Pin, DeregisterRealmGlobal, GcProtect, GcProtectNoCollect,
      ForceCollect, FinishSweep, PublishMark

\* When the worklist is empty the marked slots are what the roots reach.
LEMMA MarkedIsReach ==
    ASSUME SafetyInv, ReachedOnly, ~KeepStale, PublishMark
    PROVE  marked = Abstract!Reach(roots \cup pinned)
<1> DEFINE objs == [h \in alive |-> refs[h]]
           R == roots \cup pinned
<1>1. R \subseteq alive /\ \A h \in alive : refs[h] \subseteq alive
  BY DEF SafetyInv, NoDangling
<1>2. R \subseteq marked
  BY DEF PublishMark, SafetyInv, BookkeepingInv, MarkingInv, RootHandles, TypeOK
<1>3. \A h \in marked : refs[h] \subseteq marked
  BY DEF PublishMark, SafetyInv, MarkingInv
<1>4. marked \subseteq alive
  BY <1>1 DEF PublishMark, ReachedOnly
<1>5. DOMAIN objs = alive /\ \A h \in alive : objs[h] = refs[h]
  OBVIOUS
<1>6. ASSUME NEW h \in marked PROVE h \in Abstract!Reach(R)
  <2> SUFFICES ASSUME NEW C \in SUBSET alive, R \subseteq C, Abstract!Closed(C)
               PROVE  h \in C
    BY <1>4, <1>5 DEF Abstract!Reach
  <2>1. \A g \in C : refs[g] \subseteq C
    BY <1>5 DEF Abstract!Closed
  <2> QED
    BY <2>1 DEF PublishMark, ReachedOnly
<1>7. ASSUME NEW h \in Abstract!Reach(R) PROVE h \in marked
  <2>1. Abstract!Closed(marked)
    BY <1>3, <1>4 DEF Abstract!Closed
  <2> QED
    BY <1>2, <1>4, <1>5, <2>1 DEF Abstract!Reach
<1> QED
  BY <1>6, <1>7

\* The abstract step of one allocation: a handle that was dead is live, with
\* the payload the program gave it (Heap::alloc).
LEMMA AllocIsAlloc ==
    ASSUME SafetyInv, ~KeepStale, NEW h \in Handles, NEW P \in Payloads,
           h \notin alive, StorePayload(h, P), alive' = alive \cup {h}, UNCHANGED rootsets
    PROVE  Abstract!Next
<1>1. P \in SUBSET alive
  BY DEF Payloads, SafetyInv, NoDangling
<1>2. \A g \in alive' : refs'[g] = IF g = h THEN P ELSE refs[g]
  BY DEF StorePayload, SafetyInv, BookkeepingInv, TypeOK, Slots
<1>3. [g \in alive |-> refs[g]]' = [g \in alive \cup {h} |-> IF g = h THEN P ELSE [f \in alive |-> refs[f]][g]]
  BY <1>2
<1>4. Abstract!Alloc(h, P)
  BY <1>1, <1>3 DEF Abstract!Alloc, rootsets
<1> QED
  BY <1>1, <1>4 DEF Abstract!Next

\* A step that keeps the live slots and their payloads is at most a change of
\* the roots.
LEMMA RootsMove ==
    ASSUME alive' = alive, \A h \in alive : refs'[h] = refs[h],
           (roots \cup pinned)' \subseteq alive
    PROVE  Abstract!Next
<1>1. [h \in alive |-> refs[h]]' = [h \in alive |-> refs[h]]
  OBVIOUS
<1>2. Abstract!SetRoots
  BY <1>1 DEF Abstract!SetRoots
<1> QED
  BY <1>2 DEF Abstract!Next

\* Every step of the heap is a step of the managed heap or leaves it alone:
\* sweeping and marking are invisible, publishing a mark is the collection.
LEMMA StepImplements ==
    ASSUME SafetyInv, ReachedOnly, ~KeepStale, [Next]_vars
    PROVE  [Abstract!Next]_<<[h \in alive |-> refs[h]], roots \cup pinned>>
<1> DEFINE Step == [Abstract!Next]_<<[h \in alive |-> refs[h]], roots \cup pinned>>
<1> SUFFICES Step
  OBVIOUS
<1> USE DEF bookkeeping, payloads, rootsets, collector
<1>1. /\ roots \cup pinned \cup held \subseteq alive
      /\ \A h \in alive : refs[h] \subseteq alive
  BY DEF SafetyInv, NoDangling
<1>2. TypeOK /\ FreeListExact /\ BookkeepingInv
  BY DEF SafetyInv, BookkeepingInv
<1>3. alive \subseteq Handles
  BY <1>2 DEF TypeOK, Slots
<1>4. ASSUME alive' = alive, \A h \in alive : refs'[h] = refs[h], (roots \cup pinned)' \subseteq alive
      PROVE  Step
  BY <1>4, RootsMove
<1>5. ASSUME NEW s \in Spaces, AllocBegin(s) PROVE Step
  BY <1>1, <1>4, <1>5 DEF AllocBegin
<1>6. ASSUME NEW h \in Handles, NEW P \in Payloads, AllocPop(h, P) PROVE Step
  <2>1. h \notin alive
    BY <1>2, <1>6 DEF AllocPop, FreeListExact
  <2> QED
    BY <1>6, <2>1, AllocIsAlloc DEF AllocPop
<1>7. ASSUME NEW P \in Payloads, AllocExtend(P) PROVE Step
  <2>1. <<target, len[target]>> \in Handles \ Slots
    BY <1>2, <1>7, ExtendedSlots
  <2>2. <<target, len[target]>> \notin alive
    BY <1>2, <2>1 DEF TypeOK
  <2> QED
    BY <1>7, <2>1, <2>2, AllocIsAlloc DEF AllocExtend
<1>8. ASSUME NEW c \in 0..MaxCap, AllocSweep(c) PROVE Step
  <2>1. target \in Spaces
    BY <1>2, <1>8 DEF AllocSweep, TypeOK
  <2>2. \A h \in alive : refs'[h] = refs[h]
    BY <1>2, <1>8, <2>1, SweepKeepsLive DEF AllocSweep
  <2> QED
    BY <1>1, <1>4, <1>8, <2>2 DEF AllocSweep
<1>9. ASSUME NEW s \in Spaces, NEW c \in 0..MaxCap, FinishSweep(s, c) PROVE Step
  <2>1. \A h \in alive : refs'[h] = refs[h]
    BY <1>2, <1>9, SweepKeepsLive DEF FinishSweep
  <2> QED
    BY <1>1, <1>4, <1>9, <2>1 DEF FinishSweep
<1>10. CASE AllocAtCap
  BY <1>1, <1>4, <1>10 DEF AllocAtCap
<1>11. ASSUME NEW h \in Handles, NEW P \in Payloads, WriteRef(h, P) PROVE Step
  <2>1. P \in SUBSET alive /\ h \in alive /\ alive' = alive /\ UNCHANGED <<roots, pinned>>
    BY <1>1, <1>11 DEF WriteRef, Payloads
  <2>2. \A g \in alive : refs'[g] = IF g = h THEN P ELSE refs[g]
    BY <1>2, <1>3, <1>11 DEF WriteRef, TypeOK
  <2>3. [g \in alive |-> refs[g]]' = [[g \in alive |-> refs[g]] EXCEPT ![h] = P]
    BY <2>1, <2>2
  <2>4. Abstract!Write(h, P)
    BY <2>1, <2>3 DEF Abstract!Write
  <2> QED
    BY <2>1, <2>4 DEF Abstract!Next
<1>12. ASSUME NEW h \in Handles, NEW c \in Handles,
              RecordTransition(h, c) \/ ReadRef(h, c)
       PROVE  Step
  BY <1>1, <1>4, <1>12 DEF RecordTransition, ReadRef
<1>13. ASSUME NEW h \in Handles,
              AddRoot(h) \/ RemoveRoot(h) \/ Pin(h) \/ DeregisterRealmGlobal(h)
       PROVE  Step
  BY <1>1, <1>4, <1>13 DEF AddRoot, RemoveRoot, Pin, DeregisterRealmGlobal
<1>14. ASSUME NEW S \in SUBSET held, GcProtect(S) \/ GcProtectNoCollect(S) PROVE Step
  BY <1>1, <1>4, <1>14 DEF GcProtect, GcProtectNoCollect
<1>15. CASE ForceCollect \/ MarkRoots
  BY <1>1, <1>4, <1>15 DEF ForceCollect, MarkRoots
<1>16. ASSUME NEW h \in Handles, MarkStep(h) PROVE Step
  BY <1>1, <1>4, <1>16 DEF MarkStep
<1>17. CASE PublishMark
  <2>1. marked = Abstract!Reach(roots \cup pinned)
    BY <1>17, MarkedIsReach
  <2>2. marked \subseteq alive
    BY <1>1, <1>17 DEF PublishMark, ReachedOnly
  <2>3. [h \in alive |-> refs[h]]' = [h \in marked |-> [g \in alive |-> refs[g]][h]]
    BY <1>17, <2>2 DEF PublishMark
  <2>4. Abstract!Collect
    BY <1>17, <2>1, <2>3 DEF Abstract!Collect, PublishMark
  <2> QED
    BY <2>4 DEF Abstract!Next
<1>18. CASE UNCHANGED vars
  BY <1>1, <1>4, <1>18 DEF vars
<1> QED
  BY <1>5, <1>6, <1>7, <1>8, <1>9, <1>10, <1>11, <1>12, <1>13, <1>14, <1>15, <1>16,
     <1>17, <1>18 DEF Next, Alloc, Mutate, Collect

\* A program that keeps the rooting contract sees a heap in which allocation
\* gives what was not there, only a write changes a payload, and a collection
\* removes exactly what no root reaches (gc.rs, alloc and force_collect).
THEOREM HeapImplementsManagedHeap == ~KeepStale /\ Spec => ImplementsManagedHeap
<1> SUFFICES ASSUME ~KeepStale PROVE Spec => ImplementsManagedHeap
  OBVIOUS
<1>1. Init => SafetyInv /\ ReachedOnly /\ Abstract!Init
  <2> SUFFICES ASSUME Init PROVE SafetyInv /\ ReachedOnly /\ Abstract!Init
    OBVIOUS
  <2>1. SafetyInv
    BY SafetyInit
  <2>2. ReachedOnly
    BY DEF Init, ReachedOnly
  <2>3. Abstract!Init
    BY DEF Abstract!Init, Init, ShapeRoots, Handles
  <2> QED
    BY <2>1, <2>2, <2>3
<1>2. SafetyInv /\ ReachedOnly /\ [Next]_vars => (SafetyInv /\ ReachedOnly)'
  BY SafetyStep, ReachedOnlyStep
<1>3. SafetyInv /\ ReachedOnly /\ [Next]_vars
        => [Abstract!Next]_<<[h \in alive |-> refs[h]], roots \cup pinned>>
  BY StepImplements
<1> QED
  BY <1>1, <1>2, <1>3, PTL DEF Spec, ImplementsManagedHeap, Abstract!Spec
=============================================================================
