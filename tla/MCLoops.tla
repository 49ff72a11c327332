------------------------------ MODULE MCLoops ------------------------------
(***************************************************************************)
(* The two loops that must come to an end, on small instances and with the *)
(* fairness of the engine: the checkpoint loop, and the lazy sweep and     *)
(* mark loops of the heap under a mutator that roots any handle it ever    *)
(* held.  They have no state in common: each behaviour is of one of them,  *)
(* its subject, and the other stays as it was at the start.                *)
(***************************************************************************)
EXTENDS Checkpoint

CONSTANTS objects, shapes, NoSpace

VARIABLES subject,
          len, alive, released, free, swept, pending, refs, weak, roots, pinned,
          held, phase, target, unswept, marked, work

SlotLimits == [s \in {objects, shapes} |-> IF s = objects THEN 3 ELSE 2]

Heap == INSTANCE HeapGC WITH
    cursor <- swept, pc <- phase, Spaces <- {objects, shapes}, ObjectSpace <- objects,
    ShapeSpace <- shapes, Cap <- SlotLimits, MaxCap <- 4, SweepBudget <- 2,
    MaxRefs <- 0, MaxRoots <- 1, KeepStale <- TRUE

heap == <<len, alive, released, free, swept, pending, refs, weak, roots, pinned,
          held, phase, target, unswept, marked, work>>
both == <<subject, vars, heap>>

BothInit == subject \in {"checkpoint", "heap"} /\ Init /\ Heap!Init

OfCheckpoint(A) == subject = "checkpoint" /\ A /\ UNCHANGED <<subject, heap>>
OfHeap(A)       == subject = "heap" /\ A /\ UNCHANGED <<subject, vars>>

BothNext == OfCheckpoint(Next) \/ OfHeap(Heap!Next)

\* What FairSpec says in Checkpoint and in HeapGC.
BothSpec ==
    /\ BothInit /\ [][BothNext]_both
    /\ WF_both(OfCheckpoint(ScriptReturns)) /\ WF_both(OfCheckpoint(Loop))
    /\ WF_both(OfHeap(Heap!Internal))

-----------------------------------------------------------------------------
(* Properties; the others are those of Checkpoint.                         *)

\* A stale root resurrects what a free list holds and the heap survives it: the
\* free lists, the released flags and the liveness of slots agree, the sweep
\* misses no dead slot and counts them (Heap::released, pending_dead), alloc
\* extends no slot vector that has a slot to reclaim, and alloc and
\* force_collect return (sweep_step_space, mark_from_roots).
HeapUnderStaleRoots ==
    /\ [](Heap!FreeListExact /\ Heap!SweepComplete)
    /\ Heap!AllocatesDeadSlot /\ Heap!ExtendsOnlyWhenFull
    /\ Heap!HeapCallsReturn
=============================================================================
