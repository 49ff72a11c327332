------------------------------- MODULE HeapGC -------------------------------
(***************************************************************************)
(* The non-moving mark-sweep heap of v12-heap (gc.rs): slot spaces with a  *)
(* free list each, an explicit mark worklist, and a sweep that is lazy: a  *)
(* collection only publishes liveness, and the dead slots are released     *)
(* one at a time by the allocations that need them.                        *)
(*                                                                         *)
(* A handle is a pair <<space, index>>.  The payload of a slot is reduced  *)
(* to the handles it holds: refs[h] are the ones its Trace implementation  *)
(* reports, weak[h] the untraced transition edges of a shape.  The free    *)
(* list is a multiset (free[h] = how often h occurs in it): which entry    *)
(* Vec::pop returns is left open, that it is there only once is not.       *)
(*                                                                         *)
(* `held` are the handles the mutator has in Rust locals and on the value  *)
(* stack; the collector does not see them unless they are rooted.          *)
(***************************************************************************)
EXTENDS Integers, FiniteSets

CONSTANTS
    Spaces,        \* the slot spaces (Space::ALL)
    ObjectSpace,   \* Space::Objects, the space whose payloads are mutable
    ShapeSpace,    \* Space::Shapes, the space whose payloads have weak edges
    NoSpace,       \* not a space
    Cap,           \* Cap[s]: bound on the slots of space s (u32::MAX in the code)
    MaxCap,        \* a bound on every Cap[s]
    SweepBudget,   \* SWEEP_BUDGET_SLOTS
    MaxRefs,       \* bound on the handles in one payload
    MaxRoots,      \* bound on the handles rooted beside the two shape roots
    KeepStale      \* TRUE: the mutator keeps handles over a collection that
                   \* no root covers, breaking the rooting contract of alloc

ASSUME SpacesAssumption ==
    /\ ObjectSpace \in Spaces /\ ShapeSpace \in Spaces /\ ObjectSpace # ShapeSpace
    /\ NoSpace \notin Spaces
    /\ IsFiniteSet(Spaces)
ASSUME CapAssumption ==
    /\ MaxCap \in Nat
    /\ Cap \in [Spaces -> 0..MaxCap]
    /\ Cap[ShapeSpace] >= 2
ASSUME BudgetAssumption == SweepBudget \in Nat \ {0} /\ MaxRefs \in Nat /\ MaxRoots \in Nat
ASSUME KeepStaleAssumption == KeepStale \in BOOLEAN

Handles == {h \in Spaces \X (0..MaxCap) : h[2] < Cap[h[1]]}

\* The empty-object root shape and the promise root shape.
ShapeRoots == {<<ShapeSpace, 0>>, <<ShapeSpace, 1>>}

VARIABLES
    len,           \* len[s]: length of the slot vector of s
    alive,         \* the slots whose alive flag is set
    released,      \* the slots whose released flag is set
    free,          \* free[h]: occurrences of h in the free list of its space
    cursor,        \* sweep_cursor
    pending,       \* pending_dead
    refs, weak,    \* payloads
    roots,         \* RootSet, cleared and republished by gc_protect
    pinned,        \* shape_roots, pinned_roots, module_roots, realm_globals,
                   \* interned strings, registered and well-known symbols
    held,          \* handles the mutator holds outside the heap
    pc,            \* what the single mutator thread is inside of
    target,        \* the space being allocated in, NoSpace outside of alloc
    unswept,       \* the spaces finish_sweep has still to complete
    marked, work   \* Collector

bookkeeping == <<len, alive, released, free, cursor, pending>>
payloads == <<refs, weak>>
rootsets == <<roots, pinned>>
collector == <<unswept, marked, work>>
vars == <<bookkeeping, payloads, rootsets, collector, held, pc, target>>

Slots == {h \in Handles : h[2] < len[h[1]]}
SlotsOf(s) == {h \in Slots : h[1] = s}

\* The slots a sweep that trusts its count would take for dead.
Unflagged(s) == {h \in SlotsOf(s) : h \notin released}

\* The slots the last mark found dead and no sweep step has released yet.
Dead(s) == {h \in SlotsOf(s) : h \notin alive /\ h \notin released}

TransientRootsOnly == roots \cap Slots
RootHandles == (roots \cup pinned) \cap Slots
FreeIsEmpty(s) == \A h \in Handles : h[1] = s => free[h] = 0
RootsBounded(R) == Cardinality(R \ ShapeRoots) <= MaxRoots
Payloads == {P \in SUBSET held : Cardinality(P) <= MaxRefs}

-----------------------------------------------------------------------------
\* Heap::new: no slots but the two pinned shapes.
Init ==
    /\ len = [s \in Spaces |-> IF s = ShapeSpace THEN 2 ELSE 0]
    /\ alive = ShapeRoots
    /\ released = {}
    /\ free = [h \in Handles |-> 0]
    /\ cursor = [s \in Spaces |-> 0]
    /\ pending = [s \in Spaces |-> 0]
    /\ refs = [h \in Handles |-> {}]
    /\ weak = [h \in Handles |-> {}]
    /\ roots = {}
    /\ pinned = ShapeRoots
    /\ held = ShapeRoots
    /\ pc = "run"
    /\ target = NoSpace
    /\ unswept = {}
    /\ marked = {}
    /\ work = {}

-----------------------------------------------------------------------------
(* sweep_step: examine up to SweepBudget slots, release the first dead one.*)

NoSweepBudget(s) == cursor[s]
SweepEnd(s) ==
    IF cursor[s] + SweepBudget < len[s] THEN cursor[s] + SweepBudget ELSE len[s]

\* The dead slots within the budget of one step.
SweepHits(s) == {h \in Dead(s) : cursor[s] <= h[2] /\ h[2] < SweepEnd(s)}

\* Where the step leaves the cursor: one past the slot it releases, else at
\* the end of the budget (or of the space, when nothing is pending).
SweepStop(s, c) ==
    IF pending[s] = 0 THEN c = len[s]
    ELSE \/ /\ SweepHits(s) = {}
            /\ c = IF cursor[s] < SweepEnd(s) THEN SweepEnd(s) ELSE cursor[s]
         \/ \E h \in SweepHits(s) :
               /\ \A g \in SweepHits(s) : h[2] <= g[2]
               /\ c = h[2] + 1

\* The slot a step that stops at c releases, as a set of at most one handle.
SweepReleases(s, c) ==
    IF pending[s] = 0 THEN {} ELSE {h \in SweepHits(s) : h[2] + 1 = c}

\* One call of sweep_step::<s>() that leaves the cursor at c; it returns
\* TRUE iff c < len[s].
SweepStep(s, c) ==
    LET R == SweepReleases(s, c) IN
    /\ SweepStop(s, c)
    /\ cursor' = [cursor EXCEPT ![s] = c]
    /\ released' = released \cup R
    /\ free' = [h \in Handles |-> IF h \in R THEN free[h] + 1 ELSE free[h]]
    /\ pending' = [pending EXCEPT ![s] = IF R = {} THEN @ ELSE @ - 1]
    /\ refs' = [h \in Handles |-> IF h \in R THEN {} ELSE refs[h]]
    /\ weak' = [h \in Handles |-> IF h \in R THEN {} ELSE weak[h]]

-----------------------------------------------------------------------------
(* Heap::alloc, one loop iteration per step.                               *)

\* The allocating call; its loop runs in the three actions below.
AllocBegin(s) ==
    /\ pc = "run"
    /\ pc' = "alloc"
    /\ target' = s
    /\ UNCHANGED <<bookkeeping, payloads, rootsets, collector, held>>

\* The value moved in: a handful of handles the mutator holds.
StorePayload(h, P) ==
    /\ refs' = [refs EXCEPT ![h] = P]
    /\ weak' = [weak EXCEPT ![h] = {}]

\* A pop that forgets the released flag.
AllocPopFlagged(h, P) ==
    /\ pc = "alloc"
    /\ h[1] = target
    /\ free[h] > 0
    /\ free' = [free EXCEPT ![h] = @ - 1]
    /\ released' = released
    /\ alive' = alive \cup {h}
    /\ StorePayload(h, P)
    /\ held' = held \cup {h}
    /\ pc' = "run"
    /\ target' = NoSpace
    /\ UNCHANGED <<len, cursor, pending, rootsets, collector>>

\* `if let Some(i) = self.free[s].pop()`.
AllocPop(h, P) ==
    /\ pc = "alloc"
    /\ h[1] = target
    /\ free[h] > 0
    /\ free' = [free EXCEPT ![h] = @ - 1]
    /\ released' = released \ {h}
    /\ alive' = alive \cup {h}
    /\ StorePayload(h, P)
    /\ held' = held \cup {h}
    /\ pc' = "run"
    /\ target' = NoSpace
    /\ UNCHANGED <<len, cursor, pending, rootsets, collector>>

\* The free list is empty: one sweep step, and round the loop again unless
\* the step says the space is swept and released nothing.
AllocSweep(c) ==
    /\ pc = "alloc"
    /\ FreeIsEmpty(target)
    /\ c < len[target] \/ SweepReleases(target, c) # {}
    /\ SweepStep(target, c)
    /\ UNCHANGED <<len, alive, rootsets, collector, held, pc, target>>

\* `!self.sweep_step() && self.free[s].is_empty()`: extend the slot vector.
AllocExtend(P) ==
    LET h == <<target, len[target]>> IN
    /\ pc = "alloc"
    /\ FreeIsEmpty(target)
    /\ SweepStop(target, len[target])
    /\ SweepReleases(target, len[target]) = {}
    /\ len[target] < Cap[target]
    /\ len' = [len EXCEPT ![target] = @ + 1]
    /\ cursor' = [cursor EXCEPT ![target] = len[target]]
    /\ alive' = alive \cup {h}
    /\ StorePayload(h, P)
    /\ held' = held \cup {h}
    /\ pc' = "run"
    /\ target' = NoSpace
    /\ UNCHANGED <<released, free, pending, rootsets, collector>>

\* The bound Cap is reached: the model gives the allocation up.
AllocAtCap ==
    /\ pc = "alloc"
    /\ FreeIsEmpty(target)
    /\ SweepStop(target, len[target])
    /\ SweepReleases(target, len[target]) = {}
    /\ len[target] = Cap[target]
    /\ cursor' = [cursor EXCEPT ![target] = len[target]]
    /\ pc' = "run"
    /\ target' = NoSpace
    /\ UNCHANGED <<len, alive, released, free, pending, payloads, rootsets,
                   collector, held>>

-----------------------------------------------------------------------------
(* The mutator between safepoints.  Debug builds stop at a dead handle     *)
(* (Heap::get), so only live handles are dereferenced.                     *)

\* get_mut on an object: one of its handle fields is overwritten.
WriteRef(h, P) ==
    /\ pc = "run"
    /\ h \in held \cap alive
    /\ h[1] = ObjectSpace
    /\ refs' = [refs EXCEPT ![h] = P]
    /\ UNCHANGED <<bookkeeping, weak, rootsets, collector, held, pc, target>>

\* add_property records the edge to the child it has just allocated.
RecordTransition(h, c) ==
    /\ pc = "run"
    /\ h \in held \cap alive /\ h[1] = ShapeSpace
    /\ c \in held \cap alive /\ c[1] = ShapeSpace /\ refs[c] = {h}
    /\ weak' = [weak EXCEPT ![h] = @ \cup {c}]
    /\ UNCHANGED <<bookkeeping, refs, rootsets, collector, held, pc, target>>

\* get: the mutator picks up a handle out of a payload, or a transition hit.
ReadRef(h, r) ==
    /\ pc = "run"
    /\ h \in held \cap alive
    /\ r \in refs[h] \cup weak[h]
    /\ held' = held \cup {r}
    /\ UNCHANGED <<bookkeeping, payloads, rootsets, collector, pc, target>>

\* add_root, which a stale handle may reach as well.
AddRoot(h) ==
    /\ pc = "run"
    /\ h \in held
    /\ roots' = roots \cup {h}
    /\ RootsBounded(roots' \cup pinned)
    /\ UNCHANGED <<bookkeeping, payloads, pinned, collector, held, pc, target>>

\* remove_root drops every occurrence.
RemoveRoot(h) ==
    /\ pc = "run"
    /\ h \in roots
    /\ roots' = roots \ {h}
    /\ UNCHANGED <<bookkeeping, payloads, pinned, collector, held, pc, target>>

\* The registrations gc_protect does not clear: add_pinned_root,
\* add_module_root, register_realm_global, add_shape_root, bind_shape,
\* intern_string, symbol_for_key, well_known_symbol.
Pin(h) ==
    /\ pc = "run"
    /\ h \in held \cap alive
    /\ pinned' = pinned \cup {h}
    /\ RootsBounded(roots \cup pinned')
    /\ UNCHANGED <<bookkeeping, payloads, roots, collector, held, pc, target>>

\* deregister_realm_global, the one registration that can be undone.
DeregisterRealmGlobal(h) ==
    /\ pc = "run"
    /\ h \in pinned /\ h[1] = ObjectSpace
    /\ pinned' = pinned \ {h}
    /\ UNCHANGED <<bookkeeping, payloads, roots, collector, held, pc, target>>

-----------------------------------------------------------------------------
(* force_collect.                                                          *)

\* The interpreter's safepoint: the root set is cleared and republished from
\* what the interpreter holds; the growth policy or the stress cadence then
\* decides to collect.
GcProtect(S) ==
    /\ pc = "run"
    /\ roots' = S
    /\ RootsBounded(roots' \cup pinned)
    /\ pc' = "finish"
    /\ unswept' = Spaces
    /\ UNCHANGED <<bookkeeping, payloads, pinned, marked, work, held, target>>

\* The same safepoint when the policy does not ask for a collection.
GcProtectNoCollect(S) ==
    /\ pc = "run"
    /\ roots' = S
    /\ RootsBounded(roots' \cup pinned)
    /\ UNCHANGED <<bookkeeping, payloads, pinned, collector, held, pc, target>>

\* An embedder's force_collect: the roots stay as they are.
ForceCollect ==
    /\ pc = "run"
    /\ pc' = "finish"
    /\ unswept' = Spaces
    /\ UNCHANGED <<bookkeeping, payloads, rootsets, marked, work, held, target>>

\* finish_sweep: `while self.sweep_step::<s>() {}` for every space.
FinishSweep(s, c) ==
    /\ pc = "finish"
    /\ s \in unswept
    /\ SweepStep(s, c)
    /\ unswept' = IF c < len[s] THEN unswept ELSE unswept \ {s}
    /\ UNCHANGED <<len, alive, rootsets, marked, work, held, pc, target>>

\* Collector::new and the marking of every root.
MarkRoots ==
    /\ pc = "finish"
    /\ unswept = {}
    /\ marked' = RootHandles
    /\ work' = RootHandles
    /\ pc' = "mark"
    /\ UNCHANGED <<bookkeeping, payloads, rootsets, unswept, held, target>>

\* Collector::mark through trace_referents: out-of-range handles and marked
\* ones are skipped, the rest is marked and pushed.
PushUnflagged(h) ==
    LET found == (refs[h] \cap Slots) \ marked IN
    /\ pc = "mark"
    /\ h \in work
    /\ work' = (work \ {h}) \cup found
    /\ UNCHANGED <<bookkeeping, payloads, rootsets, unswept, marked, held, pc,
                   target>>
MarkStep(h) ==
    LET found == (refs[h] \cap Slots) \ marked IN
    /\ pc = "mark"
    /\ h \in work
    /\ marked' = marked \cup found
    /\ work' = (work \ {h}) \cup found
    /\ UNCHANGED <<bookkeeping, payloads, rootsets, unswept, held, pc, target>>

\* prune_shape_transitions over the marked shapes.
NoPrune == weak
PrunedWeak == [h \in Handles |->
                 IF h \in marked THEN weak[h] \cap marked ELSE weak[h]]

\* publish_mark's four assignments.  A root that still names a freed slot has
\* resurrected it: the slot leaves the free list.
KeepResurrectedFree == free
FreeAfterMark == [h \in Handles |-> IF h \in marked THEN 0 ELSE free[h]]
ReleasedAfterMark == released \ marked
CountAllUnmarked ==
    [s \in Spaces |-> Cardinality({h \in SlotsOf(s) : h \notin marked})]
PendingAfterMark ==
    [s \in Spaces |-> Cardinality({h \in SlotsOf(s) :
                         h \notin marked /\ h \notin ReleasedAfterMark})]
KeepCursor == cursor
CursorAfterMark == [s \in Spaces |-> 0]

\* The end of force_collect: prune, publish, and the mutator goes on with the
\* handles it had; those the collection freed are stale.
PublishMark ==
    /\ pc = "mark"
    /\ work = {}
    /\ weak' = PrunedWeak
    /\ free' = FreeAfterMark
    /\ released' = ReleasedAfterMark
    /\ alive' = marked
    /\ pending' = PendingAfterMark
    /\ cursor' = CursorAfterMark
    /\ held' = IF KeepStale THEN held ELSE held \cap marked
    /\ pc' = "run"
    /\ marked' = {}
    /\ UNCHANGED <<len, refs, rootsets, unswept, work, target>>

-----------------------------------------------------------------------------
Alloc == \/ \E s \in Spaces : AllocBegin(s)
         \/ \E h \in Handles, P \in Payloads : AllocPop(h, P)
         \/ \E c \in 0..MaxCap : AllocSweep(c)
         \/ \E P \in Payloads : AllocExtend(P)
         \/ AllocAtCap

Mutate == \/ \E h \in Handles, P \in Payloads : WriteRef(h, P)
          \/ \E h, c \in Handles : RecordTransition(h, c)
          \/ \E h, r \in Handles : ReadRef(h, r)
          \/ \E h \in Handles : AddRoot(h) \/ RemoveRoot(h)
          \/ \E h \in Handles : Pin(h) \/ DeregisterRealmGlobal(h)

Collect == \/ \E S \in SUBSET held : GcProtect(S) \/ GcProtectNoCollect(S)
           \/ ForceCollect
           \/ \E s \in Spaces, c \in 0..MaxCap : FinishSweep(s, c)
           \/ MarkRoots
           \/ \E h \in Handles : MarkStep(h)
           \/ PublishMark

Next == Alloc \/ Mutate \/ Collect

\* What runs to its end once entered: the alloc loop and force_collect.
Internal == \/ \E h \in Handles, P \in Payloads : AllocPop(h, P)
            \/ \E c \in 0..MaxCap : AllocSweep(c)
            \/ \E P \in Payloads : AllocExtend(P)
            \/ AllocAtCap
            \/ \E s \in Spaces, c \in 0..MaxCap : FinishSweep(s, c)
            \/ MarkRoots
            \/ \E h \in Handles : MarkStep(h)
            \/ PublishMark

Spec == Init /\ [][Next]_vars
FairSpec == Spec /\ WF_vars(Internal)

-----------------------------------------------------------------------------
\* Every handle that is stored, rooted, held or queued for marking names a slot
\* of the slot vectors; the space being allocated in is known exactly in alloc.
TypeOK ==
    /\ len \in [Spaces -> 0..MaxCap] /\ \A s \in Spaces : len[s] <= Cap[s]
    /\ alive \subseteq Slots
    /\ released \subseteq Slots
    /\ free \in [Handles -> Nat]
    /\ cursor \in [Spaces -> 0..MaxCap]
    /\ pending \in [Spaces -> Nat]
    /\ refs \in [Handles -> SUBSET Slots]
    /\ weak \in [Handles -> SUBSET Slots]
    /\ roots \subseteq Slots
    /\ pinned \subseteq Slots
    /\ held \subseteq Slots
    /\ pc \in {"run", "alloc", "finish", "mark"}
    /\ IF pc = "alloc" THEN target \in Spaces ELSE target = NoSpace
    /\ unswept \subseteq Spaces
    /\ work \subseteq marked
    /\ marked \subseteq Slots

(***************************************************************************)
(* Bookkeeping: holds whatever handles the mutator roots, stale ones too.  *)
(***************************************************************************)

\* The invariant stated on Heap::released: a slot is flagged released exactly
\* when it is in the free list, and it is there once.  With it goes what
\* alloc's entry contract says: the slots in a free list are dead.
FreeListExact ==
    /\ \A h \in Handles : free[h] = IF h \in released THEN 1 ELSE 0
    /\ released \cap alive = {}

\* pending_dead counts exactly the dead slots still to be released, and all
\* of them lie at or after the sweep cursor: the lazy sweep that later
\* collections, resurrections and allocations interleave with misses none.
SweepComplete ==
    \A s \in Spaces : /\ pending[s] = Cardinality(Dead(s))
                      /\ \A h \in Dead(s) : cursor[s] <= h[2]

\* An allocation makes a dead slot live: alloc never hands out a slot that
\* something still counts as live, even after a stale root resurrected it.
AllocatesDeadSlot ==
    [][pc = "alloc" /\ pc' = "run" /\ <<len, free>>' # <<len, free>>
         => \E h \in Handles \ alive : alive' = alive \cup {h}]_vars

\* A slot vector grows only when the space holds no reclaimable slot: sweeping
\* late never costs memory.
ExtendsOnlyWhenFull ==
    [][\A s \in Spaces : len'[s] # len[s] => SlotsOf(s) \subseteq alive]_vars

(***************************************************************************)
(* Collection: for a mutator that keeps the rooting contract of alloc.     *)
(***************************************************************************)

\* Liveness is closed: nothing the program can get at, through roots, locals,
\* payloads or cached shape transitions, is dead.
NoDangling ==
    ~KeepStale => /\ roots \cup pinned \cup held \subseteq alive
                  /\ \A h \in alive : refs[h] \cup weak[h] \subseteq alive

\* The program sees a heap of unbounded lifetime, in which allocation yields
\* a fresh object and a collection removes exactly what no root reaches.
Abstract == INSTANCE ManagedHeap
              WITH objs <- [h \in alive |-> refs[h]],
                   rooted <- roots \cup pinned

\* The slots, flags, free lists and worklist implement the managed heap: no
\* allocation reuses a live slot, no collection drops or keeps a wrong one, no
\* sweep step touches a live payload.
ImplementsManagedHeap == Abstract!Spec

\* The alloc loop and force_collect terminate: every sweep step moves the
\* cursor or empties the pending count, every mark step takes one slot off
\* the worklist for good.
HeapCallsReturn == pc # "run" ~> pc = "run"
=============================================================================
