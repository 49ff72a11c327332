--------------------------- MODULE PromisesProofs ---------------------------
(***************************************************************************)
(* Proofs about Promises for any number of promises and operations and any *)
(* sets of values, and that it implements PromiseContract.                 *)
(***************************************************************************)
EXTENDS Promises, NumberInduction, SequenceTheorems

-----------------------------------------------------------------------------
(* What can be built from the promises in P and the values in V.           *)

Settlements == States \ {"pending"}

ClosuresOf(P, V) ==
    [fn : {"watch"}, state : Settlements, derived : P, callback : Handlers]
    \cup [fn : {"forward"}, half : {ResolveOf(p) : p \in P}, payload : V]
    \cup [fn : {"forwardError"}, half : {RejectOf(p) : p \in P}]
HostFunctionsOf(P, V) ==
    {ResolveOf(p) : p \in P} \cup {RejectOf(p) : p \in P} \cup ClosuresOf(P, V)

RecordsOf(P, V) ==
    {ThenRecord(f, g, d) : f \in Handlers, g \in Handlers, d \in P}
    \cup {AdoptionRecord(p) : p \in P}
    \cup {WatchRecord(f, g) : f \in ClosuresOf(P, V), g \in ClosuresOf(P, V)}

JobsOf(P, V) ==
    [type : {"reaction"}, handler : Handlers \cup HostFunctionsOf(P, V), payload : V,
     derived : P \cup {Unobserved},
     capability : HostFunctionsOf(P, V) \X HostFunctionsOf(P, V), rejecting : BOOLEAN]
    \cup [type : {"thenable"}, promise : P, thenable : Inert \cup Thenables \cup Poisoned]
    \cup [type : {"finally"}, derived : P, callback : Handlers, state : Settlements, payload : V]
    \cup [type : {"call"}, function : HostFunctionsOf(P, V), payload : V]
    \cup {MicrotaskJob}

\* The values a program that has allocated count promises can hold.
Reachable == Allocated \cup OtherValues

\* What each part of the state holds when the promises in P are allocated and
\* the program can hold the values in V.
SlotsTyped(P, V) ==
    /\ state \in [Promises -> States]
    /\ result \in [Promises -> V]
    /\ reactions \in [Promises -> Seq(RecordsOf(P, V))]
QueuesTyped(P, V) == jobs \in Seq(JobsOf(P, V)) /\ adoptions \in Seq(JobsOf(P, V))
EngineTyped(P, V) ==
    /\ control \in {"script", "callback", "host", "drain"}
    /\ IF control = "callback" THEN job \in JobsOf(P, V) ELSE job = NoJob
    /\ IF control = "host" THEN host \in [function : HostFunctionsOf(P, V), argument : V]
       ELSE host = NoCall
ScriptTyped(P) == held \subseteq P /\ visible \subseteq P

\* A promise that has not been allocated is pending with no reactions.
FreshUntouched ==
    \A p \in Promises \ Allocated :
        state[p] = "pending" /\ reactions[p] = <<>> /\ origin[p].by = "none"

\* Nothing refers to a promise that has not been allocated.
TypeInv ==
    /\ count \in 0..MaxPromises
    /\ SlotsTyped(Allocated, Reachable)
    /\ QueuesTyped(Allocated, Reachable)
    /\ EngineTyped(Allocated, Reachable)
    /\ ScriptTyped(Allocated)
    /\ FreshUntouched
    /\ DOMAIN origin = Promises

-----------------------------------------------------------------------------
(* The functions, records and jobs.                                        *)

\* More promises and values build more.
LEMMA BuildMore ==
    ASSUME NEW P, NEW Q, NEW V, NEW W, P \subseteq Q, V \subseteq W
    PROVE  /\ HostFunctionsOf(P, V) \subseteq HostFunctionsOf(Q, W)
           /\ RecordsOf(P, V) \subseteq RecordsOf(Q, W)
           /\ JobsOf(P, V) \subseteq JobsOf(Q, W)
<1>0. ClosuresOf(P, V) \subseteq ClosuresOf(Q, W)
  BY DEF ClosuresOf
<1>1. HostFunctionsOf(P, V) \subseteq HostFunctionsOf(Q, W)
  BY <1>0 DEF HostFunctionsOf
<1>2. RecordsOf(P, V) \subseteq RecordsOf(Q, W)
  BY <1>0, <1>1 DEF RecordsOf
<1>3. JobsOf(P, V) \subseteq JobsOf(Q, W)
  BY <1>1 DEF JobsOf
<1> QED
  BY <1>1, <1>2, <1>3

\* A host closure is not one of the functions script passes to `then`.
LEMMA HostNotHandler ==
    ASSUME NEW P, NEW V, NEW f \in HostFunctionsOf(P, V)
    PROVE  /\ f \notin Handlers
           /\ f.fn \in {"resolve", "reject", "watch", "forward", "forwardError"}
           /\ f.fn = "resolve" => f.promise \in P /\ f = ResolveOf(f.promise)
           /\ f.fn = "reject" => f.promise \in P /\ f = RejectOf(f.promise)
           /\ f.fn = "watch" => f.derived \in P /\ f.callback \in Handlers /\ f.state \in Settlements
           /\ f.fn = "forward" => f.half \in HostFunctionsOf(P, V) /\ f.payload \in V
           /\ f.fn = "forwardError" => f.half \in HostFunctionsOf(P, V)
BY DEF HostFunctionsOf, ClosuresOf, Handlers, NoFunction, UserFunction, ResolveOf, RejectOf

\* drain_reaction_jobs makes a job of what its record holds.
LEMMA JobOfRecordType ==
    ASSUME NEW P, NEW V, NEW r \in RecordsOf(P, V), NEW st \in Settlements, NEW v \in V
    PROVE  JobOfRecord(r, st, v) \in JobsOf(P, V)
<1>1. CASE \E f \in Handlers, g \in Handlers, d \in P : r = ThenRecord(f, g, d)
  <2> PICK f \in Handlers, g \in Handlers, d \in P : r = ThenRecord(f, g, d)
    BY <1>1
  <2>1. /\ r[1] = f /\ r[2] = g /\ r[3] = d /\ CapabilityOf(r) = <<ResolveOf(d), RejectOf(d)>>
    BY DEF ThenRecord, CapabilityOf
  <2>2. <<ResolveOf(d), RejectOf(d)>> \in HostFunctionsOf(P, V) \X HostFunctionsOf(P, V)
    BY DEF HostFunctionsOf
  <2> QED
    BY <2>1, <2>2 DEF JobOfRecord, ReactionJob, JobsOf
<1>2. CASE \E p \in P : r = AdoptionRecord(p)
  <2> PICK p \in P : r = AdoptionRecord(p)
    BY <1>2
  <2>1. /\ r[1] = ResolveOf(p) /\ r[2] = RejectOf(p) /\ r[3] = Unobserved
        /\ CapabilityOf(r) = <<ResolveOf(p), RejectOf(p)>>
    BY DEF AdoptionRecord, CapabilityOf
  <2>2. ResolveOf(p) \in HostFunctionsOf(P, V) /\ RejectOf(p) \in HostFunctionsOf(P, V)
    BY DEF HostFunctionsOf
  <2> QED
    BY <2>1, <2>2 DEF JobOfRecord, ReactionJob, JobsOf
<1>3. CASE \E f \in ClosuresOf(P, V), g \in ClosuresOf(P, V) : r = WatchRecord(f, g)
  <2> PICK f \in ClosuresOf(P, V), g \in ClosuresOf(P, V) : r = WatchRecord(f, g)
    BY <1>3
  <2>1. r[1] = f /\ r[2] = g /\ r[3] = Unobserved /\ CapabilityOf(r) = <<f, g>>
    BY DEF WatchRecord, CapabilityOf
  <2> QED
    BY <2>1 DEF JobOfRecord, ReactionJob, JobsOf, HostFunctionsOf
<1> QED
  BY <1>1, <1>2, <1>3 DEF RecordsOf

\* The jobs of a settled promise: one for each record, in the same order.
LEMMA DrainType ==
    ASSUME NEW P, NEW V, NEW p \in Promises,
           reactions \in [Promises -> Seq(RecordsOf(P, V))],
           NEW st \in Settlements, NEW v \in V
    PROVE  /\ DrainReactionJobs(p, st, v) \in Seq(JobsOf(P, V))
           /\ Range(DrainReactionJobs(p, st, v)) =
                {JobOfRecord(r, st, v) : r \in Range(reactions[p])}
<1>1. reactions[p] \in Seq(RecordsOf(P, V))
  OBVIOUS
<1>2. /\ Len(reactions[p]) \in Nat /\ DOMAIN reactions[p] = 1..Len(reactions[p])
      /\ \A i \in DOMAIN reactions[p] : reactions[p][i] \in RecordsOf(P, V)
  BY <1>1
<1>3. \A i \in DOMAIN reactions[p] : JobOfRecord(reactions[p][i], st, v) \in JobsOf(P, V)
  BY <1>2, JobOfRecordType
<1>4. DrainReactionJobs(p, st, v) \in Seq(JobsOf(P, V))
  BY <1>2, <1>3 DEF DrainReactionJobs
<1>5. Range(DrainReactionJobs(p, st, v)) = {JobOfRecord(r, st, v) : r \in Range(reactions[p])}
  BY DEF DrainReactionJobs, Range
<1> QED
  BY <1>4, <1>5

\* A promise is none of the values whose `then` is looked up.
LEMMA PromisesHaveNoThen == \A v \in Promises : ~HasThen(v)
BY ValuesAssumption DEF OtherValues, HasThen

-----------------------------------------------------------------------------
(* What a settlement does to the slots.                                    *)

\* The ways settle_with_adoption is called: for either half of a capability,
\* and for a thenable whose `then` is not callable.
Settles(p, v, q) ==
    \/ CapabilitySettle(p, v, TRUE, q)
    \/ CapabilitySettle(p, v, FALSE, q)
    \/ v \in Inert /\ SettleWithAdoption(p, v, FALSE, FALSE, q)

\* The call leaves a settled promise alone.
LEMMA SettleAgain ==
    ASSUME NEW p \in Promises, NEW v, NEW q, Settles(p, v, q), Settled(p)
    PROVE  UNCHANGED slots /\ jobs' = q
BY DEF Settles, CapabilitySettle, SettleWithAdoption, StillPending, Settled

\* The reject half rejects a pending promise with its argument.
LEMMA RejectCases ==
    ASSUME NEW p \in Promises, NEW v, NEW q, CapabilitySettle(p, v, TRUE, q), ~Settled(p)
    PROVE  SettleTo(p, "rejected", v, q)
BY DEF CapabilitySettle, SettleWithAdoption, StillPending, Settled, SettleTo

\* The resolve half queues a thenable, settles the pending p, or parks p's
\* adoption on a pending promise.
LEMMA ResolveCases ==
    ASSUME NEW p \in Promises, NEW v, NEW q, state \in [Promises -> States],
           CapabilitySettle(p, v, FALSE, q), ~Settled(p)
    PROVE  \/ v = p /\ SettleTo(p, "rejected", TypeErrorValue, q)
           \/ v \in Promises \ {p} /\ Settled(v) /\ SettleTo(p, state[v], result[v], q)
           \/ v \in Promises \ {p} /\ ~Settled(v) /\ AttachAdoption(p, v, q)
           \/ HasThen(v) /\ UNCHANGED slots /\ jobs' = Append(q, ThenableJob(p, v))
           \/ v \notin Promises /\ ~HasThen(v) /\ SettleTo(p, "fulfilled", v, q)
<1>1. CASE v = p
  BY <1>1, PromisesHaveNoThen
  DEF CapabilitySettle, SettleWithAdoption, StillPending, Settled, SettleTo
<1>2. CASE v \in Promises \ {p}
  <2>1. AdoptPromise(p, v, q)
    BY <1>2, PromisesHaveNoThen
    DEF CapabilitySettle, SettleWithAdoption, StillPending, Settled, AdoptPromise,
        AttachAdoption, SettleTo
  <2> QED
    BY <1>2, <2>1 DEF AdoptPromise, Settled
<1>3. CASE v \notin Promises /\ HasThen(v)
  BY <1>3 DEF CapabilitySettle, SettleWithAdoption, StillPending, Settled
<1>4. CASE v \notin Promises /\ ~HasThen(v)
  BY <1>4 DEF CapabilitySettle, SettleWithAdoption, StillPending, Settled, SettleTo
<1> QED
  BY <1>1, <1>2, <1>3, <1>4

\* settle_with_adoption leaves the slots alone, or settles the pending p, or
\* parks p's adoption on a pending promise.  What it fulfils p with needs no
\* adoption, unless it is what another promise has been fulfilled with.
LEMMA SettleCases ==
    ASSUME NEW p \in Promises, NEW v, NEW q, state \in [Promises -> States], Settles(p, v, q)
    PROVE  \/ UNCHANGED slots /\ jobs' = q
           \/ HasThen(v) /\ UNCHANGED slots /\ jobs' = Append(q, ThenableJob(p, v))
           \/ /\ ~Settled(p)
              /\ \E st \in Settlements : \E w :
                    /\ SettleTo(p, st, w, q)
                    /\ \/ st = "rejected" /\ w \in {v, TypeErrorValue}
                       \/ v \in Promises /\ st = state[v] /\ w = result[v]
                       \/ w = v /\ v \notin Promises \cup Thenables \cup Poisoned
           \/ ~Settled(p) /\ v \in Promises /\ ~Settled(v) /\ AttachAdoption(p, v, q)
<1> DEFINE Final(st, w) == \/ st = "rejected" /\ w \in {v, TypeErrorValue}
                           \/ v \in Promises /\ st = state[v] /\ w = result[v]
                           \/ w = v /\ v \notin Promises \cup Thenables \cup Poisoned
<1>1. CASE Settled(p)
  BY <1>1, SettleAgain
<1>2. CASE ~Settled(p) /\ CapabilitySettle(p, v, TRUE, q)
  <2>1. SettleTo(p, "rejected", v, q)
    BY <1>2, RejectCases
  <2>2. Final("rejected", v) /\ "rejected" \in Settlements
    BY DEF Settlements, States
  <2> QED
    BY <1>2, <2>1, <2>2
<1>3. CASE ~Settled(p) /\ CapabilitySettle(p, v, FALSE, q)
  <2>1. CASE v = p /\ SettleTo(p, "rejected", TypeErrorValue, q)
    <3>1. Final("rejected", TypeErrorValue) /\ "rejected" \in Settlements
      BY DEF Settlements, States
    <3> QED
      BY <1>3, <2>1, <3>1
  <2>2. CASE v \in Promises \ {p} /\ Settled(v) /\ SettleTo(p, state[v], result[v], q)
    <3>1. Final(state[v], result[v]) /\ state[v] \in Settlements
      BY <2>2 DEF Settlements, Settled
    <3> QED
      BY <1>3, <2>2, <3>1
  <2>3. CASE v \notin Promises /\ ~HasThen(v) /\ SettleTo(p, "fulfilled", v, q)
    <3>1. Final("fulfilled", v) /\ "fulfilled" \in Settlements
      BY <2>3 DEF HasThen, Settlements, States
    <3> QED
      BY <1>3, <2>3, <3>1
  <2>4. CASE v \in Promises \ {p} /\ ~Settled(v) /\ AttachAdoption(p, v, q)
    BY <1>3, <2>4
  <2>5. CASE HasThen(v) /\ UNCHANGED slots /\ jobs' = Append(q, ThenableJob(p, v))
    BY <2>5
  <2> QED
    BY <1>3, <2>1, <2>2, <2>3, <2>4, <2>5, ResolveCases
<1>4. CASE ~Settled(p) /\ v \in Inert /\ SettleWithAdoption(p, v, FALSE, FALSE, q)
  <2>1. v \notin Promises /\ v \notin Thenables \cup Poisoned
    BY <1>4, ValuesAssumption DEF OtherValues
  <2>2. SettleTo(p, "fulfilled", v, q)
    BY <1>4, <2>1 DEF SettleWithAdoption, StillPending, Settled, SettleTo
  <2>3. Final("fulfilled", v) /\ "fulfilled" \in Settlements
    BY <2>1 DEF Settlements, States
  <2> QED
    BY <1>4, <2>2, <2>3
<1> QED
  BY <1>1, <1>2, <1>3, <1>4 DEF Settles

\* A settlement stays within the promises and values it is given, and touches
\* no promise outside of them.
LEMMA SettleTypes ==
    ASSUME NEW P \in SUBSET Promises, NEW V, V \cap Promises \subseteq P, TypeErrorValue \in V,
           state \in [Promises -> States], result \in [Promises -> V],
           reactions \in [Promises -> Seq(RecordsOf(P, V))],
           NEW p \in P, NEW v \in V, NEW q \in Seq(JobsOf(P, V)), Settles(p, v, q)
    PROVE  /\ state' \in [Promises -> States] /\ result' \in [Promises -> V]
           /\ reactions' \in [Promises -> Seq(RecordsOf(P, V))]
           /\ jobs' \in Seq(JobsOf(P, V))
           /\ \A x \in Promises \ P : state'[x] = state[x] /\ reactions'[x] = reactions[x]
<1>1. CASE UNCHANGED slots /\ jobs' = q
  BY <1>1 DEF slots
<1>2. CASE HasThen(v) /\ UNCHANGED slots /\ jobs' = Append(q, ThenableJob(p, v))
  <2>1. ThenableJob(p, v) \in JobsOf(P, V)
    BY <1>2 DEF ThenableJob, JobsOf, HasThen
  <2> QED
    BY <1>2, <2>1 DEF slots
<1>3. ASSUME NEW st \in Settlements, NEW w \in V, SettleTo(p, st, w, q)
      PROVE  /\ state' \in [Promises -> States] /\ result' \in [Promises -> V]
             /\ reactions' \in [Promises -> Seq(RecordsOf(P, V))]
             /\ jobs' \in Seq(JobsOf(P, V))
             /\ \A x \in Promises \ P : state'[x] = state[x] /\ reactions'[x] = reactions[x]
  <2>1. DrainReactionJobs(p, st, w) \in Seq(JobsOf(P, V))
    BY DrainType
  <2>2. jobs' \in Seq(JobsOf(P, V))
    BY <1>3, <2>1 DEF SettleTo
  <2>3. <<>> \in Seq(RecordsOf(P, V))
    OBVIOUS
  <2> QED
    BY <1>3, <2>2, <2>3 DEF SettleTo, Settlements
<1>4. CASE v \in Promises /\ AttachAdoption(p, v, q)
  <2>1. AdoptionRecord(p) \in RecordsOf(P, V) /\ v \in P
    BY <1>4 DEF RecordsOf
  <2>2. Append(reactions[v], AdoptionRecord(p)) \in Seq(RecordsOf(P, V))
    BY <1>4, <2>1
  <2> QED
    BY <1>4, <2>1, <2>2 DEF AttachAdoption
<1>5. CASE \E st \in Settlements : \E w : SettleTo(p, st, w, q) /\ w \in {v, TypeErrorValue, result[v]}
                                      /\ (w = result[v] => w = v \/ v \in Promises)
  BY <1>3, <1>5
<1>6. p \in Promises
  OBVIOUS
<1> QED
  BY <1>1, <1>2, <1>3, <1>4, <1>6, SettleCases

\* The same for a call of any host closure.
LEMMA HostTypes ==
    ASSUME NEW P \in SUBSET Promises, NEW V, V \cap Promises \subseteq P, TypeErrorValue \in V,
           state \in [Promises -> States], result \in [Promises -> V],
           reactions \in [Promises -> Seq(RecordsOf(P, V))],
           NEW f \in HostFunctionsOf(P, V), NEW v \in V, NEW q \in Seq(JobsOf(P, V)),
           CallHost(f, v, q)
    PROVE  /\ state' \in [Promises -> States] /\ result' \in [Promises -> V]
           /\ reactions' \in [Promises -> Seq(RecordsOf(P, V))]
           /\ jobs' \in Seq(JobsOf(P, V))
           /\ \A x \in Promises \ P : state'[x] = state[x] /\ reactions'[x] = reactions[x]
<1>1. CASE f.fn = "resolve"
  <2>1. f.promise \in P
    BY <1>1, HostNotHandler
  <2>2. Settles(f.promise, v, q)
    BY <1>1 DEF CallHost, Settles, CapabilitySettle, SettleWithAdoption, SettleTo, AdoptPromise,
                 AttachAdoption
  <2> QED
    BY <2>1, <2>2, SettleTypes
<1>2. CASE f.fn = "reject"
  <2>1. f.promise \in P
    BY <1>2, HostNotHandler
  <2>2. Settles(f.promise, v, q)
    BY <1>2 DEF CallHost, Settles, CapabilitySettle, SettleWithAdoption, SettleTo, AdoptPromise,
                 AttachAdoption
  <2> QED
    BY <2>1, <2>2, SettleTypes
<1>3. CASE f.fn = "watch"
  <2>1. FinallyJob(f.derived, f.callback, f.state, v) \in JobsOf(P, V)
    BY <1>3, HostNotHandler DEF FinallyJob, JobsOf
  <2>2. UNCHANGED slots /\ jobs' = Append(q, FinallyJob(f.derived, f.callback, f.state, v))
    BY <1>3 DEF CallHost, CapabilitySettle, SettleWithAdoption, SettleTo, AdoptPromise, AttachAdoption
  <2> QED
    BY <2>1, <2>2 DEF slots
<1>4. CASE f.fn = "forward"
  <2>1. CallJob(f.half, f.payload) \in JobsOf(P, V)
    BY <1>4, HostNotHandler DEF CallJob, JobsOf
  <2>2. UNCHANGED slots /\ jobs' = Append(q, CallJob(f.half, f.payload))
    BY <1>4 DEF CallHost, CapabilitySettle, SettleWithAdoption, SettleTo, AdoptPromise, AttachAdoption
  <2> QED
    BY <2>1, <2>2 DEF slots
<1>5. CASE f.fn = "forwardError"
  <2>1. CallJob(f.half, v) \in JobsOf(P, V)
    BY <1>5, HostNotHandler DEF CallJob, JobsOf
  <2>2. UNCHANGED slots /\ jobs' = Append(q, CallJob(f.half, v))
    BY <1>5 DEF CallHost, CapabilitySettle, SettleWithAdoption, SettleTo, AdoptPromise, AttachAdoption
  <2> QED
    BY <2>1, <2>2 DEF slots
<1>6. f.fn \in {"resolve", "reject", "watch", "forward", "forwardError"}
  BY HostNotHandler
<1> QED
  BY <1>1, <1>2, <1>3, <1>4, <1>5, <1>6

-----------------------------------------------------------------------------
(* The type invariant.                                                     *)

\* What referred to allocated promises still does when count grows.
LEMMA Grow ==
    ASSUME TypeInv, count' \in {count, count + 1}, count' \in 0..MaxPromises
    PROVE  /\ Allocated \subseteq Allocated' /\ Allocated' \subseteq Promises
           /\ Reachable \subseteq Reachable' /\ Reachable' \cap Promises \subseteq Allocated'
           /\ TypeErrorValue \in Reachable' /\ Undefined \in Reachable'
           /\ HostFunctionsOf(Allocated, Reachable) \subseteq HostFunctionsOf(Allocated', Reachable')
           /\ RecordsOf(Allocated, Reachable) \subseteq RecordsOf(Allocated', Reachable')
           /\ JobsOf(Allocated, Reachable) \subseteq JobsOf(Allocated', Reachable')
           /\ SlotsTyped(Allocated', Reachable') /\ QueuesTyped(Allocated', Reachable')
           /\ EngineTyped(Allocated', Reachable') /\ ScriptTyped(Allocated')
<1>1. Allocated \subseteq Allocated' /\ Allocated' \subseteq Promises
  BY BoundsAssumption DEF TypeInv, Allocated, Promises
<1>2. Reachable \subseteq Reachable' /\ Reachable' \cap Promises \subseteq Allocated'
      /\ TypeErrorValue \in Reachable' /\ Undefined \in Reachable'
  BY <1>1, ValuesAssumption DEF Reachable, OtherValues
<1>3. /\ HostFunctionsOf(Allocated, Reachable) \subseteq HostFunctionsOf(Allocated', Reachable')
      /\ RecordsOf(Allocated, Reachable) \subseteq RecordsOf(Allocated', Reachable')
      /\ JobsOf(Allocated, Reachable) \subseteq JobsOf(Allocated', Reachable')
  BY <1>1, <1>2, BuildMore
<1>4. SlotsTyped(Allocated', Reachable') /\ QueuesTyped(Allocated', Reachable')
  BY <1>2, <1>3 DEF TypeInv, SlotsTyped, QueuesTyped
<1>5. EngineTyped(Allocated', Reachable') /\ ScriptTyped(Allocated')
  BY <1>1, <1>2, <1>3 DEF TypeInv, EngineTyped, ScriptTyped
<1> QED
  BY <1>1, <1>2, <1>3, <1>4, <1>5

\* The values and functions the engine starts from.
LEMMA Known ==
    ASSUME TypeInv
    PROVE  /\ Allocated \subseteq Promises /\ Reachable \cap Promises \subseteq Allocated
           /\ TypeErrorValue \in Reachable /\ Undefined \in Reachable
           /\ ScriptValues \subseteq Reachable
           /\ \A p \in Allocated : /\ ResolveOf(p) \in HostFunctionsOf(Allocated, Reachable)
                                   /\ RejectOf(p) \in HostFunctionsOf(Allocated, Reachable)
<1>1. Allocated \subseteq Promises
  BY BoundsAssumption DEF TypeInv, Allocated, Promises
<1> QED
  BY <1>1, ValuesAssumption
  DEF TypeInv, ScriptTyped, Reachable, OtherValues, ScriptValues, HostFunctionsOf

\* What stays typed when the engine calls a host closure for a job: the slots
\* and the queues of the promises that are allocated.
CallIsTyped ==
    SlotsTyped(Allocated, Reachable)' /\ QueuesTyped(Allocated, Reachable)' /\ FreshUntouched'

LEMMA CallHostTyped ==
    ASSUME TypeInv, NEW f \in HostFunctionsOf(Allocated, Reachable), NEW v \in Reachable,
           NEW q \in Seq(JobsOf(Allocated, Reachable)), CallHost(f, v, q),
           UNCHANGED <<count, adoptions, origin>>
    PROVE  CallIsTyped
<1>1. /\ Allocated \in SUBSET Promises /\ Reachable \cap Promises \subseteq Allocated
      /\ TypeErrorValue \in Reachable
  BY Known
<1>2. /\ state \in [Promises -> States] /\ result \in [Promises -> Reachable]
      /\ reactions \in [Promises -> Seq(RecordsOf(Allocated, Reachable))]
  BY DEF TypeInv, SlotsTyped
<1>3. /\ state' \in [Promises -> States] /\ result' \in [Promises -> Reachable]
      /\ reactions' \in [Promises -> Seq(RecordsOf(Allocated, Reachable))]
      /\ jobs' \in Seq(JobsOf(Allocated, Reachable))
      /\ \A x \in Promises \ Allocated : state'[x] = state[x] /\ reactions'[x] = reactions[x]
  BY <1>1, <1>2, HostTypes
<1>4. Allocated' = Allocated /\ Reachable' = Reachable
  BY DEF Allocated, Reachable
<1>5. SlotsTyped(Allocated, Reachable)' /\ QueuesTyped(Allocated, Reachable)'
  BY <1>3, <1>4 DEF SlotsTyped, QueuesTyped, TypeInv
<1>6. FreshUntouched'
  BY <1>3, <1>4 DEF FreshUntouched, TypeInv
<1> QED
  BY <1>5, <1>6 DEF CallIsTyped

LEMMA SettlesTyped ==
    ASSUME TypeInv, NEW p \in Allocated, NEW v \in Reachable,
           NEW q \in Seq(JobsOf(Allocated, Reachable)), Settles(p, v, q),
           UNCHANGED <<count, adoptions, origin>>
    PROVE  CallIsTyped
<1>1. /\ Allocated \in SUBSET Promises /\ Reachable \cap Promises \subseteq Allocated
      /\ TypeErrorValue \in Reachable
  BY Known
<1>2. /\ state \in [Promises -> States] /\ result \in [Promises -> Reachable]
      /\ reactions \in [Promises -> Seq(RecordsOf(Allocated, Reachable))]
  BY DEF TypeInv, SlotsTyped
<1>3. /\ state' \in [Promises -> States] /\ result' \in [Promises -> Reachable]
      /\ reactions' \in [Promises -> Seq(RecordsOf(Allocated, Reachable))]
      /\ jobs' \in Seq(JobsOf(Allocated, Reachable))
      /\ \A x \in Promises \ Allocated : state'[x] = state[x] /\ reactions'[x] = reactions[x]
  BY <1>1, <1>2, SettleTypes
<1>4. Allocated' = Allocated /\ Reachable' = Reachable
  BY DEF Allocated, Reachable
<1>5. SlotsTyped(Allocated, Reachable)' /\ QueuesTyped(Allocated, Reachable)'
  BY <1>3, <1>4 DEF SlotsTyped, QueuesTyped, TypeInv
<1>6. FreshUntouched'
  BY <1>3, <1>4 DEF FreshUntouched, TypeInv
<1> QED
  BY <1>5, <1>6 DEF CallIsTyped

\* The fields of a job, by its type.
LEMMA JobFields ==
    ASSUME NEW P, NEW V, NEW j \in JobsOf(P, V)
    PROVE  /\ j.type = "reaction" =>
                /\ j.handler \in Handlers \cup HostFunctionsOf(P, V) /\ j.payload \in V
                /\ j.derived \in P \cup {Unobserved} /\ j.rejecting \in BOOLEAN
                /\ j.capability[1] \in HostFunctionsOf(P, V)
                /\ j.capability[2] \in HostFunctionsOf(P, V)
           /\ j.type = "thenable" =>
                j.promise \in P /\ j.thenable \in Inert \cup Thenables \cup Poisoned
           /\ j.type = "finally" =>
                /\ j.derived \in P /\ j.callback \in Handlers
                /\ j.state \in Settlements /\ j.payload \in V
           /\ j.type = "call" => j.function \in HostFunctionsOf(P, V) /\ j.payload \in V
           /\ j.type \in {"reaction", "thenable", "finally", "call", "microtask"}
           /\ j.type = "microtask" => j = MicrotaskJob
BY DEF JobsOf, MicrotaskJob

\* The job the drain picks, and the queue it leaves.
LEMMA PopType ==
    ASSUME TypeInv, NEW type, Pop(type)
    PROVE  /\ Head(jobs) \in JobsOf(Allocated, Reachable) /\ Head(jobs).type = type
           /\ Tail(jobs) \in Seq(JobsOf(Allocated, Reachable))
           /\ job = NoJob /\ host = NoCall
BY DEF TypeInv, QueuesTyped, EngineTyped, Pop

\* A settlement for the running job, in the drain: what else it touches.
LEMMA DrainTyped ==
    ASSUME TypeInv, CallIsTyped, control = "drain",
           UNCHANGED <<count, engine, held, visible, origin>>
    PROVE  TypeInv'
<1>1. Allocated' = Allocated /\ Reachable' = Reachable
  BY DEF Allocated, Reachable
<1>2. EngineTyped(Allocated, Reachable)' /\ ScriptTyped(Allocated)'
  BY <1>1 DEF TypeInv, EngineTyped, ScriptTyped, engine
<1> QED
  BY <1>2 DEF TypeInv, CallIsTyped

\* Every value is reachable, the ones script passes among them.
LEMMA OthersReachable == OtherValues \subseteq Reachable
BY DEF Reachable

\* A step of the drain.
LEMMA DrainStep == TypeInv /\ Drain => TypeInv'
<1> SUFFICES ASSUME TypeInv, Drain PROVE TypeInv'
  OBVIOUS
<1> DEFINE J == JobsOf(Allocated, Reachable)
           H == HostFunctionsOf(Allocated, Reachable)
<1>1. /\ Undefined \in Reachable /\ TypeErrorValue \in Reachable
      /\ Plain \subseteq Reachable /\ Allocated \subseteq Promises
      /\ \A p \in Allocated : ResolveOf(p) \in H /\ RejectOf(p) \in H
  BY Known, OthersReachable DEF OtherValues
\* Script is called: the job leaves the queue and runs.
<1>2. ASSUME CallScript, NEW type, Pop(type),
             UNCHANGED <<count, slots, adoptions, host, origin>>,
             held' \subseteq Allocated, visible' = visible
      PROVE  TypeInv'
  <2>1. Allocated' = Allocated /\ Reachable' = Reachable
    BY <1>2 DEF Allocated, Reachable
  <2>2. Head(jobs) \in J /\ Tail(jobs) \in Seq(J) /\ job = NoJob /\ host = NoCall
    BY <1>2, PopType
  <2>3. SlotsTyped(Allocated, Reachable)' /\ QueuesTyped(Allocated, Reachable)' /\ FreshUntouched'
    BY <1>2, <2>1, <2>2 DEF TypeInv, SlotsTyped, QueuesTyped, FreshUntouched, CallScript, slots
  <2>4. EngineTyped(Allocated, Reachable)' /\ ScriptTyped(Allocated)'
    BY <1>2, <2>1, <2>2 DEF TypeInv, EngineTyped, ScriptTyped, CallScript
  <2> QED
    BY <1>2, <2>3, <2>4 DEF TypeInv
<1>3. CASE TakeAdoptions
  <2>1. Allocated' = Allocated /\ Reachable' = Reachable
    BY <1>3 DEF TakeAdoptions, Allocated, Reachable
  <2>2. jobs \in Seq(J) /\ adoptions \in Seq(J)
    BY DEF TypeInv, QueuesTyped
  <2>3. jobs' \in Seq(J) /\ adoptions' \in Seq(J)
    BY <1>3, <2>2 DEF TakeAdoptions
  <2> QED
    BY <1>3, <2>1, <2>3 DEF TakeAdoptions, TypeInv, SlotsTyped, QueuesTyped, EngineTyped, ScriptTyped,
                            FreshUntouched, slots, engine, script, history
<1>4. CASE CallHandler
  <2>1. Pop("reaction") /\ CallScript /\ UNCHANGED <<count, slots, adoptions, host, script, origin>>
    BY <1>4 DEF CallHandler
  <2> QED
    BY <1>2, <2>1 DEF TypeInv, ScriptTyped, script
<1>5. CASE RunHostHandler
  <2> DEFINE j == Head(jobs)
  <2>1. /\ j \in J /\ j.type = "reaction" /\ Tail(jobs) \in Seq(J) /\ job = NoJob
        /\ CallHost(j.handler, j.payload, Tail(jobs)) /\ j.handler \notin Handlers
    BY <1>5, PopType DEF RunHostHandler
  <2>2. j.handler \in H /\ j.payload \in Reachable /\ j.capability[1] \in H
    BY <2>1, JobFields
  <2>3. CallIsTyped
    BY <1>5, <2>1, <2>2, CallHostTyped DEF RunHostHandler
  <2>4. Allocated' = Allocated /\ Reachable' = Reachable
    BY <1>5 DEF RunHostHandler, Allocated, Reachable
  <2>5. EngineTyped(Allocated, Reachable)' /\ ScriptTyped(Allocated)'
    BY <1>1, <1>5, <2>1, <2>2, <2>4 DEF RunHostHandler, SettlerOf, TypeInv, EngineTyped, ScriptTyped, script
  <2> QED
    BY <1>5, <2>3, <2>5 DEF TypeInv, CallIsTyped, RunHostHandler
<1>6. CASE PassThrough
  <2> DEFINE j == Head(jobs)
             f == SettlerOf(j, j.rejecting)
  <2>1. /\ j \in J /\ j.type = "reaction" /\ Tail(jobs) \in Seq(J)
        /\ CallHost(f, j.payload, Tail(jobs))
    BY <1>6, PopType DEF PassThrough
  <2>2. f \in H /\ j.payload \in Reachable
    BY <2>1, JobFields DEF SettlerOf
  <2>3. CallIsTyped
    BY <1>6, <2>1, <2>2, CallHostTyped DEF PassThrough
  <2> QED
    BY <1>6, <2>3, DrainTyped DEF PassThrough, Pop, script
<1>7. CASE HostCall
  <2>1. host.function \in H /\ host.argument \in Reachable /\ job = NoJob
    BY <1>7 DEF HostCall, TypeInv, EngineTyped
  <2>2. jobs \in Seq(J) /\ CallHost(host.function, host.argument, jobs)
    BY <1>7 DEF HostCall, TypeInv, QueuesTyped
  <2>3. CallIsTyped
    BY <1>7, <2>1, <2>2, CallHostTyped DEF HostCall, history
  <2>4. Allocated' = Allocated /\ Reachable' = Reachable
    BY <1>7 DEF HostCall, Allocated, Reachable
  <2>5. EngineTyped(Allocated, Reachable)' /\ ScriptTyped(Allocated)'
    BY <1>7, <2>1, <2>4 DEF HostCall, TypeInv, EngineTyped, ScriptTyped, script
  <2> QED
    BY <1>7, <2>3, <2>5 DEF TypeInv, CallIsTyped, HostCall, history
<1>8. CASE CallThen
  <2>1. /\ Pop("thenable") /\ CallScript /\ held' = held \cup {Head(jobs).promise}
        /\ UNCHANGED <<count, slots, adoptions, host, visible, origin>>
    BY <1>8 DEF CallThen, history
  <2>2. Head(jobs) \in J /\ Head(jobs).type = "thenable"
    BY <2>1, PopType
  <2>3. Head(jobs).promise \in Allocated
    BY <2>2, JobFields
  <2> QED
    BY <1>2, <2>1, <2>3 DEF TypeInv, ScriptTyped
<1>9. CASE ThenNotCallable
  <2> DEFINE j == Head(jobs)
  <2>1. /\ j \in J /\ j.type = "thenable" /\ Tail(jobs) \in Seq(J) /\ j.thenable \in Inert
        /\ SettleWithAdoption(j.promise, j.thenable, FALSE, FALSE, Tail(jobs))
    BY <1>9, PopType DEF ThenNotCallable
  <2>2. j.promise \in Allocated /\ j.thenable \in Reachable
    BY <2>1, JobFields, OthersReachable DEF OtherValues
  <2>3. CallIsTyped
    BY <1>9, <2>1, <2>2, SettlesTyped DEF ThenNotCallable, Settles, history
  <2> QED
    BY <1>9, <2>3, DrainTyped DEF ThenNotCallable, Pop, script, history
<1>10. ASSUME NEW e \in Plain, ThenThrows(e) PROVE TypeInv'
  <2> DEFINE j == Head(jobs)
  <2>1. /\ j \in J /\ j.type = "thenable" /\ Tail(jobs) \in Seq(J)
        /\ CapabilitySettle(j.promise, e, TRUE, Tail(jobs))
    BY <1>10, PopType DEF ThenThrows
  <2>2. j.promise \in Allocated /\ e \in Reachable
    BY <1>1, <2>1, JobFields
  <2>3. CallIsTyped
    BY <1>10, <2>1, <2>2, SettlesTyped DEF ThenThrows, Settles, history
  <2> QED
    BY <1>10, <2>3, DrainTyped DEF ThenThrows, Pop, script, history
<1>11. CASE CallFinally
  <2>1. Pop("finally") /\ CallScript /\ UNCHANGED <<count, slots, adoptions, host, script, origin>>
    BY <1>11 DEF CallFinally
  <2> QED
    BY <1>2, <2>1 DEF TypeInv, ScriptTyped, script
<1>12. CASE FinallyNotCallable
  <2> DEFINE j == Head(jobs)
  <2>1. /\ j \in J /\ j.type = "finally" /\ Tail(jobs) \in Seq(J)
        /\ CallHost(WatchedHalf(j), j.payload, Tail(jobs))
    BY <1>12, PopType DEF FinallyNotCallable
  <2>2. WatchedHalf(j) \in H /\ j.payload \in Reachable
    BY <1>1, <2>1, JobFields DEF WatchedHalf
  <2>3. CallIsTyped
    BY <1>12, <2>1, <2>2, CallHostTyped DEF FinallyNotCallable, history
  <2> QED
    BY <1>12, <2>3, DrainTyped DEF FinallyNotCallable, Pop, script, history
<1>13. CASE RunCall
  <2> DEFINE j == Head(jobs)
  <2>1. /\ j \in J /\ j.type = "call" /\ Tail(jobs) \in Seq(J)
        /\ CallHost(j.function, j.payload, Tail(jobs))
    BY <1>13, PopType DEF RunCall
  <2>2. j.function \in H /\ j.payload \in Reachable
    BY <2>1, JobFields
  <2>3. CallIsTyped
    BY <1>13, <2>1, <2>2, CallHostTyped DEF RunCall, history
  <2> QED
    BY <1>13, <2>3, DrainTyped DEF RunCall, Pop, script, history
<1>14. CASE RunMicrotask
  <2>1. Pop("microtask") /\ CallScript /\ UNCHANGED <<count, slots, adoptions, host, script, origin>>
    BY <1>14 DEF RunMicrotask, history
  <2> QED
    BY <1>2, <2>1 DEF TypeInv, ScriptTyped, script
<1> QED
  BY <1>3, <1>4, <1>5, <1>6, <1>7, <1>8, <1>9, <1>10, <1>11, <1>12, <1>13, <1>14 DEF Drain

\* The promise an operation allocates was untouched before.
LEMMA NewPromise ==
    ASSUME TypeInv, count < MaxPromises, count' = count + 1
    PROVE  /\ count' \in 0..MaxPromises
           /\ count + 1 \in Allocated' /\ count + 1 \in Promises \ Allocated
           /\ Promises \ Allocated' = (Promises \ Allocated) \ {count + 1}
           /\ state[count + 1] = "pending" /\ reactions[count + 1] = <<>>
<1>1. /\ count' \in 0..MaxPromises
      /\ count + 1 \in Allocated' /\ count + 1 \in Promises \ Allocated
      /\ Promises \ Allocated' = (Promises \ Allocated) \ {count + 1}
  BY BoundsAssumption DEF TypeInv, Allocated, Promises
<1> QED
  BY <1>1 DEF TypeInv, FreshUntouched

\* The engine's own state is left alone by what script does.
LEMMA OperationTyped ==
    ASSUME TypeInv, UNCHANGED engine, count' \in {count, count + 1}, count' \in 0..MaxPromises
    PROVE  EngineTyped(Allocated, Reachable)'
<1>1. EngineTyped(Allocated', Reachable')
  BY Grow
<1> QED
  BY <1>1 DEF EngineTyped, engine

\* A step of script.
LEMMA ScriptStep == TypeInv /\ Script => TypeInv'
<1> SUFFICES ASSUME TypeInv, Script PROVE TypeInv'
  OBVIOUS
<1> DEFINE A == Allocated'
           R == Reachable'
           d == count + 1
\* What an operation that allocates one promise leaves in place.
<1>1. ASSUME Allocate, UNCHANGED engine
      PROVE  /\ count' \in 0..MaxPromises /\ d \in A /\ d \in Promises \ Allocated
             /\ Promises \ Allocated' = (Promises \ Allocated) \ {d}
             /\ A \subseteq Promises /\ Allocated \subseteq A /\ Reachable \subseteq R
             /\ OtherValues \subseteq R /\ ScriptValues \subseteq R
             /\ state[d] = "pending" /\ reactions[d] = <<>>
             /\ SlotsTyped(A, R) /\ QueuesTyped(A, R) /\ ScriptTyped(A)
             /\ EngineTyped(Allocated, Reachable)'
             /\ visible' \subseteq A
  <2>1. count < MaxPromises /\ count' = d /\ visible' = visible \cup {d}
    BY <1>1 DEF Allocate
  <2>2. /\ count' \in 0..MaxPromises /\ d \in A /\ d \in Promises \ Allocated
        /\ Promises \ Allocated' = (Promises \ Allocated) \ {d}
        /\ state[d] = "pending" /\ reactions[d] = <<>>
    BY <2>1, NewPromise
  <2>3. /\ Allocated \subseteq A /\ A \subseteq Promises /\ Reachable \subseteq R
        /\ SlotsTyped(A, R) /\ QueuesTyped(A, R) /\ ScriptTyped(A)
    BY <2>1, <2>2, Grow
  <2>4. ScriptValues \subseteq R /\ OtherValues \subseteq R
    BY <2>3, Known, OthersReachable
  <2>5. EngineTyped(Allocated, Reachable)'
    BY <1>1, <2>1, <2>2, OperationTyped
  <2>6. visible' \subseteq A
    BY <2>1, <2>2, <2>3 DEF ScriptTyped
  <2> QED
    BY <2>2, <2>3, <2>4, <2>5, <2>6
<1>2. CASE Construct
  <2>1. /\ Allocate /\ UNCHANGED engine /\ held' = held \cup {d}
        /\ UNCHANGED <<state, result, reactions, jobs, adoptions, origin>>
    BY <1>2 DEF Construct, Operation, slots, queues
  <2>2. SlotsTyped(Allocated, Reachable)' /\ QueuesTyped(Allocated, Reachable)'
    BY <1>1, <2>1 DEF SlotsTyped, QueuesTyped
  <2>3. ScriptTyped(Allocated)' /\ FreshUntouched'
    BY <1>1, <2>1 DEF ScriptTyped, FreshUntouched, TypeInv
  <2> QED
    BY <1>1, <2>1, <2>2, <2>3 DEF TypeInv
<1>3. ASSUME NEW p \in Promises, NEW v \in Values, NEW r \in BOOLEAN, CallResolving(p, v, r)
      PROVE  TypeInv'
  <2>1. /\ UNCHANGED <<engine, count, adoptions, held, visible, origin>>
        /\ p \in Allocated /\ v \in Reachable
        /\ CapabilitySettle(p, v, r, jobs)
    BY <1>3, Known DEF CallResolving, Operation, TypeInv, ScriptTyped
  <2>2. Settles(p, v, jobs)
    <3>1. CASE r = TRUE
      BY <2>1, <3>1 DEF Settles
    <3>2. CASE r = FALSE
      BY <2>1, <3>2 DEF Settles
    <3> QED
      BY <3>1, <3>2
  <2>3. CallIsTyped
    BY <2>1, <2>2, SettlesTyped DEF TypeInv, QueuesTyped
  <2>4. EngineTyped(Allocated, Reachable)'
    BY <2>1, OperationTyped DEF TypeInv
  <2>5. ScriptTyped(Allocated)'
    BY <2>1 DEF TypeInv, ScriptTyped, Allocated
  <2> QED
    BY <2>1, <2>3, <2>4, <2>5 DEF TypeInv, CallIsTyped
<1>4. ASSUME NEW p \in Promises, NEW f \in Handlers, NEW g \in Handlers, Then(p, f, g)
      PROVE  TypeInv'
  <2>1. /\ Allocate /\ UNCHANGED <<engine, adoptions, held>> /\ p \in Allocated
        /\ InstallThenRecord(p, f, g, d)
        /\ DOMAIN origin' = DOMAIN origin
        /\ \A x \in Promises \ {d} : origin'[x] = origin[x]
    BY <1>4 DEF Then, Operation, TypeInv, ScriptTyped
  <2>2. ThenRecord(f, g, d) \in RecordsOf(A, R)
    BY <1>1, <2>1 DEF RecordsOf
  <2>3. CASE state[p] = "pending"
    <3>1. /\ reactions' = [reactions EXCEPT ![p] = Append(@, ThenRecord(f, g, d))]
          /\ UNCHANGED <<state, result, jobs>>
      BY <2>1, <2>3 DEF InstallThenRecord
    <3>2. Append(reactions[p], ThenRecord(f, g, d)) \in Seq(RecordsOf(A, R))
      BY <1>1, <2>1, <2>2 DEF SlotsTyped
    <3>3. SlotsTyped(Allocated, Reachable)' /\ QueuesTyped(Allocated, Reachable)'
      BY <1>1, <2>1, <3>1, <3>2 DEF SlotsTyped, QueuesTyped
    <3>4. ScriptTyped(Allocated)' /\ FreshUntouched'
      BY <1>1, <2>1, <3>1 DEF ScriptTyped, FreshUntouched, TypeInv
    <3> QED
      BY <1>1, <2>1, <3>3, <3>4 DEF TypeInv
  <2>4. CASE state[p] # "pending"
    <3>1. /\ jobs' = Append(jobs, JobOfRecord(ThenRecord(f, g, d), state[p], result[p]))
          /\ UNCHANGED <<state, result, reactions>>
      BY <2>1, <2>4 DEF InstallThenRecord, slots
    <3>2. state[p] \in Settlements /\ result[p] \in R
      BY <1>1, <2>1, <2>4 DEF SlotsTyped, Settlements
    <3>3. JobOfRecord(ThenRecord(f, g, d), state[p], result[p]) \in JobsOf(A, R)
      BY <2>2, <3>2, JobOfRecordType
    <3>4. SlotsTyped(Allocated, Reachable)' /\ QueuesTyped(Allocated, Reachable)'
      BY <1>1, <2>1, <3>1, <3>3 DEF SlotsTyped, QueuesTyped
    <3>5. ScriptTyped(Allocated)' /\ FreshUntouched'
      BY <1>1, <2>1, <3>1 DEF ScriptTyped, FreshUntouched, TypeInv
    <3> QED
      BY <1>1, <2>1, <3>4, <3>5 DEF TypeInv
  <2> QED
    BY <2>3, <2>4
<1>5. ASSUME NEW p \in Promises, NEW cb \in Handlers, Finally(p, cb)
      PROVE  TypeInv'
  <2>1. /\ Allocate /\ UNCHANGED <<engine, adoptions, held>> /\ p \in Allocated
        /\ WatchFinally(p, cb, d)
        /\ DOMAIN origin' = DOMAIN origin
        /\ \A x \in Promises \ {d} : origin'[x] = origin[x]
    BY <1>5 DEF Finally, Operation, TypeInv, ScriptTyped
  <2>2. WatchRecord(Watcher("fulfilled", d, cb), Watcher("rejected", d, cb)) \in RecordsOf(A, R)
    BY <1>1, <2>1 DEF RecordsOf, ClosuresOf, Watcher, Settlements, States
  <2>3. CASE state[p] = "pending"
    <3>1. /\ reactions' = [reactions EXCEPT ![p] =
                Append(@, WatchRecord(Watcher("fulfilled", d, cb), Watcher("rejected", d, cb)))]
          /\ UNCHANGED <<state, result, jobs>>
      BY <2>1, <2>3 DEF WatchFinally
    <3>2. Append(reactions[p], WatchRecord(Watcher("fulfilled", d, cb), Watcher("rejected", d, cb)))
             \in Seq(RecordsOf(A, R))
      BY <1>1, <2>1, <2>2 DEF SlotsTyped
    <3>3. SlotsTyped(Allocated, Reachable)' /\ QueuesTyped(Allocated, Reachable)'
      BY <1>1, <2>1, <3>1, <3>2 DEF SlotsTyped, QueuesTyped
    <3>4. ScriptTyped(Allocated)' /\ FreshUntouched'
      BY <1>1, <2>1, <3>1 DEF ScriptTyped, FreshUntouched, TypeInv
    <3> QED
      BY <1>1, <2>1, <3>3, <3>4 DEF TypeInv
  <2>4. CASE state[p] # "pending"
    <3>1. /\ jobs' = Append(jobs, FinallyJob(d, cb, state[p], result[p]))
          /\ UNCHANGED <<state, result, reactions>>
      BY <2>1, <2>4 DEF WatchFinally, slots
    <3>2. state[p] \in Settlements /\ result[p] \in R
      BY <1>1, <2>1, <2>4 DEF SlotsTyped, Settlements
    <3>3. FinallyJob(d, cb, state[p], result[p]) \in JobsOf(A, R)
      BY <1>1, <2>1, <3>2 DEF FinallyJob, JobsOf
    <3>4. SlotsTyped(Allocated, Reachable)' /\ QueuesTyped(Allocated, Reachable)'
      BY <1>1, <2>1, <3>1, <3>3 DEF SlotsTyped, QueuesTyped
    <3>5. ScriptTyped(Allocated)' /\ FreshUntouched'
      BY <1>1, <2>1, <3>1 DEF ScriptTyped, FreshUntouched, TypeInv
    <3> QED
      BY <1>1, <2>1, <3>4, <3>5 DEF TypeInv
  <2> QED
    BY <2>3, <2>4
<1>6. ASSUME NEW v \in OtherValues, PromiseResolve(v) PROVE TypeInv'
  <2>1. /\ Allocate /\ UNCHANGED <<engine, reactions, jobs, held, origin>>
        /\ \/ /\ v \in Thenables \cup Poisoned /\ adoptions' = Append(adoptions, ThenableJob(d, v))
              /\ UNCHANGED <<state, result>>
           \/ /\ state' = [state EXCEPT ![d] = "fulfilled"]
              /\ result' = [result EXCEPT ![d] = v]
              /\ UNCHANGED adoptions
    BY <1>6 DEF PromiseResolve, Operation
  <2>2. v \in R
    BY <1>1, <2>1
  <2>3. v \in Thenables \cup Poisoned => ThenableJob(d, v) \in JobsOf(A, R)
    BY <1>1, <2>1 DEF ThenableJob, JobsOf
  <2>4. SlotsTyped(Allocated, Reachable)' /\ QueuesTyped(Allocated, Reachable)'
    <3>1. state' \in [Promises -> States] /\ result' \in [Promises -> R]
      BY <1>1, <2>1, <2>2, ZenonT(40) DEF SlotsTyped, States
    <3>2. adoptions' \in Seq(JobsOf(A, R))
      BY <1>1, <2>1, <2>3 DEF QueuesTyped
    <3> QED
      BY <1>1, <2>1, <3>1, <3>2 DEF SlotsTyped, QueuesTyped
  <2>5. ScriptTyped(Allocated)' /\ FreshUntouched'
    BY <1>1, <2>1 DEF ScriptTyped, FreshUntouched, TypeInv, SlotsTyped
  <2> QED
    BY <1>1, <2>1, <2>4, <2>5 DEF TypeInv
<1>7. ASSUME NEW v \in Values, PromiseReject(v) PROVE TypeInv'
  <2>1. /\ Allocate /\ UNCHANGED <<engine, reactions, jobs, adoptions, held, origin>>
        /\ v \in ScriptValues
        /\ state' = [state EXCEPT ![d] = "rejected"]
        /\ result' = [result EXCEPT ![d] = v]
    BY <1>7 DEF PromiseReject, Operation, queues
  <2>2. SlotsTyped(Allocated, Reachable)' /\ QueuesTyped(Allocated, Reachable)'
    BY <1>1, <2>1 DEF SlotsTyped, QueuesTyped, States
  <2>3. ScriptTyped(Allocated)' /\ FreshUntouched'
    BY <1>1, <2>1 DEF ScriptTyped, FreshUntouched, TypeInv, SlotsTyped
  <2> QED
    BY <1>1, <2>1, <2>2, <2>3 DEF TypeInv
<1>8. CASE QueueMicrotask
  <2>1. /\ UNCHANGED <<engine, count, state, result, reactions, adoptions, held, visible, origin>>
        /\ jobs' = Append(jobs, MicrotaskJob)
    BY <1>8 DEF QueueMicrotask, Operation, slots
  <2>2. Allocated' = Allocated /\ Reachable' = Reachable
    BY <2>1 DEF Allocated, Reachable
  <2>3. MicrotaskJob \in JobsOf(Allocated, Reachable)
    BY DEF JobsOf
  <2>4. QueuesTyped(Allocated, Reachable)'
    BY <2>1, <2>2, <2>3 DEF TypeInv, QueuesTyped
  <2>5. EngineTyped(Allocated, Reachable)'
    BY <2>1, OperationTyped DEF TypeInv
  <2> QED
    BY <2>1, <2>2, <2>4, <2>5 DEF TypeInv, SlotsTyped, ScriptTyped, FreshUntouched
<1>9. CASE NextScript
  <2>1. /\ UNCHANGED <<count, state, result, reactions, jobs, adoptions, job, host, held, visible, origin>>
        /\ control = "drain" /\ control' = "script"
    BY <1>9 DEF NextScript, slots, queues, script, history
  <2>2. Allocated' = Allocated /\ Reachable' = Reachable
    BY <2>1 DEF Allocated, Reachable
  <2> QED
    BY <2>1, <2>2 DEF TypeInv, SlotsTyped, QueuesTyped, EngineTyped, ScriptTyped, FreshUntouched
<1> QED
  BY <1>2, <1>3, <1>4, <1>5, <1>6, <1>7, <1>8, <1>9 DEF Script

\* A step in which script gives control back.
LEMMA ReturnStep == TypeInv /\ ScriptReturns => TypeInv'
<1> SUFFICES ASSUME TypeInv, ScriptReturns PROVE TypeInv'
  OBVIOUS
<1> DEFINE J == JobsOf(Allocated, Reachable)
           H == HostFunctionsOf(Allocated, Reachable)
<1>1. /\ Undefined \in Reachable /\ ScriptValues \subseteq Reachable
      /\ Allocated \subseteq Promises
      /\ \A p \in Allocated : ResolveOf(p) \in H /\ RejectOf(p) \in H
  BY Known
\* The job in the callback ends, and settles something.
<1>2. ASSUME NEW type, Finish(type)
      PROVE  job \in J /\ job.type = type /\ host = NoCall
  BY <1>2 DEF Finish, TypeInv, EngineTyped
<1>3. ASSUME NEW type, Finish(type), CallIsTyped, control' = "drain", UNCHANGED <<count, host>>
      PROVE  TypeInv'
  <2>1. Allocated' = Allocated /\ Reachable' = Reachable
    BY <1>3 DEF Allocated, Reachable
  <2>2. EngineTyped(Allocated, Reachable)' /\ ScriptTyped(Allocated)'
    BY <1>2, <1>3, <2>1 DEF Finish, TypeInv, EngineTyped, ScriptTyped, script
  <2> QED
    BY <1>3, <2>2 DEF TypeInv, CallIsTyped, Finish, history
<1>4. ASSUME NEW type, Finish(type), NEW f \in H, NEW v \in Reachable,
             CallHost(f, v, jobs), control' = "drain", UNCHANGED <<count, host>>
      PROVE  TypeInv'
  <2>1. CallIsTyped
    BY <1>4, CallHostTyped DEF Finish, history, TypeInv, QueuesTyped
  <2> QED
    BY <1>3, <1>4, <2>1
\* The steps that leave slots and queues alone.
<1>5. ASSUME UNCHANGED <<count, slots, queues, origin>> PROVE CallIsTyped
  BY <1>5 DEF CallIsTyped, TypeInv, SlotsTyped, QueuesTyped, FreshUntouched, Allocated, Reachable,
              slots, queues
<1>6. CASE EndScript
  <2>1. CallIsTyped /\ control' = "drain" /\ control = "script"
        /\ UNCHANGED <<count, job, host, held, visible, origin>>
    BY <1>5, <1>6 DEF EndScript, script, history
  <2>2. EngineTyped(Allocated, Reachable)' /\ ScriptTyped(Allocated)'
    BY <2>1 DEF TypeInv, EngineTyped, ScriptTyped, Allocated, Reachable
  <2> QED
    BY <2>1, <2>2 DEF TypeInv, CallIsTyped
<1>7. CASE MicrotaskDone
  <2>1. CallIsTyped /\ Finish("microtask") /\ control' = "drain" /\ UNCHANGED <<count, host>>
    BY <1>5, <1>7 DEF MicrotaskDone, Finish, history, queues
  <2> QED
    BY <1>3, <2>1
<1>8. ASSUME NEW v \in ScriptValues, NEW threw \in BOOLEAN, HandlerDone(v, threw) PROVE TypeInv'
  <2>1. /\ Finish("reaction") /\ CallHost(SettlerOf(job, threw), v, jobs)
        /\ control' = "drain" /\ UNCHANGED <<count, host>>
    BY <1>8 DEF HandlerDone
  <2>2. job \in J /\ job.type = "reaction"
    BY <1>2, <2>1
  <2>3. SettlerOf(job, threw) \in H /\ v \in Reachable
    BY <1>1, <2>2, JobFields DEF SettlerOf
  <2> QED
    BY <1>4, <2>1, <2>3
<1>9. ASSUME NEW v \in ScriptValues, NEW threw \in BOOLEAN, ThenDone(v, threw) PROVE TypeInv'
  <2>1. /\ Finish("thenable") /\ control' = "drain" /\ UNCHANGED <<count, host>>
        /\ \/ CapabilitySettle(job.promise, v, TRUE, jobs)
           \/ UNCHANGED <<slots, jobs>>
    BY <1>9 DEF ThenDone
  <2>2. job \in J /\ job.type = "thenable"
    BY <1>2, <2>1
  <2>3. job.promise \in Allocated /\ v \in Reachable
    BY <1>1, <2>2, JobFields
  <2>4. CASE CapabilitySettle(job.promise, v, TRUE, jobs)
    <3>1. Settles(job.promise, v, jobs)
      BY <2>4 DEF Settles
    <3>2. CallIsTyped
      BY <2>1, <2>3, <3>1, SettlesTyped DEF Finish, history, TypeInv, QueuesTyped
    <3> QED
      BY <1>3, <2>1, <3>2
  <2>5. CASE UNCHANGED <<slots, jobs>>
    <3>1. CallIsTyped
      BY <1>5, <2>1, <2>5 DEF Finish, history, queues
    <3> QED
      BY <1>3, <2>1, <3>1
  <2> QED
    BY <2>1, <2>4, <2>5
<1>10. ASSUME NEW v \in ScriptValues, FinallyThrows(v) PROVE TypeInv'
  <2>1. /\ Finish("finally") /\ CallHost(RejectOf(job.derived), v, jobs)
        /\ control' = "drain" /\ UNCHANGED <<count, host>>
    BY <1>10 DEF FinallyThrows
  <2>2. job \in J /\ job.type = "finally"
    BY <1>2, <2>1
  <2>3. RejectOf(job.derived) \in H /\ v \in Reachable
    BY <1>1, <2>2, JobFields
  <2> QED
    BY <1>4, <2>1, <2>3
<1>11. ASSUME NEW v \in ScriptValues, FinallyReturns(v) PROVE TypeInv'
  <2>1. /\ Finish("finally") /\ CallHost(WatchedHalf(job), job.payload, jobs)
        /\ control' = "drain" /\ UNCHANGED <<count, host>>
    BY <1>11 DEF FinallyReturns
  <2>2. job \in J /\ job.type = "finally"
    BY <1>2, <2>1
  <2>3. WatchedHalf(job) \in H /\ job.payload \in Reachable
    BY <1>1, <2>2, JobFields DEF WatchedHalf
  <2> QED
    BY <1>4, <2>1, <2>3
<1>12. ASSUME NEW v \in ScriptValues, AdoptFinallyResult(v) PROVE TypeInv'
  <2> DEFINE A == Allocated'
             R == Reachable'
             d == count + 1
             r == WatchRecord(ForwardOk(job.derived, job.payload), ForwardErr(job.derived))
  <2>1. /\ Finish("finally") /\ count < MaxPromises /\ count' = d
        /\ reactions' = [reactions EXCEPT ![d] = <<r>>]
        /\ control' = "host" /\ host' = [function |-> ResolveOf(d), argument |-> v]
        /\ UNCHANGED <<state, result, jobs, adoptions, held, visible, origin>> /\ job' = NoJob
    BY <1>12 DEF AdoptFinallyResult, Finish, script, history
  <2>2. /\ count' \in 0..MaxPromises /\ d \in A /\ d \in Promises \ Allocated
        /\ Promises \ Allocated' = (Promises \ Allocated) \ {d}
        /\ state[d] = "pending" /\ reactions[d] = <<>>
    BY <2>1, NewPromise
  <2>3. /\ Allocated \subseteq A /\ A \subseteq Promises /\ Reachable \subseteq R
        /\ SlotsTyped(A, R) /\ QueuesTyped(A, R) /\ ScriptTyped(A)
    BY <2>1, <2>2, Grow
  <2>4. job \in J /\ job.type = "finally"
    BY <1>2, <2>1
  <2>5. job.derived \in A /\ job.payload \in R /\ v \in R
    BY <1>1, <2>3, <2>4, JobFields
  <2>6. r \in RecordsOf(A, R)
    BY <2>5 DEF RecordsOf, ClosuresOf, ForwardOk, ForwardErr
  <2>7. <<r>> \in Seq(RecordsOf(A, R))
    BY <2>6
  <2>8. SlotsTyped(Allocated, Reachable)' /\ QueuesTyped(Allocated, Reachable)'
    BY <2>1, <2>3, <2>7 DEF SlotsTyped, QueuesTyped
  <2>9. ResolveOf(d) \in HostFunctionsOf(A, R)
    BY <2>2 DEF HostFunctionsOf
  <2>10. EngineTyped(Allocated, Reachable)' /\ ScriptTyped(Allocated)'
    BY <2>1, <2>3, <2>5, <2>9 DEF EngineTyped, ScriptTyped
  <2>11. FreshUntouched'
    BY <2>1, <2>2 DEF FreshUntouched, TypeInv, SlotsTyped
  <2> QED
    BY <2>1, <2>2, <2>8, <2>10, <2>11 DEF TypeInv
<1> QED
  BY <1>6, <1>7, <1>8, <1>9, <1>10, <1>11, <1>12 DEF ScriptReturns

\* The functions and jobs of TypeInv are the ones TypeOK names.
LEMMA TypeInvIsTypeOK == TypeInv => TypeOK
<1> SUFFICES ASSUME TypeInv PROVE TypeOK
  OBVIOUS
<1> DEFINE H == HostFunctionsOf(Allocated, Reachable)
<1>1. Allocated \subseteq Promises /\ Reachable \subseteq Values
  BY Known DEF Reachable, Values
<1>2. \A f \in H : f \in Functions \ Handlers
  <2> SUFFICES ASSUME NEW f \in H PROVE f \in Functions \ Handlers
    OBVIOUS
  <2>1. f \notin Handlers
    BY HostNotHandler
  <2>2. f \in Functions
    BY <1>1 DEF HostFunctionsOf, ClosuresOf, Functions, Watchers, Forwarders, Settlements
  <2> QED
    BY <2>1, <2>2
<1>3. \A r \in RecordsOf(Allocated, Reachable) : IsRecord(r)
  <2>1. ClosuresOf(Allocated, Reachable) \subseteq Watchers \cup Forwarders
    BY <1>1 DEF ClosuresOf, Watchers, Forwarders, Settlements
  <2> QED
    BY <1>1, <2>1 DEF RecordsOf, IsRecord
<1>4. \A j \in JobsOf(Allocated, Reachable) : IsJob(j)
  <2> SUFFICES ASSUME NEW j \in JobsOf(Allocated, Reachable) PROVE IsJob(j)
    OBVIOUS
  <2> HIDE DEF H
  <2>1. CASE j.type = "reaction"
    BY <1>1, <1>2, <2>1, JobFields DEF IsJob, Functions, H
  <2>2. CASE j.type # "reaction"
    BY <1>1, <1>2, <2>2, JobFields DEF IsJob, HasThen, Settlements, H
  <2> QED
    BY <2>1, <2>2
<1>5. /\ count \in 0..MaxPromises /\ held \subseteq Allocated /\ visible \subseteq Allocated
      /\ state \in [Promises -> States] /\ result \in [Promises -> Values]
      /\ DOMAIN reactions = Promises
  BY <1>1 DEF TypeInv, SlotsTyped, ScriptTyped
<1>6. \A p \in Promises : \A i \in DOMAIN reactions[p] : IsRecord(reactions[p][i])
  <2> SUFFICES ASSUME NEW p \in Promises, NEW i \in DOMAIN reactions[p]
               PROVE  IsRecord(reactions[p][i])
    OBVIOUS
  <2>1. reactions[p] \in Seq(RecordsOf(Allocated, Reachable))
    BY DEF TypeInv, SlotsTyped
  <2> QED
    BY <1>3, <2>1
<1>7. (\A i \in DOMAIN jobs : IsJob(jobs[i])) /\ (\A i \in DOMAIN adoptions : IsJob(adoptions[i]))
  <2>1. jobs \in Seq(JobsOf(Allocated, Reachable)) /\ adoptions \in Seq(JobsOf(Allocated, Reachable))
    BY DEF TypeInv, QueuesTyped
  <2> QED
    BY <1>4, <2>1
<1>8. NoJob \notin JobsOf(Allocated, Reachable) /\ NoCall.function \notin Functions \ Handlers
  BY JobFields DEF NoJob, NoCall, Handlers
<1>9. /\ control \in {"script", "callback", "host", "drain"}
      /\ (control = "callback") <=> (job # NoJob)
      /\ (control = "host") <=> (host.function \in Functions \ Handlers)
  BY <1>2, <1>8 DEF TypeInv, EngineTyped
<1> QED
  BY <1>5, <1>6, <1>7, <1>9 DEF TypeOK

LEMMA TypeInit == Init => TypeInv
<1> SUFFICES ASSUME Init PROVE TypeInv
  OBVIOUS
<1>1. count = 0 /\ Allocated = {} /\ count \in 0..MaxPromises
  BY BoundsAssumption DEF Init, Allocated
<1>2. SlotsTyped(Allocated, Reachable)
  BY DEF Init, SlotsTyped, States, Reachable, OtherValues
<1>3. QueuesTyped(Allocated, Reachable) /\ EngineTyped(Allocated, Reachable) /\ ScriptTyped(Allocated)
  BY DEF Init, QueuesTyped, EngineTyped, ScriptTyped
<1>4. FreshUntouched /\ DOMAIN origin = Promises
  BY DEF Init, FreshUntouched
<1> QED
  BY <1>1, <1>2, <1>3, <1>4 DEF TypeInv

LEMMA TypeStep == TypeInv /\ [Next]_vars => TypeInv'
<1>1. ASSUME TypeInv, UNCHANGED vars PROVE TypeInv'
  BY <1>1 DEF TypeInv, vars, slots, queues, engine, script, history, SlotsTyped, QueuesTyped,
              EngineTyped, ScriptTyped, FreshUntouched, Allocated, Reachable
<1> QED
  BY <1>1, ScriptStep, ReturnStep, DrainStep DEF Next

\* Everything the engine keeps refers to promises that exist: a slot, a record
\* or a job never names a promise that create_promise has yet to allocate.
THEOREM NothingUnallocated == Spec => []TypeInv
BY TypeInit, TypeStep, PTL DEF Spec

\* Every slot, queue and record holds what promise.rs puts there.
THEOREM TypeCorrect == Spec => []TypeOK
BY NothingUnallocated, TypeInvIsTypeOK, PTL

-----------------------------------------------------------------------------
(* What a step does to the slots.                                          *)

\* What a promise settles with: an error, a value that needs no adoption, or
\* the outcome of a promise that has settled.
Outcome(st, w) ==
    \/ st = "rejected"
    \/ w \notin Promises \cup Thenables \cup Poisoned
    \/ \E s \in Promises : Settled(s) /\ st = state[s] /\ w = result[s]

\* A pending promise settles and lets its reactions go; a record is parked on a
\* pending promise; or the slots stay.
SlotChange ==
    \/ UNCHANGED slots
    \/ \E p \in Promises, st \in Settlements : \E w :
          /\ ~Settled(p) /\ Outcome(st, w)
          /\ state' = [state EXCEPT ![p] = st]
          /\ result' = [result EXCEPT ![p] = w]
          /\ reactions' = [reactions EXCEPT ![p] = <<>>]
    \/ \E p \in Promises : \E r :
          /\ ~Settled(p)
          /\ reactions' = [reactions EXCEPT ![p] = Append(@, r)]
          /\ UNCHANGED <<state, result>>

LEMMA SettlesChange ==
    ASSUME TypeInv, NEW p \in Allocated, NEW v, NEW q, Settles(p, v, q)
    PROVE  SlotChange
<1>1. p \in Promises /\ state \in [Promises -> States]
  BY Known DEF TypeInv, SlotsTyped
<1>2. CASE UNCHANGED slots
  BY <1>2 DEF SlotChange
<1>3. CASE /\ ~Settled(p)
           /\ \E st \in Settlements : \E w :
                 /\ SettleTo(p, st, w, q)
                 /\ \/ st = "rejected" /\ w \in {v, TypeErrorValue}
                    \/ v \in Promises /\ st = state[v] /\ w = result[v]
                    \/ w = v /\ v \notin Promises \cup Thenables \cup Poisoned
  <2>1. PICK st, w :
                 /\ st \in Settlements
                 /\ SettleTo(p, st, w, q)
                 /\ \/ st = "rejected" /\ w \in {v, TypeErrorValue}
                    \/ v \in Promises /\ st = state[v] /\ w = result[v]
                    \/ w = v /\ v \notin Promises \cup Thenables \cup Poisoned
    BY <1>3
  <2>2. Outcome(st, w)
    BY <2>1 DEF Outcome, Settled, Settlements
  <2>3. /\ state' = [state EXCEPT ![p] = st] /\ result' = [result EXCEPT ![p] = w]
        /\ reactions' = [reactions EXCEPT ![p] = <<>>]
    BY <2>1 DEF SettleTo
  <2> QED
    BY <1>1, <1>3, <2>1, <2>2, <2>3 DEF SlotChange
<1>4. CASE v \in Promises /\ ~Settled(v) /\ AttachAdoption(p, v, q)
  BY <1>4 DEF SlotChange, AttachAdoption
<1> QED
  BY <1>1, <1>2, <1>3, <1>4, SettleCases

LEMMA CallHostChange ==
    ASSUME TypeInv, NEW f \in HostFunctionsOf(Allocated, Reachable), NEW v, NEW q,
           CallHost(f, v, q)
    PROVE  SlotChange
<1>1. CASE f.fn = "resolve"
  <2>1. f.promise \in Allocated
    BY <1>1, HostNotHandler
  <2>2. Settles(f.promise, v, q)
    BY <1>1 DEF CallHost, Settles, CapabilitySettle, SettleWithAdoption, SettleTo, AdoptPromise,
                 AttachAdoption
  <2> QED
    BY <2>1, <2>2, SettlesChange
<1>2. CASE f.fn = "reject"
  <2>1. f.promise \in Allocated
    BY <1>2, HostNotHandler
  <2>2. Settles(f.promise, v, q)
    BY <1>2 DEF CallHost, Settles, CapabilitySettle, SettleWithAdoption, SettleTo, AdoptPromise,
                 AttachAdoption
  <2> QED
    BY <2>1, <2>2, SettlesChange
<1>3. CASE f.fn \in {"watch", "forward", "forwardError"}
  <2>1. UNCHANGED slots
    BY <1>3 DEF CallHost, CapabilitySettle, SettleWithAdoption, SettleTo, AdoptPromise, AttachAdoption
  <2> QED
    BY <2>1 DEF SlotChange
<1>4. f.fn \in {"resolve", "reject", "watch", "forward", "forwardError"}
  BY HostNotHandler
<1> QED
  BY <1>1, <1>2, <1>3, <1>4

LEMMA SlotStep == TypeInv /\ [Next]_vars => SlotChange
<1> SUFFICES ASSUME TypeInv, [Next]_vars PROVE SlotChange
  OBVIOUS
<1> DEFINE J == JobsOf(Allocated, Reachable)
           H == HostFunctionsOf(Allocated, Reachable)
<1>1. /\ Allocated \subseteq Promises
      /\ \A p \in Allocated : ResolveOf(p) \in H /\ RejectOf(p) \in H
  BY Known
<1>2. ASSUME NEW type, Pop(type) PROVE Head(jobs) \in J /\ Head(jobs).type = type
  BY <1>2, PopType
<1>3. ASSUME NEW type, Finish(type) PROVE job \in J /\ job.type = type
  BY <1>3 DEF Finish, TypeInv, EngineTyped
<1>4. CASE UNCHANGED slots
  BY <1>4 DEF SlotChange
\* The slots of a promise that is being allocated.
<1>5. ASSUME count < MaxPromises, count' = count + 1
      PROVE  /\ count + 1 \in Promises /\ ~Settled(count + 1)
             /\ reactions[count + 1] = <<>> /\ DOMAIN reactions = Promises
             /\ reactions = [reactions EXCEPT ![count + 1] = <<>>]
  BY <1>5, NewPromise DEF Settled, TypeInv, SlotsTyped
\* Script.
<1>6. ASSUME NEW p \in Promises, NEW v \in Values, NEW r \in BOOLEAN, CallResolving(p, v, r)
      PROVE  SlotChange
  <2>1. p \in Allocated /\ CapabilitySettle(p, v, r, jobs)
    BY <1>6 DEF CallResolving, TypeInv, ScriptTyped
  <2>2. Settles(p, v, jobs)
    <3>1. CASE r = TRUE
      BY <2>1, <3>1 DEF Settles
    <3>2. CASE r = FALSE
      BY <2>1, <3>2 DEF Settles
    <3> QED
      BY <3>1, <3>2
  <2> QED
    BY <2>1, <2>2, SettlesChange
<1>7. ASSUME NEW p \in Promises, NEW f \in Handlers, NEW g \in Handlers, Then(p, f, g)
      PROVE  SlotChange
  BY <1>7 DEF Then, InstallThenRecord, SlotChange, Settled
<1>8. ASSUME NEW p \in Promises, NEW cb \in Handlers, Finally(p, cb)
      PROVE  SlotChange
  BY <1>8 DEF Finally, WatchFinally, SlotChange, Settled
<1>9. ASSUME NEW v \in OtherValues, PromiseResolve(v) PROVE SlotChange
  <2>1. CASE v \in Thenables \cup Poisoned
    BY <1>4, <1>9, <2>1 DEF PromiseResolve, slots
  <2>2. CASE v \notin Thenables \cup Poisoned
    <3>1. /\ count < MaxPromises /\ count' = count + 1 /\ reactions' = reactions
          /\ state' = [state EXCEPT ![count + 1] = "fulfilled"]
          /\ result' = [result EXCEPT ![count + 1] = v]
      BY <1>9, <2>2 DEF PromiseResolve, Allocate
    <3>2. "fulfilled" \in Settlements /\ Outcome("fulfilled", v)
      BY <2>2, ValuesAssumption DEF Settlements, States, Outcome
    <3> QED
      BY <1>5, <3>1, <3>2 DEF SlotChange
  <2> QED
    BY <2>1, <2>2
<1>10. ASSUME NEW v \in Values, PromiseReject(v) PROVE SlotChange
  <2>1. /\ count < MaxPromises /\ count' = count + 1 /\ reactions' = reactions
        /\ state' = [state EXCEPT ![count + 1] = "rejected"]
        /\ result' = [result EXCEPT ![count + 1] = v]
    BY <1>10 DEF PromiseReject, Allocate
  <2>2. "rejected" \in Settlements /\ Outcome("rejected", v)
    BY DEF Settlements, States, Outcome
  <2> QED
    BY <1>5, <2>1, <2>2 DEF SlotChange
\* The callbacks.
<1>11. ASSUME NEW v, NEW threw \in BOOLEAN, HandlerDone(v, threw) PROVE SlotChange
  <2>1. Finish("reaction") /\ CallHost(SettlerOf(job, threw), v, jobs)
    BY <1>11 DEF HandlerDone
  <2>2. SettlerOf(job, threw) \in H
    BY <1>3, <2>1, JobFields DEF SettlerOf
  <2> QED
    BY <2>1, <2>2, CallHostChange
<1>12. ASSUME NEW v, NEW threw \in BOOLEAN, ThenDone(v, threw) PROVE SlotChange
  <2>1. Finish("thenable") /\ (UNCHANGED slots \/ CapabilitySettle(job.promise, v, TRUE, jobs))
    BY <1>12 DEF ThenDone
  <2>2. job.promise \in Allocated
    BY <1>3, <2>1, JobFields
  <2>3. CASE CapabilitySettle(job.promise, v, TRUE, jobs)
    <3>1. Settles(job.promise, v, jobs)
      BY <2>3 DEF Settles
    <3> QED
      BY <2>2, <3>1, SettlesChange
  <2> QED
    BY <1>4, <2>1, <2>3
<1>13. ASSUME NEW v, FinallyThrows(v) PROVE SlotChange
  <2>1. Finish("finally") /\ CallHost(RejectOf(job.derived), v, jobs)
    BY <1>13 DEF FinallyThrows
  <2>2. RejectOf(job.derived) \in H
    BY <1>1, <1>3, <2>1, JobFields
  <2> QED
    BY <2>1, <2>2, CallHostChange
<1>14. ASSUME NEW v, FinallyReturns(v) PROVE SlotChange
  <2>1. Finish("finally") /\ CallHost(WatchedHalf(job), job.payload, jobs)
    BY <1>14 DEF FinallyReturns
  <2>2. WatchedHalf(job) \in H
    BY <1>1, <1>3, <2>1, JobFields DEF WatchedHalf
  <2> QED
    BY <2>1, <2>2, CallHostChange
<1>15. ASSUME NEW v, AdoptFinallyResult(v) PROVE SlotChange
  <2> DEFINE r == WatchRecord(ForwardOk(job.derived, job.payload), ForwardErr(job.derived))
  <2>1. /\ count < MaxPromises /\ count' = count + 1 /\ UNCHANGED <<state, result>>
        /\ reactions' = [reactions EXCEPT ![count + 1] = <<r>>]
    BY <1>15 DEF AdoptFinallyResult
  <2>2. <<r>> = Append(reactions[count + 1], r)
    BY <1>5, <2>1
  <2> QED
    BY <1>5, <2>1, <2>2 DEF SlotChange
\* The drain.
<1>16. CASE RunHostHandler
  <2>1. /\ Pop("reaction") /\ Head(jobs).handler \notin Handlers
        /\ CallHost(Head(jobs).handler, Head(jobs).payload, Tail(jobs))
    BY <1>16 DEF RunHostHandler
  <2>2. Head(jobs).handler \in H
    BY <1>2, <2>1, JobFields
  <2> QED
    BY <2>1, <2>2, CallHostChange
<1>17. CASE PassThrough
  <2>1. /\ Pop("reaction")
        /\ CallHost(SettlerOf(Head(jobs), Head(jobs).rejecting), Head(jobs).payload, Tail(jobs))
    BY <1>17 DEF PassThrough
  <2>2. SettlerOf(Head(jobs), Head(jobs).rejecting) \in H
    BY <1>2, <2>1, JobFields DEF SettlerOf
  <2> QED
    BY <2>1, <2>2, CallHostChange
<1>18. CASE HostCall
  <2>1. CallHost(host.function, host.argument, jobs) /\ host.function \in H
    BY <1>18 DEF HostCall, TypeInv, EngineTyped
  <2> QED
    BY <2>1, CallHostChange
<1>19. CASE ThenNotCallable
  <2>1. /\ Pop("thenable")
        /\ Settles(Head(jobs).promise, Head(jobs).thenable, Tail(jobs))
    BY <1>19 DEF ThenNotCallable, Settles
  <2>2. Head(jobs).promise \in Allocated
    BY <1>2, <2>1, JobFields
  <2> QED
    BY <2>1, <2>2, SettlesChange
<1>20. ASSUME NEW e, ThenThrows(e) PROVE SlotChange
  <2>1. Pop("thenable") /\ Settles(Head(jobs).promise, e, Tail(jobs))
    BY <1>20 DEF ThenThrows, Settles
  <2>2. Head(jobs).promise \in Allocated
    BY <1>2, <2>1, JobFields
  <2> QED
    BY <2>1, <2>2, SettlesChange
<1>21. CASE FinallyNotCallable
  <2>1. Pop("finally") /\ CallHost(WatchedHalf(Head(jobs)), Head(jobs).payload, Tail(jobs))
    BY <1>21 DEF FinallyNotCallable
  <2>2. WatchedHalf(Head(jobs)) \in H
    BY <1>1, <1>2, <2>1, JobFields DEF WatchedHalf
  <2> QED
    BY <2>1, <2>2, CallHostChange
<1>22. CASE RunCall
  <2>1. Pop("call") /\ CallHost(Head(jobs).function, Head(jobs).payload, Tail(jobs))
    BY <1>22 DEF RunCall
  <2>2. Head(jobs).function \in H
    BY <1>2, <2>1, JobFields
  <2> QED
    BY <2>1, <2>2, CallHostChange
\* The actions that leave the slots alone.
<1>23. \/ Construct \/ QueueMicrotask \/ NextScript \/ EndScript \/ MicrotaskDone
       \/ TakeAdoptions \/ CallHandler \/ CallThen \/ CallFinally \/ RunMicrotask
       \/ UNCHANGED vars
       => UNCHANGED slots
  BY DEF Construct, QueueMicrotask, NextScript, EndScript, MicrotaskDone, TakeAdoptions, CallHandler,
         CallThen, CallFinally, RunMicrotask, vars, slots
<1> QED
  BY <1>4, <1>6, <1>7, <1>8, <1>9, <1>10, <1>11, <1>12, <1>13, <1>14, <1>15, <1>16, <1>17, <1>18,
     <1>19, <1>20, <1>21, <1>22, <1>23
  DEF Next, Script, ScriptReturns, Drain

-----------------------------------------------------------------------------
(* The slots of a settled promise.                                         *)

LEMMA StrandedStep == TypeInv /\ NoStrandedRecord /\ [Next]_vars => NoStrandedRecord'
<1> SUFFICES ASSUME TypeInv, NoStrandedRecord, SlotChange PROVE NoStrandedRecord'
  BY SlotStep
<1>1. state \in [Promises -> States] /\ DOMAIN reactions = Promises
  BY DEF TypeInv, SlotsTyped
<1>2. CASE UNCHANGED slots
  BY <1>2 DEF NoStrandedRecord, Settled, slots
<1>3. ASSUME NEW p \in Promises, NEW st \in Settlements, NEW w,
             state' = [state EXCEPT ![p] = st], reactions' = [reactions EXCEPT ![p] = <<>>]
      PROVE  NoStrandedRecord'
  BY <1>1, <1>3 DEF NoStrandedRecord, Settled
<1>4. ASSUME NEW p \in Promises, NEW r, ~Settled(p), UNCHANGED state,
             reactions' = [reactions EXCEPT ![p] = Append(@, r)]
      PROVE  NoStrandedRecord'
  BY <1>1, <1>4 DEF NoStrandedRecord, Settled
<1> QED
  BY <1>2, <1>3, <1>4 DEF SlotChange

\* No wake-up is lost: whichever of then, an adoption and a finally parks its
\* record, it parks on a pending promise, and the settlement takes every record
\* along ("a late-attached record would never drain", settle_with_adoption).
THEOREM NoWakeUpLost == Spec => []NoStrandedRecord
<1>1. Init => NoStrandedRecord
  BY DEF Init, NoStrandedRecord
<1> QED
  BY <1>1, StrandedStep, NothingUnallocated, PTL DEF Spec

LEMMA SettledStays ==
    TypeInv /\ [Next]_vars =>
        \A p \in Promises : Settled(p) => state'[p] = state[p] /\ result'[p] = result[p]
<1> SUFFICES ASSUME TypeInv, SlotChange, NEW p \in Promises, Settled(p)
             PROVE  state'[p] = state[p] /\ result'[p] = result[p]
  BY SlotStep
<1>1. state \in [Promises -> States] /\ DOMAIN result = Promises
  BY DEF TypeInv, SlotsTyped
<1> QED
  BY <1>1 DEF SlotChange, Settled, slots

\* A promise settles once, whichever of the resolving functions, adoption
\* records, thenable jobs and finally jobs that refer to it run later
\* (the pending check of settle_with_adoption, behind every one of them).
THEOREM SettlesOnce == Spec => SettledForever
<1>1. TypeInv /\ [Next]_vars =>
          [\A p \in Promises : Settled(p) => state'[p] = state[p] /\ result'[p] = result[p]]_vars
  BY SettledStays
<1> QED
  BY <1>1, NothingUnallocated, PTL DEF Spec, SettledForever

LEMMA FinalStep == TypeInv /\ FulfilledIsFinal /\ [Next]_vars => FulfilledIsFinal'
<1> SUFFICES ASSUME TypeInv, FulfilledIsFinal, SlotChange PROVE FulfilledIsFinal'
  BY SlotStep
<1>1. state \in [Promises -> States] /\ DOMAIN result = Promises
  BY DEF TypeInv, SlotsTyped
<1>2. ASSUME NEW p \in Promises, NEW st \in Settlements, NEW w, Outcome(st, w),
             state' = [state EXCEPT ![p] = st], result' = [result EXCEPT ![p] = w]
      PROVE  FulfilledIsFinal'
  <2>1. st = "fulfilled" => w \notin Promises \cup Thenables \cup Poisoned
    BY <1>2 DEF Outcome, FulfilledIsFinal
  <2> QED
    BY <1>1, <1>2, <2>1 DEF FulfilledIsFinal
<1> QED
  BY <1>2 DEF SlotChange, FulfilledIsFinal, slots

\* No promise is fulfilled with something that has yet to be adopted: promises
\* and thenables are waited for, at whichever seam they arrive.
THEOREM FulfilmentIsFinal == Spec => []FulfilledIsFinal
<1>1. Init => FulfilledIsFinal
  BY DEF Init, FulfilledIsFinal
<1> QED
  BY <1>1, FinalStep, NothingUnallocated, PTL DEF Spec

-----------------------------------------------------------------------------
(* A then without handlers.  Its promise d is settled by nothing but the    *)
(* record that waits for its source s, the job made of that record, and,    *)
(* when s was fulfilled with an object, the job that looks up its `then`.   *)

Others(d) == Promises \ {d}
Bare(d) == ThenRecord(NoFunction, NoFunction, d)

\* The jobs that carry the outcome of the source to d.
Carriers(d) ==
    LET s == origin[d].source IN
    IF ~Settled(s) THEN {}
    ELSE {JobOfRecord(Bare(d), state[s], result[s])}
         \cup {ThenableJob(d, v) : v \in {w \in Inert : state[s] = "fulfilled" /\ result[s] = w}}

JobsAround(d) == JobsOf(Others(d), Values) \cup Carriers(d)
RecordsAround(d, p) ==
    RecordsOf(Others(d), Values) \cup (IF p = origin[d].source THEN {Bare(d)} ELSE {})

SlotsAround(d) ==
    /\ \A p \in Promises : reactions[p] \in Seq(RecordsAround(d, p))
    /\ Settled(d) => state[d] = state[origin[d].source] /\ result[d] = result[origin[d].source]
QueuesAround(d) ==
    jobs \in Seq(JobsAround(d)) /\ adoptions \in Seq(JobsOf(Others(d), Values))
EngineAround(d) ==
    /\ job \in JobsOf(Others(d), Values) \cup {NoJob}
    /\ host.function \in HostFunctionsOf(Others(d), Values) \cup {NoFunction}
    /\ d \notin held

Carried(d) ==
    origin[d].source \in Others(d) /\ SlotsAround(d) /\ QueuesAround(d) /\ EngineAround(d)

PassInv == \A d \in Promises : origin[d].by = "passThrough" => Carried(d)

LEMMA PassInvIsOutcome == PassInv => PassThroughKeepsOutcome
BY DEF PassInv, Carried, SlotsAround, PassThroughKeepsOutcome

\* The carriers stay what they are.
LEMMA CarriersStay ==
    ASSUME NEW d, origin'[d] = origin[d],
           Settled(origin[d].source) =>
               /\ state'[origin[d].source] = state[origin[d].source]
               /\ result'[origin[d].source] = result[origin[d].source]
    PROVE  Carriers(d) \subseteq Carriers(d)'
BY DEF Carriers, Settled, JobOfRecord, CapabilityOf, ReactionJob, ThenableJob

\* What the records of a promise become when it settles.
LEMMA DrainAround ==
    ASSUME NEW d \in Promises, Carried(d), origin'[d] = origin[d],
           NEW p \in Promises, NEW st \in Settlements, NEW w \in Values,
           p = origin[d].source => state'[p] = st /\ result'[p] = w,
           Carriers(d) \subseteq Carriers(d)'
    PROVE  DrainReactionJobs(p, st, w) \in Seq(JobsAround(d)')
<1>1. reactions[p] \in Seq(RecordsAround(d, p))
  BY DEF Carried, SlotsAround
<1>2. ASSUME NEW r \in RecordsAround(d, p) PROVE JobOfRecord(r, st, w) \in JobsAround(d)'
  <2>1. CASE r \in RecordsOf(Others(d), Values)
    <3>1. JobOfRecord(r, st, w) \in JobsOf(Others(d), Values)
      BY <2>1, JobOfRecordType
    <3> QED
      BY <3>1 DEF JobsAround
  <2>2. CASE r = Bare(d) /\ p = origin[d].source
    <3>1. JobOfRecord(r, st, w) \in Carriers(d)'
      BY <2>2 DEF Carriers, Settled, Settlements
    <3> QED
      BY <3>1 DEF JobsAround
  <2> QED
    BY <1>2, <2>1, <2>2 DEF RecordsAround
<1>3. \A i \in DOMAIN reactions[p] : reactions[p][i] \in RecordsAround(d, p)
  BY <1>1
<1>4. \A i \in DOMAIN reactions[p] : JobOfRecord(reactions[p][i], st, w) \in JobsAround(d)'
  BY <1>2, <1>3
<1>5. DOMAIN reactions[p] = 1..Len(reactions[p]) /\ Len(reactions[p]) \in Nat
  BY <1>1
<1> QED
  BY <1>4, <1>5 DEF DrainReactionJobs

\* A settlement of another promise.
LEMMA SettlesAround ==
    ASSUME TypeInv, NEW d \in Promises, Carried(d), origin'[d] = origin[d],
           NEW p \in Others(d), NEW v \in Values, NEW q \in Seq(JobsAround(d)),
           Settles(p, v, q)
    PROVE  SlotsAround(d)' /\ jobs' \in Seq(JobsAround(d)')
<1> DEFINE s == origin[d].source
<1>1. /\ p \in Promises /\ state \in [Promises -> States] /\ DOMAIN result = Promises
      /\ result \in [Promises -> Values]
      /\ DOMAIN reactions = Promises /\ s \in Promises /\ s # d
  <2>1. result \in [Promises -> Values]
    BY Known DEF TypeInv, SlotsTyped, Reachable, Values
  <2> QED
    BY <2>1 DEF TypeInv, SlotsTyped, Carried, Others
<1>2. ASSUME Carriers(d) \subseteq Carriers(d)' PROVE q \in Seq(JobsAround(d)')
  <2>1. JobsAround(d) \subseteq JobsAround(d)'
    BY <1>2 DEF JobsAround
  <2> QED
    BY <2>1
<1>3. \A x : RecordsAround(d, x)' = RecordsAround(d, x)
  BY DEF RecordsAround
<1>4. ASSUME UNCHANGED slots
      PROVE  SlotsAround(d)' /\ Carriers(d) \subseteq Carriers(d)'
  <2>1. Carriers(d) \subseteq Carriers(d)'
    BY <1>4, CarriersStay DEF slots
  <2>2. SlotsAround(d)'
    BY <1>3, <1>4 DEF Carried, SlotsAround, Settled, slots
  <2> QED
    BY <2>1, <2>2
<1>5. CASE UNCHANGED slots /\ jobs' = q
  BY <1>2, <1>4, <1>5
<1>6. CASE HasThen(v) /\ UNCHANGED slots /\ jobs' = Append(q, ThenableJob(p, v))
  <2>1. ThenableJob(p, v) \in JobsAround(d)'
    BY <1>6 DEF JobsAround, JobsOf, ThenableJob, HasThen
  <2> QED
    BY <1>2, <1>4, <1>6, <2>1
<1>7. ASSUME NEW st \in Settlements, NEW w \in Values, SettleTo(p, st, w, q), ~Settled(p)
      PROVE  SlotsAround(d)' /\ jobs' \in Seq(JobsAround(d)')
  <2>1. /\ state' = [state EXCEPT ![p] = st] /\ result' = [result EXCEPT ![p] = w]
        /\ reactions' = [reactions EXCEPT ![p] = <<>>]
        /\ jobs' = q \o DrainReactionJobs(p, st, w)
    BY <1>7 DEF SettleTo
  <2>2. Carriers(d) \subseteq Carriers(d)'
    BY <1>1, <1>7, <2>1, CarriersStay DEF Settled
  <2>3. DrainReactionJobs(p, st, w) \in Seq(JobsAround(d)')
    BY <1>1, <2>1, <2>2, DrainAround
  <2>4. q \in Seq(JobsAround(d)')
    BY <1>2, <2>2
  <2>5. jobs' \in Seq(JobsAround(d)')
    BY <2>1, <2>3, <2>4
  <2>6. \A x \in Promises : reactions'[x] \in Seq(RecordsAround(d, x)')
    BY <1>1, <1>3, <2>1 DEF Carried, SlotsAround
  <2>7. Settled(d)' => state'[d] = state'[s] /\ result'[d] = result'[s]
    BY <1>1, <1>7, <2>1 DEF Carried, SlotsAround, Settled, Others
  <2> QED
    BY <2>5, <2>6, <2>7 DEF SlotsAround
<1>8. CASE /\ ~Settled(p)
           /\ \E st \in Settlements : \E w :
                 /\ SettleTo(p, st, w, q)
                 /\ \/ st = "rejected" /\ w \in {v, TypeErrorValue}
                    \/ v \in Promises /\ st = state[v] /\ w = result[v]
                    \/ w = v /\ v \notin Promises \cup Thenables \cup Poisoned
  <2>1. PICK st, w :
                 /\ st \in Settlements
                 /\ SettleTo(p, st, w, q)
                 /\ \/ st = "rejected" /\ w \in {v, TypeErrorValue}
                    \/ v \in Promises /\ st = state[v] /\ w = result[v]
                    \/ w = v /\ v \notin Promises \cup Thenables \cup Poisoned
    BY <1>8
  <2>2. w \in Values
    BY <1>1, <2>1 DEF Values, OtherValues
  <2> QED
    BY <1>7, <1>8, <2>1, <2>2
<1>9. CASE ~Settled(p) /\ v \in Promises /\ ~Settled(v) /\ AttachAdoption(p, v, q)
  <2>1. /\ reactions' = [reactions EXCEPT ![v] = Append(@, AdoptionRecord(p))]
        /\ jobs' = q /\ UNCHANGED <<state, result>>
    BY <1>9 DEF AttachAdoption
  <2>2. Carriers(d) \subseteq Carriers(d)'
    BY <2>1, CarriersStay
  <2>3. AdoptionRecord(p) \in RecordsAround(d, v)
    BY DEF RecordsAround, RecordsOf
  <2>4. reactions[v] \in Seq(RecordsAround(d, v))
    BY <1>9 DEF Carried, SlotsAround
  <2>5. Append(reactions[v], AdoptionRecord(p)) \in Seq(RecordsAround(d, v))
    BY <2>3, <2>4
  <2>6. \A x \in Promises : reactions'[x] \in Seq(RecordsAround(d, x)')
    BY <1>1, <1>3, <1>9, <2>1, <2>5 DEF Carried, SlotsAround
  <2>7. Settled(d)' => state'[d] = state'[s] /\ result'[d] = result'[s]
    BY <2>1 DEF Carried, SlotsAround, Settled
  <2> QED
    BY <1>2, <2>1, <2>2, <2>6, <2>7 DEF SlotsAround
<1> QED
  BY <1>1, <1>5, <1>6, <1>8, <1>9, SettleCases

\* A call of a host closure that does not settle d.
LEMMA CallHostAround ==
    ASSUME TypeInv, NEW d \in Promises, Carried(d), origin'[d] = origin[d],
           NEW f \in HostFunctionsOf(Others(d), Values), NEW v \in Values,
           NEW q \in Seq(JobsAround(d)), CallHost(f, v, q)
    PROVE  SlotsAround(d)' /\ jobs' \in Seq(JobsAround(d)')
<1>1. f.fn \in {"resolve", "reject", "watch", "forward", "forwardError"}
  BY HostNotHandler
<1>2. CASE f.fn \in {"resolve", "reject"}
  <2>1. f.promise \in Others(d)
    BY <1>2, HostNotHandler
  <2>2. Settles(f.promise, v, q)
    BY <1>2 DEF CallHost, Settles, CapabilitySettle, SettleWithAdoption, SettleTo, AdoptPromise,
                 AttachAdoption
  <2> QED
    BY <2>1, <2>2, SettlesAround
<1>3. ASSUME NEW j \in JobsOf(Others(d), Values), UNCHANGED slots, jobs' = Append(q, j)
      PROVE  SlotsAround(d)' /\ jobs' \in Seq(JobsAround(d)')
  <2>1. Carriers(d) \subseteq Carriers(d)'
    BY <1>3, CarriersStay DEF slots
  <2>2. JobsAround(d) \subseteq JobsAround(d)' /\ j \in JobsAround(d)'
    BY <2>1 DEF JobsAround
  <2>3. \A x : RecordsAround(d, x)' = RecordsAround(d, x)
    BY DEF RecordsAround
  <2> QED
    BY <1>3, <2>2, <2>3 DEF Carried, SlotsAround, Settled, slots
<1>4. CASE f.fn = "watch"
  <2>1. FinallyJob(f.derived, f.callback, f.state, v) \in JobsOf(Others(d), Values)
    BY <1>4, HostNotHandler DEF FinallyJob, JobsOf
  <2>2. UNCHANGED slots /\ jobs' = Append(q, FinallyJob(f.derived, f.callback, f.state, v))
    BY <1>4 DEF CallHost, CapabilitySettle, SettleWithAdoption, SettleTo, AdoptPromise, AttachAdoption
  <2> QED
    BY <1>3, <2>1, <2>2
<1>5. CASE f.fn = "forward"
  <2>1. CallJob(f.half, f.payload) \in JobsOf(Others(d), Values)
    BY <1>5, HostNotHandler DEF CallJob, JobsOf
  <2>2. UNCHANGED slots /\ jobs' = Append(q, CallJob(f.half, f.payload))
    BY <1>5 DEF CallHost, CapabilitySettle, SettleWithAdoption, SettleTo, AdoptPromise, AttachAdoption
  <2> QED
    BY <1>3, <2>1, <2>2
<1>6. CASE f.fn = "forwardError"
  <2>1. CallJob(f.half, v) \in JobsOf(Others(d), Values)
    BY <1>6, HostNotHandler DEF CallJob, JobsOf
  <2>2. UNCHANGED slots /\ jobs' = Append(q, CallJob(f.half, v))
    BY <1>6 DEF CallHost, CapabilitySettle, SettleWithAdoption, SettleTo, AdoptPromise, AttachAdoption
  <2> QED
    BY <1>3, <2>1, <2>2
<1> QED
  BY <1>1, <1>2, <1>4, <1>5, <1>6

\* What a carrier does to d: it takes the outcome of the source over, or leaves
\* it to the job that looks up the `then` of the result.
LEMMA OutcomeArrives ==
    ASSUME TypeInv, FulfilledIsFinal, NEW d \in Promises, Carried(d), origin'[d] = origin[d],
           Settled(origin[d].source), NEW q \in Seq(JobsAround(d)),
           \/ /\ state[origin[d].source] # "fulfilled"
              /\ CapabilitySettle(d, result[origin[d].source], TRUE, q)
           \/ /\ state[origin[d].source] = "fulfilled"
              /\ CapabilitySettle(d, result[origin[d].source], FALSE, q)
           \/ /\ state[origin[d].source] = "fulfilled" /\ result[origin[d].source] \in Inert
              /\ SettleWithAdoption(d, result[origin[d].source], FALSE, FALSE, q)
    PROVE  SlotsAround(d)' /\ jobs' \in Seq(JobsAround(d)')
<1> DEFINE s == origin[d].source
           v == result[s]
<1>1. /\ s \in Promises /\ s # d /\ DOMAIN result = Promises /\ DOMAIN reactions = Promises
      /\ state \in [Promises -> States] /\ state[s] \in Settlements /\ v \in Values
  <2>1. result \in [Promises -> Values]
    BY Known DEF TypeInv, SlotsTyped, Reachable, Values
  <2> QED
    BY <2>1 DEF TypeInv, SlotsTyped, Carried, Others, Settled, Settlements
<1>2. \A x : RecordsAround(d, x)' = RecordsAround(d, x)
  BY DEF RecordsAround
<1>3. ASSUME UNCHANGED slots
      PROVE  /\ SlotsAround(d)' /\ JobsAround(d) \subseteq JobsAround(d)'
             /\ q \in Seq(JobsAround(d)')
  <2>1. Carriers(d) \subseteq Carriers(d)'
    BY <1>3, CarriersStay DEF slots
  <2>2. JobsAround(d) \subseteq JobsAround(d)'
    BY <2>1 DEF JobsAround
  <2> QED
    BY <1>2, <1>3, <2>2 DEF Carried, SlotsAround, Settled, slots
<1>4. CASE Settled(d)
  <2>1. UNCHANGED slots /\ jobs' = q
    BY <1>4 DEF CapabilitySettle, SettleWithAdoption, StillPending, Settled
  <2> QED
    BY <1>3, <2>1
<1>5. CASE ~Settled(d) /\ SettleTo(d, state[s], v, q)
  <2>1. /\ state' = [state EXCEPT ![d] = state[s]] /\ result' = [result EXCEPT ![d] = v]
        /\ reactions' = [reactions EXCEPT ![d] = <<>>]
        /\ jobs' = q \o DrainReactionJobs(d, state[s], v)
    BY <1>5 DEF SettleTo
  <2>2. Carriers(d) \subseteq Carriers(d)'
    BY <1>1, <2>1, CarriersStay
  <2>3. DrainReactionJobs(d, state[s], v) \in Seq(JobsAround(d)')
    BY <1>1, <2>1, <2>2, DrainAround
  <2>4. q \in Seq(JobsAround(d)')
    <3>1. JobsAround(d) \subseteq JobsAround(d)'
      BY <2>2 DEF JobsAround
    <3> QED
      BY <3>1
  <2>5. \A x \in Promises : reactions'[x] \in Seq(RecordsAround(d, x)')
    BY <1>1, <1>2, <2>1 DEF Carried, SlotsAround
  <2>6. Settled(d)' => state'[d] = state'[s] /\ result'[d] = result'[s]
    BY <1>1, <2>1
  <2> QED
    BY <2>1, <2>3, <2>4, <2>5, <2>6 DEF SlotsAround
<1>6. CASE ~Settled(d) /\ state[s] # "fulfilled" /\ CapabilitySettle(d, v, TRUE, q)
  <2>1. state[s] = "rejected" /\ SettleTo(d, "rejected", v, q)
    BY <1>1, <1>6, RejectCases DEF Settlements, States
  <2> QED
    BY <1>5, <1>6, <2>1
<1>7. CASE ~Settled(d) /\ state[s] = "fulfilled" /\ CapabilitySettle(d, v, FALSE, q)
  <2>1. v \notin Promises \cup Thenables \cup Poisoned
    BY <1>1, <1>7 DEF FulfilledIsFinal
  <2>2. CASE HasThen(v) /\ UNCHANGED slots /\ jobs' = Append(q, ThenableJob(d, v))
    <3>1. v \in Inert
      BY <2>1, <2>2 DEF HasThen
    <3>2. ThenableJob(d, v) \in Carriers(d)
      BY <1>7, <3>1 DEF Carriers
    <3>3. ThenableJob(d, v) \in JobsAround(d)'
      BY <1>3, <2>2, <3>2 DEF JobsAround
    <3> QED
      BY <1>3, <2>2, <3>3
  <2>3. CASE SettleTo(d, "fulfilled", v, q)
    BY <1>5, <1>7, <2>3
  <2> QED
    BY <1>1, <1>7, <2>1, <2>2, <2>3, ResolveCases
<1>8. CASE /\ ~Settled(d) /\ state[s] = "fulfilled" /\ v \in Inert
           /\ SettleWithAdoption(d, v, FALSE, FALSE, q)
  <2>1. v \notin Promises
    BY <1>8, ValuesAssumption DEF OtherValues
  <2>2. SettleTo(d, "fulfilled", v, q)
    BY <1>8, <2>1 DEF SettleWithAdoption, StillPending, Settled, SettleTo
  <2> QED
    BY <1>5, <1>8, <2>2
<1> QED
  BY <1>4, <1>6, <1>7, <1>8

\* The carriers, by what the drain looks at.
LEMMA CarrierFields ==
    ASSUME TypeInv, NEW d \in Promises, Carried(d), NEW j \in Carriers(d)
    PROVE  /\ Settled(origin[d].source)
           /\ \/ /\ j.type = "reaction" /\ j.handler = NoFunction
                 /\ j.payload = result[origin[d].source]
                 /\ j.rejecting = (state[origin[d].source] # "fulfilled")
                 /\ j.capability = <<ResolveOf(d), RejectOf(d)>>
              \/ /\ j.type = "thenable" /\ j.promise = d
                 /\ state[origin[d].source] = "fulfilled"
                 /\ j.thenable = result[origin[d].source] /\ j.thenable \in Inert
<1> DEFINE s == origin[d].source
<1>1. Settled(s)
  BY DEF Carriers
<1>2. CASE j = JobOfRecord(Bare(d), state[s], result[s])
  <2>1. /\ Bare(d)[1] = NoFunction /\ Bare(d)[2] = NoFunction
        /\ CapabilityOf(Bare(d)) = <<ResolveOf(d), RejectOf(d)>>
    BY DEF Bare, ThenRecord, CapabilityOf
  <2> QED
    BY <1>1, <1>2, <2>1 DEF JobOfRecord, ReactionJob
<1>3. CASE \E v \in Inert : state[s] = "fulfilled" /\ result[s] = v /\ j = ThenableJob(d, v)
  BY <1>1, <1>3 DEF ThenableJob
<1> QED
  BY <1>1, <1>2, <1>3 DEF Carriers

\* What holds around d of the parts of the state that a step leaves alone.
LEMMA AroundStays ==
    ASSUME TypeInv, NEW d \in Promises, Carried(d), origin'[d] = origin[d], [Next]_vars
    PROVE  /\ JobsAround(d) \subseteq JobsAround(d)'
           /\ UNCHANGED slots => SlotsAround(d)'
           /\ UNCHANGED <<job, host, held>> => EngineAround(d)'
           /\ UNCHANGED adoptions => adoptions' \in Seq(JobsOf(Others(d), Values))
           /\ UNCHANGED jobs => jobs' \in Seq(JobsAround(d)')
           /\ origin'[d].source \in Others(d)
<1>1. origin[d].source \in Promises
  BY DEF Carried, Others
<1>2. Carriers(d) \subseteq Carriers(d)'
  BY <1>1, SettledStays, CarriersStay
<1>3. JobsAround(d) \subseteq JobsAround(d)'
  BY <1>2 DEF JobsAround
<1>4. UNCHANGED slots => SlotsAround(d)'
  BY DEF Carried, SlotsAround, RecordsAround, Settled, slots
<1>5. UNCHANGED <<job, host, held>> => EngineAround(d)'
  BY DEF Carried, EngineAround
<1>6. UNCHANGED jobs => jobs' \in Seq(JobsAround(d)')
  BY <1>3 DEF Carried, QueuesAround
<1> QED
  BY <1>3, <1>4, <1>5, <1>6 DEF Carried, QueuesAround

\* A step of script.
LEMMA PassScript ==
    ASSUME TypeInv, NEW d \in Promises, d \in Allocated, Carried(d), origin'[d] = origin[d], Script
    PROVE  Carried(d)'
<1> DEFINE n == count + 1
           O == Others(d)
           J == JobsOf(O, Values)
<1>1. /\ JobsAround(d) \subseteq JobsAround(d)'
      /\ UNCHANGED slots => SlotsAround(d)'
      /\ UNCHANGED <<job, host, held>> => EngineAround(d)'
      /\ UNCHANGED adoptions => adoptions' \in Seq(J)
      /\ UNCHANGED jobs => jobs' \in Seq(JobsAround(d)')
      /\ origin'[d].source \in O
  BY AroundStays DEF Next
<1>2. /\ jobs \in Seq(JobsAround(d)) /\ adoptions \in Seq(J)
      /\ \A x \in Promises : reactions[x] \in Seq(RecordsAround(d, x))
      /\ \A x : RecordsAround(d, x)' = RecordsAround(d, x)
      /\ DOMAIN reactions = Promises /\ state \in [Promises -> States] /\ DOMAIN result = Promises
      /\ result \in [Promises -> Values] /\ origin[d].source \in Promises
  <2>1. \A x : RecordsAround(d, x)' = RecordsAround(d, x)
    BY DEF RecordsAround
  <2>2. result \in [Promises -> Values]
    BY Known DEF TypeInv, SlotsTyped, Reachable, Values
  <2> QED
    BY <2>1, <2>2 DEF Carried, QueuesAround, SlotsAround, TypeInv, SlotsTyped, Others
<1>3. ASSUME jobs' \in Seq(JobsAround(d)'), adoptions' \in Seq(J), SlotsAround(d)', EngineAround(d)'
      PROVE  Carried(d)'
  BY <1>1, <1>3 DEF Carried, QueuesAround
\* The new promise is another one.
<1>4. ASSUME Allocate PROVE n \in O /\ n # d
  <2>1. count < MaxPromises /\ count' = count + 1
    BY <1>4 DEF Allocate
  <2>2. n \in Promises \ Allocated
    BY <2>1, NewPromise
  <2> QED
    BY <2>2 DEF Others
\* A record is added to a pending promise.
<1>5. ASSUME NEW p \in Promises, NEW r \in RecordsOf(O, Values), UNCHANGED <<state, result>>,
             reactions' = [reactions EXCEPT ![p] = Append(@, r)]
      PROVE  SlotsAround(d)'
  <2>1. r \in RecordsAround(d, p)
    BY DEF RecordsAround
  <2>2. reactions[p] \in Seq(RecordsAround(d, p))
    BY <1>2
  <2>3. Append(reactions[p], r) \in Seq(RecordsAround(d, p))
    BY <2>1, <2>2
  <2>4. \A x \in Promises : reactions'[x] \in Seq(RecordsAround(d, x)')
    BY <1>2, <1>5, <2>3
  <2>5. Settled(d)' => state'[d] = state'[origin'[d].source] /\ result'[d] = result'[origin'[d].source]
    BY <1>5 DEF Carried, SlotsAround, Settled
  <2> QED
    BY <2>4, <2>5 DEF SlotsAround
\* A job is added to the queue.
<1>6. ASSUME NEW j \in J, jobs' = Append(jobs, j) PROVE jobs' \in Seq(JobsAround(d)')
  <2>1. j \in JobsAround(d)
    BY DEF JobsAround
  <2>2. jobs' \in Seq(JobsAround(d))
    BY <1>2, <1>6, <2>1
  <2> QED
    BY <1>1, <2>2
<1>7. CASE Construct
  <2>1. /\ n # d /\ held' = held \cup {n} /\ UNCHANGED <<slots, jobs, adoptions, job, host>>
    BY <1>4, <1>7 DEF Construct, Operation, queues, engine
  <2>2. EngineAround(d)'
    BY <2>1 DEF Carried, EngineAround
  <2> QED
    BY <1>1, <1>3, <2>1, <2>2
<1>8. ASSUME NEW p \in Promises, NEW v \in Values, NEW r \in BOOLEAN, CallResolving(p, v, r)
      PROVE  Carried(d)'
  <2>1. /\ UNCHANGED <<job, host, held, adoptions>> /\ p \in held
        /\ CapabilitySettle(p, v, r, jobs)
    BY <1>8 DEF CallResolving, Operation, engine
  <2>2. p \in O
    BY <2>1 DEF Carried, EngineAround, Others
  <2>3. Settles(p, v, jobs)
    <3>1. CASE r = TRUE
      BY <2>1, <3>1 DEF Settles
    <3>2. CASE r = FALSE
      BY <2>1, <3>2 DEF Settles
    <3> QED
      BY <3>1, <3>2
  <2>4. SlotsAround(d)' /\ jobs' \in Seq(JobsAround(d)')
    BY <1>2, <2>2, <2>3, SettlesAround
  <2> QED
    BY <1>1, <1>3, <2>1, <2>4
<1>9. ASSUME NEW p \in Promises, NEW f \in Handlers, NEW g \in Handlers, Then(p, f, g)
      PROVE  Carried(d)'
  <2>1. /\ UNCHANGED <<job, host, held, adoptions>> /\ n \in O
        /\ InstallThenRecord(p, f, g, n)
    BY <1>4, <1>9 DEF Then, Operation, engine
  <2>2. ThenRecord(f, g, n) \in RecordsOf(O, Values)
    BY <2>1 DEF RecordsOf
  <2>3. CASE state[p] = "pending"
    <3>1. /\ reactions' = [reactions EXCEPT ![p] = Append(@, ThenRecord(f, g, n))]
          /\ UNCHANGED <<state, result, jobs>>
      BY <2>1, <2>3 DEF InstallThenRecord
    <3> QED
      BY <1>1, <1>3, <1>5, <2>1, <2>2, <3>1
  <2>4. CASE state[p] # "pending"
    <3>1. /\ jobs' = Append(jobs, JobOfRecord(ThenRecord(f, g, n), state[p], result[p]))
          /\ UNCHANGED slots
      BY <2>1, <2>4 DEF InstallThenRecord
    <3>2. state[p] \in Settlements /\ result[p] \in Values
      BY <1>2, <2>4 DEF Settlements
    <3>3. JobOfRecord(ThenRecord(f, g, n), state[p], result[p]) \in J
      BY <2>2, <3>2, JobOfRecordType
    <3> QED
      BY <1>1, <1>3, <1>6, <2>1, <3>1, <3>3
  <2> QED
    BY <2>3, <2>4
<1>10. ASSUME NEW p \in Promises, NEW cb \in Handlers, Finally(p, cb)
      PROVE  Carried(d)'
  <2> DEFINE r == WatchRecord(Watcher("fulfilled", n, cb), Watcher("rejected", n, cb))
  <2>1. /\ UNCHANGED <<job, host, held, adoptions>> /\ n \in O
        /\ WatchFinally(p, cb, n)
    BY <1>4, <1>10 DEF Finally, Operation, engine
  <2>2. r \in RecordsOf(O, Values)
    BY <2>1 DEF RecordsOf, ClosuresOf, Watcher, Settlements, States
  <2>3. CASE state[p] = "pending"
    <3>1. /\ reactions' = [reactions EXCEPT ![p] = Append(@, r)]
          /\ UNCHANGED <<state, result, jobs>>
      BY <2>1, <2>3 DEF WatchFinally
    <3> HIDE DEF r
    <3> QED
      BY <1>1, <1>3, <1>5, <2>1, <2>2, <3>1
  <2>4. CASE state[p] # "pending"
    <3>1. /\ jobs' = Append(jobs, FinallyJob(n, cb, state[p], result[p]))
          /\ UNCHANGED slots
      BY <2>1, <2>4 DEF WatchFinally
    <3>2. state[p] \in Settlements /\ result[p] \in Values
      BY <1>2, <2>4 DEF Settlements
    <3>3. FinallyJob(n, cb, state[p], result[p]) \in J
      BY <2>1, <3>2 DEF FinallyJob, JobsOf
    <3> QED
      BY <1>1, <1>3, <1>6, <2>1, <3>1, <3>3
  <2> QED
    BY <2>3, <2>4
\* Promise.resolve and Promise.reject settle the promise they allocate.
<1>11. ASSUME Allocate, NEW st \in Settlements, NEW v, state' = [state EXCEPT ![n] = st],
              result' = [result EXCEPT ![n] = v], UNCHANGED reactions
       PROVE  SlotsAround(d)'
  <2>1. n # d /\ state[n] = "pending"
    <3>1. count < MaxPromises /\ count' = count + 1
      BY <1>11 DEF Allocate
    <3>2. state[n] = "pending"
      BY <3>1, NewPromise
    <3> QED
      BY <1>4, <1>11, <3>2
  <2>2. Settled(d) => n # origin[d].source
    BY <2>1 DEF Carried, SlotsAround, Settled
  <2>3. Settled(d)' => state'[d] = state'[origin'[d].source] /\ result'[d] = result'[origin'[d].source]
    BY <1>2, <1>11, <2>1, <2>2 DEF Carried, SlotsAround, Settled
  <2> QED
    BY <1>2, <1>11, <2>3 DEF SlotsAround
<1>12. ASSUME NEW v \in OtherValues, PromiseResolve(v) PROVE Carried(d)'
  <2>1. /\ Allocate /\ UNCHANGED <<reactions, jobs, job, host, held>> /\ n \in O
    BY <1>4, <1>12 DEF PromiseResolve, Operation, engine
  <2>2. CASE v \in Thenables \cup Poisoned
    <3>1. adoptions' = Append(adoptions, ThenableJob(n, v)) /\ UNCHANGED slots
      BY <1>12, <2>2 DEF PromiseResolve, slots
    <3>2. ThenableJob(n, v) \in J
      BY <2>1, <2>2 DEF ThenableJob, JobsOf
    <3>3. adoptions' \in Seq(J)
      BY <1>2, <3>1, <3>2
    <3> QED
      BY <1>1, <1>3, <2>1, <3>1, <3>3
  <2>3. CASE v \notin Thenables \cup Poisoned
    <3>1. /\ state' = [state EXCEPT ![n] = "fulfilled"] /\ result' = [result EXCEPT ![n] = v]
          /\ UNCHANGED adoptions
      BY <1>12, <2>3 DEF PromiseResolve
    <3>2. "fulfilled" \in Settlements
      BY DEF Settlements, States
    <3> QED
      BY <1>1, <1>3, <1>11, <2>1, <3>1, <3>2
  <2> QED
    BY <2>2, <2>3
<1>13. ASSUME NEW v \in Values, PromiseReject(v) PROVE Carried(d)'
  <2>1. /\ Allocate /\ UNCHANGED <<reactions, jobs, adoptions, job, host, held>>
        /\ state' = [state EXCEPT ![n] = "rejected"] /\ result' = [result EXCEPT ![n] = v]
    BY <1>13 DEF PromiseReject, Operation, engine, queues
  <2>2. "rejected" \in Settlements
    BY DEF Settlements, States
  <2> QED
    BY <1>1, <1>3, <1>11, <2>1, <2>2
<1>14. CASE QueueMicrotask
  <2>1. UNCHANGED <<slots, adoptions, job, host, held>> /\ jobs' = Append(jobs, MicrotaskJob)
    BY <1>14 DEF QueueMicrotask, Operation, engine
  <2>2. MicrotaskJob \in J
    BY DEF JobsOf
  <2> QED
    BY <1>1, <1>3, <1>6, <2>1, <2>2
<1>15. CASE NextScript
  <2>1. UNCHANGED <<slots, jobs, adoptions, job, host, held>>
    BY <1>15 DEF NextScript, queues, script
  <2> QED
    BY <1>1, <1>3, <2>1
<1> QED
  BY <1>7, <1>8, <1>9, <1>10, <1>12, <1>13, <1>14, <1>15 DEF Script

\* A step in which script gives control back.
LEMMA PassReturn ==
    ASSUME TypeInv, NEW d \in Promises, d \in Allocated, Carried(d), origin'[d] = origin[d],
           ScriptReturns
    PROVE  Carried(d)'
<1> DEFINE O == Others(d)
           J == JobsOf(O, Values)
           H == HostFunctionsOf(O, Values)
<1>1. /\ JobsAround(d) \subseteq JobsAround(d)'
      /\ UNCHANGED slots => SlotsAround(d)'
      /\ UNCHANGED <<job, host, held>> => EngineAround(d)'
      /\ UNCHANGED adoptions => adoptions' \in Seq(J)
      /\ UNCHANGED jobs => jobs' \in Seq(JobsAround(d)')
      /\ origin'[d].source \in O
  BY AroundStays DEF Next
<1>2. jobs \in Seq(JobsAround(d)) /\ ScriptValues \subseteq Values
  BY Known DEF Carried, QueuesAround, Reachable, Values
<1>3. ASSUME jobs' \in Seq(JobsAround(d)'), adoptions' \in Seq(J), SlotsAround(d)', EngineAround(d)'
      PROVE  Carried(d)'
  BY <1>1, <1>3 DEF Carried, QueuesAround
<1>4. ASSUME NEW type, Finish(type)
      PROVE  job \in J /\ job.type = type /\ job' = NoJob /\ UNCHANGED <<adoptions, held>>
  <2>1. job # NoJob
    BY <1>4, JobFields DEF Finish, TypeInv, EngineTyped, NoJob
  <2> QED
    BY <1>4, <2>1 DEF Finish, Carried, EngineAround, script
<1>5. ASSUME NEW type, Finish(type), UNCHANGED host PROVE EngineAround(d)'
  BY <1>4, <1>5 DEF Carried, EngineAround
<1>6. ASSUME NEW type, Finish(type), UNCHANGED host, NEW f \in H, NEW v \in Values, CallHost(f, v, jobs)
      PROVE  Carried(d)'
  <2>1. SlotsAround(d)' /\ jobs' \in Seq(JobsAround(d)')
    BY <1>2, <1>6, CallHostAround
  <2> QED
    BY <1>1, <1>3, <1>4, <1>5, <1>6, <2>1
<1>7. \A p \in O : ResolveOf(p) \in H /\ RejectOf(p) \in H
  BY DEF HostFunctionsOf
<1>8. CASE EndScript
  <2>1. UNCHANGED <<slots, jobs, adoptions, job, host, held>>
    BY <1>8 DEF EndScript, queues, script
  <2> QED
    BY <1>1, <1>3, <2>1
<1>9. CASE MicrotaskDone
  <2>1. Finish("microtask") /\ UNCHANGED <<slots, jobs, host>>
    BY <1>9 DEF MicrotaskDone
  <2> QED
    BY <1>1, <1>3, <1>4, <1>5, <2>1
<1>10. ASSUME NEW v \in ScriptValues, NEW threw \in BOOLEAN, HandlerDone(v, threw) PROVE Carried(d)'
  <2>1. Finish("reaction") /\ CallHost(SettlerOf(job, threw), v, jobs) /\ UNCHANGED host
    BY <1>10 DEF HandlerDone
  <2>2. job \in J /\ job.type = "reaction"
    BY <1>4, <2>1
  <2>3. SettlerOf(job, threw) \in H /\ v \in Values
    BY <1>2, <2>2, JobFields DEF SettlerOf
  <2> QED
    BY <1>6, <2>1, <2>3
<1>11. ASSUME NEW v \in ScriptValues, NEW threw \in BOOLEAN, ThenDone(v, threw) PROVE Carried(d)'
  <2>1. /\ Finish("thenable") /\ UNCHANGED host
        /\ \/ CapabilitySettle(job.promise, v, TRUE, jobs)
           \/ UNCHANGED <<slots, jobs>>
    BY <1>11 DEF ThenDone
  <2>2. job \in J /\ job.type = "thenable"
    BY <1>4, <2>1
  <2>3. job.promise \in O /\ v \in Values
    BY <1>2, <2>2, JobFields
  <2>4. CASE CapabilitySettle(job.promise, v, TRUE, jobs)
    <3>1. Settles(job.promise, v, jobs)
      BY <2>4 DEF Settles
    <3>2. SlotsAround(d)' /\ jobs' \in Seq(JobsAround(d)')
      BY <1>2, <2>3, <3>1, SettlesAround
    <3> QED
      BY <1>1, <1>3, <1>4, <1>5, <2>1, <3>2
  <2>5. CASE UNCHANGED <<slots, jobs>>
    BY <1>1, <1>3, <1>4, <1>5, <2>1, <2>5
  <2> QED
    BY <2>1, <2>4, <2>5
<1>12. ASSUME NEW v \in ScriptValues, FinallyThrows(v) PROVE Carried(d)'
  <2>1. Finish("finally") /\ CallHost(RejectOf(job.derived), v, jobs) /\ UNCHANGED host
    BY <1>12 DEF FinallyThrows
  <2>2. job \in J /\ job.type = "finally"
    BY <1>4, <2>1
  <2>3. RejectOf(job.derived) \in H /\ v \in Values
    BY <1>2, <1>7, <2>2, JobFields
  <2> QED
    BY <1>6, <2>1, <2>3
<1>13. ASSUME NEW v \in ScriptValues, FinallyReturns(v) PROVE Carried(d)'
  <2>1. Finish("finally") /\ CallHost(WatchedHalf(job), job.payload, jobs) /\ UNCHANGED host
    BY <1>13 DEF FinallyReturns
  <2>2. job \in J /\ job.type = "finally"
    BY <1>4, <2>1
  <2>3. WatchedHalf(job) \in H /\ job.payload \in Values
    BY <1>7, <2>2, JobFields DEF WatchedHalf
  <2> QED
    BY <1>6, <2>1, <2>3
<1>14. ASSUME NEW v \in ScriptValues, AdoptFinallyResult(v) PROVE Carried(d)'
  <2> DEFINE n == count + 1
             r == WatchRecord(ForwardOk(job.derived, job.payload), ForwardErr(job.derived))
  <2>1. /\ Finish("finally") /\ count < MaxPromises /\ count' = n
        /\ reactions' = [reactions EXCEPT ![n] = <<r>>]
        /\ host' = [function |-> ResolveOf(n), argument |-> v]
        /\ UNCHANGED <<state, result, jobs>>
    BY <1>14 DEF AdoptFinallyResult
  <2>2. job \in J /\ job.type = "finally"
    BY <1>4, <2>1
  <2>3. job.derived \in O /\ job.payload \in Values
    BY <2>2, JobFields
  <2>4. n \in O
    BY <2>1, NewPromise DEF Others
  <2>5. r \in RecordsOf(O, Values)
    BY <2>3 DEF RecordsOf, ClosuresOf, ForwardOk, ForwardErr
  <2> HIDE DEF r
  <2>6. <<r>> \in Seq(RecordsAround(d, n))
    BY <2>5 DEF RecordsAround
  <2>7. /\ \A x : RecordsAround(d, x)' = RecordsAround(d, x)
        /\ DOMAIN reactions = Promises
    BY DEF RecordsAround, TypeInv, SlotsTyped
  <2>8. SlotsAround(d)'
    BY <2>1, <2>6, <2>7 DEF Carried, SlotsAround, Settled
  <2>9. EngineAround(d)'
    BY <1>4, <1>7, <2>1, <2>4 DEF Carried, EngineAround
  <2> QED
    BY <1>1, <1>3, <1>4, <2>1, <2>8, <2>9
<1> QED
  BY <1>8, <1>9, <1>10, <1>11, <1>12, <1>13, <1>14 DEF ScriptReturns

\* A step of the drain.
LEMMA PassDrain ==
    ASSUME TypeInv, FulfilledIsFinal, NEW d \in Promises, d \in Allocated, Carried(d),
           origin'[d] = origin[d], Drain
    PROVE  Carried(d)'
<1> DEFINE O == Others(d)
           J == JobsOf(O, Values)
           H == HostFunctionsOf(O, Values)
           s == origin[d].source
<1>1. /\ JobsAround(d) \subseteq JobsAround(d)'
      /\ UNCHANGED slots => SlotsAround(d)'
      /\ UNCHANGED <<job, host, held>> => EngineAround(d)'
      /\ UNCHANGED adoptions => adoptions' \in Seq(J)
      /\ UNCHANGED jobs => jobs' \in Seq(JobsAround(d)')
      /\ origin'[d].source \in O
  BY AroundStays DEF Next
<1>2. jobs \in Seq(JobsAround(d)) /\ adoptions \in Seq(J)
  BY DEF Carried, QueuesAround
<1>3. ASSUME jobs' \in Seq(JobsAround(d)'), adoptions' \in Seq(J), SlotsAround(d)', EngineAround(d)'
      PROVE  Carried(d)'
  BY <1>1, <1>3 DEF Carried, QueuesAround
<1>4. ASSUME NEW type, Pop(type)
      PROVE  /\ Head(jobs) \in J \/ Head(jobs) \in Carriers(d)
             /\ Head(jobs).type = type /\ Tail(jobs) \in Seq(JobsAround(d))
  BY <1>2, <1>4 DEF Pop, JobsAround
\* Script is called: the job leaves the queue and runs.
<1>5. ASSUME CallScript, NEW type, Pop(type), UNCHANGED <<slots, adoptions, host>>,
             Head(jobs) \in J, d \notin held'
      PROVE  Carried(d)'
  <2>1. jobs' = Tail(jobs) /\ job' = Head(jobs)
    BY <1>5 DEF CallScript
  <2>2. jobs' \in Seq(JobsAround(d)')
    BY <1>1, <1>4, <1>5, <2>1
  <2>3. EngineAround(d)'
    BY <1>5, <2>1 DEF Carried, EngineAround
  <2> QED
    BY <1>1, <1>3, <1>5, <2>2, <2>3
\* Another job calls a host closure.
<1>6. ASSUME NEW f \in H, NEW v \in Values, NEW type, Pop(type), CallHost(f, v, Tail(jobs)),
             UNCHANGED adoptions, EngineAround(d)'
      PROVE  Carried(d)'
  <2>1. Tail(jobs) \in Seq(JobsAround(d))
    BY <1>4, <1>6
  <2>2. SlotsAround(d)' /\ jobs' \in Seq(JobsAround(d)')
    BY <1>6, <2>1, CallHostAround
  <2> QED
    BY <1>1, <1>3, <1>6, <2>2
<1>7. CASE TakeAdoptions
  <2>1. jobs' = jobs \o adoptions /\ adoptions' = <<>> /\ UNCHANGED <<slots, job, host, held>>
    BY <1>7 DEF TakeAdoptions, engine, script
  <2>2. adoptions \in Seq(JobsAround(d))
    BY <1>2 DEF JobsAround
  <2>3. jobs' \in Seq(JobsAround(d))
    BY <1>2, <2>1, <2>2
  <2>4. jobs' \in Seq(JobsAround(d)')
    BY <1>1, <2>3
  <2> QED
    BY <1>1, <1>3, <2>1, <2>4
<1>8. CASE CallHandler
  <2>1. /\ Pop("reaction") /\ Head(jobs).handler = UserFunction /\ CallScript
        /\ UNCHANGED <<slots, adoptions, host, held>>
    BY <1>8 DEF CallHandler, script
  <2>2. Head(jobs) \in J
    BY <1>4, <2>1, CarrierFields DEF UserFunction, NoFunction
  <2> QED
    BY <1>5, <2>1, <2>2 DEF Carried, EngineAround
<1>9. CASE RunHostHandler
  <2> DEFINE j == Head(jobs)
  <2>1. /\ Pop("reaction") /\ j.handler \notin Handlers
        /\ CallHost(j.handler, j.payload, Tail(jobs))
        /\ host' = [function |-> j.capability[1], argument |-> Undefined]
        /\ UNCHANGED <<adoptions, job, held>>
    BY <1>9 DEF RunHostHandler, SettlerOf, script
  <2>2. j \in J
    BY <1>4, <2>1, CarrierFields DEF Handlers
  <2>3. j.handler \in H /\ j.payload \in Values /\ j.capability[1] \in H
    BY <1>4, <2>1, <2>2, JobFields
  <2>4. EngineAround(d)'
    BY <2>1, <2>3 DEF Carried, EngineAround
  <2> QED
    BY <1>6, <2>1, <2>3, <2>4
<1>10. CASE PassThrough
  <2> DEFINE j == Head(jobs)
  <2>1. /\ Pop("reaction") /\ j.handler = NoFunction
        /\ CallHost(SettlerOf(j, j.rejecting), j.payload, Tail(jobs))
        /\ UNCHANGED <<adoptions, job, host, held>>
    BY <1>10 DEF PassThrough, engine, script
  <2>2. CASE j \in J
    <3>1. SettlerOf(j, j.rejecting) \in H /\ j.payload \in Values
      BY <1>4, <2>1, <2>2, JobFields DEF SettlerOf
    <3> QED
      BY <1>1, <1>6, <2>1, <3>1
  <2>3. CASE j \in Carriers(d)
    <3>1. /\ Settled(s) /\ j.payload = result[s] /\ j.rejecting = (state[s] # "fulfilled")
          /\ j.capability = <<ResolveOf(d), RejectOf(d)>>
      BY <1>4, <2>1, <2>3, CarrierFields
    <3>2. Tail(jobs) \in Seq(JobsAround(d))
      BY <1>4, <2>1
    <3>3. CASE state[s] # "fulfilled"
      <4>1. j.rejecting = TRUE
        BY <3>1, <3>3
      <4>2. SettlerOf(j, TRUE) = RejectOf(d) /\ CallHost(SettlerOf(j, TRUE), j.payload, Tail(jobs))
        BY <2>1, <3>1, <4>1 DEF SettlerOf
      <4>3. CallHost(RejectOf(d), result[s], Tail(jobs))
        BY <3>1, <4>2
      <4>4. CapabilitySettle(d, result[s], TRUE, Tail(jobs))
        BY <4>3 DEF CallHost, RejectOf, CapabilitySettle, SettleWithAdoption, SettleTo,
                   AdoptPromise, AttachAdoption
      <4>5. SlotsAround(d)' /\ jobs' \in Seq(JobsAround(d)')
        BY <3>1, <3>2, <3>3, <4>4, OutcomeArrives
      <4> QED
        BY <1>1, <1>3, <2>1, <4>5
    <3>4. CASE state[s] = "fulfilled"
      <4>1. j.rejecting = FALSE
        BY <3>1, <3>4
      <4>2. SettlerOf(j, FALSE) = ResolveOf(d) /\ CallHost(SettlerOf(j, FALSE), j.payload, Tail(jobs))
        BY <2>1, <3>1, <4>1 DEF SettlerOf
      <4>3. CallHost(ResolveOf(d), result[s], Tail(jobs))
        BY <3>1, <4>2
      <4>4. CapabilitySettle(d, result[s], FALSE, Tail(jobs))
        BY <4>3 DEF CallHost, ResolveOf, CapabilitySettle, SettleWithAdoption, SettleTo,
                   AdoptPromise, AttachAdoption
      <4>5. SlotsAround(d)' /\ jobs' \in Seq(JobsAround(d)')
        BY <3>1, <3>2, <3>4, <4>4, OutcomeArrives
      <4> QED
        BY <1>1, <1>3, <2>1, <4>5
    <3> QED
      BY <3>3, <3>4
  <2> QED
    BY <1>4, <2>1, <2>2, <2>3
<1>11. CASE HostCall
  <2>1. /\ control = "host" /\ CallHost(host.function, host.argument, jobs)
        /\ host' = NoCall /\ UNCHANGED <<adoptions, job, held>>
    BY <1>11 DEF HostCall, script
  <2>2. host.function \in H /\ host.argument \in Values
    <3>1. /\ host.function \in HostFunctionsOf(Allocated, Reachable) /\ host.argument \in Reachable
      BY <2>1 DEF TypeInv, EngineTyped
    <3>2. host.function # NoFunction
      BY <3>1, HostNotHandler, ZenonT(40) DEF Handlers
    <3>3. Reachable \subseteq Values
      BY Known DEF Reachable, Values
    <3> QED
      BY <3>1, <3>2, <3>3 DEF Carried, EngineAround
  <2>3. SlotsAround(d)' /\ jobs' \in Seq(JobsAround(d)')
    BY <1>2, <2>1, <2>2, CallHostAround
  <2>4. EngineAround(d)'
    BY <2>1 DEF Carried, EngineAround, NoCall
  <2> QED
    BY <1>1, <1>3, <2>1, <2>3, <2>4
<1>12. CASE CallThen
  <2>1. /\ Pop("thenable") /\ Head(jobs).thenable \in Thenables /\ CallScript
        /\ held' = held \cup {Head(jobs).promise} /\ UNCHANGED <<slots, adoptions, host>>
    BY <1>12 DEF CallThen
  <2>2. Head(jobs) \in J
    BY <1>4, <2>1, CarrierFields, ValuesAssumption
  <2>3. Head(jobs).promise \in O
    BY <1>4, <2>1, <2>2, JobFields
  <2>4. d \notin held'
    BY <2>1, <2>3 DEF Carried, EngineAround, Others
  <2> QED
    BY <1>5, <2>1, <2>2, <2>4
<1>13. CASE ThenNotCallable
  <2> DEFINE j == Head(jobs)
  <2>1. /\ Pop("thenable") /\ j.thenable \in Inert
        /\ SettleWithAdoption(j.promise, j.thenable, FALSE, FALSE, Tail(jobs))
        /\ UNCHANGED <<adoptions, job, host, held>>
    BY <1>13 DEF ThenNotCallable, engine, script
  <2>2. Tail(jobs) \in Seq(JobsAround(d)) /\ j.type = "thenable"
    BY <1>4, <2>1
  <2>3. SlotsAround(d)' /\ jobs' \in Seq(JobsAround(d)')
    <3>1. CASE j \in J
      <4>1. j.promise \in O /\ j.thenable \in Values
        BY <2>1, <2>2, <3>1, JobFields DEF Values, OtherValues
      <4>2. Settles(j.promise, j.thenable, Tail(jobs))
        BY <2>1 DEF Settles
      <4> QED
        BY <2>2, <4>1, <4>2, SettlesAround
    <3>2. CASE j \in Carriers(d)
      <4>1. Settled(s) /\ j.promise = d /\ j.thenable = result[s] /\ state[s] = "fulfilled"
        BY <2>2, <3>2, CarrierFields
      <4> QED
        BY <2>1, <2>2, <4>1, OutcomeArrives
    <3> QED
      BY <1>4, <2>1, <3>1, <3>2
  <2> QED
    BY <1>1, <1>3, <2>1, <2>3
<1>14. ASSUME NEW e \in Plain, ThenThrows(e) PROVE Carried(d)'
  <2> DEFINE j == Head(jobs)
  <2>1. /\ Pop("thenable") /\ j.thenable \in Poisoned
        /\ CapabilitySettle(j.promise, e, TRUE, Tail(jobs))
        /\ UNCHANGED <<adoptions, job, host, held>>
    BY <1>14 DEF ThenThrows, engine, script
  <2>2. j \in J
    BY <1>4, <2>1, CarrierFields, ValuesAssumption
  <2>3. j.promise \in O /\ e \in Values
    BY <1>4, <2>1, <2>2, JobFields DEF Values, OtherValues
  <2>4. Tail(jobs) \in Seq(JobsAround(d)) /\ Settles(j.promise, e, Tail(jobs))
    BY <1>4, <2>1 DEF Settles
  <2>5. SlotsAround(d)' /\ jobs' \in Seq(JobsAround(d)')
    BY <2>3, <2>4, SettlesAround
  <2> QED
    BY <1>1, <1>3, <2>1, <2>5
<1>15. CASE CallFinally
  <2>1. Pop("finally") /\ CallScript /\ UNCHANGED <<slots, adoptions, host, held>>
    BY <1>15 DEF CallFinally, script
  <2>2. Head(jobs) \in J
    BY <1>4, <2>1, CarrierFields
  <2> QED
    BY <1>5, <2>1, <2>2 DEF Carried, EngineAround
<1>16. CASE FinallyNotCallable
  <2> DEFINE j == Head(jobs)
  <2>1. /\ Pop("finally") /\ CallHost(WatchedHalf(j), j.payload, Tail(jobs))
        /\ UNCHANGED <<adoptions, job, host, held>>
    BY <1>16 DEF FinallyNotCallable, engine, script
  <2>2. j \in J /\ j.type = "finally"
    BY <1>4, <2>1, CarrierFields
  <2>3. WatchedHalf(j) \in H /\ j.payload \in Values
    BY <2>2, JobFields DEF WatchedHalf, HostFunctionsOf
  <2> QED
    BY <1>1, <1>6, <2>1, <2>3
<1>17. CASE RunCall
  <2> DEFINE j == Head(jobs)
  <2>1. /\ Pop("call") /\ CallHost(j.function, j.payload, Tail(jobs))
        /\ UNCHANGED <<adoptions, job, host, held>>
    BY <1>17 DEF RunCall, engine, script
  <2>2. j \in J /\ j.type = "call"
    BY <1>4, <2>1, CarrierFields
  <2>3. j.function \in H /\ j.payload \in Values
    BY <2>2, JobFields
  <2> QED
    BY <1>1, <1>6, <2>1, <2>3
<1>18. CASE RunMicrotask
  <2>1. Pop("microtask") /\ CallScript /\ UNCHANGED <<slots, adoptions, host, held>>
    BY <1>18 DEF RunMicrotask, script
  <2>2. Head(jobs) \in J
    BY <1>4, <2>1, CarrierFields
  <2> QED
    BY <1>5, <2>1, <2>2 DEF Carried, EngineAround
<1> QED
  BY <1>7, <1>8, <1>9, <1>10, <1>11, <1>12, <1>13, <1>14, <1>15, <1>16, <1>17, <1>18 DEF Drain

\* A then without handlers starts its promise off.
LEMMA PassBegins ==
    ASSUME TypeInv, NEW p \in Promises, NEW d \in Promises, d = count + 1,
           Then(p, NoFunction, NoFunction), origin'[d].source = p
    PROVE  Carried(d)'
<1> DEFINE O == Others(d)
           J == JobsOf(O, Values)
<1>1. /\ p \in Allocated /\ UNCHANGED <<adoptions, job, host, held>>
      /\ count < MaxPromises /\ count' = count + 1
      /\ InstallThenRecord(p, NoFunction, NoFunction, d)
  BY DEF Then, Operation, Allocate, TypeInv, ScriptTyped, engine
<1>2. /\ d \notin Allocated /\ state[d] = "pending" /\ d # p
  BY <1>1, NewPromise
<1>3. Allocated \subseteq O /\ Reachable \subseteq Values
  BY <1>2, Known DEF Others, Reachable, Values
<1>4. /\ HostFunctionsOf(Allocated, Reachable) \subseteq HostFunctionsOf(O, Values)
      /\ RecordsOf(Allocated, Reachable) \subseteq RecordsOf(O, Values)
      /\ JobsOf(Allocated, Reachable) \subseteq J
  BY <1>3, BuildMore
<1>5. jobs \in Seq(J) /\ adoptions \in Seq(J)
  BY <1>4 DEF TypeInv, QueuesTyped
<1>6. \A x \in Promises : reactions[x] \in Seq(RecordsOf(O, Values))
  BY <1>4 DEF TypeInv, SlotsTyped
<1>7. job \in J \cup {NoJob} /\ host.function \in HostFunctionsOf(O, Values) \cup {NoFunction}
  BY <1>4 DEF TypeInv, EngineTyped, NoCall
<1>8. EngineAround(d)'
  BY <1>1, <1>2, <1>7 DEF EngineAround, TypeInv, ScriptTyped
<1>9. DOMAIN reactions = Promises /\ p \in O /\ state \in [Promises -> States]
  BY <1>1, <1>3 DEF TypeInv, SlotsTyped
<1>10. CASE state[p] = "pending"
  <2>1. /\ reactions' = [reactions EXCEPT ![p] = Append(@, Bare(d))]
        /\ UNCHANGED <<state, result, jobs>>
    BY <1>1, <1>10 DEF InstallThenRecord, Bare
  <2>2. \A x \in Promises : reactions'[x] \in Seq(RecordsAround(d, x)')
    <3> SUFFICES ASSUME NEW x \in Promises PROVE reactions'[x] \in Seq(RecordsAround(d, x)')
      OBVIOUS
    <3>1. CASE x = p
      <4>1. RecordsAround(d, x)' = RecordsOf(O, Values) \cup {Bare(d)}
        BY <3>1 DEF RecordsAround
      <4>2. reactions[p] \in Seq(RecordsOf(O, Values) \cup {Bare(d)})
        BY <1>6
      <4>3. Append(reactions[p], Bare(d)) \in Seq(RecordsOf(O, Values) \cup {Bare(d)})
        BY <4>2
      <4> QED
        BY <1>9, <2>1, <3>1, <4>1, <4>3
    <3>2. CASE x # p
      <4>1. RecordsAround(d, x)' = RecordsOf(O, Values)
        BY <3>2 DEF RecordsAround
      <4> QED
        BY <1>6, <1>9, <2>1, <3>2, <4>1
    <3> QED
      BY <3>1, <3>2
  <2>3. SlotsAround(d)'
    BY <1>2, <2>1, <2>2 DEF SlotsAround, Settled
  <2>4. QueuesAround(d)'
    BY <1>1, <1>5, <2>1 DEF QueuesAround, JobsAround
  <2> QED
    BY <1>8, <1>9, <2>3, <2>4 DEF Carried
<1>11. CASE state[p] # "pending"
  <2>1. /\ jobs' = Append(jobs, JobOfRecord(Bare(d), state[p], result[p]))
        /\ UNCHANGED slots
    BY <1>1, <1>11 DEF InstallThenRecord, Bare
  <2>2. JobOfRecord(Bare(d), state[p], result[p]) \in Carriers(d)'
    BY <1>11, <2>1 DEF Carriers, Settled, slots
  <2>3. \A x \in Promises : reactions'[x] \in Seq(RecordsAround(d, x)')
    BY <1>6, <2>1 DEF RecordsAround, slots
  <2>4. SlotsAround(d)'
    BY <1>2, <2>1, <2>3 DEF SlotsAround, Settled, slots
  <2>5. jobs \in Seq(JobsAround(d)') /\ JobOfRecord(Bare(d), state[p], result[p]) \in JobsAround(d)'
    BY <1>5, <2>2 DEF JobsAround
  <2>6. jobs' \in Seq(JobsAround(d)')
    BY <2>1, <2>5
  <2>7. QueuesAround(d)'
    BY <1>1, <1>5, <2>6 DEF QueuesAround
  <2> QED
    BY <1>8, <1>9, <2>4, <2>7 DEF Carried
<1> QED
  BY <1>10, <1>11

\* How a derived promise came to be is written down when it is allocated.
LEMMA OriginStays ==
    ASSUME TypeInv, [Next]_vars, NEW d \in Promises
    PROVE  \/ origin'[d] = origin[d]
           \/ \E p \in Promises, f \in Handlers, g \in Handlers :
                 Then(p, f, g) /\ d = count + 1
           \/ \E p \in Promises, cb \in Handlers : Finally(p, cb) /\ d = count + 1
<1>1. ASSUME UNCHANGED origin PROVE origin'[d] = origin[d]
  BY <1>1
<1>2. ASSUME NEW p \in Promises, NEW f \in Handlers, NEW g \in Handlers, Then(p, f, g)
      PROVE  origin'[d] = origin[d] \/ d = count + 1
  BY <1>2 DEF Then
<1>3. ASSUME NEW p \in Promises, NEW cb \in Handlers, Finally(p, cb)
      PROVE  origin'[d] = origin[d] \/ d = count + 1
  BY <1>3 DEF Finally
<1>4. CASE UNCHANGED vars
  BY <1>4 DEF vars, history
<1>5. CASE ScriptReturns
  BY <1>5 DEF ScriptReturns, EndScript, MicrotaskDone, HandlerDone, ThenDone, FinallyThrows,
              FinallyReturns, AdoptFinallyResult, Finish, history
<1>6. CASE Drain
  BY <1>6 DEF Drain, TakeAdoptions, CallHandler, RunHostHandler, PassThrough, HostCall, CallThen,
              ThenNotCallable, ThenThrows, CallFinally, FinallyNotCallable, RunCall, RunMicrotask,
              history
<1>7. CASE Script
  <2>1. \/ Construct \/ QueueMicrotask \/ NextScript
        \/ \E p \in Promises, v \in Values, r \in BOOLEAN : CallResolving(p, v, r)
        \/ \E v \in OtherValues : PromiseResolve(v)
        \/ \E v \in Values : PromiseReject(v)
        => UNCHANGED origin
    BY DEF Construct, QueueMicrotask, NextScript, CallResolving, PromiseResolve, PromiseReject, history
  <2> QED
    BY <1>2, <1>3, <1>7, <2>1 DEF Script
<1> QED
  BY <1>4, <1>5, <1>6, <1>7 DEF Next

LEMMA PassStep == TypeInv /\ FulfilledIsFinal /\ PassInv /\ [Next]_vars => PassInv'
<1> SUFFICES ASSUME TypeInv, FulfilledIsFinal, PassInv, [Next]_vars,
                    NEW d \in Promises, origin'[d].by = "passThrough"
             PROVE  Carried(d)'
  BY DEF PassInv
<1>1. CASE origin'[d] = origin[d]
  <2>1. Carried(d) /\ d \in Allocated
    BY <1>1 DEF PassInv, TypeInv, FreshUntouched
  <2>2. CASE UNCHANGED vars
    BY <2>1, <2>2 DEF vars, slots, queues, engine, script, history, Carried, SlotsAround, QueuesAround,
                  EngineAround, JobsAround, RecordsAround, Carriers, Settled
  <2> QED
    BY <1>1, <2>1, <2>2, PassScript, PassReturn, PassDrain DEF Next
<1>2. ASSUME NEW p \in Promises, NEW f \in Handlers, NEW g \in Handlers, Then(p, f, g), d = count + 1
      PROVE  Carried(d)'
  <2>1. origin' = [origin EXCEPT ![d] =
            [source |-> p, by |-> IF Callable(f) \/ Callable(g) THEN "then" ELSE "passThrough"]]
    BY <1>2 DEF Then
  <2>2. /\ origin'[d].source = p
        /\ origin'[d].by = IF Callable(f) \/ Callable(g) THEN "then" ELSE "passThrough"
    BY <2>1 DEF TypeInv
  <2>3. f = NoFunction /\ g = NoFunction
    BY <2>2 DEF Handlers, Callable, UserFunction, NoFunction
  <2> QED
    BY <1>2, <2>2, <2>3, PassBegins
<1>3. ASSUME NEW p \in Promises, NEW cb \in Handlers, Finally(p, cb), d = count + 1
      PROVE  FALSE
  BY <1>3 DEF Finally, TypeInv
<1> QED
  BY <1>1, <1>2, <1>3, OriginStays

\* then(undefined, undefined) passes on the outcome of its source, value and
\* kind: nothing but the reaction job of its own record, and the thenable job
\* that follows it, ever settles its promise (install_then_record,
\* drain_reaction_jobs, reaction_job).
THEOREM OutcomesPassThrough == Spec => []PassThroughKeepsOutcome
<1>1. Init => PassInv
  BY DEF Init, PassInv
<1> QED
  BY <1>1, PassStep, PassInvIsOutcome, NothingUnallocated, FulfilmentIsFinal, PTL DEF Spec

-----------------------------------------------------------------------------
(* The machinery implements PromiseContract.                               *)

(* Named, the walk that leaves out what has no derived promise.            *)

Prefixes(s) ==
    CHOOSE upTo : upTo = [i \in 0 .. Len(s) |->
        IF i = 0 THEN <<>>
        ELSE IF s[i] = Unobserved THEN upTo[i - 1] ELSE Append(upTo[i - 1], s[i])]

\* The recursive function is defined, whatever the length of the sequence.
LEMMA PrefixesRecur ==
    ASSUME NEW s \in Seq(Nat)
    PROVE  /\ Named(s) = Prefixes(s)[Len(s)]
           /\ \A i \in 0 .. Len(s) :
                 Prefixes(s)[i] =
                    IF i = 0 THEN <<>>
                    ELSE IF s[i] = Unobserved THEN Prefixes(s)[i - 1]
                    ELSE Append(Prefixes(s)[i - 1], s[i])
<1> DEFINE next(t, i) == IF s[i] = Unobserved THEN t ELSE Append(t, s[i])
           upTo(m) == \E f : f = [i \in 0 .. m |-> IF i = 0 THEN <<>> ELSE next(f[i - 1], i)]
           S == {m \in Nat : upTo(m)}
<1>1. 0 \in S
  <2> DEFINE f == [i \in 0 .. 0 |-> <<>>]
  <2>1. f = [i \in 0 .. 0 |-> IF i = 0 THEN <<>> ELSE next(f[i - 1], i)]
    <3> HIDE DEF next
    <3> QED
      OBVIOUS
  <2> QED
    BY <2>1
<1>2. ASSUME NEW m \in Nat, m \in S
      PROVE  m + 1 \in S
  <2>1. PICK f : f = [i \in 0 .. m |-> IF i = 0 THEN <<>> ELSE next(f[i - 1], i)]
    BY <1>2
  <2> DEFINE g == [i \in 0 .. m + 1 |-> IF i <= m THEN f[i] ELSE next(f[m], m + 1)]
  <2> HIDE DEF next
  <2>2. ASSUME NEW i \in 0 .. m + 1
        PROVE  g[i] = IF i = 0 THEN <<>> ELSE next(g[i - 1], i)
    <3>1. CASE i = 0
      BY <2>1, <3>1
    <3>2. CASE i # 0 /\ i <= m
      <4>1. f[i] = next(f[i - 1], i)
        BY <2>1, <3>2
      <4>2. g[i] = f[i] /\ g[i - 1] = f[i - 1]
        BY <3>2
      <4> QED
        BY <3>2, <4>1, <4>2
    <3>3. CASE i = m + 1
      <4>1. g[i] = next(f[m], m + 1) /\ g[i - 1] = f[m] /\ i # 0
        BY <3>3
      <4> QED
        BY <3>3, <4>1
    <3> QED
      BY <3>1, <3>2, <3>3
  <2>3. g = [i \in 0 .. m + 1 |-> IF i = 0 THEN <<>> ELSE next(g[i - 1], i)]
    BY <2>2
  <2>4. upTo(m + 1)
    <3> HIDE DEF g
    <3> QED
      BY <2>3, Zenon
  <2> QED
    BY <2>4, SMTT(30)
<1>3. Nat \subseteq S
  <2> HIDE DEF S
  <2> QED
    BY <1>1, <1>2, AllNumbers
<1>4. Len(s) \in Nat
  OBVIOUS
<1>5. upTo(Len(s))
  BY <1>3, <1>4
<1>6. Prefixes(s) = [i \in 0 .. Len(s) |-> IF i = 0 THEN <<>> ELSE next(Prefixes(s)[i - 1], i)]
  BY <1>5, Zenon DEF Prefixes
<1>7. Named(s) = Prefixes(s)[Len(s)]
  BY Zenon DEF Named, Prefixes
<1> HIDE DEF next
<1>8. \A i \in 0 .. Len(s) :
         Prefixes(s)[i] = IF i = 0 THEN <<>> ELSE next(Prefixes(s)[i - 1], i)
  BY <1>6
<1> QED
  BY <1>7, <1>8 DEF next

\* Named gives promises.
LEMMA NamedType ==
    ASSUME NEW s \in Seq(Nat)
    PROVE  /\ \A i \in 0 .. Len(s) : Prefixes(s)[i] \in Seq(Nat)
           /\ Named(s) \in Seq(Nat)
<1> DEFINE S == {i \in Nat : i <= Len(s) => Prefixes(s)[i] \in Seq(Nat)}
<1>1. 0 \in S
  <2>1. Prefixes(s)[0] = <<>>
    BY PrefixesRecur
  <2>2. <<>> \in Seq(Nat)
    BY EmptySeq
  <2>3. Prefixes(s)[0] \in Seq(Nat)
    BY <2>1, <2>2
  <2> QED
    BY <2>3
<1>2. ASSUME NEW i \in Nat, i \in S
      PROVE  i + 1 \in S
  <2> SUFFICES ASSUME i + 1 <= Len(s)
               PROVE  Prefixes(s)[i + 1] \in Seq(Nat)
    OBVIOUS
  <2>1. i + 1 \in 0 .. Len(s) /\ i + 1 # 0 /\ (i + 1) - 1 = i /\ s[i + 1] \in Nat
    OBVIOUS
  <2>2. Prefixes(s)[i + 1] = IF s[i + 1] = Unobserved THEN Prefixes(s)[i]
                             ELSE Append(Prefixes(s)[i], s[i + 1])
    BY <2>1, PrefixesRecur
  <2>3. Prefixes(s)[i] \in Seq(Nat)
    BY <1>2, <2>1
  <2> QED
    BY <2>1, <2>2, <2>3
<1>3. Nat \subseteq S
  <2> HIDE DEF S
  <2> QED
    BY <1>1, <1>2, AllNumbers
<1>4. Len(s) \in Nat
  OBVIOUS
<1>5. \A i \in 0 .. Len(s) : Prefixes(s)[i] \in Seq(Nat)
  BY <1>3, <1>4
<1> QED
  BY <1>4, <1>5, PrefixesRecur

\* What is put behind the second part is put behind the whole.
LEMMA AppendLast ==
    ASSUME NEW a \in Seq(Nat), NEW b \in Seq(Nat), NEW e \in Nat
    PROVE  Append(a \o b, e) = a \o Append(b, e)
<1>1. Append(a \o b, e) \in Seq(Nat) /\ a \o Append(b, e) \in Seq(Nat)
  OBVIOUS
<1>2. Len(Append(a \o b, e)) = Len(a \o Append(b, e))
  OBVIOUS
<1>3. \A i \in 1 .. Len(Append(a \o b, e)) : Append(a \o b, e)[i] = (a \o Append(b, e))[i]
  OBVIOUS
<1> QED
  BY <1>1, <1>2, <1>3, SeqEqual

\* Named of a concatenation: the walk over the first part, then over the second.
LEMMA NamedConcat ==
    ASSUME NEW s \in Seq(Nat), NEW t \in Seq(Nat)
    PROVE  Named(s \o t) = Named(s) \o Named(t)
<1> DEFINE u == s \o t
           m == Len(s)
           n == Len(t)
<1>1. /\ u \in Seq(Nat) /\ m \in Nat /\ n \in Nat /\ Len(u) = m + n
      /\ \A i \in 1 .. m : u[i] = s[i]
      /\ \A i \in 1 .. n : u[m + i] = t[i]
  OBVIOUS
<1> HIDE DEF u, m, n
<1>2. \A i \in 0 .. m : Prefixes(u)[i] = Prefixes(s)[i]
  <2> DEFINE S == {i \in Nat : i <= m => Prefixes(u)[i] = Prefixes(s)[i]}
  <2>1. 0 \in S
    <3>1. Prefixes(u)[0] = <<>> /\ Prefixes(s)[0] = <<>>
      BY <1>1, PrefixesRecur DEF m
    <3> QED
      BY <3>1
  <2>2. ASSUME NEW i \in Nat, i \in S
        PROVE  i + 1 \in S
    <3> SUFFICES ASSUME i + 1 <= m
                 PROVE  Prefixes(u)[i + 1] = Prefixes(s)[i + 1]
      OBVIOUS
    <3>1. /\ i + 1 \in 0 .. Len(u) /\ i + 1 \in 0 .. Len(s) /\ i + 1 # 0 /\ (i + 1) - 1 = i
          /\ u[i + 1] = s[i + 1]
      BY <1>1 DEF m
    <3>2. Prefixes(u)[i + 1] = IF u[i + 1] = Unobserved THEN Prefixes(u)[i]
                               ELSE Append(Prefixes(u)[i], u[i + 1])
      BY <1>1, <3>1, PrefixesRecur, SMTT(30)
    <3>3. Prefixes(s)[i + 1] = IF s[i + 1] = Unobserved THEN Prefixes(s)[i]
                               ELSE Append(Prefixes(s)[i], s[i + 1])
      BY <3>1, PrefixesRecur
    <3>4. Prefixes(u)[i] = Prefixes(s)[i]
      BY <1>1, <2>2
    <3> QED
      BY <3>1, <3>2, <3>3, <3>4
  <2>3. Nat \subseteq S
    <3> HIDE DEF S
    <3> QED
      BY <2>1, <2>2, AllNumbers
  <2> QED
    BY <1>1, <2>3
<1>3. \A i \in 0 .. n : Prefixes(u)[m + i] = Named(s) \o Prefixes(t)[i]
  <2> DEFINE S == {i \in Nat : i <= n => Prefixes(u)[m + i] = Named(s) \o Prefixes(t)[i]}
  <2>0. Named(s) \in Seq(Nat) /\ Named(s) = Prefixes(s)[m]
    BY NamedType, PrefixesRecur DEF m
  <2>1. 0 \in S
    <3>1. Prefixes(u)[m + 0] = Named(s)
      BY <1>1, <1>2, <2>0
    <3>2. Prefixes(t)[0] = <<>>
      BY <1>1, PrefixesRecur DEF n
    <3>3. Named(s) \o <<>> = Named(s)
      BY <2>0, ConcatEmptySeq
    <3> QED
      BY <3>1, <3>2, <3>3
  <2>2. ASSUME NEW i \in Nat, i \in S
        PROVE  i + 1 \in S
    <3> SUFFICES ASSUME i + 1 <= n
                 PROVE  Prefixes(u)[m + (i + 1)] = Named(s) \o Prefixes(t)[i + 1]
      OBVIOUS
    <3>1. /\ m + (i + 1) \in 0 .. Len(u) /\ m + (i + 1) # 0 /\ (m + (i + 1)) - 1 = m + i
          /\ i + 1 \in 0 .. Len(t) /\ i + 1 # 0 /\ (i + 1) - 1 = i /\ i \in 0 .. Len(t)
          /\ u[m + (i + 1)] = t[i + 1] /\ t[i + 1] \in Nat
      BY <1>1, SMTT(30) DEF n
    <3>2. Prefixes(u)[m + (i + 1)] =
             IF t[i + 1] = Unobserved THEN Prefixes(u)[m + i]
             ELSE Append(Prefixes(u)[m + i], t[i + 1])
      BY <1>1, <3>1, PrefixesRecur, ZenonT(40)
    <3>3. Prefixes(t)[i + 1] = IF t[i + 1] = Unobserved THEN Prefixes(t)[i]
                               ELSE Append(Prefixes(t)[i], t[i + 1])
      BY <3>1, PrefixesRecur
    <3>4. Prefixes(u)[m + i] = Named(s) \o Prefixes(t)[i]
      BY <1>1, <2>2
    <3>5. Prefixes(t)[i] \in Seq(Nat)
      BY <3>1, NamedType
    <3>6. Append(Named(s) \o Prefixes(t)[i], t[i + 1]) = Named(s) \o Append(Prefixes(t)[i], t[i + 1])
      BY <2>0, <3>1, <3>5, AppendLast
    <3> QED
      BY <3>2, <3>3, <3>4, <3>6
  <2>3. Nat \subseteq S
    <3> HIDE DEF S
    <3> QED
      BY <2>1, <2>2, AllNumbers
  <2> QED
    BY <1>1, <2>3
<1>4. Named(u) = Prefixes(u)[m + n] /\ Named(t) = Prefixes(t)[n]
  BY <1>1, PrefixesRecur DEF n
<1> QED
  BY <1>1, <1>3, <1>4 DEF u

\* One element, and none.
LEMMA NamedOne ==
    /\ Named(<<>>) = <<>>
    /\ \A d \in Nat : Named(<<d>>) = IF d = Unobserved THEN <<>> ELSE <<d>>
<1>1. Named(<<>>) = <<>>
  <2> DEFINE s == <<>>
  <2>1. s \in Seq(Nat) /\ Len(s) = 0 /\ 0 \in 0 .. 0
    BY EmptySeq
  <2> HIDE DEF s
  <2>2. Named(s) = Prefixes(s)[0] /\ Prefixes(s)[0] = <<>>
    BY <2>1, PrefixesRecur
  <2> QED
    BY <2>2 DEF s
<1>2. ASSUME NEW d \in Nat
      PROVE  Named(<<d>>) = IF d = Unobserved THEN <<>> ELSE <<d>>
  <2> DEFINE s == <<d>>
  <2>1. s \in Seq(Nat) /\ Len(s) = 1 /\ s[1] = d /\ 0 \in 0 .. 1 /\ 1 \in 0 .. 1 /\ 1 - 1 = 0 /\ 1 # 0
    OBVIOUS
  <2> HIDE DEF s
  <2>2. Prefixes(s)[0] = <<>>
    BY <2>1, PrefixesRecur
  <2>3. Prefixes(s)[1] = IF d = Unobserved THEN Prefixes(s)[0] ELSE Append(Prefixes(s)[0], d)
    BY <2>1, PrefixesRecur
  <2>4. Named(s) = Prefixes(s)[1]
    BY <2>1, PrefixesRecur
  <2>5. Append(<<>>, d) = <<d>>
    OBVIOUS
  <2> QED
    BY <2>2, <2>3, <2>4, <2>5 DEF s
<1> QED
  BY <1>1, <1>2

\* Nothing is left of a sequence without names.
LEMMA NamedNothing ==
    ASSUME NEW s \in Seq(Nat), \A i \in 1 .. Len(s) : s[i] = Unobserved
    PROVE  Named(s) = <<>>
<1> DEFINE S == {i \in Nat : i <= Len(s) => Prefixes(s)[i] = <<>>}
<1>1. Len(s) \in Nat
  OBVIOUS
<1>2. 0 \in S
  <2>1. Prefixes(s)[0] = <<>>
    BY <1>1, PrefixesRecur
  <2> QED
    BY <2>1
<1>3. ASSUME NEW i \in Nat, i \in S
      PROVE  i + 1 \in S
  <2> SUFFICES ASSUME i + 1 <= Len(s)
               PROVE  Prefixes(s)[i + 1] = <<>>
    OBVIOUS
  <2>1. i + 1 \in 0 .. Len(s) /\ i + 1 # 0 /\ (i + 1) - 1 = i /\ s[i + 1] = Unobserved
    BY <1>1
  <2>2. Prefixes(s)[i + 1] = Prefixes(s)[i]
    BY <2>1, PrefixesRecur
  <2> QED
    BY <1>1, <1>3, <2>2
<1>4. Nat \subseteq S
  <2> HIDE DEF S
  <2> QED
    BY <1>2, <1>3, AllNumbers
<1>5. Prefixes(s)[Len(s)] = <<>>
  BY <1>1, <1>4
<1> QED
  BY <1>5, PrefixesRecur

-----------------------------------------------------------------------------
(* The reactions in a queue and among the records of a promise.             *)

AllJobs == JobsOf(Promises, Values)
AllRecords == RecordsOf(Promises, Values)

\* A job that names a derived promise has that promise's own capability, and a
\* handler of script or none.
Proper(j) ==
    j.type = "reaction" /\ j.derived # Unobserved =>
        j.handler \in Handlers /\ j.capability = <<ResolveOf(j.derived), RejectOf(j.derived)>>
ProperJobs == {j \in AllJobs : Proper(j)}

\* A reaction job that names a derived promise carries that promise's own capability.
LEMMA ProperCapability ==
    ASSUME NEW q \in ProperJobs, q.type = "reaction", q.derived # Unobserved
    PROVE  q.capability = <<ResolveOf(q.derived), RejectOf(q.derived)>>
BY DEF ProperJobs, Proper

\* Adoptions are thenable jobs only (Interp::pending_adoptions).
AdoptionJobs == {j \in AllJobs : j.type = "thenable"}

\* The derived promise of a job, of a record and of the job of a record.
LEMMA DerivedType ==
    /\ \A j \in AllJobs : DerivedOf(j) \in Nat
    /\ \A r \in AllRecords : r[3] \in Nat
    /\ \A j \in AdoptionJobs : j \in ProperJobs /\ DerivedOf(j) = Unobserved
<1>1. Promises \cup {Unobserved} \subseteq Nat
  BY BoundsAssumption DEF Promises, Unobserved
<1>2. \A j \in AllJobs : DerivedOf(j) \in Nat
  BY <1>1, JobFields DEF AllJobs, DerivedOf
<1>3. \A r \in AllRecords : r[3] \in Nat
  BY <1>1 DEF AllRecords, RecordsOf, ThenRecord, AdoptionRecord, WatchRecord
<1>4. \A j \in AdoptionJobs : j \in ProperJobs /\ DerivedOf(j) = Unobserved
  BY DEF AdoptionJobs, ProperJobs, Proper, DerivedOf
<1> QED
  BY <1>2, <1>3, <1>4

NamesOf(q) == [i \in DOMAIN q |-> DerivedOf(q[i])]
SlotsIn(r) == [i \in DOMAIN r |-> r[i][3]]

\* The names of a queue, job by job.
LEMMA NamesType ==
    ASSUME NEW q \in Seq(AllJobs)
    PROVE  /\ NamesOf(q) \in Seq(Nat) /\ Len(NamesOf(q)) = Len(q) /\ DueIn(q) = Named(NamesOf(q))
           /\ \A i \in 1 .. Len(q) : NamesOf(q)[i] = DerivedOf(q[i])
<1>1. DOMAIN q = 1 .. Len(q) /\ Len(q) \in Nat /\ \A i \in 1 .. Len(q) : q[i] \in AllJobs
  BY LenProperties
<1>2. NamesOf(q) \in [1 .. Len(q) -> Nat]
  BY <1>1, DerivedType DEF NamesOf
<1> QED
  BY <1>1, <1>2 DEF NamesOf, DueIn

\* The promise slots of the records of a promise.
LEMMA RecordSlotsType ==
    ASSUME NEW r \in Seq(AllRecords)
    PROVE  /\ SlotsIn(r) \in Seq(Nat) /\ Len(SlotsIn(r)) = Len(r) /\ WaitingIn(r) = Named(SlotsIn(r))
           /\ \A i \in 1 .. Len(r) : SlotsIn(r)[i] = r[i][3]
<1>1. DOMAIN r = 1 .. Len(r) /\ Len(r) \in Nat /\ \A i \in 1 .. Len(r) : r[i] \in AllRecords
  BY LenProperties
<1>2. SlotsIn(r) \in [1 .. Len(r) -> Nat]
  BY <1>1, DerivedType DEF SlotsIn
<1> QED
  BY <1>1, <1>2 DEF SlotsIn, WaitingIn

\* The reactions of two queues, one behind the other.
LEMMA DueConcat ==
    ASSUME NEW q \in Seq(AllJobs), NEW r \in Seq(AllJobs)
    PROVE  DueIn(q \o r) = DueIn(q) \o DueIn(r)
<1> DEFINE u == q \o r
           a == NamesOf(q)
           b == NamesOf(r)
<1>1. /\ u \in Seq(AllJobs) /\ Len(u) = Len(q) + Len(r) /\ Len(q) \in Nat /\ Len(r) \in Nat
      /\ \A i \in 1 .. Len(u) : u[i] = IF i <= Len(q) THEN q[i] ELSE r[i - Len(q)]
  BY ConcatProperties
<1>2. /\ a \in Seq(Nat) /\ Len(a) = Len(q) /\ \A i \in 1 .. Len(q) : a[i] = DerivedOf(q[i])
      /\ b \in Seq(Nat) /\ Len(b) = Len(r) /\ \A i \in 1 .. Len(r) : b[i] = DerivedOf(r[i])
  BY NamesType
<1> HIDE DEF u, a, b
<1>3. NamesOf(u) \in Seq(Nat) /\ Len(NamesOf(u)) = Len(u)
      /\ \A i \in 1 .. Len(u) : NamesOf(u)[i] = DerivedOf(u[i])
  BY <1>1, NamesType
<1>4. /\ a \o b \in Seq(Nat) /\ Len(a \o b) = Len(u)
      /\ \A i \in 1 .. Len(u) : (a \o b)[i] = IF i <= Len(q) THEN a[i] ELSE b[i - Len(q)]
  <2>1. /\ a \o b \in Seq(Nat) /\ Len(a \o b) = Len(a) + Len(b)
        /\ \A i \in 1 .. Len(a) + Len(b) :
              (a \o b)[i] = IF i <= Len(a) THEN a[i] ELSE b[i - Len(a)]
    <3>1. a \in Seq(Nat) /\ b \in Seq(Nat)
      BY <1>2
    <3> QED
      BY <3>1, ConcatProperties
  <2>2. Len(a) + Len(b) = Len(u)
    BY <1>1, <1>2
  <2> QED
    BY <1>2, <2>1, <2>2
<1>5. \A i \in 1 .. Len(u) : NamesOf(u)[i] = (a \o b)[i]
  <2> TAKE i \in 1 .. Len(u)
  <2>1. CASE i <= Len(q)
    BY <1>1, <1>2, <1>3, <1>4, <2>1
  <2>2. CASE ~(i <= Len(q))
    <3>1. i - Len(q) \in 1 .. Len(r)
      BY <1>1, <2>2
    <3> QED
      BY <1>1, <1>2, <1>3, <1>4, <2>2, <3>1
  <2> QED
    BY <2>1, <2>2
<1>6. NamesOf(u) = a \o b
  BY <1>3, <1>4, <1>5, SeqEqual
<1>7. Named(a \o b) = Named(a) \o Named(b)
  BY <1>2, NamedConcat
<1>8. DueIn(u) = Named(NamesOf(u)) /\ DueIn(q) = Named(a) /\ DueIn(r) = Named(b)
  BY <1>1, NamesType DEF a, b
<1> QED
  BY <1>6, <1>7, <1>8 DEF u

\* One job.
LEMMA DueOne ==
    ASSUME NEW j \in AllJobs
    PROVE  DueIn(<<j>>) = IF DerivedOf(j) = Unobserved THEN <<>> ELSE <<DerivedOf(j)>>
<1>1. DerivedOf(j) \in Nat
  BY DerivedType
<1>2. NamesOf(<<j>>) = <<DerivedOf(j)>>
  BY DEF NamesOf
<1>3. DueIn(<<j>>) = Named(NamesOf(<<j>>))
  BY DEF DueIn, NamesOf
<1> QED
  BY <1>1, <1>2, <1>3, NamedOne

\* A job behind a queue, and the job a queue starts with.
LEMMA DueAppend ==
    ASSUME NEW q \in Seq(AllJobs), NEW j \in AllJobs
    PROVE  DueIn(Append(q, j)) = IF DerivedOf(j) = Unobserved THEN DueIn(q)
                                 ELSE Append(DueIn(q), DerivedOf(j))
<1>1. Append(q, j) = q \o <<j>> /\ <<j>> \in Seq(AllJobs)
  BY AppendIsConcat
<1>2. DueIn(Append(q, j)) = DueIn(q) \o DueIn(<<j>>)
  <2> DEFINE one == <<j>>
  <2>1. one \in Seq(AllJobs) /\ Append(q, j) = q \o one
    BY <1>1
  <2> HIDE DEF one
  <2>2. DueIn(Append(q, j)) = DueIn(q) \o DueIn(one)
    BY <2>1, DueConcat
  <2> QED
    BY <2>2 DEF one
<1>3. DueIn(q) \in Seq(Nat) /\ DerivedOf(j) \in Nat
  BY NamesType, NamedType, DerivedType
<1>4. DueIn(q) \o <<>> = DueIn(q)
  BY <1>3, ConcatEmptySeq
<1>5. DueIn(q) \o <<DerivedOf(j)>> = Append(DueIn(q), DerivedOf(j))
  BY <1>3, AppendIsConcat
<1> QED
  BY <1>2, <1>4, <1>5, DueOne

\* Taking the head job off MicrotaskQueue takes its derived promise, if it names
\* one, off the front of the promises that are due, and nothing else.
LEMMA DueTail ==
    ASSUME NEW q \in Seq(AllJobs), q # <<>>
    PROVE  IF DerivedOf(Head(q)) = Unobserved THEN DueIn(Tail(q)) = DueIn(q)
           ELSE /\ DueIn(q) # <<>> /\ Head(DueIn(q)) = DerivedOf(Head(q))
                /\ Tail(DueIn(q)) = DueIn(Tail(q))
<1> DEFINE j == Head(q)
           one == <<j>>
           r == Tail(q)
<1>1. j \in AllJobs /\ r \in Seq(AllJobs) /\ one \in Seq(AllJobs)
  BY HeadTailProperties
<1>2. q = one \o r
  <2>1. /\ one \o r \in Seq(AllJobs) /\ Len(one \o r) = Len(q)
        /\ \A i \in 1 .. Len(q) : q[i] = (one \o r)[i]
    OBVIOUS
  <2> QED
    BY <2>1, SeqEqual
<1>3. DueIn(r) \in Seq(Nat) /\ DerivedOf(j) \in Nat
  BY <1>1, NamesType, NamedType, DerivedType
<1>4. DueIn(q) = DueIn(one) \o DueIn(r)
  <2> HIDE DEF one, r
  <2> QED
    BY <1>1, <1>2, DueConcat
<1>5. DueIn(one) = IF DerivedOf(j) = Unobserved THEN <<>> ELSE <<DerivedOf(j)>>
  BY <1>1, DueOne
<1>6. <<>> \o DueIn(r) = DueIn(r)
  BY <1>3, ConcatEmptySeq
<1>7. /\ <<DerivedOf(j)>> \o DueIn(r) # <<>>
      /\ Head(<<DerivedOf(j)>> \o DueIn(r)) = DerivedOf(j)
      /\ Tail(<<DerivedOf(j)>> \o DueIn(r)) = DueIn(r)
  <2> DEFINE d == DerivedOf(j)
             w == DueIn(r)
  <2>1. d \in Nat /\ w \in Seq(Nat)
    BY <1>3
  <2> HIDE DEF d, w
  <2>2. <<d>> \o w \in Seq(Nat) /\ Len(<<d>> \o w) = Len(w) + 1 /\ (<<d>> \o w)[1] = d
        /\ \A i \in 1 .. Len(w) : (<<d>> \o w)[i + 1] = w[i]
    BY <2>1
  <2>3. <<d>> \o w # <<>> /\ Head(<<d>> \o w) = d
    BY <2>1, <2>2
  <2>4. Tail(<<d>> \o w) = w
    <3> DEFINE x == <<d>> \o w
    <3> HIDE DEF x
    <3>1. x \in Seq(Nat) /\ x # <<>> /\ Len(x) = Len(w) + 1
          /\ \A i \in 1 .. Len(w) : x[i + 1] = w[i]
      BY <2>2, <2>3 DEF x
    <3>2. /\ Tail(x) \in Seq(Nat) /\ Len(Tail(x)) = Len(w)
          /\ \A i \in 1 .. Len(w) : Tail(x)[i] = w[i]
      BY <2>1, <3>1, HeadTailProperties
    <3>3. Tail(x) = w
      BY <2>1, <3>2, SeqEqual
    <3> QED
      BY <3>3 DEF x
  <2> QED
    BY <2>3, <2>4 DEF d, w
<1>8. CASE DerivedOf(j) = Unobserved
  BY <1>4, <1>5, <1>6, <1>8
<1>9. CASE DerivedOf(j) # Unobserved
  BY <1>4, <1>5, <1>7, <1>9
<1> QED
  BY <1>8, <1>9

\* Adoptions are no reactions.
LEMMA DueAdoptions ==
    ASSUME NEW q \in Seq(AdoptionJobs)
    PROVE  DueIn(q) = <<>> /\ q \in Seq(ProperJobs) /\ q \in Seq(AllJobs)
<1>1. AdoptionJobs \subseteq ProperJobs /\ ProperJobs \subseteq AllJobs
  BY DerivedType DEF ProperJobs
<1>2. q \in Seq(ProperJobs) /\ q \in Seq(AllJobs)
  BY <1>1, SeqMonotonic
<1>3. \A i \in 1 .. Len(NamesOf(q)) : NamesOf(q)[i] = Unobserved
  BY <1>2, NamesType, DerivedType, ElementOfSeq
<1> QED
  BY <1>2, <1>3, NamesType, NamedNothing

\* A record behind the records of a promise.
LEMMA WaitingAppend ==
    ASSUME NEW r \in Seq(AllRecords), NEW x \in AllRecords
    PROVE  WaitingIn(Append(r, x)) = IF x[3] = Unobserved THEN WaitingIn(r)
                                     ELSE Append(WaitingIn(r), x[3])
<1> DEFINE u == Append(r, x)
           a == SlotsIn(r)
           d == x[3]
<1>1. /\ u \in Seq(AllRecords) /\ Len(u) = Len(r) + 1 /\ Len(r) \in Nat
      /\ \A i \in 1 .. Len(r) : u[i] = r[i]
      /\ u[Len(r) + 1] = x
  BY AppendProperties
<1>2. a \in Seq(Nat) /\ Len(a) = Len(r) /\ d \in Nat /\ \A i \in 1 .. Len(r) : a[i] = r[i][3]
  BY RecordSlotsType, DerivedType
<1> HIDE DEF u, a
<1>3. /\ SlotsIn(u) \in Seq(Nat) /\ Len(SlotsIn(u)) = Len(r) + 1
      /\ \A i \in 1 .. Len(r) + 1 : SlotsIn(u)[i] = u[i][3]
  BY <1>1, RecordSlotsType
<1>4. SlotsIn(u) = Append(a, d)
  <2>1. /\ Append(a, d) \in Seq(Nat) /\ Len(Append(a, d)) = Len(r) + 1
        /\ \A i \in 1 .. Len(r) : Append(a, d)[i] = a[i]
        /\ Append(a, d)[Len(r) + 1] = d
    BY <1>2, AppendProperties
  <2>2. \A i \in 1 .. Len(r) + 1 : SlotsIn(u)[i] = Append(a, d)[i]
    <3> TAKE i \in 1 .. Len(r) + 1
    <3>1. CASE i \in 1 .. Len(r)
      BY <1>1, <1>2, <1>3, <2>1, <3>1
    <3>2. CASE i = Len(r) + 1
      BY <1>1, <1>3, <2>1, <3>2
    <3>3. Len(r) \in Nat
      OBVIOUS
    <3>4. i \in 1 .. Len(r) \/ i = Len(r) + 1
      BY <3>3
    <3> QED
      BY <3>1, <3>2, <3>4
  <2> HIDE DEF d
  <2> QED
    BY <1>3, <2>1, <2>2, SeqEqual
<1> HIDE DEF d
<1>5. Append(a, d) = a \o <<d>> /\ <<d>> \in Seq(Nat)
  BY <1>2, AppendIsConcat
<1>6. Named(Append(a, d)) = Named(a) \o Named(<<d>>)
  <2> DEFINE one == <<d>>
  <2>1. one \in Seq(Nat) /\ Append(a, d) = a \o one
    BY <1>5
  <2> HIDE DEF one
  <2>2. Named(a \o one) = Named(a) \o Named(one)
    BY <1>2, <2>1, NamedConcat
  <2> QED
    BY <2>1, <2>2 DEF one
<1>7. Named(a) \in Seq(Nat)
  BY <1>2, NamedType
<1>8. Named(a) \o <<>> = Named(a) /\ Named(a) \o <<d>> = Append(Named(a), d)
  BY <1>2, <1>7, ConcatEmptySeq, AppendIsConcat
<1>9. Named(<<d>>) = IF d = Unobserved THEN <<>> ELSE <<d>>
  BY <1>2, NamedOne
<1>10. WaitingIn(u) = Named(SlotsIn(u)) /\ WaitingIn(r) = Named(a)
  BY <1>1, RecordSlotsType DEF a
<1> QED
  BY <1>4, <1>6, <1>8, <1>9, <1>10 DEF u, d

\* The job of a record names the record's derived promise and settles it.
LEMMA RecordJob ==
    ASSUME NEW P \in SUBSET Promises, NEW V \in SUBSET Values,
           NEW r \in RecordsOf(P, V), NEW st \in Settlements, NEW v \in V
    PROVE  /\ JobOfRecord(r, st, v) \in ProperJobs
           /\ DerivedOf(JobOfRecord(r, st, v)) = r[3]
<1> DEFINE j == JobOfRecord(r, st, v)
<1>1. j \in AllJobs
  BY JobOfRecordType, BuildMore DEF AllJobs
<1>2. j.type = "reaction" /\ j.derived = r[3] /\ j.capability = CapabilityOf(r)
      /\ j.handler \in {r[1], r[2]}
  BY DEF JobOfRecord, ReactionJob
<1>3. CASE \E f \in Handlers, g \in Handlers, d \in P : r = ThenRecord(f, g, d)
  <2> PICK f \in Handlers, g \in Handlers, d \in P : r = ThenRecord(f, g, d)
    BY <1>3
  <2>1. r[1] = f /\ r[2] = g /\ r[3] = d /\ CapabilityOf(r) = <<ResolveOf(d), RejectOf(d)>>
    BY DEF ThenRecord, CapabilityOf
  <2> QED
    BY <1>1, <1>2, <2>1 DEF ProperJobs, Proper, DerivedOf
<1>4. CASE r[3] = Unobserved
  BY <1>1, <1>2, <1>4 DEF ProperJobs, Proper, DerivedOf
<1>5. (\E f \in Handlers, g \in Handlers, d \in P : r = ThenRecord(f, g, d)) \/ r[3] = Unobserved
  BY DEF RecordsOf, AdoptionRecord, WatchRecord
<1> QED
  BY <1>3, <1>4, <1>5

\* What waits on a promise is due once the promise has settled, in that order.
LEMMA DueDrained ==
    ASSUME NEW P \in SUBSET Promises, NEW V \in SUBSET Values, NEW p,
           reactions[p] \in Seq(RecordsOf(P, V)), NEW st \in Settlements, NEW v \in V
    PROVE  /\ DrainReactionJobs(p, st, v) \in Seq(ProperJobs)
           /\ DueIn(DrainReactionJobs(p, st, v)) = WaitingIn(reactions[p])
<1> DEFINE r == reactions[p]
           q == DrainReactionJobs(p, st, v)
<1>1. r \in Seq(RecordsOf(P, V)) /\ DOMAIN r = 1 .. Len(r) /\ Len(r) \in Nat
      /\ \A i \in 1 .. Len(r) : r[i] \in RecordsOf(P, V)
  BY LenProperties
<1>2. \A i \in 1 .. Len(r) : /\ JobOfRecord(r[i], st, v) \in ProperJobs
                             /\ DerivedOf(JobOfRecord(r[i], st, v)) = r[i][3]
  BY <1>1, RecordJob
<1>3. DOMAIN q = DOMAIN r /\ \A i \in 1 .. Len(r) : q[i] = JobOfRecord(r[i], st, v)
  BY <1>1 DEF DrainReactionJobs
<1>4. q \in [1 .. Len(r) -> ProperJobs]
  BY <1>1, <1>2 DEF DrainReactionJobs
<1>5. q \in Seq(ProperJobs)
  <2> HIDE DEF q, r
  <2> QED
    BY <1>1, <1>4, SeqDef
<1>6. NamesOf(q) = SlotsIn(r)
  BY <1>1, <1>2, <1>3 DEF NamesOf, SlotsIn
<1>7. DueIn(q) = Named(NamesOf(q)) /\ WaitingIn(r) = Named(SlotsIn(r))
  BY DEF DueIn, WaitingIn, NamesOf, SlotsIn
<1> QED
  BY <1>5, <1>6, <1>7

-----------------------------------------------------------------------------
(* What a settlement is to the contract.                                    *)

AbsOutcome == [p \in Promises |-> OutcomeOf(p)]
AbsWaiting == [p \in Promises |-> WaitingIn(reactions[p])]

\* The queues hold what the drain expects of them.
QueuesProper == jobs \in Seq(ProperJobs) /\ adoptions \in Seq(AdoptionJobs)

\* Nothing a program can see happens, or p settles and its reactions are due
\* behind those in q.
Effect(p, q) ==
    \/ AbsOutcome' = AbsOutcome /\ AbsWaiting' = AbsWaiting /\ DueIn(jobs)' = DueIn(q)
    \/ \E o \in Outcomes :
          /\ AbsOutcome[p] = <<>>
          /\ AbsOutcome' = [AbsOutcome EXCEPT ![p] = o]
          /\ AbsWaiting' = [AbsWaiting EXCEPT ![p] = <<>>]
          /\ DueIn(jobs)' = DueIn(q) \o AbsWaiting[p]

\* The parts of the type invariant in terms of all promises and values.
LEMMA Widened ==
    ASSUME TypeInv
    PROVE  /\ Allocated \in SUBSET Promises /\ Reachable \in SUBSET Values
           /\ ProperJobs \subseteq AllJobs
           /\ JobsOf(Allocated, Reachable) \subseteq AllJobs
           /\ RecordsOf(Allocated, Reachable) \subseteq AllRecords
           /\ \A p \in Promises : /\ reactions[p] \in Seq(RecordsOf(Allocated, Reachable))
                                  /\ reactions[p] \in Seq(AllRecords)
           /\ state \in [Promises -> States] /\ result \in [Promises -> Reachable]
           /\ DOMAIN reactions = Promises
<1>1. Allocated \in SUBSET Promises /\ Reachable \in SUBSET Values
  BY Known DEF Reachable, Values
<1>2. /\ JobsOf(Allocated, Reachable) \subseteq AllJobs
      /\ RecordsOf(Allocated, Reachable) \subseteq AllRecords
  BY <1>1, BuildMore DEF AllJobs, AllRecords
<1>3. /\ state \in [Promises -> States] /\ result \in [Promises -> Reachable]
      /\ reactions \in [Promises -> Seq(RecordsOf(Allocated, Reachable))]
  BY DEF TypeInv, SlotsTyped
<1>4. \A p \in Promises : reactions[p] \in Seq(AllRecords)
  BY <1>2, <1>3, SeqMonotonic
<1> QED
  BY <1>1, <1>2, <1>3, <1>4 DEF ProperJobs

\* Slots that stay, or only grow a record without a promise slot, are nothing
\* a program can see.
LEMMA QuietSlots ==
    ASSUME UNCHANGED slots
    PROVE  AbsOutcome' = AbsOutcome /\ AbsWaiting' = AbsWaiting
BY DEF slots, AbsOutcome, AbsWaiting, OutcomeOf, Settled

\* A reaction record without a promise slot (REACTION_PROMISE undefined: await,
\* finally and the adoption of a native promise) shows no waiting promise.
LEMMA QuietRecord ==
    ASSUME TypeInv, NEW v \in Promises, NEW x \in AllRecords, x[3] = Unobserved,
           reactions' = [reactions EXCEPT ![v] = Append(@, x)], UNCHANGED <<state, result>>
    PROVE  AbsOutcome' = AbsOutcome /\ AbsWaiting' = AbsWaiting
<1>1. AbsOutcome' = AbsOutcome
  BY DEF AbsOutcome, OutcomeOf, Settled
<1>2. WaitingIn(Append(reactions[v], x)) = WaitingIn(reactions[v])
  BY Widened, WaitingAppend
<1>3. \A p \in Promises : WaitingIn(reactions'[p]) = WaitingIn(reactions[p])
  BY <1>2, Widened
<1>4. AbsWaiting' = AbsWaiting
  BY <1>3 DEF AbsWaiting
<1> QED
  BY <1>1, <1>4

\* A job that is no reaction of a program, behind the others.
LEMMA QuietJob ==
    ASSUME NEW q \in Seq(ProperJobs), NEW j \in ProperJobs, DerivedOf(j) = Unobserved,
           jobs' = Append(q, j), UNCHANGED slots, NEW p
    PROVE  Effect(p, q) /\ jobs' \in Seq(ProperJobs)
<1>1. q \in Seq(AllJobs) /\ j \in AllJobs
  BY SeqMonotonic DEF ProperJobs
<1>2. DueIn(jobs') = DueIn(q)
  BY <1>1, DueAppend
<1> QED
  BY <1>2, QuietSlots DEF Effect

\* settle_with_adoption settles at most the promise it is called for.
LEMMA SettlesEffect ==
    ASSUME TypeInv, NEW p \in Allocated, NEW v \in Reachable, NEW q \in Seq(ProperJobs),
           Settles(p, v, q)
    PROVE  Effect(p, q) /\ jobs' \in Seq(ProperJobs)
<1>1. p \in Promises /\ v \in Values /\ TypeErrorValue \in Reachable
  BY Widened, Known
<1>2. CASE UNCHANGED slots /\ jobs' = q
  BY <1>2, QuietSlots DEF Effect
<1>3. CASE HasThen(v) /\ UNCHANGED slots /\ jobs' = Append(q, ThenableJob(p, v))
  <2>1. ThenableJob(p, v) \in ProperJobs /\ DerivedOf(ThenableJob(p, v)) = Unobserved
    BY <1>1, <1>3 DEF ThenableJob, ProperJobs, Proper, AllJobs, JobsOf, HasThen, DerivedOf
  <2> QED
    BY <1>3, <2>1, QuietJob
<1>4. ASSUME NEW st \in Settlements, NEW w \in Reachable, ~Settled(p), SettleTo(p, st, w, q)
      PROVE  Effect(p, q) /\ jobs' \in Seq(ProperJobs)
  <2>1. /\ state' = [state EXCEPT ![p] = st] /\ result' = [result EXCEPT ![p] = w]
        /\ reactions' = [reactions EXCEPT ![p] = <<>>]
        /\ jobs' = q \o DrainReactionJobs(p, st, w)
    BY <1>4 DEF SettleTo
  <2>2. /\ DrainReactionJobs(p, st, w) \in Seq(ProperJobs)
        /\ DueIn(DrainReactionJobs(p, st, w)) = WaitingIn(reactions[p])
    BY <1>1, Widened, DueDrained
  <2>3. jobs' \in Seq(ProperJobs)
    BY <2>1, <2>2, ConcatProperties
  <2>4. DueIn(jobs') = DueIn(q) \o AbsWaiting[p]
    <3>1. q \in Seq(AllJobs) /\ DrainReactionJobs(p, st, w) \in Seq(AllJobs)
      BY <2>2, SeqMonotonic DEF ProperJobs
    <3>2. DueIn(jobs') = DueIn(q) \o DueIn(DrainReactionJobs(p, st, w))
      BY <2>1, <3>1, DueConcat
    <3> QED
      BY <1>1, <2>2, <3>2 DEF AbsWaiting
  <2>5. AbsOutcome[p] = <<>>
    BY <1>1, <1>4 DEF AbsOutcome, OutcomeOf
  <2>6. AbsOutcome' = [AbsOutcome EXCEPT ![p] = <<st, w>>]
    <3>1. \A x \in Promises : OutcomeOf(x)' = IF x = p THEN <<st, w>> ELSE OutcomeOf(x)
      BY <1>1, <2>1, Widened DEF OutcomeOf, Settled, Settlements
    <3> QED
      BY <3>1 DEF AbsOutcome
  <2>7. AbsWaiting' = [AbsWaiting EXCEPT ![p] = <<>>]
    <3>1. WaitingIn(<<>>) = <<>>
      <4>1. [i \in DOMAIN <<>> |-> <<>>[i][3]] = <<>>
        OBVIOUS
      <4> QED
        BY <4>1, NamedOne DEF WaitingIn
    <3>2. \A x \in Promises : reactions'[x] = IF x = p THEN <<>> ELSE reactions[x]
      BY <1>1, <2>1, Widened
    <3> QED
      BY <3>1, <3>2 DEF AbsWaiting
  <2>8. <<st, w>> \in Outcomes
    BY Widened DEF Outcomes, Settlements
  <2> QED
    BY <2>3, <2>4, <2>5, <2>6, <2>7, <2>8 DEF Effect
<1>5. CASE v \in Promises /\ AttachAdoption(p, v, q)
  <2>1. AdoptionRecord(p) \in AllRecords /\ AdoptionRecord(p)[3] = Unobserved
    BY <1>1 DEF AllRecords, RecordsOf, AdoptionRecord
  <2>2. AbsOutcome' = AbsOutcome /\ AbsWaiting' = AbsWaiting
    BY <1>5, <2>1, QuietRecord DEF AttachAdoption
  <2> QED
    BY <1>5, <2>2 DEF AttachAdoption, Effect
<1>6. ASSUME ~Settled(p), NEW st \in Settlements, NEW w, SettleTo(p, st, w, q),
             \/ st = "rejected" /\ w \in {v, TypeErrorValue}
             \/ v \in Promises /\ st = state[v] /\ w = result[v]
             \/ w = v /\ v \notin Promises \cup Thenables \cup Poisoned
      PROVE  Effect(p, q) /\ jobs' \in Seq(ProperJobs)
  <2>1. w \in Reachable
    BY <1>1, <1>6, Widened
  <2> QED
    BY <1>4, <1>6, <2>1
<1> QED
  BY <1>1, <1>2, <1>3, <1>5, <1>6, Widened, SettleCases

\* A call of a host closure settles at most one promise, the one of the
\* capability when the closure is one.
LEMMA CallHostEffect ==
    ASSUME TypeInv, NEW f \in HostFunctionsOf(Allocated, Reachable), NEW v \in Reachable,
           NEW q \in Seq(ProperJobs), CallHost(f, v, q)
    PROVE  /\ jobs' \in Seq(ProperJobs)
           /\ \E p \in Promises : Effect(p, q)
           /\ \A d \in Promises : f \in {ResolveOf(d), RejectOf(d)} => Effect(d, q)
<1>1. CASE f.fn \in {"resolve", "reject"}
  <2>0. f.fn = "resolve" \/ f.fn = "reject"
    BY <1>1
  <2>1. f.promise \in Allocated
    <3>1. CASE f.fn = "resolve"
      BY <3>1, HostNotHandler
    <3>2. CASE f.fn = "reject"
      BY <3>2, HostNotHandler
    <3> QED
      BY <2>0, <3>1, <3>2
  <2>2. Settles(f.promise, v, q)
    BY <1>1 DEF CallHost, Settles, CapabilitySettle, SettleWithAdoption, SettleTo, AdoptPromise,
                 AttachAdoption
  <2>3. Effect(f.promise, q) /\ jobs' \in Seq(ProperJobs)
    BY <2>1, <2>2, SettlesEffect
  <2>4. f.promise \in Promises
    BY <2>1, Widened
  <2>5. \A d \in Promises : f \in {ResolveOf(d), RejectOf(d)} => f.promise = d
    BY DEF ResolveOf, RejectOf
  <2> QED
    BY <2>3, <2>4, <2>5
<1>2. CASE f.fn \in {"watch", "forward", "forwardError"}
  <2> DEFINE j == IF f.fn = "watch" THEN FinallyJob(f.derived, f.callback, f.state, v)
                  ELSE IF f.fn = "forward" THEN CallJob(f.half, f.payload)
                  ELSE CallJob(f.half, v)
  <2>1. jobs' = Append(q, j) /\ UNCHANGED slots
    BY <1>2 DEF CallHost
  <2>2. j \in ProperJobs /\ DerivedOf(j) = Unobserved
    <3>1. j \in JobsOf(Allocated, Reachable)
      BY <1>2, HostNotHandler DEF FinallyJob, CallJob, JobsOf
    <3>2. j.type # "reaction"
      BY <1>2 DEF FinallyJob, CallJob
    <3> QED
      BY <3>1, <3>2, Widened DEF ProperJobs, Proper, DerivedOf
  <2>3. \A d : Effect(d, q) /\ jobs' \in Seq(ProperJobs)
    <3> HIDE DEF j
    <3> QED
      BY <2>1, <2>2, QuietJob
  <2>4. 1 \in Promises
    BY BoundsAssumption DEF Promises
  <2> QED
    BY <2>3, <2>4
<1>3. f.fn \in {"resolve", "reject", "watch", "forward", "forwardError"}
  BY HostNotHandler
<1> QED
  BY <1>1, <1>2, <1>3

-----------------------------------------------------------------------------
(* Every step is a step of the contract.                                    *)

Allowed == [Abstract!Next]_(Abstract!vars)

\* A settlement in the middle of a job, or nothing a program can see.
LEMMA EffectAllowed ==
    ASSUME NEW p \in Promises, Effect(p, jobs), ReactsByThen' = ReactsByThen
    PROVE  Allowed
<1>1. CASE AbsOutcome' = AbsOutcome /\ AbsWaiting' = AbsWaiting /\ DueIn(jobs)' = DueIn(jobs)
  BY <1>1 DEF Allowed, Abstract!vars, AbsOutcome, AbsWaiting
<1>2. ASSUME NEW o \in Outcomes, AbsOutcome[p] = <<>>,
             AbsOutcome' = [AbsOutcome EXCEPT ![p] = o],
             AbsWaiting' = [AbsWaiting EXCEPT ![p] = <<>>],
             DueIn(jobs)' = DueIn(jobs) \o AbsWaiting[p]
      PROVE  Allowed
  <2>1. Abstract!Settle(p, o, DueIn(jobs))
    BY <1>2 DEF Abstract!Settle, AbsOutcome, AbsWaiting
  <2> QED
    BY <2>1 DEF Allowed, Abstract!Next
<1> QED
  BY <1>1, <1>2 DEF Effect

\* The drain picks a job: a reaction runs, and what it settles is its own
\* promise.
LEMMA PopAllowed ==
    ASSUME jobs \in Seq(ProperJobs), jobs # <<>>, ReactsByThen' = ReactsByThen,
           NEW p \in Promises, Effect(p, Tail(jobs)),
           DerivedOf(Head(jobs)) # Unobserved => Effect(DerivedOf(Head(jobs)), Tail(jobs))
    PROVE  Allowed
<1> DEFINE d == DerivedOf(Head(jobs))
<1>1. jobs \in Seq(AllJobs) /\ Head(jobs) \in AllJobs
  <2>1. jobs \in Seq(AllJobs)
    BY SeqMonotonic DEF ProperJobs
  <2> QED
    BY <2>1, HeadTailProperties
<1>2. CASE d = Unobserved
  <2>1. DueIn(Tail(jobs)) = DueIn(jobs)
    BY <1>1, <1>2, DueTail
  <2>2. Effect(p, jobs)
    BY <2>1 DEF Effect
  <2> QED
    BY <2>2, EffectAllowed
<1>3. CASE d # Unobserved
  <2>1. d \in Promises
    BY <1>1, <1>3, JobFields DEF AllJobs, DerivedOf
  <2>2. /\ DueIn(jobs) # <<>> /\ Head(DueIn(jobs)) = d
        /\ Tail(DueIn(jobs)) = DueIn(Tail(jobs))
    BY <1>1, <1>3, DueTail
  <2>3. Effect(d, Tail(jobs))
    BY <1>3
  <2> HIDE DEF d
  <2>4. CASE AbsOutcome' = AbsOutcome /\ AbsWaiting' = AbsWaiting
             /\ DueIn(jobs)' = DueIn(Tail(jobs))
    <3>1. Abstract!Run
      BY <2>2, <2>4 DEF Abstract!Run, AbsOutcome, AbsWaiting
    <3> QED
      BY <3>1 DEF Allowed, Abstract!Next
  <2>5. ASSUME NEW o \in Outcomes, AbsOutcome[d] = <<>>,
               AbsOutcome' = [AbsOutcome EXCEPT ![d] = o],
               AbsWaiting' = [AbsWaiting EXCEPT ![d] = <<>>],
               DueIn(jobs)' = DueIn(Tail(jobs)) \o AbsWaiting[d]
        PROVE  Allowed
    <3>1. Abstract!Settle(d, o, Tail(DueIn(jobs)))
      BY <2>2, <2>5 DEF Abstract!Settle, AbsOutcome, AbsWaiting
    <3>2. Abstract!RunAndSettle(o)
      BY <2>2, <3>1 DEF Abstract!RunAndSettle
    <3> QED
      BY <2>1, <2>5, <3>2 DEF Allowed, Abstract!Next
  <2> QED
    BY <2>3, <2>4, <2>5 DEF Effect
<1> QED
  BY <1>2, <1>3

\* A job the drain takes without settling anything (a callback is called).
LEMMA TakenAllowed ==
    ASSUME jobs \in Seq(ProperJobs), jobs # <<>>, jobs' = Tail(jobs), UNCHANGED <<slots, origin>>
    PROVE  Allowed /\ jobs' \in Seq(ProperJobs)
<1>1. \A p : Effect(p, Tail(jobs))
  BY QuietSlots DEF Effect
<1>2. ReactsByThen' = ReactsByThen
  BY DEF ReactsByThen
<1>3. 1 \in Promises
  BY BoundsAssumption DEF Promises
<1>4. jobs' \in Seq(ProperJobs)
  BY HeadTailProperties
<1> QED
  BY <1>1, <1>2, <1>3, <1>4, PopAllowed

\* Promise.resolve and Promise.reject settle the promise they allocate.
LEMMA FreshSettles ==
    ASSUME TypeInv, count < MaxPromises, count' = count + 1, NEW st \in Settlements,
           NEW v \in Values,
           state' = [state EXCEPT ![count + 1] = st], result' = [result EXCEPT ![count + 1] = v],
           UNCHANGED <<reactions, jobs>>
    PROVE  Effect(count + 1, jobs) /\ count + 1 \in Promises
<1> DEFINE d == count + 1
<1>1. d \in Promises /\ state[d] = "pending" /\ reactions[d] = <<>>
  BY NewPromise
<1> HIDE DEF d
<1>2. AbsOutcome[d] = <<>>
  BY <1>1 DEF AbsOutcome, OutcomeOf, Settled
<1>3. AbsOutcome' = [AbsOutcome EXCEPT ![d] = <<st, v>>]
  <2>1. \A x \in Promises : OutcomeOf(x)' = IF x = d THEN <<st, v>> ELSE OutcomeOf(x)
    BY <1>1, Widened DEF OutcomeOf, Settled, Settlements, d
  <2> QED
    BY <2>1 DEF AbsOutcome
<1>4. WaitingIn(<<>>) = <<>>
  <2>1. [i \in DOMAIN <<>> |-> <<>>[i][3]] = <<>>
    OBVIOUS
  <2> QED
    BY <2>1, NamedOne DEF WaitingIn
<1>5. AbsWaiting[d] = <<>> /\ AbsWaiting' = AbsWaiting
  BY <1>1, <1>4 DEF AbsWaiting
<1>6. AbsWaiting' = [AbsWaiting EXCEPT ![d] = <<>>]
  BY <1>1, <1>5 DEF AbsWaiting
<1>7. CASE DueIn(jobs) \o <<>> = DueIn(jobs)
  <2>1. <<st, v>> \in Outcomes
    BY DEF Outcomes, Settlements
  <2>2. DueIn(jobs)' = DueIn(jobs) \o AbsWaiting[d]
    BY <1>5, <1>7
  <2> QED
    BY <1>1, <1>2, <1>3, <1>6, <2>1, <2>2 DEF Effect, d
<1>8. DueIn(jobs) \o <<>> = DueIn(jobs)
  <2>1. jobs \in Seq(AllJobs)
    BY Widened, SeqMonotonic DEF TypeInv, QueuesTyped
  <2>2. DueIn(jobs) \in Seq(Nat)
    BY <2>1, NamesType, NamedType
  <2> QED
    BY <2>2, ConcatEmptySeq
<1> QED
  BY <1>7, <1>8

\* p.then(f, g) registers a reaction: it waits on a pending promise and is due
\* at once on a settled one (install_then_record).
LEMMA ThenRegisters ==
    ASSUME TypeInv, QueuesProper, NEW p \in Promises, NEW f \in Handlers, NEW g \in Handlers,
           Then(p, f, g)
    PROVE  Allowed /\ QueuesProper'
<1> DEFINE d == count + 1
           x == ThenRecord(f, g, d)
<1>1. /\ count < MaxPromises /\ count' = d /\ InstallThenRecord(p, f, g, d)
      /\ adoptions' = adoptions
      /\ origin' = [origin EXCEPT ![d] =
            [source |-> p, by |-> IF Callable(f) \/ Callable(g) THEN "then" ELSE "passThrough"]]
  BY DEF Then, Allocate
<1>2. d \in Promises /\ d \in Promises \ Allocated
  BY <1>1, NewPromise
<1>3. d \notin ReactsByThen /\ ReactsByThen' = ReactsByThen \cup {d}
  <2>1. origin[d].by = "none" /\ DOMAIN origin = Promises
    BY <1>2 DEF TypeInv, FreshUntouched
  <2> HIDE DEF d
  <2>2. origin'[d].by \in {"then", "passThrough"}
        /\ \A y \in Promises \ {d} : origin'[y] = origin[y]
    BY <1>1, <1>2, <2>1
  <2> QED
    BY <1>2, <2>1, <2>2 DEF ReactsByThen
<1>4. x \in AllRecords /\ x[3] = d /\ d # Unobserved
  <2>1. x \in AllRecords
    BY <1>2 DEF AllRecords, RecordsOf
  <2> QED
    BY <1>2, <2>1, BoundsAssumption DEF ThenRecord, Promises, Unobserved
<1> HIDE DEF d, x
<1>5. CASE state[p] = "pending"
  <2>1. reactions' = [reactions EXCEPT ![p] = Append(@, x)] /\ UNCHANGED <<state, result, jobs>>
    BY <1>1, <1>5 DEF InstallThenRecord, x
  <2>2. WaitingIn(Append(reactions[p], x)) = Append(WaitingIn(reactions[p]), d)
    BY <1>4, Widened, WaitingAppend
  <2>3. AbsWaiting' = [AbsWaiting EXCEPT ![p] = Append(@, d)]
    BY <2>1, <2>2, Widened DEF AbsWaiting
  <2>4. AbsOutcome' = AbsOutcome /\ AbsOutcome[p] = <<>>
    BY <1>5, <2>1 DEF AbsOutcome, OutcomeOf, Settled
  <2>5. Abstract!Register(p, d)
    BY <1>3, <2>1, <2>3, <2>4 DEF Abstract!Register, AbsOutcome, AbsWaiting
  <2>6. QueuesProper'
    BY <1>1, <2>1 DEF QueuesProper
  <2> QED
    BY <1>2, <2>5, <2>6 DEF Allowed, Abstract!Next
<1>6. CASE state[p] # "pending"
  <2> DEFINE j == JobOfRecord(x, state[p], result[p])
  <2>1. jobs' = Append(jobs, j) /\ UNCHANGED slots
    BY <1>1, <1>6 DEF InstallThenRecord, x
  <2>2. j \in ProperJobs /\ DerivedOf(j) = d
    <3>1. state[p] \in Settlements /\ result[p] \in Values /\ Promises \in SUBSET Promises
      BY <1>6, Widened DEF Settlements
    <3> QED
      BY <1>4, <3>1, RecordJob DEF AllRecords
  <2> HIDE DEF j
  <2>3. jobs \in Seq(AllJobs) /\ j \in AllJobs /\ jobs' \in Seq(ProperJobs)
    BY <2>1, <2>2, SeqMonotonic DEF QueuesProper, ProperJobs
  <2>4. DueIn(jobs') = Append(DueIn(jobs), d)
    BY <1>4, <2>1, <2>2, <2>3, DueAppend
  <2>5. AbsOutcome' = AbsOutcome /\ AbsWaiting' = AbsWaiting
    BY <2>1, QuietSlots
  <2>6. AbsOutcome[p] # <<>>
    BY <1>6 DEF AbsOutcome, OutcomeOf, Settled
  <2>7. Abstract!Register(p, d)
    BY <1>3, <2>4, <2>5, <2>6 DEF Abstract!Register, AbsOutcome, AbsWaiting
  <2>8. QueuesProper'
    BY <1>1, <2>3 DEF QueuesProper
  <2> QED
    BY <1>2, <2>7, <2>8 DEF Allowed, Abstract!Next
<1> QED
  BY <1>5, <1>6

\* p.finally(cb) registers no reaction of `then`: its watchers settle the
\* derived promise by jobs of their own (promise_watch_finally).
LEMMA FinallyQuiet ==
    ASSUME TypeInv, QueuesProper, NEW p \in Promises, NEW cb \in Handlers, Finally(p, cb)
    PROVE  Allowed /\ QueuesProper'
<1> DEFINE d == count + 1
           x == WatchRecord(Watcher("fulfilled", d, cb), Watcher("rejected", d, cb))
<1>1. /\ count < MaxPromises /\ count' = d /\ WatchFinally(p, cb, d)
      /\ adoptions' = adoptions
      /\ origin' = [origin EXCEPT ![d] = [source |-> p, by |-> "finally"]]
  BY DEF Finally, Allocate
<1>2. d \in Promises /\ d \in Promises \ Allocated
  BY <1>1, NewPromise
<1>3. ReactsByThen' = ReactsByThen
  <2>1. origin[d].by = "none" /\ DOMAIN origin = Promises
    BY <1>2 DEF TypeInv, FreshUntouched
  <2> HIDE DEF d
  <2>2. origin'[d].by = "finally" /\ \A y \in Promises \ {d} : origin'[y] = origin[y]
    BY <1>1, <1>2, <2>1
  <2> QED
    BY <1>2, <2>1, <2>2 DEF ReactsByThen
<1>4. x \in AllRecords /\ x[3] = Unobserved
  <2>1. Watcher("fulfilled", d, cb) \in ClosuresOf(Promises, Values)
        /\ Watcher("rejected", d, cb) \in ClosuresOf(Promises, Values)
    BY <1>2 DEF Watcher, ClosuresOf, Settlements, States
  <2>2. x \in AllRecords
    BY <2>1 DEF AllRecords, RecordsOf
  <2> QED
    BY <2>2 DEF WatchRecord
<1>5. Effect(p, jobs) /\ jobs' \in Seq(ProperJobs)
  <2>1. CASE state[p] = "pending"
    <3> HIDE DEF x, d
    <3>1. reactions' = [reactions EXCEPT ![p] = Append(@, x)] /\ UNCHANGED <<state, result, jobs>>
      BY <1>1, <2>1 DEF WatchFinally, x
    <3>2. AbsOutcome' = AbsOutcome /\ AbsWaiting' = AbsWaiting
      BY <1>4, <3>1, QuietRecord
    <3> QED
      BY <3>1, <3>2 DEF Effect, QueuesProper
  <2>2. CASE state[p] # "pending"
    <3> DEFINE j == FinallyJob(d, cb, state[p], result[p])
    <3>1. jobs' = Append(jobs, j) /\ UNCHANGED slots
      BY <1>1, <2>2 DEF WatchFinally
    <3>2. state[p] \in Settlements /\ result[p] \in Values
      BY <2>2, Widened DEF Settlements
    <3>3. j \in AllJobs /\ j.type = "finally"
      BY <1>2, <3>2 DEF FinallyJob, AllJobs, JobsOf
    <3>4. j \in ProperJobs /\ DerivedOf(j) = Unobserved
      BY <3>3 DEF ProperJobs, Proper, DerivedOf
    <3> HIDE DEF j
    <3> QED
      BY <3>1, <3>4, QuietJob DEF QueuesProper
  <2> QED
    BY <2>1, <2>2
<1>6. QueuesProper'
  BY <1>1, <1>5 DEF QueuesProper
<1> QED
  BY <1>3, <1>5, <1>6, EffectAllowed

\* A step of script: operations settle a promise, register a reaction, or queue
\* what is no reaction.
LEMMA ScriptAllowed ==
    ASSUME TypeInv, QueuesProper, Script
    PROVE  Allowed /\ QueuesProper'
<1>1. /\ ScriptValues \subseteq Reachable /\ Reachable \subseteq Values
      /\ jobs \in Seq(ProperJobs) /\ adoptions \in Seq(AdoptionJobs)
  BY Known, Widened DEF QueuesProper
<1>2. UNCHANGED origin => ReactsByThen' = ReactsByThen
  BY DEF ReactsByThen
<1>3. 1 \in Promises
  BY BoundsAssumption DEF Promises
\* Nothing of the contract changes.
<1>4. ASSUME UNCHANGED <<slots, queues, origin>> PROVE Allowed /\ QueuesProper'
  <2>1. Effect(1, jobs)
    BY <1>4, QuietSlots DEF Effect, queues
  <2> QED
    BY <1>1, <1>2, <1>3, <1>4, <2>1, EffectAllowed DEF QueuesProper, queues
<1>5. CASE Construct \/ NextScript
  BY <1>4, <1>5 DEF Construct, NextScript, slots, queues, history
<1>6. ASSUME NEW p \in Promises, NEW v \in Values, NEW r \in BOOLEAN, CallResolving(p, v, r)
      PROVE  Allowed /\ QueuesProper'
  <2>1. /\ p \in Allocated /\ v \in Reachable /\ CapabilitySettle(p, v, r, jobs)
        /\ UNCHANGED <<adoptions, origin>>
    BY <1>1, <1>6 DEF CallResolving, TypeInv, ScriptTyped
  <2>2. Settles(p, v, jobs)
    <3>1. CASE r = TRUE
      BY <2>1, <3>1 DEF Settles
    <3>2. CASE r = FALSE
      BY <2>1, <3>2 DEF Settles
    <3> QED
      BY <3>1, <3>2
  <2>3. Effect(p, jobs) /\ jobs' \in Seq(ProperJobs)
    BY <1>1, <2>1, <2>2, SettlesEffect
  <2> QED
    BY <1>1, <1>2, <2>1, <2>3, EffectAllowed DEF QueuesProper
<1>7. ASSUME NEW p \in Promises, NEW f \in Handlers, NEW g \in Handlers, Then(p, f, g)
      PROVE  Allowed /\ QueuesProper'
  BY <1>7, ThenRegisters
<1>8. ASSUME NEW p \in Promises, NEW cb \in Handlers, Finally(p, cb)
      PROVE  Allowed /\ QueuesProper'
  BY <1>8, FinallyQuiet
<1>9. ASSUME NEW v \in OtherValues, PromiseResolve(v) PROVE Allowed /\ QueuesProper'
  <2>1. /\ count < MaxPromises /\ count' = count + 1 /\ v \in Values
        /\ UNCHANGED <<reactions, jobs, origin>>
    BY <1>1, <1>9 DEF PromiseResolve, Allocate
  <2>2. CASE v \in Thenables \cup Poisoned
    <3> DEFINE j == ThenableJob(count + 1, v)
    <3>1. adoptions' = Append(adoptions, j) /\ UNCHANGED <<state, result>>
      BY <1>9, <2>2 DEF PromiseResolve
    <3>2. j \in AdoptionJobs
      BY <2>1, <2>2, NewPromise DEF ThenableJob, AdoptionJobs, AllJobs, JobsOf
    <3>3. adoptions' \in Seq(AdoptionJobs)
      <4> HIDE DEF j
      <4> QED
        BY <1>1, <3>1, <3>2
    <3>4. Effect(1, jobs)
      BY <2>1, <3>1, QuietSlots DEF Effect, slots
    <3> QED
      BY <1>1, <1>2, <1>3, <2>1, <3>3, <3>4, EffectAllowed DEF QueuesProper
  <2>3. CASE v \notin Thenables \cup Poisoned
    <3>1. /\ state' = [state EXCEPT ![count + 1] = "fulfilled"]
          /\ result' = [result EXCEPT ![count + 1] = v] /\ UNCHANGED adoptions
      BY <1>9, <2>3 DEF PromiseResolve
    <3>2. "fulfilled" \in Settlements
      BY DEF Settlements, States
    <3>3. Effect(count + 1, jobs) /\ count + 1 \in Promises
      BY <2>1, <3>1, <3>2, FreshSettles
    <3> QED
      BY <1>1, <1>2, <2>1, <3>1, <3>3, EffectAllowed DEF QueuesProper
  <2> QED
    BY <2>2, <2>3
<1>10. ASSUME NEW v \in Values, PromiseReject(v) PROVE Allowed /\ QueuesProper'
  <2>1. /\ count < MaxPromises /\ count' = count + 1
        /\ state' = [state EXCEPT ![count + 1] = "rejected"]
        /\ result' = [result EXCEPT ![count + 1] = v]
        /\ UNCHANGED <<reactions, jobs, adoptions, origin>>
    BY <1>10 DEF PromiseReject, Allocate, queues
  <2>2. "rejected" \in Settlements
    BY DEF Settlements, States
  <2>3. Effect(count + 1, jobs) /\ count + 1 \in Promises
    BY <2>1, <2>2, FreshSettles
  <2> QED
    BY <1>1, <1>2, <2>1, <2>3, EffectAllowed DEF QueuesProper
<1>11. CASE QueueMicrotask
  <2>1. MicrotaskJob \in ProperJobs /\ DerivedOf(MicrotaskJob) = Unobserved
    BY DEF MicrotaskJob, ProperJobs, Proper, AllJobs, JobsOf, DerivedOf
  <2>2. jobs' = Append(jobs, MicrotaskJob) /\ UNCHANGED <<slots, adoptions, origin>>
    BY <1>11 DEF QueueMicrotask
  <2>3. Effect(1, jobs) /\ jobs' \in Seq(ProperJobs)
    BY <1>1, <2>1, <2>2, QuietJob
  <2> QED
    BY <1>1, <1>2, <1>3, <2>2, <2>3, EffectAllowed DEF QueuesProper
<1> QED
  BY <1>5, <1>6, <1>7, <1>8, <1>9, <1>10, <1>11 DEF Script

\* The callback of a job returns or throws: the second half of the job settles
\* at most one promise, and the reaction it belongs to has run already.
LEMMA ReturnAllowed ==
    ASSUME TypeInv, QueuesProper, ScriptReturns
    PROVE  Allowed /\ QueuesProper'
<1> DEFINE J == JobsOf(Allocated, Reachable)
           H == HostFunctionsOf(Allocated, Reachable)
<1>1. /\ ScriptValues \subseteq Reachable /\ Reachable \subseteq Values
      /\ jobs \in Seq(ProperJobs) /\ adoptions \in Seq(AdoptionJobs)
      /\ \A p \in Allocated : ResolveOf(p) \in H /\ RejectOf(p) \in H
  BY Known, Widened DEF QueuesProper
<1>2. UNCHANGED origin => ReactsByThen' = ReactsByThen
  BY DEF ReactsByThen
<1>3. 1 \in Promises
  BY BoundsAssumption DEF Promises
<1>4. ASSUME UNCHANGED <<slots, queues, origin>> PROVE Allowed /\ QueuesProper'
  <2>1. Effect(1, jobs)
    BY <1>4, QuietSlots DEF Effect, queues
  <2> QED
    BY <1>1, <1>2, <1>3, <1>4, <2>1, EffectAllowed DEF QueuesProper, queues
<1>5. ASSUME NEW type, Finish(type)
      PROVE  job \in J /\ job.type = type /\ UNCHANGED <<adoptions, origin>>
  BY <1>5 DEF Finish, TypeInv, EngineTyped, history
<1>6. ASSUME NEW f \in H, NEW v \in Reachable, CallHost(f, v, jobs), UNCHANGED <<adoptions, origin>>
      PROVE  Allowed /\ QueuesProper'
  <2>1. jobs' \in Seq(ProperJobs) /\ \E p \in Promises : Effect(p, jobs)
    BY <1>1, <1>6, CallHostEffect
  <2> QED
    BY <1>1, <1>2, <1>6, <2>1, EffectAllowed DEF QueuesProper
<1>7. CASE EndScript \/ MicrotaskDone
  BY <1>4, <1>7 DEF EndScript, MicrotaskDone, Finish, slots, queues, history
<1>8. ASSUME NEW v \in ScriptValues, NEW threw \in BOOLEAN, HandlerDone(v, threw)
      PROVE  Allowed /\ QueuesProper'
  <2>1. Finish("reaction") /\ CallHost(SettlerOf(job, threw), v, jobs)
    BY <1>8 DEF HandlerDone
  <2>2. SettlerOf(job, threw) \in H
    BY <1>5, <2>1, JobFields DEF SettlerOf
  <2> QED
    BY <1>1, <1>5, <1>6, <2>1, <2>2
<1>9. ASSUME NEW v \in ScriptValues, NEW threw \in BOOLEAN, ThenDone(v, threw)
      PROVE  Allowed /\ QueuesProper'
  <2>1. /\ Finish("thenable")
        /\ UNCHANGED <<slots, jobs>> \/ CapabilitySettle(job.promise, v, TRUE, jobs)
    BY <1>9 DEF ThenDone
  <2>2. job.promise \in Allocated /\ job.promise \in Promises /\ UNCHANGED <<adoptions, origin>>
    <3>1. job.promise \in Allocated /\ UNCHANGED <<adoptions, origin>>
      BY <1>5, <2>1, JobFields
    <3> QED
      BY <3>1, Widened
  <2>3. CASE UNCHANGED <<slots, jobs>>
    BY <1>4, <2>2, <2>3 DEF queues
  <2>4. CASE CapabilitySettle(job.promise, v, TRUE, jobs)
    <3>1. Settles(job.promise, v, jobs)
      BY <2>4 DEF Settles
    <3>2. Effect(job.promise, jobs) /\ jobs' \in Seq(ProperJobs)
      BY <1>1, <2>2, <3>1, SettlesEffect
    <3> QED
      BY <1>1, <1>2, <2>2, <3>2, EffectAllowed DEF QueuesProper
  <2> QED
    BY <2>1, <2>3, <2>4
<1>10. ASSUME NEW v \in ScriptValues, FinallyThrows(v) PROVE Allowed /\ QueuesProper'
  <2>1. Finish("finally") /\ CallHost(RejectOf(job.derived), v, jobs)
    BY <1>10 DEF FinallyThrows
  <2>2. RejectOf(job.derived) \in H
    BY <1>1, <1>5, <2>1, JobFields
  <2> QED
    BY <1>1, <1>5, <1>6, <2>1, <2>2
<1>11. ASSUME NEW v \in ScriptValues, FinallyReturns(v) PROVE Allowed /\ QueuesProper'
  <2>1. Finish("finally") /\ CallHost(WatchedHalf(job), job.payload, jobs)
    BY <1>11 DEF FinallyReturns
  <2>2. WatchedHalf(job) \in H /\ job.payload \in Reachable
    BY <1>1, <1>5, <2>1, JobFields DEF WatchedHalf
  <2> QED
    BY <1>5, <1>6, <2>1, <2>2
<1>12. ASSUME NEW v \in ScriptValues, AdoptFinallyResult(v) PROVE Allowed /\ QueuesProper'
  <2> DEFINE x == WatchRecord(ForwardOk(job.derived, job.payload), ForwardErr(job.derived))
             d == count + 1
  <2>1. /\ Finish("finally") /\ count < MaxPromises /\ count' = d
        /\ reactions' = [reactions EXCEPT ![d] = <<x>>] /\ UNCHANGED <<state, result, jobs>>
    BY <1>12 DEF AdoptFinallyResult
  <2>2. d \in Promises /\ reactions[d] = <<>>
    BY <2>1, NewPromise
  <2>3. x \in AllRecords /\ x[3] = Unobserved
    <3>1. job.derived \in Allocated /\ job.payload \in Reachable
      BY <1>5, <2>1, JobFields
    <3>2. job.derived \in Promises /\ job.payload \in Values
      BY <1>1, <3>1, Widened
    <3>3. /\ ForwardOk(job.derived, job.payload) \in ClosuresOf(Promises, Values)
          /\ ForwardErr(job.derived) \in ClosuresOf(Promises, Values)
      BY <3>2 DEF ForwardOk, ForwardErr, ClosuresOf
    <3>4. x \in AllRecords
      BY <3>3 DEF AllRecords, RecordsOf
    <3> QED
      BY <3>4 DEF WatchRecord
  <2> HIDE DEF x, d
  <2>4. reactions' = [reactions EXCEPT ![d] = Append(@, x)]
    BY <2>1, <2>2
  <2>5. AbsOutcome' = AbsOutcome /\ AbsWaiting' = AbsWaiting
    BY <2>1, <2>2, <2>3, <2>4, QuietRecord
  <2>6. Effect(1, jobs) /\ UNCHANGED <<adoptions, origin>>
    BY <1>5, <2>1, <2>5 DEF Effect
  <2> QED
    BY <1>1, <1>2, <1>3, <2>1, <2>6, EffectAllowed DEF QueuesProper
<1> QED
  BY <1>7, <1>8, <1>9, <1>10, <1>11, <1>12 DEF ScriptReturns

\* A step of the drain: reactions run in the order they are due, and one that
\* has no handler settles its own promise as it runs.
LEMMA DrainAllowed ==
    ASSUME TypeInv, QueuesProper, Drain
    PROVE  Allowed /\ QueuesProper'
<1> DEFINE J == JobsOf(Allocated, Reachable)
           H == HostFunctionsOf(Allocated, Reachable)
           j == Head(jobs)
<1>1. /\ jobs \in Seq(ProperJobs) /\ adoptions \in Seq(AdoptionJobs) /\ Undefined \in Reachable
      /\ \A p \in Allocated : ResolveOf(p) \in H /\ RejectOf(p) \in H
      /\ OtherValues \subseteq Reachable /\ Allocated \subseteq Promises
  BY Known, Widened, OthersReachable DEF QueuesProper
<1>2. UNCHANGED origin => ReactsByThen' = ReactsByThen
  BY DEF ReactsByThen
<1>3. 1 \in Promises
  BY BoundsAssumption DEF Promises
<1>4. ASSUME NEW type, Pop(type)
      PROVE  /\ j \in J /\ j.type = type /\ jobs # <<>> /\ Tail(jobs) \in Seq(ProperJobs)
             /\ j \in ProperJobs
  <2>1. j \in J /\ j.type = type /\ jobs # <<>>
    BY <1>4, PopType DEF Pop
  <2>2. Tail(jobs) \in Seq(ProperJobs) /\ j \in ProperJobs
    BY <1>1, <2>1, HeadTailProperties
  <2> QED
    BY <2>1, <2>2
\* The job taken is no reaction, and settles what it settles.
<1>5. ASSUME NEW type, Pop(type), DerivedOf(j) = Unobserved, NEW p \in Promises,
             Effect(p, Tail(jobs)), jobs' \in Seq(ProperJobs), UNCHANGED <<adoptions, origin>>
      PROVE  Allowed /\ QueuesProper'
  BY <1>1, <1>2, <1>4, <1>5, PopAllowed DEF QueuesProper
<1>6. CASE TakeAdoptions
  <2>1. jobs' = jobs \o adoptions /\ adoptions' = <<>> /\ UNCHANGED <<slots, origin>>
    BY <1>6 DEF TakeAdoptions, history
  <2>2. adoptions \in Seq(ProperJobs) /\ adoptions \in Seq(AllJobs) /\ DueIn(adoptions) = <<>>
    BY <1>1, DueAdoptions
  <2>3. jobs \in Seq(AllJobs)
    BY <1>1, SeqMonotonic DEF ProperJobs
  <2>4. DueIn(jobs') = DueIn(jobs) \o <<>>
    BY <2>1, <2>2, <2>3, DueConcat
  <2>5. DueIn(jobs) \o <<>> = DueIn(jobs)
    <3>1. DueIn(jobs) \in Seq(Nat)
      BY <2>3, NamesType, NamedType
    <3> QED
      BY <3>1, ConcatEmptySeq
  <2>6. Effect(1, jobs)
    BY <2>1, <2>4, <2>5, QuietSlots DEF Effect
  <2>7. jobs' \in Seq(ProperJobs)
    BY <1>1, <2>1, <2>2, ConcatProperties
  <2>8. adoptions' \in Seq(AdoptionJobs)
    BY <2>1, EmptySeq
  <2> QED
    BY <1>2, <1>3, <2>1, <2>6, <2>7, <2>8, EffectAllowed DEF QueuesProper
<1>7. CASE CallHandler \/ CallThen \/ CallFinally \/ RunMicrotask
  <2>1. /\ jobs # <<>> /\ jobs' = Tail(jobs) /\ UNCHANGED <<slots, origin, adoptions>>
    BY <1>7 DEF CallHandler, CallThen, CallFinally, RunMicrotask, Pop, CallScript, history
  <2> QED
    BY <1>1, <2>1, TakenAllowed DEF QueuesProper
<1>8. CASE RunHostHandler
  <2>1. /\ Pop("reaction") /\ j.handler \notin Handlers /\ UNCHANGED <<adoptions, origin>>
        /\ CallHost(j.handler, j.payload, Tail(jobs))
    BY <1>8 DEF RunHostHandler
  <2>2. j.handler \in H /\ j.payload \in Reachable
    BY <1>4, <2>1, JobFields
  <2>3. DerivedOf(j) = Unobserved
    BY <1>4, <2>1 DEF ProperJobs, Proper, DerivedOf
  <2>4. jobs' \in Seq(ProperJobs) /\ \E p \in Promises : Effect(p, Tail(jobs))
    BY <1>4, <2>1, <2>2, CallHostEffect
  <2> QED
    BY <1>5, <2>1, <2>3, <2>4
<1>9. CASE PassThrough
  <2> DEFINE f == SettlerOf(j, j.rejecting)
  <2>1. /\ Pop("reaction") /\ UNCHANGED <<adoptions, origin>>
        /\ CallHost(f, j.payload, Tail(jobs))
    BY <1>9 DEF PassThrough
  <2>2. f \in H /\ j.payload \in Reachable
    BY <1>4, <2>1, JobFields DEF SettlerOf
  <2>3. /\ jobs' \in Seq(ProperJobs) /\ \E p \in Promises : Effect(p, Tail(jobs))
        /\ \A d \in Promises : f \in {ResolveOf(d), RejectOf(d)} => Effect(d, Tail(jobs))
    <3> HIDE DEF f
    <3> QED
      BY <1>4, <2>1, <2>2, CallHostEffect
  <2>4. DerivedOf(j) # Unobserved =>
           /\ DerivedOf(j) \in Promises
           /\ f \in {ResolveOf(DerivedOf(j)), RejectOf(DerivedOf(j))}
    <3>1. DerivedOf(j) = j.derived /\ j.derived \in Allocated \cup {Unobserved}
      BY <1>4, <2>1, JobFields DEF DerivedOf
    <3>2. j \in ProperJobs /\ j.type = "reaction"
      BY <1>4, <2>1
    <3>3. j.derived # Unobserved => j.capability = <<ResolveOf(j.derived), RejectOf(j.derived)>>
      BY <3>2, ProperCapability
    <3> QED
      BY <1>1, <3>1, <3>3 DEF SettlerOf
  <2>5. DerivedOf(j) # Unobserved => Effect(DerivedOf(j), Tail(jobs))
    BY <2>3, <2>4
  <2>6. Allowed
    BY <1>1, <1>2, <1>4, <2>1, <2>3, <2>5, PopAllowed
  <2> QED
    BY <1>1, <2>1, <2>3, <2>6 DEF QueuesProper
<1>10. CASE HostCall
  <2>1. /\ CallHost(host.function, host.argument, jobs) /\ UNCHANGED <<adoptions, origin>>
        /\ host.function \in H /\ host.argument \in Reachable
    BY <1>10 DEF HostCall, TypeInv, EngineTyped, history
  <2>2. jobs' \in Seq(ProperJobs) /\ \E p \in Promises : Effect(p, jobs)
    BY <1>1, <2>1, CallHostEffect
  <2> QED
    BY <1>1, <1>2, <2>1, <2>2, EffectAllowed DEF QueuesProper
<1>11. ASSUME NEW v \in Reachable, Pop("thenable"), Settles(j.promise, v, Tail(jobs)),
              UNCHANGED <<adoptions, origin>>
       PROVE  Allowed /\ QueuesProper'
  <2>1. j.promise \in Allocated /\ DerivedOf(j) = Unobserved
    BY <1>4, <1>11, JobFields DEF DerivedOf
  <2>2. Effect(j.promise, Tail(jobs)) /\ jobs' \in Seq(ProperJobs)
    BY <1>4, <1>11, <2>1, SettlesEffect
  <2> QED
    BY <1>1, <1>5, <1>11, <2>1, <2>2
<1>12. CASE ThenNotCallable
  <2>1. /\ Pop("thenable") /\ Settles(j.promise, j.thenable, Tail(jobs))
        /\ j.thenable \in Reachable /\ UNCHANGED <<adoptions, origin>>
    BY <1>1, <1>12 DEF ThenNotCallable, Settles, OtherValues, history
  <2> QED
    BY <1>11, <2>1
<1>13. ASSUME NEW e \in Plain, ThenThrows(e) PROVE Allowed /\ QueuesProper'
  <2>1. /\ Pop("thenable") /\ Settles(j.promise, e, Tail(jobs))
        /\ e \in Reachable /\ UNCHANGED <<adoptions, origin>>
    BY <1>1, <1>13 DEF ThenThrows, Settles, OtherValues, history
  <2> QED
    BY <1>11, <2>1
<1>14. CASE FinallyNotCallable
  <2>1. /\ Pop("finally") /\ CallHost(WatchedHalf(j), j.payload, Tail(jobs))
        /\ UNCHANGED <<adoptions, origin>>
    BY <1>14 DEF FinallyNotCallable, history
  <2>2. WatchedHalf(j) \in H /\ j.payload \in Reachable /\ DerivedOf(j) = Unobserved
    BY <1>1, <1>4, <2>1, JobFields DEF WatchedHalf, DerivedOf
  <2>3. jobs' \in Seq(ProperJobs) /\ \E p \in Promises : Effect(p, Tail(jobs))
    BY <1>4, <2>1, <2>2, CallHostEffect
  <2> QED
    BY <1>5, <2>1, <2>2, <2>3
<1>15. CASE RunCall
  <2>1. /\ Pop("call") /\ CallHost(j.function, j.payload, Tail(jobs))
        /\ UNCHANGED <<adoptions, origin>>
    BY <1>15 DEF RunCall, history
  <2>2. j.function \in H /\ j.payload \in Reachable /\ DerivedOf(j) = Unobserved
    BY <1>4, <2>1, JobFields DEF DerivedOf
  <2>3. jobs' \in Seq(ProperJobs) /\ \E p \in Promises : Effect(p, Tail(jobs))
    BY <1>4, <2>1, <2>2, CallHostEffect
  <2> QED
    BY <1>5, <2>1, <2>2, <2>3
<1> QED
  BY <1>6, <1>7, <1>8, <1>9, <1>10, <1>12, <1>13, <1>14, <1>15 DEF Drain

\* The reactions a program registers run as PromiseContract says: once each,
\* after their promise settled, in the order they became due, which for one
\* promise is the order they were registered in (promise.rs, drain_reaction_jobs
\* and reaction_job; job_queue.rs, drain).
THEOREM PromisesImplementContract == Spec => ImplementsContract
<1>1. Init => QueuesProper /\ Abstract!Init
  <2> SUFFICES ASSUME Init PROVE QueuesProper /\ Abstract!Init
    OBVIOUS
  <2>1. QueuesProper
    <3>1. <<>> \in Seq(ProperJobs) /\ <<>> \in Seq(AdoptionJobs)
      BY EmptySeq
    <3> QED
      BY <3>1 DEF Init, QueuesProper
  <2>2. WaitingIn(<<>>) = <<>> /\ DueIn(<<>>) = <<>>
    <3>1. /\ [i \in DOMAIN <<>> |-> <<>>[i][3]] = <<>>
          /\ [i \in DOMAIN <<>> |-> DerivedOf(<<>>[i])] = <<>>
      OBVIOUS
    <3> QED
      BY <3>1, NamedOne DEF WaitingIn, DueIn
  <2>3. ReactsByThen = {}
    BY DEF Init, ReactsByThen
  <2>4. Abstract!Init
    BY <2>2, <2>3 DEF Abstract!Init, Init, OutcomeOf, Settled
  <2> QED
    BY <2>1, <2>4
<1>2. TypeInv /\ QueuesProper /\ [Next]_vars => QueuesProper' /\ Allowed
  <2> SUFFICES ASSUME TypeInv, QueuesProper, [Next]_vars PROVE QueuesProper' /\ Allowed
    OBVIOUS
  <2>1. CASE UNCHANGED vars
    <3>1. Effect(1, jobs) /\ UNCHANGED <<slots, jobs, adoptions, origin>>
      BY <2>1, QuietSlots DEF vars, queues, history, Effect
    <3>2. 1 \in Promises /\ ReactsByThen' = ReactsByThen
      BY <3>1, BoundsAssumption DEF Promises, ReactsByThen
    <3> QED
      BY <3>1, <3>2, EffectAllowed DEF QueuesProper
  <2> QED
    BY <2>1, ScriptAllowed, ReturnAllowed, DrainAllowed DEF Next
<1>3. Spec => []TypeInv
  BY NothingUnallocated
<1> QED
  BY <1>1, <1>2, <1>3, PTL DEF Spec, Allowed, ImplementsContract, Abstract!Spec
=============================================================================
