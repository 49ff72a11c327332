------------------------------ MODULE Promises ------------------------------
(***************************************************************************)
(* The promise machinery of v12-engine (builtins/promise.rs) and of the    *)
(* interpreter seams that call it (call_setup.rs): resolving functions,    *)
(* promise and thenable adoption, reaction records, reaction jobs, finally *)
(* watchers.                                                               *)
(*                                                                         *)
(* Everything runs on one thread.  Script is the environment: while it has *)
(* control (the main program, or a callback a job is calling) it performs  *)
(* any sequence of promise operations.  A job is then finished by the      *)
(* engine.  `jobs` is the job queue followed by the pending sink: the      *)
(* drain moves the sink behind the queue before it picks the next job.     *)
(*                                                                         *)
(* A value is a promise or one of a few kinds of other values, told apart  *)
(* by what reading their `then` gives.  A function is a record: a user     *)
(* function, one half of a capability, or one of the engine's host         *)
(* closures with what it captured.  Two capability pairs over the same     *)
(* promise behave alike, so the promise names them.                        *)
(***************************************************************************)
EXTENDS Naturals, Sequences, FiniteSets

CONSTANTS
    MaxPromises,   \* bound on the promises that are ever allocated
    MaxOps,        \* bound on the promise operations script performs
    Plain,         \* values with no `then` property
    Inert,         \* objects whose `then` is not callable
    Thenables,     \* objects whose `then` is a user function
    Poisoned,      \* objects whose `then` getter throws
    Undefined,     \* the value undefined
    TypeErrorValue,\* the error of self_resolution_type_error
    Operations     \* the operations script uses, a subset of AllOperations

AllOperations ==
    {"construct", "settle", "then", "finally", "resolve", "reject", "microtask"}

Promises == 1..MaxPromises
OtherValues == Plain \cup Inert \cup Thenables \cup Poisoned \cup {Undefined, TypeErrorValue}
Values == Promises \cup OtherValues
HasThen(v) == v \in Inert \cup Thenables \cup Poisoned

ASSUME BoundsAssumption == MaxPromises \in Nat \ {0} /\ MaxOps \in Nat
ASSUME OperationsAssumption == Operations \subseteq AllOperations
ASSUME ValuesAssumption ==
    /\ Promises \cap OtherValues = {}
    /\ \A v \in Plain \cup {Undefined, TypeErrorValue} : ~HasThen(v)
    /\ Inert \cap (Thenables \cup Poisoned) = {} /\ Thenables \cap Poisoned = {}

States == {"pending", "fulfilled", "rejected"}

VARIABLES
    count,       \* promises 1..count are allocated
    state, result, reactions,   \* the three internal slots of a promise
    jobs,        \* the job queue followed by the pending sink
    adoptions,   \* Interp::pending_adoptions: thenables of Promise.resolve
    control,     \* who runs: script, a callback, a host call, or the drain
    job,         \* the job whose callback is running
    host,        \* the call the engine makes next, within the same job
    held,        \* promises whose resolving functions script has
    visible,     \* promises script can name
    ops,         \* operations script has performed
    origin,      \* history: how a derived promise came to be
    asked,       \* history: the first two resolutions script asked for
    started      \* history: how often the reaction of a derived promise ran

slots == <<state, result, reactions>>
queues == <<jobs, adoptions>>
engine == <<control, job, host>>
script == <<held, visible, ops>>
history == <<origin, asked, started>>
vars == <<count, slots, queues, engine, script, history>>

-----------------------------------------------------------------------------
(* Functions, reaction records and jobs.                                   *)

NoFunction == [fn |-> "none"]
UserFunction == [fn |-> "user"]
ResolveOf(p) == [fn |-> "resolve", promise |-> p]
RejectOf(p) == [fn |-> "reject", promise |-> p]
\* The watcher closures of promise_watch_finally.
Watcher(st, d, cb) == [fn |-> "watch", state |-> st, derived |-> d, callback |-> cb]
\* The forwarding closures of adopt_finally_result.
ForwardOk(d, v) == [fn |-> "forward", half |-> ResolveOf(d), payload |-> v]
ForwardErr(d) == [fn |-> "forwardError", half |-> RejectOf(d)]

Handlers == {NoFunction, UserFunction}
Callable(f) == f.fn # "none"

\* The promise slot of a three-slot record: allocated, never read or settled.
Unobserved == 0

ThenRecord(f, g, d) == <<f, g, d, ResolveOf(d), RejectOf(d)>>
AdoptionRecord(p) == <<ResolveOf(p), RejectOf(p), Unobserved>>
WatchRecord(f, g) == <<f, g, Unobserved>>

\* The capability a record settles through: its own pair in a five-slot
\* record, its two handlers in a three-slot one.
HandlersAsPair(r) == <<r[1], r[2]>>
CapabilityOf(r) == IF Len(r) >= 5 THEN <<r[4], r[5]>> ELSE <<r[1], r[2]>>

ReactionJob(h, v, d, cap, rejecting) ==
    [type |-> "reaction", handler |-> h, payload |-> v, derived |-> d,
     capability |-> cap, rejecting |-> rejecting]
ThenableJob(p, v) == [type |-> "thenable", promise |-> p, thenable |-> v]
FinallyJob(d, cb, st, v) ==
    [type |-> "finally", derived |-> d, callback |-> cb, state |-> st, payload |-> v]
CallJob(f, v) == [type |-> "call", function |-> f, payload |-> v]
MicrotaskJob == [type |-> "microtask"]
NoJob == [type |-> "none"]
NoCall == [function |-> NoFunction, argument |-> Undefined]

\* drain_reaction_jobs: one job per record, in the order they were added.
JobOfRecord(r, st, v) ==
    ReactionJob(IF st = "fulfilled" THEN r[1] ELSE r[2], v, r[3],
                CapabilityOf(r), st # "fulfilled")
DrainReversed(p, st, v) ==
    [i \in DOMAIN reactions[p] |->
        JobOfRecord(reactions[p][Len(reactions[p]) + 1 - i], st, v)]
DrainReactionJobs(p, st, v) ==
    [i \in DOMAIN reactions[p] |-> JobOfRecord(reactions[p][i], st, v)]

-----------------------------------------------------------------------------
(* Settlement.  q is the queue the jobs it schedules are appended to.      *)

Settled(p) == state[p] # "pending"
NeverChecks(p) == TRUE
StillPending(p) == state[p] = "pending"

SettleAndForget(p, st, v, q) ==
    /\ state' = [state EXCEPT ![p] = st]
    /\ result' = [result EXCEPT ![p] = v]
    /\ jobs' = q
    /\ reactions' = [reactions EXCEPT ![p] = <<>>]
SettleTo(p, st, v, q) ==
    /\ state' = [state EXCEPT ![p] = st]
    /\ result' = [result EXCEPT ![p] = v]
    /\ jobs' = q \o DrainReactionJobs(p, st, v)
    /\ reactions' = [reactions EXCEPT ![p] = <<>>]

\* The promise stays pending: p waits for v to settle.
AttachAdoption(p, v, q) ==
    /\ reactions' = [reactions EXCEPT ![v] = Append(@, AdoptionRecord(p))]
    /\ jobs' = q
    /\ UNCHANGED <<state, result>>

\* Resolution of p with another promise.
AttachAlways(p, v, q) == AttachAdoption(p, v, q)
FulfilWithPromise(p, v, q) == SettleTo(p, "fulfilled", v, q)
AdoptPromise(p, v, q) ==
    IF state[v] = "pending" THEN AttachAdoption(p, v, q)
    ELSE SettleTo(p, state[v], result[v], q)

\* settle_with_adoption
SettleWithAdoption(p, v, rejecting, mayAdopt, q) ==
    IF ~StillPending(p)
    THEN jobs' = q /\ UNCHANGED slots
    ELSE CASE rejecting -> SettleTo(p, "rejected", v, q)
           [] ~rejecting /\ v = p -> SettleTo(p, "rejected", TypeErrorValue, q)
           [] ~rejecting /\ v \in Promises \ {p} -> AdoptPromise(p, v, q)
           [] ~rejecting /\ HasThen(v) /\ mayAdopt ->
                 jobs' = Append(q, ThenableJob(p, v)) /\ UNCHANGED slots
           [] OTHER -> SettleTo(p, "fulfilled", v, q)

CapabilitySettle(p, v, rejecting, q) == SettleWithAdoption(p, v, rejecting, TRUE, q)

\* A call of one of the engine's host closures.
CallHost(f, v, q) ==
    CASE f.fn = "resolve" -> CapabilitySettle(f.promise, v, FALSE, q)
      [] f.fn = "reject" -> CapabilitySettle(f.promise, v, TRUE, q)
      [] f.fn = "watch" ->
            /\ jobs' = Append(q, FinallyJob(f.derived, f.callback, f.state, v))
            /\ UNCHANGED slots
      [] f.fn = "forward" -> jobs' = Append(q, CallJob(f.half, f.payload)) /\ UNCHANGED slots
      [] f.fn = "forwardError" -> jobs' = Append(q, CallJob(f.half, v)) /\ UNCHANGED slots

-----------------------------------------------------------------------------
Init ==
    /\ count = 0
    /\ state = [p \in Promises |-> "pending"]
    /\ result = [p \in Promises |-> Undefined]
    /\ reactions = [p \in Promises |-> <<>>]
    /\ jobs = <<>> /\ adoptions = <<>>
    /\ control = "script" /\ job = NoJob /\ host = NoCall
    /\ held = {} /\ visible = {} /\ ops = 0
    /\ origin = [p \in Promises |-> [source |-> Unobserved, by |-> "none"]]
    /\ asked = [p \in Promises |-> <<>>]
    /\ started = [p \in Promises |-> 0]

(* What script does while it has control.                                  *)

Operation(name) ==
    /\ name \in Operations
    /\ control \in {"script", "callback"}
    /\ ops < MaxOps
    /\ ops' = ops + 1
    /\ UNCHANGED <<engine, started>>

Allocated == 1..count

\* What script passes and returns.  Undefined is one more plain value; only
\* the engine uses it here, so that its own undefined can be told apart.
ScriptValues == visible \cup (OtherValues \ {Undefined, TypeErrorValue})

\* create_promise for a promise script gets to see.
Allocate ==
    /\ count < MaxPromises
    /\ count' = count + 1
    /\ visible' = visible \cup {count + 1}

\* new Promise(executor), Promise.withResolvers: the executor runs as script
\* does, with the resolving functions in its hands.
Construct ==
    /\ Operation("construct")
    /\ Allocate
    /\ held' = held \cup {count + 1}
    /\ UNCHANGED <<slots, queues, origin, asked>>

\* A call of a resolving function, also the step that rejects for an executor
\* that throws.
CallResolving(p, v, rejecting) ==
    /\ Operation("settle")
    /\ p \in held
    /\ v \in ScriptValues
    /\ CapabilitySettle(p, v, rejecting, jobs)
    /\ asked' = IF Settled(p) \/ Len(asked[p]) = 2 THEN asked
                ELSE [asked EXCEPT ![p] = Append(@, [value |-> v, rejecting |-> rejecting])]
    /\ UNCHANGED <<count, adoptions, held, visible, origin>>

\* install_then_record
AlwaysWait(p, f, g, d) ==
    /\ reactions' = [reactions EXCEPT ![p] = Append(@, ThenRecord(f, g, d))]
    /\ UNCHANGED <<state, result, jobs>>
InstallThenRecord(p, f, g, d) ==
    IF state[p] = "pending"
    THEN /\ reactions' = [reactions EXCEPT ![p] = Append(@, ThenRecord(f, g, d))]
         /\ UNCHANGED <<state, result, jobs>>
    ELSE /\ jobs' = Append(jobs, JobOfRecord(ThenRecord(f, g, d), state[p], result[p]))
         /\ UNCHANGED slots

\* p.then(f, g), p.catch(g)
Then(p, f, g) ==
    /\ Operation("then")
    /\ p \in visible
    /\ Allocate
    /\ InstallThenRecord(p, f, g, count + 1)
    /\ origin' = [origin EXCEPT ![count + 1] =
         [source |-> p, by |-> IF Callable(f) \/ Callable(g) THEN "then" ELSE "passThrough"]]
    /\ UNCHANGED <<adoptions, held, asked>>

\* promise_watch_finally
WatchFinally(p, cb, d) ==
    IF state[p] = "pending"
    THEN /\ reactions' = [reactions EXCEPT ![p] =
              Append(@, WatchRecord(Watcher("fulfilled", d, cb), Watcher("rejected", d, cb)))]
         /\ UNCHANGED <<state, result, jobs>>
    ELSE /\ jobs' = Append(jobs, FinallyJob(d, cb, state[p], result[p]))
         /\ UNCHANGED slots

\* p.finally(cb)
Finally(p, cb) ==
    /\ Operation("finally")
    /\ p \in visible
    /\ Allocate
    /\ WatchFinally(p, cb, count + 1)
    /\ origin' = [origin EXCEPT ![count + 1] = [source |-> p, by |-> "finally"]]
    /\ UNCHANGED <<adoptions, held, asked>>

\* Promise.resolve(v) of a value that is not a promise (a promise comes back
\* itself): a thenable, or a value whose `then` cannot be read, is left to the
\* drain.
PromiseResolve(v) ==
    /\ Operation("resolve")
    /\ v \in ScriptValues \ Promises
    /\ Allocate
    /\ IF v \in Thenables \cup Poisoned
       THEN /\ adoptions' = Append(adoptions, ThenableJob(count + 1, v))
            /\ UNCHANGED <<state, result>>
       ELSE /\ state' = [state EXCEPT ![count + 1] = "fulfilled"]
            /\ result' = [result EXCEPT ![count + 1] = v]
            /\ UNCHANGED adoptions
    /\ UNCHANGED <<reactions, jobs, held, origin, asked>>

\* Promise.reject(v)
PromiseReject(v) ==
    /\ Operation("reject")
    /\ v \in ScriptValues
    /\ Allocate
    /\ state' = [state EXCEPT ![count + 1] = "rejected"]
    /\ result' = [result EXCEPT ![count + 1] = v]
    /\ UNCHANGED <<reactions, queues, held, origin, asked>>

QueueMicrotask ==
    /\ Operation("microtask")
    /\ jobs' = Append(jobs, MicrotaskJob)
    /\ UNCHANGED <<count, slots, adoptions, held, visible, origin, asked>>

\* The program ends and the checkpoint begins.
EndScript ==
    /\ control = "script"
    /\ control' = "drain"
    /\ UNCHANGED <<count, slots, queues, job, host, script, history>>

\* The embedder evaluates another program.
NextScript ==
    /\ control = "drain" /\ jobs = <<>> /\ adoptions = <<>>
    /\ ops < MaxOps
    /\ control' = "script"
    /\ UNCHANGED <<count, slots, queues, job, host, script, history>>

-----------------------------------------------------------------------------
(* JobQueue::drain: one job at a time.                                     *)

\* The adoptions requested so far become jobs, behind the jobs of the sink.
TakeAdoptions ==
    /\ control = "drain" /\ adoptions # <<>>
    /\ jobs' = jobs \o adoptions
    /\ adoptions' = <<>>
    /\ UNCHANGED <<count, slots, engine, script, history>>

Pop(type) ==
    /\ control = "drain" /\ adoptions = <<>>
    /\ jobs # <<>>
    /\ Head(jobs).type = type

CallScript == control' = "callback" /\ job' = Head(jobs) /\ jobs' = Tail(jobs)

Starts(d) == started' = IF d = Unobserved THEN started ELSE [started EXCEPT ![d] = @ + 1]

\* The half of the capability an outcome is handed to.
AlwaysResolve(j, abrupt) == j.capability[1]
SettlerOf(j, abrupt) == j.capability[IF abrupt THEN 2 ELSE 1]

\* reaction_job with a user function as its handler.
CallHandler ==
    /\ Pop("reaction") /\ Head(jobs).handler = UserFunction
    /\ CallScript
    /\ Starts(Head(jobs).derived)
    /\ UNCHANGED <<count, slots, adoptions, host, script, origin, asked>>

\* reaction_job with a host closure as its handler: the closure runs, then
\* its result, undefined, goes to the resolve half of the capability.
RunHostHandler ==
    LET j == Head(jobs) IN
    /\ Pop("reaction") /\ j.handler \notin Handlers
    /\ CallHost(j.handler, j.payload, Tail(jobs))
    /\ control' = "host"
    /\ host' = [function |-> SettlerOf(j, FALSE), argument |-> Undefined]
    /\ Starts(j.derived)
    /\ UNCHANGED <<count, adoptions, job, script, origin, asked>>

\* reaction_job without a handler: the payload goes to the capability.
PassThrough ==
    LET j == Head(jobs) IN
    /\ Pop("reaction") /\ j.handler = NoFunction
    /\ CallHost(SettlerOf(j, j.rejecting), j.payload, Tail(jobs))
    /\ Starts(j.derived)
    /\ UNCHANGED <<count, adoptions, engine, script, origin, asked>>

\* The second call of a job that makes two.
HostCall ==
    /\ control = "host"
    /\ CallHost(host.function, host.argument, jobs)
    /\ control' = "drain"
    /\ host' = NoCall
    /\ UNCHANGED <<count, adoptions, job, script, history>>

\* thenable_job: `then` is a user function, not callable, or throws.
CallThen ==
    /\ Pop("thenable") /\ Head(jobs).thenable \in Thenables
    /\ CallScript
    /\ held' = held \cup {Head(jobs).promise}
    /\ UNCHANGED <<count, slots, adoptions, host, visible, ops, history>>

ThenNotCallable ==
    LET j == Head(jobs) IN
    /\ Pop("thenable") /\ j.thenable \in Inert
    /\ SettleWithAdoption(j.promise, j.thenable, FALSE, FALSE, Tail(jobs))
    /\ UNCHANGED <<count, adoptions, engine, script, history>>

ThenThrows(e) ==
    LET j == Head(jobs) IN
    /\ Pop("thenable") /\ j.thenable \in Poisoned
    /\ CapabilitySettle(j.promise, e, TRUE, Tail(jobs))
    /\ UNCHANGED <<count, adoptions, engine, script, history>>

\* finally_settle_job
CallFinally ==
    /\ Pop("finally") /\ Callable(Head(jobs).callback)
    /\ CallScript
    /\ Starts(Head(jobs).derived)
    /\ UNCHANGED <<count, slots, adoptions, host, script, origin, asked>>

WatchedHalf(j) == IF j.state = "fulfilled" THEN ResolveOf(j.derived) ELSE RejectOf(j.derived)

FinallyNotCallable ==
    LET j == Head(jobs) IN
    /\ Pop("finally") /\ ~Callable(j.callback)
    /\ CallHost(WatchedHalf(j), j.payload, Tail(jobs))
    /\ UNCHANGED <<count, adoptions, engine, script, history>>

\* capability_call_job
RunCall ==
    LET j == Head(jobs) IN
    /\ Pop("call")
    /\ CallHost(j.function, j.payload, Tail(jobs))
    /\ UNCHANGED <<count, adoptions, engine, script, history>>

RunMicrotask ==
    /\ Pop("microtask")
    /\ CallScript
    /\ UNCHANGED <<count, slots, adoptions, host, script, history>>

-----------------------------------------------------------------------------
(* The callback of the running job returns or throws v.                    *)

Finish(type) ==
    /\ control = "callback" /\ job.type = type
    /\ job' = NoJob
    /\ UNCHANGED <<adoptions, script, history>>

\* 27.5.2.1 step 4: the handler's result goes to the capability.
HandlerDone(v, threw) ==
    /\ Finish("reaction")
    /\ CallHost(SettlerOf(job, threw), v, jobs)
    /\ control' = "drain"
    /\ UNCHANGED <<count, host>>

\* A throw out of `then` rejects the promise, a return means nothing.
ThenDone(v, threw) ==
    /\ Finish("thenable")
    /\ IF threw THEN CapabilitySettle(job.promise, v, TRUE, jobs)
                ELSE UNCHANGED <<slots, jobs>>
    /\ control' = "drain"
    /\ UNCHANGED <<count, host>>

MicrotaskDone ==
    /\ Finish("microtask")
    /\ control' = "drain"
    /\ UNCHANGED <<count, slots, jobs, host>>

FinallyThrows(v) ==
    /\ Finish("finally")
    /\ CallHost(RejectOf(job.derived), v, jobs)
    /\ control' = "drain"
    /\ UNCHANGED <<count, host>>

MayAdopt(v) == v \in Promises \/ HasThen(v)

FinallyReturns(v) ==
    /\ Finish("finally")
    /\ ~MayAdopt(v)
    /\ CallHost(WatchedHalf(job), job.payload, jobs)
    /\ control' = "drain"
    /\ UNCHANGED <<count, host>>

\* adopt_finally_result: a scratch promise with a forwarding record, resolved
\* with the callback's result by the call that follows.
AdoptFinallyResult(v) ==
    /\ Finish("finally")
    /\ MayAdopt(v)
    /\ count < MaxPromises
    /\ count' = count + 1
    /\ reactions' = [reactions EXCEPT ![count + 1] =
         <<WatchRecord(ForwardOk(job.derived, job.payload), ForwardErr(job.derived))>>]
    /\ control' = "host"
    /\ host' = [function |-> ResolveOf(count + 1), argument |-> v]
    /\ UNCHANGED <<state, result, jobs>>

-----------------------------------------------------------------------------
Script ==
    \/ Construct
    \/ \E p \in Promises, v \in Values, r \in BOOLEAN : CallResolving(p, v, r)
    \/ \E p \in Promises, f, g \in Handlers : Then(p, f, g)
    \/ \E p \in Promises, cb \in Handlers : Finally(p, cb)
    \/ \E v \in OtherValues : PromiseResolve(v)
    \/ \E v \in Values : PromiseReject(v)
    \/ QueueMicrotask
    \/ NextScript

\* Script gives control back.
ScriptReturns ==
    \/ EndScript
    \/ MicrotaskDone
    \/ \E v \in ScriptValues :
          \/ \E threw \in BOOLEAN : HandlerDone(v, threw) \/ ThenDone(v, threw)
          \/ FinallyThrows(v) \/ FinallyReturns(v) \/ AdoptFinallyResult(v)

Drain ==
    \/ TakeAdoptions
    \/ CallHandler \/ RunHostHandler \/ PassThrough \/ HostCall
    \/ CallThen \/ ThenNotCallable \/ \E e \in Plain : ThenThrows(e)
    \/ CallFinally \/ FinallyNotCallable \/ RunCall \/ RunMicrotask

Next == Script \/ ScriptReturns \/ Drain
Spec == Init /\ [][Next]_vars

\* The checkpoint loop runs jobs until the queue is empty, and script that has
\* control gives it back: a callback that does not is cut off by the deadline.
FairSpec == Spec /\ WF_vars(Drain) /\ WF_vars(ScriptReturns)

-----------------------------------------------------------------------------
(* Properties.                                                             *)

ReactsByThen == {d \in Promises : origin[d].by \in {"then", "passThrough"}}

Capabilities == {<<ResolveOf(p), RejectOf(p)>> : p \in Promises}
Watchers == [fn : {"watch"}, state : States, derived : Promises, callback : Handlers]
Forwarders == [fn : {"forward"}, half : {ResolveOf(p) : p \in Promises}, payload : Values]
         \cup [fn : {"forwardError"}, half : {RejectOf(p) : p \in Promises}]
Functions == Handlers \cup {ResolveOf(p) : p \in Promises} \cup {RejectOf(p) : p \in Promises}
                      \cup Watchers \cup Forwarders

IsRecord(r) ==
    \/ \E f, g \in Handlers, d \in Promises : r = ThenRecord(f, g, d)
    \/ \E p \in Promises : r = AdoptionRecord(p)
    \/ \E f, g \in Watchers \cup Forwarders : r = WatchRecord(f, g)

IsJob(j) ==
    \/ /\ j.type = "reaction" /\ j.handler \in Functions /\ j.payload \in Values
       /\ j.derived \in Promises \cup {Unobserved} /\ j.rejecting \in BOOLEAN
       /\ j.capability[1] \in Functions \ Handlers
       /\ j.capability[2] \in Functions \ Handlers
    \/ j.type = "thenable" /\ j.promise \in Promises /\ HasThen(j.thenable)
    \/ /\ j.type = "finally" /\ j.derived \in Promises /\ j.callback \in Handlers
       /\ j.state \in States \ {"pending"} /\ j.payload \in Values
    \/ j.type = "call" /\ j.function \in Functions \ Handlers /\ j.payload \in Values
    \/ j = MicrotaskJob

\* Every slot, queue and record holds what promise.rs puts there.
TypeOK ==
    /\ count \in 0..MaxPromises
    /\ state \in [Promises -> States] /\ result \in [Promises -> Values]
    /\ DOMAIN reactions = Promises
    /\ \A p \in Promises : \A i \in DOMAIN reactions[p] : IsRecord(reactions[p][i])
    /\ \A i \in DOMAIN jobs : IsJob(jobs[i])
    /\ \A i \in DOMAIN adoptions : IsJob(adoptions[i])
    /\ control \in {"script", "callback", "host", "drain"}
    /\ (control = "callback") <=> (job # NoJob)
    /\ (control = "host") <=> (host.function \in Functions \ Handlers)
    /\ held \subseteq Allocated /\ visible \subseteq Allocated

\* A promise settles once: neither its state nor its result changes after it
\* left the pending state, whichever of the resolving functions, adoption
\* records, thenable jobs and finally jobs that refer to it run later.
SettledForever ==
    [][\A p \in Promises : Settled(p) => state'[p] = state[p] /\ result'[p] = result[p]]_vars

\* No wake-up is lost: a settled promise has no reaction record left, so a
\* `then`, an adoption or a finally that arrives after the settlement cannot
\* park where nothing will look again ("a late-attached record would never
\* drain", settle_with_adoption).
NoStrandedRecord == \A p \in Promises : Settled(p) => reactions[p] = <<>>

\* No promise is fulfilled with something that has yet to be adopted.  The
\* interpreter's await relies on it: it hands the payload to the body.
FulfilledIsFinal ==
    \A p \in Promises :
        state[p] = "fulfilled" => result[p] \notin Promises \cup Thenables \cup Poisoned

\* then(undefined, undefined) passes on the outcome of its source, value and
\* kind, through the two capability calls of the reaction job.
PassThroughKeepsOutcome ==
    \A d \in Promises : origin[d].by = "passThrough" /\ Settled(d) =>
        state[d] = state[origin[d].source] /\ result[d] = result[origin[d].source]

\* The names in s, without the promise slot of the three-slot records.
Named(s) ==
    LET upTo[i \in 0 .. Len(s)] ==
          IF i = 0 THEN <<>>
          ELSE IF s[i] = Unobserved THEN upTo[i - 1] ELSE Append(upTo[i - 1], s[i])
    IN upTo[Len(s)]

\* The reactions of `then` among the records of a promise and among the jobs,
\* each named by its derived promise.
DerivedOf(j) == IF j.type = "reaction" THEN j.derived ELSE Unobserved
WaitingIn(records) == Named([i \in DOMAIN records |-> records[i][3]])
DueIn(q) == Named([i \in DOMAIN q |-> DerivedOf(q[i])])

Outcomes == (States \ {"pending"}) \X Values
OutcomeOf(p) == IF Settled(p) THEN <<state[p], result[p]>> ELSE <<>>

Abstract == INSTANCE PromiseContract WITH
    outcome <- [p \in Promises |-> OutcomeOf(p)],
    waiting <- [p \in Promises |-> WaitingIn(reactions[p])],
    due <- DueIn(jobs),
    known <- ReactsByThen

\* The reactions a program registers behave as PromiseContract says: each runs
\* once, after its promise settled, and in registration order, whatever
\* adoptions, thenables and finally watchers are interleaved with them.
ImplementsContract == Abstract!Spec

\* Once a promise has settled, every reaction registered on it is started by
\* the checkpoint.
ReactionsRun ==
    \A d \in Promises :
        (d \in ReactsByThen /\ Settled(origin[d].source)) ~> (started[d] = 1)

\* A settlement travels down a chain: the promise of a then without handlers,
\* and a promise resolved with another one, settle after the one they follow.
AdoptionIsDue(p) ==
    \E i \in DOMAIN jobs : /\ jobs[i].type = "reaction"
                           /\ jobs[i].handler \in {ResolveOf(p), RejectOf(p)}
OutcomePropagates ==
    \A p \in Promises :
        /\ (origin[p].by = "passThrough" /\ Settled(origin[p].source)) ~> Settled(p)
        /\ AdoptionIsDue(p) ~> Settled(p)

(* What the comments say and the code does not do.                         *)

\* "first resolution wins" (capability_settle): what script first passes to a
\* promise's resolving functions decides how it settles.
FirstResolutionWins ==
    \A p \in Promises : Settled(p) /\ asked[p] # <<>> =>
        LET v == Head(asked[p]).value IN
        IF Head(asked[p]).rejecting THEN state[p] = "rejected" /\ result[p] = v
        ELSE /\ v \in Plain => state[p] = "fulfilled" /\ result[p] = v
             /\ v \in Promises \ {p} => state[p] = state[v] /\ result[p] = result[v]

\* "each watcher enqueues one real job that runs the callback"
\* (promise_finally): the callback of one finally call is called once.
FinallyRunsOnce == \A d \in Promises : origin[d].by = "finally" => started[d] <= 1
=============================================================================
