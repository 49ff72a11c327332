# A TLA+ model of the v12 JavaScript engine

v12 is a JavaScript engine in Rust: a bytecode compiler, a register-based
interpreter with inline caches, a baseline and an optimizing JIT, a non-moving
mark-sweep heap, and the built-in library. This directory specifies the parts
of it whose correctness depends on the order in which things happen, checks the
specifications with TLC on small instances and proves, with TLAPS, what matters
most for every instance.

All paths below are relative to the repository's `crates/`, those of `conformance`
to its root.

## 1. The system

One OS thread runs everything. What makes the order of events hard is not
preemption but re-entrancy and deferral: script runs inside of native functions,
native functions inside of script, promise jobs, async bodies and settlements are
queued in five different places and run later, a collection may happen at every
safepoint, and the sweep that follows it is spread over later allocations. An
embedder's deadline can cut script off at any back edge.

| component | state | operations | interacts with |
|---|---|---|---|
| heap (`v12-heap/src/gc.rs`) | per space: slots with alive and released flags, free list, sweep cursor, pending-dead count; eight kinds of root | `alloc`, `get`/`get_mut`, root registration, `safepoint`, `force_collect`, `sweep_step` | called by everything; the interpreter republishes its roots at a safepoint (`gc_protect`) |
| shapes, validity cells, stub cache (`shape.rs`, `stub_cache.rs`, `gc.rs`) | transition tree with weak child edges, property tables, per-realm cells, a two-level cache stamped with a generation | add property, transition lookup, invalidate, record and look up | written by property operations, consulted by the interpreter and the JIT, cleared by a collection |
| promises (`v12-engine/src/builtins/promise.rs`) | slots of a promise object: state, result, reaction records; resolving functions as closures | construct, resolve, reject, then, finally, `Promise.resolve`, combinators; reaction, thenable and finally jobs | jobs go to the pending sink; thenables of native calls to the interpreter's adoption list |
| checkpoint (`job_queue.rs`, `engine/eval.rs`) | job queue with a cap, the shared sink | enqueue, drain, the loop over jobs, resumes and settlements | drains three queues of the interpreter |
| async functions and generators (`v12-interp/src/generator_async.rs`, `generator.rs`, `lib.rs`) | generator object slots, request queue, pending awaits and settlements | next, return, throw, suspend at yield or await, resume, serve the queue | resumed by the checkpoint, settled by the engine |
| interpreter (`execute.rs`, `call.rs`, `call_setup.rs`, `property.rs`) | frames, register stack, handlers, feedback | one arm per opcode, calls, unwinding, property access | runs bodies and jobs |
| bytecode compiler (`v12-bccompiler`), bytecode (`v12-bytecode`) | scopes, registers, jump patches | lower AST to bytecode, relax jumps, validate | output interpreted and compiled |
| JIT tiers (`jit_tier.rs`, `v12-jit-baseline`, `v12-jit-opt`) | counters, compiled code, guards, deopt frames | count, compile, guard, deoptimize | reads feedback, returns to the interpreter |
| module loader (`module_loader.rs`, `module_namespace.rs`) | module records and their status | link, evaluate, settle top-level await | drains the interpreter's queues itself |
| engine, realms, API (`engine.rs`, `realm.rs`, `v12-api`) | realms, options, deadline | eval, call, run jobs | owns the job queue; one interpreter per evaluation |
| built-ins other than promises | own slots (Map and Set tables, iterators, element stores) | library calls | heap and interpreter |
| conformance harness (`conformance/harness`, `faildiff.sh`) | children and their deadlines, outcomes, reports | spawn, tick, kill, judge, report, compare | runs the engine in processes of its own |

### What is hard, and what makes each part correct

* **Heap.** A slot is reused as soon as a sweep step releases it, sweeps are
  interleaved with collections that change their mind about what is dead, and a
  stale handle that is rooted again brings a slot back that is already in the free
  list. Correct: a released slot is in the free list once and dead; nothing
  reachable is ever dead; no slot is leaked; allocation ends.
* **Promises.** Resolving functions, adoption records, thenable jobs and finally
  jobs of one promise fire in any order. Correct: one settlement, no reaction lost,
  registration order, outcomes carried through chains.
* **Checkpoint.** Work made by one queue's step belongs into another queue, which
  may have been drained already in this pass; awaits on promises that never settle
  must not keep the loop going; the deadline can end any step. Correct: jobs in
  order, a task in one place, nothing left that could run, and an end.
* **Async generators.** Requests arrive from the running body, while it is
  parked, and from a call so deep that it cannot be resumed. Correct: one body at a
  time, answers in order, none lost, every request answered.
* **Shapes and caches.** A cached lookup is used after the shape or the prototype
  chain it was recorded under has changed, and objects share shapes. Correct: a hit
  returns what the walk would find, a slot belongs to one name, a step on one object
  shows on no other, and what is not configurable stays.
* **Objects.** Accessors live in the shape, where objects share them, a dictionary
  takes over beside the shape, and a proxy's traps change the target between the
  question and the answer. Correct: every slot a shape names is there; a proxy never
  takes back what it said.
* **Compiler.** Exits from nested structures are compiled as inline copies of
  finalizers and closes; names are resolved to hop counts before the environments
  exist; the optimizer deletes words that jumps and ranges refer to. Correct: the
  compiled program does what its source says.
* **Calls.** Natives re-enter the interpreter, and a throw below must unwind to the
  right frame and the right stack height; the deadline returns without an unwind. Correct:
  windows nest, an unwind stops at its floor.
* **Tiers.** Compiled code and guards work from what was seen before. Correct: they
  answer what the interpreter would.
* **Library.** User code runs in the middle of combinators, iterator helpers, array
  methods and module evaluation. Correct: once over, over for good; nothing handed out
  early, twice or by halves.
* **Harness.** Wall clock decides about tests that compete for the machine. Correct: one
  verdict per test, and load moves none.

## 2. The modules

| module | models | lines of code it stands for |
|---|---|---|
| `HeapGC` | slots, roots, safepoints, marking, publication, lazy sweep | `v12-heap/src/gc.rs`, `gc_protect` of `v12-interp/src/lib.rs` |
| `ManagedHeap` | what a heap promises: allocate fresh, keep what is reachable, drop the rest | abstract |
| `HeapGCProofs`, `PromisesProofs`, `AsyncGeneratorsProofs`, `CheckpointProofs`, `PropertyStoreProofs`, `CallsProofs` | the theorems about the module in their name | - |
| `LibraryProofs` | the theorems about `Combinators`, `Conformance` and `Accessors` | - |
| `NumberInduction` | induction as a fact about sets of numbers, for the proofs about sequences | - |
| `Promises` | promise objects, their jobs and the native calls that settle them | `v12-engine/src/builtins/promise.rs`, `v12-interp/src/call_setup.rs` |
| `PromiseContract` | what `then` promises a program | abstract |
| `AsyncGenerators` | one async generator: requests, resume recursion, return mode, finalizers | `v12-interp/src/generator_async.rs`, `generator.rs`, opcodes `SuspendYield`, `Await`, `GenResumeMode` |
| `Checkpoint` | job queue, sink, awaits, settlements, adoptions, deadline, end of an evaluation | `v12-engine/src/job_queue.rs`, `engine/eval.rs`, `v12-interp/src/lib.rs` |
| `PropertyStore` | shapes, named data properties, stub cache, inline cache, prototypes | `v12-heap/src/gc.rs`, `shape.rs`, `stub_cache.rs`, `v12-interp/src/property.rs`, `feedback.rs`, `v12-engine/src/internal_methods.rs`, `builtins/object.rs`, `reflect.rs` |
| `Accessors` | accessor properties, shared shapes, the per-object dictionary | `v12-heap/src/gc.rs`, `shape.rs`, `v12-interp/src/property.rs`, `object_ops.rs`, `v12-engine/src/internal_methods.rs` |
| `Proxy` | every trap of a proxy and the checks on its answer | `v12-interp/src/property.rs`, `call_setup.rs` |
| `Strings` | ropes, slices, flattening, hashes, interning | `v12-heap/src/string.rs`, `gc.rs` |
| `ArrayStore` | element stores and the array builtins that move elements | `v12-heap/src/elements.rs`, `v12-engine/src/builtins/array.rs` |
| `Combinators` | `Promise.all` and its siblings over a hostile iterator | `v12-engine/src/builtins/promise.rs`, `v12-interp/src/call_setup.rs` |
| `Iteration` | iterator helpers and consumers, walks of Map and Set | `v12-engine/src/builtins/iterator.rs`, `map.rs`, `v12-interp/src/call_setup.rs`, `object_ops.rs` |
| `ModuleLoader` | module graphs: load, link, evaluate | `v12-engine/src/module_loader.rs`, `module_namespace.rs`, `v12-bccompiler/src/collect.rs` |
| `Syntax`, `Lowering` | the language reduced to control flow, and its compilation | `v12-bccompiler/src/stmt.rs`, `expr.rs`, `model.rs`, `unit.rs` |
| `Machine` | one frame running the compiled code | `v12-interp/src/execute.rs`, `call_setup.rs`, `generator.rs` |
| `Completions` | what a program means, from its syntax alone | abstract |
| `Compiled` | the machine against the meaning | - |
| `ScopePlan` | where names live and how many hops a reference takes | `v12-bccompiler/src/collect.rs`, `model.rs`, `class.rs`, `unit.rs` |
| `Opcodes`, `Bytecode` | words, wide operands, labels, the peephole optimizer, the validator | `v12-bytecode/src/builder.rs`, `wide.rs`, `validate.rs`, `v12-bccompiler/src/peephole.rs` |
| `Calls` | frames, windows, natives, nested dispatch, construction, unwinding | `v12-interp/src/call_setup.rs`, `call.rs`, `call_capability.rs`, `execute.rs` |
| `Tiers` | feedback, hotness, baseline code, guards | `v12-interp/src/feedback.rs`, `v12-engine/src/jit_tier.rs`, `v12-jit-baseline`, `v12-jit-opt` |
| `Conformance` | the sweep, its verdicts and the comparison of sweeps | `conformance/harness/src/*.rs`, `faildiff.sh` |
| `MC...` | instances for TLC | - |

### HeapGC

A handle is a pair of a space and an index. Payloads are reduced to the handles
they hold: `refs` are reported by `Trace`, `weak` are the transition edges a shape
caches without tracing. The free list is a multiset, so that which entry
`Vec::pop` returns is left open but a double entry is visible. `alloc` is one
action per iteration of its loop (`AllocBegin`, then `AllocPop`, `AllocSweep`,
`AllocExtend` or `AllocAtCap`); a collection is `GcProtect` or `ForceCollect`,
then `FinishSweep` per space and step, `MarkRoots`, one `MarkStep` per worklist
entry and `PublishMark`. All roots that live as long as the heap, or until they
are deregistered, are the set `pinned`; the ones `gc_protect` clears are `roots`.

The mutator is the environment. With `KeepStale = FALSE` it keeps the contract of
`alloc`: a handle survives a possible collection only if it is rooted or reachable
from a root. With `KeepStale = TRUE` it holds and roots anything it ever saw,
which is the situation the released flag and `publish_mark` are written for.

Left out: the byte accounting of the growth policy (every safepoint may collect or
not, which covers every policy), sizes, and the tables that live in the same file.

### Promises

`state`, `result` and `reactions` are the slots of the promise objects; a promise
is a number in order of allocation. Resolving functions, watchers of `finally` and
the forwarders of `adopt_finally_result` are values with the data their closures
capture. A reaction record has four slots when `then` makes it and three when an
adoption or `finally` does; `CapabilityOf` reads them as `drain_reaction_jobs`
does, and a reaction job makes two native calls for a three-slot record as the
code does. The first call is a step of its own, because it can leave the promise pending.
Values are plain ones, promises, thenables, poisoned thenables (whose `then`
getter throws) and inert objects. What a handler does is the environment's choice:
it may call any operation, return or throw any value.

`Abstract` maps these to `PromiseContract`: an outcome is a settlement with its value, the promises waiting on a promise are the ones its records name (`WaitingIn`), and the
ones due are those that queued reaction jobs name (`DueIn`), both in order. A reaction is known
by the promise its `then` returned, so records and jobs that have none are invisible.

### AsyncGenerators

`stack` holds the nested calls of `resume_generator`. Each first runs the body and
then the loop that serves queued requests, which calls `resume_generator` again.
The body is the environment: it enters and leaves `try`/`finally`, awaits, yields,
returns, throws and makes requests of its own generator. `saved` is where it will
go on. A return request arms `returnMode`; only a yield is followed by the check of
that mode, which leads through the copies of the finalizers the compiler emitted.

### Checkpoint

Jobs are numbers in the order they enter the sink. While `pc = "script"` the
environment makes jobs, `then`s, async calls, adoption requests and settlements, as
main program, as a job or as a resumed body. `SettleCompletions`, `DrainJob`,
`DrainEmpty`, `JobReturns`, the `Await...` actions and `Decide` are the loop of
`drain_checkpoint`. `DropInterp` ends an evaluation and takes the interpreter's
queues with it; jobs in the queue and in the sink stay for the next one.

### PropertyStore

`shapes` is the shape space; a shape maps names to slots and attributes, counts its
slots and has edges keyed by name and attributes. An object is a shape, a vector of
values, a prototype and the extensible flag. `Get` is `ic_lookup`: the stub cache,
then the inline cache of the site, then the walk, which records what it found; `Read`
is the value it would answer in a state, `Walk` the value of the walk alone. `Set`,
`Delete`, `Define`, `SetIntegrity`, `PreventExtensions` and the two
`SetPrototypeOf` are the operations of a program. A refused operation changes
nothing and is a stutter.

The generation of the stub cache and the prototype epoch are 64-bit counters that
entries are compared with for equality; advancing either is modelled by emptying
`stub`, since no older entry ever matches again. The table is taken as fully
associative with an arbitrary victim, which covers what two-probe addressing evicts.
`holed` is history: the pairs of shape and name at which some object ever had a hole.
`program` is the kind of program that runs, chosen at the start; it keeps instances
small without leaving an operation out. The enumerable bit is left out.

### Accessors, Proxy, Strings, ArrayStore

`Accessors` has shapes whose table maps a name to a data slot or to a pair of
functions; `add_property`, `update_data_attrs` and `define_accessor` share transition
edges as `gc.rs` does, and `dict_insert` lets an object spill into a dictionary of its
own while its shape stays. An object literal or class body is under construction
(`building`) while the interpreter's `op_define_accessor` and `op_define_method` complete
accessors in place. The native and the interpreted front doors are separate actions.

`Proxy` keeps the operation that is suspended in a trap on `stack`: `Trap` starts one,
user code then changes the target (`ChangeTarget`, `Relink`), revokes the proxy or
operates on it again, and `Answer` checks the trap's answer against the target as it is
then. `told` is history: what the proxy has said that must stay true.

`Strings` stores leaves, concatenations and windows; `flatten`, `concat`, `slice_string`,
`intern_string` and a collection change `strings`, while `text` remembers what each
string was made to mean. `ArrayStore` does the same for arrays: `object` is the element
store with its kind, `want` the array of the language, and each builtin is one action
over both.

### Combinators, Iteration, ModuleLoader

In `Combinators` everything the loop reads or calls is a choice of the environment,
and the handlers handed out so far may be called between any two steps, twice or never.
A keyed combinator reads its inputs in one step; each input it has to watch then settles
in one more, `KeyedInputSettles`, which makes both calls that the job of its record makes.
`Iteration` has a chain of helpers over a source that is changed while it is walked; the
frames of the interpreter's executor are on `stack`, the engine's executor is one step.
`ModuleLoader` walks a graph with `load_and_evaluate` and `load_deferred` on `stack`; bodies
read the deferred namespaces they hold, throw, or await; `known` is what the loader answers
for a module it has met before. The body of an asynchronous module is parked in `awaits`, and
its load stays on `stack` and drains: it resumes what is ready, pass by pass (`ResumeNext`,
`NextPass`), bodies of other modules included, whose reads start loads and drains of their own
above it. When nothing is ready it takes the outcome of its own body out of `settlements` and puts
the others back (`SettleEvaluation`). Between loads the checkpoint polls and settles
the same two queues. `ran`, `delivered` and `dropped` are history.

### Syntax, Lowering, Machine, Completions, Compiled

`Lowering` emits instructions, labels and handler ranges for a program of `Syntax`, with
the register numbers of the compiler. `Machine` runs them: each opcode is an action, and
what a call returns or an iterator answers is chosen and written into `hist`.
`Completions` gives the same program a meaning from its syntax alone, reading the same
answers from `hist`. `Compiled` says that they agree.
`MCPrograms` generates the programs: every nesting of two structures around
every exit (of three for a `try` that finishes or catches), families for scopes,
expressions and suspension.
Programs on which the compiler is known to depart from the language are excluded by
four predicates, each named for the departure (section 5).

### ScopePlan, Bytecode, Calls, Tiers, Conformance

`ScopePlan` walks a program in source order as the collector does; in each
state the plan that would be made of the walk so far is compared with the environments
the interpreter would build. `Bytecode` emits random constructs, then optimizes round
by round and compares the run of the result with what was asked for (`written`).
`Calls` leaves out what a program computes: the frame on top may call, construct,
return or throw at any instruction, natives may re-enter through four seams, and a
deadline may pass between any two instructions.
`Tiers` runs four small functions in the interpreter, collects feedback, compiles them and
steps the compiled closure on the same arguments. `Conformance` ticks the stopwatch of
each child; a tick without progress is a loaded machine.

## 3. The runs

Every run asks one family of questions. The components theorems are proved about have a
run of their own, or lead a shared one (`heap_reach`, `promises`, `property_caches`, the
generator in `async`, the checkpoint in `loops`, the combinators, accessors and harness in
`library`, the calls in `execution`), whose properties are the very definitions the theorems name. Others that share no
state share a run: in `loops`, `async`, `library` and `execution` the variable `subject` is chosen at
the start and says of which component the behaviour is; the others stay at rest, and each
property speaks of its own subject. This is a union of state spaces, not a product.

`KeepStale`, `MayTimeOut`, `MayNest`, `MayCycle`, `MayRepeat`, `MayReenter`, `Deadline`,
`Redefines` and `Programs` choose an environment; all other constants are bounds.

| run | instance | properties |
|---|---|---|
| `heap_reach` | 1 object slot, 3 shapes, one reference per payload, well-behaved mutator | `NoDangling`, `FreeListExact`, `SweepComplete`, `AllocatesDeadSlot`, `ImplementsManagedHeap` |
| `loops` | checkpoint: 2 jobs, 2 tasks, 2 awaits, a queue of one, a deadline that may pass, a promise that may be fulfilled with another one; heap: 3 object slots, 2 shapes, budget 2, no payloads, stale mutator | `JobsRunInOrder`, `OneParkingPerTask`, `NothingLeftAtExit`, `AwaitsResume`, `CheckpointEnds`, `HeapUnderStaleRoots` |
| `promises` | 3 promises, construct, settle and then | `PassThroughKeepsOutcome`, `NoStrandedRecord`, `ImplementsContract`, `ReactionsRun`, `OutcomePropagates` |
| `async` | a generator: 4 requests, 2 awaits, one `finally`, depth limit 3; promises: 3, all operations and kinds of value; checkpoint: 4 jobs, cap 1, one task, 2 evaluations, deadline | `AnsweredInOrder`, `BodyAnswersItsRequest`, `RequestsAnswered`, `AsyncSound` |
| `property_caches` | 3 objects in chains under 1 name; 2 objects under 2 names; 4 shapes | `SlotsInStep`, `ReadsSeeTheWalkUnlessHoled`, `OneObjectOnePropertyAStep`, `IntegrityKept` |
| `library` | combinators: 3 elements, nesting 2; 11 chains of helpers over 3 entries; arrays up to 4 slots; a proxy of one name, 3 steps, traps one deep; 2 objects, 2 names, one getter, dictionary above 2; 3 strings of at most 3 units; 14 module graphs of 3 or 4 files, 4 imports from outside, 2 awaits a body; 2 sweeps of 2 tests by 2 workers | `CombinatorsSettle`, `HelpersGiveWhatTheyPull`, `ArrayAsWritten`, `ProxyKeepsItsWord`, `SlotsAddressable`, `StringsKept`, `LoadsInOrder`, `SweepSound`, `OverIsOver` |
| `execution` | some 4 700 programs with 6 choices of which 2 throw; scopes: 4 items; bytecode: 4 items; calls: 3 frames, 4 calls, seams one deep, a deadline that may pass; tiers: 4 functions, 3 calls | `ProgramsRunAsWritten`, `CleanUpNests`, `ReferencesResolve`, `CompiledRunsAsWritten`, `CallsUnwind`, `CallsKeepToTheirFloor`, `TiersAgree` |
| `stale_stub` | 3 objects in chains under 1 name | `ReadsSeeTheWalk` is violated |
| `first_resolution` | 3 promises, construct and settle | `FirstResolutionWins` is violated |
| `finally_once` | 3 promises, construct, settle, finally | `FinallyRunsOnce` is violated |
| `generator_finally` | 3 requests, depth limit 2 | `FinalizersRun` is violated |
| `follow_ups` | 4 jobs, a queue of one, one task | `FollowUpsRun` is violated |

A property of a shared run joins what belongs together: its type invariant is part of it,
and its comment in the `MC` module names the parts. `HeapUnderStaleRoots` joins
`FreeListExact`, `SweepComplete`, `AllocatesDeadSlot`, `ExtendsOnlyWhenFull` and
`HeapCallsReturn`; `AsyncSound` joins the safety properties of `Promises` and `Checkpoint` on
instances too large for their liveness.

Why the bounds are enough to meet the interesting cases:

* Heap: in `loops`, a sweep budget of 2 over 3 slots makes a step end in the middle of a space,
  at its end and past a dead slot; one more slot than the budget is the smallest
  space that needs two steps. In `heap_reach`, three shapes give a parent and a cached child beside
  the two that are pinned for ever, so that the child can die and its slot be used again.
  The bookkeeping is proved for every size.
* Promises: two promises adopt each other or form a chain with a derived one; the
  third is the derived promise of a `then` or `finally`.
* Generators: four requests are the least that make nested drain loops meet the
  limit of three: the first resumes the body, which makes the others.
* Checkpoint: with the cap at 1 a second job meets the cap of the queue, three in a chain
  meet the cap of one drain (more than twice the queue's), and the fourth is what that
  drain leaves. Two evaluations make a checkpoint continue what an earlier one left.
* Properties: stubs reach two links up, so three objects are a receiver, an
  intermediate object and a holder, in every arrangement; two values tell a stale read
  from a right one. Stubs of different names or shapes do not interact, so one stub
  entry is enough to see any one of them go stale, and with one entry every second
  recording evicts. Four shapes are the root and three children: two names in one
  order, or one name with three sets of attributes.
* Proxy: three steps are a trap, a change of the target inside it, and the answer; the
  targets have the one name with each choice of attributes, deleted, or not at all, and are
  closed or open.
  Accessors: two objects that share a shape, and a limit of two names that the third
  definition spills over. Strings: three units make a rope of depth two with a slice
  across its seam.
* Combinators: three elements are one counted, one under way, one not met; handlers of
  depth two call each other. Helpers: every kind alone, and the pairs in which one
  helper's limit cuts into what another has pulled. Arrays: four slots with a gap of
  one reach every representation, the dictionary included. Modules: the graphs are
  a diamond, cycles with and without failures, stars, deferral and top-level await, alone and
  together: an asynchronous module in a deferred cycle, two asynchronous modules whose
  outcomes wait for each other's drain, a body that reads a deferred namespace while it is
  drained, and one that reads a module while that module is being linked. Two awaits let a body
  be parked across a whole drain of another load.
* Harness: two workers and two tests make one child slow another down; the second sweep
  compares with the first.
* Programs: two structures around an exit meet every pair of a close, a finalizer, a
  handler range and a label; six choices take each loop twice. Bytecode: locals that end
  at 1, 254 and 255 put the same constructs below and above the limit of a byte operand, with
  the limit between two operands of one instruction, and
  literals of 1, 100 and 300 into a narrow, a foldable and a wide load.
* Calls: three frames are a caller, a native's callee and one above it; one seam deep is
  one floor to keep, and a native in it that is called over another. Tiers: a threshold
  of two with three calls makes a function hot and runs it once more.

`CHECK_DEADLOCK FALSE` is set throughout: every instance bounds what the
environment may do, and a program that has nothing left to do stops.

### Fairness

* `HeapGC!FairSpec`: weak fairness of the steps inside of `alloc` and
  `force_collect`. They are loops of one thread without any wait.
* `Promises!FairSpec`, `Checkpoint!FairSpec`: weak fairness of the drain loop, again
  a plain loop, and of script giving control back. The second is an assumption on
  programs: v12 cuts off a program that does not return only if the embedder has set
  a deadline. No fairness is assumed of the operations a program may or may not make.
* `AsyncGenerators!FairSpec`: in addition that an awaited promise settles, which is an
  assumption on the program; a generator that awaits for ever answers nothing.

### Mutants

Every property of a passing run has a mutated definition in its module, a variant of
the code with a plausible mistake (a flag kept, an order swapped, a guard dropped),
under which TLC finds the property violated. They are listed in `PROJECT.json`; the
operators stand right before the definition they mutate. Operators marked as mutants that are not
listed are other mistakes, aimed at further parts of a joined property.

## 4. The proofs

Every theorem holds for all values of the constants of its module that satisfy the
module's assumptions, which TLC evaluates for the instances of the runs. Every inductive
invariant was checked by TLC on a small instance before it was proved.

### HeapGCProofs

| theorem | statement |
|---|---|
| `TypeCorrect` | `Spec => []TypeOK` |
| `FreeListsAgree` | `Spec => []FreeListExact` |
| `LazySweepIsComplete` | `Spec => []SweepComplete` |
| `AllocationIsFresh` | `Spec => AllocatesDeadSlot` |
| `NoSlotLeak` | `Spec => ExtendsOnlyWhenFull` |
| `LiveDataIsSafe` | `Spec => []NoDangling` |
| `HeapImplementsManagedHeap` | `~KeepStale /\ Spec => ImplementsManagedHeap` |

Assumptions: `SpacesAssumption` (finitely many spaces, objects and shapes are two of
them), `CapAssumption` (room for the two shapes `Heap::new` makes), `BudgetAssumption`
(the budget is positive) and `KeepStaleAssumption`.

The argument has three layers.

1. `BookkeepingInv` is `TypeOK /\ FreeListExact /\ SweepComplete`, and it is
   inductive without any assumption on the mutator. Type correctness alone is not: that
   a popped index lies within the slot vector needs `FreeListExact`, and that the
   pending count never becomes negative needs `SweepComplete`, which says that the count
   is the cardinality of the dead, unreleased slots and that all of them are at or
   behind the cursor. The proof of a sweep step is that the first hit is the only slot
   that leaves that set (`SweepStepDead`). A mark recomputes the count, so
   `PublishMark` needs nothing of the state before it but the free list. From the
   invariant follow the action properties: a slot that `AllocPop` takes is dead because
   it is in the free list, and `AllocExtend` finds an empty free list and a cursor at
   the end, so nothing dead is left.
2. `SafetyInv` adds `MarkingInv` and `NoDangling`. `MarkingInv` is the tri-colour
   invariant: while marking, roots are marked, and what a marked slot that is not on the
   worklist refers to is marked. When the worklist
   is empty the marked set is closed, and what `PublishMark` keeps refers to what it
   keeps; pruning does the same for the weak edges.
3. The refinement also needs the converse: that the marker keeps nothing a root does not
   reach. `ManagedHeap` defines `Reach` as what lies in every set of live handles that
   holds the roots and is closed under references, so no path has to be followed:
   `ReachedOnly` says that while marking, the marked slots lie in every such set, and one mark
   step keeps that. When the worklist is empty the marked set is itself such a set, and
   `MarkedIsReach` has both inclusions. `PublishMark` is then the abstract collection,
   an allocation or a write the abstract one, a change of the roots `SetRoots`; every step of
   the marker and the sweeper is a stutter, because payloads are cleared only in dead
   slots.

`NoDangling` speaks of mutators that keep the rooting contract (`KeepStale = FALSE`), and the
refinement has that as its hypothesis; the other five theorems hold for every mutator.

### PromisesProofs

| theorem | statement |
|---|---|
| `NothingUnallocated` | `Spec => []TypeInv` |
| `TypeCorrect` | `Spec => []TypeOK` |
| `NoWakeUpLost` | `Spec => []NoStrandedRecord` |
| `SettlesOnce` | `Spec => SettledForever` |
| `FulfilmentIsFinal` | `Spec => []FulfilledIsFinal` |
| `OutcomesPassThrough` | `Spec => []PassThroughKeepsOutcome` |
| `PromisesImplementContract` | `Spec => ImplementsContract` |

`TypeInv` says what every slot, record, job and native call may hold: promises that
exist, and the payloads their closures capture. It is what makes each of the other
invariants a statement about settling only. A settlement is one operator in the code and
one in the model, so `SettlesOnce` and `NoWakeUpLost` reduce to its guard and to its
taking all records along; the steps between the two calls of a three-slot record are
where that is not obvious. `OutcomesPassThrough` needs `PassInv`: the promise that a
`then` without handlers returned is referred to by nothing but its own record on its
source and, once the source has settled, by jobs made of that record, which carry the
source's outcome. Without it some other capability could settle it first.

In `PromisesImplementContract` the abstract state is a selection from the concrete one, so
its proof has three parts.

1. Lemmas about the selection. `Named(s)`, the promise slots of a sequence without the unobserved
   ones, is a recursive function; `NamedConcat` says that it distributes over
   concatenation. It is an induction over the length of the second sequence by
   `AllNumbers` (module `NumberInduction`): a set that has 0 and is closed under successor has
   every natural number, which follows from the pigeonhole principle for finite sets.
   From it follow what an append, the removal of the head (`DueTail`), and the
   drain of a settled promise's records (`DueDrained`) do to `WaitingIn` and `DueIn`.
2. `QueuesProper`, the invariant beside `TypeInv`: a reaction job that names a derived
   promise has that promise's own capability and a handler of script or none, and
   the pending adoptions are thenable jobs. Without it a job could settle, in one step with its
   removal, a promise other than the one it stands for, which the contract forbids.
3. One lemma per group of steps. A call of a native function is an `Effect(p, q)`: either
   nothing visible, or `p` settles and the promises waiting on it go behind those of the queue
   `q`. A step of script is that effect on the whole queue, a fresh promise with one
   reaction, or both (`ThenRegisters`); the job at the head is removed and the effect is on
   the rest, which is `Run` or `RunAndSettle` (`PopAllowed`) if the job names a promise, and
   an effect without a run if it does not.

### AsyncGeneratorsProofs

| theorem | statement |
|---|---|
| `GeneratorInvariant` | `Spec => []GenInv` |
| `WithinDepth` | `Spec => []TypeOK` |
| `OneBodyAtATime` | `Spec => []OneBody` |
| `Ordered` | `Spec => []AnsweredInOrder` |
| `NoRequestLost` | `Spec => []EveryRequestKept` |
| `AnswersItsOwnRequest` | `Spec => []BodyAnswersItsRequest` |

Assumption: `BoundsAssumption` (the numbers are natural, and at least one
nested call is allowed). The inductive invariant `GenInv` has a part per hazard: a body
runs only on top of the stack of `resume_generator` calls, and the executing slot is set
exactly while it runs or is parked; parked, it has one await and is not on the stack; the
answers given and then the queue are the requests 1, 2, ... in order; while the body is under
way the head of the queue is the request it was resumed with; a completed generator has an empty
queue. `HeadRuns` is the part `BodyAnswersItsRequest` rests on: settling takes the head, whatever
it is, so the proof is that nothing takes or adds a head while the body is under way, not even a
nested call that is refused at the depth limit.

### CheckpointProofs

| theorem | statement |
|---|---|
| `TypeCorrect` | `Spec => []TypeOK` |
| `FirstMadeFirstRun` | `Spec => []JobsRunInOrder` |
| `OnePlacePerTask` | `Spec => []OneParkingPerTask` |
| `NothingLeft` | `Spec => []NothingLeftAtExit` |

Assumptions: `BoundsAssumption` (the bounds are natural numbers) and `NamesAssumption`
(tasks and other promises are distinct, finite sets).

1. `CkInv` is `TypeOK`, `InOrder`, `Accounted` and two facts about locals. `InOrder` says that the
   queue followed by the sink is a rising sequence above the last job that ran and not
   above the newest; the lemmas are that a concatenation, a tail and what `enqueue` lets
   through (a beginning) of such sequences are such sequences. `Accounted` is why
   the numbers stay in their bounds: jobs that have a number, callbacks that wait, and
   adoptions that are asked for and not yet numbered are together no more than script made. The
   waiting callbacks are a set, and a settlement moves its part of that set into numbers.
2. `PlaceInv` adds `OneParkingPerTask` and what it needs: that the task that runs
   is neither settled nor among the completions, and that only called tasks are settled.
3. `QuietInv` adds what a pass over the awaits knows: when no await and no completion is left,
   no script has run since the drain; and when nothing counted as progress none has run
   in this round, and the awaits that were looked at, which are the last of the queue, were
   pending. With `attempts = 0` that is all of them. It is needed because the conditions that
   end the loop look neither at the sink nor at the adoptions: that they are empty follows from
   which steps can have come before.

Moving an await to an inner promise counts as no progress (section 5), so what
`NothingLeftAtExit` says about the awaits is for states in which no promise is fulfilled with
a promise; the proof needs that only while the pass lasts, and no step of the pass changes it.

### PropertyStoreProofs

| theorem | statement |
|---|---|
| `StoreKept` | `Spec => [](StoreInv /\ CacheInv)` |
| `TypeCorrect` | `Spec => []TypeOK` |
| `SlotsStayInStep` | `Spec => []SlotsInStep` |
| `NobodyElseChanges` | `Spec => OneObjectOnePropertyAStep` |
| `IntegrityIsKept` | `Spec => IntegrityKept` |
| `CachesAreTransparent` | `Spec => []ReadsSeeTheWalkUnlessHoled` |

Assumption: `StoreAssumption`, which says of what kinds the parameters are and that the
redefinitions a program makes are descriptors. Objects are finitely many, since the walk up
a chain counts them; names need not be.

1. `StoreInv` says that the space of shapes is a tree in the sense of `TreeOK` and that the
   vector of every object is as long as its shape says. That alone would not be inductive: an
   add or a redefinition takes the edge of the shape when there is one, and the child
   was made by a step of some other object long ago. `TreeOK` therefore says of every
   edge, taken or not, what its child is: the parent with the one name added at the next
   slot, or with the attributes of the one name changed. `TransitionFits` shows that
   the step that follows an edge and the step that makes one end at the same.
2. A freeze narrows one slot after the other (`set_integrity`), a recursive function in the model.
   `NarrowingsRecur` shows that it is defined for any number of slots, and `NarrowedFits` that
   it leaves names, slots and every other shape alone. Both are inductions by `AllNumbers`
   of `NumberInduction`, since the induction theorems of the library take an operator as
   a parameter.
3. Every step has one of three effects (`Effect`): it moves one property of one object
   (`OneProperty`), takes attributes away from the properties of one object (`Hardens`), or
   leaves all properties (`NoProperty`). `StepFits` shows this together with `StoreInv'`.
   The two action properties follow from the effects, and from the guards of `Delete`
   and of `validate_redefine` in the case of `IntegrityKept`.
4. `CacheInv` bounds the caches: an entry of the stub cache is made in a free place or in that of
   a victim, and the inline cache stops at its capacity.
5. `TruthInv` says what a cache entry knows. It speaks of shapes only (`Tells`): the shape names the
   property and in which slot, or the shape lacks it and, up to two links up, the
   shape of the holder names it. Shapes never change what they say (`Keeps`), and a hit
   compares the shapes and the links of all the objects the entry speaks of, so an entry
   is right whatever was linked or added since it was recorded, on cyclic chains too; the proof
   does not use the prototype epoch. What a shape says of an object is false
   only where the property was deleted from it, and those pairs are on record in `holed`. The walk is a
   minimum over a recursive function: `LinksRecur` and `LeastFound`, by `AllNumbers`.

### CallsProofs

| theorem | statement |
|---|---|
| `CallsKept` | `CallsSpec => [](InTime => CallInv)` |
| `CallsAreUnwound` | `CallsSpec => []CallsUnwind` |
| `CallsStayAboveTheirFloor` | `CallsSpec => CallsKeepToTheirFloor` |

All from `LimitsAssumption`, which says of what kinds the parameters are. `CallsUnwind` and
`CallsKeepToTheirFloor` are the properties of the run. The first joins `WindowsNest`,
`StackEndsAtWindow`, `NativeReturnsToItsCaller` and `ConstructGivesObject`;
the second says of every step that it keeps the floors (`FloorHoldsStep`) and the
bindings (`ThisBoundOnceStep`). Both speak of the time until an execute returns for the deadline
(`InTime`), the second of that step too: it returns without unwinding (`execute.rs:171`), and a
native whose seam keeps the frames then finds frames of its callees on top (section 5).
`TimeIsUp` is that there is no way back from there.

1. The invariants the runs check are not inductive: a throw may land in any frame, so what
   holds of the frame on top must be known of every frame below. `CallInv` says
   it of all of them, as three relations between values: `Stacked` (a frame below another waits
   at a call, and the next window begins where its own ends), `Nested` (a native knows
   the frame that called it, its floor is that frame, its loop begins with the next
   frame, behind what the seam pushed) and `Controlled` (who goes on). `Bound` adds that
   the `this` of a construction is its instance, or the hole of a derived one.
2. Stacks change in five ways, and each is a lemma about values, used by all the actions that
   change them so: `Landing` (a result or a caught exception goes to frame i, and the
   natives called above it are gone), `LoopOver` (a nested loop gives control back to
   its native), `Called`, `NativeCalled`, `Reentered`. Each shows the invariant together
   with `Untouched`, which is what `FloorHoldsStep` says.
3. `ThrowFits` is the throw of bytecode and of a native at once: they differ in which natives stay.
   That the innermost covering handler exists is a maximum over a finite range,
   `InnermostExists`, by `AllNumbers`.
4. Bindings only grow (`Grows`): a value is added or a hole is filled. `ThisBoundOnceStep` follows,
   and `Bound` survives.

### LibraryProofs

| theorem | statement |
|---|---|
| `CombinatorKept` | `Spec => []CombInv` |
| `CombinatorsAreSound` | `Spec => []CombinatorsSettle` |
| `FirstOutcomeStays` | `Spec => FirstHalfWins` |
| `SweepKept` | `SweepSpec => []SweepInv` |
| `SweepsAreSound` | `SweepSpec => []SweepSound` |
| `SlotsKept` | `~MayRepeat /\ SlotsSpec => []SlotsInv` |
| `SlotsAreAddressable` | `~MayRepeat /\ SlotsSpec => []SlotsAddressable` |

Assumptions: `BoundsAssumption` (the bounds of `Combinators` are natural numbers),
`SweepAssumption` and `SlotsAssumption` (of what kinds the parameters are). Two hypotheses say more
than that. `SweepAssumption` asks for a window of at least four graces: the defaults
are 30 000 ms and 5 000 ms (`runner.rs:46`, `runner.rs:70`). `~MayRepeat` says that no literal
gives one name both a value and an accessor; section 5 has the program that needs it.

1. **Combinators.** What the code checks is a counter, and what it promises is about
   elements, so `CombInv` says of which elements the counter is the number. `Walked` puts
   the elements in order: counted before handed out, both a beginning of what
   the iterator gave, and an outcome only where the handler's `alreadyCalled` record is
   taken. `Counted` then says that `SLOT_REMAINING` is the number of counted elements without an
   outcome plus the token that the walk itself holds until the iterator is exhausted. That
   token is why no handler that user code calls early can bring the count to nothing,
   and `Paid`, that the array is handed over when and only when it is nothing,
   is inductive with it. A handler may be called from within any other call; what is below on the
   stack waits, `LoopCallsFirst`, and `CallMade` and `Popped` are the two lemmas about
   how a call of the capability starts and ends. A keyed combinator has no such equation: each
   job of a watched input takes one or two off the count. `Watched` bounds it instead, by the
   inputs whose job is still to run (`Unfired`): while the aggregate is pending the count is positive and not
   above their number, so the aggregate is settled at the latest by the last job, though
   perhaps too early, and no watcher panics before it is settled. What an object handed over lacks is
   therefore claimed only of a combinator that watched at most one input, and `FirstOutcomeStays` only of
   the streamed ones; section 5 says what the code does otherwise.
2. **Harness.** `SweepInv` says that a test waits, is with one worker, or has its row
   (`InOnePlace`), and that a child that has exited has the verdict that its test has when no
   clock interferes, or one near the kill window (`ChildKnows`, `RowsSteady`). That load
   moves no test between the buckets of `faildiff.sh` follows from two facts: a verdict
   depends on the time only through the comparison with the window (`VerdictOf`), and a
   verdict that came after it is near (`LateIsNear`), because the margin of the comparison, 0.8 of
   window and grace, lies within the window when that is four graces or more.
3. **Accessors.** That every slot a shape names is a slot of the object is not
   inductive: a transition may take an edge that another object made long ago.
   `TableOK` therefore says of every edge what its child adds (`EdgeAdds`): one property and one to the
   count, with no slot above the parent's count, or the same properties with the slot of one name
   changed from accessor to data. A slot may equal the count: an accessor takes none
   until it becomes data. `Fits` says of an object that it has values up to
   the count and for each slot in its shape and in its dictionary. `AddTable`,
   `UpdateTable` and `DefineTable` show that the three operations of the heap keep
   `TableOK` and leave each shape's slots alone (`KeepsTable`), so the objects that stay
   where they are still fit; `FitsAfter` shows that the object that moves fits its new shape.

Two of the CASE expressions of the models had arms that overlapped, so that the formula left open
which of them is taken where TLC takes the first: the throw of a capability function
(`Combinators`) and the verdict (`Conformance`). The provers cannot choose an arm, which is how these
were found; both are written with IF now, in the order of the code.

### What stays with TLC

* Liveness: `HeapCallsReturn`, `ReactionsRun`, `OutcomePropagates`, `RequestsAnswered`,
  `AwaitsResume`, `CheckpointEnds`. The prover has no rules for fairness and ENABLED.
* Everything in modules whose definitions recurse over data: programs, bytecode, strings,
  arrays, module graphs, iterator chains.
* `Calls` after an execute has returned for the deadline, when a native no longer finds its
  caller on top (section 5): nothing is claimed there; `Accessors` for programs that repeat a name in a literal, where the property
  is false (section 5); the harness with a window of less than four graces, where it is
  false as well.
* The modules without a proof: `Proxy`, `Tiers`, `ScopePlan`.

## 5. Where the code and its comments differ

Five disagreements are shown by a run of their own; `PROJECT.json` quotes the
comment each refers to.

* `first_resolution`: `resolve(pending); resolve(1)` fulfils with 1. The only guard
  of `settle_with_adoption` is that the promise is pending, and adopting a pending
  promise leaves it pending without an already-resolved flag (`promise.rs:800`).
* `finally_once`: `finally` on a pending promise runs its callback twice. The watcher
  record has three slots, so its two watchers serve as its capability too, and the
  reaction job calls the watcher of the settlement and then the fulfil watcher
  (`promise.rs:697`).
* `generator_finally`: a yield inside of a finalizer that runs because of `return()`
  has no copies of its own, so the next resume skips the rest of the finalizers
  (`v12-bccompiler/src/model.rs:1502`).
* `stale_stub`: `delete o.a; o.a; o.a = 1; o.a` reads the `a` of the prototype. The
  deletion leaves the shape, the first read records a stub to the prototype under it,
  and the store fills the hole without a new shape, so the stub still passes every
  verify; objects that share shape and prototype are affected alike
  (`property.rs:3784`). `ReadsSeeTheWalkUnlessHoled` shows that within the model
  deletions are the only way to a wrong read.

* `follow_ups`: jobs that each queue another one reach the cap of a drain, and the job
  that the last one queued stays in the sink; none of the conditions that end the loop
  looks there, though the comment at `eval.rs:566` says that the loop goes on until no
  follow-up remains. `NothingLeftAtExit` is stated for drains that did not reach the
  cap, and is proved for these.

Further ones were met while modelling. The models do what the code does there:

* A promise that adopts a promise which rejects is settled by two calls, of the
  reject half and then of the resolve half with `undefined`; when the adopted promise is
  fulfilled with a thenable the second call wins (`promise.rs:697`).
* `finally` with a callback that returns a promise fulfils the derived promise also
  when the source was rejected (`promise.rs:2509`).
* A `return` request on an async generator that has not started runs the body to its
  first yield (`generator_async.rs:441`).
* A `return` or `throw` queued before the completion of a generator is answered with
  `undefined`, one made after it with its value or a rejection (`generator_async.rs:535`).
* Jobs of the sink beyond the cap of the queue are dropped: the result of `enqueue`
  is not looked at (`eval.rs:548`).
* A drain that stops at its own cap forgets the adoption requests of its last job; the
  promise that `Promise.resolve` returned stays pending (`job_queue.rs:187`).
* Awaits that are parked when an evaluation ends are given up, also if a later
  evaluation on the same engine settles the promise (`eval.rs:182`).
* Moving an await to the promise its own promise was fulfilled with counts as no
  progress, so the loop can end although that one is settled (`lib.rs:2397`).
* A request that is refused at the resume depth limit stays at the head of its queue
  with the return mode armed; it is answered when a later request drives the queue.
* `Object.setPrototypeOf` looks neither at extensibility nor for a cycle
  (`builtins/object.rs:1778`); `Reflect.setPrototypeOf` does both.
* A store to a deleted name of an object that is no longer extensible, frozen
  included, brings the property back: its descriptor is still in the shape
  (`property.rs:1679`). With the same cause a deleted read-only property cannot be
  stored again.
* A synchronous generator has no executing check; `next()` from its own body runs the
  saved window a second time.
* `pin` roots the objects a queued job captured, not strings and symbols
  (`promise.rs:101`).

Met in the later modules:

* **Accessors.** Two objects of one shape share the functions of an accessor
  (`gc.rs:832-875`; the comment at 852 speaks of one). A literal with a data property and
  a getter of one name gets two descriptors (`MayRepeat`), and an object can then store beyond
  its values: after `a = {x: 1}` and `b = {x: 1, get x() {}}`, `Object.defineProperty(a, 'x',
  {value: 1, writable: false})` takes the edge that leads from the shape of `a` to that of `b`
  (`gc.rs:767` finds the edge that `define_accessor` made), whose count is beyond the values
  of `a`; `a.y = 5` then has a slot that `a` lacks. `delete o.x; o.y = 5` after
  an accessor reads `y` absent (`gc.rs:779`). Redefining data as accessor leaves
  the data in the shape. `Reflect.deleteProperty` of an accessor answers true and leaves it
  (`internal_methods.rs:1375`). A hit in the dictionary is recorded as a stub under the
  shared shape.
* **Proxy.** The configurable attribute of a trapped descriptor is not checked
  (`property.rs:2692`); `undefined` for an absent property of a closed target, and
  `has` false there, throw where the language allows them; `ownKeys` reads extensibility
  before its trap (3404); values are compared with `===`, so NaN and the zeros differ from
  SameValue; `Object.freeze` ignores the answers (`call_setup.rs:2825`).
* **Strings.** Slices are never flattened, so their depth is unbounded
  (`string.rs:65`, `gc.rs:1323`); a concatenation beyond 32 bits panics (`gc.rs:1264`).
* **Arrays.** `pop`, `shift` and `at` return the hole sentinel itself for the deleted entry of
  a dictionary (`array.rs:48`, 805, 833: `index_get` answers with the value beside its flag, and
  these three drop the flag); that answer is not compared (`AnswersWithValueAt`), every
  other is. `a.length = n` does not truncate (`property.rs:1658`); the snapshot of a
  dictionary loses positions; a native set of an index does not raise `length`; spread copies
  holes; a push from a comparator loses an element.
* **Combinators.** `allKeyed` and `allSettledKeyed` attach their watchers as a record of three slots
  (`promise.rs:2264`), with the same consequence as in `finally_once`: the job of a watched
  input calls the watcher of its outcome and then the fulfil watcher with `undefined`. The
  entry is overwritten (2235) and the count goes down twice (2236). With two or more inputs
  pending, the object is handed over before all have settled; its entries for pending inputs
  are `undefined` unless it is handed over in the first call; a later job may take the count
  below zero, where a build with overflow checks panics. For the
  same reason the comment at 2207 ("a never-settling input costs nothing") does not hold: such an
  input may be passed over. The model does all this; `CombinatorsSettle` claims of the keyed ones
  that they settle once, are not left pending, and lack nothing with at most one input watched.
  `allSettledKeyed` hands out raw payloads (2222).
* **Iteration.** `take` steps past its limit when its callback re-enters it
  (`call_setup.rs:4843`, with `MayReenter`); helpers are not finished by a throw and have no
  `return`; constructors close an iterator whose `next` threw; `SLOT_PARTIAL` shares a slot
  with the pending index (`iterator.rs:197`).
* **Module loader.** A module may be evaluated inside its own deferred load: by an
  asynchronous module of a cycle through it (a defers b, b needs c, c needs b), or by a body that reads
  its namespace while its requests are linked. When a later request then fails, `load_deferred`
  removes the record although its body was called, with the error or the success in it
  (`module_loader.rs:390-392`). A later import makes a new record and runs the body again. When
  it is the inner load that fails, it removes the record itself (572-577), and the outer one,
  which goes on to link, panics at `expect("linked module record")` (716). The model does both.
  `BodyRunsOnce` is therefore stated of records, `BegunStays` with the exception `DropsItself`,
  `NoPanic` with the deferred load of a module that was loaded inside it, and
  `ImportsAreReady` leaves out modules whose record was dropped: a body that imports one fails
  with "Unlinked module import". Nothing but these two removals loses a record whose body was called.
  `tla_pending` of a load that gave up waiting is never cleared, and when its body
  later rejects, nothing caches the error. An export does not always share the exporter's cell
  (`module_loader.rs:825`); a failed load removes its record while cycle partners keep its
  cells; errors of dependencies are not cached at the parent; `export *` of a cycle partner
  misses names; `export * as ns from` has no binding; the importer runs while an async
  dependency is pending.
* **Scope plan.** The comment that hop counts are structural (`model.rs:509`) does not hold
  for per-iteration environments: an outer captured binding read in a loop is one
  hop short (`stmt.rs:839`). A named function expression makes its closure anew
  (`unit.rs:600`); the slots of `this` and `new.target` are filled after parameter
  defaults ran (593).
* **Calls.** `execute` returns for the deadline without unwinding (`execute.rs:182`);
  `call_accessor_with` and `call_inline` hand the error on with the frame of the callee
  still there, and the loop that called the native raises it through `unwind`, where a `try`
  of the callee or the caller takes it, although the comment at 173 says that it escapes every
  one (`DeadlineEscapes`, violated with `Deadline`). `call_args` of unwound frames stay (`lib.rs:548`).
* **Compiler.** `run_finally_copies` pops its regions for good (`stmt.rs:1652`); inline
  copies lie inside the range they protect; a return out of `for-of` inside `try` runs the
  finalizer before the close; an unlabelled exit does not find a labelled loop; a generator
  returned at a yield inside `for-of` does not close; a throwing `next` still closes; `yield*`
  does not forward a throw; writes to per-iteration bindings are lost. The passing run
  leaves these programs out.
* **Bytecode.** An `if` with no body whose condition is in a register above 255 has a `RegExt` prefix
  before its `JumpIfFalse`. The dead-branch pass deletes the branch and keeps the prefix
  (`peephole.rs:114-148`), which then belongs to the next instruction: the validator refuses the
  code and the compilation fails (`v12-bccompiler/src/lib.rs:512`), or the prefix is harmless before an
  instruction without that operand. (An instruction on a low register would be moved to a wrong one;
  where a condition lies above 255 the constructs of the model use temporaries above 255 too.)
  The model does this, and `orphaned` remembers that it happened: `CompiledRunsAsWritten` says that
  the validator refuses nothing else, that what it lets pass at the end runs as
  written, and that code without such a prefix does after each round. A literal whose payload's top byte reads as a jump opcode is rewritten as
  a jump target (`peephole.rs:173`); folding a product loses negative zero; branch targets beyond 65 535
  are only `debug_assert`ed.
* **Tiers.** `jit_eq` differs from loose equality for booleans with numbers and
  for null with undefined (`runtime.rs:132`); emitted branches compare bits where the
  interpreter converts (`compiler.rs:523`); feedback records results, guards check operands
  (`compile.rs:410`). Compiled functions are not entered by the interpreter yet.
* **Harness.** With a grace of two ticks or a window of three, load does move a test into
  a bucket (`faildiff.sh:22`); a `$DONE` marker hides a later failure; negative parse
  tests pass on any thrown error; a child that could not be spawned counts as broken.

## 6. What is not modelled

`PROJECT.json` lists every component with its reason. In short: machine code
emission, number formatting and parsing, dates, JSON and regular expressions are
pure functions over data that TLC cannot enumerate in an interesting way; realm
construction is a fixed sequence of definitions; the command line is I/O.

Within the modelled components: species constructors and subclass capabilities of
promises, async-from-sync iterators, re-entry of synchronous generators, string exotic
objects and typed arrays as receivers, class elements in the machine, constant pools,
specifier resolution, the deadline and the bounds of 10 000 in the drain of a module load (and
other parked functions of the program in it, except as outside code that settles what a
body awaits), and the sizes that the heap's growth policy computes with. Two compositions are
missing: the heap with the job queue (what a queued job needs stays alive), and the
dictionary with the stub cache.

## 7. Plan

Model the composition of the heap with the job queue, and of the dictionary with the
stub cache. Prove `Proxy` (what a proxy has said and its target stay in step), whose state
is finite functions without recursion, then `Tiers`.
