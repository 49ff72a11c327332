----------------------------- MODULE Checkpoint -----------------------------
(***************************************************************************)
(* The microtask scheduler of v12-engine: the job queue with its cap       *)
(* (job_queue.rs), the checkpoint loop that alternates host jobs, async    *)
(* resumes and settlements (eval.rs, drain_checkpoint), and the three      *)
(* queues of the interpreter it drains (pending_awaits,                    *)
(* pending_settlements, pending_adoptions), which live only as long as the *)
(* interpreter of one evaluation does.                                     *)
(*                                                                         *)
(* A job is a number, given when it enters the shared sink, so that jobs   *)
(* are numbered in the order the program made them.  A task is an          *)
(* activation of an async function, and names its completion promise too.  *)
(* What jobs and bodies do is left to the environment: while script has    *)
(* control it makes jobs, tasks and adoptions and settles promises.        *)
(***************************************************************************)
EXTENDS Naturals, Sequences, FiniteSets

CONSTANTS
    MaxQueue,      \* MAX_QUEUE_LEN
    MaxJobs,       \* bound on the jobs script makes
    MaxAwaits,     \* bound on the awaits of all bodies
    MaxRuns,       \* bound on the evaluations and run_jobs calls
    Tasks,         \* async activations
    Others,        \* promises that script settles itself
    Ready,         \* what an await of a settled or plain value parks on
    MayTimeOut,    \* TRUE: the embedder has set a deadline
    MayNest        \* TRUE: a promise may be fulfilled with a promise, one
                   \* whose own `then` property hides it from adoption

ASSUME BoundsAssumption ==
    /\ MaxQueue \in Nat /\ MaxJobs \in Nat /\ MaxAwaits \in Nat /\ MaxRuns \in Nat
    /\ MayTimeOut \in BOOLEAN /\ MayNest \in BOOLEAN
ASSUME NamesAssumption ==
    Tasks \cap Others = {} /\ Ready \notin Tasks \cup Others /\ IsFiniteSet(Tasks \cup Others)

Promises == Tasks \cup Others

VARIABLES
    jobs, sink,    \* JobQueue::jobs and the shared pending sink
    made,          \* jobs made, or promised to a then, so far
    numbered,      \* jobs that have entered the sink so far
    settled,       \* the promises that are settled
    inner,         \* inner[p]: the promise p is fulfilled with, or Ready
    watchers,      \* watchers[p]: then callbacks waiting for p
    awaits,        \* pending_awaits
    completions,   \* pending_settlements
    adoptions, cursor,   \* pending_adoptions, and how far the drain has read
    timedOut,      \* deadline_exceeded
    pc, caller,    \* what runs, and for script who called it
    running,       \* the task whose body runs
    drained, progressed, attempts,  \* locals of drain and of drain_checkpoint
    started,       \* the tasks called so far
    parkings, runs,      \* bounds
    last           \* history: the last job that was run

queues == <<jobs, sink, made, numbered>>
promises == <<settled, inner, watchers>>
interp == <<awaits, completions, adoptions, cursor, timedOut, started>>
locals == <<pc, caller, running, drained, progressed, attempts>>
vars == <<queues, promises, interp, locals, parkings, runs, last>>

Upto(q, n) == SubSeq(q, 1, IF n < Len(q) THEN n ELSE Len(q))
NewJobs(n) == [i \in 1..n |-> numbered + i]

-----------------------------------------------------------------------------
Init ==
    /\ jobs = <<>> /\ sink = <<>> /\ made = 0 /\ numbered = 0
    /\ settled = {} /\ inner = [p \in Promises |-> Ready]
    /\ watchers = [p \in Promises |-> 0]
    /\ awaits = <<>> /\ completions = <<>> /\ adoptions = <<>> /\ cursor = 0
    /\ timedOut = FALSE /\ started = {}
    /\ pc = "idle" /\ caller = "none" /\ running = Ready
    /\ drained = 0 /\ progressed = FALSE /\ attempts = 0
    /\ parkings = 0 /\ runs = 0
    /\ last = 0

\* run_compiled, call_function: a fresh interpreter runs a program.
Eval ==
    /\ pc = "idle" /\ runs < MaxRuns
    /\ runs' = runs + 1
    /\ pc' = "script" /\ caller' = "main"
    /\ UNCHANGED <<queues, promises, interp, running, drained, progressed, attempts,
                   parkings, last>>

\* JobQueue::enqueue for each job of the sink, as long as there is room.
Enqueued(q, more) ==
    q \o Upto(more, IF Len(q) < MaxQueue THEN MaxQueue - Len(q) ELSE 0)

\* Engine::run_jobs: adopt_pending, then a checkpoint with a fresh interpreter.
RunJobs ==
    /\ pc = "idle" /\ runs < MaxRuns
    /\ runs' = runs + 1
    /\ jobs' = Enqueued(jobs, sink)
    /\ sink' = <<>>
    /\ pc' = "settle"
    /\ UNCHANGED <<made, numbered, promises, interp, caller, running, drained, progressed,
                   attempts, parkings, last>>

-----------------------------------------------------------------------------
(* Script: the main program, the function a job calls, a resumed body.     *)

InScript ==
    /\ pc = "script"
    /\ ~timedOut
    /\ UNCHANGED <<locals, runs, last>>

\* queueMicrotask, or a then on a settled promise.
MakeJob ==
    /\ InScript
    /\ made < MaxJobs
    /\ made' = made + 1 /\ numbered' = numbered + 1
    /\ sink' = Append(sink, numbered + 1)
    /\ UNCHANGED <<jobs, promises, interp, parkings>>

\* A then on a pending promise.
Watch(p) ==
    /\ InScript
    /\ made < MaxJobs /\ p \notin settled
    /\ made' = made + 1
    /\ watchers' = [watchers EXCEPT ![p] = @ + 1]
    /\ UNCHANGED <<jobs, sink, numbered, settled, inner, interp, parkings>>

\* A call of a resolving function.
Settle(p, q) ==
    /\ InScript
    /\ p \in Others \ settled /\ p # q
    /\ q = Ready \/ MayNest
    /\ settled' = settled \cup {p}
    /\ inner' = [inner EXCEPT ![p] = q]
    /\ sink' = sink \o NewJobs(watchers[p])
    /\ numbered' = numbered + watchers[p]
    /\ watchers' = [watchers EXCEPT ![p] = 0]
    /\ UNCHANGED <<jobs, made, interp, parkings>>

\* The call of an async function: its body is left to the checkpoint.
CallAsync(t) ==
    /\ InScript
    /\ t \notin started
    /\ started' = started \cup {t}
    /\ awaits' = Append(awaits, [task |-> t, on |-> Ready])
    /\ UNCHANGED <<queues, promises, completions, adoptions, cursor, timedOut, parkings>>

\* push_pending_adoption: Promise.resolve or await of a thenable.
RequestAdoption ==
    /\ InScript
    /\ made < MaxJobs
    /\ made' = made + 1
    /\ adoptions' = Append(adoptions, made + 1)
    /\ UNCHANGED <<jobs, sink, numbered, promises, awaits, completions, cursor, timedOut,
                   started, parkings>>

\* The dispatch loop finds the deadline passed: script is cut off.
TimeOut ==
    /\ pc = "script" /\ MayTimeOut /\ ~timedOut
    /\ timedOut' = TRUE
    /\ UNCHANGED <<queues, promises, awaits, completions, adoptions, cursor, started, locals,
                   parkings, runs, last>>

MainReturns ==
    /\ pc = "script" /\ caller = "main"
    /\ pc' = "settle"
    /\ UNCHANGED <<queues, promises, interp, caller, running, drained, progressed, attempts,
                   parkings, runs, last>>

-----------------------------------------------------------------------------
(* drain_checkpoint.                                                       *)

\* The then callbacks that wait, and how many of them do so for completions.
Waiting == {w \in Promises \X (1..MaxJobs) : w[2] <= watchers[w[1]]}
CompletionJobs == Cardinality({w \in Waiting :
                      /\ \E k \in DOMAIN completions : completions[k] = w[1]
                      /\ w[1] \notin settled})

\* The head of the loop: every completion settles its promise, then the sink
\* moves into the queue.  The result of enqueue is not looked at.
SettleCompletions ==
    LET C == {completions[k] : k \in DOMAIN completions} \ settled
        ready == sink \o NewJobs(CompletionJobs)
    IN
    /\ pc = "settle"
    /\ settled' = settled \cup C
    /\ watchers' = [p \in Promises |-> IF p \in C THEN 0 ELSE watchers[p]]
    /\ completions' = <<>>
    /\ numbered' = numbered + CompletionJobs
    /\ jobs' = Enqueued(jobs, ready)
    /\ sink' = <<>>
    /\ progressed' = (ready # <<>>)
    /\ pc' = "drain" /\ drained' = 0 /\ cursor' = 0
    /\ UNCHANGED <<made, inner, awaits, adoptions, timedOut, started, caller, running, attempts,
                   parkings, runs, last>>

\* JobQueue::drain, the head of its loop: adoptions that are new since the last
\* job become jobs, and the sink moves behind the queue.
SinkFirst(more) == sink \o more \o jobs
Refilled(more) == jobs \o sink \o more

NewAdoptions == Len(adoptions) - cursor

DrainJob ==
    LET queue == Refilled(NewJobs(NewAdoptions)) IN
    /\ pc = "drain"
    /\ queue # <<>>
    /\ jobs' = Tail(queue)
    /\ sink' = <<>>
    /\ numbered' = numbered + NewAdoptions
    /\ cursor' = Len(adoptions)
    /\ last' = Head(queue)
    /\ pc' = "script" /\ caller' = "job"
    /\ UNCHANGED <<made, promises, awaits, completions, adoptions, timedOut, started, running,
                   drained, progressed, attempts, parkings, runs>>

\* A drain that leaves the cursor where it was.
KeepsCursor ==
    /\ adoptions' = <<>> /\ cursor' = cursor
    /\ pc' = "pass"
    /\ attempts' = Len(awaits)

\* The end of drain: the adoptions are dropped and the pass over the awaits
\* that are queued now begins.
LeaveDrain ==
    /\ adoptions' = <<>> /\ cursor' = 0
    /\ pc' = "pass"
    /\ attempts' = Len(awaits)

DrainEmpty ==
    /\ pc = "drain"
    /\ Refilled(NewJobs(NewAdoptions)) = <<>>
    /\ LeaveDrain
    /\ UNCHANGED <<queues, promises, awaits, completions, timedOut, started, caller, running,
                   drained, progressed, parkings, runs, last>>

\* A job is done: drain goes on unless the deadline or the cap stops it.
JobReturns ==
    /\ pc = "script" /\ caller = "job"
    /\ drained' = drained + 1
    /\ IF timedOut \/ drained + 1 > 2 * MaxQueue
       THEN LeaveDrain
       ELSE /\ pc' = "drain"
            /\ UNCHANGED <<adoptions, cursor, attempts>>
    /\ UNCHANGED <<queues, promises, awaits, completions, timedOut, started, caller, running,
                   progressed, parkings, runs, last>>

-----------------------------------------------------------------------------
(* resume_next_await, one attempt per step.                                *)

Parked == Head(awaits)
IsSettled(p) == p = Ready \/ p \in settled

Attempt ==
    /\ pc = "pass" /\ attempts > 0
    /\ attempts' = attempts - 1

\* The latch is set, or nothing is queued any more.
AttemptNothing ==
    /\ Attempt
    /\ awaits # <<>> => timedOut
    /\ UNCHANGED <<queues, promises, interp, pc, caller, running, drained, progressed, parkings,
                   runs, last>>

\* AwaitResume::Skip
AwaitSkip ==
    /\ Attempt /\ ~timedOut /\ awaits # <<>>
    /\ ~IsSettled(Parked.on)
    /\ awaits' = Append(Tail(awaits), Parked)
    /\ UNCHANGED <<queues, promises, completions, adoptions, cursor, timedOut, started, pc,
                   caller, running, drained, progressed, parkings, runs, last>>

\* AwaitResume::Adopt
AwaitAdopt ==
    /\ Attempt /\ ~timedOut /\ awaits # <<>>
    /\ Parked.on \in settled /\ inner[Parked.on] # Ready
    /\ awaits' = Append(Tail(awaits), [Parked EXCEPT !.on = inner[Parked.on]])
    /\ UNCHANGED <<queues, promises, completions, adoptions, cursor, timedOut, started, pc,
                   caller, running, drained, progressed, parkings, runs, last>>

\* AwaitResume::Run that leaves the entry in the queue.
RunKeepsEntry ==
    /\ Attempt /\ ~timedOut /\ awaits # <<>>
    /\ IsSettled(Parked.on)
    /\ awaits' = Append(Tail(awaits), Parked)
    /\ running' = Parked.task
    /\ pc' = "script" /\ caller' = "resume"
    /\ UNCHANGED <<queues, promises, completions, adoptions, cursor, timedOut, started, drained,
                   progressed, parkings, runs, last>>

\* AwaitResume::Run
AwaitRun ==
    /\ Attempt /\ ~timedOut /\ awaits # <<>>
    /\ IsSettled(Parked.on)
    /\ Parked.on \in Promises => inner[Parked.on] = Ready
    /\ awaits' = Tail(awaits)
    /\ running' = Parked.task
    /\ pc' = "script" /\ caller' = "resume"
    /\ UNCHANGED <<queues, promises, completions, adoptions, cursor, timedOut, started, drained,
                   progressed, parkings, runs, last>>

\* Whether the resume that just ended counts as one.
NeverCounts == progressed
CountsResume == progressed \/ ~timedOut

\* The body parks again.
BodyAwaits(p) ==
    /\ pc = "script" /\ caller = "resume" /\ ~timedOut
    /\ parkings < MaxAwaits
    /\ parkings' = parkings + 1
    /\ awaits' = Append(awaits, [task |-> running, on |-> IF IsSettled(p) THEN Ready ELSE p])
    /\ progressed' = CountsResume
    /\ pc' = "pass" /\ running' = Ready
    /\ UNCHANGED <<queues, promises, completions, adoptions, cursor, timedOut, started, caller,
                   drained, attempts, runs, last>>

\* The body returns, throws, or is cut off: its promise is to be settled.
BodyCompletes ==
    /\ pc = "script" /\ caller = "resume"
    /\ completions' = Append(completions, running)
    /\ progressed' = CountsResume
    /\ pc' = "pass" /\ running' = Ready
    /\ UNCHANGED <<queues, promises, awaits, adoptions, cursor, timedOut, started, caller,
                   drained, attempts, parkings, runs, last>>

-----------------------------------------------------------------------------
\* The three conditions that end the loop.
WaitsForAwaits == timedOut \/ (jobs = <<>> /\ awaits = <<>> /\ completions = <<>>)
IgnoresCompletions == timedOut \/ (jobs = <<>> /\ awaits = <<>>) \/ (~progressed /\ drained = 0)
LoopEnds ==
    \/ timedOut
    \/ jobs = <<>> /\ awaits = <<>> /\ completions = <<>>
    \/ ~progressed /\ drained = 0 /\ completions = <<>>

Decide ==
    /\ pc = "pass" /\ attempts = 0
    /\ pc' = IF LoopEnds THEN "exit" ELSE "settle"
    /\ UNCHANGED <<queues, promises, interp, caller, running, drained, progressed, attempts,
                   parkings, runs, last>>

\* drop(interp): the queues of the interpreter go with it.
DropInterp ==
    /\ pc = "exit"
    /\ awaits' = <<>> /\ completions' = <<>> /\ adoptions' = <<>> /\ cursor' = 0
    /\ timedOut' = FALSE
    /\ pc' = "idle"
    /\ drained' = 0 /\ progressed' = FALSE
    /\ UNCHANGED <<queues, promises, started, caller, running, attempts, parkings, runs, last>>

-----------------------------------------------------------------------------
Script ==
    \/ MakeJob \/ RequestAdoption \/ TimeOut
    \/ \E p \in Promises : Watch(p)
    \/ \E p \in Others, q \in Promises \cup {Ready} : Settle(p, q)
    \/ \E t \in Tasks : CallAsync(t)

ScriptReturns ==
    \/ MainReturns \/ JobReturns \/ BodyCompletes
    \/ \E p \in Promises \cup {Ready} : BodyAwaits(p)

Loop ==
    \/ SettleCompletions \/ DrainJob \/ DrainEmpty
    \/ AttemptNothing \/ AwaitSkip \/ AwaitAdopt \/ AwaitRun
    \/ Decide \/ DropInterp

Next == Eval \/ RunJobs \/ Script \/ ScriptReturns \/ Loop
Spec == Init /\ [][Next]_vars

\* The loops of drain and drain_checkpoint run on, and script gives control
\* back: what it can do without end is cut off by the bounds.
FairSpec == Spec /\ WF_vars(ScriptReturns) /\ WF_vars(Loop)

-----------------------------------------------------------------------------
(* Properties.                                                             *)

Increasing(q) == \A i, j \in DOMAIN q : i < j => q[i] < q[j]

\* The queues and locals hold what the code puts there, and a body is being run
\* exactly when a resume called it.
TypeOK ==
    /\ jobs \in Seq(1..MaxJobs) /\ sink \in Seq(1..MaxJobs)
    /\ made \in 0..MaxJobs /\ numbered \in 0..made
    /\ settled \subseteq Promises /\ inner \in [Promises -> Promises \cup {Ready}]
    /\ watchers \in [Promises -> 0..MaxJobs]
    /\ awaits \in Seq([task : started, on : Promises \cup {Ready}])
    /\ completions \in Seq(started)
    /\ adoptions \in Seq(1..MaxJobs) /\ cursor \in 0..Len(adoptions)
    /\ timedOut \in BOOLEAN /\ started \subseteq Tasks
    /\ pc \in {"idle", "script", "settle", "drain", "pass", "exit"}
    /\ (pc = "script" /\ caller = "resume") <=> (running # Ready)
    /\ drained \in 0..(2 * MaxQueue + 1) /\ progressed \in BOOLEAN /\ attempts \in Nat

\* Microtasks run in the order they were made, across settlements, adoptions,
\* resumes, and a checkpoint that was cut short and continued by the next one.
JobsRunInOrder ==
    /\ Increasing(jobs \o sink)
    /\ \A i \in DOMAIN (jobs \o sink) : (jobs \o sink)[i] > last

\* A task is in one place: its body runs, it is parked once, or it has
\* completed.  So no body is resumed twice, and no promise of an async
\* function is settled by two completions.
OneParkingPerTask ==
    /\ \A i, j \in DOMAIN awaits : awaits[i].task = awaits[j].task => i = j
    /\ \A i, j \in DOMAIN completions : completions[i] = completions[j] => i = j
    /\ \A i \in DOMAIN awaits :
          /\ awaits[i].task # running
          /\ awaits[i].task \notin settled
          /\ \A k \in DOMAIN completions : completions[k] # awaits[i].task

\* The last drain ended at its own cap.
CutShort == drained > 2 * MaxQueue

\* No promise is fulfilled with a promise.
NoneNested == \A p \in Promises : inner[p] = Ready

\* The loop ends with nothing left to do: no job, no follow-up, no completion
\* to settle, and every await parked on a pending promise.  In particular jobs
\* that a resume put into the sink, which none of the conditions looks at, are
\* never left behind; those of a job that reached the cap of drain may be.  An
\* await may be left where a promise is fulfilled with a promise: moving it to
\* the inner one counts as no progress.
NothingLeftAtExit ==
    pc = "exit" /\ ~timedOut /\ ~CutShort =>
        /\ jobs = <<>> /\ sink = <<>> /\ completions = <<>> /\ adoptions = <<>>
        /\ NoneNested => \A i \in DOMAIN awaits : ~IsSettled(awaits[i].on)

\* The checkpoint ends, also with awaits on promises that never settle.
CheckpointEnds == (pc # "idle") ~> (pc = "idle")

\* An await whose promise has settled is resumed, before the stall detection
\* of the loop ends it.  A promise fulfilled with a promise is outside of it, as
\* above.  So is a deadline that passes: it ends the loop.
AwaitsResume ==
    [](~timedOut /\ NoneNested) =>
        \A t \in Tasks :
            (\E i \in DOMAIN awaits : awaits[i].task = t /\ IsSettled(awaits[i].on))
                ~> (running = t)

(* What a comment says and the code does not do.                           *)

\* "Loop ends when neither host jobs nor awaits nor native follow-ups nor async
\* settlements remain" (drain_checkpoint), if the deadline does not end it.
FollowUpsRun == pc = "exit" /\ ~timedOut => sink = <<>>
=============================================================================
