-------------------------- MODULE AsyncGenerators --------------------------
(***************************************************************************)
(* One async generator object of v12-interp (generator_async.rs): its      *)
(* request queue, its yield, executing and done slots, the sticky return   *)
(* mode of slot 5, and the resume primitive that recurses into itself.     *)
(*                                                                         *)
(* The body is the environment: while it runs it enters and leaves         *)
(* try/finally blocks, awaits, yields, returns, throws, and makes requests *)
(* of its own generator.  `stack` holds the calls of resume_generator that *)
(* are under way, innermost last: each first runs the body ("body",        *)
(* "copy", "returning") and then the loop that serves queued requests      *)
(* ("drain").  A request is a number, in order of arrival, and stands for  *)
(* its promise and for the value it carries.                               *)
(***************************************************************************)
EXTENDS Naturals, Sequences

CONSTANTS
    MaxRequests,   \* bound on next/return/throw calls
    MaxAwaits,     \* bound on the awaits of the body
    MaxFinally,    \* bound on the nesting of try/finally blocks
    MaxDepth,      \* MAX_RESUME_DEPTH
    CallerDepths,  \* resume depths at which requests from outside are made
    Kinds          \* the kinds of request made, a subset of AllKinds

AllKinds == {"next", "return", "throw"}
Requests == 1..MaxRequests

ASSUME BoundsAssumption ==
    /\ MaxRequests \in Nat /\ MaxAwaits \in Nat /\ MaxFinally \in Nat
    /\ MaxDepth \in Nat \ {0} /\ CallerDepths \subseteq 0..MaxDepth
    /\ Kinds \subseteq AllKinds

VARIABLES
    count, kind,   \* requests 1..count have been made, request r by kind[r]
    queue,         \* slot 7: the requests to be answered, oldest first
    done,          \* slot 2
    saved,         \* slots 1 and 3 and the register window: where to resume
    yielded,       \* slot 6: the last suspension was a yield
    executing,     \* the executing slot
    returnMode, returnValue,    \* slots 5 and 9
    stack, base,   \* the resume_generator calls, and the depth below them
    parked,        \* entries of pending_awaits for this generator
    awaits,        \* awaits of the body so far
    log,           \* pending_settlements of the requests, in order
    current        \* history: the request the body was resumed with, and where

slots == <<done, saved, yielded, executing, returnMode, returnValue>>
calls == <<count, kind, base>>
vars == <<calls, queue, slots, stack, parked, awaits, log, current>>

NoRequest == 0
UndefinedValue == 0
BodyValue == MaxRequests + 1     \* a value the body yields, returns or throws

-----------------------------------------------------------------------------
Init ==
    /\ count = 0 /\ kind = [r \in Requests |-> "next"]
    /\ queue = <<>>
    /\ done = "fresh"
    /\ saved = [point |-> "start", at |-> "body", open |-> 0, left |-> 0]
    /\ yielded = FALSE /\ executing = FALSE
    /\ returnMode = FALSE /\ returnValue = UndefinedValue
    /\ stack = <<>> /\ base = 0
    /\ parked = 0 /\ awaits = 0
    /\ log = <<>>
    /\ current = [request |-> NoRequest, point |-> "start"]

Depth == base + Len(stack)
Idle == stack = <<>>
Top == stack[Len(stack)]
Running == ~Idle /\ Top.at # "drain"
Pop == SubSeq(stack, 1, Len(stack) - 1)
ReplaceTop(f) == [stack EXCEPT ![Len(stack)] = f]

Frame(at, open, left) == [at |-> at, open |-> open, left |-> left, budget |-> 0]
DrainFrame(n) == [at |-> "drain", open |-> 0, left |-> 0, budget |-> n]

-----------------------------------------------------------------------------
(* Settling requests.                                                      *)

\* One settlement of a request: with an iterator result or a rejection.
Answer(r, v, isDone, rejecting, source) ==
    [request |-> r, value |-> v, done |-> isDone, rejecting |-> rejecting,
     source |-> source, by |-> current]

\* drain_completed_async_gen_requests
CompletedAnswers(q) ==
    [i \in DOMAIN q |-> Answer(q[i], UndefinedValue, TRUE, FALSE, "completed")]

\* settle_async_gen_request_slot after a yield.
SettleYield ==
    IF queue = <<>> THEN UNCHANGED <<queue, log>>
    ELSE /\ queue' = Tail(queue)
         /\ log' = Append(log, Answer(Head(queue), BodyValue, FALSE, FALSE, "body"))

\* settle_async_gen_request_slot after the body completed: the head, then all
\* that wait behind it.
DropBehind(v, rejecting) ==
    IF queue = <<>> THEN UNCHANGED <<queue, log>>
    ELSE /\ queue' = <<>>
         /\ log' = Append(log, Answer(Head(queue), v, TRUE, rejecting, "body"))
SettleNewest(v, rejecting) ==
    IF queue = <<>> THEN UNCHANGED <<queue, log>>
    ELSE /\ queue' = <<>>
         /\ log' = Append(log, Answer(queue[Len(queue)], v, TRUE, rejecting, "body"))
                     \o CompletedAnswers(SubSeq(queue, 1, Len(queue) - 1))
SettleCompletion(v, rejecting) ==
    IF queue = <<>> THEN UNCHANGED <<queue, log>>
    ELSE /\ queue' = <<>>
         /\ log' = Append(log, Answer(Head(queue), v, TRUE, rejecting, "body"))
                     \o CompletedAnswers(Tail(queue))

-----------------------------------------------------------------------------
(* resume_generator.                                                       *)

\* The finalizers emit_yield_return_finally_copies puts after this yield: those
\* active at it, none inside of such a copy.
FinallyCopies(s) == IF s.at = "copy" THEN 0 ELSE s.open

\* Where the body goes on.  Only a yield is followed by a GenResumeMode check,
\* which branches to the copies of the finalizers and a return.
ResumedFrame(mode) ==
    IF saved.point = "yield" /\ mode
    THEN IF FinallyCopies(saved) = 0
         THEN Frame("returning", saved.open, 0)
         ELSE Frame("copy", saved.open, FinallyCopies(saved))
    ELSE Frame(saved.at, saved.open, saved.left)

\* The body goes on after a throw: a handler of an enclosing try catches it.
CaughtFrame(c) == Frame("body", c, 0)
MayCatch(c) == saved.point # "start" /\ c <= saved.open /\ (saved.at = "copy" => c < saved.open)

\* The frame is pushed and the body runs; st is the stack it is pushed on.
RunBody(st, f) ==
    /\ stack' = Append(st, f)
    /\ executing' = TRUE
    /\ UNCHANGED <<done, saved, yielded, parked, awaits>>

\* unwind finds no handler: the generator is completed without having run.
ThrowUncaught(st) ==
    /\ stack' = st
    /\ done' = "done"
    /\ executing' = FALSE
    /\ UNCHANGED <<saved, yielded, parked, awaits>>

\* The guard at the head of resume_generator.
LooseDepthLimit(depth) == depth > MaxDepth
AtDepthLimit(depth) == depth >= MaxDepth

\* resume_async_gen_head_request: the head of q resumes the body.  At the depth
\* limit resume_generator fails before it does anything; the error is dropped.
ResumeNewest(q, st) == q[Len(q)]
HeadRequest(q, st) == Head(q)
ResumeHead(q, st, newKind) ==
    LET r == HeadRequest(q, st)
        mode == returnMode \/ newKind[r] = "return"
    IN
    /\ returnMode' = mode
    /\ returnValue' = IF newKind[r] = "return" THEN r ELSE returnValue
    /\ IF AtDepthLimit(base' + Len(st))
       THEN /\ queue' = q
            /\ stack' = st
            /\ UNCHANGED <<done, saved, yielded, executing, parked, awaits, log, current>>
       ELSE /\ current' = [request |-> r, point |-> saved.point]
            /\ \/ /\ newKind[r] # "throw"
                  /\ RunBody(st, ResumedFrame(mode))
                  /\ queue' = q /\ log' = log
               \/ /\ newKind[r] = "throw"
                  /\ \E c \in 0..MaxFinally : MayCatch(c) /\ RunBody(st, CaughtFrame(c))
                  /\ queue' = q /\ log' = log
               \/ /\ newKind[r] = "throw"
                  /\ ThrowUncaught(st)
                  /\ queue' = <<>>
                  /\ log' = Append(log, [Answer(Head(q), r, TRUE, TRUE, "body") EXCEPT !.by = current'])
                             \o CompletedAnswers(Tail(q))

-----------------------------------------------------------------------------
(* next, return, throw: from outside, or from the running body.            *)

NewRequest(k) ==
    /\ count < MaxRequests
    /\ count' = count + 1
    /\ kind' = [kind EXCEPT ![count + 1] = k]

\* From outside while the body is not on the stack, at some depth of calls.
Caller(d) ==
    \/ Idle /\ base' = d
    \/ Running /\ d = base /\ base' = base

\* A completed generator answers at once.
RequestOfCompleted(k, d) ==
    /\ done = "done"
    /\ Caller(d)
    /\ NewRequest(k)
    /\ log' = Append(log, CASE k = "next" -> Answer(count + 1, UndefinedValue, TRUE, FALSE, "late")
                            [] k = "return" -> Answer(count + 1, count + 1, TRUE, FALSE, "late")
                            [] k = "throw" -> Answer(count + 1, count + 1, TRUE, TRUE, "late"))
    /\ UNCHANGED <<queue, slots, stack, parked, awaits, current>>

\* apply_async_gen_request
MustQueue == executing
ApplyRequest(k, d) ==
    /\ done # "done"
    /\ Caller(d)
    /\ NewRequest(k)
    /\ IF MustQueue
       THEN /\ queue' = Append(queue, count + 1)
            /\ UNCHANGED <<slots, stack, parked, awaits, log, current>>
       ELSE ResumeHead(Append(queue, count + 1), stack, kind')

-----------------------------------------------------------------------------
(* The body.                                                               *)

BodyStep(f) ==
    /\ stack' = ReplaceTop(f)
    /\ UNCHANGED <<calls, queue, slots, parked, awaits, log, current>>

EnterTry ==
    /\ Running /\ Top.at = "body" /\ Top.open < MaxFinally
    /\ BodyStep([Top EXCEPT !.open = @ + 1])

\* The block ends and its finalizer has run.
LeaveTry ==
    /\ Running /\ Top.at = "body" /\ Top.open > 0
    /\ BodyStep([Top EXCEPT !.open = @ - 1])

\* A finalizer copy ends: the next one runs, or the return that follows them.
FinishCopy ==
    /\ Running /\ Top.at = "copy"
    /\ BodyStep(IF Top.left > 1 THEN [Top EXCEPT !.open = @ - 1, !.left = @ - 1]
                ELSE Frame("returning", Top.open - 1, 0))

\* suspend
SuspendAt(point) ==
    /\ saved' = [point |-> point, at |-> Top.at, open |-> Top.open, left |-> Top.left]
    /\ done' = "suspended"
    /\ UNCHANGED <<returnMode, returnValue>>

\* SuspendYield, the settlement of the head, and the start of the drain loop.
SuspendYield ==
    /\ Running /\ Top.at \in {"body", "copy"}
    /\ yielded' = TRUE /\ executing' = FALSE
    /\ SuspendAt("yield")
    /\ SettleYield
    /\ stack' = ReplaceTop(DrainFrame(Len(queue') + 1))
    /\ UNCHANGED <<calls, parked, awaits, current>>

\* Await: nothing is settled, and the drain loop that follows ends at once.
ForgetExecuting == FALSE
ExecutingInAwait == TRUE
Await ==
    /\ Running /\ Top.at \in {"body", "copy"}
    /\ awaits < MaxAwaits
    /\ awaits' = awaits + 1
    /\ yielded' = FALSE /\ executing' = ExecutingInAwait
    /\ SuspendAt("await")
    /\ parked' = parked + 1
    /\ stack' = Pop
    /\ UNCHANGED <<calls, queue, log, current>>

\* Completion by a return statement, by the end, or by the return path.
BodyReturn ==
    /\ Running
    /\ done' = "done" /\ executing' = FALSE
    /\ returnMode' = FALSE /\ returnValue' = UndefinedValue
    /\ \/ Top.at = "body" /\ Top.open = 0 /\ SettleCompletion(BodyValue, FALSE)
       \/ Top.at = "returning" /\ SettleCompletion(returnValue, FALSE)
    /\ stack' = Pop
    /\ UNCHANGED <<calls, saved, yielded, parked, awaits, current>>

\* The body throws and nothing in it catches.
BodyThrow ==
    /\ Running /\ Top.at \in {"body", "copy"}
    /\ done' = "done" /\ executing' = FALSE
    /\ SettleCompletion(BodyValue, TRUE)
    /\ stack' = Pop
    /\ UNCHANGED <<calls, saved, yielded, returnMode, returnValue, parked, awaits, current>>

-----------------------------------------------------------------------------
\* resume_next_await with the outcome of the awaited promise.
ResumeAwait(rejected) ==
    /\ Idle /\ parked > 0
    /\ base' = 0
    /\ IF rejected
       THEN \/ \E c \in 0..MaxFinally : MayCatch(c) /\ stack' = <<CaughtFrame(c)>>
                  /\ executing' = TRUE /\ UNCHANGED <<done, queue, log>>
            \/ /\ done' = "done" /\ executing' = FALSE /\ stack' = <<>>
               /\ SettleCompletion(BodyValue, TRUE)
       ELSE /\ stack' = <<ResumedFrame(returnMode)>>
            /\ executing' = TRUE
            /\ UNCHANGED <<done, queue, log>>
    /\ parked' = parked - 1
    /\ UNCHANGED <<count, kind, saved, yielded, returnMode, returnValue, awaits, current>>

\* drain_async_gen_request_queue: one pass, or its end.
NeverServes == FALSE
ServesQueue == Top.budget > 0 /\ yielded /\ queue # <<>>
DrainPass ==
    /\ ~Idle /\ Top.at = "drain"
    /\ ServesQueue
    /\ base' = base
    /\ ResumeHead(queue, ReplaceTop(DrainFrame(Top.budget - 1)), kind)
    /\ UNCHANGED <<count, kind>>

DrainEnd ==
    /\ ~Idle /\ Top.at = "drain"
    /\ ~ServesQueue
    /\ stack' = Pop
    /\ UNCHANGED <<calls, queue, slots, parked, awaits, log, current>>

-----------------------------------------------------------------------------
MakeRequest ==
    \E k \in Kinds, d \in CallerDepths \cup {base} :
        ApplyRequest(k, d) \/ RequestOfCompleted(k, d)

\* The steps by which the body gets to its next suspension or to its end.
BodyEnds == FinishCopy \/ SuspendYield \/ BodyReturn \/ BodyThrow

Next ==
    \/ MakeRequest
    \/ EnterTry \/ LeaveTry \/ BodyEnds \/ Await
    \/ \E rejected \in BOOLEAN : ResumeAwait(rejected)
    \/ DrainPass \/ DrainEnd

Spec == Init /\ [][Next]_vars

\* A body that runs gets to its next yield or to its end, the microtask drain
\* resumes a body whose awaited promise has settled, and the loop of
\* drain_async_gen_request_queue runs on.
FairSpec ==
    /\ Spec
    /\ WF_vars(BodyEnds)
    /\ WF_vars(ResumeAwait(TRUE) \/ ResumeAwait(FALSE))
    /\ WF_vars(DrainPass \/ DrainEnd)
-----------------------------------------------------------------------------
(* Properties.                                                             *)

Frames == [at : {"body", "copy", "returning", "drain"}, open : 0..MaxFinally,
           left : 0..MaxFinally, budget : 0..(MaxRequests + 1)]
Answers == [request : Requests, value : 0..BodyValue, done : BOOLEAN, rejecting : BOOLEAN,
            source : {"body", "completed", "late"},
            by : [request : 0..MaxRequests, point : {"start", "yield", "await"}]]

\* The slots, the queue, the stack and the settlements hold what the code puts
\* there; the depth of resume_generator stays within its limit.
TypeOK ==
    /\ count \in 0..MaxRequests /\ kind \in [Requests -> AllKinds]
    /\ queue \in Seq(1..count)
    /\ done \in {"fresh", "suspended", "done"}
    /\ saved \in [point : {"start", "yield", "await"}, at : {"body", "copy"},
                  open : 0..MaxFinally, left : 0..MaxFinally]
    /\ yielded \in BOOLEAN /\ executing \in BOOLEAN /\ returnMode \in BOOLEAN
    /\ returnValue \in 0..MaxRequests
    /\ stack \in Seq(Frames) /\ base \in 0..MaxDepth /\ Depth <= MaxDepth
    /\ parked \in Nat /\ awaits \in 0..MaxAwaits
    /\ log \in Seq(Answers)
    /\ current \in [request : 0..MaxRequests, point : {"start", "yield", "await"}]

Bodies == {i \in DOMAIN stack : stack[i].at # "drain"}

\* One body at a time: "Resuming there would nest a second body over the same
\* saved register window" (apply_async_gen_request).  The executing slot is set
\* exactly while the body is on the stack or parked on an await, through every
\* nesting of requests, drains and resumes.
OneBody ==
    /\ \A i, j \in Bodies : i = j
    /\ executing <=> (Bodies # {} \/ parked > 0)
    /\ parked > 0 => parked = 1 /\ Bodies = {}

\* Requests are answered in the order they arrive, each once: whether they
\* queue behind a running body, are served by the drain loop or find the
\* generator completed.
AnsweredInOrder ==
    \A i, j \in DOMAIN log : i < j => log[i].request < log[j].request

\* No request is lost: it waits in the queue or it has been answered.
EveryRequestKept ==
    \A r \in 1..count :
        (\E i \in DOMAIN queue : queue[i] = r) \/ (\E i \in DOMAIN log : log[i].request = r)

\* "a yield or a completion answers the head and nothing else"
\* (settle_async_gen_request_slot): what the body does answers the request that
\* resumed it, also after a request that came too deep in the call stack to
\* resume it has been left at the head.
BodyAnswersItsRequest ==
    \A i \in DOMAIN log : log[i].source = "body" => log[i].request = log[i].by.request

\* Every request is answered: the ones the body makes of itself, and the ones
\* that queue while it is parked, without any further request to drive them,
\* also when the drain loop runs into the depth limit.  A request made deeper
\* in the call stack may be refused at the limit and left to later ones.
RequestsAnswered ==
    [](base = 0) =>
        \A r \in Requests : (r <= count) ~> (\E i \in DOMAIN log : log[i].request = r)

(* What the comments say and the code does not do.                         *)

\* "active `finally` blocks must run" (generator_return): a return completion
\* gets to its return with no finalizer left to run.
FinalizersRun ==
    \A i \in DOMAIN stack : stack[i].at = "returning" => stack[i].open = 0
=============================================================================
