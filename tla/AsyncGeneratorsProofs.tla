----------------------- MODULE AsyncGeneratorsProofs -----------------------
(***************************************************************************)
(* Proofs about AsyncGenerators, for any number of requests, awaits and    *)
(* finalizers, any depth limit and any depths of the callers.              *)
(*                                                                         *)
(* The requests that have been settled, followed by the ones in the queue, *)
(* are the requests 1, 2, ..., count; and the body, while it is running or *)
(* parked on an await, runs for the head of the queue.                     *)
(***************************************************************************)
EXTENDS AsyncGenerators, SequenceTheorems, TLAPS

-----------------------------------------------------------------------------
(* The inductive invariant.                                                *)

\* A finalizer copy has its own block and the ones outside of it ahead of it.
CopiesBounded ==
    /\ \A i \in DOMAIN stack : stack[i].at = "copy" => stack[i].left \in 1..stack[i].open
    /\ saved.at = "copy" => saved.left \in 1..saved.open

\* Only the innermost call of resume_generator may be running the body.
BodyOnTop == \A i \in DOMAIN stack : stack[i].at # "drain" => i = Len(stack)

\* The executing slot: the body is on the stack, or parked on one await with
\* nothing to serve (yielded is false).
ExecutingExact == executing <=> (Running \/ parked > 0)
ParkedAlone == parked > 0 => parked = 1 /\ ~Running /\ ~yielded

\* The settled requests and then the queued ones are the requests, in order.
InOrder ==
    /\ \A i \in DOMAIN log : log[i].request = i
    /\ \A i \in DOMAIN queue : queue[i] = Len(log) + i
    /\ count = Len(log) + Len(queue)

\* The body runs for the head of the queue.
HeadRuns == executing => queue # <<>> /\ current.request = Head(queue)

DoneIsEmpty == done = "done" => queue = <<>> /\ ~executing

GenInv ==
    /\ TypeOK /\ CopiesBounded /\ BodyOnTop /\ ExecutingExact /\ ParkedAlone
    /\ InOrder /\ HeadRuns /\ DoneIsEmpty /\ BodyAnswersItsRequest

-----------------------------------------------------------------------------
(* Settlements and calls.                                                  *)

\* The top call is replaced, or returns.
LEMMA TopOfStack ==
    ASSUME stack \in Seq(Frames), stack # <<>>
    PROVE  /\ Len(stack) \in Nat \ {0} /\ Top \in Frames /\ DOMAIN stack = 1..Len(stack)
           /\ \A f \in Frames :
                 /\ ReplaceTop(f) \in Seq(Frames) /\ Len(ReplaceTop(f)) = Len(stack)
                 /\ ReplaceTop(f)[Len(stack)] = f
                 /\ \A i \in 1..(Len(stack) - 1) : ReplaceTop(f)[i] = stack[i]
           /\ Pop \in Seq(Frames) /\ Len(Pop) = Len(stack) - 1
           /\ \A i \in 1..Len(Pop) : Pop[i] = stack[i]
<1>1. Len(stack) \in Nat \ {0} /\ Top \in Frames /\ DOMAIN stack = 1..Len(stack)
  BY DEF Top
<1>2. ASSUME NEW f \in Frames
      PROVE  /\ ReplaceTop(f) \in Seq(Frames) /\ Len(ReplaceTop(f)) = Len(stack)
             /\ ReplaceTop(f)[Len(stack)] = f
             /\ \A i \in 1..(Len(stack) - 1) : ReplaceTop(f)[i] = stack[i]
  <2>1. Len(stack) \in 1..Len(stack)
    BY <1>1
  <2>2. /\ ReplaceTop(f) \in Seq(Frames) /\ Len(ReplaceTop(f)) = Len(stack)
        /\ \A j \in 1..Len(stack) : ReplaceTop(f)[j] = IF j = Len(stack) THEN f ELSE stack[j]
    BY <2>1, ExceptSeq DEF ReplaceTop
  <2>3. \A n \in Nat : \A i \in 1..(n - 1) : i \in 1..n /\ i # n
    OBVIOUS
  <2>4. \A i \in 1..(Len(stack) - 1) : ReplaceTop(f)[i] = stack[i]
    BY <1>1, <2>2, <2>3
  <2> QED
    BY <2>1, <2>2, <2>4
<1>3. /\ Pop \in Seq(Frames) /\ Len(Pop) = Len(stack) - 1
      /\ \A i \in 1..Len(Pop) : Pop[i] = stack[i]
  BY <1>1 DEF Pop
<1> QED
  BY <1>1, <1>2, <1>3

\* drain_completed_async_gen_requests answers every request of a queue.
LEMMA CompletedTyped ==
    ASSUME TypeOK, NEW q \in Seq(Requests)
    PROVE  /\ CompletedAnswers(q) \in Seq(Answers) /\ Len(CompletedAnswers(q)) = Len(q)
           /\ \A i \in 1..Len(q) : /\ CompletedAnswers(q)[i].request = q[i]
                                  /\ CompletedAnswers(q)[i].source = "completed"
<1>1. Len(q) \in Nat /\ DOMAIN q = 1..Len(q) /\ \A i \in 1..Len(q) : q[i] \in Requests
  OBVIOUS
<1>2. 0 \in 0..BodyValue
  BY BoundsAssumption DEF BodyValue
<1>3. \A i \in 1..Len(q) : Answer(q[i], UndefinedValue, TRUE, FALSE, "completed") \in Answers
  BY <1>1, <1>2 DEF TypeOK, Answer, Answers, UndefinedValue
<1>4. CompletedAnswers(q) = [i \in 1..Len(q) |-> Answer(q[i], UndefinedValue, TRUE, FALSE, "completed")]
  BY <1>1 DEF CompletedAnswers
<1>5. CompletedAnswers(q) \in [1..Len(q) -> Answers]
  BY <1>3, <1>4
<1>6. CompletedAnswers(q) \in Seq(Answers)
  BY <1>1, <1>5, SeqDef
<1>7. Len(CompletedAnswers(q)) = Len(q)
  BY <1>1, <1>5, <1>6
<1>8. \A i \in 1..Len(q) : CompletedAnswers(q)[i] = Answer(q[i], UndefinedValue, TRUE, FALSE, "completed")
  BY <1>4
<1>9. ASSUME NEW i \in 1..Len(q)
      PROVE  CompletedAnswers(q)[i].request = q[i] /\ CompletedAnswers(q)[i].source = "completed"
  <2>1. CompletedAnswers(q)[i] = Answer(q[i], UndefinedValue, TRUE, FALSE, "completed")
    BY <1>8
  <2> QED
    BY <2>1 DEF Answer
<1> QED
  BY <1>6, <1>7, <1>9

\* The queue is settled: its head by a, the rest because the generator has
\* completed (drain_completed_async_gen_requests).
LEMMA QueueSettled ==
    ASSUME TypeOK, InOrder, BodyAnswersItsRequest,
           NEW q \in Seq(Requests), q # <<>>,
           \A i \in DOMAIN q : q[i] = Len(log) + i,
           NEW a \in Answers, a.request = Head(q), a.request = a.by.request
    PROVE  LET new == Append(log, a) \o CompletedAnswers(Tail(q)) IN
           /\ new \in Seq(Answers) /\ Len(new) = Len(log) + Len(q)
           /\ \A i \in DOMAIN new : new[i].request = i
           /\ \A i \in DOMAIN new : new[i].source = "body" => new[i].request = new[i].by.request
<1> DEFINE new == Append(log, a) \o CompletedAnswers(Tail(q))
           rest == CompletedAnswers(Tail(q))
<1>1. /\ log \in Seq(Answers) /\ Len(log) \in Nat /\ DOMAIN log = 1..Len(log)
      /\ Len(q) \in Nat \ {0} /\ Head(q) = q[1] /\ Tail(q) \in Seq(Requests)
      /\ Len(Tail(q)) = Len(q) - 1 /\ DOMAIN Tail(q) = 1..(Len(q) - 1)
      /\ \A i \in 1..(Len(q) - 1) : Tail(q)[i] = q[i + 1]
  BY DEF TypeOK
<1>2. /\ rest \in Seq(Answers) /\ Len(rest) = Len(q) - 1
      /\ \A i \in 1..(Len(q) - 1) : rest[i].request = q[i + 1] /\ rest[i].source = "completed"
  BY <1>1, CompletedTyped
<1> HIDE DEF rest
<1>3. /\ Append(log, a) \in Seq(Answers) /\ Len(Append(log, a)) = Len(log) + 1
      /\ \A i \in 1..Len(log) : Append(log, a)[i] = log[i]
      /\ Append(log, a)[Len(log) + 1] = a
  BY <1>1
<1>4. new = Append(log, a) \o rest
  BY DEF rest
<1>5. /\ new \in Seq(Answers) /\ Len(new) = Len(log) + Len(q)
      /\ \A i \in 1..(Len(log) + 1) : new[i] = Append(log, a)[i]
      /\ \A i \in (Len(log) + 2)..(Len(log) + Len(q)) : new[i] = rest[i - (Len(log) + 1)]
  <2>1. /\ Append(log, a) \o rest \in Seq(Answers)
        /\ Len(Append(log, a) \o rest) = Len(Append(log, a)) + Len(rest)
        /\ \A i \in 1..(Len(Append(log, a)) + Len(rest)) : (Append(log, a) \o rest)[i] =
              IF i <= Len(Append(log, a)) THEN Append(log, a)[i] ELSE rest[i - Len(Append(log, a))]
    BY <1>2, <1>3, ConcatProperties
  <2> HIDE DEF new
  <2> QED
    BY <1>1, <1>2, <1>3, <1>4, <2>1
<1> HIDE DEF new
<1>6. \A i \in 1..Len(log) : new[i].request = i /\ (new[i].source = "body" => new[i].request = new[i].by.request)
  <2> SUFFICES ASSUME NEW i \in 1..Len(log)
               PROVE  new[i].request = i /\ (new[i].source = "body" => new[i].request = new[i].by.request)
    OBVIOUS
  <2>1. i \in 1..(Len(log) + 1) /\ i \in DOMAIN log
    BY <1>1
  <2>2. new[i] = log[i]
    BY <1>3, <1>5, <2>1
  <2> QED
    BY <2>1, <2>2 DEF InOrder, BodyAnswersItsRequest
<1>7. new[Len(log) + 1].request = Len(log) + 1 /\ new[Len(log) + 1].request = new[Len(log) + 1].by.request
  BY <1>1, <1>3, <1>5
<1>8. \A i \in (Len(log) + 2)..(Len(log) + Len(q)) : new[i].request = i /\ new[i].source = "completed"
  <2> SUFFICES ASSUME NEW i \in (Len(log) + 2)..(Len(log) + Len(q))
               PROVE  new[i].request = i /\ new[i].source = "completed"
    OBVIOUS
  <2> DEFINE k == i - (Len(log) + 1)
  <2>1. k \in 1..(Len(q) - 1) /\ k + 1 \in DOMAIN q /\ Len(log) + (k + 1) = i
    BY <1>1
  <2> QED
    BY <1>2, <1>5, <2>1
<1>9. \A i \in DOMAIN new : new[i].request = i /\ (new[i].source = "body" => new[i].request = new[i].by.request)
  BY <1>1, <1>5, <1>6, <1>7, <1>8
<1> QED
  BY <1>5, <1>9 DEF new, rest

\* The completion of the body settles the whole queue
\* (settle_async_gen_request_slot).
LEMMA Completion ==
    ASSUME GenInv, executing, NEW v \in 0..BodyValue,
           SettleCompletion(v, FALSE) \/ SettleCompletion(v, TRUE), count' = count
    PROVE  /\ queue' = <<>> /\ queue' \in Seq(1..count') /\ log' \in Seq(Answers)
           /\ InOrder' /\ BodyAnswersItsRequest'
<1>1. /\ queue # <<>> /\ current.request = Head(queue) /\ queue \in Seq(1..count)
      /\ count \in 0..MaxRequests /\ MaxRequests \in Nat
      /\ current \in [request : 0..MaxRequests, point : {"start", "yield", "await"}]
  BY BoundsAssumption DEF GenInv, HeadRuns, TypeOK
<1>2. queue \in Seq(Requests) /\ Head(queue) \in Requests
  <2>1. 1..count \subseteq Requests
    BY <1>1 DEF Requests
  <2> QED
    BY <1>1, <2>1
<1>3. ASSUME NEW r \in BOOLEAN,
             log' = Append(log, Answer(Head(queue), v, TRUE, r, "body")) \o CompletedAnswers(Tail(queue))
      PROVE  /\ log' \in Seq(Answers) /\ Len(log') = Len(log) + Len(queue)
             /\ \A i \in DOMAIN log' : log'[i].request = i
             /\ \A i \in DOMAIN log' : log'[i].source = "body" => log'[i].request = log'[i].by.request
  <2> DEFINE a == Answer(Head(queue), v, TRUE, r, "body")
  <2>1. a \in Answers /\ a.request = Head(queue) /\ a.request = a.by.request
    BY <1>1, <1>2 DEF Answer, Answers
  <2>2. \A i \in DOMAIN queue : queue[i] = Len(log) + i
    BY DEF GenInv, InOrder
  <2> HIDE DEF a
  <2>3. LET new == Append(log, a) \o CompletedAnswers(Tail(queue)) IN
           /\ new \in Seq(Answers) /\ Len(new) = Len(log) + Len(queue)
           /\ \A i \in DOMAIN new : new[i].request = i
           /\ \A i \in DOMAIN new : new[i].source = "body" => new[i].request = new[i].by.request
    BY <1>1, <1>2, <2>1, <2>2, QueueSettled DEF GenInv
  <2>4. log' = Append(log, a) \o CompletedAnswers(Tail(queue))
    BY <1>3 DEF a
  <2> QED
    BY <2>3, <2>4
<1>4. /\ queue' = <<>> /\ log' \in Seq(Answers) /\ Len(log') = Len(log) + Len(queue)
      /\ \A i \in DOMAIN log' : log'[i].request = i
      /\ \A i \in DOMAIN log' : log'[i].source = "body" => log'[i].request = log'[i].by.request
  BY <1>1, <1>3 DEF SettleCompletion
<1>5. queue' \in Seq(1..count') /\ Len(queue') = 0 /\ DOMAIN queue' = {}
  BY <1>4
<1>6. Len(log') \in Nat /\ count' = Len(log') + Len(queue')
  BY <1>4, <1>5 DEF GenInv, InOrder
<1> QED
  BY <1>4, <1>5, <1>6 DEF InOrder, BodyAnswersItsRequest

\* A call that serves requests is on the stack, and none that runs the body.
Serving(st) == st \in Seq(Frames) /\ \A i \in DOMAIN st : st[i].at = "drain"

\* The body is put on the stack.
LEMMA BodyPushed ==
    ASSUME NEW st, Serving(st), NEW f \in Frames, f.at # "drain", stack' = Append(st, f),
           f.at = "copy" => f.left \in 1..f.open
    PROVE  /\ stack' \in Seq(Frames) /\ Len(stack') = Len(st) + 1 /\ BodyOnTop' /\ Running'
           /\ \A i \in DOMAIN stack' : stack'[i].at = "copy" => stack'[i].left \in 1..stack'[i].open
<1>1. st \in Seq(Frames) /\ Len(st) \in Nat /\ DOMAIN st = 1..Len(st)
  BY DEF Serving
<1>2. /\ stack' \in Seq(Frames) /\ stack' # <<>> /\ Len(stack') = Len(st) + 1
      /\ \A i \in 1..Len(st) : stack'[i] = st[i]
      /\ stack'[Len(st) + 1] = f
  BY <1>1, AppendProperties
<1>3. DOMAIN stack' = 1..(Len(st) + 1)
  BY <1>1, <1>2
<1>4. \A i \in DOMAIN stack' : stack'[i].at # "drain" => i = Len(stack')
  <2> SUFFICES ASSUME NEW i \in DOMAIN stack', i # Len(stack') PROVE stack'[i].at = "drain"
    OBVIOUS
  <2>1. i \in 1..Len(st)
    BY <1>1, <1>2, <1>3
  <2> QED
    BY <1>1, <1>2, <2>1 DEF Serving
<1>5. \A i \in DOMAIN stack' : stack'[i].at = "copy" => stack'[i].left \in 1..stack'[i].open
  <2> SUFFICES ASSUME NEW i \in DOMAIN stack', stack'[i].at = "copy"
               PROVE  stack'[i].left \in 1..stack'[i].open
    OBVIOUS
  <2>1. stack'[i] = f
    BY <1>2, <1>4
  <2> QED
    BY <2>1
<1>6. Running'
  BY <1>2 DEF Running, Idle, Top
<1> QED
  BY <1>2, <1>4, <1>5, <1>6 DEF BodyOnTop

\* Calls that serve requests, and nothing else.
LEMMA NoBody ==
    ASSUME Serving(stack')
    PROVE  /\ stack' \in Seq(Frames) /\ BodyOnTop' /\ ~Running'
           /\ \A i \in DOMAIN stack' : stack'[i].at # "copy"
<1>1. stack' \in Seq(Frames) /\ \A i \in DOMAIN stack' : stack'[i].at = "drain"
  BY DEF Serving
<1>2. stack' # <<>> => Len(stack') \in DOMAIN stack'
  BY <1>1
<1> QED
  BY <1>1, <1>2 DEF BodyOnTop, Running, Idle, Top

\* Where the body goes on.
LEMMA ResumedTyped ==
    ASSUME TypeOK, CopiesBounded
    PROVE  /\ \A f \in {ResumedFrame(TRUE), ResumedFrame(FALSE)} :
                f \in Frames /\ f.at # "drain" /\ (f.at = "copy" => f.left \in 1..f.open)
           /\ \A c \in 0..MaxFinally :
                CaughtFrame(c) \in Frames /\ CaughtFrame(c).at = "body"
<1>1. /\ saved \in [point : {"start", "yield", "await"}, at : {"body", "copy"},
                    open : 0..MaxFinally, left : 0..MaxFinally]
      /\ MaxFinally \in Nat /\ MaxRequests \in Nat
      /\ saved.at = "copy" => saved.left \in 1..saved.open
  BY BoundsAssumption DEF TypeOK, CopiesBounded
<1>2. \A at \in {"body", "copy", "returning"}, open \in 0..MaxFinally, left \in 0..MaxFinally :
          /\ Frame(at, open, left) \in Frames /\ Frame(at, open, left).at = at
          /\ Frame(at, open, left).open = open /\ Frame(at, open, left).left = left
  BY <1>1 DEF Frame, Frames
<1>3. Frame("returning", saved.open, 0) \in Frames /\ Frame("returning", saved.open, 0).at = "returning"
  BY <1>1, <1>2
<1>4. FinallyCopies(saved) # 0 =>
          LET f == Frame("copy", saved.open, FinallyCopies(saved)) IN
          f \in Frames /\ f.at = "copy" /\ f.left \in 1..f.open
  <2>1. FinallyCopies(saved) # 0 => FinallyCopies(saved) = saved.open /\ saved.open \in 1..MaxFinally
    BY <1>1 DEF FinallyCopies
  <2> QED
    BY <1>1, <1>2, <2>1
<1>5. LET f == Frame(saved.at, saved.open, saved.left) IN
          f \in Frames /\ f.at # "drain" /\ (f.at = "copy" => f.left \in 1..f.open)
  BY <1>1, <1>2
<1>6. \A f \in {ResumedFrame(TRUE), ResumedFrame(FALSE)} :
                f \in Frames /\ f.at # "drain" /\ (f.at = "copy" => f.left \in 1..f.open)
  BY <1>3, <1>4, <1>5 DEF ResumedFrame
<1>7. \A c \in 0..MaxFinally : CaughtFrame(c) \in Frames /\ CaughtFrame(c).at = "body"
  BY <1>1, <1>2 DEF CaughtFrame
<1> QED
  BY <1>6, <1>7

\* The answer of a throw is put down to the request that made it.
LEMMA PutDownTo ==
    ASSUME NEW a \in Answers,
           NEW b \in [request : 0..MaxRequests, point : {"start", "yield", "await"}]
    PROVE  /\ [a EXCEPT !.by = b] \in Answers /\ [a EXCEPT !.by = b].request = a.request
           /\ [a EXCEPT !.by = b].by = b
  BY DEF Answers

\* What the requests and the queue become when the head of q resumes the body.
Resumable(q, st) ==
    /\ ~executing /\ done # "done"
    /\ q \in Seq(1..count') /\ q # <<>> /\ \A i \in DOMAIN q : q[i] = Len(log) + i
    /\ count' = Len(log) + Len(q) /\ count' \in 0..MaxRequests /\ kind' \in [Requests -> AllKinds]
    /\ Serving(st) /\ base' \in 0..MaxDepth /\ base' + Len(st) <= MaxDepth

\* resume_async_gen_head_request, by its outcome: refused at the depth limit,
\* the body goes on, or the throw completes the generator.
LEMMA ResumeKeeps ==
    ASSUME GenInv, NEW q, NEW st, Resumable(q, st), ResumeHead(q, st, kind')
    PROVE  GenInv'
<1> DEFINE r == Head(q)
           mode == returnMode \/ kind'[r] = "return"
<1>1. /\ MaxRequests \in Nat /\ MaxDepth \in Nat \ {0} /\ MaxFinally \in Nat
      /\ count' \in 0..MaxRequests /\ q \in Seq(Requests) /\ r \in Requests
      /\ Len(q) \in Nat \ {0} /\ DOMAIN q = 1..Len(q) /\ kind'[r] \in AllKinds
      /\ parked = 0 /\ ~Running /\ TypeOK /\ CopiesBounded
  <2>1. 1..count' \subseteq Requests
    BY BoundsAssumption DEF Resumable, Requests
  <2>2. q \in Seq(Requests) /\ q # <<>>
    <3>1. q \in Seq(1..count') /\ q # <<>>
      BY DEF Resumable
    <3> QED
      BY <2>1, <3>1, SeqMonotonic
  <2>3. parked = 0 /\ ~Running
    BY DEF Resumable, GenInv, ExecutingExact, TypeOK
  <2> QED
    BY <2>2, <2>3, BoundsAssumption DEF Resumable, GenInv
<1>2. /\ returnMode' \in BOOLEAN /\ returnValue' \in 0..MaxRequests
  BY <1>1, SMTT(30) DEF ResumeHead, HeadRequest, TypeOK, Requests
<1>3. /\ base' \in 0..MaxDepth /\ Len(st) \in Nat /\ kind' \in [Requests -> AllKinds]
      /\ ~AtDepthLimit(base' + Len(st)) => base' + (Len(st) + 1) <= MaxDepth
  BY <1>1 DEF Resumable, Serving, AtDepthLimit
\* Nothing happens to the settlements.
<1>4. ASSUME queue' = q, log' = log PROVE InOrder' /\ BodyAnswersItsRequest' /\ queue' \in Seq(1..count')
  BY <1>4 DEF Resumable, InOrder, GenInv, BodyAnswersItsRequest
\* What the three outcomes have in common.
<1>5. ASSUME UNCHANGED <<saved, parked, awaits>>, yielded' = yielded,
             done' \in {"fresh", "suspended", "done"}, executing' \in BOOLEAN,
             stack' \in Seq(Frames), base' + Len(stack') <= MaxDepth,
             queue' \in Seq(1..count'), log' \in Seq(Answers),
             current' \in [request : 0..MaxRequests, point : {"start", "yield", "await"}]
      PROVE  TypeOK'
  BY <1>1, <1>2, <1>3, <1>5 DEF TypeOK, Depth
<1>6. r \in 0..MaxRequests /\ [request |-> r, point |-> saved.point] \in
          [request : 0..MaxRequests, point : {"start", "yield", "await"}]
  BY <1>1 DEF TypeOK, Requests
<1>7. CASE AtDepthLimit(base' + Len(st))
  <2>1. /\ queue' = q /\ stack' = st
        /\ UNCHANGED <<done, saved, yielded, executing, parked, awaits, log, current>>
    BY <1>7 DEF ResumeHead
  <2>2. /\ stack' \in Seq(Frames) /\ BodyOnTop' /\ ~Running'
        /\ \A i \in DOMAIN stack' : stack'[i].at # "copy"
    BY <2>1, NoBody DEF Resumable
  <2>3. InOrder' /\ BodyAnswersItsRequest' /\ queue' \in Seq(1..count')
    BY <1>4, <2>1
  <2>4. TypeOK'
    <3>1. base' + Len(stack') <= MaxDepth
      BY <2>1 DEF Resumable
    <3>2. /\ done' \in {"fresh", "suspended", "done"} /\ executing' \in BOOLEAN /\ log' \in Seq(Answers)
          /\ current' \in [request : 0..MaxRequests, point : {"start", "yield", "await"}]
      BY <1>1, <2>1 DEF TypeOK
    <3> QED
      BY <1>5, <2>1, <2>2, <2>3, <3>1, <3>2
  <2>5. CopiesBounded' /\ ExecutingExact' /\ ParkedAlone' /\ HeadRuns' /\ DoneIsEmpty'
    BY <1>1, <2>1, <2>2 DEF Resumable, CopiesBounded, ExecutingExact, ParkedAlone, HeadRuns, DoneIsEmpty
  <2> QED
    BY <2>2, <2>3, <2>4, <2>5 DEF GenInv
\* The body goes on in f.
<1>8. ASSUME ~AtDepthLimit(base' + Len(st)), NEW f \in Frames, f.at # "drain",
             f.at = "copy" => f.left \in 1..f.open, RunBody(st, f),
             queue' = q, log' = log, current' = [request |-> r, point |-> saved.point]
      PROVE  GenInv'
  <2>1. /\ stack' = Append(st, f) /\ executing' = TRUE
        /\ UNCHANGED <<done, saved, yielded, parked, awaits>>
    BY <1>8 DEF RunBody
  <2>2. /\ stack' \in Seq(Frames) /\ Len(stack') = Len(st) + 1 /\ BodyOnTop' /\ Running'
        /\ \A i \in DOMAIN stack' : stack'[i].at = "copy" => stack'[i].left \in 1..stack'[i].open
    BY <1>8, <2>1, BodyPushed DEF Resumable
  <2>3. InOrder' /\ BodyAnswersItsRequest' /\ queue' \in Seq(1..count')
    BY <1>4, <1>8
  <2>4. TypeOK'
    <3>1. base' + Len(stack') <= MaxDepth
      BY <1>3, <1>8, <2>2
    <3>2. /\ done' \in {"fresh", "suspended", "done"} /\ executing' \in BOOLEAN /\ log' \in Seq(Answers)
          /\ current' \in [request : 0..MaxRequests, point : {"start", "yield", "await"}]
      BY <1>1, <1>6, <1>8, <2>1 DEF TypeOK
    <3> QED
      BY <1>5, <2>1, <2>2, <2>3, <3>1, <3>2
  <2>5. CopiesBounded' /\ ExecutingExact' /\ ParkedAlone'
    BY <1>1, <2>1, <2>2 DEF CopiesBounded, ExecutingExact, ParkedAlone
  <2>6. HeadRuns' /\ DoneIsEmpty'
    BY <1>8, <2>1 DEF Resumable, HeadRuns, DoneIsEmpty
  <2> QED
    BY <2>2, <2>3, <2>4, <2>5, <2>6 DEF GenInv
<1>9. CASE ~AtDepthLimit(base' + Len(st)) /\ kind'[r] # "throw"
  <2>1. /\ current' = [request |-> r, point |-> saved.point]
        /\ RunBody(st, ResumedFrame(mode)) /\ queue' = q /\ log' = log
    BY <1>9 DEF ResumeHead, HeadRequest
  <2>2. ResumedFrame(mode) = ResumedFrame(TRUE) \/ ResumedFrame(mode) = ResumedFrame(FALSE)
    BY DEF ResumedFrame
  <2>3. /\ ResumedFrame(mode) \in Frames /\ ResumedFrame(mode).at # "drain"
        /\ ResumedFrame(mode).at = "copy" => ResumedFrame(mode).left \in 1..ResumedFrame(mode).open
    BY <1>1, <2>2, ResumedTyped
  <2> HIDE DEF mode
  <2> QED
    BY <1>8, <1>9, <2>1, <2>3
<1>10. ASSUME ~AtDepthLimit(base' + Len(st)), current' = [request |-> r, point |-> saved.point],
              NEW c \in 0..MaxFinally, RunBody(st, CaughtFrame(c)), queue' = q, log' = log
       PROVE  GenInv'
  <2>1. CaughtFrame(c) \in Frames /\ CaughtFrame(c).at = "body"
    BY <1>1, ResumedTyped
  <2> QED
    BY <1>8, <1>10, <2>1
<1>11. CASE /\ ~AtDepthLimit(base' + Len(st)) /\ current' = [request |-> r, point |-> saved.point]
            /\ ThrowUncaught(st) /\ queue' = <<>>
            /\ log' = Append(log, [Answer(Head(q), r, TRUE, TRUE, "body") EXCEPT !.by = current'])
                             \o CompletedAnswers(Tail(q))
  <2> DEFINE a == [Answer(Head(q), r, TRUE, TRUE, "body") EXCEPT !.by = current']
  <2>1. /\ stack' = st /\ done' = "done" /\ executing' = FALSE
        /\ UNCHANGED <<saved, yielded, parked, awaits>>
    BY <1>11 DEF ThrowUncaught
  <2>2. /\ stack' \in Seq(Frames) /\ BodyOnTop' /\ ~Running'
        /\ \A i \in DOMAIN stack' : stack'[i].at # "copy"
    BY <2>1, NoBody DEF Resumable
  <2>3. a \in Answers /\ a.request = Head(q) /\ a.request = a.by.request
    <3>1. r \in 0..BodyValue
      BY <1>1 DEF BodyValue, Requests
    <3>2. Answer(Head(q), r, TRUE, TRUE, "body") \in Answers /\ Answer(Head(q), r, TRUE, TRUE, "body").request = r
      BY <1>1, <3>1 DEF Answer, Answers, TypeOK
    <3>3. current' \in [request : 0..MaxRequests, point : {"start", "yield", "await"}] /\ current'.request = r
      BY <1>6, <1>11
    <3>4. a \in Answers /\ a.request = r /\ a.by = current'
      BY <3>2, <3>3, PutDownTo
    <3> HIDE DEF a
    <3> QED
      BY <3>3, <3>4
  <2>4. \A i \in DOMAIN q : q[i] = Len(log) + i
    BY DEF Resumable
  <2> HIDE DEF a
  <2>5. LET new == Append(log, a) \o CompletedAnswers(Tail(q)) IN
           /\ new \in Seq(Answers) /\ Len(new) = Len(log) + Len(q)
           /\ \A i \in DOMAIN new : new[i].request = i
           /\ \A i \in DOMAIN new : new[i].source = "body" => new[i].request = new[i].by.request
    BY <1>1, <2>3, <2>4, QueueSettled DEF GenInv
  <2>6. log' = Append(log, a) \o CompletedAnswers(Tail(q))
    BY <1>11 DEF a
  <2>7. /\ log' \in Seq(Answers) /\ Len(log') = Len(log) + Len(q)
        /\ \A i \in DOMAIN log' : log'[i].request = i
        /\ \A i \in DOMAIN log' : log'[i].source = "body" => log'[i].request = log'[i].by.request
    BY <2>5, <2>6
  <2>8. queue' \in Seq(1..count') /\ Len(queue') = 0 /\ DOMAIN queue' = {}
    BY <1>11
  <2>9. InOrder' /\ BodyAnswersItsRequest'
    BY <2>7, <2>8 DEF InOrder, BodyAnswersItsRequest, Resumable
  <2>10. TypeOK'
    <3>1. base' + Len(stack') <= MaxDepth
      BY <2>1 DEF Resumable
    <3>2. done' \in {"fresh", "suspended", "done"} /\ executing' \in BOOLEAN
      BY <2>1
    <3>3. current' \in [request : 0..MaxRequests, point : {"start", "yield", "await"}]
      BY <1>6, <1>11
    <3> QED
      BY <1>5, <2>1, <2>2, <2>7, <2>8, <3>1, <3>2, <3>3
  <2>11. CopiesBounded' /\ ExecutingExact' /\ ParkedAlone' /\ HeadRuns' /\ DoneIsEmpty'
    BY <1>1, <1>11, <2>1, <2>2 DEF CopiesBounded, ExecutingExact, ParkedAlone, HeadRuns, DoneIsEmpty
  <2> QED
    BY <2>2, <2>9, <2>10, <2>11 DEF GenInv
<1>12. \/ AtDepthLimit(base' + Len(st))
       \/ /\ ~AtDepthLimit(base' + Len(st)) /\ current' = [request |-> r, point |-> saved.point]
          /\ \/ kind'[r] # "throw"
             \/ \E c \in 0..MaxFinally : RunBody(st, CaughtFrame(c)) /\ queue' = q /\ log' = log
             \/ /\ ThrowUncaught(st) /\ queue' = <<>>
                /\ log' = Append(log, [Answer(Head(q), r, TRUE, TRUE, "body") EXCEPT !.by = current'])
                                 \o CompletedAnswers(Tail(q))
  BY DEF ResumeHead, HeadRequest
<1> QED
  BY <1>7, <1>9, <1>10, <1>11, <1>12

\* While the body does not run, every call of resume_generator serves requests.
LEMMA StackServes ==
    ASSUME GenInv, ~Running PROVE Serving(stack)
<1>1. stack \in Seq(Frames) /\ Len(stack) \in Nat /\ DOMAIN stack = 1..Len(stack)
  BY DEF GenInv, TypeOK
<1>2. \A i \in DOMAIN stack : stack[i].at = "drain"
  <2> SUFFICES ASSUME NEW i \in DOMAIN stack, stack[i].at # "drain" PROVE FALSE
    OBVIOUS
  <2>1. i = Len(stack)
    BY DEF GenInv, BodyOnTop
  <2> QED
    BY <1>1, <2>1 DEF Running, Idle, Top
<1> QED
  BY <1>1, <1>2 DEF Serving

-----------------------------------------------------------------------------
(* Every step keeps the invariant.                                         *)

\* A request comes from outside, or from the body at its own depth.
LEMMA Called ==
    ASSUME GenInv, NEW k \in Kinds, NEW d \in CallerDepths \cup {base},
           Caller(d), NewRequest(k)
    PROVE  /\ count' = count + 1 /\ count' \in Requests /\ count' \in 0..MaxRequests
           /\ kind' \in [Requests -> AllKinds] /\ k \in AllKinds
           /\ base' \in 0..MaxDepth /\ base' + Len(stack) <= MaxDepth
<1>1. /\ count \in 0..MaxRequests /\ kind \in [Requests -> AllKinds] /\ stack \in Seq(Frames)
      /\ base \in 0..MaxDepth /\ base + Len(stack) <= MaxDepth
      /\ MaxRequests \in Nat /\ MaxDepth \in Nat /\ k \in AllKinds /\ d \in 0..MaxDepth
  BY BoundsAssumption DEF GenInv, TypeOK, Depth
<1>2. count' = count + 1 /\ count' \in Requests /\ count' \in 0..MaxRequests
  BY <1>1 DEF NewRequest, Requests
<1>3. kind' \in [Requests -> AllKinds]
  BY <1>1 DEF NewRequest
<1>4. base' \in 0..MaxDepth /\ base' + Len(stack) <= MaxDepth
  <2>1. CASE Idle /\ base' = d
    <3>1. Len(stack) = 0
      BY <2>1 DEF Idle
    <3> QED
      BY <1>1, <2>1, <3>1
  <2>2. CASE base' = base
    BY <1>1, <2>2
  <2> QED
    BY <2>1, <2>2 DEF Caller
<1> QED
  BY <1>1, <1>2, <1>3, <1>4

\* A completed generator answers at once.
LEMMA RequestOfCompletedKeeps ==
    ASSUME GenInv, NEW k \in Kinds, NEW d \in CallerDepths \cup {base},
           RequestOfCompleted(k, d)
    PROVE  GenInv'
<1>1. /\ done = "done" /\ Caller(d) /\ NewRequest(k)
      /\ UNCHANGED <<queue, slots, stack, parked, awaits, current>>
  BY DEF RequestOfCompleted
<1>2. /\ UNCHANGED <<queue, stack, parked, awaits, current>>
      /\ UNCHANGED <<done, saved, yielded, executing, returnMode, returnValue>>
  BY <1>1 DEF slots
<1>3. /\ count' = count + 1 /\ count' \in Requests /\ count' \in 0..MaxRequests
      /\ kind' \in [Requests -> AllKinds] /\ k \in AllKinds
      /\ base' \in 0..MaxDepth /\ base' + Len(stack) <= MaxDepth
  BY <1>1, Called
<1>4. queue = <<>> /\ ~executing /\ log \in Seq(Answers) /\ Len(log) \in Nat /\ count = Len(log)
  <2>1. queue = <<>> /\ ~executing
    BY <1>1 DEF GenInv, DoneIsEmpty
  <2> QED
    BY <2>1 DEF GenInv, TypeOK, InOrder
<1>5. PICK a \in Answers : log' = Append(log, a) /\ a.request = count' /\ a.source = "late"
  <2>1. 0 \in 0..BodyValue /\ count' \in 0..BodyValue
    BY <1>3, BoundsAssumption DEF BodyValue
  <2>2. \A v \in 0..BodyValue, j \in BOOLEAN :
            LET a == Answer(count + 1, v, TRUE, j, "late") IN
            a \in Answers /\ a.request = count' /\ a.source = "late"
    BY <1>3 DEF Answer, Answers, GenInv, TypeOK
  <2>3. \E v \in 0..BodyValue, j \in BOOLEAN : log' = Append(log, Answer(count + 1, v, TRUE, j, "late"))
    <3>1. CASE k = "next"
      <4>1. log' = Append(log, Answer(count + 1, UndefinedValue, TRUE, FALSE, "late"))
        BY <3>1 DEF RequestOfCompleted
      <4> QED
        BY <2>1, <4>1 DEF UndefinedValue
    <3>2. CASE k = "return"
      <4>1. log' = Append(log, Answer(count + 1, count + 1, TRUE, FALSE, "late"))
        BY <3>2 DEF RequestOfCompleted
      <4> QED
        BY <1>3, <2>1, <4>1
    <3>3. CASE k = "throw"
      <4>1. log' = Append(log, Answer(count + 1, count + 1, TRUE, TRUE, "late"))
        BY <3>3 DEF RequestOfCompleted
      <4> QED
        BY <1>3, <2>1, <4>1
    <3> QED
      BY <1>3, <3>1, <3>2, <3>3 DEF AllKinds
  <2> QED
    BY <2>2, <2>3
<1>6. /\ log' \in Seq(Answers) /\ Len(log') = Len(log) + 1 /\ DOMAIN log' = 1..(Len(log) + 1)
      /\ \A i \in 1..Len(log) : log'[i] = log[i]
      /\ log'[Len(log) + 1] = a
  BY <1>4, <1>5
<1>7. \A i \in DOMAIN log' : log'[i].request = i /\ (log'[i].source = "body" => log'[i].request = log'[i].by.request)
  <2> SUFFICES ASSUME NEW i \in DOMAIN log'
               PROVE  log'[i].request = i /\ (log'[i].source = "body" => log'[i].request = log'[i].by.request)
    OBVIOUS
  <2>1. CASE i \in 1..Len(log)
    <3>1. log'[i] = log[i] /\ i \in DOMAIN log
      BY <1>4, <1>6, <2>1
    <3> QED
      BY <3>1 DEF GenInv, InOrder, BodyAnswersItsRequest
  <2>2. CASE i = Len(log) + 1
    <3>1. log'[i] = a
      BY <1>6, <2>2
    <3> QED
      BY <1>3, <1>4, <1>5, <2>2, <3>1
  <2> QED
    BY <1>4, <1>6, <2>1, <2>2
<1>8. queue' = <<>> /\ queue' \in Seq(1..count') /\ Len(queue') = 0 /\ DOMAIN queue' = {}
  BY <1>2, <1>4
<1>9. InOrder' /\ BodyAnswersItsRequest'
  BY <1>3, <1>4, <1>6, <1>7, <1>8 DEF InOrder, BodyAnswersItsRequest
<1>10. TypeOK'
  BY <1>2, <1>3, <1>6, <1>8 DEF GenInv, TypeOK, Depth
<1>11. CopiesBounded' /\ BodyOnTop' /\ ExecutingExact' /\ ParkedAlone' /\ HeadRuns' /\ DoneIsEmpty'
  BY <1>2, <1>4 DEF GenInv, CopiesBounded, BodyOnTop, ExecutingExact, ParkedAlone, HeadRuns, DoneIsEmpty,
                    Running, Idle, Top
<1> QED
  BY <1>9, <1>10, <1>11 DEF GenInv

\* The queue grows by the newest request.
LEMMA Queued ==
    ASSUME GenInv, count' = count + 1
    PROVE  LET q == Append(queue, count + 1) IN
           /\ q \in Seq(1..count') /\ q # <<>> /\ Len(q) = Len(queue) + 1
           /\ \A i \in DOMAIN q : q[i] = Len(log) + i
           /\ count' = Len(log) + Len(q)
           /\ queue # <<>> => Head(q) = Head(queue)
<1> DEFINE q == Append(queue, count + 1)
<1>1. /\ queue \in Seq(1..count) /\ Len(queue) \in Nat /\ DOMAIN queue = 1..Len(queue)
      /\ Len(log) \in Nat /\ count \in Nat /\ count = Len(log) + Len(queue)
      /\ \A i \in 1..Len(queue) : queue[i] = Len(log) + i
  <2>1. queue \in Seq(1..count) /\ log \in Seq(Answers) /\ count \in 0..MaxRequests /\ MaxRequests \in Nat
    BY BoundsAssumption DEF GenInv, TypeOK
  <2>2. Len(queue) \in Nat /\ DOMAIN queue = 1..Len(queue) /\ Len(log) \in Nat /\ count \in Nat
    BY <2>1
  <2>3. count = Len(log) + Len(queue) /\ \A i \in DOMAIN queue : queue[i] = Len(log) + i
    BY DEF GenInv, InOrder
  <2> QED
    BY <2>1, <2>2, <2>3
<1>2. 1..count \subseteq 1..count' /\ count + 1 \in 1..count'
  BY <1>1
<1>3. queue \in Seq(1..count')
  BY <1>1, <1>2, SeqMonotonic
<1>4. /\ q \in Seq(1..count') /\ q # <<>> /\ Len(q) = Len(queue) + 1
      /\ \A i \in 1..Len(queue) : q[i] = queue[i]
      /\ q[Len(queue) + 1] = count + 1
  BY <1>2, <1>3, AppendProperties
<1>5. DOMAIN q = 1..(Len(queue) + 1)
  BY <1>4
<1> HIDE DEF q
<1>6. \A i \in DOMAIN q : q[i] = Len(log) + i
  <2> SUFFICES ASSUME NEW i \in DOMAIN q PROVE q[i] = Len(log) + i
    OBVIOUS
  <2>1. CASE i \in 1..Len(queue)
    BY <1>1, <1>4, <2>1
  <2>2. CASE i = Len(queue) + 1
    BY <1>1, <1>4, <2>2
  <2>3. \A n \in Nat : \A j \in 1..(n + 1) : j \in 1..n \/ j = n + 1
    OBVIOUS
  <2> QED
    BY <1>1, <1>5, <2>1, <2>2, <2>3
<1>7. queue # <<>> => Head(q) = Head(queue)
  <2>1. queue # <<>> => 1 \in 1..Len(queue)
    BY <1>1
  <2>2. Head(q) = q[1] /\ Head(queue) = queue[1]
    OBVIOUS
  <2> QED
    BY <1>4, <2>1, <2>2
<1>8. count' = Len(log) + Len(q)
  BY <1>1, <1>4
<1> QED
  BY <1>4, <1>6, <1>7, <1>8 DEF q

\* apply_async_gen_request: the request joins the queue, behind a body that
\* runs or is parked; otherwise the head of the queue resumes the body.
LEMMA ApplyRequestKeeps ==
    ASSUME GenInv, NEW k \in Kinds, NEW d \in CallerDepths \cup {base},
           ApplyRequest(k, d)
    PROVE  GenInv'
<1> DEFINE q == Append(queue, count + 1)
<1>1. /\ done # "done" /\ Caller(d) /\ NewRequest(k)
      /\ IF executing
         THEN queue' = q /\ UNCHANGED <<slots, stack, parked, awaits, log, current>>
         ELSE ResumeHead(q, stack, kind')
  BY DEF ApplyRequest, MustQueue
<1>2. /\ count' = count + 1 /\ count' \in Requests /\ count' \in 0..MaxRequests
      /\ kind' \in [Requests -> AllKinds]
      /\ base' \in 0..MaxDepth /\ base' + Len(stack) <= MaxDepth
  BY <1>1, Called
<1>3. /\ q \in Seq(1..count') /\ q # <<>> /\ Len(q) = Len(queue) + 1
      /\ \A i \in DOMAIN q : q[i] = Len(log) + i
      /\ count' = Len(log) + Len(q)
      /\ queue # <<>> => Head(q) = Head(queue)
  BY <1>2, Queued
<1> HIDE DEF q
<1>4. CASE executing
  <2>1. /\ queue' = q /\ UNCHANGED <<stack, parked, awaits, log, current>>
        /\ UNCHANGED <<done, saved, yielded, executing, returnMode, returnValue>>
    BY <1>1, <1>4 DEF slots
  <2>2. queue # <<>> /\ current.request = Head(queue)
    BY <1>4 DEF GenInv, HeadRuns
  <2>3. InOrder' /\ BodyAnswersItsRequest'
    BY <1>3, <2>1 DEF GenInv, InOrder, BodyAnswersItsRequest
  <2>4. TypeOK'
    BY <1>2, <1>3, <2>1 DEF GenInv, TypeOK, Depth
  <2>5. CopiesBounded' /\ BodyOnTop' /\ ExecutingExact' /\ ParkedAlone'
    BY <2>1 DEF GenInv, CopiesBounded, BodyOnTop, ExecutingExact, ParkedAlone, Running, Idle, Top
  <2>6. HeadRuns' /\ DoneIsEmpty'
    BY <1>1, <1>3, <1>4, <2>1, <2>2 DEF HeadRuns, DoneIsEmpty
  <2> QED
    BY <2>3, <2>4, <2>5, <2>6 DEF GenInv
<1>5. CASE ~executing
  <2>1. ~Running
    BY <1>5 DEF GenInv, ExecutingExact
  <2>2. Serving(stack)
    BY <2>1, StackServes
  <2>3. Resumable(q, stack)
    BY <1>1, <1>2, <1>3, <1>5, <2>2 DEF Resumable
  <2> QED
    BY <1>1, <1>5, <2>3, ResumeKeeps
<1> QED
  BY <1>4, <1>5

\* Once the innermost call leaves the body or returns, all that is left serves
\* requests.
LEMMA TopLeaves ==
    ASSUME GenInv, ~Idle, NEW n \in 0..(MaxRequests + 1)
    PROVE  /\ Serving(Pop) /\ Len(Pop) = Len(stack) - 1
           /\ Serving(ReplaceTop(DrainFrame(n))) /\ Len(ReplaceTop(DrainFrame(n))) = Len(stack)
<1>1. /\ Len(stack) \in Nat \ {0} /\ DOMAIN stack = 1..Len(stack)
      /\ \A f \in Frames :
            /\ ReplaceTop(f) \in Seq(Frames) /\ Len(ReplaceTop(f)) = Len(stack)
            /\ ReplaceTop(f)[Len(stack)] = f
            /\ \A i \in 1..(Len(stack) - 1) : ReplaceTop(f)[i] = stack[i]
      /\ Pop \in Seq(Frames) /\ Len(Pop) = Len(stack) - 1
      /\ \A i \in 1..Len(Pop) : Pop[i] = stack[i]
  BY TopOfStack DEF GenInv, TypeOK, Idle
<1>2. DrainFrame(n) \in Frames /\ DrainFrame(n).at = "drain"
  BY BoundsAssumption DEF DrainFrame, Frames
<1>3. \A i \in 1..(Len(stack) - 1) : i \in DOMAIN stack /\ i # Len(stack) /\ stack[i].at = "drain"
  <2>1. \A m \in Nat : \A i \in 1..(m - 1) : i \in 1..m /\ i # m
    OBVIOUS
  <2> QED
    BY <1>1, <2>1 DEF GenInv, BodyOnTop
<1>4. Serving(Pop)
  <2>1. DOMAIN Pop = 1..(Len(stack) - 1)
    BY <1>1
  <2>2. \A i \in DOMAIN Pop : Pop[i].at = "drain"
    BY <1>1, <1>3, <2>1
  <2> QED
    BY <1>1, <2>2 DEF Serving
<1>5. Serving(ReplaceTop(DrainFrame(n)))
  <2> DEFINE s == ReplaceTop(DrainFrame(n))
  <2>1. /\ s \in Seq(Frames) /\ Len(s) = Len(stack) /\ s[Len(stack)].at = "drain"
        /\ \A i \in 1..(Len(stack) - 1) : s[i] = stack[i]
    BY <1>1, <1>2
  <2>2. DOMAIN s = 1..Len(stack)
    BY <2>1
  <2> HIDE DEF s
  <2>3. \A m \in Nat \ {0} : \A i \in 1..m : i \in 1..(m - 1) \/ i = m
    OBVIOUS
  <2>4. \A i \in DOMAIN s : s[i].at = "drain"
    <3> SUFFICES ASSUME NEW i \in DOMAIN s PROVE s[i].at = "drain"
      OBVIOUS
    <3>1. i \in 1..(Len(stack) - 1) \/ i = Len(stack)
      BY <1>1, <2>2, <2>3
    <3> QED
      BY <1>3, <2>1, <3>1
  <2>5. Serving(s)
    BY <2>1, <2>4 DEF Serving
  <2> QED
    BY <2>5 DEF s
<1> QED
  BY <1>1, <1>2, <1>4, <1>5

\* While the body is on the stack it is not parked, and runs for the head.
LEMMA WhileRunning ==
    ASSUME GenInv, Running
    PROVE  /\ executing /\ parked = 0 /\ queue # <<>> /\ current.request = Head(queue)
           /\ ~Idle /\ Top \in Frames /\ Top.at # "drain"
           /\ Top.at = "copy" => Top.left \in 1..Top.open
<1>1. executing /\ parked = 0
  BY DEF GenInv, ExecutingExact, ParkedAlone, TypeOK
<1>2. ~Idle /\ Top.at # "drain"
  BY DEF Running
<1>3. Len(stack) \in DOMAIN stack /\ Top \in Frames
  BY <1>2, TopOfStack DEF GenInv, TypeOK, Idle
<1>4. Top.at = "copy" => Top.left \in 1..Top.open
  BY <1>3 DEF GenInv, CopiesBounded, Top
<1> QED
  BY <1>1, <1>2, <1>3, <1>4 DEF GenInv, HeadRuns

\* A step inside of the body.
LEMMA BodyStepKeeps ==
    ASSUME GenInv, Running, NEW f \in Frames, f.at # "drain",
           f.at = "copy" => f.left \in 1..f.open, BodyStep(f)
    PROVE  GenInv'
<1>1. /\ stack' = ReplaceTop(f)
      /\ UNCHANGED <<count, kind, base, queue, parked, awaits, log, current>>
      /\ UNCHANGED <<done, saved, yielded, executing, returnMode, returnValue>>
  BY DEF BodyStep, calls, slots
<1>2. executing /\ parked = 0 /\ ~Idle
  BY WhileRunning
<1>3. /\ Len(stack) \in Nat \ {0} /\ DOMAIN stack = 1..Len(stack)
      /\ stack' \in Seq(Frames) /\ Len(stack') = Len(stack) /\ stack'[Len(stack)] = f
      /\ \A i \in 1..(Len(stack) - 1) : stack'[i] = stack[i]
  BY <1>1, <1>2, TopOfStack DEF GenInv, TypeOK, Idle
<1>4. DOMAIN stack' = 1..Len(stack) /\ stack' # <<>>
  BY <1>3
<1>5. \A i \in DOMAIN stack' : i \in DOMAIN stack /\ (stack'[i] = stack[i] \/ (i = Len(stack') /\ stack'[i] = f))
  <2>1. \A m \in Nat \ {0} : \A i \in 1..m : i \in 1..(m - 1) \/ i = m
    OBVIOUS
  <2> QED
    BY <1>3, <1>4, <2>1
<1>6. /\ \A i \in DOMAIN stack' : stack'[i].at = "copy" => stack'[i].left \in 1..stack'[i].open
      /\ BodyOnTop' /\ Running'
  <2>1. \A i \in DOMAIN stack' : stack'[i].at = "copy" => stack'[i].left \in 1..stack'[i].open
    BY <1>5 DEF GenInv, CopiesBounded
  <2>2. BodyOnTop'
    BY <1>3, <1>5 DEF GenInv, BodyOnTop
  <2>3. Running'
    BY <1>3, <1>4 DEF Running, Idle, Top
  <2> QED
    BY <2>1, <2>2, <2>3
<1>7. TypeOK'
  BY <1>1, <1>3 DEF GenInv, TypeOK, Depth
<1>8. CopiesBounded' /\ ExecutingExact' /\ ParkedAlone' /\ InOrder' /\ BodyAnswersItsRequest'
  BY <1>1, <1>2, <1>6 DEF GenInv, CopiesBounded, ExecutingExact, ParkedAlone, InOrder, BodyAnswersItsRequest
<1>9. HeadRuns' /\ DoneIsEmpty'
  BY <1>1 DEF GenInv, HeadRuns, DoneIsEmpty
<1> QED
  BY <1>6, <1>7, <1>8, <1>9 DEF GenInv

\* Entering and leaving a try block, and the end of a finalizer copy.
LEMMA InsideTheBody ==
    ASSUME GenInv, EnterTry \/ LeaveTry \/ FinishCopy
    PROVE  GenInv'
<1>1. Running
  BY DEF EnterTry, LeaveTry, FinishCopy
<1>2. Top \in Frames /\ Top.at # "drain" /\ (Top.at = "copy" => Top.left \in 1..Top.open)
  BY <1>1, WhileRunning
<1>3. MaxFinally \in Nat /\ Top.open \in 0..MaxFinally /\ Top.left \in 0..MaxFinally /\ Top.budget \in 0..(MaxRequests + 1)
  BY <1>2, BoundsAssumption DEF Frames
<1>4. CASE EnterTry
  <2>1. Top.at = "body" /\ Top.open + 1 \in 0..MaxFinally /\ BodyStep([Top EXCEPT !.open = Top.open + 1])
    BY <1>3, <1>4 DEF EnterTry
  <2>2. [Top EXCEPT !.open = Top.open + 1] \in Frames /\ [Top EXCEPT !.open = Top.open + 1].at = "body"
    BY <1>2, <2>1 DEF Frames
  <2> QED
    BY <1>1, <2>1, <2>2, BodyStepKeeps
<1>5. CASE LeaveTry
  <2>1. Top.at = "body" /\ Top.open - 1 \in 0..MaxFinally /\ BodyStep([Top EXCEPT !.open = Top.open - 1])
    BY <1>3, <1>5 DEF LeaveTry
  <2>2. [Top EXCEPT !.open = Top.open - 1] \in Frames /\ [Top EXCEPT !.open = Top.open - 1].at = "body"
    BY <1>2, <2>1 DEF Frames
  <2> QED
    BY <1>1, <2>1, <2>2, BodyStepKeeps
<1>6. CASE FinishCopy
  <2>1. Top.at = "copy" /\ Top.left \in 1..Top.open
    BY <1>2, <1>6 DEF FinishCopy
  <2>2. CASE Top.left > 1
    <3> DEFINE f == [Top EXCEPT !.open = Top.open - 1, !.left = Top.left - 1]
    <3>1. BodyStep(f)
      BY <1>6, <2>2 DEF FinishCopy
    <3>2. Top.open - 1 \in 0..MaxFinally /\ Top.left - 1 \in 0..MaxFinally /\ Top.left - 1 \in 1..(Top.open - 1)
      BY <1>3, <2>1, <2>2
    <3>3. f \in Frames /\ f.at = "copy" /\ f.left = Top.left - 1 /\ f.open = Top.open - 1
      BY <1>2, <2>1, <3>2 DEF Frames
    <3> HIDE DEF f
    <3> QED
      BY <1>1, <3>1, <3>2, <3>3, BodyStepKeeps
  <2>3. CASE ~(Top.left > 1)
    <3> DEFINE f == Frame("returning", Top.open - 1, 0)
    <3>1. BodyStep(f)
      BY <1>6, <2>3 DEF FinishCopy
    <3>2. Top.open - 1 \in 0..MaxFinally
      BY <1>3, <2>1
    <3>3. f \in Frames /\ f.at = "returning"
      BY <1>3, <3>2, BoundsAssumption DEF Frames, Frame
    <3> HIDE DEF f
    <3> QED
      BY <1>1, <3>1, <3>3, BodyStepKeeps
  <2> QED
    BY <2>2, <2>3
<1> QED
  BY <1>4, <1>5, <1>6

\* A yield answers the head of the queue (settle_async_gen_request_slot), and
\* the loop that serves the others begins.
LEMMA SuspendYieldKeeps ==
    ASSUME GenInv, SuspendYield
    PROVE  GenInv'
<1>1. /\ Running /\ Top.at \in {"body", "copy"} /\ yielded' = TRUE /\ executing' = FALSE
      /\ SuspendAt("yield") /\ SettleYield
      /\ stack' = ReplaceTop(DrainFrame(Len(queue') + 1))
      /\ UNCHANGED <<count, kind, base, parked, awaits, current>>
  BY DEF SuspendYield, calls
<1>2. /\ executing /\ parked = 0 /\ queue # <<>> /\ current.request = Head(queue)
      /\ ~Idle /\ Top \in Frames /\ (Top.at = "copy" => Top.left \in 1..Top.open)
  BY <1>1, WhileRunning
<1>3. /\ queue \in Seq(1..count) /\ log \in Seq(Answers) /\ count \in 0..MaxRequests /\ MaxRequests \in Nat
      /\ current \in [request : 0..MaxRequests, point : {"start", "yield", "await"}]
  BY BoundsAssumption DEF GenInv, TypeOK
<1>4. /\ Len(queue) \in Nat \ {0} /\ DOMAIN queue = 1..Len(queue) /\ Len(log) \in Nat /\ DOMAIN log = 1..Len(log)
      /\ Head(queue) = queue[1] /\ Head(queue) \in 1..count
      /\ Tail(queue) \in Seq(1..count) /\ Len(Tail(queue)) = Len(queue) - 1
      /\ \A i \in 1..(Len(queue) - 1) : Tail(queue)[i] = queue[i + 1]
  BY <1>2, <1>3, HeadTailProperties
<1>5. count = Len(log) + Len(queue) /\ \A i \in 1..Len(queue) : queue[i] = Len(log) + i
  BY <1>4 DEF GenInv, InOrder
<1> DEFINE a == Answer(Head(queue), BodyValue, FALSE, FALSE, "body")
<1>6. queue' = Tail(queue) /\ log' = Append(log, a)
  BY <1>1, <1>2 DEF SettleYield
<1>7. a \in Answers /\ a.request = Head(queue) /\ a.by.request = Head(queue)
  BY <1>2, <1>3, <1>4 DEF Answer, Answers, Requests, BodyValue
<1> HIDE DEF a
<1>8. /\ log' \in Seq(Answers) /\ Len(log') = Len(log) + 1 /\ DOMAIN log' = 1..(Len(log) + 1)
      /\ \A i \in 1..Len(log) : log'[i] = log[i]
      /\ log'[Len(log) + 1] = a
  <2>1. /\ Append(log, a) \in Seq(Answers) /\ Len(Append(log, a)) = Len(log) + 1
        /\ \A i \in 1..Len(log) : Append(log, a)[i] = log[i]
        /\ Append(log, a)[Len(log) + 1] = a
    BY <1>3, <1>7, AppendProperties
  <2> QED
    BY <1>6, <2>1
<1>9. InOrder' /\ BodyAnswersItsRequest'
  <2>1. \A i \in DOMAIN log' : log'[i].request = i /\ (log'[i].source = "body" => log'[i].request = log'[i].by.request)
    <3> SUFFICES ASSUME NEW i \in DOMAIN log'
                 PROVE  log'[i].request = i /\ (log'[i].source = "body" => log'[i].request = log'[i].by.request)
      OBVIOUS
    <3>1. CASE i \in 1..Len(log)
      <4>1. log'[i] = log[i] /\ i \in DOMAIN log
        BY <1>4, <1>8, <3>1
      <4> QED
        BY <4>1 DEF GenInv, InOrder, BodyAnswersItsRequest
    <3>2. CASE i = Len(log) + 1
      <4>1. Head(queue) = Len(log) + 1
        BY <1>4, <1>5
      <4> QED
        BY <1>7, <1>8, <3>2, <4>1
    <3>3. \A n \in Nat : \A j \in 1..(n + 1) : j \in 1..n \/ j = n + 1
      OBVIOUS
    <3> QED
      BY <1>4, <1>8, <3>1, <3>2, <3>3
  <2>2. Len(queue') = Len(queue) - 1 /\ DOMAIN queue' = 1..(Len(queue) - 1)
    BY <1>4, <1>6
  <2>3. \A i \in DOMAIN queue' : queue'[i] = Len(log') + i
    <3> SUFFICES ASSUME NEW i \in DOMAIN queue' PROVE queue'[i] = Len(log') + i
      OBVIOUS
    <3>1. i \in 1..(Len(queue) - 1) /\ i \in Nat /\ i + 1 \in 1..Len(queue)
      BY <1>4, <2>2
    <3>2. queue'[i] = queue[i + 1]
      BY <1>4, <1>6, <3>1
    <3> QED
      BY <1>4, <1>5, <1>8, <3>1, <3>2
  <2>4. count' = Len(log') + Len(queue')
    BY <1>1, <1>4, <1>5, <1>8, <2>2
  <2> QED
    BY <2>1, <2>3, <2>4 DEF InOrder, BodyAnswersItsRequest
<1>10. Len(queue') + 1 \in 0..(MaxRequests + 1)
  BY <1>3, <1>4, <1>5, <1>6
<1>11. Serving(stack') /\ Len(stack') = Len(stack)
  <2>1. \A n \in 0..(MaxRequests + 1) :
            Serving(ReplaceTop(DrainFrame(n))) /\ Len(ReplaceTop(DrainFrame(n))) = Len(stack)
    BY <1>2, TopLeaves
  <2> QED
    BY <1>1, <1>10, <2>1
<1>12. /\ stack' \in Seq(Frames) /\ BodyOnTop' /\ ~Running'
       /\ \A i \in DOMAIN stack' : stack'[i].at # "copy"
  BY <1>11, NoBody
<1>13. /\ done' = "suspended" /\ UNCHANGED <<returnMode, returnValue>>
       /\ saved' \in [point : {"start", "yield", "await"}, at : {"body", "copy"},
                      open : 0..MaxFinally, left : 0..MaxFinally]
       /\ saved'.at = "copy" => saved'.left \in 1..saved'.open
  BY <1>1, <1>2 DEF SuspendAt, Frames
<1>14. TypeOK'
  <2>1. queue' \in Seq(1..count')
    BY <1>1, <1>4, <1>6
  <2> QED
    BY <1>1, <1>8, <1>11, <1>12, <1>13, <2>1 DEF GenInv, TypeOK, Depth
<1>15. CopiesBounded' /\ ExecutingExact' /\ ParkedAlone' /\ HeadRuns' /\ DoneIsEmpty'
  BY <1>1, <1>2, <1>12, <1>13 DEF CopiesBounded, ExecutingExact, ParkedAlone, HeadRuns, DoneIsEmpty
<1> QED
  BY <1>9, <1>12, <1>14, <1>15 DEF GenInv

\* An await answers nothing: the body is parked, and stays marked as running.
LEMMA AwaitKeeps ==
    ASSUME GenInv, Await
    PROVE  GenInv'
<1>1. /\ Running /\ Top.at \in {"body", "copy"} /\ awaits < MaxAwaits /\ awaits' = awaits + 1
      /\ yielded' = FALSE /\ executing' = TRUE /\ SuspendAt("await") /\ parked' = parked + 1
      /\ stack' = Pop /\ UNCHANGED <<count, kind, base, queue, log, current>>
  BY DEF Await, ExecutingInAwait, calls
<1>2. /\ executing /\ parked = 0 /\ queue # <<>> /\ current.request = Head(queue)
      /\ ~Idle /\ Top \in Frames /\ (Top.at = "copy" => Top.left \in 1..Top.open)
  BY <1>1, WhileRunning
<1>3. Serving(stack') /\ Len(stack') = Len(stack) - 1
  <2>1. 0 \in 0..(MaxRequests + 1)
    BY BoundsAssumption
  <2> QED
    BY <1>1, <1>2, <2>1, TopLeaves
<1>4. /\ stack' \in Seq(Frames) /\ BodyOnTop' /\ ~Running'
      /\ \A i \in DOMAIN stack' : stack'[i].at # "copy"
  BY <1>3, NoBody
<1>5. /\ done' = "suspended" /\ UNCHANGED <<returnMode, returnValue>>
      /\ saved' \in [point : {"start", "yield", "await"}, at : {"body", "copy"},
                     open : 0..MaxFinally, left : 0..MaxFinally]
      /\ saved'.at = "copy" => saved'.left \in 1..saved'.open
  BY <1>1, <1>2 DEF SuspendAt, Frames
<1>6. TypeOK'
  <2>1. awaits' \in 0..MaxAwaits /\ parked' \in Nat
    BY <1>1, <1>2, BoundsAssumption DEF GenInv, TypeOK
  <2>2. base' + Len(stack') <= MaxDepth
    BY <1>1, <1>2, <1>3, TopOfStack, BoundsAssumption DEF GenInv, TypeOK, Depth, Idle
  <2> QED
    BY <1>1, <1>4, <1>5, <2>1, <2>2 DEF GenInv, TypeOK, Depth
<1>7. CopiesBounded' /\ ExecutingExact' /\ ParkedAlone' /\ HeadRuns' /\ DoneIsEmpty'
  BY <1>1, <1>2, <1>4, <1>5 DEF CopiesBounded, ExecutingExact, ParkedAlone, HeadRuns, DoneIsEmpty
<1>8. InOrder' /\ BodyAnswersItsRequest'
  BY <1>1 DEF GenInv, InOrder, BodyAnswersItsRequest
<1> QED
  BY <1>4, <1>6, <1>7, <1>8 DEF GenInv

\* The body completes: the whole queue is settled.
LEMMA CompletionKeeps ==
    ASSUME GenInv, executing, NEW v \in 0..BodyValue,
           SettleCompletion(v, FALSE) \/ SettleCompletion(v, TRUE),
           done' = "done", executing' = FALSE, parked' = 0,
           returnMode' \in BOOLEAN, returnValue' \in 0..MaxRequests,
           Serving(stack'), base' \in 0..MaxDepth, base' + Len(stack') <= MaxDepth,
           UNCHANGED <<count, kind, saved, yielded, awaits, current>>
    PROVE  GenInv'
<1>1. /\ queue' = <<>> /\ queue' \in Seq(1..count') /\ log' \in Seq(Answers)
      /\ InOrder' /\ BodyAnswersItsRequest'
  BY Completion
<1>2. /\ stack' \in Seq(Frames) /\ BodyOnTop' /\ ~Running'
      /\ \A i \in DOMAIN stack' : stack'[i].at # "copy"
  BY NoBody
<1>3. TypeOK'
  BY <1>1, <1>2 DEF GenInv, TypeOK, Depth
<1>4. CopiesBounded' /\ ExecutingExact' /\ ParkedAlone' /\ HeadRuns' /\ DoneIsEmpty'
  BY <1>1, <1>2 DEF GenInv, CopiesBounded, ExecutingExact, ParkedAlone, HeadRuns, DoneIsEmpty
<1> QED
  BY <1>1, <1>2, <1>3, <1>4 DEF GenInv

\* The body returns, or throws what nothing in it catches.
LEMMA BodyEndsKeeps ==
    ASSUME GenInv, BodyReturn \/ BodyThrow
    PROVE  GenInv'
<1>1. /\ Running /\ done' = "done" /\ executing' = FALSE /\ stack' = Pop
      /\ UNCHANGED <<count, kind, base, saved, yielded, parked, awaits, current>>
  BY DEF BodyReturn, BodyThrow, calls
<1>2. executing /\ parked = 0 /\ ~Idle
  BY <1>1, WhileRunning
<1>3. Serving(stack') /\ Len(stack') = Len(stack) - 1
  <2>1. 0 \in 0..(MaxRequests + 1)
    BY BoundsAssumption
  <2> QED
    BY <1>1, <1>2, <2>1, TopLeaves
<1>4. base' \in 0..MaxDepth /\ base' + Len(stack') <= MaxDepth
  BY <1>1, <1>2, <1>3, TopOfStack, BoundsAssumption DEF GenInv, TypeOK, Depth, Idle
<1>5. returnMode' \in BOOLEAN /\ returnValue' \in 0..MaxRequests
  <2>1. 0 \in 0..MaxRequests /\ returnMode \in BOOLEAN /\ returnValue \in 0..MaxRequests
    BY BoundsAssumption DEF GenInv, TypeOK
  <2>2. CASE BodyReturn
    BY <2>1, <2>2 DEF BodyReturn, UndefinedValue
  <2>3. CASE BodyThrow
    <3>1. UNCHANGED <<returnMode, returnValue>>
      BY <2>3 DEF BodyThrow
    <3> QED
      BY <2>1, <3>1
  <2> QED
    BY <2>2, <2>3
<1>6. BodyValue \in 0..BodyValue /\ returnValue \in 0..BodyValue
  BY BoundsAssumption DEF BodyValue, GenInv, TypeOK
<1>7. \/ SettleCompletion(BodyValue, FALSE) \/ SettleCompletion(BodyValue, TRUE)
      \/ SettleCompletion(returnValue, FALSE) \/ SettleCompletion(returnValue, TRUE)
  BY DEF BodyReturn, BodyThrow
<1> QED
  BY <1>1, <1>2, <1>3, <1>4, <1>5, <1>6, <1>7, CompletionKeeps

\* The awaited promise settles: the body goes on where it was parked, for the
\* same request, or the rejection completes the generator.
LEMMA ResumeAwaitKeeps ==
    ASSUME GenInv, NEW rejected \in BOOLEAN, ResumeAwait(rejected)
    PROVE  GenInv'
<1>1. /\ Idle /\ parked > 0 /\ base' = 0 /\ parked' = parked - 1
      /\ UNCHANGED <<count, kind, saved, yielded, returnMode, returnValue, awaits, current>>
  BY DEF ResumeAwait
<1>2. executing /\ parked = 1 /\ parked' = 0 /\ TypeOK /\ CopiesBounded
  BY <1>1 DEF GenInv, ExecutingExact, ParkedAlone
<1>3. Serving(<<>>) /\ Len(<<>>) = 0 /\ MaxDepth \in Nat \ {0}
  BY BoundsAssumption DEF Serving
\* The body goes on in f.
<1>4. ASSUME NEW f \in Frames, f.at # "drain", f.at = "copy" => f.left \in 1..f.open,
             stack' = <<f>>, executing' = TRUE, UNCHANGED <<done, queue, log>>
      PROVE  GenInv'
  <2>1. stack' = Append(<<>>, f)
    BY <1>4
  <2>2. /\ stack' \in Seq(Frames) /\ Len(stack') = Len(<<>>) + 1 /\ BodyOnTop' /\ Running'
        /\ \A i \in DOMAIN stack' : stack'[i].at = "copy" => stack'[i].left \in 1..stack'[i].open
    BY <1>3, <1>4, <2>1, BodyPushed
  <2>3. TypeOK'
    BY <1>1, <1>2, <1>3, <1>4, <2>2 DEF TypeOK, Depth
  <2>4. CopiesBounded' /\ ExecutingExact' /\ ParkedAlone'
    BY <1>1, <1>2, <1>4, <2>2 DEF CopiesBounded, ExecutingExact, ParkedAlone
  <2>5. HeadRuns' /\ DoneIsEmpty' /\ InOrder' /\ BodyAnswersItsRequest'
    BY <1>1, <1>2, <1>4 DEF GenInv, HeadRuns, DoneIsEmpty, InOrder, BodyAnswersItsRequest
  <2> QED
    BY <2>2, <2>3, <2>4, <2>5 DEF GenInv
<1>5. CASE rejected = FALSE
  <2>1. /\ stack' = <<ResumedFrame(returnMode)>>
        /\ executing' = TRUE /\ UNCHANGED <<done, queue, log>>
    BY <1>5 DEF ResumeAwait
  <2>2. ResumedFrame(returnMode) = ResumedFrame(TRUE) \/ ResumedFrame(returnMode) = ResumedFrame(FALSE)
    BY DEF ResumedFrame
  <2>3. LET f == ResumedFrame(returnMode) IN
            f \in Frames /\ f.at # "drain" /\ (f.at = "copy" => f.left \in 1..f.open)
    BY <1>2, <2>2, ResumedTyped
  <2> QED
    BY <1>4, <2>1, <2>3
<1>6. CASE rejected = TRUE
  <2>1. \/ \E c \in 0..MaxFinally : /\ stack' = <<CaughtFrame(c)>>
                                   /\ executing' = TRUE /\ UNCHANGED <<done, queue, log>>
        \/ /\ done' = "done" /\ executing' = FALSE /\ stack' = <<>>
           /\ SettleCompletion(BodyValue, TRUE)
    BY <1>6 DEF ResumeAwait
  <2>2. ASSUME NEW c \in 0..MaxFinally, stack' = <<CaughtFrame(c)>>,
               executing' = TRUE, UNCHANGED <<done, queue, log>>
        PROVE  GenInv'
    <3>1. CaughtFrame(c) \in Frames /\ CaughtFrame(c).at = "body"
      BY <1>2, ResumedTyped
    <3> QED
      BY <1>4, <2>2, <3>1
  <2>3. CASE /\ done' = "done" /\ executing' = FALSE /\ stack' = <<>>
             /\ SettleCompletion(BodyValue, TRUE)
    <3>1. BodyValue \in 0..BodyValue
      BY BoundsAssumption DEF BodyValue
    <3>2. returnMode' \in BOOLEAN /\ returnValue' \in 0..MaxRequests
      BY <1>1, <1>2 DEF TypeOK
    <3>3. Serving(stack') /\ base' \in 0..MaxDepth /\ base' + Len(stack') <= MaxDepth
      BY <1>1, <1>3, <2>3
    <3> QED
      BY <1>1, <1>2, <2>3, <3>1, <3>2, <3>3, CompletionKeeps
  <2> QED
    BY <2>1, <2>2, <2>3
<1> QED
  BY <1>5, <1>6

\* drain_async_gen_request_queue: the head is served, or the loop ends.
LEMMA DrainKeeps ==
    ASSUME GenInv, DrainPass \/ DrainEnd
    PROVE  GenInv'
<1>1. ~Idle /\ Top.at = "drain" /\ ~Running
  BY DEF DrainPass, DrainEnd, Running
<1>2. Top \in Frames /\ Top.budget \in 0..(MaxRequests + 1) /\ MaxRequests \in Nat
  <2>1. Top \in Frames
    BY <1>1, TopOfStack DEF GenInv, TypeOK, Idle
  <2> QED
    BY <2>1, BoundsAssumption DEF Frames
<1>3. CASE DrainPass
  <2>1. /\ Top.budget > 0 /\ yielded /\ queue # <<>>
        /\ base' = base /\ ResumeHead(queue, ReplaceTop(DrainFrame(Top.budget - 1)), kind)
        /\ UNCHANGED <<count, kind>>
    BY <1>3 DEF DrainPass, ServesQueue
  <2>2. ~executing /\ done # "done"
    BY <1>1, <2>1 DEF GenInv, ExecutingExact, ParkedAlone, DoneIsEmpty, TypeOK
  <2>3. Top.budget - 1 \in 0..(MaxRequests + 1)
    BY <1>2, <2>1
  <2>4. /\ Serving(ReplaceTop(DrainFrame(Top.budget - 1)))
        /\ Len(ReplaceTop(DrainFrame(Top.budget - 1))) = Len(stack)
    BY <1>1, <2>3, TopLeaves
  <2>5. /\ queue \in Seq(1..count') /\ \A i \in DOMAIN queue : queue[i] = Len(log) + i
        /\ count' = Len(log) + Len(queue) /\ count' \in 0..MaxRequests /\ kind' \in [Requests -> AllKinds]
        /\ base' \in 0..MaxDepth /\ base' + Len(stack) <= MaxDepth
    BY <2>1 DEF GenInv, TypeOK, InOrder, Depth
  <2>6. Resumable(queue, ReplaceTop(DrainFrame(Top.budget - 1)))
    BY <2>1, <2>2, <2>4, <2>5 DEF Resumable
  <2>7. ResumeHead(queue, ReplaceTop(DrainFrame(Top.budget - 1)), kind')
    BY <2>1
  <2> QED
    BY <2>6, <2>7, ResumeKeeps
<1>4. CASE DrainEnd
  <2>1. /\ stack' = Pop
        /\ UNCHANGED <<count, kind, base, queue, parked, awaits, log, current>>
        /\ UNCHANGED <<done, saved, yielded, executing, returnMode, returnValue>>
    BY <1>4 DEF DrainEnd, calls, slots
  <2>2. Serving(stack') /\ Len(stack') = Len(stack) - 1
    <3>1. 0 \in 0..(MaxRequests + 1)
      BY <1>2
    <3> QED
      BY <1>1, <2>1, <3>1, TopLeaves
  <2>3. /\ stack' \in Seq(Frames) /\ BodyOnTop' /\ ~Running'
        /\ \A i \in DOMAIN stack' : stack'[i].at # "copy"
    BY <2>2, NoBody
  <2>4. TypeOK'
    <3>1. base' + Len(stack') <= MaxDepth
      BY <1>1, <2>1, <2>2, TopOfStack, BoundsAssumption DEF GenInv, TypeOK, Depth, Idle
    <3> QED
      BY <2>1, <2>3, <3>1 DEF GenInv, TypeOK, Depth
  <2>5. CopiesBounded' /\ ExecutingExact' /\ ParkedAlone'
    BY <1>1, <2>1, <2>3 DEF GenInv, CopiesBounded, ExecutingExact, ParkedAlone
  <2>6. HeadRuns' /\ DoneIsEmpty' /\ InOrder' /\ BodyAnswersItsRequest'
    BY <2>1 DEF GenInv, HeadRuns, DoneIsEmpty, InOrder, BodyAnswersItsRequest
  <2> QED
    BY <2>3, <2>4, <2>5, <2>6 DEF GenInv
<1> QED
  BY <1>3, <1>4

-----------------------------------------------------------------------------
(* The theorems.                                                           *)

LEMMA GenInit ==
    ASSUME Init PROVE GenInv
<1>1. TypeOK
  <2>1. /\ MaxRequests \in Nat /\ MaxAwaits \in Nat /\ MaxFinally \in Nat /\ MaxDepth \in Nat
        /\ 0 \in 0..MaxRequests /\ 0 \in 0..MaxAwaits /\ 0 \in 0..MaxFinally /\ 0 \in 0..MaxDepth
    BY BoundsAssumption
  <2>2. /\ count \in 0..MaxRequests /\ base \in 0..MaxDepth /\ awaits \in 0..MaxAwaits /\ parked \in Nat
        /\ returnValue \in 0..MaxRequests /\ done \in {"fresh", "suspended", "done"}
        /\ yielded \in BOOLEAN /\ executing \in BOOLEAN /\ returnMode \in BOOLEAN
    BY <2>1 DEF Init, UndefinedValue
  <2>3. kind \in [Requests -> AllKinds] /\ queue \in Seq(1..count) /\ log \in Seq(Answers)
    BY DEF Init, AllKinds
  <2>4. stack \in Seq(Frames) /\ Depth <= MaxDepth
    BY <2>1 DEF Init, Depth
  <2>5. /\ saved \in [point : {"start", "yield", "await"}, at : {"body", "copy"},
                       open : 0..MaxFinally, left : 0..MaxFinally]
        /\ current \in [request : 0..MaxRequests, point : {"start", "yield", "await"}]
    BY <2>1 DEF Init, NoRequest
  <2> QED
    BY <2>2, <2>3, <2>4, <2>5 DEF TypeOK
<1> QED
  BY <1>1 DEF Init, GenInv, CopiesBounded, BodyOnTop, ExecutingExact, ParkedAlone, InOrder,
             HeadRuns, DoneIsEmpty, BodyAnswersItsRequest, Running, Idle

LEMMA GenNext ==
    ASSUME GenInv, [Next]_vars PROVE GenInv'
<1>1. CASE MakeRequest
  BY <1>1, ApplyRequestKeeps, RequestOfCompletedKeeps DEF MakeRequest
<1>2. CASE EnterTry \/ LeaveTry \/ FinishCopy
  BY <1>2, InsideTheBody
<1>3. CASE SuspendYield
  BY <1>3, SuspendYieldKeeps
<1>4. CASE BodyReturn \/ BodyThrow
  BY <1>4, BodyEndsKeeps
<1>5. CASE Await
  BY <1>5, AwaitKeeps
<1>6. CASE \E rejected \in BOOLEAN : ResumeAwait(rejected)
  BY <1>6, ResumeAwaitKeeps
<1>7. CASE DrainPass \/ DrainEnd
  BY <1>7, DrainKeeps
<1>8. CASE UNCHANGED vars
  BY <1>8 DEF vars, calls, slots, GenInv, TypeOK, Depth, CopiesBounded, BodyOnTop, ExecutingExact,
              ParkedAlone, InOrder, HeadRuns, DoneIsEmpty, BodyAnswersItsRequest, Running, Idle, Top
<1> QED
  BY <1>1, <1>2, <1>3, <1>4, <1>5, <1>6, <1>7, <1>8 DEF Next, BodyEnds

\* The slots, the queue, the stack of resume_generator calls and the
\* settlements are consistent, whatever the body does and whoever calls it.
THEOREM GeneratorInvariant == Spec => []GenInv
<1>1. Init => GenInv
  BY GenInit
<1>2. GenInv /\ [Next]_vars => GenInv'
  BY GenNext
<1> QED
  BY <1>1, <1>2, PTL DEF Spec

\* The slots hold what the code puts there, and resume_generator never nests
\* deeper than MAX_RESUME_DEPTH.
THEOREM WithinDepth == Spec => []TypeOK
<1>1. GenInv => TypeOK
  BY DEF GenInv
<1> QED
  BY <1>1, GeneratorInvariant, PTL

\* apply_async_gen_request never nests a second body over the saved registers,
\* and the executing slot says exactly whether one is under way.
THEOREM OneBodyAtATime == Spec => []OneBody
<1>1. GenInv => OneBody
  <2> SUFFICES ASSUME GenInv PROVE OneBody
    OBVIOUS
  <2>1. stack \in Seq(Frames) /\ Len(stack) \in Nat /\ DOMAIN stack = 1..Len(stack)
    BY DEF GenInv, TypeOK
  <2>2. \A i \in Bodies : i = Len(stack)
    BY DEF Bodies, GenInv, BodyOnTop
  <2>3. Running <=> Bodies # {}
    <3>1. stack # <<>> => Len(stack) \in DOMAIN stack
      BY <2>1
    <3>2. Running => Len(stack) \in Bodies
      BY <3>1 DEF Running, Idle, Top, Bodies
    <3>3. Bodies # {} => Running
      <4> SUFFICES ASSUME NEW i \in Bodies PROVE Running
        OBVIOUS
      <4>1. i = Len(stack) /\ stack[i].at # "drain" /\ stack # <<>>
        BY <2>1, <2>2 DEF Bodies
      <4> QED
        BY <4>1 DEF Running, Idle, Top
    <3> QED
      BY <3>2, <3>3
  <2> QED
    BY <2>2, <2>3 DEF OneBody, GenInv, ExecutingExact, ParkedAlone
<1> QED
  BY <1>1, GeneratorInvariant, PTL

\* Requests are answered in the order they arrive, each at most once, whether
\* they queue behind the body, are served by the drain loop or come late.
THEOREM Ordered == Spec => []AnsweredInOrder
<1>1. GenInv => AnsweredInOrder
  BY DEF GenInv, InOrder, AnsweredInOrder
<1> QED
  BY <1>1, GeneratorInvariant, PTL

\* A request that was made is in the queue or has been answered.
THEOREM NoRequestLost == Spec => []EveryRequestKept
<1>1. GenInv => EveryRequestKept
  <2> SUFFICES ASSUME GenInv, NEW r \in 1..count
               PROVE  (\E i \in DOMAIN queue : queue[i] = r) \/ (\E i \in DOMAIN log : log[i].request = r)
    BY DEF EveryRequestKept
  <2>1. queue \in Seq(1..count) /\ log \in Seq(Answers) /\ count = Len(log) + Len(queue)
    BY DEF GenInv, TypeOK, InOrder
  <2>2. /\ Len(queue) \in Nat /\ Len(log) \in Nat /\ DOMAIN queue = 1..Len(queue) /\ DOMAIN log = 1..Len(log)
    BY <2>1
  <2>3. r \in DOMAIN log \/ r - Len(log) \in DOMAIN queue
    BY <2>1, <2>2
  <2>4. CASE r \in DOMAIN log
    BY <2>4 DEF GenInv, InOrder
  <2>5. CASE r - Len(log) \in DOMAIN queue
    <3>1. queue[r - Len(log)] = Len(log) + (r - Len(log))
      BY <2>5 DEF GenInv, InOrder
    <3> QED
      BY <2>1, <2>2, <2>5, <3>1
  <2> QED
    BY <2>3, <2>4, <2>5
<1> QED
  BY <1>1, GeneratorInvariant, PTL

\* What the body yields, returns or throws answers the request that resumed it
\* (settle_async_gen_request_slot), also when one refused at the depth limit was
\* left at the head.
THEOREM AnswersItsOwnRequest == Spec => []BodyAnswersItsRequest
<1>1. GenInv => BodyAnswersItsRequest
  BY DEF GenInv
<1> QED
  BY <1>1, GeneratorInvariant, PTL
=============================================================================
