-------------------------- MODULE CheckpointProofs --------------------------
(***************************************************************************)
(* Proofs about Checkpoint, for any cap of the queue, any number of jobs,  *)
(* awaits and evaluations, and any tasks and promises.                     *)
(*                                                                         *)
(* What waits to be run, in the queue and then in the sink, is a sequence  *)
(* of rising numbers between the last job that ran and the newest one; a   *)
(* task is in one place; and a pass over the awaits knows what it has seen *)
(* so far.                                                                 *)
(***************************************************************************)
EXTENDS Checkpoint, SequenceTheorems, FiniteSetTheorems, TLAPS

-----------------------------------------------------------------------------
(* The inductive invariants.                                               *)

\* Numbers that go up, all of them above lo and none above hi.
Ordered(q, lo, hi) ==
    /\ q \in Seq(Nat) /\ Increasing(q)
    /\ \A i \in DOMAIN q : lo < q[i] /\ q[i] <= hi

\* The jobs that wait, in the queue and then in the sink, are in order, later
\* than the last one that ran, and not later than the newest.
InOrder == last \in Nat /\ last <= numbered /\ Ordered(jobs \o sink, last, numbered)

\* Every job that has a number, that waits for a promise or that has been asked
\* for as an adoption was made by script.
Accounted == numbered + Cardinality(Waiting) + NewAdoptions <= made

\* While the drain goes on it has not reached its own cap, and when it does not
\* none of the adoptions has been read.
InDrain == pc = "drain" \/ (pc = "script" /\ caller = "job")
DrainLocals == IF InDrain THEN drained <= 2 * MaxQueue ELSE cursor = 0

\* Only what was called runs.
RunningCalled == running \in started \cup {Ready}

CkInv == TypeOK /\ InOrder /\ Accounted /\ DrainLocals /\ RunningCalled

\* A task is in one place, and settles nothing before it was called.
RunningAlone ==
    running # Ready => /\ running \notin settled
                       /\ \A k \in DOMAIN completions : completions[k] # running
SettledStarted == settled \cap Tasks \subseteq started
PlaceInv == CkInv /\ OneParkingPerTask /\ RunningAlone /\ SettledStarted

\* What a pass over the awaits has found so far, if nothing stopped it: when no
\* await and no completion is left no script has run since the drain, and when
\* nothing counted as progress none has run and the attempts that were made
\* went past awaits on pending promises, which are now the last of the queue.
DrainedFirst == InDrain => completions = <<>>
PassSoFar ==
    pc = "pass" /\ ~timedOut =>
        /\ ~CutShort /\ awaits = <<>> /\ completions = <<>> => sink = <<>> /\ adoptions = <<>>
        /\ ~progressed /\ drained = 0 =>
              /\ jobs = <<>> /\ sink = <<>> /\ adoptions = <<>> /\ completions = <<>>
              /\ NoneNested => \A i \in DOMAIN awaits : i > attempts => ~IsSettled(awaits[i].on)
QuietInv == CkInv /\ DrainedFirst /\ PassSoFar /\ NothingLeftAtExit

-----------------------------------------------------------------------------
(* Rising sequences.                                                       *)

\* What is put behind an ordered sequence, and above it, continues it.
LEMMA OrderedConcat ==
    ASSUME NEW lo \in Nat, NEW mid \in Nat, NEW hi \in Nat, lo <= mid, mid <= hi,
           NEW a, NEW b, Ordered(a, lo, mid), Ordered(b, mid, hi)
    PROVE  Ordered(a \o b, lo, hi)
<1> DEFINE c == a \o b
<1>1. /\ a \in Seq(Nat) /\ b \in Seq(Nat) /\ Len(a) \in Nat /\ Len(b) \in Nat
      /\ DOMAIN a = 1..Len(a) /\ DOMAIN b = 1..Len(b)
  BY DEF Ordered
<1>2. /\ c \in Seq(Nat) /\ Len(c) = Len(a) + Len(b)
      /\ \A i \in 1..(Len(a) + Len(b)) : c[i] = IF i <= Len(a) THEN a[i] ELSE b[i - Len(a)]
  BY <1>1, ConcatProperties
<1>3. DOMAIN c = 1..(Len(a) + Len(b))
  BY <1>1, <1>2
<1> HIDE DEF c
<1>4. \A i \in DOMAIN c : \/ i \in DOMAIN a /\ i <= Len(a) /\ c[i] = a[i]
                          \/ i - Len(a) \in DOMAIN b /\ i > Len(a) /\ c[i] = b[i - Len(a)]
  <2> SUFFICES ASSUME NEW i \in DOMAIN c
               PROVE  \/ i \in DOMAIN a /\ i <= Len(a) /\ c[i] = a[i]
                      \/ i - Len(a) \in DOMAIN b /\ i > Len(a) /\ c[i] = b[i - Len(a)]
    OBVIOUS
  <2>1. i \in 1..(Len(a) + Len(b)) /\ i \in Nat
    BY <1>1, <1>3
  <2>2. CASE i <= Len(a)
    BY <1>1, <1>2, <2>1, <2>2
  <2>3. CASE i > Len(a)
    <3>1. i - Len(a) \in 1..Len(b) /\ ~(i <= Len(a))
      BY <1>1, <2>1, <2>3
    <3> QED
      BY <1>1, <1>2, <2>1, <2>3, <3>1
  <2> QED
    BY <1>1, <2>1, <2>2, <2>3
<1>5. \A i \in DOMAIN c : c[i] \in Nat /\ lo < c[i] /\ c[i] <= hi
  <2>1. \A i \in DOMAIN a : a[i] \in Nat /\ lo < a[i] /\ a[i] <= mid
    BY DEF Ordered
  <2>2. \A i \in DOMAIN b : b[i] \in Nat /\ mid < b[i] /\ b[i] <= hi
    BY DEF Ordered
  <2> QED
    BY <1>4, <2>1, <2>2
<1>6. ASSUME NEW i \in DOMAIN c, NEW j \in DOMAIN c, i < j PROVE c[i] < c[j]
  <2>1. i \in Nat /\ j \in Nat
    BY <1>1, <1>3
  <2>2. CASE j <= Len(a)
    <3>1. i \in DOMAIN a /\ j \in DOMAIN a /\ c[i] = a[i] /\ c[j] = a[j]
      BY <1>1, <1>4, <1>6, <2>1, <2>2
    <3> QED
      BY <1>6, <3>1 DEF Ordered, Increasing
  <2>3. CASE i <= Len(a) /\ j > Len(a)
    <3>1. i \in DOMAIN a /\ c[i] = a[i] /\ j - Len(a) \in DOMAIN b /\ c[j] = b[j - Len(a)]
      BY <1>1, <1>4, <2>1, <2>3
    <3>2. a[i] \in Nat /\ a[i] <= mid /\ b[j - Len(a)] \in Nat /\ mid < b[j - Len(a)]
      BY <3>1 DEF Ordered
    <3> QED
      BY <3>1, <3>2
  <2>4. CASE i > Len(a)
    <3>1. /\ i - Len(a) \in DOMAIN b /\ c[i] = b[i - Len(a)] /\ i - Len(a) < j - Len(a)
          /\ j - Len(a) \in DOMAIN b /\ c[j] = b[j - Len(a)]
      BY <1>1, <1>4, <1>6, <2>1, <2>4
    <3> QED
      BY <3>1 DEF Ordered, Increasing
  <2> QED
    BY <1>1, <2>1, <2>2, <2>3, <2>4
<1>7. Ordered(c, lo, hi)
  BY <1>2, <1>5, <1>6 DEF Ordered, Increasing
<1> QED
  BY <1>7 DEF c

\* Jobs that enter the sink together get the next numbers.
LEMMA NewJobsOrdered ==
    ASSUME NEW n \in Nat, numbered \in Nat
    PROVE  Ordered(NewJobs(n), numbered, numbered + n) /\ Len(NewJobs(n)) = n
<1>1. NewJobs(n) \in [1..n -> Nat]
  BY DEF NewJobs
<1>2. NewJobs(n) \in Seq(Nat) /\ DOMAIN NewJobs(n) = 1..n
  BY <1>1, SeqDef
<1>3. Len(NewJobs(n)) = n
  BY <1>1, <1>2
<1>4. \A i \in 1..n : NewJobs(n)[i] = numbered + i
  BY DEF NewJobs
<1> QED
  BY <1>2, <1>3, <1>4 DEF Ordered, Increasing

\* The head is the least, and the others are above it.
LEMMA OrderedTail ==
    ASSUME NEW lo \in Nat, NEW hi \in Nat, NEW q, Ordered(q, lo, hi), q # <<>>
    PROVE  /\ Head(q) \in Nat /\ lo < Head(q) /\ Head(q) <= hi
           /\ Ordered(Tail(q), Head(q), hi)
<1>1. /\ q \in Seq(Nat) /\ Len(q) \in Nat \ {0} /\ DOMAIN q = 1..Len(q)
      /\ \A i, j \in DOMAIN q : i < j => q[i] < q[j]
      /\ \A i \in DOMAIN q : q[i] \in Nat /\ lo < q[i] /\ q[i] <= hi
  BY DEF Ordered, Increasing
<1>2. /\ Head(q) = q[1] /\ Tail(q) \in Seq(Nat) /\ Len(Tail(q)) = Len(q) - 1
      /\ \A i \in 1..Len(Tail(q)) : Tail(q)[i] = q[i + 1]
  BY <1>1, HeadTailProperties
<1>3. DOMAIN Tail(q) = 1..(Len(q) - 1)
  BY <1>2
<1>4. 1 \in DOMAIN q
  BY <1>1
<1>5. \A i \in 1..(Len(q) - 1) : i \in Nat /\ i + 1 \in DOMAIN q /\ 1 < i + 1 /\ Tail(q)[i] = q[i + 1]
  BY <1>1, <1>2
<1>6. \A i \in 1..(Len(q) - 1) : q[1] < Tail(q)[i] /\ Tail(q)[i] <= hi
  BY <1>1, <1>4, <1>5
<1>7. Increasing(Tail(q))
  <2> SUFFICES ASSUME NEW i \in 1..(Len(q) - 1), NEW j \in 1..(Len(q) - 1), i < j
               PROVE  Tail(q)[i] < Tail(q)[j]
    BY <1>3 DEF Increasing
  <2>1. i + 1 \in DOMAIN q /\ j + 1 \in DOMAIN q /\ i + 1 < j + 1
    BY <1>5
  <2> QED
    BY <1>1, <1>5, <2>1
<1> QED
  BY <1>1, <1>2, <1>3, <1>4, <1>6, <1>7 DEF Ordered

\* enqueue drops what does not fit: what stays is a beginning.
LEMMA OrderedEnqueued ==
    ASSUME NEW lo \in Nat, NEW hi \in Nat, NEW q \in Seq(Nat), NEW more \in Seq(Nat), MaxQueue \in Nat,
           Ordered(q \o more, lo, hi)
    PROVE  Ordered(Enqueued(q, more), lo, hi)
<1> DEFINE n == IF Len(q) < MaxQueue THEN MaxQueue - Len(q) ELSE 0
           m == IF n < Len(more) THEN n ELSE Len(more)
           p == SubSeq(more, 1, m)
           c == q \o p
           d == q \o more
<1>1. Len(q) \in Nat /\ Len(more) \in Nat /\ DOMAIN more = 1..Len(more)
  OBVIOUS
<1>2. m \in 0..Len(more) /\ \A i \in 1..m : i \in 1..Len(more)
  BY <1>1
<1> HIDE DEF m
<1>3. /\ p \in Seq(Nat) /\ Len(p) = m /\ \A i \in 1..m : p[i] = more[i]
  <2>1. \A i \in 1..m : more[i] \in Nat
    BY <1>2
  <2>2. 1 \in Int /\ m \in Int
    BY <1>2
  <2>3. /\ SubSeq(more, 1, m) \in Seq(Nat)
        /\ Len(SubSeq(more, 1, m)) = IF 1 <= m THEN m - 1 + 1 ELSE 0
        /\ \A i \in 1..(m - 1 + 1) : SubSeq(more, 1, m)[i] = more[1 + i - 1]
    BY <2>1, <2>2, SubSeqProperties
  <2>4. m - 1 + 1 = m /\ \A i \in 1..m : 1 + i - 1 = i
    BY <1>2
  <2> QED
    BY <1>2, <2>3, <2>4
<1> HIDE DEF p
<1>4. /\ c \in Seq(Nat) /\ Len(c) = Len(q) + m
      /\ \A i \in 1..(Len(q) + m) : c[i] = IF i <= Len(q) THEN q[i] ELSE p[i - Len(q)]
  BY <1>3, ConcatProperties
<1>5. /\ d \in Seq(Nat) /\ Len(d) = Len(q) + Len(more)
      /\ \A i \in 1..(Len(q) + Len(more)) : d[i] = IF i <= Len(q) THEN q[i] ELSE more[i - Len(q)]
  BY ConcatProperties
<1>6. DOMAIN c = 1..(Len(q) + m) /\ DOMAIN d = 1..(Len(q) + Len(more))
  BY <1>1, <1>2, <1>4, <1>5
<1>7. Ordered(d, lo, hi)
  OBVIOUS
<1> HIDE DEF c, d
<1>8. \A i \in DOMAIN c : i \in DOMAIN d /\ c[i] = d[i]
  <2> SUFFICES ASSUME NEW i \in DOMAIN c PROVE i \in DOMAIN d /\ c[i] = d[i]
    OBVIOUS
  <2>1. i \in 1..(Len(q) + m) /\ i \in 1..(Len(q) + Len(more)) /\ i \in Nat
    BY <1>1, <1>2, <1>6
  <2>2. CASE i <= Len(q)
    BY <1>4, <1>5, <1>6, <2>1, <2>2
  <2>3. CASE ~(i <= Len(q))
    <3>1. i - Len(q) \in 1..m
      BY <1>1, <1>2, <2>1, <2>3
    <3> QED
      BY <1>3, <1>4, <1>5, <1>6, <2>1, <2>3, <3>1
  <2> QED
    BY <2>2, <2>3
<1>9. Ordered(c, lo, hi)
  BY <1>4, <1>7, <1>8 DEF Ordered, Increasing
<1> QED
  BY <1>9 DEF c, p, m, n, Enqueued, Upto

-----------------------------------------------------------------------------
(* Callbacks that wait.                                                    *)

\* The callbacks that wait for p.
WaitingFor(p) == {p} \X (1..watchers[p])

LEMMA WaitingFinite ==
    ASSUME watchers \in [Promises -> 0..MaxJobs]
    PROVE  /\ MaxJobs \in Nat /\ IsFiniteSet(Waiting) /\ Cardinality(Waiting) \in Nat
           /\ \A p \in Promises :
                 /\ WaitingFor(p) \subseteq Waiting /\ IsFiniteSet(WaitingFor(p))
                 /\ Cardinality(WaitingFor(p)) = watchers[p]
                 /\ watchers[p] \in Nat /\ watchers[p] <= Cardinality(Waiting)
<1>1. MaxJobs \in Nat /\ IsFiniteSet(Promises)
  BY BoundsAssumption, NamesAssumption DEF Promises
<1>2. 1 \in Int /\ MaxJobs \in Int
  BY <1>1
<1>3. IsFiniteSet(1..MaxJobs)
  BY <1>2, FS_Interval
<1>4. IsFiniteSet(Promises \X (1..MaxJobs))
  BY <1>1, <1>3, FS_Product
<1>5. Waiting \in SUBSET (Promises \X (1..MaxJobs))
  BY DEF Waiting
<1>6. IsFiniteSet(Waiting) /\ Cardinality(Waiting) \in Nat
  BY <1>4, <1>5, FS_Subset, FS_CardinalityType
<1>7. ASSUME NEW p \in Promises
      PROVE  /\ WaitingFor(p) \subseteq Waiting /\ IsFiniteSet(WaitingFor(p))
             /\ Cardinality(WaitingFor(p)) = watchers[p]
             /\ watchers[p] \in Nat /\ watchers[p] <= Cardinality(Waiting)
  <2>1. watchers[p] \in Nat /\ watchers[p] \in Int /\ watchers[p] <= MaxJobs
    BY <1>1
  <2>2. /\ IsFiniteSet(1..watchers[p])
        /\ Cardinality(1..watchers[p]) = IF 1 > watchers[p] THEN 0 ELSE watchers[p] - 1 + 1
    BY <1>2, <2>1, FS_Interval
  <2>3. Cardinality(1..watchers[p]) = watchers[p]
    BY <2>1, <2>2
  <2>4. IsFiniteSet({p}) /\ Cardinality({p}) = 1
    BY FS_Singleton
  <2>5. IsFiniteSet(WaitingFor(p)) /\ Cardinality(WaitingFor(p)) = 1 * watchers[p]
    BY <2>2, <2>3, <2>4, FS_Product DEF WaitingFor
  <2>6. WaitingFor(p) \in SUBSET Waiting
    <3> SUFFICES ASSUME NEW w \in WaitingFor(p) PROVE w \in Waiting
      OBVIOUS
    <3>1. w \in Promises \X (1..MaxJobs) /\ w[1] = p /\ w[2] \in 1..watchers[p]
      BY <1>1, <2>1 DEF WaitingFor
    <3> QED
      BY <2>1, <3>1 DEF Waiting
  <2>7. Cardinality(WaitingFor(p)) <= Cardinality(Waiting)
    BY <1>6, <2>6, FS_Subset
  <2> QED
    BY <2>1, <2>5, <2>6, <2>7
<1> QED
  BY <1>1, <1>6, <1>7

\* One callback more waits for p.
LEMMA OneMoreWaits ==
    ASSUME watchers \in [Promises -> 0..MaxJobs], NEW p \in Promises, watchers[p] < MaxJobs,
           watchers' = [watchers EXCEPT ![p] = @ + 1]
    PROVE  /\ watchers' \in [Promises -> 0..MaxJobs]
           /\ Cardinality(Waiting') \in Nat /\ Cardinality(Waiting') <= Cardinality(Waiting) + 1
<1> DEFINE e == <<p, watchers[p] + 1>>
<1>1. MaxJobs \in Nat /\ IsFiniteSet(Waiting) /\ Cardinality(Waiting) \in Nat /\ watchers[p] \in Nat
  BY WaitingFinite
<1>2. watchers' \in [Promises -> 0..MaxJobs] /\ watchers'[p] = watchers[p] + 1
      /\ \A r \in Promises : r # p => watchers'[r] = watchers[r]
  BY <1>1
<1>3. Waiting' \subseteq Waiting \cup {e}
  <2> SUFFICES ASSUME NEW w \in Waiting', w \notin Waiting PROVE w = e
    OBVIOUS
  <2>1. /\ w \in Promises \X (1..MaxJobs) /\ w[2] <= watchers'[w[1]] /\ ~(w[2] <= watchers[w[1]])
    BY DEF Waiting
  <2>2. w[1] \in Promises /\ w[2] \in Nat /\ w = <<w[1], w[2]>>
    BY <2>1
  <2>3. w[1] = p
    BY <1>2, <2>1, <2>2
  <2>4. w[2] = watchers[p] + 1
    BY <1>1, <1>2, <2>1, <2>2, <2>3
  <2> QED
    BY <2>2, <2>3, <2>4
<1>4. /\ IsFiniteSet(Waiting \cup {e})
      /\ Cardinality(Waiting \cup {e}) = IF e \in Waiting THEN Cardinality(Waiting) ELSE Cardinality(Waiting) + 1
  BY <1>1, FS_AddElement
<1>5. Waiting' \in SUBSET (Waiting \cup {e})
  BY <1>3
<1>6. IsFiniteSet(Waiting') /\ Cardinality(Waiting') <= Cardinality(Waiting \cup {e})
  BY <1>4, <1>5, FS_Subset
<1>7. Cardinality(Waiting') \in Nat
  BY <1>6, FS_CardinalityType
<1> QED
  BY <1>1, <1>2, <1>4, <1>6, <1>7

\* The callbacks of the promises in C have got their jobs.
LEMMA WaitNoMore ==
    ASSUME watchers \in [Promises -> 0..MaxJobs], NEW C,
           watchers' = [p \in Promises |-> IF p \in C THEN 0 ELSE watchers[p]]
    PROVE  LET gone == {w \in Waiting : w[1] \in C} IN
           /\ watchers' \in [Promises -> 0..MaxJobs] /\ Cardinality(gone) \in Nat
           /\ Cardinality(Waiting') \in Nat /\ Cardinality(Waiting') = Cardinality(Waiting) - Cardinality(gone)
<1> DEFINE gone == {w \in Waiting : w[1] \in C}
<1>1. MaxJobs \in Nat /\ IsFiniteSet(Waiting) /\ Cardinality(Waiting) \in Nat
  BY WaitingFinite
<1>2. watchers' \in [Promises -> 0..MaxJobs]
  BY <1>1
<1>3. Waiting' = Waiting \ gone
  <2>1. \A w \in Promises \X (1..MaxJobs) : w[1] \in Promises /\ w[2] \in Nat /\ ~(w[2] <= 0)
    BY <1>1
  <2>2. \A w \in Promises \X (1..MaxJobs) :
            w[2] <= watchers'[w[1]] <=> w[1] \notin C /\ w[2] <= watchers[w[1]]
    BY <1>2, <2>1
  <2> QED
    BY <2>2 DEF Waiting
<1>4. gone \in SUBSET Waiting /\ Waiting \cap gone = gone
  OBVIOUS
<1>5. IsFiniteSet(gone) /\ Cardinality(gone) \in Nat
  BY <1>1, <1>4, FS_Subset, FS_CardinalityType
<1>6. IsFiniteSet(Waiting \ gone) /\ Cardinality(Waiting \ gone) = Cardinality(Waiting) - Cardinality(Waiting \cap gone)
  BY <1>1, FS_Difference
<1>7. Cardinality(Waiting \ gone) \in Nat
  BY <1>6, FS_CardinalityType
<1> HIDE DEF gone
<1>8. /\ watchers' \in [Promises -> 0..MaxJobs] /\ Cardinality(gone) \in Nat
      /\ Cardinality(Waiting') \in Nat /\ Cardinality(Waiting') = Cardinality(Waiting) - Cardinality(gone)
  BY <1>2, <1>3, <1>4, <1>5, <1>6, <1>7
<1> QED
  BY <1>8 DEF gone

\* Settling one promise queues as many jobs as callbacks wait for it.
LEMMA GoneOfOne ==
    ASSUME watchers \in [Promises -> 0..MaxJobs], NEW p \in Promises
    PROVE  Cardinality({w \in Waiting : w[1] \in {p}}) = watchers[p]
<1>1. {w \in Waiting : w[1] \in {p}} = WaitingFor(p)
  <2>1. WaitingFor(p) \subseteq Waiting /\ MaxJobs \in Nat /\ watchers[p] \in Nat
    BY WaitingFinite
  <2>2. ASSUME NEW w \in Waiting, w[1] \in {p} PROVE w \in WaitingFor(p)
    <3>1. w \in Promises \X (1..MaxJobs) /\ w[2] <= watchers[w[1]] /\ w[1] = p
      BY <2>2 DEF Waiting
    <3>2. w = <<w[1], w[2]>> /\ w[2] \in 1..watchers[p]
      BY <2>1, <3>1
    <3> QED
      BY <3>1, <3>2 DEF WaitingFor
  <2>3. ASSUME NEW w \in WaitingFor(p) PROVE w \in Waiting /\ w[1] \in {p}
    BY <2>1, <2>3 DEF WaitingFor
  <2> QED
    BY <2>2, <2>3
<1> QED
  BY <1>1, WaitingFinite

-----------------------------------------------------------------------------
(* The jobs stay in order, and accounted for.                              *)

\* A function on 1..n is a sequence.
LEMMA ASequence ==
    ASSUME NEW S, NEW n \in Nat, NEW f \in [1..n -> S]
    PROVE  f \in Seq(S)
  BY SeqDef

\* The parts of an ordered sequence hold numbers of jobs.
LEMMA PartsTyped ==
    ASSUME NEW lo \in Nat, NEW hi \in 0..MaxJobs, MaxJobs \in Nat, NEW a \in Seq(Nat), NEW b \in Seq(Nat),
           Ordered(a \o b, lo, hi)
    PROVE  a \in Seq(1..MaxJobs) /\ b \in Seq(1..MaxJobs)
<1> DEFINE c == a \o b
<1>1. /\ Len(a) \in Nat /\ Len(b) \in Nat /\ c \in Seq(Nat) /\ Len(c) = Len(a) + Len(b)
      /\ \A i \in 1..(Len(a) + Len(b)) : c[i] = IF i <= Len(a) THEN a[i] ELSE b[i - Len(a)]
  BY ConcatProperties
<1>2. Ordered(c, lo, hi) /\ DOMAIN c = 1..(Len(a) + Len(b))
  BY <1>1
<1> HIDE DEF c
<1>3. \A i \in 1..(Len(a) + Len(b)) : c[i] \in 1..MaxJobs
  <2>1. \A i \in 1..(Len(a) + Len(b)) : c[i] \in Nat
    BY <1>1, <1>2
  <2>2. \A i \in 1..(Len(a) + Len(b)) : lo < c[i] /\ c[i] <= hi
    BY <1>2 DEF Ordered
  <2>3. \A n \in Nat : lo < n /\ n <= hi => n \in 1..MaxJobs
    OBVIOUS
  <2> QED
    BY <2>1, <2>2, <2>3
<1>4. a \in [1..Len(a) -> 1..MaxJobs]
  <2>1. \A i \in 1..Len(a) : i \in 1..(Len(a) + Len(b)) /\ i <= Len(a)
    BY <1>1
  <2>2. \A i \in 1..Len(a) : a[i] \in 1..MaxJobs
    BY <1>1, <1>3, <2>1
  <2>3. a \in [1..Len(a) -> Nat]
    BY LenProperties
  <2> QED
    BY <2>2, <2>3
<1>5. b \in [1..Len(b) -> 1..MaxJobs]
  <2> SUFFICES ASSUME NEW i \in 1..Len(b) PROVE b[i] \in 1..MaxJobs
    BY LenProperties
  <2>1. i + Len(a) \in 1..(Len(a) + Len(b)) /\ ~(i + Len(a) <= Len(a)) /\ (i + Len(a)) - Len(a) = i
    BY <1>1
  <2> QED
    BY <1>1, <1>3, <2>1
<1>6. a \in Seq(1..MaxJobs)
  BY <1>1, <1>4, ASequence
<1>7. b \in Seq(1..MaxJobs)
  BY <1>1, <1>5, ASequence
<1> QED
  BY <1>6, <1>7

\* What TypeOK says of the numbers.
LEMMA Numbers ==
    ASSUME CkInv
    PROVE  /\ MaxJobs \in Nat /\ MaxQueue \in Nat /\ made \in 0..MaxJobs /\ numbered \in 0..made
           /\ made \in Nat /\ numbered \in Nat /\ last \in Nat /\ last <= numbered
           /\ jobs \in Seq(Nat) /\ sink \in Seq(Nat) /\ jobs \o sink \in Seq(Nat)
           /\ cursor \in Nat /\ Len(adoptions) \in Nat /\ NewAdoptions \in Nat
           /\ Cardinality(Waiting) \in Nat /\ watchers \in [Promises -> 0..MaxJobs]
<1>1. /\ MaxJobs \in Nat /\ MaxQueue \in Nat /\ made \in 0..MaxJobs /\ numbered \in 0..made
      /\ last \in Nat /\ last <= numbered /\ watchers \in [Promises -> 0..MaxJobs]
      /\ jobs \in Seq(1..MaxJobs) /\ sink \in Seq(1..MaxJobs)
      /\ adoptions \in Seq(1..MaxJobs) /\ cursor \in 0..Len(adoptions)
  BY BoundsAssumption DEF CkInv, TypeOK, InOrder
<1>2. 1..MaxJobs \subseteq Nat
  BY <1>1
<1>3. jobs \in Seq(Nat) /\ sink \in Seq(Nat)
  BY <1>1, <1>2, SeqMonotonic
<1>4. jobs \o sink \in Seq(Nat)
  BY <1>3, ConcatProperties
<1>5. Len(adoptions) \in Nat
  BY <1>1
<1>6. cursor \in Nat /\ NewAdoptions \in Nat
  BY <1>1, <1>5 DEF NewAdoptions
<1>7. Cardinality(Waiting) \in Nat
  BY <1>1, WaitingFinite
<1> QED
  BY <1>1, <1>3, <1>4, <1>5, <1>6, <1>7

\* Nothing is queued, and no adoption is added.
LEMMA CountsKept ==
    ASSUME CkInv, UNCHANGED <<jobs, sink, made, numbered, watchers, last>>,
           NewAdoptions' \in Nat, NewAdoptions' <= NewAdoptions
    PROVE  InOrder' /\ Accounted'
<1>1. InOrder'
  BY DEF CkInv, InOrder
<1>2. Waiting' = Waiting
  BY DEF Waiting
<1>3. Accounted'
  BY <1>2, Numbers DEF CkInv, Accounted
<1> QED
  BY <1>1, <1>3

\* n new jobs enter the sink: a call of queueMicrotask, a then, a settlement.
LEMMA SinkGrows ==
    ASSUME CkInv, NEW n \in Nat
    PROVE  /\ sink \o NewJobs(n) \in Seq(Nat)
           /\ Ordered(jobs \o (sink \o NewJobs(n)), last, numbered + n)
           /\ Ordered((jobs \o sink) \o NewJobs(n), last, numbered + n)
<1>1. /\ numbered \in Nat /\ last \in Nat /\ last <= numbered
      /\ jobs \in Seq(Nat) /\ sink \in Seq(Nat) /\ jobs \o sink \in Seq(Nat)
  BY Numbers
<1>2. Ordered(NewJobs(n), numbered, numbered + n)
  BY <1>1, NewJobsOrdered
<1>3. Ordered((jobs \o sink) \o NewJobs(n), last, numbered + n)
  <2>1. Ordered(jobs \o sink, last, numbered)
    BY DEF CkInv, InOrder
  <2>2. numbered + n \in Nat /\ numbered <= numbered + n
    BY <1>1
  <2> QED
    BY <1>1, <1>2, <2>1, <2>2, OrderedConcat
<1>4. NewJobs(n) \in Seq(Nat)
  BY <1>2 DEF Ordered
<1>5. sink \o NewJobs(n) \in Seq(Nat) /\ (jobs \o sink) \o NewJobs(n) = jobs \o (sink \o NewJobs(n))
  BY <1>1, <1>4, ConcatProperties, ConcatAssociative, SMTT(30)
<1> QED
  BY <1>3, <1>5

\* One new job.
LEMMA SinkAppend ==
    ASSUME CkInv
    PROVE  Append(sink, numbered + 1) = sink \o NewJobs(1)
<1>1. numbered \in Nat /\ sink \in Seq(Nat)
  BY Numbers
<1>2. NewJobs(1) = <<numbered + 1>>
  <2>1. NewJobs(1) \in Seq(Nat) /\ Len(NewJobs(1)) = 1
    BY <1>1, NewJobsOrdered DEF Ordered
  <2>2. <<numbered + 1>> \in Seq(Nat) /\ Len(<<numbered + 1>>) = 1 /\ <<numbered + 1>>[1] = numbered + 1
    BY <1>1
  <2>3. NewJobs(1)[1] = numbered + 1
    BY DEF NewJobs
  <2>4. \A i \in 1..1 : NewJobs(1)[i] = <<numbered + 1>>[i]
    BY <2>2, <2>3
  <2> HIDE DEF NewJobs
  <2> QED
    BY <2>1, <2>2, <2>4, SeqEqual
<1>3. numbered + 1 \in Nat
  BY <1>1
<1> QED
  BY <1>1, <1>2, <1>3, AppendIsConcat

-----------------------------------------------------------------------------
(* The actions that touch the jobs.                                        *)

\* What an await in the queue is.
Entry == [task : started, on : Promises \cup {Ready}]

\* The queues of jobs hold numbers of jobs, because they are ordered.
LEMMA QueuesTyped ==
    ASSUME InOrder', numbered' \in 0..MaxJobs, MaxJobs \in Nat, jobs' \in Seq(Nat), sink' \in Seq(Nat)
    PROVE  jobs' \in Seq(1..MaxJobs) /\ sink' \in Seq(1..MaxJobs)
  BY PartsTyped DEF InOrder

\* The account, in numbers.
LEMMA Account ==
    ASSUME CkInv
    PROVE  /\ numbered + Cardinality(Waiting) + NewAdoptions <= made
           /\ numbered \in Nat /\ Cardinality(Waiting) \in Nat /\ NewAdoptions \in Nat
           /\ made \in Nat /\ MaxJobs \in Nat /\ made <= MaxJobs
<1>1. numbered + Cardinality(Waiting) + NewAdoptions <= made
  BY DEF CkInv, Accounted
<1>2. /\ numbered \in Nat /\ Cardinality(Waiting) \in Nat /\ NewAdoptions \in Nat
      /\ made \in Nat /\ MaxJobs \in Nat /\ made <= MaxJobs
  BY Numbers
<1> QED
  BY <1>1, <1>2

LEMMA InitOrdered ==
    ASSUME Init
    PROVE  CkInv
<1>1. MaxJobs \in Nat /\ MaxQueue \in Nat /\ Len(<<>>) = 0
  BY BoundsAssumption
<1>2. <<>> \in Seq(1..MaxJobs) /\ <<>> \in Seq(started) /\ <<>> \in Seq(Nat)
      /\ <<>> \in Seq([task : started, on : Promises \cup {Ready}])
  OBVIOUS
<1>3. TypeOK
  <2>1. /\ jobs \in Seq(1..MaxJobs) /\ sink \in Seq(1..MaxJobs)
        /\ awaits \in Seq([task : started, on : Promises \cup {Ready}])
        /\ completions \in Seq(started) /\ adoptions \in Seq(1..MaxJobs)
    BY <1>2 DEF Init
  <2>2. /\ made \in 0..MaxJobs /\ numbered \in 0..made /\ cursor \in 0..Len(adoptions)
        /\ drained \in 0..(2 * MaxQueue + 1) /\ attempts \in Nat
    BY <1>1 DEF Init
  <2>3. /\ settled \subseteq Promises /\ inner \in [Promises -> Promises \cup {Ready}]
        /\ watchers \in [Promises -> 0..MaxJobs]
    BY <1>1 DEF Init
  <2>4. /\ timedOut \in BOOLEAN /\ started \subseteq Tasks
        /\ pc \in {"idle", "script", "settle", "drain", "pass", "exit"}
        /\ (pc = "script" /\ caller = "resume") <=> (running # Ready)
        /\ progressed \in BOOLEAN
    BY DEF Init
  <2> QED
    BY <2>1, <2>2, <2>3, <2>4 DEF TypeOK
<1>4. jobs \o sink = <<>>
  <2>1. <<>> \o <<>> = <<>>
    BY <1>2, ConcatEmptySeq
  <2> QED
    BY <2>1 DEF Init
<1>5. InOrder
  BY <1>2, <1>4 DEF Init, InOrder, Ordered, Increasing
<1>6. Waiting = {}
  <2>1. \A w \in Promises \X (1..MaxJobs) : w[1] \in Promises /\ ~(w[2] <= 0)
    BY <1>1
  <2> QED
    BY <2>1 DEF Init, Waiting
<1>7. Accounted
  <2>1. Cardinality(Waiting) = 0
    BY <1>6, FS_EmptySet
  <2> QED
    BY <1>1, <2>1 DEF Init, Accounted, NewAdoptions
<1> QED
  BY <1>3, <1>5, <1>7 DEF Init, CkInv, DrainLocals, InDrain, RunningCalled

LEMMA OrderedMakeJob ==
    ASSUME CkInv, MakeJob
    PROVE  CkInv'
<1>1. /\ made < MaxJobs /\ made' = made + 1 /\ numbered' = numbered + 1
      /\ sink' = sink \o NewJobs(1)
      /\ UNCHANGED <<jobs, settled, inner, watchers, awaits, completions, adoptions, cursor, timedOut,
                     started, pc, caller, running, drained, progressed, attempts, last>>
  BY SinkAppend DEF MakeJob, InScript, promises, interp, locals
<1>2. sink' \in Seq(Nat) /\ Ordered(jobs' \o sink', last', numbered')
  BY <1>1, SinkGrows
<1>3. InOrder'
  BY <1>1, <1>2, Numbers, SMTT(30) DEF InOrder
<1>4. Waiting' = Waiting /\ NewAdoptions' = NewAdoptions
  BY <1>1 DEF Waiting, NewAdoptions
<1>5. Accounted'
  BY <1>1, <1>4, Account, SMTT(30) DEF Accounted
<1>6. made' \in 0..MaxJobs /\ numbered' \in 0..made' /\ numbered' \in 0..MaxJobs
  BY <1>1, Numbers, SMTT(30)
<1>7. jobs' \in Seq(1..MaxJobs) /\ sink' \in Seq(1..MaxJobs)
  BY <1>1, <1>2, <1>3, <1>6, Numbers, QueuesTyped
<1>8. TypeOK'
  BY <1>1, <1>6, <1>7 DEF CkInv, TypeOK
<1> QED
  BY <1>1, <1>3, <1>5, <1>8 DEF CkInv, DrainLocals, InDrain, RunningCalled

LEMMA OrderedWatch ==
    ASSUME CkInv, NEW p \in Promises, Watch(p)
    PROVE  CkInv'
<1>1. /\ made < MaxJobs /\ made' = made + 1 /\ watchers' = [watchers EXCEPT ![p] = @ + 1]
      /\ UNCHANGED <<jobs, sink, numbered, settled, inner, awaits, completions, adoptions, cursor,
                     timedOut, started, pc, caller, running, drained, progressed, attempts, last>>
  BY DEF Watch, InScript, interp, locals
<1>2. watchers[p] \in Nat /\ watchers[p] <= Cardinality(Waiting)
  BY Numbers, WaitingFinite
<1>3. watchers[p] < MaxJobs
  BY <1>1, <1>2, Account
<1>4. /\ watchers' \in [Promises -> 0..MaxJobs]
      /\ Cardinality(Waiting') \in Nat /\ Cardinality(Waiting') <= Cardinality(Waiting) + 1
  BY <1>1, <1>3, Numbers, OneMoreWaits
<1>5. NewAdoptions' = NewAdoptions
  BY <1>1 DEF NewAdoptions
<1>6. Accounted'
  BY <1>1, <1>4, <1>5, Account DEF Accounted
<1>7. InOrder'
  BY <1>1 DEF CkInv, InOrder
<1>8. made' \in 0..MaxJobs /\ numbered' \in 0..made'
  BY <1>1, Numbers
<1>9. TypeOK'
  BY <1>1, <1>4, <1>8 DEF CkInv, TypeOK
<1> QED
  BY <1>1, <1>6, <1>7, <1>9 DEF CkInv, DrainLocals, InDrain, RunningCalled

LEMMA OrderedSettle ==
    ASSUME CkInv, NEW p \in Others, NEW q \in Promises \cup {Ready}, Settle(p, q)
    PROVE  CkInv'
<1> DEFINE n == watchers[p]
           gone == {w \in Waiting : w[1] \in {p}}
<1>1. /\ settled' = settled \cup {p} /\ inner' = [inner EXCEPT ![p] = q]
      /\ sink' = sink \o NewJobs(n) /\ numbered' = numbered + n
      /\ watchers' = [watchers EXCEPT ![p] = 0]
      /\ UNCHANGED <<jobs, made, awaits, completions, adoptions, cursor, timedOut, started, pc, caller,
                     running, drained, progressed, attempts, last>>
  BY DEF Settle, InScript, interp, locals
<1>2. p \in Promises /\ n \in Nat
  BY Numbers, WaitingFinite DEF Promises
<1>3. watchers' = [r \in Promises |-> IF r \in {p} THEN 0 ELSE watchers[r]]
  BY <1>1, <1>2, Numbers
<1>4. /\ watchers' \in [Promises -> 0..MaxJobs] /\ Cardinality(gone) \in Nat
      /\ Cardinality(Waiting') \in Nat /\ Cardinality(Waiting') = Cardinality(Waiting) - Cardinality(gone)
  BY <1>3, Numbers, WaitNoMore
<1>5. Cardinality(gone) = n
  BY <1>2, Numbers, GoneOfOne
<1> HIDE DEF n, gone
<1>6. NewAdoptions' = NewAdoptions
  BY <1>1 DEF NewAdoptions
<1>7. Accounted'
  BY <1>1, <1>2, <1>4, <1>5, <1>6, Account DEF Accounted
<1>8. sink' \in Seq(Nat) /\ Ordered(jobs' \o sink', last', numbered')
  BY <1>1, <1>2, SinkGrows
<1>9. last' \in Nat /\ last' <= numbered' /\ numbered' \in Nat
  BY <1>1, <1>2, Numbers, SMTT(30)
<1>10. InOrder'
  BY <1>8, <1>9 DEF InOrder
<1>11. numbered' \in 0..made' /\ numbered' \in 0..MaxJobs
  <2>1. numbered' + Cardinality(Waiting') + NewAdoptions' <= made'
    BY <1>7 DEF Accounted
  <2>2. /\ numbered' \in Nat /\ Cardinality(Waiting') \in Nat /\ NewAdoptions' \in Nat
        /\ made' \in Nat /\ MaxJobs \in Nat /\ made' <= MaxJobs
    BY <1>1, <1>4, <1>6, <1>9, Account
  <2>3. \A a, b, c, m, k \in Nat : a + b + c <= m /\ m <= k => a \in 0..m /\ a \in 0..k
    OBVIOUS
  <2> QED
    BY <2>1, <2>2, <2>3
<1>12. jobs' \in Seq(1..MaxJobs) /\ sink' \in Seq(1..MaxJobs)
  BY <1>1, <1>8, <1>10, <1>11, Numbers, QueuesTyped
<1>13. inner' \in [Promises -> Promises \cup {Ready}] /\ settled' \subseteq Promises
  BY <1>1, <1>2 DEF CkInv, TypeOK
<1>14. TypeOK'
  BY <1>1, <1>4, <1>11, <1>12, <1>13 DEF CkInv, TypeOK
<1> QED
  BY <1>1, <1>7, <1>10, <1>14 DEF CkInv, DrainLocals, InDrain, RunningCalled

LEMMA OrderedRequestAdoption ==
    ASSUME CkInv, RequestAdoption
    PROVE  CkInv'
<1>1. /\ made < MaxJobs /\ made' = made + 1 /\ adoptions' = Append(adoptions, made + 1)
      /\ UNCHANGED <<jobs, sink, numbered, settled, inner, watchers, awaits, completions, cursor,
                     timedOut, started, pc, caller, running, drained, progressed, attempts, last>>
  BY DEF RequestAdoption, InScript, promises, locals
<1>2. made + 1 \in 1..MaxJobs /\ made' \in 0..MaxJobs /\ numbered' \in 0..made'
  BY <1>1, Numbers
<1>3. adoptions' \in Seq(1..MaxJobs) /\ Len(adoptions') = Len(adoptions) + 1
  BY <1>1, <1>2, AppendProperties DEF CkInv, TypeOK
<1>4. cursor' \in 0..Len(adoptions') /\ NewAdoptions' = NewAdoptions + 1
  <2>1. cursor \in 0..Len(adoptions) /\ Len(adoptions) \in Nat
    BY Numbers DEF CkInv, TypeOK
  <2> QED
    BY <1>1, <1>3, <2>1 DEF NewAdoptions
<1>5. Waiting' = Waiting
  BY <1>1 DEF Waiting
<1>6. Accounted'
  BY <1>1, <1>4, <1>5, Account DEF Accounted
<1>7. InOrder'
  BY <1>1 DEF CkInv, InOrder
<1>8. TypeOK'
  BY <1>1, <1>2, <1>3, <1>4 DEF CkInv, TypeOK
<1> QED
  BY <1>1, <1>6, <1>7, <1>8 DEF CkInv, DrainLocals, InDrain, RunningCalled

\* The sink moves into the queue, as far as there is room.
LEMMA OrderedRunJobs ==
    ASSUME CkInv, RunJobs
    PROVE  CkInv'
<1>1. /\ pc = "idle" /\ jobs' = Enqueued(jobs, sink) /\ sink' = <<>> /\ pc' = "settle"
      /\ UNCHANGED <<made, numbered, settled, inner, watchers, awaits, completions, adoptions, cursor,
                     timedOut, started, caller, running, drained, progressed, attempts, last>>
  BY DEF RunJobs, promises, interp
<1>2. Ordered(jobs', last, numbered)
  BY <1>1, Numbers, OrderedEnqueued DEF CkInv, InOrder
<1>3. jobs' \in Seq(Nat) /\ sink' \in Seq(Nat)
  BY <1>1, <1>2 DEF Ordered
<1>4. jobs' \o sink' = jobs'
  BY <1>1, <1>3, ConcatEmptySeq
<1>5. InOrder'
  BY <1>1, <1>2, <1>4, Numbers DEF InOrder
<1>6. Waiting' = Waiting /\ NewAdoptions' = NewAdoptions
  BY <1>1 DEF Waiting, NewAdoptions
<1>7. Accounted'
  BY <1>1, <1>6 DEF CkInv, Accounted
<1>8. numbered' \in 0..MaxJobs
  BY <1>1, Numbers
<1>9. jobs' \in Seq(1..MaxJobs) /\ sink' \in Seq(1..MaxJobs)
  BY <1>3, <1>5, <1>8, Numbers, QueuesTyped
<1>10. TypeOK'
  BY <1>1, <1>9 DEF CkInv, TypeOK
<1> QED
  BY <1>1, <1>5, <1>7, <1>10 DEF CkInv, DrainLocals, InDrain, RunningCalled

\* The head of the checkpoint's loop: the callbacks of every completion get their
\* jobs, and all that waits in the sink moves into the queue.
LEMMA OrderedSettleCompletions ==
    ASSUME CkInv, SettleCompletions
    PROVE  CkInv'
<1> DEFINE C == {completions[k] : k \in DOMAIN completions} \ settled
           gone == {w \in Waiting : w[1] \in C}
           n == CompletionJobs
           ready == sink \o NewJobs(n)
<1>1. /\ pc = "settle" /\ settled' = settled \cup C
      /\ watchers' = [p \in Promises |-> IF p \in C THEN 0 ELSE watchers[p]]
      /\ completions' = <<>> /\ numbered' = numbered + n /\ jobs' = Enqueued(jobs, ready) /\ sink' = <<>>
      /\ progressed' \in BOOLEAN /\ pc' = "drain" /\ drained' = 0 /\ cursor' = 0
      /\ UNCHANGED <<made, inner, awaits, adoptions, timedOut, started, caller, running, attempts, last>>
  BY DEF SettleCompletions
<1>2. C \subseteq Promises
  <2>1. completions \in Seq(started) /\ started \subseteq Tasks
    BY DEF CkInv, TypeOK
  <2>2. \A k \in DOMAIN completions : completions[k] \in started
    BY <2>1
  <2> QED
    BY <2>1, <2>2 DEF Promises
<1>3. gone = {w \in Waiting : /\ \E k \in DOMAIN completions : completions[k] = w[1]
                              /\ w[1] \notin settled}
  OBVIOUS
<1>4. n = Cardinality(gone)
  BY <1>3 DEF CompletionJobs
<1> HIDE DEF C
<1>5. /\ watchers' \in [Promises -> 0..MaxJobs] /\ Cardinality(gone) \in Nat
      /\ Cardinality(Waiting') \in Nat /\ Cardinality(Waiting') = Cardinality(Waiting) - Cardinality(gone)
  BY <1>1, Numbers, WaitNoMore
<1> HIDE DEF n, gone
<1>6. n \in Nat /\ numbered + n \in Nat
  BY <1>4, <1>5, Numbers
<1>7. ready \in Seq(Nat) /\ Ordered(jobs \o ready, last, numbered + n)
  BY <1>6, SinkGrows
<1> HIDE DEF ready
<1>8. Ordered(jobs', last', numbered')
  <2>1. Ordered(Enqueued(jobs, ready), last, numbered + n)
    BY <1>6, <1>7, Numbers, OrderedEnqueued
  <2> QED
    BY <1>1, <2>1
<1>9. jobs' \in Seq(Nat) /\ sink' \in Seq(Nat)
  BY <1>1, <1>8 DEF Ordered
<1>10. jobs' \o sink' = jobs'
  BY <1>1, <1>9, ConcatEmptySeq
<1>11. last' \in Nat /\ last' <= numbered' /\ numbered' \in Nat
  BY <1>1, <1>6, Numbers
<1>12. InOrder'
  BY <1>8, <1>10, <1>11 DEF InOrder
<1>13. NewAdoptions' = NewAdoptions /\ cursor' = cursor
  <2>1. cursor = 0
    BY <1>1 DEF CkInv, DrainLocals, InDrain
  <2> QED
    BY <1>1, <2>1 DEF NewAdoptions
<1>14. numbered' + Cardinality(Waiting') + NewAdoptions' <= made'
  BY <1>1, <1>4, <1>5, <1>6, <1>13, Account
<1>15. numbered' \in 0..made' /\ numbered' \in 0..MaxJobs
  <2>1. /\ Cardinality(Waiting') \in Nat /\ NewAdoptions' \in Nat
        /\ made' \in Nat /\ MaxJobs \in Nat /\ made' <= MaxJobs
    BY <1>1, <1>5, <1>13, Account
  <2>2. \A a, b, c, m, k \in Nat : a + b + c <= m /\ m <= k => a \in 0..m /\ a \in 0..k
    OBVIOUS
  <2> QED
    BY <1>11, <1>14, <2>1, <2>2
<1>16. jobs' \in Seq(1..MaxJobs) /\ sink' \in Seq(1..MaxJobs)
  BY <1>9, <1>12, <1>15, Numbers, QueuesTyped
<1>17. completions' \in Seq(started') /\ drained' \in 0..(2 * MaxQueue + 1) /\ drained' <= 2 * MaxQueue
  BY <1>1, Numbers
<1>18. /\ settled' \subseteq Promises
       /\ (pc' = "script" /\ caller' = "resume") <=> (running' # Ready)
  BY <1>1, <1>2 DEF CkInv, TypeOK
<1>19. TypeOK'
  <2>1. cursor' \in 0..Len(adoptions')
    BY <1>1, <1>13 DEF CkInv, TypeOK
  <2> QED
    BY <1>1, <1>5, <1>15, <1>16, <1>17, <1>18, <2>1 DEF CkInv, TypeOK
<1> QED
  BY <1>1, <1>12, <1>14, <1>17, <1>19 DEF CkInv, Accounted, DrainLocals, InDrain, RunningCalled

\* The oldest job of the refilled queue runs.
LEMMA OrderedDrainJob ==
    ASSUME CkInv, DrainJob
    PROVE  CkInv'
<1> DEFINE n == NewAdoptions
           queue == (jobs \o sink) \o NewJobs(n)
<1>1. /\ pc = "drain" /\ queue # <<>> /\ jobs' = Tail(queue) /\ sink' = <<>>
      /\ numbered' = numbered + n /\ cursor' = Len(adoptions) /\ last' = Head(queue)
      /\ pc' = "script" /\ caller' = "job"
      /\ UNCHANGED <<made, settled, inner, watchers, awaits, completions, adoptions, timedOut, started,
                     running, drained, progressed, attempts>>
  BY DEF DrainJob, Refilled, promises
<1>2. n \in Nat /\ numbered + n \in Nat
  BY Numbers
<1>3. Ordered(queue, last, numbered + n)
  BY <1>2, SinkGrows
<1>4. adoptions \in Seq(1..MaxJobs) /\ Len(adoptions) \in Nat
  BY Numbers DEF CkInv, TypeOK
<1>5. NewAdoptions' = 0 /\ cursor' \in 0..Len(adoptions')
  BY <1>1, <1>4 DEF NewAdoptions
<1> HIDE DEF n, queue
<1>6. /\ Head(queue) \in Nat /\ Head(queue) <= numbered + n
      /\ Ordered(Tail(queue), Head(queue), numbered + n)
  BY <1>1, <1>2, <1>3, Numbers, OrderedTail
<1>7. jobs' \in Seq(Nat) /\ sink' \in Seq(Nat)
  BY <1>1, <1>6 DEF Ordered
<1>8. jobs' \o sink' = jobs'
  BY <1>1, <1>7, ConcatEmptySeq
<1>9. InOrder'
  BY <1>1, <1>6, <1>8 DEF InOrder
<1>10. Waiting' = Waiting
  BY <1>1 DEF Waiting
<1>11. numbered' + Cardinality(Waiting') + NewAdoptions' <= made' /\ numbered' \in 0..made' /\ numbered' \in 0..MaxJobs
  <2>1. n = NewAdoptions
    BY DEF n
  <2> QED
    BY <1>1, <1>5, <1>10, <2>1, Account
<1>12. jobs' \in Seq(1..MaxJobs) /\ sink' \in Seq(1..MaxJobs)
  BY <1>7, <1>9, <1>11, Numbers, QueuesTyped
<1>13. (pc' = "script" /\ caller' = "resume") <=> (running' # Ready)
  BY <1>1 DEF CkInv, TypeOK
<1>14. TypeOK'
  BY <1>1, <1>5, <1>11, <1>12, <1>13 DEF CkInv, TypeOK
<1> QED
  BY <1>1, <1>9, <1>11, <1>14 DEF CkInv, Accounted, DrainLocals, InDrain, RunningCalled

-----------------------------------------------------------------------------
(* The actions that leave the jobs where they are.                         *)

\* An await is a task that was called, and what it waits for.
LEMMA AwaitsTyped ==
    ASSUME CkInv
    PROVE  /\ awaits \in Seq(Entry) /\ completions \in Seq(started) /\ started \subseteq Tasks
           /\ Ready \notin Promises /\ Ready \notin started /\ Tasks \subseteq Promises
           /\ awaits # <<>> =>
                 /\ Parked \in Entry /\ Parked.task \in started /\ Parked.on \in Promises \cup {Ready}
                 /\ Tail(awaits) \in Seq(Entry)
<1>1. awaits \in Seq(Entry) /\ completions \in Seq(started) /\ started \subseteq Tasks
  BY DEF CkInv, TypeOK, Entry
<1>2. Ready \notin Promises /\ Ready \notin Tasks /\ Tasks \subseteq Promises
  BY NamesAssumption DEF Promises
<1>3. ASSUME awaits # <<>>
      PROVE  Parked \in Entry /\ Tail(awaits) \in Seq(Entry)
  BY <1>1, <1>3, HeadTailProperties DEF Parked
<1>4. Parked \in Entry => Parked.task \in started /\ Parked.on \in Promises \cup {Ready}
  BY DEF Entry
<1> QED
  BY <1>1, <1>2, <1>3, <1>4

LEMMA OrderedCallAsync ==
    ASSUME CkInv, NEW t \in Tasks, CallAsync(t)
    PROVE  CkInv'
<1> DEFINE e == [task |-> t, on |-> Ready]
<1>1. /\ started' = started \cup {t} /\ awaits' = Append(awaits, e)
      /\ UNCHANGED <<jobs, sink, made, numbered, settled, inner, watchers, completions, adoptions, cursor,
                     timedOut, pc, caller, running, drained, progressed, attempts, last>>
  BY DEF CallAsync, InScript, queues, promises, locals
<1>2. started \subseteq started' /\ started' \subseteq Tasks
  BY <1>1, AwaitsTyped
<1>3. Entry \subseteq Entry' /\ e \in Entry'
  BY <1>1, <1>2 DEF Entry
<1>4. awaits \in Seq(Entry') /\ completions \in Seq(started')
  BY <1>2, <1>3, AwaitsTyped, SeqMonotonic
<1>5. awaits' \in Seq(Entry')
  BY <1>1, <1>3, <1>4, AppendProperties
<1>6. NewAdoptions' = NewAdoptions
  BY <1>1 DEF NewAdoptions
<1>7. InOrder' /\ Accounted'
  BY <1>1, <1>6, Account, CountsKept
<1>8. TypeOK'
  <2> HIDE DEF e
  <2> QED
    BY <1>1, <1>2, <1>4, <1>5 DEF CkInv, TypeOK, Entry
<1> QED
  BY <1>1, <1>7, <1>8 DEF CkInv, DrainLocals, InDrain, RunningCalled

LEMMA OrderedRotation ==
    ASSUME CkInv, AwaitSkip \/ AwaitAdopt \/ AwaitRun
    PROVE  CkInv'
<1>1. /\ pc = "pass" /\ attempts > 0 /\ attempts' = attempts - 1 /\ awaits # <<>>
      /\ UNCHANGED <<jobs, sink, made, numbered, settled, inner, watchers, completions, adoptions, cursor,
                     timedOut, started, drained, progressed, last>>
  BY DEF AwaitSkip, AwaitAdopt, AwaitRun, Attempt, queues, promises
<1>2. /\ Parked \in Entry /\ Parked.task \in started /\ Parked.task # Ready /\ Tail(awaits) \in Seq(Entry)
  BY <1>1, AwaitsTyped
<1>3. awaits' \in Seq(Entry')
  <2>1. Entry' = Entry
    BY <1>1 DEF Entry
  <2>2. CASE AwaitSkip
    <3>1. awaits' = Append(Tail(awaits), Parked)
      BY <2>2 DEF AwaitSkip
    <3> QED
      BY <1>2, <2>1, <3>1, AppendProperties
  <2>3. CASE AwaitAdopt
    <3>1. Parked.on \in Promises /\ inner[Parked.on] \in Promises \cup {Ready}
      BY <2>3 DEF AwaitAdopt, CkInv, TypeOK
    <3>2. \A e \in Entry : \A x \in Promises \cup {Ready} : [e EXCEPT !.on = x] \in Entry
      BY DEF Entry
    <3>3. [Parked EXCEPT !.on = inner[Parked.on]] \in Entry
      BY <1>2, <3>1, <3>2
    <3>4. awaits' = Append(Tail(awaits), [Parked EXCEPT !.on = inner[Parked.on]])
      BY <2>3 DEF AwaitAdopt
    <3> QED
      BY <1>2, <2>1, <3>3, <3>4, AppendProperties
  <2>4. CASE AwaitRun
    <3>1. awaits' = Tail(awaits)
      BY <2>4 DEF AwaitRun
    <3> QED
      BY <1>2, <2>1, <3>1
  <2> QED
    BY <2>2, <2>3, <2>4
<1>4. attempts' \in Nat
  BY <1>1 DEF CkInv, TypeOK
<1>5. /\ pc' \in {"script", "pass"} /\ ~(pc' = "script" /\ caller' = "job")
      /\ (pc' = "script" /\ caller' = "resume") <=> (running' # Ready)
      /\ running' \in started' \cup {Ready}
  <2>1. running = Ready
    BY <1>1 DEF CkInv, TypeOK
  <2>2. CASE AwaitSkip \/ AwaitAdopt
    BY <1>1, <2>1, <2>2 DEF AwaitSkip, AwaitAdopt
  <2>3. CASE AwaitRun
    BY <1>2, <2>3 DEF AwaitRun
  <2> QED
    BY <2>2, <2>3
<1>6. NewAdoptions' = NewAdoptions
  BY <1>1 DEF NewAdoptions
<1>7. InOrder' /\ Accounted'
  BY <1>1, <1>6, Account, CountsKept
<1>8. TypeOK'
  <2>1. awaits' \in Seq([task : started', on : Promises \cup {Ready}])
    BY <1>3 DEF Entry
  <2> QED
    BY <1>1, <1>4, <1>5, <2>1 DEF CkInv, TypeOK
<1>9. cursor' = 0 /\ ~InDrain'
  <2>1. cursor = 0
    BY <1>1 DEF CkInv, DrainLocals, InDrain
  <2>2. pc' # "drain"
    BY <1>5
  <2> QED
    BY <1>1, <1>5, <2>1, <2>2 DEF InDrain
<1> QED
  BY <1>5, <1>7, <1>8, <1>9 DEF CkInv, DrainLocals, RunningCalled

LEMMA OrderedBody ==
    ASSUME CkInv, BodyCompletes \/ \E p \in Promises \cup {Ready} : BodyAwaits(p)
    PROVE  CkInv'
<1>1. /\ pc = "script" /\ caller = "resume" /\ pc' = "pass" /\ running' = Ready
      /\ progressed' = CountsResume
      /\ UNCHANGED <<jobs, sink, made, numbered, settled, inner, watchers, adoptions, cursor, timedOut,
                     started, caller, drained, attempts, last>>
  BY DEF BodyCompletes, BodyAwaits, queues, promises
<1>2. running \in started /\ cursor = 0
  BY <1>1 DEF CkInv, TypeOK, RunningCalled, DrainLocals, InDrain
<1>3. awaits' \in Seq(Entry) /\ completions' \in Seq(started)
  <2>1. CASE BodyCompletes
    <3>1. awaits' = awaits /\ completions' = Append(completions, running)
      BY <2>1 DEF BodyCompletes
    <3> QED
      BY <1>2, <3>1, AwaitsTyped, AppendProperties
  <2>2. CASE \E p \in Promises \cup {Ready} : BodyAwaits(p)
    <3>1. PICK p \in Promises \cup {Ready} : BodyAwaits(p)
      BY <2>2
    <3> DEFINE e == [task |-> running, on |-> IF IsSettled(p) THEN Ready ELSE p]
    <3>2. awaits' = Append(awaits, e) /\ completions' = completions
      BY <3>1 DEF BodyAwaits
    <3>3. e \in Entry
      BY <1>2 DEF Entry
    <3> HIDE DEF e
    <3> QED
      BY <3>2, <3>3, AwaitsTyped, AppendProperties
  <2> QED
    BY <2>1, <2>2
<1>4. NewAdoptions' = NewAdoptions
  BY <1>1 DEF NewAdoptions
<1>5. InOrder' /\ Accounted'
  BY <1>1, <1>4, Account, CountsKept
<1>6. TypeOK'
  <2>1. progressed' \in BOOLEAN
    BY <1>1 DEF CkInv, TypeOK, CountsResume
  <2> QED
    BY <1>1, <1>3, <2>1 DEF CkInv, TypeOK, Entry
<1> QED
  BY <1>1, <1>2, <1>5, <1>6 DEF CkInv, DrainLocals, InDrain, RunningCalled

\* The end of the drain, and of one job of it.
LEMMA OrderedDrainEnds ==
    ASSUME CkInv, DrainEmpty \/ JobReturns
    PROVE  CkInv'
<1>1. /\ InDrain /\ running = Ready /\ running' = Ready /\ caller' = caller
      /\ UNCHANGED <<jobs, sink, made, numbered, settled, inner, watchers, awaits, completions, timedOut,
                     started, progressed, last>>
      /\ \/ pc' = "pass" /\ adoptions' = <<>> /\ cursor' = 0 /\ attempts' = Len(awaits)
         \/ pc' = "drain" /\ UNCHANGED <<adoptions, cursor, attempts>> /\ drained' <= 2 * MaxQueue
      /\ drained' = drained \/ drained' = drained + 1
  <2>1. running = Ready
    BY DEF DrainEmpty, JobReturns, CkInv, TypeOK
  <2>2. CASE DrainEmpty
    BY <2>1, <2>2 DEF DrainEmpty, LeaveDrain, queues, promises, InDrain
  <2>3. CASE JobReturns
    <3>1. drained + 1 \in Nat /\ 2 * MaxQueue \in Nat
      BY Numbers, SMTT(30) DEF CkInv, TypeOK
    <3> QED
      BY <2>1, <2>3, <3>1 DEF JobReturns, LeaveDrain, queues, promises, InDrain
  <2> QED
    BY <2>2, <2>3
<1>2. drained \in Nat /\ drained <= 2 * MaxQueue /\ MaxQueue \in Nat
  BY <1>1, Numbers DEF CkInv, TypeOK, DrainLocals
<1>3. drained' \in 0..(2 * MaxQueue + 1)
  BY <1>1, <1>2
<1>4. /\ adoptions' \in Seq(1..MaxJobs) /\ cursor' \in 0..Len(adoptions') /\ attempts' \in Nat
      /\ NewAdoptions' \in Nat /\ NewAdoptions' <= NewAdoptions
  <2>1. /\ adoptions \in Seq(1..MaxJobs) /\ cursor \in 0..Len(adoptions) /\ attempts \in Nat
        /\ Len(awaits) \in Nat /\ NewAdoptions \in Nat
    BY Numbers DEF CkInv, TypeOK
  <2>2. <<>> \in Seq(1..MaxJobs) /\ Len(<<>>) = 0
    OBVIOUS
  <2>3. CASE adoptions' = <<>> /\ cursor' = 0 /\ attempts' = Len(awaits)
    BY <2>1, <2>2, <2>3 DEF NewAdoptions
  <2>4. CASE UNCHANGED <<adoptions, cursor, attempts>>
    BY <2>1, <2>4 DEF NewAdoptions
  <2> QED
    BY <1>1, <2>3, <2>4
<1>5. InOrder' /\ Accounted'
  BY <1>1, <1>4, CountsKept
<1>6. TypeOK'
  BY <1>1, <1>3, <1>4 DEF CkInv, TypeOK
<1>7. DrainLocals'
  BY <1>1 DEF DrainLocals, InDrain
<1> QED
  BY <1>1, <1>5, <1>6, <1>7 DEF CkInv, RunningCalled

\* An evaluation ends, and what its interpreter held is gone.
LEMMA OrderedDropInterp ==
    ASSUME CkInv, DropInterp
    PROVE  CkInv'
<1>1. /\ pc = "exit" /\ awaits' = <<>> /\ completions' = <<>> /\ adoptions' = <<>> /\ cursor' = 0
      /\ timedOut' = FALSE /\ pc' = "idle" /\ drained' = 0 /\ progressed' = FALSE
      /\ UNCHANGED <<jobs, sink, made, numbered, settled, inner, watchers, started, caller, running,
                     attempts, last>>
  BY DEF DropInterp, queues, promises
<1>2. <<>> \in Seq(Entry) /\ <<>> \in Seq(started) /\ <<>> \in Seq(1..MaxJobs) /\ Len(<<>>) = 0
  OBVIOUS
<1>3. cursor' \in 0..Len(adoptions') /\ drained' \in 0..(2 * MaxQueue + 1) /\ NewAdoptions' = 0
  BY <1>1, <1>2, Numbers DEF NewAdoptions
<1>4. NewAdoptions' \in Nat /\ NewAdoptions' <= NewAdoptions
  BY <1>3, Numbers
<1>5. InOrder' /\ Accounted'
  BY <1>1, <1>4, CountsKept
<1>6. TypeOK'
  BY <1>1, <1>2, <1>3 DEF CkInv, TypeOK, Entry
<1> QED
  BY <1>1, <1>5, <1>6 DEF CkInv, DrainLocals, InDrain, RunningCalled

\* The steps that only move control on.
LEMMA OrderedControl ==
    ASSUME CkInv, Eval \/ TimeOut \/ MainReturns \/ AttemptNothing \/ Decide
    PROVE  CkInv'
<1>1. /\ UNCHANGED <<jobs, sink, made, numbered, settled, inner, watchers, awaits, completions, adoptions,
                     cursor, started, running, drained, progressed, last>>
      /\ timedOut' = timedOut \/ timedOut' = TRUE
      /\ attempts' = attempts \/ (attempts > 0 /\ attempts' = attempts - 1)
      /\ \/ UNCHANGED <<pc, caller>>
         \/ pc = "idle" /\ pc' = "script" /\ caller' = "main"
         \/ pc = "script" /\ caller = "main" /\ pc' = "settle" /\ caller' = caller
         \/ pc = "pass" /\ pc' \in {"exit", "settle"} /\ caller' = caller
  BY DEF Eval, TimeOut, MainReturns, AttemptNothing, Attempt, Decide, queues, promises, interp, locals
<1>2. NewAdoptions' = NewAdoptions
  BY <1>1 DEF NewAdoptions
<1>3. InOrder' /\ Accounted'
  BY <1>1, <1>2, Account, CountsKept
<1>4. /\ attempts' \in Nat /\ timedOut' \in BOOLEAN
      /\ pc' \in {"idle", "script", "settle", "drain", "pass", "exit"}
      /\ (pc' = "script" /\ caller' = "resume") <=> (running' # Ready)
      /\ (InDrain' <=> InDrain)
  <2>1. attempts \in Nat /\ timedOut \in BOOLEAN
    BY DEF CkInv, TypeOK
  <2>2. attempts' \in Nat /\ timedOut' \in BOOLEAN
    <3>1. attempts' = attempts \/ (attempts > 0 /\ attempts' = attempts - 1)
      BY <1>1
    <3>2. timedOut' = timedOut \/ timedOut' = TRUE
      BY <1>1
    <3>3. attempts' \in Nat
      BY <2>1, <3>1
    <3>4. timedOut' \in BOOLEAN
      BY <2>1, <3>2, Zenon
    <3> QED
      BY <3>3, <3>4
  <2>3. /\ pc \in {"idle", "script", "settle", "drain", "pass", "exit"}
        /\ (pc = "script" /\ caller = "resume") <=> (running # Ready)
    BY DEF CkInv, TypeOK
  <2>4. /\ pc' \in {"idle", "script", "settle", "drain", "pass", "exit"}
        /\ (pc' = "script" /\ caller' = "resume") <=> (running' # Ready)
    BY <1>1, <2>3
  <2>5. InDrain' <=> InDrain
    BY <1>1 DEF InDrain
  <2> QED
    BY <2>2, <2>4, <2>5
<1>5. TypeOK'
  BY <1>1, <1>4 DEF CkInv, TypeOK
<1> QED
  BY <1>1, <1>3, <1>4, <1>5 DEF CkInv, DrainLocals, RunningCalled

\* Every step.
LEMMA OrderedStep ==
    ASSUME CkInv, [Next]_vars
    PROVE  CkInv'
<1>1. CASE UNCHANGED vars
  <2>1. /\ TypeOK' = TypeOK /\ InOrder' = InOrder /\ Accounted' = Accounted
        /\ DrainLocals' = DrainLocals /\ RunningCalled' = RunningCalled
    BY <1>1 DEF vars, queues, promises, interp, locals, TypeOK, InOrder, Accounted, Waiting, NewAdoptions,
                DrainLocals, InDrain, RunningCalled
  <2> QED
    BY <2>1 DEF CkInv
<1>2. CASE Script
  BY <1>2, OrderedMakeJob, OrderedRequestAdoption, OrderedControl, OrderedWatch, OrderedSettle, OrderedCallAsync
     DEF Script
<1>3. CASE ScriptReturns
  BY <1>3, OrderedControl, OrderedDrainEnds, OrderedBody DEF ScriptReturns
<1>4. CASE Loop
  BY <1>4, OrderedSettleCompletions, OrderedDrainJob, OrderedDrainEnds, OrderedControl, OrderedRotation,
     OrderedDropInterp DEF Loop
<1>5. CASE Eval \/ RunJobs
  BY <1>5, OrderedControl, OrderedRunJobs
<1> QED
  BY <1>1, <1>2, <1>3, <1>4, <1>5 DEF Next

\* The queues hold what the code puts there, the numbers stay in their bounds, and
\* a body is being run exactly when a resume called it (job_queue.rs, eval.rs).
THEOREM TypeCorrect == Spec => []TypeOK
<1>1. Init => CkInv
  BY InitOrdered
<1>2. CkInv /\ [Next]_vars => CkInv'
  BY OrderedStep
<1>3. CkInv => TypeOK
  BY DEF CkInv
<1> QED
  BY <1>1, <1>2, <1>3, PTL DEF Spec

\* drain_checkpoint and JobQueue::drain run the microtasks in the order in which
\* script made them, across settlements, adoptions, resumed bodies, evaluations that
\* were cut off, and a cap of the queue that drops the newest.
THEOREM FirstMadeFirstRun == Spec => []JobsRunInOrder
<1>1. CkInv => JobsRunInOrder
  <2> SUFFICES ASSUME CkInv PROVE JobsRunInOrder
    OBVIOUS
  <2>1. /\ Increasing(jobs \o sink) /\ last \in Nat
        /\ \A i \in DOMAIN (jobs \o sink) : (jobs \o sink)[i] \in Nat /\ last < (jobs \o sink)[i]
    BY DEF CkInv, InOrder, Ordered
  <2> QED
    BY <2>1 DEF JobsRunInOrder
<1>2. Init => CkInv
  BY InitOrdered
<1>3. CkInv /\ [Next]_vars => CkInv'
  BY OrderedStep
<1> QED
  BY <1>1, <1>2, <1>3, PTL DEF Spec

-----------------------------------------------------------------------------
(* A task is in one place.                                                 *)

\* The queue of awaits without its head.
LEMMA TailIs ==
    ASSUME CkInv, awaits # <<>>
    PROVE  /\ Len(awaits) \in Nat \ {0} /\ DOMAIN awaits = 1..Len(awaits) /\ Parked = awaits[1]
           /\ 1 \in DOMAIN awaits /\ Tail(awaits) \in Seq(Entry)
           /\ Len(Tail(awaits)) = Len(awaits) - 1 /\ DOMAIN Tail(awaits) = 1..(Len(awaits) - 1)
           /\ \A i \in 1..(Len(awaits) - 1) : i + 1 \in DOMAIN awaits /\ Tail(awaits)[i] = awaits[i + 1]
<1>1. awaits \in Seq(Entry)
  BY AwaitsTyped
<1>2. Len(awaits) \in Nat \ {0} /\ DOMAIN awaits = 1..Len(awaits)
  BY <1>1
<1>3. /\ Parked = awaits[1] /\ Tail(awaits) \in Seq(Entry) /\ Len(Tail(awaits)) = Len(awaits) - 1
      /\ \A i \in 1..Len(Tail(awaits)) : Tail(awaits)[i] = awaits[i + 1]
  BY <1>1, HeadTailProperties DEF Parked
<1>4. DOMAIN Tail(awaits) = 1..(Len(awaits) - 1)
  BY <1>3
<1>5. 1 \in DOMAIN awaits /\ \A i \in 1..(Len(awaits) - 1) : i + 1 \in DOMAIN awaits
  BY <1>2
<1> QED
  BY <1>2, <1>3, <1>4, <1>5

\* A sequence with one entry more.
LEMMA AppendIs ==
    ASSUME NEW S, NEW q \in Seq(S), NEW e \in S
    PROVE  LET a == Append(q, e) IN
           /\ Len(q) \in Nat /\ DOMAIN q = 1..Len(q) /\ Len(a) = Len(q) + 1 /\ DOMAIN a = 1..(Len(q) + 1)
           /\ a[Len(q) + 1] = e /\ \A i \in 1..Len(q) : a[i] = q[i]
           /\ \A i \in DOMAIN a : i \in DOMAIN q \/ i = Len(q) + 1
<1> DEFINE a == Append(q, e)
<1>1. Len(q) \in Nat /\ DOMAIN q = 1..Len(q)
  OBVIOUS
<1>2. /\ a \in Seq(S) /\ Len(a) = Len(q) + 1 /\ \A i \in 1..Len(q) : a[i] = q[i]
      /\ a[Len(q) + 1] = e
  BY AppendProperties
<1> HIDE DEF a
<1>3. DOMAIN a = 1..(Len(q) + 1)
  BY <1>2
<1>4. \A i \in DOMAIN a : i \in DOMAIN q \/ i = Len(q) + 1
  BY <1>1, <1>3
<1> QED
  BY <1>1, <1>2, <1>3, <1>4 DEF a

\* The head of the awaits moves to their end, with what it is parked on.
LEMMA RotatedIs ==
    ASSUME CkInv, awaits # <<>>, NEW e \in Entry, awaits' = Append(Tail(awaits), e)
    PROVE  /\ DOMAIN awaits' = DOMAIN awaits /\ Len(awaits') = Len(awaits)
           /\ Len(awaits) \in Nat \ {0} /\ DOMAIN awaits = 1..Len(awaits)
           /\ awaits'[Len(awaits)] = e /\ Parked = awaits[1] /\ 1 \in DOMAIN awaits
           /\ \A i \in DOMAIN awaits : i # Len(awaits) => i + 1 \in DOMAIN awaits /\ awaits'[i] = awaits[i + 1]
<1>1. /\ Len(awaits) \in Nat \ {0} /\ DOMAIN awaits = 1..Len(awaits) /\ Parked = awaits[1]
      /\ 1 \in DOMAIN awaits /\ Tail(awaits) \in Seq(Entry)
      /\ Len(Tail(awaits)) = Len(awaits) - 1 /\ DOMAIN Tail(awaits) = 1..(Len(awaits) - 1)
      /\ \A i \in 1..(Len(awaits) - 1) : i + 1 \in DOMAIN awaits /\ Tail(awaits)[i] = awaits[i + 1]
  BY TailIs
<1>2. /\ Len(awaits') = Len(Tail(awaits)) + 1 /\ DOMAIN awaits' = 1..(Len(Tail(awaits)) + 1)
      /\ awaits'[Len(Tail(awaits)) + 1] = e
      /\ \A i \in 1..Len(Tail(awaits)) : awaits'[i] = Tail(awaits)[i]
  BY <1>1, AppendIs
<1>3. Len(Tail(awaits)) + 1 = Len(awaits) /\ \A i \in 1..Len(awaits) : i # Len(awaits) => i \in 1..(Len(awaits) - 1)
  <2>1. \A n \in Nat \ {0} : n - 1 + 1 = n /\ \A i \in 1..n : i # n => i \in 1..(n - 1)
    OBVIOUS
  <2> QED
    BY <1>1, <2>1
<1> QED
  BY <1>1, <1>2, <1>3

\* Nothing enters the awaits, the completions or the settled tasks.
LEMMA PlacesKept ==
    ASSUME PlaceInv, CkInv', UNCHANGED <<awaits, completions, running, started>>,
           NEW p \in Others, settled' \subseteq settled \cup {p}
    PROVE  PlaceInv'
<1>1. /\ started \subseteq Tasks /\ p \notin started /\ p \notin Tasks
      /\ \A i \in DOMAIN awaits : awaits[i].task \in started
      /\ running # Ready => running \in started
  <2>1. started \subseteq Tasks /\ awaits \in Seq(Entry)
    BY AwaitsTyped DEF PlaceInv
  <2>2. \A i \in DOMAIN awaits : awaits[i] \in Entry
    BY <2>1
  <2> QED
    BY <2>1, <2>2, NamesAssumption DEF PlaceInv, CkInv, RunningCalled, Entry
<1>2. OneParkingPerTask' /\ RunningAlone' /\ SettledStarted'
  BY <1>1 DEF PlaceInv, OneParkingPerTask, RunningAlone, SettledStarted
<1> QED
  BY <1>2 DEF PlaceInv

LEMMA PlacesSame ==
    ASSUME PlaceInv, CkInv', UNCHANGED <<awaits, completions, running, started, settled>>
    PROVE  PlaceInv'
<1>1. OneParkingPerTask' /\ RunningAlone' /\ SettledStarted'
  BY DEF PlaceInv, OneParkingPerTask, RunningAlone, SettledStarted
<1> QED
  BY <1>1 DEF PlaceInv

LEMMA PlaceCallAsync ==
    ASSUME PlaceInv, CkInv', NEW t \in Tasks, CallAsync(t)
    PROVE  PlaceInv'
<1> DEFINE e == [task |-> t, on |-> Ready]
           E == [task : Tasks, on : Promises \cup {Ready}]
<1>1. /\ t \notin started /\ started' = started \cup {t} /\ awaits' = Append(awaits, e)
      /\ UNCHANGED <<settled, completions, running>>
  BY DEF CallAsync, InScript, queues, promises, locals
<1>2. /\ awaits \in Seq(Entry) /\ completions \in Seq(started) /\ started \subseteq Tasks /\ Ready \notin Promises
      /\ Tasks \subseteq Promises
  BY AwaitsTyped DEF PlaceInv
<1>3. e \in E /\ e.task = t /\ Entry \subseteq E
  BY <1>2 DEF Entry
<1>4. awaits \in Seq(E)
  BY <1>2, <1>3, SeqMonotonic
<1> HIDE DEF e, E
<1>5. /\ DOMAIN awaits = 1..Len(awaits) /\ awaits'[Len(awaits) + 1] = e
      /\ \A i \in DOMAIN awaits : awaits'[i] = awaits[i]
      /\ \A i \in DOMAIN awaits' : i \in DOMAIN awaits \/ i = Len(awaits) + 1
  BY <1>1, <1>3, <1>4, AppendIs
<1>6. /\ \A i \in DOMAIN awaits : awaits[i].task \in started
      /\ \A k \in DOMAIN completions : completions[k] \in started
  <2>1. \A i \in DOMAIN awaits : awaits[i] \in Entry
    BY <1>2
  <2>2. \A k \in DOMAIN completions : completions[k] \in started
    BY <1>2
  <2> QED
    BY <2>1, <2>2 DEF Entry
<1>7. t # running /\ t \notin settled /\ t # Ready
  BY <1>1, <1>2 DEF PlaceInv, CkInv, RunningCalled, SettledStarted
<1>8. OneParkingPerTask'
  BY <1>1, <1>3, <1>5, <1>6, <1>7 DEF PlaceInv, OneParkingPerTask
<1>9. RunningAlone' /\ SettledStarted'
  BY <1>1 DEF PlaceInv, RunningAlone, SettledStarted
<1> QED
  BY <1>8, <1>9 DEF PlaceInv

LEMMA PlaceSettleCompletions ==
    ASSUME PlaceInv, CkInv', SettleCompletions
    PROVE  PlaceInv'
<1>1. /\ pc = "settle" /\ settled' = settled \cup ({completions[k] : k \in DOMAIN completions} \ settled)
      /\ completions' = <<>> /\ UNCHANGED <<awaits, started, running>>
  BY DEF SettleCompletions
<1>2. running = Ready
  BY <1>1 DEF PlaceInv, CkInv, TypeOK
<1>3. DOMAIN completions' = {}
  BY <1>1
<1>4. \A k \in DOMAIN completions : completions[k] \in started
  BY AwaitsTyped DEF PlaceInv
<1>5. \A p \in settled' : p \in settled \/ \E k \in DOMAIN completions : completions[k] = p
  BY <1>1
<1>6. OneParkingPerTask'
  BY <1>1, <1>3, <1>5 DEF PlaceInv, OneParkingPerTask
<1>7. RunningAlone' /\ SettledStarted'
  BY <1>1, <1>2, <1>4, <1>5 DEF PlaceInv, RunningAlone, SettledStarted
<1> QED
  BY <1>6, <1>7 DEF PlaceInv

LEMMA PlaceRotation ==
    ASSUME PlaceInv, CkInv', AwaitSkip \/ AwaitAdopt
    PROVE  PlaceInv'
<1>1. CkInv /\ awaits # <<>> /\ UNCHANGED <<completions, running, started, settled>>
  BY DEF PlaceInv, AwaitSkip, AwaitAdopt, locals, promises
<1>2. PICK e \in Entry : awaits' = Append(Tail(awaits), e) /\ e.task = Parked.task
  <2>1. Parked \in Entry
    BY <1>1, AwaitsTyped
  <2>2. CASE AwaitSkip
    BY <2>1, <2>2 DEF AwaitSkip
  <2>3. CASE AwaitAdopt
    <3>1. Parked.on \in Promises /\ inner[Parked.on] \in Promises \cup {Ready}
      BY <1>1, <2>3 DEF AwaitAdopt, CkInv, TypeOK
    <3>2. \A x \in Entry : \A o \in Promises \cup {Ready} :
              [x EXCEPT !.on = o] \in Entry /\ [x EXCEPT !.on = o].task = x.task
      BY DEF Entry
    <3>3. awaits' = Append(Tail(awaits), [Parked EXCEPT !.on = inner[Parked.on]])
      BY <2>3 DEF AwaitAdopt
    <3> QED
      BY <2>1, <3>1, <3>2, <3>3
  <2> QED
    BY <2>2, <2>3
<1>3. /\ DOMAIN awaits' = DOMAIN awaits /\ Len(awaits) \in Nat \ {0} /\ DOMAIN awaits = 1..Len(awaits)
      /\ awaits'[Len(awaits)] = e /\ Parked = awaits[1] /\ 1 \in DOMAIN awaits
      /\ \A i \in DOMAIN awaits : i # Len(awaits) => i + 1 \in DOMAIN awaits /\ awaits'[i] = awaits[i + 1]
  BY <1>1, <1>2, RotatedIs
<1> DEFINE from(i) == IF i = Len(awaits) THEN 1 ELSE i + 1
<1>4. \A i \in DOMAIN awaits : from(i) \in DOMAIN awaits /\ awaits'[i].task = awaits[from(i)].task
  BY <1>2, <1>3
<1>5. \A i, j \in DOMAIN awaits : from(i) = from(j) => i = j
  BY <1>3
<1> HIDE DEF from
<1>6. OneParkingPerTask'
  <2>1. \A i, j \in DOMAIN awaits : awaits[i].task = awaits[j].task => i = j
    BY DEF PlaceInv, OneParkingPerTask
  <2>2. \A i, j \in DOMAIN awaits' : awaits'[i].task = awaits'[j].task => i = j
    <3> SUFFICES ASSUME NEW i \in DOMAIN awaits, NEW j \in DOMAIN awaits, awaits'[i].task = awaits'[j].task
                 PROVE  i = j
      BY <1>3
    <3>1. from(i) = from(j)
      BY <1>4, <2>1
    <3> QED
      BY <1>5, <3>1
  <2>3. \A i \in DOMAIN awaits' : /\ awaits'[i].task # running' /\ awaits'[i].task \notin settled'
                                  /\ \A k \in DOMAIN completions' : completions'[k] # awaits'[i].task
    BY <1>1, <1>3, <1>4 DEF PlaceInv, OneParkingPerTask
  <2> QED
    BY <1>1, <2>2, <2>3 DEF PlaceInv, OneParkingPerTask
<1>7. RunningAlone' /\ SettledStarted'
  BY <1>1 DEF PlaceInv, RunningAlone, SettledStarted
<1> QED
  BY <1>6, <1>7 DEF PlaceInv

LEMMA PlaceRun ==
    ASSUME PlaceInv, CkInv', AwaitRun
    PROVE  PlaceInv'
<1>1. /\ CkInv /\ awaits # <<>> /\ awaits' = Tail(awaits) /\ running' = Parked.task
      /\ UNCHANGED <<completions, started, settled>>
  BY DEF PlaceInv, AwaitRun, promises
<1>2. /\ DOMAIN awaits' = 1..(Len(awaits) - 1) /\ Len(awaits) \in Nat \ {0}
      /\ Parked = awaits[1] /\ 1 \in DOMAIN awaits
      /\ \A i \in DOMAIN awaits' : i + 1 \in DOMAIN awaits /\ awaits'[i] = awaits[i + 1]
  BY <1>1, TailIs
<1>3. \A i, j \in DOMAIN awaits' : i + 1 # 1 /\ (i + 1 = j + 1 => i = j)
  BY <1>2
<1>4. OneParkingPerTask'
  BY <1>1, <1>2, <1>3 DEF PlaceInv, OneParkingPerTask
<1>5. RunningAlone'
  BY <1>1, <1>2 DEF PlaceInv, OneParkingPerTask, RunningAlone
<1>6. SettledStarted'
  BY <1>1 DEF PlaceInv, SettledStarted
<1> QED
  BY <1>4, <1>5, <1>6 DEF PlaceInv

LEMMA PlaceBodyAwaits ==
    ASSUME PlaceInv, CkInv', NEW p \in Promises \cup {Ready}, BodyAwaits(p)
    PROVE  PlaceInv'
<1> DEFINE e == [task |-> running, on |-> IF IsSettled(p) THEN Ready ELSE p]
<1>1. /\ pc = "script" /\ caller = "resume" /\ awaits' = Append(awaits, e) /\ running' = Ready
      /\ UNCHANGED <<settled, completions, started>>
  BY DEF BodyAwaits, promises
<1>2. running \in started /\ running # Ready /\ awaits \in Seq(Entry)
  BY <1>1, AwaitsTyped DEF PlaceInv, CkInv, TypeOK, RunningCalled
<1>3. e \in Entry /\ e.task = running
  BY <1>2 DEF Entry
<1> HIDE DEF e
<1>4. /\ awaits'[Len(awaits) + 1] = e /\ DOMAIN awaits = 1..Len(awaits)
      /\ \A i \in DOMAIN awaits : awaits'[i] = awaits[i]
      /\ \A i \in DOMAIN awaits' : i \in DOMAIN awaits \/ i = Len(awaits) + 1
  BY <1>1, <1>2, <1>3, AppendIs
<1>5. \A i \in DOMAIN awaits : awaits[i].task \in started /\ awaits[i].task # Ready
  <2>1. \A i \in DOMAIN awaits : awaits[i] \in Entry
    BY <1>2
  <2> QED
    BY <2>1, AwaitsTyped DEF Entry, PlaceInv
<1>6. \A i \in DOMAIN awaits' : awaits'[i].task # Ready
  BY <1>2, <1>3, <1>4, <1>5
<1>7. OneParkingPerTask'
  BY <1>1, <1>2, <1>3, <1>4, <1>6 DEF PlaceInv, OneParkingPerTask, RunningAlone
<1>8. RunningAlone' /\ SettledStarted'
  BY <1>1 DEF PlaceInv, RunningAlone, SettledStarted
<1> QED
  BY <1>7, <1>8 DEF PlaceInv

LEMMA PlaceBodyCompletes ==
    ASSUME PlaceInv, CkInv', BodyCompletes
    PROVE  PlaceInv'
<1>1. /\ pc = "script" /\ caller = "resume" /\ completions' = Append(completions, running)
      /\ running' = Ready /\ UNCHANGED <<settled, awaits, started>>
  BY DEF BodyCompletes, promises
<1>2. running \in started /\ running # Ready /\ completions \in Seq(started) /\ awaits \in Seq(Entry)
  BY <1>1, AwaitsTyped DEF PlaceInv, CkInv, TypeOK, RunningCalled
<1>3. /\ completions'[Len(completions) + 1] = running /\ DOMAIN completions = 1..Len(completions)
      /\ \A k \in DOMAIN completions : completions'[k] = completions[k]
      /\ \A k \in DOMAIN completions' : k \in DOMAIN completions \/ k = Len(completions) + 1
  BY <1>1, <1>2, AppendIs
<1>4. \A i \in DOMAIN awaits : awaits[i].task # Ready
  <2>1. \A i \in DOMAIN awaits : awaits[i] \in Entry
    BY <1>2
  <2> QED
    BY <2>1, AwaitsTyped DEF Entry, PlaceInv
<1>5. OneParkingPerTask'
  BY <1>1, <1>2, <1>3, <1>4 DEF PlaceInv, OneParkingPerTask, RunningAlone
<1>6. RunningAlone' /\ SettledStarted'
  BY <1>1 DEF PlaceInv, RunningAlone, SettledStarted
<1> QED
  BY <1>5, <1>6 DEF PlaceInv

LEMMA PlaceDropInterp ==
    ASSUME PlaceInv, CkInv', DropInterp
    PROVE  PlaceInv'
<1>1. pc = "exit" /\ awaits' = <<>> /\ completions' = <<>> /\ UNCHANGED <<settled, started, running>>
  BY DEF DropInterp, promises
<1>2. DOMAIN awaits' = {} /\ DOMAIN completions' = {}
  BY <1>1
<1>3. OneParkingPerTask' /\ RunningAlone' /\ SettledStarted'
  BY <1>1, <1>2 DEF PlaceInv, OneParkingPerTask, RunningAlone, SettledStarted
<1> QED
  BY <1>3 DEF PlaceInv

LEMMA PlaceStep ==
    ASSUME PlaceInv, [Next]_vars
    PROVE  PlaceInv'
<1>1. CkInv'
  BY OrderedStep DEF PlaceInv
<1>2. CASE \/ Eval \/ RunJobs \/ MakeJob \/ RequestAdoption \/ TimeOut \/ MainReturns \/ JobReturns
           \/ DrainJob \/ DrainEmpty \/ AttemptNothing \/ Decide \/ UNCHANGED vars
           \/ \E p \in Promises : Watch(p)
  <2>1. UNCHANGED <<awaits, completions, running, started, settled>>
    BY <1>2 DEF Eval, RunJobs, MakeJob, RequestAdoption, TimeOut, MainReturns, JobReturns, DrainJob, DrainEmpty,
                AttemptNothing, Decide, Watch, InScript, vars, promises, interp, locals
  <2> QED
    BY <1>1, <2>1, PlacesSame
<1>3. CASE \E p \in Others, q \in Promises \cup {Ready} : Settle(p, q)
  <2>1. PICK p \in Others : \E q \in Promises \cup {Ready} : Settle(p, q)
    BY <1>3
  <2>2. UNCHANGED <<awaits, completions, running, started>> /\ settled' \subseteq settled \cup {p}
    BY <2>1 DEF Settle, InScript, interp, locals
  <2> QED
    BY <1>1, <2>2, PlacesKept
<1>4. CASE \/ \E t \in Tasks : CallAsync(t)
           \/ SettleCompletions \/ AwaitSkip \/ AwaitAdopt \/ AwaitRun \/ BodyCompletes \/ DropInterp
           \/ \E p \in Promises \cup {Ready} : BodyAwaits(p)
  BY <1>1, <1>4, PlaceCallAsync, PlaceSettleCompletions, PlaceRotation, PlaceRun, PlaceBodyCompletes,
     PlaceDropInterp, PlaceBodyAwaits
<1> QED
  BY <1>2, <1>3, <1>4 DEF Next, Script, ScriptReturns, Loop

\* An async function is in one place: its body runs, it is parked in pending_awaits
\* once, or its completion waits to be settled.  So no body is resumed twice, and no
\* promise of an async function is settled by two completions.
THEOREM OnePlacePerTask == Spec => []OneParkingPerTask
<1>1. Init => PlaceInv
  <2>1. ASSUME Init PROVE OneParkingPerTask /\ RunningAlone /\ SettledStarted
    BY <2>1 DEF Init, OneParkingPerTask, RunningAlone, SettledStarted
  <2> QED
    BY <2>1, InitOrdered DEF PlaceInv
<1>2. PlaceInv /\ [Next]_vars => PlaceInv'
  BY PlaceStep
<1>3. PlaceInv => OneParkingPerTask
  BY DEF PlaceInv
<1> QED
  BY <1>1, <1>2, <1>3, PTL DEF Spec

-----------------------------------------------------------------------------
(* Nothing is left when the loop of the checkpoint ends.                   *)

\* What was appended to is not empty.
LEMMA NotEmptied ==
    ASSUME NEW S, NEW q \in Seq(S), NEW e \in S
    PROVE  Append(q, e) # <<>>
<1>1. Len(q) \in Nat /\ Len(Append(q, e)) = Len(q) + 1
  BY AppendProperties
<1>2. Len(<<>>) = 0
  OBVIOUS
<1> QED
  BY <1>1, <1>2

\* An empty queue was made of empty parts.
LEMMA EmptyParts ==
    ASSUME CkInv, Refilled(NewJobs(NewAdoptions)) = <<>>
    PROVE  jobs = <<>> /\ sink = <<>>
<1> DEFINE n == NewJobs(NewAdoptions)
<1>1. jobs \in Seq(Nat) /\ sink \in Seq(Nat) /\ jobs \o sink \in Seq(Nat) /\ n \in Seq(Nat)
  BY Numbers, NewJobsOrdered DEF Ordered
<1>2. (jobs \o sink) \o n = <<>>
  BY DEF Refilled
<1> HIDE DEF n
<1>3. Len(jobs \o sink) = Len(jobs) + Len(sink) /\ Len((jobs \o sink) \o n) = Len(jobs \o sink) + Len(n)
  BY <1>1, ConcatProperties
<1>4. Len(jobs) \in Nat /\ Len(sink) \in Nat /\ Len(n) \in Nat /\ Len(<<>>) = 0
  BY <1>1
<1>5. Len(jobs) = 0 /\ Len(sink) = 0
  BY <1>2, <1>3, <1>4
<1> QED
  BY <1>1, <1>5, EmptySeq

\* The parts of the invariant that most steps do not touch.
LEMMA QuietKept ==
    ASSUME QuietInv, [Next]_vars
    PROVE  CkInv' /\ DrainedFirst'
<1>1. CkInv'
  BY OrderedStep DEF QuietInv
<1>2. DrainedFirst'
  <2>1. CASE UNCHANGED <<completions, pc, caller>>
    BY <2>1 DEF QuietInv, DrainedFirst, InDrain
  <2>2. CASE completions' = <<>>
    BY <2>2 DEF DrainedFirst
  <2>3. CASE ~InDrain'
    BY <2>3 DEF DrainedFirst
  <2>4. CASE InDrain /\ completions' = completions
    BY <2>4 DEF QuietInv, DrainedFirst
  <2>5. \/ UNCHANGED <<completions, pc, caller>> \/ completions' = <<>> \/ ~InDrain'
        \/ InDrain /\ completions' = completions
    <3>1. CASE Script \/ UNCHANGED vars
      BY <3>1 DEF Script, MakeJob, RequestAdoption, TimeOut, Watch, Settle, CallAsync, InScript, vars, interp, locals
    <3>2. CASE Eval \/ RunJobs
      BY <3>2 DEF Eval, RunJobs, InDrain
    <3>3. CASE ScriptReturns
      BY <3>3 DEF ScriptReturns, MainReturns, JobReturns, BodyCompletes, BodyAwaits, InDrain
    <3>4. CASE Loop
      BY <3>4 DEF Loop, SettleCompletions, DrainJob, DrainEmpty, LeaveDrain, AttemptNothing, AwaitSkip, AwaitAdopt,
                  AwaitRun, Decide, DropInterp, interp, InDrain
    <3> QED
      BY <3>1, <3>2, <3>3, <3>4 DEF Next
  <2> QED
    BY <2>1, <2>2, <2>3, <2>4, <2>5
<1> QED
  BY <1>1, <1>2

\* The pass begins when the queue has run empty, or was cut short.
LEMMA PassBegins ==
    ASSUME QuietInv, DrainEmpty \/ JobReturns
    PROVE  PassSoFar'
<1>1. /\ CkInv /\ drained \in Nat /\ MaxQueue \in Nat /\ Len(awaits) \in Nat /\ DOMAIN awaits = 1..Len(awaits)
      /\ completions = <<>>
  <2>1. CkInv /\ InDrain /\ completions = <<>>
    BY DEF QuietInv, DrainedFirst, InDrain, DrainEmpty, JobReturns
  <2>2. drained \in Nat
    BY <2>1 DEF CkInv, TypeOK
  <2>3. awaits \in Seq(Entry)
    BY <2>1, AwaitsTyped
  <2>4. Len(awaits) \in Nat /\ DOMAIN awaits = 1..Len(awaits)
    BY <2>3
  <2> QED
    BY <2>1, <2>2, <2>4, BoundsAssumption
<1>2. CASE DrainEmpty
  <2>1. jobs = <<>> /\ sink = <<>>
    BY <1>1, <1>2, EmptyParts DEF DrainEmpty
  <2>2. /\ adoptions' = <<>> /\ attempts' = Len(awaits)
        /\ UNCHANGED <<jobs, sink, awaits, completions>>
    BY <1>2 DEF DrainEmpty, LeaveDrain, queues
  <2>3. \A i \in DOMAIN awaits' : ~(i > attempts')
    BY <1>1, <2>2
  <2> QED
    BY <1>1, <2>1, <2>2, <2>3 DEF PassSoFar
<1>3. CASE JobReturns
  <2>1. drained' = drained + 1 /\ timedOut' = timedOut
        /\ (pc' = "pass" => timedOut \/ drained + 1 > 2 * MaxQueue)
    BY <1>3 DEF JobReturns
  <2>2. drained' # 0
    BY <1>1, <2>1
  <2> QED
    BY <2>1, <2>2 DEF PassSoFar, CutShort
<1> QED
  BY <1>2, <1>3

\* An await on a pending promise moves behind those that were looked at before.
LEMMA PassSkips ==
    ASSUME QuietInv, AwaitSkip
    PROVE  PassSoFar'
<1>1. /\ CkInv /\ awaits # <<>> /\ pc = "pass" /\ ~timedOut /\ attempts > 0 /\ attempts' = attempts - 1
      /\ ~IsSettled(Parked.on) /\ awaits' = Append(Tail(awaits), Parked)
      /\ UNCHANGED <<jobs, sink, adoptions, completions, progressed, drained, settled, inner>>
  BY DEF QuietInv, AwaitSkip, Attempt, queues, promises
<1>2. attempts \in Nat /\ Parked \in Entry
  BY <1>1, AwaitsTyped DEF CkInv, TypeOK
<1>3. /\ DOMAIN awaits' = DOMAIN awaits /\ Len(awaits) \in Nat \ {0} /\ DOMAIN awaits = 1..Len(awaits)
      /\ awaits'[Len(awaits)] = Parked
      /\ \A i \in DOMAIN awaits : i # Len(awaits) => i + 1 \in DOMAIN awaits /\ awaits'[i] = awaits[i + 1]
  BY <1>1, <1>2, RotatedIs
<1>4. awaits' # <<>>
  BY <1>1, <1>2, AwaitsTyped, NotEmptied
<1>5. ASSUME ~progressed, drained = 0
      PROVE  /\ jobs = <<>> /\ sink = <<>> /\ adoptions = <<>> /\ completions = <<>>
             /\ NoneNested => \A i \in DOMAIN awaits : i > attempts => ~IsSettled(awaits[i].on)
  BY <1>1, <1>5 DEF QuietInv, PassSoFar
<1>6. ASSUME ~progressed, drained = 0, NoneNested, NEW i \in DOMAIN awaits, i > attempts - 1
      PROVE  ~IsSettled(awaits'[i].on)
  <2>1. CASE i = Len(awaits)
    BY <1>1, <1>3, <2>1
  <2>2. CASE i # Len(awaits)
    <3>1. i + 1 \in DOMAIN awaits /\ awaits'[i] = awaits[i + 1]
      BY <1>3, <2>2
    <3>2. i + 1 > attempts
      BY <1>2, <1>3, <1>6
    <3> QED
      BY <1>5, <1>6, <3>1, <3>2
  <2> QED
    BY <2>1, <2>2
<1> QED
  BY <1>1, <1>3, <1>4, <1>5, <1>6 DEF PassSoFar, IsSettled, NoneNested

\* What the pass has found so far.
LEMMA PassStep ==
    ASSUME QuietInv, [Next]_vars
    PROVE  PassSoFar'
<1>1. CASE DrainEmpty \/ JobReturns
  BY <1>1, PassBegins
<1>2. CASE AwaitSkip
  BY <1>2, PassSkips
<1>3. CASE AwaitAdopt
  <2>1. /\ CkInv /\ awaits # <<>> /\ pc = "pass" /\ ~timedOut /\ Parked.on \in settled /\ inner[Parked.on] # Ready
        /\ awaits' = Append(Tail(awaits), [Parked EXCEPT !.on = inner[Parked.on]])
        /\ UNCHANGED <<jobs, sink, adoptions, completions, progressed, drained, inner>>
    BY <1>3 DEF QuietInv, AwaitAdopt, Attempt, queues, promises
  <2>2. Parked.on \in Promises /\ inner[Parked.on] \in Promises \cup {Ready}
    BY <2>1 DEF CkInv, TypeOK
  <2>3. ~NoneNested'
    BY <2>1, <2>2 DEF NoneNested
  <2>4. [Parked EXCEPT !.on = inner[Parked.on]] \in Entry
    <3>1. \A e \in Entry : \A x \in Promises \cup {Ready} : [e EXCEPT !.on = x] \in Entry
      BY DEF Entry
    <3> QED
      BY <2>1, <2>2, <3>1, AwaitsTyped
  <2>5. awaits' # <<>>
    BY <2>1, <2>4, AwaitsTyped, NotEmptied
  <2> QED
    BY <2>1, <2>3, <2>5 DEF QuietInv, PassSoFar
<1>4. CASE AttemptNothing
  <2>1. /\ (awaits = <<>> \/ timedOut) /\ pc = "pass"
        /\ UNCHANGED <<jobs, sink, adoptions, completions, awaits, timedOut, progressed, drained>>
    BY <1>4 DEF AttemptNothing, Attempt, queues, interp
  <2>2. awaits = <<>> => DOMAIN awaits = {}
    OBVIOUS
  <2> QED
    BY <2>1, <2>2 DEF QuietInv, PassSoFar, CutShort
<1>5. CASE \E p \in Promises \cup {Ready} : BodyAwaits(p)
  <2>1. PICK p \in Promises \cup {Ready} : BodyAwaits(p)
    BY <1>5
  <2> DEFINE e == [task |-> running, on |-> IF IsSettled(p) THEN Ready ELSE p]
  <2>2. /\ pc = "script" /\ caller = "resume" /\ ~timedOut /\ awaits' = Append(awaits, e)
        /\ progressed' = CountsResume
    BY <2>1 DEF BodyAwaits
  <2>3. e \in Entry
    BY <2>2 DEF QuietInv, CkInv, TypeOK, RunningCalled, Entry
  <2> HIDE DEF e
  <2>4. awaits' # <<>>
    BY <2>2, <2>3, AwaitsTyped, NotEmptied DEF QuietInv
  <2> QED
    BY <2>2, <2>4 DEF PassSoFar, CountsResume
<1>6. CASE BodyCompletes
  <2>1. /\ pc = "script" /\ caller = "resume" /\ completions' = Append(completions, running)
        /\ progressed' = CountsResume /\ timedOut' = timedOut
    BY <1>6 DEF BodyCompletes
  <2>2. running \in started
    BY <2>1 DEF QuietInv, CkInv, TypeOK, RunningCalled
  <2>3. completions' # <<>>
    BY <2>1, <2>2, AwaitsTyped, NotEmptied DEF QuietInv
  <2> QED
    BY <2>1, <2>3 DEF PassSoFar, CountsResume
<1>7. CASE UNCHANGED vars
  <2>1. PassSoFar' = PassSoFar
    BY <1>7 DEF vars, queues, promises, interp, locals, PassSoFar, CutShort, IsSettled, NoneNested
  <2> QED
    BY <2>1 DEF QuietInv
<1>8. CASE Script \/ Eval \/ RunJobs \/ MainReturns \/ SettleCompletions \/ DrainJob \/ AwaitRun \/ Decide
           \/ DropInterp
  <2>1. pc' # "pass"
    BY <1>8 DEF Script, MakeJob, RequestAdoption, TimeOut, Watch, Settle, CallAsync, InScript, locals, Eval, RunJobs,
                MainReturns, SettleCompletions, DrainJob, AwaitRun, Decide, DropInterp
  <2> QED
    BY <2>1 DEF PassSoFar
<1> QED
  BY <1>1, <1>2, <1>3, <1>4, <1>5, <1>6, <1>7, <1>8 DEF Next, ScriptReturns, Loop

\* What the loop has left when it ends.
LEMMA ExitStep ==
    ASSUME QuietInv, [Next]_vars
    PROVE  NothingLeftAtExit'
<1>1. CASE pc' = "exit" /\ pc = "pass"
  <2>1. Decide
    BY <1>1 DEF Next, Script, ScriptReturns, Loop, Eval, RunJobs, MakeJob, RequestAdoption, TimeOut, Watch, Settle,
                CallAsync, InScript, MainReturns, JobReturns, BodyCompletes, BodyAwaits, SettleCompletions, DrainJob,
                DrainEmpty, AttemptNothing, AwaitSkip, AwaitAdopt, AwaitRun, DropInterp, vars, locals
  <2>2. /\ attempts = 0 /\ LoopEnds
        /\ UNCHANGED <<jobs, sink, adoptions, completions, awaits, timedOut, settled, inner, drained>>
    BY <1>1, <2>1 DEF Decide, queues, promises, interp
  <2>3. CASE timedOut \/ CutShort
    BY <2>2, <2>3 DEF NothingLeftAtExit, CutShort
  <2>4. CASE ~timedOut /\ ~CutShort /\ jobs = <<>> /\ awaits = <<>> /\ completions = <<>>
    <3>1. sink = <<>> /\ adoptions = <<>> /\ DOMAIN awaits = {}
      BY <1>1, <2>4 DEF QuietInv, PassSoFar
    <3> QED
      BY <2>2, <2>4, <3>1 DEF NothingLeftAtExit
  <2>5. CASE ~timedOut /\ ~progressed /\ drained = 0
    <3>1. /\ jobs = <<>> /\ sink = <<>> /\ adoptions = <<>> /\ completions = <<>>
          /\ NoneNested => \A i \in DOMAIN awaits : i > attempts => ~IsSettled(awaits[i].on)
      BY <1>1, <2>5 DEF QuietInv, PassSoFar
    <3>2. \A i \in DOMAIN awaits : i > attempts
      BY <2>2, AwaitsTyped DEF QuietInv
    <3> QED
      BY <2>2, <3>1, <3>2 DEF NothingLeftAtExit, IsSettled, NoneNested
  <2> QED
    BY <2>2, <2>3, <2>4, <2>5 DEF LoopEnds
<1>2. CASE pc' = "exit" /\ pc # "pass"
  <2>1. UNCHANGED vars
    BY <1>2 DEF Next, Script, ScriptReturns, Loop, Eval, RunJobs, MakeJob, RequestAdoption, TimeOut, Watch, Settle,
                CallAsync, InScript, MainReturns, JobReturns, LeaveDrain, BodyCompletes, BodyAwaits,
                SettleCompletions, DrainJob, DrainEmpty, AttemptNothing, Attempt, AwaitSkip, AwaitAdopt, AwaitRun,
                Decide, DropInterp, locals
  <2>2. NothingLeftAtExit' = NothingLeftAtExit
    BY <2>1 DEF vars, queues, promises, interp, locals, NothingLeftAtExit, CutShort, IsSettled, NoneNested
  <2> QED
    BY <2>2 DEF QuietInv
<1>3. CASE pc' # "exit"
  BY <1>3 DEF NothingLeftAtExit
<1> QED
  BY <1>1, <1>2, <1>3

LEMMA QuietInductive ==
    /\ Init => QuietInv
    /\ QuietInv /\ [Next]_vars => QuietInv'
<1>1. ASSUME Init PROVE QuietInv
  <2>1. DrainedFirst /\ PassSoFar /\ NothingLeftAtExit
    BY <1>1 DEF Init, DrainedFirst, PassSoFar, NothingLeftAtExit
  <2> QED
    BY <1>1, <2>1, InitOrdered DEF QuietInv
<1>2. ASSUME QuietInv, [Next]_vars PROVE QuietInv'
  BY <1>2, QuietKept, PassStep, ExitStep DEF QuietInv
<1> QED
  BY <1>1, <1>2

\* When the loop of drain_checkpoint ends by itself, and the last drain did not reach
\* its cap, no job, no follow-up in the sink, no completion and no adoption is left;
\* and where no promise is fulfilled with a promise, every await that is left waits
\* for a promise that is pending.
THEOREM NothingLeft == Spec => []NothingLeftAtExit
<1>1. QuietInv => NothingLeftAtExit
  BY DEF QuietInv
<1> QED
  BY <1>1, QuietInductive, PTL DEF Spec
=============================================================================
