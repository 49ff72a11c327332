---------------------------- MODULE CallsProofs ----------------------------
(***************************************************************************)
(* Proofs about Calls for any depth limits and any number of calls, until  *)
(* an execute returns for the deadline: it does so without unwinding, and  *)
(* what is on the stacks then is not in step.                              *)
(***************************************************************************)
EXTENDS Calls, NumberInduction, SequenceTheorems

USE LimitsAssumption

-----------------------------------------------------------------------------
(* The invariant.  It is about frames, natives and `this` bindings as       *)
(* values, so that what a cut or a push does to them is said once.          *)

\* What a construction or super() has made, and what a frame may wait for.
Made  == {NoValue} \cup 1 .. MaxCalls
Parks == {"none", "call", "construct", "super"}

FrameSet == [act : Nat, fn : Kinds \cup {"main"}, base : Nat, regs : Nat, home : Nat,
             newTarget : BOOLEAN, parked : Parks, try : BOOLEAN, got : Made, super : Made]
NativeSet == [floor : Nat, base : Nat, depth : Nat, seam : Seams \cup {"none"}, made : Made]

\* Where a window ends, and what a seam pushes before the next begins.
End(f) == f.base + f.regs
Parked(seam) == IF seam \in {"call_value", "construct_object"} THEN Parking ELSE 0

\* The `this` of a construction is its instance, or the hole of a derived one.
Bound(f, th) ==
    /\ f.act \in 1 .. Len(th)
    /\ f.newTarget => /\ f.fn \in Constructors /\ th[f.act] \in {Hole} \cup 1 .. MaxCalls
                      /\ f.fn = "base" => th[f.act] \in 1 .. MaxCalls

\* A frame below another waits at a call instruction.  If it called bytecode the
\* callee's window begins where its own ends.
Stacked(fs, ns) ==
    /\ \A i \in 1 .. Len(fs) : fs[i].parked # "none" => fs[i].super = NoValue
    /\ \A i \in 1 .. Len(fs) - 1 :
          /\ fs[i].parked # "none"
          /\ (\A k \in 1 .. Len(ns) : ns[k].depth # i) =>
                /\ fs[i + 1].base = End(fs[i])
                /\ fs[i].parked \in {"construct", "super"} => fs[i + 1].newTarget

\* A native knows the frame that called it, and the loop it runs begins with
\* the frame above that one.
Nested(fs, ns) ==
    \A k \in 1 .. Len(ns) :
       LET n == ns[k] IN
       /\ n.depth \in 1 .. Len(fs) /\ n.floor = n.depth /\ n.depth <= MaxFrames + k - 1
       /\ n.base = End(fs[n.depth]) /\ fs[n.depth].parked = "call"
       /\ n.seam # "none" =>
             /\ n.depth < Len(fs) /\ fs[n.depth + 1].base = n.base + Parked(n.seam)
             /\ n.seam = "construct_object" => fs[n.depth + 1].newTarget
       /\ \A j \in 1 .. k - 1 : ns[j].seam # "none" /\ ns[j].depth < n.depth

\* Either the native on top of the Rust stack has control, over the frame that
\* called it, or the frame on top runs.
Controlled(fs, ns) ==
    IF ns # <<>> /\ Last(ns).seam = "none" THEN Last(ns).depth = Len(fs)
    ELSE Last(fs).parked = "none"

\* Frames, natives and bindings in step.
Good(fs, ns, th) ==
    /\ fs \in Seq(FrameSet) /\ ns \in Seq(NativeSet) /\ th \in Seq(Values)
    /\ Len(fs) \in 1 .. MaxFrames + Len(ns)
    /\ \A i \in 1 .. Len(fs) : Bound(fs[i], th)
    /\ Stacked(fs, ns) /\ Nested(fs, ns) /\ Controlled(fs, ns)

\* The inductive invariant; a run that has ended has neither frames nor natives.
CallInv ==
    /\ calls \in 1 .. MaxCalls /\ this \in Seq(Values) /\ Len(this) = calls
    /\ InTime /\ ended \in BOOLEAN
    /\ IF ended THEN frames = <<>> /\ natives = <<>>
       ELSE Good(frames, natives, this) /\ top = End(Frame)

-----------------------------------------------------------------------------
(* Sequences.                                                              *)

\* The frames up to the one an exception or a result lands in, and that one.
LEMMA Cut ==
    ASSUME NEW T, NEW s \in Seq(T), NEW i \in 1 .. Len(s), NEW g \in T
    PROVE  LET c == Append(SubSeq(s, 1, i - 1), g)
           IN /\ c \in Seq(T) /\ Len(c) = i /\ c[i] = g
              /\ \A j \in 1 .. i - 1 : c[j] = s[j]
<1> DEFINE r == SubSeq(s, 1, i - 1)
<1>1. r \in Seq(T) /\ Len(r) = i - 1 /\ \A j \in 1 .. i - 1 : r[j] = s[j]
  <2>1. 1 \in 1 .. Len(s) + 1 /\ i - 1 \in (1 - 1) .. Len(s) /\ Len(s) \in Nat
    OBVIOUS
  <2> QED
    BY <2>1, SubSeqProperties
<1> HIDE DEF r
<1>2. /\ Append(r, g) \in Seq(T) /\ Len(Append(r, g)) = Len(r) + 1
      /\ \A j \in 1 .. Len(r) : Append(r, g)[j] = r[j]
      /\ Append(r, g)[Len(r) + 1] = g
  BY <1>1, AppendProperties
<1> QED
  BY <1>1, <1>2 DEF r

\* Only the last one is another (Park, and what happens to the innermost native).
LEMMA LastReplaced ==
    ASSUME NEW T, NEW s \in Seq(T), s # <<>>, NEW g \in T
    PROVE  LET c == Append(Front(s), g)
           IN /\ c \in Seq(T) /\ Len(c) = Len(s) /\ c[Len(s)] = g /\ Len(s) \in 1 .. Len(s)
              /\ \A j \in 1 .. Len(s) - 1 : c[j] = s[j]
<1> DEFINE n == Len(s)
           c == Append(SubSeq(s, 1, n - 1), g)
<1>1. n \in 1 .. Len(s)
  BY EmptySeq
<1>2. c \in Seq(T) /\ Len(c) = n /\ c[n] = g /\ \A j \in 1 .. n - 1 : c[j] = s[j]
  <2> HIDE DEF n
  <2> QED
    BY <1>1, Cut
<1> QED
  BY <1>1, <1>2 DEF Front

\* The frames a native finds when its loop is over.
LEMMA Kept ==
    ASSUME NEW T, NEW s \in Seq(T), NEW i \in 0 .. Len(s)
    PROVE  LET c == SubSeq(s, 1, i)
           IN c \in Seq(T) /\ Len(c) = i /\ \A j \in 1 .. i : c[j] = s[j]
<1>1. 1 \in 1 .. Len(s) + 1 /\ i \in (1 - 1) .. Len(s) /\ Len(s) \in Nat
  OBVIOUS
<1> QED
  BY <1>1, SubSeqProperties

\* The last covering try block that unwind looks for exists.
LEMMA InnermostExists ==
    ASSUME NEW n \in Nat, NEW S \in SUBSET (1 .. n), S # {}
    PROVE  Innermost(S) \in S
<1>1. \E i \in S : \A j \in S : j <= i
  <2> SUFFICES ASSUME \A i \in S : \E j \in S : ~(j <= i) PROVE FALSE
    OBVIOUS
  <2> DEFINE T == {m \in Nat : \E j \in S : m <= j}
  <2>1. 0 \in T
    <3>1. PICK j \in S : TRUE
      OBVIOUS
    <3>2. j \in Nat /\ 0 <= j
      BY <3>1
    <3> QED
      BY <3>2
  <2>2. ASSUME NEW m \in Nat, m \in T PROVE m + 1 \in T
    <3>1. PICK j \in S : m <= j
      BY <2>2
    <3>2. PICK l \in S : ~(l <= j)
      OBVIOUS
    <3> QED
      BY <3>1, <3>2
  <2>3. Nat \subseteq T
    <3> HIDE DEF T
    <3> QED
      BY <2>1, <2>2, AllNumbers
  <2>4. n + 1 \in T
    <3> HIDE DEF T
    <3> QED
      BY <2>3
  <2> QED
    BY <2>4
<1> QED
  BY <1>1 DEF Innermost

-----------------------------------------------------------------------------
(* Landing in a frame: a throw that is caught, a return to bytecode, a      *)
(* native that returns, and what changes the frame on top only.             *)

\* ns are the natives of ns0 that stay on the Rust stack.
Outer(ns, ns0) ==
    /\ ns \in Seq(NativeSet) /\ Len(ns) <= Len(ns0)
    /\ \A k \in 1 .. Len(ns) : ns[k] = ns0[k]

\* Bindings only become known, or more.
Grows(th, th2) ==
    /\ th2 \in Seq(Values) /\ Len(th) <= Len(th2)
    /\ \A a \in 1 .. Len(th) : th2[a] = th[a] \/ (th[a] = Hole /\ th2[a] \in 1 .. MaxCalls)

\* The bindings of a step that binds nothing.
LEMMA GrowsAlready ==
    ASSUME NEW th \in Seq(Values)
    PROVE  Grows(th, th)
<1>1. Len(th) \in Nat
  BY LenProperties
<1>2. Len(th) <= Len(th)
  BY <1>1
<1> QED
  BY <1>2 DEF Grows

\* While natives are on the Rust stack, the frames they were called over are as
\* they were: what FloorHolds says of a step.
Untouched(fs, ns0, c, ns) ==
    \A k \in 1 .. Len(ns) :
       k <= Len(ns0) =>
          /\ Len(c) >= ns0[k].depth
          /\ \A i \in 1 .. ns0[k].depth : c[i] = fs[i]

\* What a frame is, apart from what it waits for and has got.
SameWindow(g, f) == g.base = f.base /\ g.regs = f.regs /\ g.act = f.act /\ g.fn = f.fn
                    /\ g.newTarget = f.newTarget

\* A constructor keeps its instance while bindings grow.
LEMMA BoundGrows ==
    ASSUME NEW th \in Seq(Values), NEW th2, Grows(th, th2), NEW f, NEW g, SameWindow(g, f),
           Bound(f, th)
    PROVE  Bound(g, th2)
<1>1. f.act \in 1 .. Len(th) /\ f.act \in 1 .. Len(th2)
  BY DEF Grows, Bound
<1>2. Hole \notin 1 .. MaxCalls
  BY DEF Hole
<1> QED
  BY <1>1, <1>2 DEF Grows, Bound, SameWindow

\* Frame i goes on, over the natives that were called below it.
LEMMA Landing ==
    ASSUME NEW fs, NEW ns0, NEW th, Good(fs, ns0, th),
           NEW ns, Outer(ns, ns0), NEW th2, Grows(th, th2),
           NEW i \in 1 .. Len(fs), NEW g \in FrameSet, SameWindow(g, fs[i]), g.parked = "none",
           ns # <<>> => Last(ns).seam # "none" /\ Last(ns).depth < i,
           \A k \in 1 .. Len(ns0) : k > Len(ns) => ns0[k].depth >= i,
           Len(fs) <= MaxFrames + Len(ns)
    PROVE  LET c == Append(SubSeq(fs, 1, i - 1), g)
           IN Good(c, ns, th2) /\ Untouched(fs, ns0, c, ns) /\ Last(c) = g
<1> DEFINE c == Append(SubSeq(fs, 1, i - 1), g)
<1>1. /\ c \in Seq(FrameSet) /\ Len(c) = i /\ c[i] = g /\ \A j \in 1 .. i - 1 : c[j] = fs[j]
      /\ Len(fs) \in Nat /\ Len(ns) \in Nat /\ Len(ns0) \in Nat
  BY Cut DEF Good, Outer
<1> HIDE DEF c
<1>2. \A k \in 1 .. Len(ns) : ns[k] = ns0[k] /\ ns[k].depth < i /\ ns[k].depth \in Nat /\ k \in 1 .. Len(ns0)
  <2>1. \A k \in 1 .. Len(ns) : ns[k] = ns0[k] /\ k \in 1 .. Len(ns0) /\ ns[k].depth \in Nat
    <3> SUFFICES ASSUME NEW k \in 1 .. Len(ns)
                 PROVE  ns[k] = ns0[k] /\ k \in 1 .. Len(ns0) /\ ns[k].depth \in Nat
      OBVIOUS
    <3>1. ns \in Seq(NativeSet) /\ Len(ns) <= Len(ns0) /\ ns[k] = ns0[k]
      BY DEF Outer
    <3>2. ns[k] \in NativeSet
      BY <3>1
    <3>3. ns[k].depth \in Nat
      BY <3>2 DEF NativeSet
    <3>4. k \in 1 .. Len(ns0)
      BY <1>1, <3>1
    <3> QED
      BY <3>1, <3>3, <3>4
  <2>2. \A k \in 1 .. Len(ns) : k < Len(ns) => ns[k].depth < ns[Len(ns)].depth
    <3> SUFFICES ASSUME NEW k \in 1 .. Len(ns), k < Len(ns) PROVE ns[k].depth < ns[Len(ns)].depth
      OBVIOUS
    <3>1. Len(ns) \in 1 .. Len(ns0) /\ k \in 1 .. Len(ns) - 1 /\ Len(ns) \in 1 .. Len(ns)
      BY <1>1, <2>1
    <3>2. ns0[k].depth < ns0[Len(ns)].depth
      BY <3>1 DEF Good, Nested
    <3> QED
      BY <2>1, <3>1, <3>2
  <2>3. ns # <<>> => ns[Len(ns)].depth < i /\ Len(ns) \in 1 .. Len(ns)
    BY <1>1, EmptySeq DEF Last, Outer
  <2>4. \A k \in 1 .. Len(ns) : ns # <<>>
    BY <1>1
  <2> QED
    BY <1>1, <2>1, <2>2, <2>3, <2>4, SMTT(20)
<1>3. \A j \in 1 .. i : SameWindow(c[j], fs[j])
  BY <1>1 DEF SameWindow
<1>4. \A j \in 1 .. i : Bound(c[j], th2)
  BY <1>1, <1>3, BoundGrows DEF Good
<1>5. Stacked(c, ns)
  <2>1. \A j \in 1 .. i : c[j].parked # "none" => c[j].super = NoValue
    <3>1. \A j \in 1 .. i : j = i \/ (j \in 1 .. i - 1 /\ j \in 1 .. Len(fs))
      BY <1>1
    <3>2. \A j \in 1 .. Len(fs) : fs[j].parked # "none" => fs[j].super = NoValue
      BY DEF Good, Stacked
    <3> QED
      BY <1>1, <3>1, <3>2
  <2>2. ASSUME NEW j \in 1 .. i - 1
        PROVE  /\ c[j].parked # "none"
               /\ (\A k \in 1 .. Len(ns) : ns[k].depth # j) =>
                     /\ c[j + 1].base = End(c[j])
                     /\ c[j].parked \in {"construct", "super"} => c[j + 1].newTarget
    <3>1. j \in 1 .. Len(fs) - 1 /\ j + 1 \in 1 .. i /\ c[j] = fs[j]
      BY <1>1
    <3>2. (\A k \in 1 .. Len(ns) : ns[k].depth # j) => \A k \in 1 .. Len(ns0) : ns0[k].depth # j
      BY <1>1, <1>2
    <3>3. c[j + 1].base = fs[j + 1].base /\ c[j + 1].newTarget = fs[j + 1].newTarget
      BY <1>3, <3>1 DEF SameWindow
    <3> QED
      BY <3>1, <3>2, <3>3 DEF Good, Stacked
  <2> QED
    BY <1>1, <2>1, <2>2 DEF Stacked
<1>6. Nested(c, ns)
  <2> SUFFICES ASSUME NEW k \in 1 .. Len(ns)
               PROVE  LET n == ns[k] IN
       /\ n.depth \in 1 .. Len(c) /\ n.floor = n.depth /\ n.depth <= MaxFrames + k - 1
       /\ n.base = End(c[n.depth]) /\ c[n.depth].parked = "call"
       /\ n.seam # "none" =>
             /\ n.depth < Len(c) /\ c[n.depth + 1].base = n.base + Parked(n.seam)
             /\ n.seam = "construct_object" => c[n.depth + 1].newTarget
       /\ \A j \in 1 .. k - 1 : ns[j].seam # "none" /\ ns[j].depth < n.depth
    BY DEF Nested
  <2> DEFINE n == ns[k]
  <2>1. n = ns0[k] /\ n.depth < i /\ k \in 1 .. Len(ns0) /\ n.depth \in 1 .. i - 1 /\ n.depth + 1 \in 1 .. i
    <3>1. n = ns0[k] /\ n.depth < i /\ n.depth \in Nat /\ k \in 1 .. Len(ns0)
      BY <1>2
    <3>2. n.depth \in 1 .. Len(fs)
      BY <3>1 DEF Good, Nested
    <3> HIDE DEF n
    <3> QED
      BY <1>1, <3>1, <3>2
  <2>2. c[n.depth] = fs[n.depth] /\ SameWindow(c[n.depth + 1], fs[n.depth + 1])
    BY <1>1, <1>3, <2>1
  <2>3. \A j \in 1 .. k - 1 : ns[j] = ns0[j]
    BY <1>1, <1>2
  <2>4. /\ n.depth \in 1 .. Len(c) /\ n.floor = n.depth /\ n.depth <= MaxFrames + k - 1
        /\ n.base = End(c[n.depth]) /\ c[n.depth].parked = "call"
    BY <1>1, <2>1, <2>2, SMTT(20) DEF Good, Nested
  <2>5. n.seam # "none" =>
             /\ n.depth < Len(c) /\ c[n.depth + 1].base = n.base + Parked(n.seam)
             /\ n.seam = "construct_object" => c[n.depth + 1].newTarget
    BY <1>1, <2>1, <2>2 DEF Good, Nested, SameWindow
  <2>6. \A j \in 1 .. k - 1 : ns[j].seam # "none" /\ ns[j].depth < n.depth
    BY <2>1, <2>3 DEF Good, Nested
  <2> QED
    BY <2>4, <2>5, <2>6
<1>7. Controlled(c, ns)
  BY <1>1 DEF Controlled, Last
<1>8. Len(c) \in 1 .. MaxFrames + Len(ns)
  BY <1>1
<1>9. Untouched(fs, ns0, c, ns)
  <2>1. \A k \in 1 .. Len(ns) : \A j \in 1 .. ns0[k].depth : j \in 1 .. i - 1
    BY <1>1, <1>2, SMTT(20)
  <2> QED
    BY <1>1, <1>2, <2>1 DEF Untouched
<1>10. Last(c) = g
  BY <1>1 DEF Last
<1> QED
  BY <1>1, <1>4, <1>5, <1>6, <1>7, <1>8, <1>9, <1>10 DEF Good, Outer, Grows, c

-----------------------------------------------------------------------------
(* The other ways frames and natives change.                               *)

\* What Nested says of the k-th native.
Knows(n, k, fs, ns) ==
    /\ n.depth \in 1 .. Len(fs) /\ n.floor = n.depth /\ n.depth <= MaxFrames + k - 1
    /\ n.base = End(fs[n.depth]) /\ fs[n.depth].parked = "call"
    /\ n.seam # "none" =>
          /\ n.depth < Len(fs) /\ fs[n.depth + 1].base = n.base + Parked(n.seam)
          /\ n.seam = "construct_object" => fs[n.depth + 1].newTarget
    /\ \A j \in 1 .. k - 1 : ns[j].seam # "none" /\ ns[j].depth < n.depth

\* Nested, native by native.
LEMMA NestedKnows ==
    ASSUME NEW fs, NEW ns
    PROVE  Nested(fs, ns) <=> \A k \in 1 .. Len(ns) : Knows(ns[k], k, fs, ns)
BY DEF Nested, Knows

\* Windows and parking below frame i, as a native sees them, are the same in
\* frames that agree up to what the frame on top waits for.
LEMMA KnowsStill ==
    ASSUME NEW fs, NEW ns, NEW fs2, NEW ns2, NEW k \in Nat,
           Knows(ns[k], k, fs, ns), Len(fs) \in Nat, Len(fs2) \in Nat,
           ns2[k] = ns[k], \A j \in 1 .. k - 1 : ns2[j] = ns[j],
           ns[k].depth + 1 <= Len(fs2), ns[k].depth + 1 <= Len(fs),
           fs2[ns[k].depth] = fs[ns[k].depth],
           SameWindow(fs2[ns[k].depth + 1], fs[ns[k].depth + 1])
    PROVE  Knows(ns2[k], k, fs2, ns2)
BY SMTT(20) DEF Knows, SameWindow

\* A nested loop is over: its native has control, over the frame that called it.
LEMMA LoopOver ==
    ASSUME NEW fs, NEW ns0, NEW th, Good(fs, ns0, th),
           NEW ns, Outer(ns, ns0), ns # <<>>, Last(ns).seam # "none",
           \A k \in 1 .. Len(ns0) : k > Len(ns) => ns0[k].depth >= Last(ns).depth,
           NEW m \in NativeSet, m.depth = Last(ns).depth, m.floor = Last(ns).floor,
           m.base = Last(ns).base, m.seam = "none"
    PROVE  LET c  == SubSeq(fs, 1, m.depth)
               ms == Append(Front(ns), m)
           IN Good(c, ms, th) /\ Untouched(fs, ns0, c, ms) /\ End(Last(c)) = m.base
<1> DEFINE i == m.depth
           K == Len(ns)
           c == SubSeq(fs, 1, i)
           ms == Append(Front(ns), m)
<1>1. /\ fs \in Seq(FrameSet) /\ ns \in Seq(NativeSet) /\ K \in 1 .. Len(ns0) /\ K \in Nat
      /\ \A k \in 1 .. K : ns[k] = ns0[k] /\ k \in 1 .. Len(ns0)
      /\ Last(ns) = ns0[K] /\ Len(fs) \in Nat /\ Len(ns0) \in Nat
  <2>1. ns \in Seq(NativeSet) /\ K \in Nat /\ K # 0 /\ K <= Len(ns0) /\ Len(ns0) \in Nat
    BY EmptySeq DEF Outer, Good
  <2> QED
    BY <2>1 DEF Outer, Good, Last
<1>2. Knows(ns0[K], K, fs, ns0) /\ i \in 1 .. Len(fs)
  BY <1>1, NestedKnows, SMTT(20) DEF Good, Knows
<1>3. /\ c \in Seq(FrameSet) /\ Len(c) = i /\ \A j \in 1 .. i : c[j] = fs[j]
  BY <1>1, <1>2, Kept
<1>4. /\ ms \in Seq(NativeSet) /\ Len(ms) = K /\ ms[K] = m /\ \A k \in 1 .. K - 1 : ms[k] = ns[k]
  BY <1>1, LastReplaced
<1> HIDE DEF c, ms, K, i
<1>5. \A k \in 1 .. K - 1 : ns0[k].seam # "none" /\ ns0[k].depth < i
  BY <1>1, <1>2 DEF Knows, i
<1>6. Stacked(c, ms)
  <2>1. \A j \in 1 .. i : c[j].parked # "none" => c[j].super = NoValue
    BY <1>2, <1>3 DEF Good, Stacked
  <2>2. ASSUME NEW j \in 1 .. i - 1
        PROVE  /\ c[j].parked # "none"
               /\ (\A k \in 1 .. K : ms[k].depth # j) =>
                     /\ c[j + 1].base = End(c[j])
                     /\ c[j].parked \in {"construct", "super"} => c[j + 1].newTarget
    <3>1. j \in 1 .. Len(fs) - 1 /\ j + 1 \in 1 .. i /\ j \in 1 .. i /\ j < i
      BY <1>2
    <3>2. c[j] = fs[j] /\ c[j + 1] = fs[j + 1]
      BY <1>3, <3>1
    <3>3. ASSUME \A k \in 1 .. K : ms[k].depth # j, NEW k \in 1 .. Len(ns0)
          PROVE  ns0[k].depth # j
      <4>1. CASE k > K
        <5>1. ns0[k].depth >= i
          BY <4>1 DEF K, i
        <5> QED
          BY <1>1, <1>2, <3>1, <5>1
      <4>2. CASE k = K
        BY <1>1, <3>1, <4>2 DEF i
      <4>3. CASE k < K
        <5>1. k \in 1 .. K - 1 /\ k \in 1 .. K
          BY <1>1, <4>3
        <5> QED
          BY <1>1, <1>4, <3>3, <5>1
      <4> QED
        BY <1>1, <4>1, <4>2, <4>3
    <3> QED
      BY <3>1, <3>2, <3>3 DEF Good, Stacked
  <2> QED
    BY <1>3, <1>4, <2>1, <2>2 DEF Stacked
<1>7. Nested(c, ms)
  <2>1. ASSUME NEW k \in 1 .. K - 1 PROVE Knows(ms[k], k, c, ms)
    <3>1. k \in 1 .. Len(ns0) /\ k \in Nat /\ ms[k] = ns0[k] /\ \A j \in 1 .. k - 1 : ms[j] = ns0[j]
      BY <1>1, <1>4, SMTT(20)
    <3>2. Knows(ns0[k], k, fs, ns0) /\ ns0[k].depth < i
      BY <1>5, <3>1, NestedKnows DEF Good
    <3>3. ns0[k].depth \in 1 .. i /\ ns0[k].depth + 1 \in 1 .. i
      BY <1>2, <3>2, SMTT(20) DEF Knows
    <3>4. c[ns0[k].depth] = fs[ns0[k].depth] /\ c[ns0[k].depth + 1] = fs[ns0[k].depth + 1]
      BY <1>3, <3>3
    <3> QED
      <4>1. /\ Len(c) \in Nat /\ Len(fs) \in Nat /\ ms[k].depth + 1 <= Len(c)
            /\ ms[k].depth + 1 <= Len(fs)
        BY <1>1, <1>2, <1>3, <3>1, <3>3
      <4>2. /\ c[ns0[k].depth] = fs[ns0[k].depth]
            /\ SameWindow(c[ns0[k].depth + 1], fs[ns0[k].depth + 1])
        BY <3>4 DEF SameWindow
      <4> QED
        BY <3>1, <3>2, <4>1, <4>2, KnowsStill
  <2>2. Knows(ms[K], K, c, ms)
    <3>1. c[i] = fs[i] /\ i \in 1 .. Len(c)
      BY <1>2, <1>3
    <3>2. m.base = End(fs[i]) /\ fs[i].parked = "call" /\ m.floor = i /\ i <= MaxFrames + K - 1
      BY <1>1, <1>2 DEF Knows, i
    <3>3. \A j \in 1 .. K - 1 : ms[j].seam # "none" /\ ms[j].depth < i
      <4>1. \A j \in 1 .. K - 1 : ms[j] = ns[j] /\ j \in 1 .. K
        BY <1>1, <1>4
      <4>2. \A j \in 1 .. K - 1 : ms[j] = ns0[j]
        BY <1>1, <4>1
      <4> QED
        BY <1>5, <4>2
    <3>4. ms[K].depth = i
      BY <1>4 DEF i
    <3> QED
      BY <1>4, <3>1, <3>2, <3>3, <3>4 DEF Knows
  <2>3. \A k \in 1 .. K : k = K \/ k \in 1 .. K - 1
    BY <1>1
  <2> QED
    BY <1>4, <2>1, <2>2, <2>3, NestedKnows
<1>8. Controlled(c, ms)
  <2>1. ms # <<>> /\ Last(ms) = m
    BY <1>1, <1>4 DEF Last
  <2> QED
    BY <1>3, <2>1 DEF Controlled, i
<1>9. \A j \in 1 .. i : Bound(c[j], th)
  BY <1>2, <1>3 DEF Good
<1>10. Len(c) \in 1 .. MaxFrames + Len(ms)
  BY <1>1, <1>2, <1>3, <1>4, SMTT(20) DEF Knows, i
<1>11. Untouched(fs, ns0, c, ms)
  <2>1. ASSUME NEW k \in 1 .. K PROVE ns0[k].depth <= i /\ ns0[k].depth \in Nat
    <3>1. k \in 1 .. Len(ns0) /\ (k = K \/ k \in 1 .. K - 1)
      BY <1>1
    <3>2. ns0[k].depth \in Nat
      BY <3>1, NestedKnows DEF Good, Knows
    <3>3. ns0[K].depth = i /\ i \in Nat
      BY <1>1, <1>2 DEF i
    <3> QED
      BY <1>5, <3>1, <3>2, <3>3
  <2> QED
    BY <1>2, <1>3, <1>4, <2>1 DEF Untouched
<1>12. End(Last(c)) = m.base
  <2>1. Last(c) = fs[i]
    BY <1>2, <1>3 DEF Last
  <2>2. ns0[K].depth = i /\ ns0[K].base = m.base
    BY <1>1 DEF i
  <2>3. ns0[K].base = End(fs[ns0[K].depth])
    BY <1>1, <1>2 DEF Knows
  <2> QED
    BY <2>1, <2>2, <2>3
<1> QED
  BY <1>3, <1>4, <1>6, <1>7, <1>8, <1>9, <1>10, <1>11, <1>12 DEF Good, c, ms, i

\* The frame on top calls bytecode: it parks and a window is laid behind its own.
LEMMA Called ==
    ASSUME NEW fs, NEW ns, NEW th, Good(fs, ns, th),
           ns # <<>> => Last(ns).seam # "none", Len(fs) < MaxFrames,
           NEW g \in FrameSet, SameWindow(g, fs[Len(fs)]), g.parked # "none", g.super = NoValue,
           NEW f \in FrameSet, f.base = End(g), f.parked = "none",
           g.parked \in {"construct", "super"} => f.newTarget,
           NEW th2, Grows(th, th2), Bound(f, th2)
    PROVE  LET c == Append(Append(Front(fs), g), f)
           IN Good(c, ns, th2) /\ Untouched(fs, ns, c, ns) /\ Last(c) = f
<1> DEFINE N == Len(fs)
           b == Append(Front(fs), g)
           c == Append(b, f)
<1>1. fs \in Seq(FrameSet) /\ N \in 1 .. N /\ N \in Nat /\ Len(ns) \in Nat /\ ns \in Seq(NativeSet)
  BY DEF Good
<1>2. b \in Seq(FrameSet) /\ Len(b) = N /\ b[N] = g /\ \A j \in 1 .. N - 1 : b[j] = fs[j]
  <2>1. fs # <<>>
    BY <1>1
  <2> QED
    BY <1>1, <2>1, LastReplaced
<1> HIDE DEF b, N
<1>3. /\ c \in Seq(FrameSet) /\ Len(c) = N + 1 /\ c[N + 1] = f /\ c[N] = g
      /\ \A j \in 1 .. N - 1 : c[j] = fs[j]
  <2>1. /\ c \in Seq(FrameSet) /\ Len(c) = Len(b) + 1 /\ c[Len(b) + 1] = f
        /\ \A j \in 1 .. Len(b) : c[j] = b[j]
    BY <1>2, AppendProperties
  <2> QED
    BY <1>1, <1>2, <2>1
<1> HIDE DEF c
<1>4. \A j \in 1 .. N : SameWindow(c[j], fs[j])
  BY <1>1, <1>3, SMTT(20) DEF SameWindow, N
<1>5. \A j \in 1 .. N + 1 : Bound(c[j], th2)
  <2>1. \A j \in 1 .. N : Bound(c[j], th2)
    BY <1>4, BoundGrows DEF Good, N
  <2> QED
    BY <1>1, <1>3, <2>1
<1>6. \A k \in 1 .. Len(ns) : Knows(ns[k], k, fs, ns) /\ ns[k].depth < N /\ ns[k].depth \in Nat
                              /\ ns[k].seam # "none"
  <2>1. \A k \in 1 .. Len(ns) : Knows(ns[k], k, fs, ns)
    BY NestedKnows DEF Good
  <2>2. ASSUME NEW k \in 1 .. Len(ns) PROVE ns[k].seam # "none"
    <3>1. CASE k = Len(ns)
      BY <1>1, <3>1 DEF Last
    <3>2. CASE k < Len(ns)
      <4>1. Len(ns) \in 1 .. Len(ns) /\ k \in 1 .. Len(ns) - 1
        BY <1>1, <3>2
      <4> QED
        BY <2>1, <4>1 DEF Knows
    <3> QED
      BY <1>1, <3>1, <3>2
  <2> QED
    BY <2>1, <2>2, SMTT(20) DEF Knows, N
<1>7. Stacked(c, ns)
  <2>1. ASSUME NEW j \in 1 .. N + 1, c[j].parked # "none" PROVE c[j].super = NoValue
    <3>1. j \in 1 .. N - 1 \/ j = N \/ j = N + 1
      BY <1>1
    <3> QED
      BY <1>1, <1>3, <2>1, <3>1, SMTT(20) DEF Good, Stacked, N
  <2>2. ASSUME NEW j \in 1 .. N
        PROVE  /\ c[j].parked # "none"
               /\ (\A k \in 1 .. Len(ns) : ns[k].depth # j) =>
                     /\ c[j + 1].base = End(c[j])
                     /\ c[j].parked \in {"construct", "super"} => c[j + 1].newTarget
    <3>1. CASE j = N
      BY <1>3, <3>1
    <3>2. CASE j # N
      <4>1. j \in 1 .. N - 1 /\ j + 1 \in 1 .. N /\ c[j] = fs[j]
        BY <1>1, <1>3, <3>2
      <4>2. c[j + 1].base = fs[j + 1].base /\ c[j + 1].newTarget = fs[j + 1].newTarget
        BY <1>4, <4>1 DEF SameWindow
      <4> QED
        BY <4>1, <4>2 DEF Good, Stacked, N
    <3> QED
      BY <3>1, <3>2
  <2>3. \A j \in 1 .. (N + 1) - 1 : j \in 1 .. N
    BY <1>1
  <2> QED
    BY <1>3, <2>1, <2>2, <2>3 DEF Stacked
<1>8. Nested(c, ns)
  <2>1. ASSUME NEW k \in 1 .. Len(ns) PROVE Knows(ns[k], k, c, ns)
    <3>1. Knows(ns[k], k, fs, ns) /\ ns[k].depth \in 1 .. N - 1 /\ k \in Nat
      BY <1>1, <1>6 DEF Knows
    <3>2. ns[k].depth + 1 \in 1 .. N
      BY <1>1, <3>1
    <3>3. /\ ns[k].depth + 1 <= Len(c) /\ ns[k].depth + 1 <= Len(fs) /\ Len(c) \in Nat
          /\ Len(fs) \in Nat
      BY <1>1, <1>3, <3>2 DEF N
    <3> QED
      BY <1>3, <1>4, <3>1, <3>2, <3>3, KnowsStill
  <2> QED
    BY <2>1, NestedKnows
<1>9. Controlled(c, ns)
  BY <1>3 DEF Controlled, Last
<1>10. Len(c) \in 1 .. MaxFrames + Len(ns)
  BY <1>1, <1>3 DEF N
<1>11. Untouched(fs, ns, c, ns) /\ Last(c) = f
  <2>1. \A k \in 1 .. Len(ns) : \A j \in 1 .. ns[k].depth : j \in 1 .. N - 1
    BY <1>1, <1>6
  <2> QED
    BY <1>1, <1>3, <1>6, <2>1 DEF Untouched, Last
<1> QED
  BY <1>1, <1>3, <1>5, <1>7, <1>8, <1>9, <1>10, <1>11 DEF Good, Grows, c, b

\* Every native on the Rust stack below the one in control, and every native
\* while bytecode runs, has a nested loop of its own.
LEMMA LoopsRun ==
    ASSUME NEW fs, NEW ns, NEW th, Good(fs, ns, th), NEW k \in 1 .. Len(ns),
           k < Len(ns) \/ Last(ns).seam # "none"
    PROVE  ns[k].seam # "none" /\ ns[k].depth < Len(fs) /\ ns[k].depth \in 1 .. Len(fs)
<1>1. Len(ns) \in Nat
  BY DEF Good
<1>2. CASE k = Len(ns)
  BY <1>1, <1>2 DEF Good, Nested, Last
<1>3. CASE k < Len(ns)
  <2>1. Len(ns) \in 1 .. Len(ns) /\ k \in 1 .. Len(ns) - 1
    BY <1>1, <1>3
  <2>2. ns[k].seam # "none"
    BY <2>1 DEF Good, Nested
  <2> QED
    BY <2>2 DEF Good, Nested
<1> QED
  BY <1>1, <1>2, <1>3

\* A native is called: the frame on top parks and the native is on the Rust stack.
LEMMA NativeCalled ==
    ASSUME NEW fs, NEW ns, NEW th, Good(fs, ns, th),
           ns # <<>> => Last(ns).seam # "none",
           NEW g \in FrameSet, SameWindow(g, fs[Len(fs)]), g.parked = "call", g.super = NoValue,
           NEW m \in NativeSet, m.depth = Len(fs), m.floor = Len(fs), m.base = End(g),
           m.seam = "none"
    PROVE  LET c  == Append(Front(fs), g)
               ms == Append(ns, m)
           IN Good(c, ms, th) /\ Untouched(fs, ns, c, ms) /\ Last(c) = g
<1> DEFINE N == Len(fs)
           K == Len(ns)
           c == Append(Front(fs), g)
           ms == Append(ns, m)
<1>1. /\ fs \in Seq(FrameSet) /\ N \in 1 .. N /\ N \in Nat /\ K \in Nat /\ ns \in Seq(NativeSet)
      /\ N <= MaxFrames + K
  BY DEF Good
<1>2. c \in Seq(FrameSet) /\ Len(c) = N /\ c[N] = g /\ \A j \in 1 .. N - 1 : c[j] = fs[j]
  <2>1. fs # <<>>
    BY <1>1
  <2> QED
    BY <1>1, <2>1, LastReplaced
<1>3. ms \in Seq(NativeSet) /\ Len(ms) = K + 1 /\ ms[K + 1] = m /\ \A k \in 1 .. K : ms[k] = ns[k]
  BY <1>1, AppendProperties
<1>4. \A k \in 1 .. K : ns[k].seam # "none" /\ ns[k].depth < N /\ ns[k].depth \in 1 .. N
  <2>1. \A k \in 1 .. K : k < K \/ k = K
    BY <1>1
  <2>2. \A k \in 1 .. K : ns # <<>>
    BY <1>1
  <2> QED
    BY <2>1, <2>2, LoopsRun
<1> HIDE DEF c, ms, N, K
<1>5. \A j \in 1 .. N : SameWindow(c[j], fs[j])
  BY <1>1, <1>2, SMTT(20) DEF SameWindow, N
<1>6. \A j \in 1 .. N : Bound(c[j], th)
  <2>1. Grows(th, th)
    BY GrowsAlready DEF Good
  <2> QED
    BY <1>5, <2>1, BoundGrows DEF Good, N
<1>7. Stacked(c, ms)
  <2>1. ASSUME NEW j \in 1 .. N, c[j].parked # "none" PROVE c[j].super = NoValue
    <3>1. j \in 1 .. N - 1 \/ j = N
      BY <1>1
    <3> QED
      BY <1>1, <1>2, <2>1, <3>1 DEF Good, Stacked, N
  <2>2. ASSUME NEW j \in 1 .. N - 1
        PROVE  /\ c[j].parked # "none"
               /\ (\A k \in 1 .. K + 1 : ms[k].depth # j) =>
                     /\ c[j + 1].base = End(c[j])
                     /\ c[j].parked \in {"construct", "super"} => c[j + 1].newTarget
    <3>1. j \in 1 .. N /\ j + 1 \in 1 .. N /\ c[j] = fs[j]
      BY <1>1, <1>2
    <3>2. c[j + 1].base = fs[j + 1].base /\ c[j + 1].newTarget = fs[j + 1].newTarget
      BY <1>5, <3>1 DEF SameWindow
    <3>3. (\A k \in 1 .. K + 1 : ms[k].depth # j) => \A k \in 1 .. K : ns[k].depth # j
      <4>1. \A k \in 1 .. K : k \in 1 .. K + 1
        BY <1>1
      <4> QED
        BY <1>3, <4>1
    <3> QED
      BY <3>1, <3>2, <3>3 DEF Good, Stacked, N, K
  <2> QED
    BY <1>2, <1>3, <2>1, <2>2 DEF Stacked
<1>8. Nested(c, ms)
  <2>1. ASSUME NEW k \in 1 .. K PROVE Knows(ms[k], k, c, ms)
    <3>1. /\ Knows(ns[k], k, fs, ns) /\ ns[k].depth \in 1 .. N - 1 /\ k \in Nat
          /\ ms[k] = ns[k] /\ \A j \in 1 .. k - 1 : ms[j] = ns[j]
      BY <1>1, <1>3, <1>4, NestedKnows DEF Good, K
    <3>2. ns[k].depth + 1 \in 1 .. N
      BY <1>1, <3>1
    <3>3. /\ ns[k].depth + 1 <= Len(c) /\ ns[k].depth + 1 <= Len(fs) /\ Len(c) \in Nat
          /\ Len(fs) \in Nat
      BY <1>1, <1>2, <3>2 DEF N
    <3> QED
      BY <1>2, <1>5, <3>1, <3>2, <3>3, KnowsStill
  <2>2. Knows(ms[K + 1], K + 1, c, ms)
    <3>1. m.depth = N /\ N \in 1 .. Len(c) /\ m.floor = N /\ N <= MaxFrames + (K + 1) - 1
      BY <1>1, <1>2 DEF N
    <3>2. m.base = End(c[N]) /\ c[N].parked = "call"
      BY <1>2
    <3>3. \A j \in 1 .. (K + 1) - 1 : j \in 1 .. K
      BY <1>1
    <3> QED
      BY <1>3, <1>4, <3>1, <3>2, <3>3 DEF Knows
  <2>3. \A k \in 1 .. K + 1 : k = K + 1 \/ k \in 1 .. K
    BY <1>1
  <2> QED
    BY <1>3, <2>1, <2>2, <2>3, NestedKnows
<1>9. Controlled(c, ms)
  <2>1. ms # <<>> /\ Last(ms) = m
    BY <1>1, <1>3 DEF Last
  <2> QED
    BY <1>2, <2>1 DEF Controlled, N
<1>10. Len(c) \in 1 .. MaxFrames + Len(ms)
  BY <1>1, <1>2, <1>3
<1>11. Untouched(fs, ns, c, ms) /\ Last(c) = g
  <2>1. \A k \in 1 .. K : \A j \in 1 .. ns[k].depth : j \in 1 .. N - 1
    BY <1>1, <1>4
  <2>2. \A k \in 1 .. Len(ms) : k <= K => k \in 1 .. K
    BY <1>1, <1>3
  <2>3. \A k \in 1 .. K : Len(c) >= ns[k].depth
    BY <1>1, <1>2, <1>4
  <2>4. \A k \in 1 .. K : \A j \in 1 .. ns[k].depth : c[j] = fs[j]
    BY <1>2, <2>1
  <2>5. Untouched(fs, ns, c, ms)
    BY <2>2, <2>3, <2>4 DEF Untouched, K
  <2> QED
    BY <1>2, <2>5 DEF Last
<1> QED
  BY <1>2, <1>3, <1>6, <1>7, <1>8, <1>9, <1>10, <1>11 DEF Good, c, ms

\* The native in control re-enters the interpreter through one of its seams.
LEMMA Reentered ==
    ASSUME NEW fs, NEW ns, NEW th, Good(fs, ns, th),
           ns # <<>>, Last(ns).seam = "none",
           NEW m \in NativeSet, m.depth = Last(ns).depth, m.floor = Len(fs), m.base = End(fs[Len(fs)]),
           m.seam # "none",
           NEW f \in FrameSet, f.base = m.base + Parked(m.seam), f.parked = "none",
           m.seam = "construct_object" => f.newTarget,
           NEW th2, Grows(th, th2), Bound(f, th2)
    PROVE  LET c  == Append(fs, f)
               ms == Append(Front(ns), m)
           IN Good(c, ms, th2) /\ Untouched(fs, ns, c, ms) /\ Last(c) = f
<1> DEFINE N == Len(fs)
           K == Len(ns)
           c == Append(fs, f)
           ms == Append(Front(ns), m)
<1>1. /\ fs \in Seq(FrameSet) /\ N \in 1 .. N /\ N \in Nat /\ K \in 1 .. K /\ K \in Nat
      /\ ns \in Seq(NativeSet) /\ N <= MaxFrames + K /\ th \in Seq(Values)
  BY EmptySeq DEF Good
<1>2. c \in Seq(FrameSet) /\ Len(c) = N + 1 /\ c[N + 1] = f /\ \A j \in 1 .. N : c[j] = fs[j]
  BY <1>1, AppendProperties
<1>3. /\ ms \in Seq(NativeSet) /\ Len(ms) = K /\ ms[K] = m /\ \A k \in 1 .. K - 1 : ms[k] = ns[k]
  BY <1>1, LastReplaced
<1>4. /\ Knows(ns[K], K, fs, ns) /\ ns[K].depth = N /\ m.depth = N
      /\ \A k \in 1 .. K : Knows(ns[k], k, fs, ns)
  BY <1>1, NestedKnows DEF Good, Controlled, Last
<1>5. \A k \in 1 .. K - 1 : ns[k].seam # "none" /\ ns[k].depth < N
  BY <1>4 DEF Knows
<1> HIDE DEF c, ms, N, K
<1>6. \A j \in 1 .. N + 1 : Bound(c[j], th2)
  <2>1. \A j \in 1 .. N : Bound(c[j], th2)
    BY <1>1, <1>2, BoundGrows DEF Good, N, SameWindow
  <2>2. \A j \in 1 .. N + 1 : j = N + 1 \/ j \in 1 .. N
    BY <1>1
  <2> QED
    BY <1>2, <2>1, <2>2
<1>7. Stacked(c, ms)
  <2>1. ASSUME NEW j \in 1 .. N + 1, c[j].parked # "none" PROVE c[j].super = NoValue
    <3>1. j \in 1 .. N \/ j = N + 1
      BY <1>1
    <3> QED
      BY <1>1, <1>2, <2>1, <3>1 DEF Good, Stacked, N
  <2>2. ASSUME NEW j \in 1 .. N
        PROVE  /\ c[j].parked # "none"
               /\ (\A k \in 1 .. K : ms[k].depth # j) =>
                     /\ c[j + 1].base = End(c[j])
                     /\ c[j].parked \in {"construct", "super"} => c[j + 1].newTarget
    <3>1. CASE j = N
      BY <1>1, <1>2, <1>3, <1>4, <3>1, SMTT(20) DEF Knows
    <3>2. CASE j # N
      <4>1. j \in 1 .. N - 1 /\ c[j] = fs[j] /\ c[j + 1] = fs[j + 1]
        <5>1. j \in 1 .. N - 1 /\ j + 1 \in 1 .. N
          BY <1>1, <3>2
        <5> QED
          BY <1>2, <5>1
      <4>2. ASSUME \A k \in 1 .. K : ms[k].depth # j, NEW k \in 1 .. K PROVE ns[k].depth # j
        <5>1. CASE k = K
          BY <1>4, <3>2, <5>1
        <5>2. CASE k # K
          <6>1. k \in 1 .. K - 1
            BY <1>1, <5>2
          <6> QED
            BY <1>3, <4>2, <6>1
        <5> QED
          BY <5>1, <5>2
      <4> QED
        BY <4>1, <4>2 DEF Good, Stacked, N, K
    <3> QED
      BY <3>1, <3>2
  <2>3. \A j \in 1 .. (N + 1) - 1 : j \in 1 .. N
    BY <1>1
  <2> QED
    BY <1>2, <1>3, <2>1, <2>2, <2>3 DEF Stacked
<1>8. Nested(c, ms)
  <2>1. ASSUME NEW k \in 1 .. K - 1 PROVE Knows(ms[k], k, c, ms)
    <3>1. /\ Knows(ns[k], k, fs, ns) /\ ns[k].depth \in 1 .. N - 1 /\ k \in Nat
          /\ ms[k] = ns[k] /\ \A j \in 1 .. k - 1 : ms[j] = ns[j]
      <4>1. k \in 1 .. K /\ \A j \in 1 .. k - 1 : j \in 1 .. K - 1
        BY <1>1
      <4>2. Knows(ns[k], k, fs, ns) /\ ns[k].depth < N
        BY <1>4, <1>5, <4>1
      <4>3. ns[k].depth \in 1 .. N - 1
        BY <1>1, <4>2, SMTT(20) DEF Knows, N
      <4> QED
        BY <1>3, <4>1, <4>2, <4>3
    <3>2. ns[k].depth + 1 \in 1 .. N /\ ns[k].depth \in 1 .. N
      BY <1>1, <3>1, SMTT(20)
    <3>3. /\ ns[k].depth + 1 <= Len(c) /\ ns[k].depth + 1 <= Len(fs) /\ Len(c) \in Nat
          /\ Len(fs) \in Nat
      BY <1>1, <1>2, <3>2, SMTT(20) DEF N
    <3>4. /\ c[ns[k].depth] = fs[ns[k].depth]
          /\ SameWindow(c[ns[k].depth + 1], fs[ns[k].depth + 1])
      BY <1>2, <3>2 DEF SameWindow
    <3> QED
      BY <3>1, <3>3, <3>4, KnowsStill
  <2>2. Knows(ms[K], K, c, ms)
    <3>1. m.floor = N /\ N \in 1 .. Len(c) /\ N < Len(c) /\ N <= MaxFrames + K - 1
      BY <1>1, <1>2, <1>4 DEF Knows, N
    <3>2. c[N] = fs[N] /\ m.base = End(fs[N]) /\ fs[N].parked = "call"
      BY <1>1, <1>2, <1>4 DEF Knows, N
    <3>3. \A j \in 1 .. K - 1 : ms[j].seam # "none" /\ ms[j].depth < N
      BY <1>3, <1>5
    <3> QED
      BY <1>2, <1>3, <1>4, <3>1, <3>2, <3>3, SMTT(20) DEF Knows
  <2>3. \A k \in 1 .. K : k = K \/ k \in 1 .. K - 1
    BY <1>1
  <2> QED
    BY <1>3, <2>1, <2>2, <2>3, NestedKnows
<1>9. Controlled(c, ms)
  <2>1. Last(ms) = m /\ Last(c) = f
    BY <1>2, <1>3 DEF Last
  <2> QED
    BY <2>1 DEF Controlled
<1>10. Len(c) \in 1 .. MaxFrames + Len(ms)
  BY <1>1, <1>2, <1>3, <1>4 DEF Knows, N
<1>11. Untouched(fs, ns, c, ms) /\ Last(c) = f
  <2>1. \A k \in 1 .. K : ns[k].depth \in 1 .. N
    BY <1>4 DEF Knows, N
  <2>2. \A k \in 1 .. K : \A j \in 1 .. ns[k].depth : j \in 1 .. N
    BY <1>1, <2>1
  <2> QED
    BY <1>1, <1>2, <1>3, <2>1, <2>2 DEF Untouched, Last
<1> QED
  BY <1>1, <1>2, <1>3, <1>6, <1>7, <1>8, <1>9, <1>10, <1>11 DEF Good, Grows, c, ms

-----------------------------------------------------------------------------
(* The steps.                                                              *)

\* What a step that goes on shows of the new state.
Going == Good(frames', natives', this') /\ Untouched(frames, natives, frames', natives')
         /\ top' = End(Last(frames'))

\* While bytecode runs, every native has a loop, and the frame on top is not parked.
LEMMA RunningMeans ==
    ASSUME CallInv, InLoop
    PROVE  /\ ~ended /\ Good(frames, natives, this) /\ top = End(Frame)
           /\ natives # <<>> => Last(natives).seam # "none"
           /\ frames \in Seq(FrameSet) /\ Len(frames) \in 1 .. Len(frames) /\ Len(frames) \in Nat
           /\ frames # <<>> /\ Frame = frames[Len(frames)] /\ Frame \in FrameSet
           /\ Frame.parked = "none" /\ Outer(natives, natives)
<1>1. ~ended /\ (natives # <<>> => Last(natives).seam # "none")
  BY DEF InLoop, Control
<1>2. Good(frames, natives, this) /\ top = End(Frame)
  BY <1>1 DEF CallInv
<1>3. /\ frames \in Seq(FrameSet) /\ Len(frames) \in 1 .. Len(frames) /\ Len(frames) \in Nat
      /\ frames # <<>>
  BY <1>2, EmptySeq DEF Good
<1>4. Outer(natives, natives)
  <2>1. natives \in Seq(NativeSet) /\ Len(natives) \in Nat
    BY <1>2 DEF Good
  <2> QED
    BY <2>1 DEF Outer
<1> QED
  BY <1>1, <1>2, <1>3, <1>4 DEF Good, Controlled, Frame, Last

\* While a native has control, the frame that called it is on top.
LEMMA InNativeMeans ==
    ASSUME CallInv, InNative
    PROVE  LET K == Len(natives) IN
           /\ ~ended /\ Good(frames, natives, this) /\ top = End(Frame)
           /\ natives # <<>> /\ Last(natives).seam = "none" /\ K \in 1 .. K /\ K \in Nat
           /\ Last(natives) = natives[K] /\ natives[K] \in NativeSet
           /\ natives[K].depth = Len(frames) /\ Len(frames) <= MaxFrames + K - 1
           /\ natives[K].base = End(Frame)
           /\ frames \in Seq(FrameSet) /\ Len(frames) \in 1 .. Len(frames) /\ Len(frames) \in Nat
           /\ frames # <<>> /\ Frame = frames[Len(frames)] /\ Frame \in FrameSet
           /\ Frame.parked = "call"
           /\ Outer(Front(natives), natives) /\ Len(Front(natives)) = K - 1
           /\ Front(natives) # <<>> => /\ Last(Front(natives)) = natives[K - 1]
                                       /\ natives[K - 1].seam # "none" /\ K - 1 \in 1 .. K
                                       /\ natives[K - 1].depth < Len(frames)
<1> DEFINE K == Len(natives)
<1>1. ~ended /\ natives # <<>> /\ Last(natives).seam = "none"
  BY DEF InNative, Control
<1>2. Good(frames, natives, this) /\ top = End(Frame)
  BY <1>1 DEF CallInv
<1>3. /\ frames \in Seq(FrameSet) /\ Len(frames) \in 1 .. Len(frames) /\ Len(frames) \in Nat
      /\ frames # <<>> /\ natives \in Seq(NativeSet) /\ K \in 1 .. K /\ K \in Nat
  BY <1>1, <1>2, EmptySeq DEF Good
<1>4. Frame = frames[Len(frames)] /\ Frame \in FrameSet /\ Last(natives) = natives[K]
      /\ natives[K] \in NativeSet
  BY <1>3 DEF Frame, Last
<1>5. natives[K].depth = Len(frames)
  BY <1>1, <1>2, <1>4 DEF Good, Controlled
<1>6. Knows(natives[K], K, frames, natives)
  BY <1>2, <1>3, NestedKnows DEF Good
<1>7. /\ Len(frames) <= MaxFrames + K - 1 /\ natives[K].base = End(Frame)
      /\ Frame.parked = "call"
  BY <1>4, <1>5, <1>6 DEF Knows
<1>8. /\ Front(natives) \in Seq(NativeSet) /\ Len(Front(natives)) = K - 1
      /\ \A k \in 1 .. K - 1 : Front(natives)[k] = natives[k]
  <2>1. K - 1 \in 0 .. Len(natives)
    BY <1>3
  <2> HIDE DEF K
  <2> QED
    BY <1>3, <2>1, Kept DEF Front, K
<1>9. Outer(Front(natives), natives)
  BY <1>3, <1>8 DEF Outer
<1>10. ASSUME Front(natives) # <<>>
       PROVE  /\ Last(Front(natives)) = natives[K - 1]
              /\ natives[K - 1].seam # "none" /\ K - 1 \in 1 .. K
              /\ natives[K - 1].depth < Len(frames)
  <2>1. K - 1 # 0
    BY <1>8, <1>10, EmptySeq
  <2>2. K - 1 \in 1 .. K - 1 /\ K - 1 \in 1 .. K
    <3>1. K \in Nat /\ K # 0 /\ K - 1 # 0
      BY <1>3, <2>1
    <3> HIDE DEF K
    <3> QED
      BY <3>1
  <2>3. Last(Front(natives)) = natives[K - 1]
    BY <1>8, <2>2 DEF Last
  <2> QED
    BY <1>5, <1>6, <2>2, <2>3 DEF Knows
<1> HIDE DEF K
<1> QED
  BY <1>1, <1>2, <1>3, <1>4, <1>5, <1>7, <1>8, <1>9, <1>10 DEF K

\* What every step keeps.
Fits == CallInv' /\ FloorHoldsStep /\ ThisBoundOnceStep

\* A step that goes on keeps the invariant, the floors and the bindings.
LEMMA Goes ==
    ASSUME CallInv, ~ended, Going, Grows(this, this'), calls' \in 1 .. MaxCalls,
           Len(this') = calls', deadline' = deadline, ended' = ended
    PROVE  Fits
<1>1. CallInv' /\ FloorHoldsStep
  BY DEF CallInv, InTime, Going, Good, Frame, FloorHoldsStep, Untouched
<1>2. ThisBoundOnceStep
  <2>1. this \in Seq(Values) /\ DOMAIN this = 1 .. Len(this)
    BY DEF CallInv
  <2> QED
    BY <2>1 DEF ThisBoundOnceStep, Grows, IsObject, Hole
<1> QED
  BY <1>1, <1>2 DEF Fits

\* The outermost execute returns, with no frame and no native left.
LEMMA Ends ==
    ASSUME CallInv, frames' = <<>>, natives' = <<>>, ended', UNCHANGED <<this, calls, deadline>>,
           ended' \in BOOLEAN
    PROVE  Fits
<1>1. Len(<<>>) = 0
  OBVIOUS
<1>2. this \in Seq(Values)
  BY DEF CallInv
<1> QED
  BY <1>1, <1>2 DEF CallInv, InTime, FloorHoldsStep, ThisBoundOnceStep, Fits

-----------------------------------------------------------------------------
(* Throws.                                                                 *)

\* What a throw does when the natives in `outer` stay on the Rust stack.
Thrown(outer, floor) ==
    LET taken == CoveringFrames(frames, floor)
        i     == Innermost(taken)
        n     == Last(outer)
        end   == seam_ends(n, SubSeq(frames, 1, floor), frames[floor + 1].base)
    IN IF taken # {}
       THEN /\ \E g \in FrameSet : /\ SameWindow(g, frames[i]) /\ g.parked = "none"
                                   /\ frames' = Append(SubSeq(frames, 1, i - 1), g)
            /\ top' = End(frames[i]) /\ natives' = outer /\ UNCHANGED <<deadline, ended>>
       ELSE IF outer = <<>>
       THEN frames' = <<>> /\ natives' = outer /\ ended' = TRUE /\ UNCHANGED deadline
       ELSE /\ frames' = end.frames /\ top' = end.top
            /\ natives' = Append(Front(outer), [n EXCEPT !.seam = "none"])
            /\ UNCHANGED <<deadline, ended>>

\* A throw lands above the floor of the innermost of those natives, or is that native's.
LEMMA ThrowFits ==
    ASSUME CallInv, ~ended, UNCHANGED <<this, calls>>,
           NEW outer, Outer(outer, natives), outer # <<>> => Last(outer).seam # "none",
           \A k \in 1 .. Len(natives) : k > Len(outer) => natives[k].depth >= Len(frames),
           Len(frames) <= MaxFrames + Len(outer),
           NEW floor, floor = (IF outer = <<>> THEN 0 ELSE Last(outer).floor),
           Thrown(outer, floor)
    PROVE  Fits
<1> DEFINE taken == CoveringFrames(frames, floor)
           K == Len(outer)
<1>1. /\ Good(frames, natives, this) /\ frames \in Seq(FrameSet) /\ Len(frames) \in Nat
      /\ Len(frames) \in 1 .. Len(frames)
  BY DEF CallInv, Good
<1>2. calls \in 1 .. MaxCalls /\ Len(this) = calls /\ this \in Seq(Values)
  BY DEF CallInv
<1>3. Grows(this, this)
  BY <1>2, GrowsAlready
<1>4. outer # <<>> => /\ K \in 1 .. Len(natives) /\ K \in Nat /\ Last(outer) = natives[K]
                      /\ Knows(natives[K], K, frames, natives) /\ natives[K] \in NativeSet
  <2> SUFFICES ASSUME outer # <<>>
               PROVE  /\ K \in 1 .. Len(natives) /\ K \in Nat /\ Last(outer) = natives[K]
                      /\ Knows(natives[K], K, frames, natives) /\ natives[K] \in NativeSet
    OBVIOUS
  <2>1. outer \in Seq(NativeSet) /\ K \in Nat /\ K # 0 /\ Len(natives) \in Nat /\ K <= Len(natives)
    BY <1>1, EmptySeq DEF Outer, Good
  <2>2. K \in 1 .. K /\ K \in 1 .. Len(natives) /\ Last(outer) = natives[K]
    BY <2>1 DEF Outer, Last
  <2> QED
    BY <1>1, <2>1, <2>2, NestedKnows DEF Good
<1>5. outer # <<>> => /\ floor = Last(outer).depth /\ floor \in 1 .. Len(frames) /\ floor < Len(frames)
                      /\ frames[floor + 1].base = Last(outer).base + Parked(Last(outer).seam)
                      /\ Last(outer) \in NativeSet /\ Last(outer).floor = Last(outer).depth
  BY <1>4 DEF Knows
<1>6. floor \in Nat /\ floor < Len(frames)
  BY <1>1, <1>5
<1> HIDE DEF K
<1>7. ASSUME taken # {}
      PROVE  Fits
  <2> DEFINE i == Innermost(taken)
  <2>1. i \in floor + 1 .. Len(frames)
    <3>1. taken \in SUBSET (1 .. Len(frames))
      BY <1>1, <1>6 DEF CoveringFrames
    <3>2. i \in taken
      BY <1>1, <1>7, <3>1, InnermostExists
    <3> QED
      BY <3>2 DEF CoveringFrames
  <2>2. PICK g \in FrameSet : /\ SameWindow(g, frames[i]) /\ g.parked = "none"
                              /\ frames' = Append(SubSeq(frames, 1, i - 1), g)
    BY <1>7 DEF Thrown
  <2>3. top' = End(frames[i]) /\ natives' = outer /\ UNCHANGED <<deadline, ended>>
    BY <1>7 DEF Thrown
  <2> HIDE DEF i, taken
  <2>4. i \in 1 .. Len(frames) /\ floor < i
    BY <1>1, <1>6, <2>1
  <2>5. outer # <<>> => Last(outer).seam # "none" /\ Last(outer).depth < i
    BY <1>5, <2>4
  <2>6. \A k \in 1 .. Len(natives) : k > Len(outer) => natives[k].depth >= i
    <3>1. ASSUME NEW k \in 1 .. Len(natives), k > Len(outer) PROVE natives[k].depth >= i
      <4>1. natives[k].depth >= Len(frames) /\ natives[k].depth \in 1 .. Len(frames)
        BY <1>1, <3>1 DEF Good, Nested
      <4> QED
        BY <1>1, <2>4, <4>1
    <3> QED
      BY <3>1
  <2>7. LET c == Append(SubSeq(frames, 1, i - 1), g)
        IN Good(c, outer, this) /\ Untouched(frames, natives, c, outer) /\ Last(c) = g
    BY <1>1, <1>3, <2>2, <2>4, <2>5, <2>6, Landing
  <2>8. End(g) = End(frames[i])
    BY <2>2 DEF End, SameWindow
  <2>9. Going
    BY <2>2, <2>3, <2>7, <2>8 DEF Going
  <2> QED
    BY <1>2, <1>3, <2>3, <2>9, Goes
<1>8. ASSUME taken = {}, outer = <<>>
      PROVE  Fits
  <2>1. frames' = <<>> /\ natives' = <<>> /\ ended' = TRUE /\ UNCHANGED deadline
    BY <1>8 DEF Thrown
  <2> QED
    BY <2>1, Ends
<1>9. ASSUME taken = {}, outer # <<>>
      PROVE  Fits
  <2> DEFINE n == Last(outer)
             m == [n EXCEPT !.seam = "none"]
             end == seam_ends(n, SubSeq(frames, 1, floor), frames[floor + 1].base)
  <2>1. /\ frames' = end.frames /\ top' = end.top
        /\ natives' = Append(Front(outer), m)
        /\ UNCHANGED <<deadline, ended>>
    BY <1>9 DEF Thrown
  <2>2. /\ m \in NativeSet /\ m.depth = n.depth /\ m.floor = n.floor /\ m.base = n.base
        /\ m.seam = "none"
    BY <1>5, <1>9 DEF NativeSet
  <2> HIDE DEF m
  <2>3. frames' = SubSeq(frames, 1, m.depth) /\ top' = m.base
    <3>1. Len(SubSeq(frames, 1, n.depth)) = n.depth /\ n.depth \in Nat
      BY <1>1, <1>5, <1>9, Kept
    <3>2. end.frames = SubSeq(frames, 1, n.depth)
      BY <1>5, <1>9, <3>1 DEF seam_ends
    <3>3. end.top = n.base
      BY <1>5, <1>9 DEF seam_ends, Parked, NativeSet
    <3> QED
      BY <2>1, <2>2, <3>2, <3>3
  <2>4. \A k \in 1 .. Len(natives) : k > Len(outer) => natives[k].depth >= Last(outer).depth
    <3>1. ASSUME NEW k \in 1 .. Len(natives), k > Len(outer)
          PROVE  natives[k].depth >= Last(outer).depth
      <4>1. natives[k].depth >= Len(frames) /\ natives[k].depth \in 1 .. Len(frames)
        BY <1>1, <3>1 DEF Good, Nested
      <4> QED
        BY <1>1, <1>5, <1>9, <4>1
    <3> QED
      BY <3>1
  <2>5. Going
    <3> HIDE DEF n
    <3>1. LET c  == SubSeq(frames, 1, m.depth)
              ms == Append(Front(outer), m)
          IN Good(c, ms, this) /\ Untouched(frames, natives, c, ms) /\ End(Last(c)) = m.base
      BY <1>1, <1>9, <2>2, <2>4, LoopOver DEF n
    <3> QED
      BY <2>1, <2>3, <3>1 DEF Going
  <2> QED
    BY <1>2, <1>3, <2>1, <2>5, Goes
<1> QED
  BY <1>7, <1>8, <1>9

\* A throw in bytecode (unwind): every native stays.
LEMMA UnwindFits ==
    ASSUME CallInv, InLoop, unwind_frames(frames)
    PROVE  Fits
<1> DEFINE floor == IF natives = <<>> THEN 0 ELSE Last(natives).floor
           taken == CoveringFrames(frames, floor)
           i == Innermost(taken)
<1>1. /\ ~ended /\ Good(frames, natives, this) /\ Outer(natives, natives) /\ Len(frames) \in Nat
      /\ natives # <<>> => Last(natives).seam # "none"
      /\ frames \in Seq(FrameSet)
  BY RunningMeans
<1>2. UNCHANGED <<this, calls>> /\ deadline # "hit"
  BY DEF unwind_frames, CallInv, InTime
<1>3. \A k \in 1 .. Len(natives) : k > Len(natives) => natives[k].depth >= Len(frames)
  <2>1. Len(natives) \in Nat
    BY <1>1 DEF Good
  <2> QED
    BY <2>1
<1>4. Len(frames) <= MaxFrames + Len(natives)
  BY <1>1 DEF Good
<1>5. Thrown(natives, floor)
  <2>1. CASE taken # {}
    <3> DEFINE g == [frames[i] EXCEPT !.try = FALSE, !.parked = "none", !.super = NoValue]
    <3>1. /\ frames' = Append(SubSeq(frames, 1, i - 1), g) /\ top' = frames[i].base + frames[i].regs
          /\ UNCHANGED <<natives, ended>> /\ deadline' = deadline
      BY <1>2, <2>1 DEF unwind_frames, floor_of
    <3>2. frames[i] \in FrameSet
      <4>1. floor \in Nat
        BY <1>1, SMTT(20) DEF Good, Nested, Last
      <4>2. taken \in SUBSET (1 .. Len(frames))
        BY <1>1, <4>1 DEF CoveringFrames
      <4>3. i \in taken
        BY <1>1, <2>1, <4>2, InnermostExists
      <4> QED
        BY <1>1, <4>2, <4>3
    <3>3. g \in FrameSet /\ SameWindow(g, frames[i]) /\ g.parked = "none"
      BY <3>2 DEF FrameSet, SameWindow, Parks, Made
    <3> HIDE DEF g
    <3> QED
      BY <2>1, <3>1, <3>3 DEF Thrown, End
  <2>2. CASE taken = {} /\ natives = <<>>
    BY <2>2 DEF unwind_frames, floor_of, Thrown
  <2>3. CASE taken = {} /\ natives # <<>>
    BY <2>3 DEF unwind_frames, floor_of, Thrown
  <2> QED
    BY <2>1, <2>2, <2>3
<1> HIDE DEF floor
<1> QED
  BY <1>1, <1>2, <1>3, <1>4, <1>5, ThrowFits DEF floor

-----------------------------------------------------------------------------
(* Calls and constructions.                                                *)

\* A new activation: its frame, and its `this`.
LEMMA NewActivation ==
    ASSUME CallInv, calls < MaxCalls, NEW fn \in Kinds, NEW base \in Nat,
           NEW home \in Nat, NEW how \in {"call", "construct"},
           how = "construct" => fn \in Constructors
    PROVE  LET f  == NewFrame(fn, base, how = "construct", IF fn = "arrow" THEN home ELSE calls + 1)
               th == Append(this, instance_of(fn, how))
           IN /\ f \in FrameSet /\ f.base = base /\ f.parked = "none"
              /\ f.newTarget = (how = "construct") /\ End(f) = base + max_regs(fn)
              /\ Grows(this, th) /\ Bound(f, th) /\ Len(th) = calls + 1
              /\ calls + 1 \in 1 .. MaxCalls
<1> DEFINE f  == NewFrame(fn, base, how = "construct", IF fn = "arrow" THEN home ELSE calls + 1)
           v == instance_of(fn, how)
           th == Append(this, v)
<1>1. calls \in Nat /\ calls + 1 \in 1 .. MaxCalls /\ this \in Seq(Values) /\ Len(this) = calls
  BY DEF CallInv
<1>2. /\ v \in Values
      /\ how = "construct" => /\ v \in {Hole} \cup 1 .. MaxCalls
                              /\ fn = "base" => v \in 1 .. MaxCalls
  BY <1>1 DEF instance_of, Values
<1> HIDE DEF v
<1>3. /\ th \in Seq(Values) /\ Len(th) = calls + 1 /\ th[calls + 1] = v
      /\ \A a \in 1 .. calls : th[a] = this[a]
  BY <1>1, <1>2, AppendProperties
<1> HIDE DEF th
<1>4. /\ f.act = calls + 1 /\ f.fn = fn /\ f.base = base /\ f.parked = "none"
      /\ f.newTarget = (how = "construct") /\ f.regs = max_regs(fn)
  BY DEF NewFrame
<1>5. f \in FrameSet
  <2>1. max_regs(fn) \in Nat
    BY DEF max_regs
  <2>2. (how = "construct") \in BOOLEAN
    OBVIOUS
  <2>3. (IF fn = "arrow" THEN home ELSE calls + 1) \in Nat
    BY <1>1
  <2> QED
    BY <1>1, <2>1, <2>2, <2>3 DEF NewFrame, FrameSet, Parks, Made
<1>6. End(f) = base + max_regs(fn)
  BY <1>4 DEF End
<1> HIDE DEF f
<1>7. Grows(this, th)
  BY <1>1, <1>3 DEF Grows
<1>8. Bound(f, th)
  <2>1. f.act \in 1 .. Len(th) /\ th[f.act] = v
    BY <1>1, <1>3, <1>4
  <2> QED
    BY <1>2, <1>4, <2>1 DEF Bound
<1> QED
  BY <1>1, <1>3, <1>4, <1>5, <1>6, <1>7, <1>8 DEF f, th, v

\* Bytecode calls bytecode: the window of the callee is laid behind the caller's.
LEMMA PushFits ==
    ASSUME CallInv, InLoop, calls < MaxCalls, Len(frames) < MaxFrames,
           Frame.super = NoValue, NEW fn \in Kinds, NEW home \in Nat,
           NEW how \in {"call", "construct"}, how = "construct" => fn \in Constructors,
           NEW op \in {"call", "construct", "super"}, op # "call" => how = "construct",
           Push(Park(op), window_end(Frame), fn, how, home), UNCHANGED <<natives, deadline, ended>>
    PROVE  Fits
<1> DEFINE g == [Frame EXCEPT !.parked = op]
           base == window_end(Frame)
           f == NewFrame(fn, base, how = "construct", IF fn = "arrow" THEN home ELSE calls + 1)
           th == Append(this, instance_of(fn, how))
<1>1. /\ ~ended /\ Good(frames, natives, this)
      /\ natives # <<>> => Last(natives).seam # "none"
      /\ Frame = frames[Len(frames)] /\ Frame \in FrameSet
  BY RunningMeans
<1>2. /\ g \in FrameSet /\ SameWindow(g, frames[Len(frames)]) /\ g.parked = op /\ g.super = NoValue
      /\ base = End(g) /\ base \in Nat
  <2>1. g \in FrameSet /\ g.parked = op /\ g.super = NoValue
    BY <1>1 DEF FrameSet, Parks
  <2>2. SameWindow(g, frames[Len(frames)]) /\ g.base = Frame.base /\ g.regs = Frame.regs
    BY <1>1 DEF SameWindow, FrameSet
  <2>3. base = End(g)
    BY <2>2 DEF End, window_end
  <2>4. End(g) \in Nat
    BY <2>1 DEF FrameSet, End
  <2> QED
    BY <2>1, <2>2, <2>3, <2>4
<1>3. /\ frames' = Append(Append(Front(frames), g), f) /\ top' = base + max_regs(fn)
      /\ this' = th /\ calls' = calls + 1
  BY DEF Push, Park
<1> HIDE DEF g, base
<1>4. /\ f \in FrameSet /\ f.base = base /\ f.parked = "none"
      /\ f.newTarget = (how = "construct") /\ End(f) = base + max_regs(fn)
      /\ Grows(this, th) /\ Bound(f, th) /\ Len(th) = calls + 1
      /\ calls + 1 \in 1 .. MaxCalls
  BY <1>2, NewActivation
<1> HIDE DEF f, th
<1>5. LET c == Append(Append(Front(frames), g), f)
      IN Good(c, natives, th) /\ Untouched(frames, natives, c, natives) /\ Last(c) = f
  <2>1. g.parked # "none" /\ (g.parked \in {"construct", "super"} => f.newTarget) /\ f.base = End(g)
    BY <1>2, <1>4
  <2> QED
    BY <1>1, <1>2, <1>4, <2>1, Called
<1>6. Going
  BY <1>3, <1>4, <1>5 DEF Going
<1> QED
  BY <1>1, <1>3, <1>4, <1>6, Goes

\* A call of a function that is no constructor, within the depth limit, goes on
\* in the callee; any other is thrown.
LEMMA PrepareCallFits ==
    ASSUME CallInv, NEW fn \in Kinds, NEW home \in Nat, prepare_call(fn, home)
    PROVE  Fits
<1>1. /\ InLoop /\ Frame.super = NoValue /\ calls < MaxCalls /\ calls \in Nat
      /\ Len(frames) \in Nat
  BY RunningMeans DEF prepare_call, CallInv
<1>2. CASE Len(frames) >= MaxFrames \/ fn \in Constructors
  BY <1>1, <1>2, UnwindFits DEF prepare_call
<1>3. CASE ~(Len(frames) >= MaxFrames \/ fn \in Constructors)
  <2>1. /\ Push(Park("call"), window_end(Frame), fn, "call", home)
        /\ UNCHANGED <<natives, deadline, ended>> /\ Len(frames) < MaxFrames
    BY <1>1, <1>3 DEF prepare_call
  <2> QED
    BY <1>1, <2>1, PushFits
<1> QED
  BY <1>2, <1>3

\* A construction goes on in the constructor, with an instance or the hole.
LEMMA PrepareConstructFits ==
    ASSUME CallInv, NEW fn \in Kinds, NEW op \in {"construct", "super"},
           prepare_construct(fn, op)
    PROVE  Fits
<1>1. /\ InLoop /\ Frame.super = NoValue /\ calls < MaxCalls /\ calls \in Nat
      /\ Len(frames) \in Nat
  BY RunningMeans DEF prepare_construct, CallInv
<1>2. CASE Len(frames) >= MaxFrames \/ fn \notin Constructors
  BY <1>1, <1>2, UnwindFits DEF prepare_construct
<1>3. CASE ~(Len(frames) >= MaxFrames \/ fn \notin Constructors)
  <2>1. /\ Push(Park(op), window_end(Frame), fn, "construct", 0)
        /\ UNCHANGED <<natives, deadline, ended>> /\ Len(frames) < MaxFrames
    BY <1>1, <1>3 DEF prepare_construct
  <2> QED
    BY <1>1, <1>3, <2>1, PushFits
<1> QED
  BY <1>2, <1>3

\* What changes the frame on top only.
LEMMA TopFits ==
    ASSUME CallInv, InLoop, NEW g \in FrameSet, SameWindow(g, Frame),
           g.parked = "none", frames' = Append(Front(frames), g), Grows(this, this'),
           Len(this') = calls, UNCHANGED <<top, natives, calls, deadline, ended>>
    PROVE  Fits
<1> DEFINE N == Len(frames)
<1>1. /\ ~ended /\ Good(frames, natives, this) /\ top = End(Frame)
      /\ natives # <<>> => Last(natives).seam # "none"
      /\ N \in 1 .. N /\ N \in Nat /\ Frame = frames[N] /\ Outer(natives, natives)
      /\ N <= MaxFrames + Len(natives) /\ Len(natives) \in Nat /\ calls \in 1 .. MaxCalls
  BY RunningMeans DEF Good, CallInv
<1>2. natives # <<>> => Last(natives).seam # "none" /\ Last(natives).depth < N
  <2> SUFFICES ASSUME natives # <<>> PROVE Last(natives).depth < N
    BY <1>1
  <2>1. Len(natives) # 0
    BY <1>1, EmptySeq DEF Good
  <2>2. Len(natives) \in 1 .. Len(natives)
    BY <1>1, <2>1
  <2> QED
    BY <1>1, <2>2, LoopsRun DEF Last
<1>3. \A k \in 1 .. Len(natives) : k > Len(natives) => natives[k].depth >= N
  BY <1>1
<1>4. LET c == Append(SubSeq(frames, 1, N - 1), g)
      IN Good(c, natives, this') /\ Untouched(frames, natives, c, natives) /\ Last(c) = g
  <2> HIDE DEF N
  <2>1. N \in 1 .. Len(frames) /\ Len(frames) <= MaxFrames + Len(natives) /\ SameWindow(g, frames[N])
    BY <1>1 DEF N
  <2> QED
    BY <1>1, <1>2, <1>3, <2>1, Landing
<1>5. Going
  <2>1. End(g) = End(Frame)
    BY DEF End, SameWindow
  <2> QED
    BY <1>1, <1>4, <2>1 DEF Going, Front
<1> QED
  BY <1>1, <1>5, Goes

\* super() has answered: `this` is bound if it was the hole, and bound once.
LEMMA BindFits ==
    ASSUME CallInv, bind_this
    PROVE  Fits
<1>1. /\ InLoop /\ Frame.super # NoValue /\ Frame \in FrameSet /\ Frame.parked = "none"
  BY RunningMeans DEF bind_this
<1>2. CASE CheckThisUnbound(Frame.home)
  <2> DEFINE g == [Frame EXCEPT !.super = NoValue]
             a == Frame.home
             v == Frame.super
  <2>1. /\ this' = [this EXCEPT ![a] = v] /\ frames' = Append(Front(frames), g)
        /\ UNCHANGED <<top, natives, calls, deadline, ended>> /\ this[a] = Hole
    BY <1>2 DEF bind_this, CheckThisUnbound
  <2>2. g \in FrameSet /\ SameWindow(g, Frame) /\ g.parked = "none"
    BY <1>1 DEF FrameSet, SameWindow, Made
  <2>3. this \in Seq(Values) /\ Len(this) = calls /\ calls \in Nat /\ DOMAIN this = 1 .. Len(this)
    BY DEF CallInv
  <2>4. v \in 1 .. MaxCalls /\ v \in Values
    BY <1>1 DEF FrameSet, Made, Values
  <2> HIDE DEF g, a, v
  <2>5. this' \in Seq(Values) /\ Len(this') = calls /\ \A b \in 1 .. Len(this) : b # a => this'[b] = this[b]
    <3>1. CASE a \in 1 .. Len(this)
      BY <2>1, <2>3, <2>4, <3>1, ExceptSeq
    <3>2. CASE a \notin 1 .. Len(this)
      <4>1. this' = this
        BY <2>1, <2>3, <3>2
      <4> QED
        BY <2>3, <4>1
    <3> QED
      BY <3>1, <3>2
  <2>6. a \in 1 .. Len(this) => this'[a] = v
    BY <2>1, <2>3
  <2>7. Grows(this, this')
    BY <2>1, <2>3, <2>4, <2>5, <2>6 DEF Grows
  <2> QED
    BY <1>1, <2>1, <2>2, <2>5, <2>7, TopFits
<1>3. CASE ~CheckThisUnbound(Frame.home)
  BY <1>1, <1>3, UnwindFits DEF bind_this
<1> QED
  BY <1>2, <1>3

\* Entering a try block changes the frame on top only.
LEMMA EnterTryFits ==
    ASSUME CallInv, EnterTry
    PROVE  Fits
<1> DEFINE g == [Frame EXCEPT !.try = TRUE]
<1>1. InLoop /\ Frame \in FrameSet /\ Frame.parked = "none"
  BY RunningMeans DEF EnterTry
<1>2. g \in FrameSet /\ SameWindow(g, Frame) /\ g.parked = "none"
  BY <1>1 DEF FrameSet, SameWindow
<1>3. frames' = Append(Front(frames), g) /\ UNCHANGED <<top, natives, this, calls, deadline, ended>>
  BY DEF EnterTry
<1>4. Grows(this, this') /\ Len(this') = calls
  BY <1>3, GrowsAlready DEF CallInv
<1> HIDE DEF g
<1> QED
  BY <1>1, <1>2, <1>3, <1>4, TopFits

-----------------------------------------------------------------------------
(* Returns.                                                                *)

\* A frame returns to the native whose loop it was the last of, or to the call
\* below, or ends the run (complete_frame).
LEMMA CompleteFits ==
    ASSUME CallInv, InLoop, Frame.super = NoValue, NEW v,
           Frame.newTarget => construct_result(v, Frame.act) \in 1 .. MaxCalls,
           complete_frame(v)
    PROVE  Fits
<1> DEFINE N == Len(frames)
           K == Len(natives)
           n == Last(natives)
           r == construct_result(v, Frame.act)
<1>1. /\ ~ended /\ Good(frames, natives, this)
      /\ natives # <<>> => n.seam # "none"
      /\ frames \in Seq(FrameSet) /\ N \in 1 .. N /\ N \in Nat /\ Frame = frames[N]
      /\ Frame \in FrameSet /\ Outer(natives, natives)
      /\ K \in Nat /\ N <= MaxFrames + K /\ natives \in Seq(NativeSet)
  BY RunningMeans DEF Good
<1>2. /\ UNCHANGED <<this, calls, deadline>> /\ calls \in 1 .. MaxCalls /\ Len(this) = calls
      /\ this \in Seq(Values)
  BY DEF complete_frame, CallInv
<1>3. Grows(this, this)
  BY <1>2, GrowsAlready
<1>4. \A k \in 1 .. K : natives[k].seam # "none" /\ natives[k].depth \in 1 .. N /\ natives[k].depth < N
  <2>1. \A k \in 1 .. K : k < K \/ k = K
    BY <1>1
  <2>2. \A k \in 1 .. K : natives # <<>>
    BY <1>1
  <2> QED
    BY <1>1, <2>1, <2>2, LoopsRun
<1>5. natives # <<>> => /\ K \in 1 .. K /\ n = natives[K] /\ n \in NativeSet
                        /\ Knows(n, K, frames, natives) /\ n.floor = n.depth /\ Floor = n.depth
                        /\ n.depth \in 1 .. N /\ n.depth < N
  <2> SUFFICES ASSUME natives # <<>>
               PROVE  /\ K \in 1 .. K /\ n = natives[K] /\ n \in NativeSet
                      /\ Knows(n, K, frames, natives) /\ n.floor = n.depth /\ Floor = n.depth
                      /\ n.depth \in 1 .. N /\ n.depth < N
    OBVIOUS
  <2>1. K \in 1 .. K
    BY <1>1, EmptySeq
  <2>2. n = natives[K] /\ Knows(n, K, frames, natives)
    BY <1>1, <2>1, NestedKnows DEF Good, Last
  <2> QED
    BY <1>1, <1>4, <2>1, <2>2 DEF Knows, Floor
<1>6. ASSUME natives # <<>>, N - 1 = Floor
      PROVE  Fits
  <2> DEFINE end == seam_ends(n, Front(frames), Frame.base)
             m == [n EXCEPT !.seam = "none",
                            !.made = IF n.seam = "construct_object" THEN r ELSE @]
  <2>1. /\ frames' = end.frames /\ top' = end.top
        /\ natives' = Append(Front(natives), m) /\ UNCHANGED ended
    BY <1>6 DEF complete_frame
  <2>2. /\ Frame.base = n.base + Parked(n.seam)
        /\ n.seam = "construct_object" => Frame.newTarget
    <3>1. frames[n.depth + 1] = Frame
      BY <1>1, <1>5, <1>6
    <3> QED
      BY <1>1, <1>5, <1>6, <3>1 DEF Knows
  <2>3. /\ m \in NativeSet /\ m.depth = n.depth /\ m.floor = n.floor /\ m.base = n.base
        /\ m.seam = "none"
    <3>1. n.seam = "construct_object" => r \in Made
      BY <2>2 DEF Made
    <3> HIDE DEF n, r
    <3> QED
      BY <1>5, <1>6, <3>1 DEF NativeSet
  <2> HIDE DEF m
  <2>4. frames' = SubSeq(frames, 1, m.depth) /\ top' = m.base
    <3>1. Front(frames) = SubSeq(frames, 1, n.depth)
      BY <1>5, <1>6 DEF Front
    <3>2. Len(SubSeq(frames, 1, n.depth)) = n.depth /\ n.depth \in Nat
      BY <1>1, <1>5, <1>6, Kept
    <3>3. end.frames = SubSeq(frames, 1, n.depth)
      BY <1>5, <1>6, <3>1, <3>2 DEF seam_ends
    <3>4. end.top = n.base
      BY <1>5, <1>6, <2>2 DEF seam_ends, Parked, NativeSet
    <3> QED
      BY <2>1, <2>3, <3>3, <3>4
  <2>5. \A k \in 1 .. Len(natives) : k > Len(natives) => natives[k].depth >= Last(natives).depth
    BY <1>1
  <2>6. Going
    <3> HIDE DEF n
    <3>1. LET c  == SubSeq(frames, 1, m.depth)
              ms == Append(Front(natives), m)
          IN Good(c, ms, this) /\ Untouched(frames, natives, c, ms) /\ End(Last(c)) = m.base
      BY <1>1, <1>6, <2>3, <2>5, LoopOver DEF n
    <3> QED
      BY <1>2, <2>1, <2>4, <3>1 DEF Going
  <2> QED
    BY <1>1, <1>2, <1>3, <2>1, <2>6, Goes
<1>7. ASSUME ~(natives # <<>> /\ N - 1 = Floor), N = 1
      PROVE  Fits
  <2>1. natives = <<>>
    BY <1>1, <1>5, <1>7
  <2>2. frames' = <<>> /\ ended' = TRUE /\ UNCHANGED natives
    BY <1>7 DEF complete_frame
  <2> QED
    BY <1>2, <2>1, <2>2, Ends
<1>8. ASSUME ~(natives # <<>> /\ N - 1 = Floor), N # 1
      PROVE  Fits
  <2> DEFINE i == N - 1
             caller == frames[i]
             built  == caller.parked \in {"construct", "super"}
             result == IF built THEN r ELSE v
             g == [caller EXCEPT !.parked = "none",
                                 !.got   = IF caller.parked = "construct" THEN result ELSE NoValue,
                                 !.super = IF caller.parked = "super" THEN result ELSE NoValue]
  <2>1. /\ frames' = Append(SubSeq(frames, 1, N - 2), g) /\ top' = Frame.base
        /\ UNCHANGED <<natives, ended>>
    BY <1>8 DEF complete_frame
  <2>2. i \in 1 .. N /\ i \in 1 .. N - 1 /\ i + 1 = N /\ i - 1 = N - 2 /\ caller \in FrameSet
    <3>1. i \in 1 .. N /\ i \in 1 .. N - 1 /\ i + 1 = N /\ i - 1 = N - 2
      <4>1. N \in Nat /\ N # 0 /\ N # 1
        BY <1>1, <1>8
      <4> HIDE DEF N
      <4> QED
        BY <4>1
    <3> QED
      BY <1>1, <3>1
  <2>3. natives # <<>> => n.depth < i
    BY <1>1, <1>5, <1>8
  <2>4. \A k \in 1 .. K : natives[k].depth # i
    <3>1. ASSUME NEW k \in 1 .. K PROVE natives[k].depth < i
      <4>1. natives # <<>> /\ (k = K \/ k \in 1 .. K - 1)
        BY <1>1
      <4>2. CASE k = K
        BY <1>5, <2>3, <4>1, <4>2
      <4>3. CASE k \in 1 .. K - 1
        <5>1. natives[k].depth < natives[K].depth
          BY <1>5, <4>1, <4>3 DEF Knows
        <5>2. natives[k].depth \in Nat /\ n.depth \in Nat /\ i \in Nat
          BY <1>4, <1>5, <2>2, <4>1
        <5> QED
          BY <1>5, <2>3, <4>1, <5>1, <5>2
      <4> QED
        BY <4>1, <4>2, <4>3
    <3> HIDE DEF i
    <3> QED
      BY <1>4, <2>2, <3>1
  <2>5. Frame.base = End(caller) /\ (built => Frame.newTarget)
    BY <1>1, <2>2, <2>4 DEF Good, Stacked
  <2>6. g \in FrameSet /\ SameWindow(g, caller) /\ g.parked = "none"
    <3>1. built => r \in Made
      BY <2>5 DEF Made
    <3>2. NoValue \in Made
      BY DEF Made
    <3> HIDE DEF caller, r
    <3>3. (IF caller.parked = "construct" THEN result ELSE NoValue) \in Made
      BY <3>1, <3>2
    <3>4. (IF caller.parked = "super" THEN result ELSE NoValue) \in Made
      BY <3>1, <3>2
    <3> HIDE DEF result
    <3> QED
      BY <2>2, <3>3, <3>4 DEF FrameSet, SameWindow, Parks
  <2> HIDE DEF g
  <2>7. \A k \in 1 .. Len(natives) : k > Len(natives) => natives[k].depth >= i
    BY <1>1
  <2>8. LET c == Append(SubSeq(frames, 1, i - 1), g)
        IN Good(c, natives, this) /\ Untouched(frames, natives, c, natives) /\ Last(c) = g
    <3> HIDE DEF i
    <3>1. i \in 1 .. Len(frames) /\ SameWindow(g, frames[i])
      BY <2>2, <2>6
    <3>2. natives # <<>> => Last(natives).seam # "none" /\ Last(natives).depth < i
      BY <1>1, <2>3
    <3> QED
      BY <1>1, <1>3, <2>6, <2>7, <3>1, <3>2, Landing
  <2>9. End(g) = End(caller)
    BY <2>6 DEF End, SameWindow
  <2>10. Going
    BY <1>2, <2>1, <2>2, <2>5, <2>8, <2>9 DEF Going
  <2> QED
    BY <1>1, <1>2, <1>3, <2>1, <2>10, Goes
<1> QED
  BY <1>6, <1>7, <1>8

\* A construction answers an object, whatever the constructor returned (Return).
LEMMA ReturnFits ==
    ASSUME CallInv, NEW v \in {undefined, Primitive, calls}, ReturnFrom(v)
    PROVE  Fits
<1>1. /\ InLoop /\ Frame.super = NoValue /\ Frame \in FrameSet
      /\ calls \in 1 .. MaxCalls /\ Bound(Frame, this)
  BY RunningMeans DEF ReturnFrom, CallInv, Good
<1>2. v \in {undefined, Primitive} \cup 1 .. MaxCalls
  BY <1>1
<1>3. \A a \in 1 .. MaxCalls : IsObject(a)
  BY DEF IsObject
<1>4. CASE Frame.fn # "derived"
  <2>1. Frame.newTarget => construct_result(v, Frame.act) \in 1 .. MaxCalls
    <3> SUFFICES ASSUME Frame.newTarget PROVE construct_result(v, Frame.act) \in 1 .. MaxCalls
      OBVIOUS
    <3>1. this[Frame.act] \in 1 .. MaxCalls
      BY <1>1, <1>4 DEF Bound, Constructors
    <3> QED
      BY <1>2, <1>3, <3>1 DEF construct_result, IsObject, undefined, Primitive
  <2>2. complete_frame(v)
    BY <1>4 DEF ReturnFrom
  <2> QED
    BY <1>1, <2>1, <2>2, CompleteFits
<1>5. CASE Frame.fn = "derived" /\ DerivedResult(v) = Hole
  BY <1>1, <1>5, UnwindFits DEF ReturnFrom
<1>6. CASE Frame.fn = "derived" /\ DerivedResult(v) # Hole
  <2>1. Frame.newTarget => construct_result(DerivedResult(v), Frame.act) \in 1 .. MaxCalls
    <3> SUFFICES ASSUME Frame.newTarget PROVE construct_result(DerivedResult(v), Frame.act) \in 1 .. MaxCalls
      OBVIOUS
    <3>1. this[Frame.act] \in {Hole} \cup 1 .. MaxCalls
      BY <1>1 DEF Bound
    <3>2. DerivedResult(v) \in 1 .. MaxCalls
      BY <1>2, <1>3, <1>6, <3>1 DEF DerivedResult, IsObject, undefined, Primitive
    <3> QED
      BY <1>3, <3>2 DEF construct_result
  <2>2. complete_frame(DerivedResult(v))
    BY <1>6 DEF ReturnFrom
  <2> QED
    BY <1>1, <2>1, <2>2, CompleteFits
<1> QED
  BY <1>4, <1>5, <1>6

-----------------------------------------------------------------------------
(* Natives.                                                                *)

\* Bytecode calls a native.
LEMMA CallNativeFits ==
    ASSUME CallInv, CallNative
    PROVE  Fits
<1> DEFINE N == Len(frames)
           g == [Frame EXCEPT !.parked = "call"]
           m == [floor |-> N, base |-> top, depth |-> N, seam |-> "none", made |-> NoValue]
<1>1. /\ ~ended /\ Good(frames, natives, this) /\ top = End(Frame)
      /\ natives # <<>> => Last(natives).seam # "none"
      /\ N \in Nat /\ Frame = frames[N] /\ Frame \in FrameSet /\ Frame.super = NoValue
      /\ calls \in 1 .. MaxCalls /\ Len(this) = calls /\ this \in Seq(Values)
  BY RunningMeans DEF CallNative, CallInv
<1>2. /\ g \in FrameSet /\ SameWindow(g, frames[N]) /\ g.parked = "call" /\ g.super = NoValue
      /\ End(g) = top
  BY <1>1 DEF FrameSet, SameWindow, Parks, End
<1>3. /\ m \in NativeSet /\ m.depth = N /\ m.floor = N /\ m.base = End(g) /\ m.seam = "none"
  <2>1. top \in Nat
    BY <1>1 DEF End, FrameSet
  <2> QED
    BY <1>1, <1>2, <2>1 DEF NativeSet, Made
<1>4. /\ frames' = Append(Front(frames), g) /\ natives' = Append(natives, m)
      /\ UNCHANGED <<top, this, calls, deadline, ended>>
  BY DEF CallNative, Park
<1> HIDE DEF g, m
<1>5. LET c  == Append(Front(frames), g)
          ms == Append(natives, m)
      IN Good(c, ms, this) /\ Untouched(frames, natives, c, ms) /\ Last(c) = g
  BY <1>1, <1>2, <1>3, NativeCalled
<1>6. Going
  BY <1>2, <1>4, <1>5 DEF Going
<1>7. Grows(this, this)
  BY <1>1, GrowsAlready
<1> QED
  BY <1>1, <1>4, <1>6, <1>7, Goes

\* The native in control calls back into bytecode, through any of the seams.
LEMMA ReenterFits ==
    ASSUME CallInv, NEW seam \in Seams, NEW fn \in Kinds \ {"arrow"},
           Reenter(seam, fn)
    PROVE  Fits
<1> DEFINE n == Last(natives)
           m == [n EXCEPT !.seam = seam, !.floor = Len(frames), !.base = top]
           below == top + Parked(seam)
           how == IF seam = "construct_object" THEN "construct" ELSE "call"
           f == NewFrame(fn, below, how = "construct", IF fn = "arrow" THEN 1 ELSE calls + 1)
           th == Append(this, instance_of(fn, how))
<1>1. /\ ~ended /\ Good(frames, natives, this) /\ top = End(Frame)
      /\ natives # <<>> /\ n.seam = "none" /\ n \in NativeSet
      /\ Frame = frames[Len(frames)] /\ Frame \in FrameSet /\ Len(frames) \in Nat
  BY InNativeMeans DEF Reenter
<1>2. top \in Nat /\ below \in Nat
  BY <1>1, SMTT(20) DEF End, FrameSet, Parked, Parking
<1>3. /\ natives' = Append(Front(natives), m) /\ frames' = Append(frames, f)
      /\ top' = below + max_regs(fn) /\ this' = th /\ calls' = calls + 1
      /\ UNCHANGED <<deadline, ended>>
  <2>1. /\ natives' = Append(Front(natives), m) /\ UNCHANGED <<deadline, ended>>
        /\ Push(frames, below, fn, how, 1)
    BY DEF Reenter, Parked
  <2> QED
    BY <2>1 DEF Push
<1>4. /\ m \in NativeSet /\ m.depth = n.depth /\ m.floor = Len(frames) /\ m.base = top
      /\ m.seam = seam /\ m.seam # "none"
  BY <1>1, <1>2 DEF NativeSet, Seams
<1> HIDE DEF m, below
<1>5. /\ f \in FrameSet /\ f.base = below /\ f.parked = "none"
      /\ f.newTarget = (how = "construct") /\ End(f) = below + max_regs(fn)
      /\ Grows(this, th) /\ Bound(f, th) /\ Len(th) = calls + 1
      /\ calls + 1 \in 1 .. MaxCalls
  <2>1. calls < MaxCalls /\ (how = "construct" => fn \in Constructors)
    BY DEF Reenter, Refused
  <2>2. how \in {"call", "construct"} /\ 1 \in Nat /\ fn \in Kinds
    OBVIOUS
  <2> HIDE DEF how
  <2> QED
    BY <1>2, <2>1, <2>2, NewActivation
<1> HIDE DEF f, th
<1>6. LET c  == Append(frames, f)
          ms == Append(Front(natives), m)
      IN Good(c, ms, th) /\ Untouched(frames, natives, c, ms) /\ Last(c) = f
  <2>1. f.base = m.base + Parked(m.seam) /\ (m.seam = "construct_object" => f.newTarget)
    BY <1>4, <1>5 DEF below
  <2>2. m.base = End(frames[Len(frames)]) /\ m.depth = Last(natives).depth
    BY <1>1, <1>4
  <2> HIDE DEF n
  <2> QED
    BY <1>1, <1>4, <1>5, <2>1, <2>2, Reentered DEF n
<1>7. Going
  BY <1>3, <1>5, <1>6 DEF Going
<1> QED
  BY <1>1, <1>3, <1>5, <1>7, Goes

\* A native returns to the frame that called it.
LEMMA NativeReturnsFits ==
    ASSUME CallInv, NativeReturns
    PROVE  Fits
<1> DEFINE N == Len(frames)
           K == Len(natives)
           g == [Frame EXCEPT !.parked = "none"]
           outer == Front(natives)
<1>1. /\ ~ended /\ Good(frames, natives, this) /\ top = End(Frame)
      /\ K \in Nat /\ natives[K].depth = N /\ N <= MaxFrames + K - 1 /\ N \in 1 .. N /\ N \in Nat
      /\ Frame = frames[N] /\ Frame \in FrameSet
      /\ Outer(outer, natives) /\ Len(outer) = K - 1
      /\ outer # <<>> => Last(outer).seam # "none" /\ Last(outer).depth < N
      /\ calls \in 1 .. MaxCalls /\ Len(this) = calls /\ this \in Seq(Values)
  BY InNativeMeans DEF NativeReturns, CallInv
<1>2. g \in FrameSet /\ SameWindow(g, frames[N]) /\ g.parked = "none" /\ End(g) = top
  BY <1>1 DEF FrameSet, SameWindow, Parks, End
<1>3. /\ frames' = Append(SubSeq(frames, 1, N - 1), g) /\ natives' = outer
      /\ UNCHANGED <<top, this, calls, deadline, ended>>
  BY DEF NativeReturns, Front
<1>4. \A k \in 1 .. K : k > Len(outer) => natives[k].depth >= N
  BY <1>1
<1>5. Grows(this, this)
  BY <1>1, GrowsAlready
<1> HIDE DEF g, outer
<1>6. LET c == Append(SubSeq(frames, 1, N - 1), g)
      IN Good(c, outer, this) /\ Untouched(frames, natives, c, outer) /\ Last(c) = g
  <2> HIDE DEF N
  <2>1. N \in 1 .. Len(frames) /\ Len(frames) <= MaxFrames + Len(outer)
    BY <1>1 DEF N
  <2> QED
    BY <1>1, <1>2, <1>4, <1>5, <2>1, Landing, SMTT(20)
<1>7. Going
  BY <1>2, <1>3, <1>6 DEF Going
<1> QED
  BY <1>1, <1>3, <1>5, <1>7, Goes

\* A native throws, or passes an error on, into the loop that called it.
LEMMA NativeThrowsFits ==
    ASSUME CallInv, NativeThrows
    PROVE  Fits
<1> DEFINE N == Len(frames)
           K == Len(natives)
           outer == Front(natives)
           floor == IF outer = <<>> THEN 0 ELSE Last(outer).floor
           taken == CoveringFrames(frames, floor)
           i == Innermost(taken)
<1>1. /\ ~ended /\ Good(frames, natives, this)
      /\ K \in Nat /\ natives[K].depth = N /\ N <= MaxFrames + K - 1 /\ N \in Nat
      /\ frames \in Seq(FrameSet)
      /\ Outer(outer, natives) /\ Len(outer) = K - 1
      /\ outer # <<>> => /\ Last(outer).seam # "none" /\ Last(outer) = natives[K - 1]
                         /\ K - 1 \in 1 .. K
  BY InNativeMeans DEF NativeThrows
<1>2. UNCHANGED <<this, calls>> /\ deadline # "hit"
  BY DEF NativeThrows, CallInv, InTime
<1>3. \A k \in 1 .. K : k > Len(outer) => natives[k].depth >= N
  BY <1>1
<1>4. N <= MaxFrames + Len(outer)
  BY <1>1
<1>5. floor \in Nat
  <2>1. outer # <<>> => natives[K - 1] \in NativeSet
    BY <1>1 DEF Good
  <2> QED
    BY <1>1, <2>1 DEF NativeSet
<1> HIDE DEF floor, outer
<1>6. Thrown(outer, floor)
  <2>1. CASE taken # {}
    <3> DEFINE g == [frames[i] EXCEPT !.try = FALSE, !.parked = "none"]
    <3>1. /\ frames' = Append(SubSeq(frames, 1, i - 1), g) /\ top' = frames[i].base + frames[i].regs
          /\ natives' = outer /\ UNCHANGED ended /\ deadline' = deadline
      BY <1>2, <2>1 DEF NativeThrows, floor, outer
    <3>2. frames[i] \in FrameSet
      <4>1. taken \in SUBSET (1 .. N)
        BY <1>1, <1>5 DEF CoveringFrames
      <4>2. i \in taken
        BY <1>1, <2>1, <4>1, InnermostExists
      <4> QED
        BY <1>1, <4>1, <4>2
    <3>3. g \in FrameSet /\ SameWindow(g, frames[i]) /\ g.parked = "none"
      BY <3>2 DEF FrameSet, SameWindow, Parks
    <3> HIDE DEF g
    <3> QED
      BY <2>1, <3>1, <3>3 DEF Thrown, End
  <2>2. CASE taken = {} /\ outer = <<>>
    BY <2>2 DEF NativeThrows, Thrown, floor, outer
  <2>3. CASE taken = {} /\ outer # <<>>
    BY <2>3 DEF NativeThrows, Thrown, floor, outer
  <2> QED
    BY <2>1, <2>2, <2>3
<1> QED
  BY <1>1, <1>2, <1>3, <1>4, <1>6, ThrowFits DEF floor

-----------------------------------------------------------------------------
(* Every step.                                                             *)

\* A step that leaves the stacks alone keeps the invariant, the floors and the
\* bindings.
LEMMA RestFits ==
    ASSUME CallInv, UNCHANGED <<frames, top, natives, this, calls, ended>>, InTime'
    PROVE  Fits
<1>1. CallInv'
  BY DEF CallInv, Good, Frame
<1>2. FloorHoldsStep
  <2> SUFFICES ASSUME ~ended, NEW k \in 1 .. Len(natives) PROVE natives[k].depth <= Len(frames)
    BY DEF FloorHoldsStep, CallInv
  <2> QED
    BY DEF CallInv, Good, Nested
<1>3. ThisBoundOnceStep
  BY DEF ThisBoundOnceStep
<1> QED
  BY <1>1, <1>2, <1>3 DEF Fits

\* When execute returns for the deadline, the native it ran for is given its
\* frames up to its floor at least, and nobody else's are touched.
LEMMA DeadlineKeepsFloors ==
    ASSUME CallInv, DeadlineHits
    PROVE  FloorHoldsStep /\ ThisBoundOnceStep
<1>1. ThisBoundOnceStep
  BY DEF DeadlineHits, ThisBoundOnceStep
<1>2. CASE natives = <<>>
  <2>1. natives' = <<>> /\ Len(<<>>) = 0
    BY <1>2 DEF DeadlineHits
  <2> QED
    BY <1>1, <2>1 DEF FloorHoldsStep
<1>3. CASE natives # <<>>
  <2> DEFINE n == Last(natives)
             K == Len(natives)
             m == [n EXCEPT !.seam = "none"]
             kept == SubSeq(frames, 1, n.floor)
  <2>1. /\ ~ended /\ Good(frames, natives, this) /\ n.seam # "none"
    BY <1>3 DEF DeadlineHits, InLoop, Control, CallInv
  <2>2. /\ frames \in Seq(FrameSet) /\ natives \in Seq(NativeSet) /\ K \in Nat /\ K # 0
        /\ Len(frames) \in Nat
    BY <1>3, <2>1, EmptySeq DEF Good
  <2>3. K \in 1 .. K /\ n = natives[K] /\ n \in NativeSet
    BY <2>2 DEF Last
  <2>4. n.depth \in 1 .. Len(frames) /\ n.floor = n.depth
    BY <2>1, <2>3 DEF Good, Nested
  <2>5. \A k \in 1 .. K : natives[k].depth \in 1 .. n.depth
    <3> SUFFICES ASSUME NEW k \in 1 .. K PROVE natives[k].depth \in 1 .. n.depth
      OBVIOUS
    <3>1. natives[k].depth \in 1 .. Len(frames)
      BY <2>1 DEF Good, Nested
    <3>2. k = K \/ k \in 1 .. K - 1
      BY <2>2
    <3>3. k \in 1 .. K - 1 => natives[k].depth < n.depth
      BY <2>1, <2>3 DEF Good, Nested
    <3> QED
      BY <2>3, <2>4, <3>1, <3>2, <3>3
  <2>6. frames' \in {frames, kept}
    BY <1>3 DEF DeadlineHits, seam_ends
  <2>7. Len(kept) = n.depth /\ \A i \in 1 .. n.depth : kept[i] = frames[i]
    BY <2>2, <2>4, Kept
  <2>8. Len(frames') >= n.depth /\ \A i \in 1 .. n.depth : frames'[i] = frames[i]
    BY <2>2, <2>4, <2>6, <2>7
  <2> HIDE DEF n, K, kept
  <2>9. ASSUME NEW k \in 1 .. Len(natives)
        PROVE  /\ Len(frames') >= natives[k].depth
               /\ \A i \in 1 .. natives[k].depth : frames'[i] = frames[i]
    <3>1. natives[k].depth \in 1 .. n.depth
      BY <2>5 DEF K
    <3>2. n.depth \in Nat /\ Len(frames') >= n.depth
      BY <2>2, <2>4, <2>8
    <3>3. Len(frames') \in Nat
      BY <2>2, <2>4, <2>6, <2>7
    <3> QED
      BY <2>8, <3>1, <3>2, <3>3
  <2>10. Len(natives') \in Nat
    <3>1. natives' = Append(Front(natives), m)
      BY <1>3 DEF DeadlineHits, n
    <3>2. Front(natives) \in Seq(NativeSet)
      <4>1. K - 1 \in 0 .. Len(natives)
        BY <2>2 DEF K
      <4> QED
        BY <2>2, <4>1, Kept DEF Front
    <3> QED
      BY <3>1, <3>2, AppendProperties DEF NativeSet
  <2> QED
    BY <1>1, <2>9, <2>10, <2>2 DEF FloorHoldsStep, K
<1> QED
  BY <1>2, <1>3

\* Every step keeps the invariant until the deadline is hit, and the floors and
\* the bindings then too.
LEMMA NextFits ==
    ASSUME CallInv, [CallsNext]_callVars
    PROVE  FloorHoldsStep /\ ThisBoundOnceStep /\ (InTime' => CallInv')
<1>1. CASE UNCHANGED callVars
  BY <1>1, RestFits DEF callVars, CallInv, InTime, Fits
<1>2. ASSUME NEW fn \in Kinds \ {"arrow"}, prepare_call(fn, 0) PROVE Fits
  BY <1>2, PrepareCallFits
<1>3. ASSUME NEW home \in Homes, prepare_call("arrow", home) PROVE Fits
  <2>1. home \in Nat /\ "arrow" \in Kinds
    BY DEF Homes, Kinds, CallInv
  <2> QED
    BY <1>3, <2>1, PrepareCallFits
<1>4. ASSUME NEW fn \in Kinds \ {"arrow"}, NEW op \in {"construct", "super"}, prepare_construct(fn, op)
      PROVE  Fits
  BY <1>4, PrepareConstructFits
<1>5. CASE bind_this
  BY <1>5, BindFits DEF Fits
<1>6. ASSUME NEW v \in {undefined, Primitive, calls}, ReturnFrom(v) PROVE Fits
  BY <1>6, ReturnFits
<1>7. CASE ThrowFrom
  BY <1>7, UnwindFits DEF ThrowFrom, Fits
<1>8. CASE EnterTry
  BY <1>8, EnterTryFits DEF Fits
<1>9. CASE CallNative
  BY <1>9, CallNativeFits DEF Fits
<1>10. CASE NativeReturns
  BY <1>10, NativeReturnsFits DEF Fits
<1>11. CASE NativeThrows
  BY <1>11, NativeThrowsFits DEF Fits
<1>12. ASSUME NEW seam \in Seams, NEW fn \in Kinds \ {"arrow"}, Reenter(seam, fn) PROVE Fits
  BY <1>12, ReenterFits
<1>13. CASE DeadlinePasses
  BY <1>13, RestFits DEF DeadlinePasses, InTime, Fits
<1>14. CASE DeadlineHits
  <2>1. FloorHoldsStep /\ ThisBoundOnceStep
    BY <1>14, DeadlineKeepsFloors
  <2>2. ~InTime'
    BY <1>14 DEF DeadlineHits, CallInv, InTime
  <2> QED
    BY <2>1, <2>2
<1> QED
  BY <1>1, <1>2, <1>3, <1>4, <1>5, <1>6, <1>7, <1>8, <1>9, <1>10, <1>11, <1>12, <1>13, <1>14
     DEF CallsNext, Fits

\* Once an execute has returned for the deadline, the deadline is behind.
LEMMA TimeIsUp ==
    ASSUME ~InTime, [CallsNext]_callVars
    PROVE  ~InTime'
<1>1. ASSUME deadline' \in {deadline, "hit", "caught"} PROVE ~InTime'
  BY <1>1 DEF InTime
<1>2. unwind_frames(frames) => deadline' \in {deadline, "caught"}
  BY DEF unwind_frames
<1>3. CASE UNCHANGED callVars
  BY <1>1, <1>3 DEF callVars
<1>4. ASSUME NEW fn \in Kinds, NEW home \in Nat, prepare_call(fn, home) PROVE ~InTime'
  BY <1>1, <1>2, <1>4 DEF prepare_call
<1>5. ASSUME NEW fn \in Kinds, NEW op, prepare_construct(fn, op) PROVE ~InTime'
  BY <1>1, <1>2, <1>5 DEF prepare_construct
<1>6. ASSUME NEW v, ReturnFrom(v) PROVE ~InTime'
  BY <1>1, <1>2, <1>6 DEF ReturnFrom, complete_frame
<1>7. CASE bind_this \/ ThrowFrom \/ EnterTry
  BY <1>1, <1>2, <1>7 DEF bind_this, ThrowFrom, EnterTry
<1>8. CASE CallNative \/ NativeReturns \/ NativeThrows
  BY <1>1, <1>8 DEF CallNative, NativeReturns, NativeThrows
<1>9. ASSUME NEW seam, NEW fn, Reenter(seam, fn) PROVE ~InTime'
  BY <1>1, <1>9 DEF Reenter
<1>10. CASE DeadlinePasses \/ DeadlineHits
  BY <1>1, <1>10 DEF DeadlinePasses, DeadlineHits, InTime
<1> QED
  <2>1. Homes \in SUBSET Nat /\ "arrow" \in Kinds /\ 0 \in Nat
    BY DEF Homes, Kinds
  <2> QED
    BY <1>3, <1>4, <1>5, <1>6, <1>7, <1>8, <1>9, <1>10, <2>1 DEF CallsNext

\* A run begins with the frame of the main program and an empty Rust stack.
LEMMA InitFits ==
    ASSUME CallsInit
    PROVE  CallInv
<1>1. /\ frames = <<Main>> /\ top = max_regs("main") /\ natives = <<>>
      /\ this = <<undefined>> /\ calls = 1 /\ deadline = "none" /\ ended = FALSE
  BY DEF CallsInit
<1>2. /\ Main \in FrameSet /\ End(Main) = max_regs("main") /\ Main.act = 1
      /\ Main.newTarget = FALSE /\ Main.parked = "none"
  BY DEF Main, FrameSet, max_regs, Parks, Made, End
<1> HIDE DEF Main
<1>3. /\ frames \in Seq(FrameSet) /\ Len(frames) = 1 /\ frames[1] = Main
      /\ natives \in Seq(NativeSet) /\ Len(natives) = 0
  BY <1>1, <1>2
<1>4. this \in Seq(Values) /\ Len(this) = 1
  <2>1. undefined \in Values
    BY DEF Values
  <2> QED
    BY <1>1, <2>1
<1>5. Bound(frames[1], this)
  BY <1>2, <1>3, <1>4 DEF Bound
<1>6. Stacked(frames, natives) /\ Nested(frames, natives) /\ Controlled(frames, natives)
  BY <1>1, <1>2, <1>3 DEF Stacked, Nested, Controlled, Last
<1>7. Good(frames, natives, this)
  BY <1>3, <1>4, <1>5, <1>6 DEF Good
<1>8. top = End(Frame)
  BY <1>1, <1>2, <1>3 DEF Frame, Last
<1>9. calls \in 1 .. MaxCalls
  <2>1. calls = 1
    BY <1>1
  <2> QED
    BY <2>1
<1>10. ended \in BOOLEAN /\ ~ended
  <2>1. ended = FALSE
    BY <1>1
  <2> QED
    BY <2>1
<1> QED
  BY <1>1, <1>4, <1>7, <1>8, <1>9, <1>10 DEF CallInv, InTime

-----------------------------------------------------------------------------
(* What the invariant means.                                               *)

\* When an instruction is about to run, the value stack ends at the window of
\* the frame that runs it.
LEMMA StackIsCutBack ==
    ASSUME CallInv
    PROVE  StackEndsAtWindow
  BY RunningMeans DEF StackEndsAtWindow, End

\* The frame on top when a native has control is the one that called it.
LEMMA NativesReturnToTheirCallers ==
    ASSUME CallInv
    PROVE  NativeReturnsToItsCaller
  BY InNativeMeans DEF NativeReturnsToItsCaller

\* `new` answers an object and super() hands one to the constructor
\* (complete_frame, DerivedResult).
LEMMA ConstructionsGiveObjects ==
    ASSUME CallInv
    PROVE  ConstructGivesObject
<1>1. CASE ended
  BY <1>1 DEF CallInv, ConstructGivesObject
<1>2. CASE ~ended
  <2>1. frames \in Seq(FrameSet) /\ natives \in Seq(NativeSet)
    BY <1>2 DEF CallInv, Good
  <2>2. \A a \in Made : a # NoValue => IsObject(a)
    BY DEF Made, IsObject
  <2>3. \A i \in DOMAIN frames : frames[i] \in FrameSet
    BY <2>1
  <2>4. \A k \in DOMAIN natives : natives[k] \in NativeSet
    BY <2>1
  <2> QED
    BY <2>2, <2>3, <2>4 DEF ConstructGivesObject, FrameSet, NativeSet
<1> QED
  BY <1>1, <1>2

\* The frames stay within the depth limit, and no window overlaps another.
LEMMA WindowsAreNested ==
    ASSUME CallInv
    PROVE  WindowsNest
<1>1. this \in Seq(Values) /\ \A a \in DOMAIN this : this[a] \in Values
  BY DEF CallInv
<1>2. CASE ended
  <2>1. Len(<<>>) = 0
    OBVIOUS
  <2> QED
    BY <1>1, <1>2, <2>1 DEF CallInv, WindowsNest
<1>3. CASE ~ended
  <2>1. /\ frames \in Seq(FrameSet) /\ natives \in Seq(NativeSet) /\ Len(frames) \in Nat
        /\ Len(frames) <= MaxFrames + Len(natives)
        /\ Stacked(frames, natives) /\ Nested(frames, natives)
    BY <1>3 DEF CallInv, Good
  <2>2. \A i \in DOMAIN frames : frames[i] \in FrameSet
    BY <2>1
  <2>3. \A i \in DOMAIN frames : frames[i].got \in Values /\ frames[i].super \in Values
    BY <2>2 DEF FrameSet, Made, Values
  <2>4. ASSUME NEW i \in 1 .. Len(frames) - 1
        PROVE  frames[i].base + frames[i].regs <= frames[i + 1].base
    <3>1. /\ i \in DOMAIN frames /\ i + 1 \in DOMAIN frames
          /\ End(frames[i]) \in Nat /\ frames[i + 1].base \in Nat
      <4>1. i \in DOMAIN frames /\ i + 1 \in DOMAIN frames
        BY <2>1
      <4> QED
        BY <2>2, <4>1 DEF FrameSet, End
    <3>2. CASE \A k \in 1 .. Len(natives) : natives[k].depth # i
      <4>1. frames[i + 1].base = End(frames[i])
        BY <2>1, <3>2 DEF Stacked
      <4> QED
        BY <3>1, <4>1 DEF End
    <3>3. ASSUME NEW k \in 1 .. Len(natives), natives[k].depth = i
          PROVE  frames[i + 1].base >= End(frames[i])
      <4>1. Good(frames, natives, this)
        BY <1>3 DEF CallInv
      <4>2. natives[k].seam # "none"
        <5>1. k < Len(natives) \/ k = Len(natives)
          BY <2>1
        <5>2. CASE k < Len(natives)
          BY <4>1, <5>2, LoopsRun
        <5>3. CASE k = Len(natives)
          <6>1. natives # <<>> /\ Last(natives) = natives[k]
            BY <5>3 DEF Last
          <6> QED
            BY <2>1, <3>3, <4>1, <6>1 DEF Good, Controlled
        <5> QED
          BY <5>1, <5>2, <5>3
      <4>3. frames[i + 1].base = natives[k].base + Parked(natives[k].seam) /\ natives[k].base = End(frames[i])
        BY <2>1, <3>3, <4>2 DEF Nested
      <4>4. Parked(natives[k].seam) \in Nat
        BY DEF Parked, Parking
      <4> QED
        BY <3>1, <4>3, <4>4
    <3> QED
      BY <3>1, <3>2, <3>3 DEF End
  <2> QED
    BY <1>1, <2>1, <2>3, <2>4 DEF WindowsNest
<1> QED
  BY <1>2, <1>3

-----------------------------------------------------------------------------
(* The theorems.                                                           *)

\* Frames are stacked window on window and natives are nested in them, whoever
\* has control, until an execute returns for the deadline (call_setup.rs,
\* execute.rs).
THEOREM CallsKept == CallsSpec => [](InTime => CallInv)
<1>1. CallsInit => (InTime => CallInv)
  BY InitFits
<1>2. (InTime => CallInv) /\ [CallsNext]_callVars => (InTime => CallInv)'
  BY NextFits, TimeIsUp
<1> QED
  BY <1>1, <1>2, PTL DEF CallsSpec

\* No step of a nested dispatch loop, the deadline's included, touches the frames
\* its native was called over, and none binds a `this` again (stop_at_frames,
\* unwind, CheckThisUnbound).
THEOREM CallsStayAboveTheirFloor == CallsSpec => CallsKeepToTheirFloor
<1>1. (InTime => CallInv) /\ [CallsNext]_callVars => [CallsKeepStep]_callVars
  BY NextFits DEF CallsKeepStep
<1>2. CallsSpec => [](InTime => CallInv)
  BY CallsKept
<1> QED
  BY <1>1, <1>2, PTL DEF CallsSpec, CallsKeepToTheirFloor

\* However calls, constructions, natives and nested dispatch loops end, they
\* leave the windows nested, the value stack at the window of the frame that
\* goes on, and an object for `new` (call_setup.rs, execute.rs).
THEOREM CallsAreUnwound == CallsSpec => []CallsUnwind
<1>1. (InTime => CallInv) => CallsUnwind
  BY WindowsAreNested, StackIsCutBack, NativesReturnToTheirCallers, ConstructionsGiveObjects
     DEF CallsUnwind
<1> QED
  BY <1>1, CallsKept, PTL
=============================================================================
