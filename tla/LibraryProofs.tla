--------------------------- MODULE LibraryProofs ---------------------------
(***************************************************************************)
(* Proofs about three components of the library run.  The combinators of   *)
(* Promise hand over what their elements settled with, once; the sweep of  *)
(* the conformance harness reports each test as that test deserves; the    *)
(* slots that shapes and dictionaries name are slots the object has.       *)
(***************************************************************************)
EXTENDS Combinators, Conformance, Accessors, NumberInduction, SequenceTheorems
-----------------------------------------------------------------------------
(* The combinators.  What a combinator has handed out, counted and called. *)

Message == [fn : {"resolve", "reject"}, what : {"value", "values", "errors", "lacking", "reason"}]
Frame   == [by : {"loop", "handler"}, fn : {"resolve", "reject"},
            what : {"value", "values", "errors", "lacking", "reason"}]
Walking == {"next", "element", "then", "invoke", "invoked", "closing", "settlingElement"}
Before  == {"idle", "callback", "keyed", "construct", "resolve", "iterator"}

\* The calls so far that handed an array over, and the elements whose outcome
\* is open.
PaidIn(t) == {n \in DOMAIN t : t[n].what \in {"values", "errors", "lacking"}}
Undone    == {i \in counted : entries[i] = Hole}

\* The watched inputs whose job is still to run.
Unfired   == {i \in handed : <<i, "both">> \notin already}
Refusal   == [fn |-> "reject", what |-> "reason"]

Typed ==
    /\ kind \in Kinds \cup {"none"} /\ cap \in {"native", "user"}
    /\ pair \in [used : BOOLEAN, resolve : BOOLEAN, reject : BOOLEAN]
    /\ iter \in {"none", "open", "exhausted", "failed", "closed"}
    /\ pc \in {"returned", "threw", "panicked", "settling"} \cup Before \cup Walking
    /\ index \in 0 .. MaxElements /\ remaining \in Int
    /\ counted \subseteq Elements /\ handed \subseteq Elements
    /\ entries \in [Elements -> Halves \cup {"undefined", Hole}]
    /\ promise \in Halves \cup {"pending"}
    /\ told \in Seq(Message) /\ stack \in Seq(Frame)

\* What the place the operation has reached says of its kind and its iterator.
Placed ==
    /\ pc # "idle" => kind \in Kinds
    /\ pc = "construct" => kind \notin Keyed
    /\ pc \in {"resolve", "iterator"} \cup Walking => kind \in Streamed
    /\ kind \in Keyed => /\ cap = "native" /\ iter = "none"
                        /\ pc \in {"keyed", "settling", "returned", "threw", "panicked"}
    /\ pc \in {"keyed", "panicked"} => kind \in Keyed
    /\ pc = "callback" => kind = "try"
    /\ iter = "open" <=> pc \in Walking
    /\ iter # "none" => kind \in Streamed
    /\ pc \in {"element", "then", "invoke", "invoked", "settlingElement"} => index \in Elements

\* Nothing has happened before the loop begins.
Untouched ==
    pc \in Before =>
      /\ iter = "none" /\ index = 0 /\ promise = "pending"
      /\ remaining = IF pc = "iterator" THEN exhaustion_token ELSE 0
      /\ counted = {} /\ handed = {} /\ already = {} /\ entries = [i \in Elements |-> Hole]
      /\ told = <<>> /\ stack = <<>>

\* The loop's own call is the first of those that are out, and the loop waits.
LoopCallsFirst ==
    \A n \in DOMAIN stack :
       stack[n].by = "loop" => n = 1 /\ pc \in {"settling", "settlingElement"}

\* Elements are counted, then handed out, in the order of the iterator; what an
\* element's handler wrote it wrote under its alreadyCalled record.
Walked ==
    kind \in Streamed =>
      /\ iter = "none" => counted = {} /\ handed = {}
      /\ counted \subseteq 0 .. index /\ handed \subseteq 0 .. index
      /\ IF kind = "race" THEN counted = {} ELSE handed \subseteq counted
      /\ pc \in {"next", "element", "then"} \/ iter = "exhausted" =>
            /\ index \notin counted
            /\ kind # "race" => counted = 0 .. index - 1
      /\ pc \in {"invoke", "invoked", "settlingElement"} /\ kind # "race" =>
            counted = 0 .. index
      /\ pc \in {"next", "element", "then", "invoke"} => index \notin handed
      /\ pc = "invoke" => entries[index] = Hole
      /\ \A i \in Elements :
            entries[i] # Hole => i \in counted /\ (i \in handed => <<i, "both">> \in already)

\* What SLOT_REMAINING says: see CountsUnsettled; before the iterator is there,
\* and for race always, it is not counted down.
Counted ==
    /\ kind \in Streamed /\ kind # "race" /\ iter # "none" =>
          remaining = Cardinality(Undone) + (IF iter = "exhausted" THEN 0 ELSE exhaustion_token)
    /\ kind \in Streamed /\ (kind = "race" \/ iter = "none") => remaining \in {0, 1}
    /\ kind \notin Streamed \cup Keyed => remaining = 0

\* An array was handed over when, and only when, the count came to nothing.
Paid ==
    /\ \A m, n \in PaidIn(told) : m = n
    /\ kind \in Streamed => (PaidIn(told) # {} <=>
                               kind # "race" /\ iter = "exhausted" /\ remaining = 0)
    /\ kind \notin Streamed \cup Keyed => PaidIn(told) = {}

\* A loop that gave up has told reject why; one that throws was thrown at.
Refused ==
    kind \in Streamed /\ pc \in {"settling", "returned"} /\ iter # "exhausted" =>
       \E n \in DOMAIN told : told[n] = Refusal
Thrown == pc = "threw" /\ iter # "none" => cap = "user"

\* Every job takes at most two off the count.  While the aggregate of a keyed
\* combinator is pending, the count is positive and no more than the watched
\* inputs whose job is still to run, and what is not watched has its outcome; a
\* result lacks one only where two inputs were watched.
Watched ==
    /\ kind \in Keyed /\ pc # "keyed" =>
         /\ handed \subseteq 0 .. index - 1
         /\ remaining <= MaxElements /\ -2 * Cardinality(handed \ Unfired) <= remaining
         /\ Cardinality(handed) <= 1 => \A n \in DOMAIN told : told[n].what # "lacking"
    /\ kind \in Keyed /\ pc \notin {"keyed", "threw"} /\ promise = "pending" =>
         /\ PaidIn(told) = {} /\ 0 < remaining /\ remaining <= Cardinality(Unfired)
         /\ \A i \in 0 .. index - 1 : i \in handed \/ entries[i] \in Halves

CombInv ==
    /\ Typed /\ Placed /\ Untouched /\ LoopCallsFirst /\ Walked
    /\ Counted /\ Paid /\ Refused /\ Thrown /\ Watched
-----------------------------------------------------------------------------
(* Calls of the capability's functions.                                    *)

\* A call of one of the pair's functions is remembered behind the earlier ones,
\* is out above the others, and settles an aggregate of the engine's own.
LEMMA CallMade ==
    ASSUME Typed, NEW by \in {"loop", "handler"}, NEW call \in Message, Calls(by, call)
    PROVE  /\ told' \in Seq(Message) /\ stack' \in Seq(Frame)
           /\ promise' \in Halves \cup {"pending"}
           /\ \E n \in DOMAIN told' : told'[n] = call
           /\ \A n \in DOMAIN told : n \in DOMAIN told' /\ told'[n] = told[n]
           /\ PaidIn(told') = IF call.what \in {"values", "errors", "lacking"}
                              THEN PaidIn(told) \cup {Len(told) + 1} ELSE PaidIn(told)
           /\ \A n \in DOMAIN stack' :
                 stack'[n].by = "loop" => \/ n \in DOMAIN stack /\ stack[n].by = "loop"
                                          \/ by = "loop" /\ n = Len(stack) + 1
           /\ cap = "native" => promise' # "pending"
           /\ promise # "pending" \/ cap = "user" => promise' = promise
<1> DEFINE frame == [by |-> by, fn |-> call.fn, what |-> call.what]
<1>1. call # NoCall /\ call = [fn |-> call.fn, what |-> call.what]
  BY DEF Message, NoCall
<1>2. told' = Append(told, call) /\ stack' = Append(stack, frame)
  BY <1>1 DEF Calls
<1>3. /\ promise' = IF cap = "native" /\ promise = "pending"
                    THEN IF call.fn = "resolve" THEN "fulfilled" ELSE "rejected"
                    ELSE promise
      /\ promise \in Halves \cup {"pending"}
  BY <1>1 DEF Calls, Typed
<1>4. frame \in Frame /\ frame.by = by
  BY DEF Message, Frame
<1> HIDE DEF frame
<1>5. /\ told \in Seq(Message) /\ DOMAIN told = 1 .. Len(told) /\ Len(told) \in Nat
      /\ stack \in Seq(Frame) /\ DOMAIN stack = 1 .. Len(stack) /\ Len(stack) \in Nat
  BY DEF Typed
<1>6. /\ told' \in Seq(Message) /\ DOMAIN told' = 1 .. Len(told) + 1
      /\ told'[Len(told) + 1] = call /\ \A n \in 1 .. Len(told) : told'[n] = told[n]
  BY <1>2, <1>5
<1>7. /\ stack' \in Seq(Frame) /\ DOMAIN stack' = 1 .. Len(stack) + 1
      /\ stack'[Len(stack) + 1] = frame /\ \A n \in 1 .. Len(stack) : stack'[n] = stack[n]
  BY <1>2, <1>4, <1>5
<1>8. PaidIn(told') = IF call.what \in {"values", "errors", "lacking"}
                      THEN PaidIn(told) \cup {Len(told) + 1} ELSE PaidIn(told)
  <2>1. DOMAIN told' = DOMAIN told \cup {Len(told) + 1}
    BY <1>5, <1>6
  <2>2. told'[Len(told) + 1] = call /\ \A n \in DOMAIN told : told'[n] = told[n]
    BY <1>5, <1>6
  <2> QED
    BY <2>1, <2>2 DEF PaidIn
<1>9. promise' \in Halves \cup {"pending"} /\ (cap = "native" => promise' # "pending")
      /\ (promise # "pending" \/ cap = "user" => promise' = promise)
  BY <1>3 DEF Halves
<1>10. /\ \E n \in DOMAIN told' : told'[n] = call
       /\ \A n \in DOMAIN told : n \in DOMAIN told' /\ told'[n] = told[n]
  BY <1>5, <1>6
<1>11. \A n \in DOMAIN stack' :
          stack'[n].by = "loop" => \/ n \in DOMAIN stack /\ stack[n].by = "loop"
                                   \/ by = "loop" /\ n = Len(stack) + 1
  BY <1>4, <1>5, <1>7
<1> QED
  BY <1>6, <1>7, <1>8, <1>9, <1>10, <1>11

\* A call with nothing to say is none.
LEMMA NothingSaid ==
    ASSUME NEW by, Calls(by, NoCall)
    PROVE  UNCHANGED <<told, promise, stack>>
BY DEF Calls

\* What a call the loop makes for itself leaves behind: it is the only one out.
LEMMA LoopCall ==
    ASSUME Typed, stack = <<>>, NEW call \in Message, Calls("loop", call)
    PROVE  /\ told' \in Seq(Message) /\ stack' \in Seq(Frame)
           /\ promise' \in Halves \cup {"pending"}
           /\ \E n \in DOMAIN told' : told'[n] = call
           /\ PaidIn(told') = IF call.what \in {"values", "errors", "lacking"}
                              THEN PaidIn(told) \cup {Len(told) + 1} ELSE PaidIn(told)
           /\ \A n \in DOMAIN stack' : stack'[n].by = "loop" => n = 1
           /\ cap = "native" => promise' # "pending"
<1>1. Len(stack) = 0 /\ DOMAIN stack = {}
  OBVIOUS
<1> QED
  BY <1>1, CallMade

\* A rejection of the loop's hands nothing over.
LEMMA Rejected ==
    ASSUME Typed, stack = <<>>, Rejects
    PROVE  /\ told' \in Seq(Message) /\ stack' \in Seq(Frame)
           /\ promise' \in Halves \cup {"pending"}
           /\ \E n \in DOMAIN told' : told'[n] = Refusal
           /\ PaidIn(told') = PaidIn(told) /\ pc' = "settling"
           /\ \A n \in DOMAIN stack' : stack'[n].by = "loop" => n = 1
<1>1. Refusal \in Message /\ Refusal.what \notin {"values", "errors", "lacking"}
  BY DEF Message, Refusal
<1>2. Calls("loop", Refusal) /\ pc' = "settling"
  BY DEF Refusal, Rejects
<1> QED
  BY <1>1, <1>2, LoopCall

\* The frame on top goes: those below stay as they are.
LEMMA Popped ==
    ASSUME Typed, stack # <<>>
    PROVE  /\ SubSeq(stack, 1, Len(stack) - 1) \in Seq(Frame)
           /\ DOMAIN SubSeq(stack, 1, Len(stack) - 1) = 1 .. Len(stack) - 1
           /\ Len(SubSeq(stack, 1, Len(stack) - 1)) = Len(stack) - 1
           /\ \A n \in 1 .. Len(stack) - 1 : SubSeq(stack, 1, Len(stack) - 1)[n] = stack[n]
           /\ DOMAIN stack = 1 .. Len(stack) /\ Len(stack) \in Nat \ {0}
           /\ stack[Len(stack)] \in Frame
<1>1. stack \in Seq(Frame) /\ Len(stack) \in Nat \ {0} /\ DOMAIN stack = 1 .. Len(stack)
  BY DEF Typed
<1> QED
  BY <1>1

-----------------------------------------------------------------------------
(* Counting elements.                                                      *)

\* The elements are finitely many, and so is what is counted or open of them.
LEMMA ElementsFinite ==
    /\ IsFiniteSet(Elements) /\ Cardinality(Elements) = MaxElements
    /\ \A S \in SUBSET Elements :
          IsFiniteSet(S) /\ Cardinality(S) \in 0 .. MaxElements
<1>1. MaxElements \in Nat
  BY BoundsAssumption
<1>2. IsFiniteSet(Elements) /\ Cardinality(Elements) = MaxElements
  BY <1>1, FS_Interval DEF Elements
<1>3. ASSUME NEW S \in SUBSET Elements
      PROVE  IsFiniteSet(S) /\ Cardinality(S) \in 0 .. MaxElements
  <2>1. IsFiniteSet(S) /\ Cardinality(S) <= Cardinality(Elements)
    BY <1>2, FS_Subset
  <2>2. Cardinality(S) \in Nat
    BY <2>1, FS_CardinalityType
  <2> QED
    BY <1>1, <1>2, <2>1, <2>2
<1> QED
  BY <1>2, <1>3

\* What adding or taking away one element does to a count of elements.
LEMMA OneMore ==
    ASSUME NEW S \in SUBSET Elements, NEW i \in Elements
    PROVE  /\ i \notin S => Cardinality(S \cup {i}) = Cardinality(S) + 1
           /\ i \in S => Cardinality(S \ {i}) = Cardinality(S) - 1
<1>1. IsFiniteSet(S)
  BY ElementsFinite
<1> QED
  BY <1>1, FS_AddElement, FS_RemoveElement

\* A count of elements that is zero counts none.
LEMMA NoneLeft ==
    ASSUME NEW S \in SUBSET Elements
    PROVE  Cardinality(S) = 0 <=> S = {}
<1>1. IsFiniteSet(S)
  BY ElementsFinite
<1> QED
  BY <1>1, FS_EmptySet

\* The open elements are elements, and stay when nothing is counted or written.
LEMMA UndoneElements ==
    ASSUME Typed
    PROVE  /\ Undone \subseteq Elements /\ Cardinality(Undone) \in 0 .. MaxElements
           /\ UNCHANGED <<counted, entries>> => Undone' = Undone
<1>1. Undone \subseteq Elements
  BY DEF Typed, Undone
<1>2. UNCHANGED <<counted, entries>> => Undone' = Undone
  BY DEF Undone
<1> QED
  BY <1>1, <1>2, ElementsFinite
\* The operation is called: nothing has happened yet, and keyed ones have the
\* engine's own capability.
LEMMA StepCall ==
    ASSUME CombInv, NEW k \in Kinds, Call(k)
    PROVE  CombInv'
<1> USE DEF At, loop, Streamed, Keyed, Halves, Before, Walking, exhaustion_token, Call
<1>1. /\ Typed /\ Placed /\ Untouched /\ LoopCallsFirst /\ Walked
      /\ Counted /\ Paid /\ Refused /\ Thrown /\ Watched
  BY DEF CombInv
<1>2. Undone' = Undone
  BY <1>1, UndoneElements
<1>11. Typed'
  BY <1>1, <1>2 DEF Typed
<1>12. Placed'
  BY <1>1, <1>2 DEF Placed, Typed, Untouched
<1>13. Untouched'
  BY <1>1, <1>2 DEF Untouched, Placed
<1>14. LoopCallsFirst'
  BY <1>1, <1>2 DEF LoopCallsFirst
<1>15. Walked'
  BY <1>1, <1>2 DEF Walked, Placed, Untouched
<1>16. Counted'
  BY <1>1, <1>2 DEF Counted, Untouched, Placed
<1>17. Paid'
  BY <1>1, <1>2 DEF Paid, Placed, Untouched
<1>18. Refused'
  BY <1>1, <1>2 DEF Refused, Placed, Untouched
<1>19. Thrown'
  BY <1>1, <1>2 DEF Thrown, Placed, Untouched
<1>20. Watched'
  BY <1>1, <1>2 DEF Watched, Unfired, Placed, Untouched
<1> QED
  BY <1>11, <1>12, <1>13, <1>14, <1>15, <1>16, <1>17, <1>18, <1>19, <1>20 DEF CombInv

\* The receiver cannot be constructed: the call throws with nothing to reject.
LEMMA StepConstructThrows ==
    ASSUME CombInv, ConstructThrows
    PROVE  CombInv'
<1> USE DEF At, loop, Streamed, Keyed, Halves, Before, Walking, exhaustion_token, ConstructThrows
<1>1. /\ Typed /\ Placed /\ Untouched /\ LoopCallsFirst /\ Walked
      /\ Counted /\ Paid /\ Refused /\ Thrown /\ Watched
  BY DEF CombInv
<1>2. Undone' = Undone
  BY <1>1, UndoneElements
<1>11. Typed'
  BY <1>1, <1>2 DEF Typed
<1>12. Placed'
  BY <1>1, <1>2 DEF Placed, Typed
<1>13. Untouched'
  BY <1>1, <1>2 DEF Untouched, Placed
<1>14. LoopCallsFirst'
  BY <1>1, <1>2 DEF LoopCallsFirst
<1>15. Walked'
  BY <1>1, <1>2 DEF Walked, Placed, Untouched
<1>16. Counted'
  BY <1>1, <1>2 DEF Counted, Untouched, Placed
<1>17. Paid'
  BY <1>1, <1>2 DEF Paid, Placed, Untouched
<1>18. Refused'
  BY <1>1, <1>2 DEF Refused, Placed, Untouched
<1>19. Thrown'
  BY <1>1, <1>2 DEF Thrown, Placed, Untouched
<1>20. Watched'
  BY <1>1, <1>2 DEF Watched, Unfired, Placed, Untouched
<1> QED
  BY <1>11, <1>12, <1>13, <1>14, <1>15, <1>16, <1>17, <1>18, <1>19, <1>20 DEF CombInv

\* The executor records the pair.
LEMMA StepExecutor ==
    ASSUME CombInv, NEW resolve \in BOOLEAN, NEW reject \in BOOLEAN, capability_executor(resolve, reject)
    PROVE  CombInv'
<1> USE DEF At, loop, Streamed, Keyed, Halves, Before, Walking, exhaustion_token, capability_executor
<1>1. /\ Typed /\ Placed /\ Untouched /\ LoopCallsFirst /\ Walked
      /\ Counted /\ Paid /\ Refused /\ Thrown /\ Watched
  BY DEF CombInv
<1>2. Undone' = Undone
  BY <1>1, UndoneElements
<1>11. Typed'
  BY <1>1, <1>2 DEF Typed
<1>12. Placed'
  BY <1>1, <1>2 DEF Placed, Typed
<1>13. Untouched'
  BY <1>1, <1>2 DEF Untouched, Placed
<1>14. LoopCallsFirst'
  BY <1>1, <1>2 DEF LoopCallsFirst
<1>15. Walked'
  BY <1>1, <1>2 DEF Walked, Placed, Untouched
<1>16. Counted'
  BY <1>1, <1>2 DEF Counted, Untouched, Placed
<1>17. Paid'
  BY <1>1, <1>2 DEF Paid, Placed, Untouched
<1>18. Refused'
  BY <1>1, <1>2 DEF Refused, Placed, Untouched
<1>19. Thrown'
  BY <1>1, <1>2 DEF Thrown, Placed, Untouched
<1>20. Watched'
  BY <1>1, <1>2 DEF Watched, Unfired, Placed, Untouched
<1> QED
  BY <1>11, <1>12, <1>13, <1>14, <1>15, <1>16, <1>17, <1>18, <1>19, <1>20 DEF CombInv

\* Promise.try's callback came back.
LEMMA StepTry ==
    ASSUME CombInv, run_promise_try
    PROVE  CombInv'
<1> USE DEF At, loop, Streamed, Keyed, Halves, Before, Walking, exhaustion_token, run_promise_try
<1>1. /\ Typed /\ Placed /\ Untouched /\ LoopCallsFirst /\ Walked
      /\ Counted /\ Paid /\ Refused /\ Thrown /\ Watched
  BY DEF CombInv
<1>2. Undone' = Undone
  BY <1>1, UndoneElements
<1>11. Typed'
  BY <1>1, <1>2 DEF Typed
<1>12. Placed'
  BY <1>1, <1>2 DEF Placed, Typed
<1>13. Untouched'
  BY <1>1, <1>2 DEF Untouched, Placed
<1>14. LoopCallsFirst'
  BY <1>1, <1>2 DEF LoopCallsFirst
<1>15. Walked'
  BY <1>1, <1>2 DEF Walked, Placed, Untouched
<1>16. Counted'
  BY <1>1, <1>2 DEF Counted, Untouched, Placed
<1>17. Paid'
  BY <1>1, <1>2 DEF Paid, Placed, Untouched
<1>18. Refused'
  BY <1>1, <1>2 DEF Refused, Placed, Untouched
<1>19. Thrown'
  BY <1>1, <1>2 DEF Thrown, Placed, Untouched
<1>20. Watched'
  BY <1>1, <1>2 DEF Watched, Unfired, Placed, Untouched
<1> QED
  BY <1>11, <1>12, <1>13, <1>14, <1>15, <1>16, <1>17, <1>18, <1>19, <1>20 DEF CombInv

\* The iterator yields another element.
LEMMA StepNextElement ==
    ASSUME CombInv, NextElement
    PROVE  CombInv'
<1> USE DEF At, loop, Streamed, Keyed, Halves, Before, Walking, exhaustion_token, NextElement, Elements
<1>1. /\ Typed /\ Placed /\ Untouched /\ LoopCallsFirst /\ Walked
      /\ Counted /\ Paid /\ Refused /\ Thrown /\ Watched
  BY DEF CombInv
<1>2. Undone' = Undone
  BY <1>1, UndoneElements
<1>11. Typed'
  BY <1>1, <1>2 DEF Typed
<1>12. Placed'
  BY <1>1, <1>2, BoundsAssumption DEF Placed, Typed
<1>13. Untouched'
  BY <1>1, <1>2 DEF Untouched, Placed
<1>14. LoopCallsFirst'
  BY <1>1, <1>2 DEF LoopCallsFirst
<1>15. Walked'
  BY <1>1, <1>2 DEF Walked, Placed, Untouched
<1>16. Counted'
  BY <1>1, <1>2 DEF Counted, Untouched, Placed
<1>17. Paid'
  BY <1>1, <1>2 DEF Paid, Placed, Untouched
<1>18. Refused'
  BY <1>1, <1>2 DEF Refused, Placed, Untouched
<1>19. Thrown'
  BY <1>1, <1>2 DEF Thrown, Placed, Untouched
<1>20. Watched'
  BY <1>1, <1>2 DEF Watched, Unfired, Placed, Untouched
<1> QED
  BY <1>11, <1>12, <1>13, <1>14, <1>15, <1>16, <1>17, <1>18, <1>19, <1>20 DEF CombInv

\* Reading `then` throws: the iterator is still to be closed.
LEMMA StepThenThrows ==
    ASSUME CombInv, ThenThrows
    PROVE  CombInv'
<1> USE DEF At, loop, Streamed, Keyed, Halves, Before, Walking, exhaustion_token, ThenThrows, AbruptElement
<1>1. /\ Typed /\ Placed /\ Untouched /\ LoopCallsFirst /\ Walked
      /\ Counted /\ Paid /\ Refused /\ Thrown /\ Watched
  BY DEF CombInv
<1>2. Undone' = Undone
  BY <1>1, UndoneElements
<1>11. Typed'
  BY <1>1, <1>2 DEF Typed
<1>12. Placed'
  BY <1>1, <1>2 DEF Placed, Typed
<1>13. Untouched'
  BY <1>1, <1>2 DEF Untouched, Placed
<1>14. LoopCallsFirst'
  BY <1>1, <1>2 DEF LoopCallsFirst
<1>15. Walked'
  BY <1>1, <1>2 DEF Walked, Placed, Untouched
<1>16. Counted'
  BY <1>1, <1>2 DEF Counted, Untouched, Placed
<1>17. Paid'
  BY <1>1, <1>2 DEF Paid, Placed, Untouched
<1>18. Refused'
  BY <1>1, <1>2 DEF Refused, Placed, Untouched
<1>19. Thrown'
  BY <1>1, <1>2 DEF Thrown, Placed, Untouched
<1>20. Watched'
  BY <1>1, <1>2 DEF Watched, Unfired, Placed, Untouched
<1> QED
  BY <1>11, <1>12, <1>13, <1>14, <1>15, <1>16, <1>17, <1>18, <1>19, <1>20 DEF CombInv

\* Call(promiseResolve, C, element) returns or throws.
LEMMA StepResolveElement ==
    ASSUME CombInv, ResolveElement
    PROVE  CombInv'
<1> USE DEF At, loop, Streamed, Keyed, Halves, Before, Walking, exhaustion_token, ResolveElement, AbruptElement
<1>1. /\ Typed /\ Placed /\ Untouched /\ LoopCallsFirst /\ Walked
      /\ Counted /\ Paid /\ Refused /\ Thrown /\ Watched
  BY DEF CombInv
<1>2. Undone' = Undone
  BY <1>1, UndoneElements
<1>11. Typed'
  BY <1>1, <1>2 DEF Typed
<1>12. Placed'
  BY <1>1, <1>2 DEF Placed, Typed
<1>13. Untouched'
  BY <1>1, <1>2 DEF Untouched, Placed
<1>14. LoopCallsFirst'
  BY <1>1, <1>2 DEF LoopCallsFirst
<1>15. Walked'
  BY <1>1, <1>2 DEF Walked, Placed, Untouched
<1>16. Counted'
  BY <1>1, <1>2 DEF Counted, Untouched, Placed
<1>17. Paid'
  BY <1>1, <1>2 DEF Paid, Placed, Untouched
<1>18. Refused'
  BY <1>1, <1>2 DEF Refused, Placed, Untouched
<1>19. Thrown'
  BY <1>1, <1>2 DEF Thrown, Placed, Untouched
<1>20. Watched'
  BY <1>1, <1>2 DEF Watched, Unfired, Placed, Untouched
<1> QED
  BY <1>11, <1>12, <1>13, <1>14, <1>15, <1>16, <1>17, <1>18, <1>19, <1>20 DEF CombInv

\* The call of `then` throws; its handlers are out all the same.
LEMMA StepInvokeThrows ==
    ASSUME CombInv, InvokeThrows
    PROVE  CombInv'
<1> USE DEF At, loop, Streamed, Keyed, Halves, Before, Walking, exhaustion_token, InvokeThrows, AbruptElement
<1>1. /\ Typed /\ Placed /\ Untouched /\ LoopCallsFirst /\ Walked
      /\ Counted /\ Paid /\ Refused /\ Thrown /\ Watched
  BY DEF CombInv
<1>2. Undone' = Undone
  BY <1>1, UndoneElements
<1>11. Typed'
  BY <1>1, <1>2 DEF Typed
<1>12. Placed'
  BY <1>1, <1>2 DEF Placed, Typed
<1>13. Untouched'
  BY <1>1, <1>2 DEF Untouched, Placed
<1>14. LoopCallsFirst'
  BY <1>1, <1>2 DEF LoopCallsFirst
<1>15. Walked'
  BY <1>1, <1>2 DEF Walked, Placed, Untouched
<1>16. Counted'
  BY <1>1, <1>2 DEF Counted, Untouched, Placed
<1>17. Paid'
  BY <1>1, <1>2 DEF Paid, Placed, Untouched
<1>18. Refused'
  BY <1>1, <1>2 DEF Refused, Placed, Untouched
<1>19. Thrown'
  BY <1>1, <1>2 DEF Thrown, Placed, Untouched
<1>20. Watched'
  BY <1>1, <1>2 DEF Watched, Unfired, Placed, Untouched
<1> QED
  BY <1>11, <1>12, <1>13, <1>14, <1>15, <1>16, <1>17, <1>18, <1>19, <1>20 DEF CombInv

\* The promise is handed back.
LEMMA StepSettled ==
    ASSUME CombInv, Settled
    PROVE  CombInv'
<1> USE DEF At, loop, Streamed, Keyed, Halves, Before, Walking, exhaustion_token, Settled
<1>1. /\ Typed /\ Placed /\ Untouched /\ LoopCallsFirst /\ Walked
      /\ Counted /\ Paid /\ Refused /\ Thrown /\ Watched
  BY DEF CombInv
<1>2. Undone' = Undone
  BY <1>1, UndoneElements
<1>11. Typed'
  BY <1>1, <1>2 DEF Typed
<1>12. Placed'
  BY <1>1, <1>2 DEF Placed, Typed
<1>13. Untouched'
  BY <1>1, <1>2 DEF Untouched, Placed
<1>14. LoopCallsFirst'
  BY <1>1, <1>2 DEF LoopCallsFirst
<1>15. Walked'
  BY <1>1, <1>2 DEF Walked, Placed, Untouched
<1>16. Counted'
  BY <1>1, <1>2 DEF Counted, Untouched, Placed
<1>17. Paid'
  BY <1>1, <1>2 DEF Paid, Placed, Untouched
<1>18. Refused'
  BY <1>1, <1>2 DEF Refused, Placed, Untouched
<1>19. Thrown'
  BY <1>1, <1>2 DEF Thrown, Placed, Untouched
<1>20. Watched'
  BY <1>1, <1>2 DEF Watched, Unfired, Placed, Untouched
<1> QED
  BY <1>11, <1>12, <1>13, <1>14, <1>15, <1>16, <1>17, <1>18, <1>19, <1>20 DEF CombInv

\* `then` returned: on to the next element.
LEMMA StepInvokeReturns ==
    ASSUME CombInv, InvokeReturns
    PROVE  CombInv'
<1> USE DEF At, loop, Streamed, Keyed, Halves, Before, Walking, exhaustion_token, InvokeReturns, Elements
<1>1. /\ Typed /\ Placed /\ Untouched /\ LoopCallsFirst /\ Walked
      /\ Counted /\ Paid /\ Refused /\ Thrown /\ Watched
  BY DEF CombInv
<1>2. Undone' = Undone
  BY <1>1, UndoneElements
<1>11. Typed'
  BY <1>1, BoundsAssumption DEF Typed, Placed
<1>12. Placed'
  BY <1>1, <1>2 DEF Placed, Typed
<1>13. Untouched'
  BY <1>1, <1>2 DEF Untouched, Placed
<1>14. LoopCallsFirst'
  BY <1>1, <1>2 DEF LoopCallsFirst
<1>15. Walked'
  BY <1>1, <1>2 DEF Walked, Placed, Untouched
<1>16. Counted'
  BY <1>1, <1>2 DEF Counted, Untouched, Placed
<1>17. Paid'
  BY <1>1, <1>2 DEF Paid, Placed, Untouched
<1>18. Refused'
  BY <1>1, <1>2 DEF Refused, Placed, Untouched
<1>19. Thrown'
  BY <1>1, <1>2 DEF Thrown, Placed, Untouched
<1>20. Watched'
  BY <1>1, <1>2 DEF Watched, Unfired, Placed, Untouched
<1> QED
  BY <1>11, <1>12, <1>13, <1>14, <1>15, <1>16, <1>17, <1>18, <1>19, <1>20 DEF CombInv

\* An element without a `then` was settled at once: on to the next.
LEMMA StepElementSettled ==
    ASSUME CombInv, ElementSettled
    PROVE  CombInv'
<1> USE DEF At, loop, Streamed, Keyed, Halves, Before, Walking, exhaustion_token, ElementSettled, Elements
<1>1. /\ Typed /\ Placed /\ Untouched /\ LoopCallsFirst /\ Walked
      /\ Counted /\ Paid /\ Refused /\ Thrown /\ Watched
  BY DEF CombInv
<1>2. Undone' = Undone
  BY <1>1, UndoneElements
<1>11. Typed'
  BY <1>1, BoundsAssumption DEF Typed, Placed
<1>12. Placed'
  BY <1>1, <1>2 DEF Placed, Typed
<1>13. Untouched'
  BY <1>1, <1>2 DEF Untouched, Placed
<1>14. LoopCallsFirst'
  BY <1>1, <1>2 DEF LoopCallsFirst
<1>15. Walked'
  BY <1>1, <1>2 DEF Walked, Placed, Untouched
<1>16. Counted'
  BY <1>1, <1>2 DEF Counted, Untouched, Placed
<1>17. Paid'
  BY <1>1, <1>2 DEF Paid, Placed, Untouched
<1>18. Refused'
  BY <1>1, <1>2 DEF Refused, Placed, Untouched
<1>19. Thrown'
  BY <1>1, <1>2 DEF Thrown, Placed, Untouched
<1>20. Watched'
  BY <1>1, <1>2 DEF Watched, Unfired, Placed, Untouched
<1> QED
  BY <1>11, <1>12, <1>13, <1>14, <1>15, <1>16, <1>17, <1>18, <1>19, <1>20 DEF CombInv

\* `then` is called with the element's handlers, which are out from here on.
LEMMA StepInvokeThen ==
    ASSUME CombInv, InvokeThen
    PROVE  CombInv'
<1> USE DEF At, loop, Streamed, Keyed, Halves, Before, Walking, exhaustion_token, InvokeThen, AbruptElement
<1>1. /\ Typed /\ Placed /\ Untouched /\ LoopCallsFirst /\ Walked
      /\ Counted /\ Paid /\ Refused /\ Thrown /\ Watched
  BY DEF CombInv
<1>2. Undone' = Undone
  BY <1>1, UndoneElements
<1>11. Typed'
  BY <1>1, <1>2 DEF Typed, Placed
<1>12. Placed'
  BY <1>1, <1>2 DEF Placed, Typed
<1>13. Untouched'
  BY <1>1, <1>2 DEF Untouched, Placed
<1>14. LoopCallsFirst'
  BY <1>1, <1>2 DEF LoopCallsFirst
<1>15. Walked'
  BY <1>1, <1>2 DEF Walked, Placed, Untouched, Typed
<1>16. Counted'
  BY <1>1, <1>2 DEF Counted, Untouched, Placed
<1>17. Paid'
  BY <1>1, <1>2 DEF Paid, Placed, Untouched
<1>18. Refused'
  BY <1>1, <1>2 DEF Refused, Placed, Untouched
<1>19. Thrown'
  BY <1>1, <1>2 DEF Thrown, Placed, Untouched
<1>20. Watched'
  BY <1>1, <1>2 DEF Watched, Unfired, Placed, Untouched
<1> QED
  BY <1>11, <1>12, <1>13, <1>14, <1>15, <1>16, <1>17, <1>18, <1>19, <1>20 DEF CombInv

\* A half that is the capability's own function settles the aggregate.
LEMMA StepCallDirectly ==
    ASSUME CombInv, NEW half \in Halves, CallDirectly(half)
    PROVE  CombInv'
<1> USE DEF At, loop, Streamed, Keyed, Halves, Before, Walking, exhaustion_token, CallDirectly
<1>1. /\ Typed /\ Placed /\ Untouched /\ LoopCallsFirst /\ Walked
      /\ Counted /\ Paid /\ Refused /\ Thrown /\ Watched
  BY DEF CombInv
<1>2. Undone' = Undone
  BY <1>1, UndoneElements
<1>11. Typed'
  BY <1>1, <1>2 DEF Typed
<1>12. Placed'
  BY <1>1, <1>2 DEF Placed, Typed
<1>13. Untouched'
  BY <1>1, <1>2 DEF Untouched, Placed
<1>14. LoopCallsFirst'
  BY <1>1, <1>2 DEF LoopCallsFirst
<1>15. Walked'
  BY <1>1, <1>2 DEF Walked, Placed, Untouched
<1>16. Counted'
  BY <1>1, <1>2 DEF Counted, Untouched, Placed
<1>17. Paid'
  BY <1>1, <1>2 DEF Paid, Placed, Untouched
<1>18. Refused'
  BY <1>1, <1>2 DEF Refused, Placed, Untouched
<1>19. Thrown'
  BY <1>1, <1>2 DEF Thrown, Placed, Untouched
<1>20. Watched'
  BY <1>1, <1>2 DEF Watched, Unfired, Placed, Untouched
<1> QED
  BY <1>11, <1>12, <1>13, <1>14, <1>15, <1>16, <1>17, <1>18, <1>19, <1>20 DEF CombInv

\* C.resolve is read: it is there and callable, or the capability rejects.
LEMMA StepGetPromiseResolve ==
    ASSUME CombInv, GetPromiseResolve
    PROVE  CombInv'
<1> USE DEF At, loop, Streamed, Keyed, Halves, Before, Walking, exhaustion_token, GetPromiseResolve
<1>1. /\ Typed /\ Placed /\ Untouched /\ LoopCallsFirst /\ Walked
      /\ Counted /\ Paid /\ Refused /\ Thrown /\ Watched
  BY DEF CombInv
<1>2. Undone' = Undone
  BY <1>1, UndoneElements
<1>3. Rejects => /\ told' \in Seq(Message) /\ stack' \in Seq(Frame)
                 /\ promise' \in Halves \cup {"pending"}
                 /\ \E n \in DOMAIN told' : told'[n] = Refusal
                 /\ PaidIn(told') = PaidIn(told) /\ pc' = "settling"
                 /\ \A n \in DOMAIN stack' : stack'[n].by = "loop" => n = 1
  BY <1>1, Rejected
<1>11. Typed'
  <2>1. /\ told' \in Seq(Message) /\ stack' \in Seq(Frame) /\ promise' \in Halves \cup {"pending"}
        /\ pc' \in {"settling", "iterator"}
    BY <1>1, <1>3 DEF Typed
  <2>2. remaining' \in Int /\ UNCHANGED <<kind, pair, cap, iter, index, counted, handed, entries>>
    BY <1>1 DEF Typed
  <2> QED
    BY <1>1, <2>1, <2>2 DEF Typed
<1>12. Placed'
  BY <1>1, <1>2, <1>3 DEF Placed, Typed
<1>13. Untouched'
  BY <1>1, <1>2, <1>3 DEF Untouched, Placed
<1>14. LoopCallsFirst'
  BY <1>1, <1>2, <1>3 DEF LoopCallsFirst
<1>15. Walked'
  BY <1>1, <1>2, <1>3 DEF Walked, Placed, Untouched
<1>16. Counted'
  BY <1>1, <1>2, <1>3 DEF Counted, Untouched, Placed
<1>17. Paid'
  BY <1>1, <1>2, <1>3 DEF Paid, Placed, Untouched
<1>18. Refused'
  BY <1>1, <1>2, <1>3 DEF Refused, Placed, Untouched
<1>19. Thrown'
  BY <1>1, <1>2, <1>3 DEF Thrown, Placed, Untouched
<1>20. Watched'
  BY <1>1, <1>2, <1>3 DEF Watched, Unfired, Placed, Untouched
<1> QED
  BY <1>11, <1>12, <1>13, <1>14, <1>15, <1>16, <1>17, <1>18, <1>19, <1>20 DEF CombInv

\* The iterator is got, or the capability rejects.
LEMMA StepGetIterator ==
    ASSUME CombInv, GetIterator
    PROVE  CombInv'
<1> USE DEF At, loop, Streamed, Keyed, Halves, Before, Walking, exhaustion_token, GetIterator
<1>1. /\ Typed /\ Placed /\ Untouched /\ LoopCallsFirst /\ Walked
      /\ Counted /\ Paid /\ Refused /\ Thrown /\ Watched
  BY DEF CombInv
<1>2. Undone' = Undone
  BY <1>1, UndoneElements
<1>3. Rejects => /\ told' \in Seq(Message) /\ stack' \in Seq(Frame)
                 /\ promise' \in Halves \cup {"pending"}
                 /\ \E n \in DOMAIN told' : told'[n] = Refusal
                 /\ PaidIn(told') = PaidIn(told) /\ pc' = "settling"
                 /\ \A n \in DOMAIN stack' : stack'[n].by = "loop" => n = 1
  BY <1>1, Rejected
<1>4. iter' = "open" => counted = {} /\ Undone = {} /\ Cardinality(Undone) = 0
  BY <1>1, FS_EmptySet DEF Undone, Untouched
<1>11. Typed'
  BY <1>1, <1>2, <1>3, <1>4 DEF Typed
<1>12. Placed'
  BY <1>1, <1>2, <1>3, <1>4 DEF Placed, Typed
<1>13. Untouched'
  BY <1>1, <1>2, <1>3, <1>4 DEF Untouched, Placed
<1>14. LoopCallsFirst'
  BY <1>1, <1>2, <1>3, <1>4 DEF LoopCallsFirst
<1>15. Walked'
  BY <1>1, <1>2, <1>3, <1>4 DEF Walked, Placed, Untouched
<1>16. Counted'
  BY <1>1, <1>2, <1>3, <1>4 DEF Counted, Untouched, Placed
<1>17. Paid'
  BY <1>1, <1>2, <1>3, <1>4 DEF Paid, Placed, Untouched
<1>18. Refused'
  BY <1>1, <1>2, <1>3, <1>4 DEF Refused, Placed, Untouched
<1>19. Thrown'
  BY <1>1, <1>2, <1>3, <1>4 DEF Thrown, Placed, Untouched
<1>20. Watched'
  BY <1>1, <1>2, <1>3, <1>4 DEF Watched, Unfired, Placed, Untouched
<1> QED
  BY <1>11, <1>12, <1>13, <1>14, <1>15, <1>16, <1>17, <1>18, <1>19, <1>20 DEF CombInv

\* The iterator broke: the capability rejects, and nothing is closed.
LEMMA StepNextThrows ==
    ASSUME CombInv, NextThrows
    PROVE  CombInv'
<1> USE DEF At, loop, Streamed, Keyed, Halves, Before, Walking, exhaustion_token, NextThrows
<1>1. /\ Typed /\ Placed /\ Untouched /\ LoopCallsFirst /\ Walked
      /\ Counted /\ Paid /\ Refused /\ Thrown /\ Watched
  BY DEF CombInv
<1>2. Undone' = Undone
  BY <1>1, UndoneElements
<1>3. Rejects => /\ told' \in Seq(Message) /\ stack' \in Seq(Frame)
                 /\ promise' \in Halves \cup {"pending"}
                 /\ \E n \in DOMAIN told' : told'[n] = Refusal
                 /\ PaidIn(told') = PaidIn(told) /\ pc' = "settling"
                 /\ \A n \in DOMAIN stack' : stack'[n].by = "loop" => n = 1
  BY <1>1, Rejected
<1>11. Typed'
  BY <1>1, <1>2, <1>3 DEF Typed
<1>12. Placed'
  BY <1>1, <1>2, <1>3 DEF Placed, Typed
<1>13. Untouched'
  BY <1>1, <1>2, <1>3 DEF Untouched, Placed
<1>14. LoopCallsFirst'
  BY <1>1, <1>2, <1>3 DEF LoopCallsFirst
<1>15. Walked'
  BY <1>1, <1>2, <1>3 DEF Walked, Placed, Untouched
<1>16. Counted'
  BY <1>1, <1>2, <1>3 DEF Counted, Untouched, Placed
<1>17. Paid'
  BY <1>1, <1>2, <1>3 DEF Paid, Placed, Untouched
<1>18. Refused'
  BY <1>1, <1>2, <1>3 DEF Refused, Placed, Untouched
<1>19. Thrown'
  BY <1>1, <1>2, <1>3 DEF Thrown, Placed, Untouched
<1>20. Watched'
  BY <1>1, <1>2, <1>3 DEF Watched, Unfired, Placed, Untouched
<1> QED
  BY <1>11, <1>12, <1>13, <1>14, <1>15, <1>16, <1>17, <1>18, <1>19, <1>20 DEF CombInv

\* The iterator is closed, then the capability rejects.
LEMMA StepCloseReturns ==
    ASSUME CombInv, CloseReturns
    PROVE  CombInv'
<1> USE DEF At, loop, Streamed, Keyed, Halves, Before, Walking, exhaustion_token, CloseReturns
<1>1. /\ Typed /\ Placed /\ Untouched /\ LoopCallsFirst /\ Walked
      /\ Counted /\ Paid /\ Refused /\ Thrown /\ Watched
  BY DEF CombInv
<1>2. Undone' = Undone
  BY <1>1, UndoneElements
<1>3. Rejects => /\ told' \in Seq(Message) /\ stack' \in Seq(Frame)
                 /\ promise' \in Halves \cup {"pending"}
                 /\ \E n \in DOMAIN told' : told'[n] = Refusal
                 /\ PaidIn(told') = PaidIn(told) /\ pc' = "settling"
                 /\ \A n \in DOMAIN stack' : stack'[n].by = "loop" => n = 1
  BY <1>1, Rejected
<1>11. Typed'
  BY <1>1, <1>2, <1>3 DEF Typed
<1>12. Placed'
  BY <1>1, <1>2, <1>3 DEF Placed, Typed
<1>13. Untouched'
  BY <1>1, <1>2, <1>3 DEF Untouched, Placed
<1>14. LoopCallsFirst'
  BY <1>1, <1>2, <1>3 DEF LoopCallsFirst
<1>15. Walked'
  BY <1>1, <1>2, <1>3 DEF Walked, Placed, Untouched
<1>16. Counted'
  BY <1>1, <1>2, <1>3 DEF Counted, Untouched, Placed
<1>17. Paid'
  BY <1>1, <1>2, <1>3 DEF Paid, Placed, Untouched
<1>18. Refused'
  BY <1>1, <1>2, <1>3 DEF Refused, Placed, Untouched
<1>19. Thrown'
  BY <1>1, <1>2, <1>3 DEF Thrown, Placed, Untouched
<1>20. Watched'
  BY <1>1, <1>2, <1>3 DEF Watched, Unfired, Placed, Untouched
<1> QED
  BY <1>11, <1>12, <1>13, <1>14, <1>15, <1>16, <1>17, <1>18, <1>19, <1>20 DEF CombInv

\* The pair is looked at: not callable, and the operation throws; otherwise the
\* loop begins, or Promise.try tells the pair its callback's outcome.
LEMMA StepConstructed ==
    ASSUME CombInv, Constructed
    PROVE  CombInv'
<1> USE DEF At, loop, Streamed, Keyed, Halves, Before, Walking, exhaustion_token, Constructed
<1>1. /\ Typed /\ Placed /\ Untouched /\ LoopCallsFirst /\ Walked
      /\ Counted /\ Paid /\ Refused /\ Thrown /\ Watched
  BY DEF CombInv
<1>2. Undone' = Undone
  BY <1>1, UndoneElements
<1>3. kind = "try" /\ pc' = "settling" =>
         /\ told' \in Seq(Message) /\ stack' \in Seq(Frame)
         /\ promise' \in Halves \cup {"pending"} /\ PaidIn(told') = PaidIn(told)
         /\ \A n \in DOMAIN stack' : stack'[n].by = "loop" => n = 1
  <2> SUFFICES ASSUME kind = "try", pc' = "settling"
               PROVE  /\ told' \in Seq(Message) /\ stack' \in Seq(Frame)
                      /\ promise' \in Halves \cup {"pending"} /\ PaidIn(told') = PaidIn(told)
                      /\ \A n \in DOMAIN stack' : stack'[n].by = "loop" => n = 1
    OBVIOUS
  <2>1. PICK fn \in {"resolve", "reject"} : Calls("loop", [fn |-> fn, what |-> "value"])
    OBVIOUS
  <2>2. [fn |-> fn, what |-> "value"] \in Message
    BY DEF Message
  <2> QED
    BY <1>1, <2>1, <2>2, LoopCall
<1>11. Typed'
  BY <1>1, <1>2, <1>3 DEF Typed
<1>12. Placed'
  BY <1>1, <1>2, <1>3, BoundsAssumption DEF Placed, Typed
<1>13. Untouched'
  BY <1>1, <1>2, <1>3 DEF Untouched, Placed
<1>14. LoopCallsFirst'
  BY <1>1, <1>2, <1>3 DEF LoopCallsFirst
<1>15. Walked'
  BY <1>1, <1>2, <1>3 DEF Walked, Placed, Untouched
<1>16. Counted'
  BY <1>1, <1>2, <1>3 DEF Counted, Untouched, Placed
<1>17. Paid'
  BY <1>1, <1>2, <1>3 DEF Paid, Placed, Untouched
<1>18. Refused'
  BY <1>1, <1>2, <1>3 DEF Refused, Placed, Untouched
<1>19. Thrown'
  BY <1>1, <1>2, <1>3 DEF Thrown, Placed, Untouched
<1>20. Watched'
  BY <1>1, <1>2, <1>3 DEF Watched, Unfired, Placed, Untouched
<1> QED
  BY <1>11, <1>12, <1>13, <1>14, <1>15, <1>16, <1>17, <1>18, <1>19, <1>20 DEF CombInv

\* The iterator ran out: its token is spent, and if nothing else was open the
\* array is handed over.
LEMMA StepNextDone ==
    ASSUME CombInv, NextDone
    PROVE  CombInv'
<1> USE DEF At, loop, Streamed, Keyed, Halves, Before, Walking, exhaustion_token
<1>1. /\ Typed /\ Placed /\ Untouched /\ LoopCallsFirst /\ Walked
      /\ Counted /\ Paid /\ Refused /\ Thrown /\ Watched
  BY DEF CombInv
<1>2. Undone' = Undone
  BY <1>1, UndoneElements DEF NextDone
<1>3. /\ told' \in Seq(Message) /\ stack' \in Seq(Frame)
      /\ promise' \in Halves \cup {"pending"}
      /\ PaidIn(told) = {} /\ \A m, n \in PaidIn(told') : m = n
      /\ PaidIn(told') # {} <=> kind # "race" /\ remaining = 1
      /\ \A n \in DOMAIN stack' : stack'[n].by = "loop" => n = 1
  <2>1. PaidIn(told) = {} /\ remaining \in Int /\ stack = <<>>
    BY <1>1 DEF NextDone, Placed, Paid, Typed
  <2>2. kind # "race" => remaining >= 1
    BY <1>1, UndoneElements DEF NextDone, Placed, Counted
  <2> DEFINE call == [fn |-> settle_through, what |-> payoff]
  <2>3. CASE kind # "race" /\ remaining = 1
    <3>1. call \in Message /\ call.what \in {"values", "errors", "lacking"}
      BY DEF Message, settle_through, payoff
    <3>2. Calls("loop", call)
      BY <2>3 DEF NextDone, settle, drop_unsettled
    <3> HIDE DEF call
    <3>3. /\ told' \in Seq(Message) /\ stack' \in Seq(Frame)
          /\ promise' \in Halves \cup {"pending"} /\ PaidIn(told') = PaidIn(told) \cup {Len(told) + 1}
          /\ \A n \in DOMAIN stack' : stack'[n].by = "loop" => n = 1
      BY <1>1, <2>1, <3>1, <3>2, LoopCall
    <3> QED
      BY <2>1, <2>3, <3>3
  <2>4. CASE ~(kind # "race" /\ remaining = 1)
    <3>1. Calls("loop", NoCall)
      BY <2>1, <2>2, <2>4 DEF NextDone, settle, drop_unsettled
    <3>2. UNCHANGED <<told, promise, stack>>
      BY <3>1, NothingSaid
    <3> QED
      BY <1>1, <2>1, <2>4, <3>2 DEF Typed
  <2> QED
    BY <2>3, <2>4
<1>4. remaining' = IF kind = "race" THEN remaining ELSE remaining - 1
  BY DEF NextDone, settle, drop_unsettled
<1>5. /\ At("next") /\ iter' = "exhausted" /\ pc' = "settling"
      /\ UNCHANGED <<kind, pair, cap, index, counted, handed, already, entries>>
  BY DEF NextDone
<1>6. Cardinality(Undone) \in Nat
  BY <1>1, UndoneElements
<1>11. Typed'
  BY <1>1, <1>3, <1>2, <1>4, <1>5, <1>6 DEF Typed
<1>12. Placed'
  BY <1>1, <1>3, <1>2, <1>4, <1>5, <1>6 DEF Placed, Typed
<1>13. Untouched'
  BY <1>1, <1>3, <1>2, <1>4, <1>5, <1>6 DEF Untouched, Placed
<1>14. LoopCallsFirst'
  BY <1>1, <1>3, <1>2, <1>4, <1>5, <1>6 DEF LoopCallsFirst
<1>15. Walked'
  BY <1>1, <1>3, <1>2, <1>4, <1>5, <1>6 DEF Walked, Placed, Untouched
<1>16. Counted'
  BY <1>1, <1>3, <1>2, <1>4, <1>5, <1>6 DEF Counted, Untouched, Placed
<1>17. Paid'
  BY <1>1, <1>3, <1>2, <1>4, <1>5, <1>6 DEF Paid, Placed, Untouched
<1>18. Refused'
  BY <1>1, <1>3, <1>2, <1>4, <1>5, <1>6 DEF Refused, Placed, Untouched
<1>19. Thrown'
  BY <1>1, <1>3, <1>2, <1>4, <1>5, <1>6 DEF Thrown, Placed, Untouched
<1>20. Watched'
  BY <1>1, <1>3, <1>2, <1>4, <1>5, <1>6 DEF Watched, Unfired, Placed, Untouched
<1> QED
  BY <1>11, <1>12, <1>13, <1>14, <1>15, <1>16, <1>17, <1>18, <1>19, <1>20 DEF CombInv

\* An element's `then` is read and the element counted; without one to call the
\* element is settled at once, which never is the end: the token is not spent.
LEMMA StepReadThen ==
    ASSUME CombInv, NEW callable \in BOOLEAN, ReadThen(callable)
    PROVE  CombInv'
<1> USE DEF At, loop, Streamed, Keyed, Halves, Before, Walking, exhaustion_token
<1>1. /\ Typed /\ Placed /\ Untouched /\ LoopCallsFirst /\ Walked
      /\ Counted /\ Paid /\ Refused /\ Thrown /\ Watched
  BY DEF CombInv
<1>2. /\ pc = "then" /\ iter = "open" /\ kind \in Streamed /\ stack = <<>> /\ DOMAIN stack = {}
      /\ index \in Elements /\ index \notin counted /\ index \notin handed
      /\ entries[index] = Hole /\ PaidIn(told) = {}
      /\ kind = "race" => counted = {} /\ remaining \in {0, 1}
      /\ kind # "race" => remaining = Cardinality(Undone) + 1 /\ counted = 0 .. index - 1
      /\ Undone \subseteq Elements /\ Cardinality(Undone) \in Nat
  <2>1. pc = "then" /\ stack = <<>> /\ DOMAIN stack = {}
    BY DEF ReadThen
  <2>2. iter = "open" /\ kind \in Streamed /\ index \in Elements
    BY <1>1, <2>1 DEF Placed
  <2>3. Undone \subseteq Elements /\ Cardinality(Undone) \in Nat
    BY <1>1, UndoneElements
  <2> QED
    BY <1>1, <2>1, <2>2, <2>3 DEF Walked, Paid, Counted
<1>3. /\ counted' = IF kind = "race" THEN counted ELSE counted \cup {index}
      /\ UNCHANGED <<kind, pair, cap, iter, index, handed, already>>
  BY DEF ReadThen, counts
<1>4. /\ pc' \in {"invoke", "settlingElement"}
      /\ told' \in Seq(Message) /\ stack' \in Seq(Frame) /\ promise' \in Halves \cup {"pending"}
      /\ PaidIn(told') = {}
      /\ \A n \in DOMAIN stack' : stack'[n].by = "loop" => n = 1 /\ pc' = "settlingElement"
      /\ \/ entries' = entries /\ remaining' = IF kind = "race" THEN remaining ELSE remaining + 1
         \/ /\ entries' = [entries EXCEPT ![index] = "fulfilled"] /\ remaining' = remaining
            /\ kind = "all" /\ pc' = "settlingElement"
  <2>1. CASE callable \/ kind = "allSettled"
    BY <1>1, <1>2, <2>1 DEF ReadThen, Typed, counts
  <2>2. CASE ~(callable \/ kind = "allSettled") /\ kind = "all"
    <3>1. /\ pc' = "settlingElement" /\ entries' = [entries EXCEPT ![index] = "fulfilled"]
          /\ remaining' = remaining
      BY <1>1, <2>2 DEF ReadThen, Typed, counts
    <3>2. Calls("loop", NoCall)
      BY <1>1, <1>2, <2>2 DEF ReadThen, Typed, counts
    <3>3. UNCHANGED <<told, promise, stack>>
      BY <3>2, NothingSaid
    <3> QED
      BY <1>1, <1>2, <2>2, <3>1, <3>3 DEF Typed
  <2>3. CASE ~(callable \/ kind = "allSettled") /\ kind # "all"
    <3> DEFINE call == [fn |-> "resolve", what |-> "value"]
    <3>1. /\ pc' = "settlingElement" /\ entries' = entries /\ Calls("loop", call)
          /\ remaining' = IF kind = "race" THEN remaining ELSE remaining + 1
      BY <1>1, <2>3 DEF ReadThen, Typed, counts
    <3>2. call \in Message /\ call.what \notin {"values", "errors", "lacking"}
      BY DEF Message
    <3> HIDE DEF call
    <3>3. /\ told' \in Seq(Message) /\ stack' \in Seq(Frame) /\ promise' \in Halves \cup {"pending"}
          /\ PaidIn(told') = PaidIn(told)
          /\ \A n \in DOMAIN stack' : stack'[n].by = "loop" => n = 1
      BY <1>1, <1>2, <3>1, <3>2, LoopCall
    <3> QED
      BY <1>2, <3>1, <3>3
  <2> QED
    BY <2>1, <2>2, <2>3
<1>5. /\ entries' \in [Elements -> Halves \cup {"undefined", Hole}]
      /\ \A i \in Elements : i # index => entries'[i] = entries[i]
      /\ pc' = "invoke" => entries'[index] = Hole
  BY <1>1, <1>2, <1>4 DEF Typed
<1>6. kind # "race" => remaining' = Cardinality(Undone') + 1
  <2>1. kind # "race" /\ entries' = entries => Undone' = Undone \cup {index} /\ index \notin Undone
    BY <1>2, <1>3 DEF Undone
  <2>2. kind # "race" /\ entries' = [entries EXCEPT ![index] = "fulfilled"] => Undone' = Undone
    BY <1>1, <1>2, <1>3 DEF Undone, Typed, Hole
  <2>3. index \notin Undone => Cardinality(Undone \cup {index}) = Cardinality(Undone) + 1
    BY <1>2, OneMore
  <2> QED
    BY <1>2, <1>4, <2>1, <2>2, <2>3
<1>7. Cardinality(Undone') \in Nat /\ remaining' \in Int
  <2>1. Undone' \subseteq Elements
    BY <1>1, <1>2, <1>3 DEF Undone, Typed
  <2>2. Cardinality(Undone') \in Nat
    BY <2>1, ElementsFinite
  <2> QED
    BY <1>1, <1>4, <2>2 DEF Typed
<1>11. Typed'
  BY <1>1, <1>2, <1>3, <1>4, <1>5, <1>6, <1>7 DEF Typed
<1>12. Placed'
  BY <1>1, <1>2, <1>3, <1>4, <1>5, <1>6, <1>7 DEF Placed, Typed
<1>13. Untouched'
  BY <1>1, <1>2, <1>3, <1>4, <1>5, <1>6, <1>7 DEF Untouched, Placed
<1>14. LoopCallsFirst'
  BY <1>1, <1>2, <1>3, <1>4, <1>5, <1>6, <1>7 DEF LoopCallsFirst
<1>15. Walked'
  <2>1. /\ counted' \subseteq 0 .. index /\ handed' \subseteq 0 .. index /\ index' = index
        /\ kind # "race" => counted' = 0 .. index
    <3>1. index \in Nat /\ counted \subseteq 0 .. index /\ handed \subseteq 0 .. index
      BY <1>1, <1>2 DEF Walked, Elements
    <3>2. (0 .. index - 1) \cup {index} = 0 .. index /\ index \in 0 .. index
      BY <3>1
    <3> QED
      BY <1>2, <1>3, <3>1, <3>2
  <2>2. IF kind = "race" THEN counted' = {} ELSE handed' \subseteq counted'
    BY <1>1, <1>2, <1>3 DEF Walked
  <2>3. \A i \in Elements :
           entries'[i] # Hole => i \in counted' /\ (i \in handed' => <<i, "both">> \in already')
    BY <1>1, <1>2, <1>3, <1>4, <1>5 DEF Walked
  <2> QED
    BY <1>2, <1>3, <1>4, <1>5, <2>1, <2>2, <2>3 DEF Walked
<1>16. Counted'
  BY <1>1, <1>2, <1>3, <1>4, <1>5, <1>6, <1>7 DEF Counted, Untouched, Placed
<1>17. Paid'
  BY <1>1, <1>2, <1>3, <1>4, <1>5, <1>6, <1>7 DEF Paid, Placed, Untouched
<1>18. Refused'
  BY <1>1, <1>2, <1>3, <1>4, <1>5, <1>6, <1>7 DEF Refused, Placed, Untouched
<1>19. Thrown'
  BY <1>1, <1>2, <1>3, <1>4, <1>5, <1>6, <1>7 DEF Thrown, Placed, Untouched
<1>20. Watched'
  BY <1>1, <1>2, <1>3, <1>4, <1>5, <1>6, <1>7 DEF Watched, Unfired, Placed, Untouched
<1> QED
  BY <1>11, <1>12, <1>13, <1>14, <1>15, <1>16, <1>17, <1>18, <1>19, <1>20 DEF CombInv

\* A function of the capability returns.
LEMMA StepCapabilityReturns ==
    ASSUME CombInv, CapabilityReturns
    PROVE  CombInv'
<1> USE DEF At, loop, Streamed, Keyed, Halves, Before, Walking, exhaustion_token, CapabilityReturns
<1>1. /\ Typed /\ Placed /\ Untouched /\ LoopCallsFirst /\ Walked
      /\ Counted /\ Paid /\ Refused /\ Thrown /\ Watched
  BY DEF CombInv
<1>2. Undone' = Undone
  BY <1>1, UndoneElements
<1>3. /\ stack' \in Seq(Frame) /\ stack # <<>>
      /\ \A n \in DOMAIN stack' : n \in DOMAIN stack /\ stack'[n] = stack[n]
  BY <1>1, Popped DEF CapabilityReturns
<1>11. Typed'
  BY <1>1, <1>2, <1>3 DEF Typed
<1>12. Placed'
  BY <1>1, <1>2, <1>3 DEF Placed, Typed
<1>13. Untouched'
  BY <1>1, <1>2, <1>3 DEF Untouched, Placed
<1>14. LoopCallsFirst'
  BY <1>1, <1>2, <1>3 DEF LoopCallsFirst
<1>15. Walked'
  BY <1>1, <1>2, <1>3 DEF Walked, Placed, Untouched
<1>16. Counted'
  BY <1>1, <1>2, <1>3 DEF Counted, Untouched, Placed
<1>17. Paid'
  BY <1>1, <1>2, <1>3 DEF Paid, Placed, Untouched
<1>18. Refused'
  BY <1>1, <1>2, <1>3 DEF Refused, Placed, Untouched
<1>19. Thrown'
  BY <1>1, <1>2, <1>3 DEF Thrown, Placed, Untouched
<1>20. Watched'
  BY <1>1, <1>2, <1>3 DEF Watched, Unfired, Placed, Untouched
<1> QED
  BY <1>11, <1>12, <1>13, <1>14, <1>15, <1>16, <1>17, <1>18, <1>19, <1>20 DEF CombInv

\* A user's function throws: what resolve threw reject is told, and what reject
\* threw goes to the caller, a handler's or the loop.
LEMMA StepCapabilityThrows ==
    ASSUME CombInv, CapabilityThrows
    PROVE  CombInv'
<1> USE DEF At, loop, Streamed, Keyed, Halves, Before, Walking, exhaustion_token
<1>1. /\ Typed /\ Placed /\ Untouched /\ LoopCallsFirst /\ Walked
      /\ Counted /\ Paid /\ Refused /\ Thrown /\ Watched
  BY DEF CombInv
<1> DEFINE frame == stack[Len(stack)]
           below == SubSeq(stack, 1, Len(stack) - 1)
<1>2. /\ below \in Seq(Frame) /\ Len(below) = Len(stack) - 1 /\ DOMAIN below = 1 .. Len(stack) - 1 /\ frame \in Frame
      /\ \A n \in 1 .. Len(stack) - 1 : below[n] = stack[n]
      /\ stack # <<>> /\ Len(stack) \in Nat \ {0} /\ DOMAIN stack = 1 .. Len(stack)
  BY <1>1, Popped DEF CapabilityThrows
<1>3. /\ cap = "user" /\ UNCHANGED <<kind, pair, cap, iter, index, remaining, counted, handed,
                                    already, entries, promise>>
  BY DEF CapabilityThrows
<1>4. Undone' = Undone
  BY <1>1, <1>3, UndoneElements
<1>5. /\ told' \in Seq(Message) /\ stack' \in Seq(Frame) /\ PaidIn(told') = PaidIn(told)
      /\ \A n \in DOMAIN told : n \in DOMAIN told' /\ told'[n] = told[n]
      /\ \A n \in DOMAIN stack' : n \in DOMAIN stack /\ stack'[n].by = stack[n].by
      /\ \/ pc' = pc
         \/ /\ frame.by = "loop" /\ stack' = below
            /\ pc' = IF pc = "settlingElement" THEN "closing" ELSE "threw"
  <2>1. CASE frame.fn = "resolve" /\ kind # "try"
    <3> DEFINE refused == [frame EXCEPT !.fn = "reject", !.what = "reason"]
    <3>1. told' = Append(told, Refusal) /\ stack' = Append(below, refused) /\ pc' = pc
      BY <2>1 DEF CapabilityThrows, Refusal
    <3>2. refused \in Frame /\ refused.by = frame.by
      BY <1>2 DEF Frame
    <3>3. told \in Seq(Message) /\ Refusal \in Message /\ Refusal.what = "reason"
      BY <1>1 DEF Typed, Refusal, Message
    <3> HIDE DEF refused, below, frame
    <3>4. /\ told' \in Seq(Message) /\ DOMAIN told = 1 .. Len(told) /\ Len(told) \in Nat
          /\ DOMAIN told' = 1 .. Len(told) + 1
          /\ told'[Len(told) + 1] = Refusal /\ \A n \in 1 .. Len(told) : told'[n] = told[n]
      BY <3>1, <3>3
    <3>5. PaidIn(told') = PaidIn(told)
      BY <3>3, <3>4 DEF PaidIn
    <3>6. /\ stack' \in Seq(Frame)
          /\ DOMAIN stack' = 1 .. Len(stack)
          /\ stack'[Len(stack)] = refused /\ \A n \in 1 .. Len(stack) - 1 : stack'[n] = below[n]
      BY <1>2, <3>1, <3>2
    <3>7. \A n \in DOMAIN stack' : n \in DOMAIN stack /\ stack'[n].by = stack[n].by
      BY <1>2, <3>2, <3>6 DEF frame
    <3> QED
      BY <3>1, <3>4, <3>5, <3>6, <3>7
  <2>2. CASE ~(frame.fn = "resolve" /\ kind # "try")
    <3>1. stack' = below /\ told' = told
      BY <2>2 DEF CapabilityThrows
    <3>2. pc' = IF frame.by = "handler" THEN pc
                ELSE IF pc = "settlingElement" THEN "closing" ELSE "threw"
      BY <2>2 DEF CapabilityThrows
    <3>3. frame.by \in {"loop", "handler"}
      BY <1>2 DEF Frame
    <3>4. pc' = pc \/ (frame.by = "loop" /\ pc' = IF pc = "settlingElement" THEN "closing" ELSE "threw")
      BY <3>2, <3>3
    <3>5. /\ told' \in Seq(Message) /\ PaidIn(told') = PaidIn(told)
          /\ \A n \in DOMAIN told : n \in DOMAIN told' /\ told'[n] = told[n]
      BY <1>1, <3>1 DEF Typed
    <3>6. /\ stack' \in Seq(Frame)
          /\ \A n \in DOMAIN stack' : n \in DOMAIN stack /\ stack'[n].by = stack[n].by
      BY <1>2, <3>1
    <3> QED
      BY <3>1, <3>4, <3>5, <3>6
  <2> QED
    BY <2>1, <2>2
<1>6. frame.by = "loop" => Len(stack) = 1 /\ pc \in {"settling", "settlingElement"}
  BY <1>1, <1>2 DEF LoopCallsFirst
<1>7. stack' = below => DOMAIN stack' = 1 .. Len(stack) - 1
  BY <1>2
<1> HIDE DEF frame, below
<1>11. Typed'
  BY <1>1, <1>2, <1>3, <1>4, <1>5, <1>6, <1>7 DEF Typed
<1>12. Placed'
  BY <1>1, <1>2, <1>3, <1>4, <1>5, <1>6, <1>7 DEF Placed, Typed
<1>13. Untouched'
  BY <1>1, <1>2, <1>3, <1>4, <1>5, <1>6, <1>7 DEF Untouched, Placed
<1>14. LoopCallsFirst'
  BY <1>1, <1>2, <1>3, <1>4, <1>5, <1>6, <1>7 DEF LoopCallsFirst
<1>15. Walked'
  BY <1>1, <1>2, <1>3, <1>4, <1>5, <1>6, <1>7 DEF Walked, Placed, Untouched
<1>16. Counted'
  BY <1>1, <1>2, <1>3, <1>4, <1>5, <1>6, <1>7 DEF Counted, Untouched, Placed
<1>17. Paid'
  BY <1>1, <1>2, <1>3, <1>4, <1>5, <1>6, <1>7 DEF Paid, Placed, Untouched
<1>18. Refused'
  BY <1>1, <1>2, <1>3, <1>4, <1>5, <1>6, <1>7 DEF Refused, Placed, Untouched
<1>19. Thrown'
  BY <1>1, <1>2, <1>3, <1>4, <1>5, <1>6, <1>7 DEF Thrown, Placed, Untouched
<1>20. Watched'
  BY <1>1, <1>2, <1>3, <1>4, <1>5, <1>6, <1>7 DEF Watched, Unfired, Placed, Untouched
<1> QED
  BY <1>11, <1>12, <1>13, <1>14, <1>15, <1>16, <1>17, <1>18, <1>19, <1>20 DEF CombInv

\* A handler of an element is called, and was not before: one outcome less is
\* open, and the last one after the iterator ran out hands the array over.
LEMMA StepElementHandler ==
    ASSUME CombInv, NEW i \in Elements, NEW half \in Halves, run_combinator_element(i, half)
    PROVE  CombInv'
<1> USE DEF At, loop, Streamed, Keyed, Halves, Before, Walking, exhaustion_token
<1>1. /\ Typed /\ Placed /\ Untouched /\ LoopCallsFirst /\ Walked
      /\ Counted /\ Paid /\ Refused /\ Thrown /\ Watched
  BY DEF CombInv
<1>2. /\ kind \in Streamed /\ i \in handed /\ kind # "race" /\ ~(kind = "any" /\ half = "fulfilled")
      /\ <<i, "both">> \notin already /\ already' = already \cup {<<i, "both">>}
      /\ UNCHANGED <<kind, pair, cap, pc, iter, index, counted, handed>>
  BY DEF run_combinator_element, element_handler, already_of
<1>3. i \in counted /\ entries[i] = Hole /\ iter # "none" /\ pc \notin Before
  BY <1>1, <1>2 DEF Walked, Untouched
<1>4. entries' = [entries EXCEPT ![i] = half] /\ remaining' = remaining - 1
  BY <1>2 DEF run_combinator_element, element_settled, drop_unsettled
<1>5. entries' \in [Elements -> Halves \cup {"undefined", Hole}] /\ entries'[i] = half /\ half # Hole
      /\ \A j \in Elements : j # i => entries'[j] = entries[j]
  BY <1>1, <1>4 DEF Typed, Hole
<1>6. /\ remaining = Cardinality(Undone) + (IF iter = "exhausted" THEN 0 ELSE 1)
      /\ remaining' = Cardinality(Undone') + (IF iter = "exhausted" THEN 0 ELSE 1)
      /\ Cardinality(Undone') \in Nat
  <2>1. remaining = Cardinality(Undone) + (IF iter = "exhausted" THEN 0 ELSE 1)
    BY <1>1, <1>2, <1>3 DEF Counted
  <2>2. Undone \in SUBSET Elements /\ i \in Undone
    BY <1>1, <1>3 DEF Undone, Typed
  <2>3. Undone' = Undone \ {i}
    BY <1>1, <1>2, <1>5 DEF Undone, Typed
  <2>4. Cardinality(Undone \ {i}) = Cardinality(Undone) - 1
    BY <2>2, OneMore
  <2>5. Cardinality(Undone) \in Nat /\ Cardinality(Undone \ {i}) \in Nat
    BY <2>2, ElementsFinite
  <2> QED
    BY <1>4, <2>1, <2>3, <2>4, <2>5
<1>7. remaining' \in Nat /\ PaidIn(told) = {} /\ remaining \in Int
  BY <1>1, <1>2, <1>4, <1>6 DEF Paid, Typed
<1>8. /\ told' \in Seq(Message) /\ stack' \in Seq(Frame) /\ promise' \in Halves \cup {"pending"}
      /\ \A n \in DOMAIN told : n \in DOMAIN told' /\ told'[n] = told[n]
      /\ \A m, n \in PaidIn(told') : m = n
      /\ PaidIn(told') # {} <=> remaining' = 0
      /\ \A n \in DOMAIN stack' :
            stack'[n].by = "loop" => n \in DOMAIN stack /\ stack[n].by = "loop"
  <2> DEFINE call == [fn |-> settle_through, what |-> payoff]
  <2>1. CASE remaining' = 0
    <3>1. call \in Message /\ call.what \in {"values", "errors", "lacking"}
      BY DEF Message, settle_through, payoff
    <3>2. Calls("handler", call)
      BY <1>2, <1>4, <2>1 DEF run_combinator_element, element_payoff, drop_unsettled
    <3> HIDE DEF call
    <3>3. /\ told' \in Seq(Message) /\ stack' \in Seq(Frame) /\ promise' \in Halves \cup {"pending"}
          /\ \A n \in DOMAIN told : n \in DOMAIN told' /\ told'[n] = told[n]
          /\ PaidIn(told') = PaidIn(told) \cup {Len(told) + 1}
          /\ \A n \in DOMAIN stack' :
                stack'[n].by = "loop" => n \in DOMAIN stack /\ stack[n].by = "loop"
      BY <1>1, <3>1, <3>2, CallMade
    <3> QED
      BY <1>7, <2>1, <3>3
  <2>2. CASE remaining' # 0
    <3>1. Calls("handler", NoCall)
      BY <1>2, <1>4, <1>7, <2>2 DEF run_combinator_element, element_payoff, drop_unsettled
    <3>2. UNCHANGED <<told, promise, stack>>
      BY <3>1, NothingSaid
    <3> QED
      BY <1>1, <1>7, <2>2, <3>2 DEF Typed
  <2> QED
    BY <2>1, <2>2
<1>9. iter # "exhausted" => remaining' # 0
  BY <1>6
<1>11. Typed'
  BY <1>1, <1>2, <1>3, <1>4, <1>5, <1>6, <1>7, <1>8, <1>9 DEF Typed
<1>12. Placed'
  BY <1>1, <1>2, <1>3, <1>4, <1>5, <1>6, <1>7, <1>8, <1>9 DEF Placed, Typed
<1>13. Untouched'
  BY <1>1, <1>2, <1>3, <1>4, <1>5, <1>6, <1>7, <1>8, <1>9 DEF Untouched, Placed
<1>14. LoopCallsFirst'
  BY <1>1, <1>2, <1>3, <1>4, <1>5, <1>6, <1>7, <1>8, <1>9 DEF LoopCallsFirst
<1>15. Walked'
  BY <1>1, <1>2, <1>3, <1>4, <1>5, <1>6, <1>7, <1>8, <1>9 DEF Walked, Placed, Untouched
<1>16. Counted'
  BY <1>1, <1>2, <1>3, <1>4, <1>5, <1>6, <1>7, <1>8, <1>9 DEF Counted, Untouched, Placed
<1>17. Paid'
  BY <1>1, <1>2, <1>3, <1>4, <1>5, <1>6, <1>7, <1>8, <1>9 DEF Paid, Placed, Untouched
<1>18. Refused'
  BY <1>1, <1>2, <1>3, <1>4, <1>5, <1>6, <1>7, <1>8, <1>9 DEF Refused, Placed, Untouched
<1>19. Thrown'
  BY <1>1, <1>2, <1>3, <1>4, <1>5, <1>6, <1>7, <1>8, <1>9 DEF Thrown, Placed, Untouched
<1>20. Watched'
  BY <1>1, <1>2, <1>3, <1>4, <1>5, <1>6, <1>7, <1>8, <1>9 DEF Watched, Unfired, Placed, Untouched
<1> QED
  BY <1>11, <1>12, <1>13, <1>14, <1>15, <1>16, <1>17, <1>18, <1>19, <1>20 DEF CombInv

\* A watched input settles: the count falls by no more than two, and the call
\* that finds it at zero hands the object over unless an earlier one refused.
LEMMA StepKeyedInput ==
    ASSUME CombInv, NEW i \in Elements, NEW half \in Halves, KeyedInputSettles(i, half)
    PROVE  CombInv'
<1> USE DEF At, loop, Streamed, Keyed, Halves, Before, Walking, exhaustion_token
<1>1. /\ Typed /\ Placed /\ Untouched /\ LoopCallsFirst /\ Walked
      /\ Counted /\ Paid /\ Refused /\ Thrown /\ Watched
  BY DEF CombInv
<1> DEFINE refuses == kind = "allKeyed" /\ half = "rejected"
           drops   == IF refuses THEN 1 ELSE 2
           whole   == remaining = 1 /\ \A j \in 0 .. index - 1 : j # i => entries[j] \in Halves
           given   == [fn |-> "resolve", what |-> IF whole THEN "values" ELSE "lacking"]
           call    == IF promise # "pending" THEN NoCall
                      ELSE IF refuses THEN Refusal
                      ELSE IF remaining \notin 1 .. drops THEN NoCall ELSE given
<1>2. /\ pc = "returned" /\ stack = <<>> /\ kind \in Keyed /\ i \in Unfired /\ i \in handed
      /\ already' = already \cup {<<i, "both">>}
      /\ entries' = [entries EXCEPT ![i] = "undefined"] /\ remaining' = remaining - drops
      /\ Calls("handler", call)
      /\ pc' \in {"returned", "panicked"}
      /\ UNCHANGED <<kind, pair, cap, iter, index, counted, handed>>
  <2>1. /\ pc = "returned" /\ stack = <<>> /\ kind \in Keyed /\ i \in handed /\ <<i, "both">> \notin already
        /\ already' = already \cup {<<i, "both">>}
        /\ entries' = [entries EXCEPT ![i] = "undefined"] /\ remaining' = remaining - drops
        /\ pc' \in {"returned", "panicked"}
        /\ UNCHANGED <<kind, pair, cap, iter, index, counted, handed>>
    BY DEF KeyedInputSettles, already_of
  <2>2. Calls("handler", call)
    BY DEF KeyedInputSettles, Refusal
  <2> QED
    BY <2>1, <2>2 DEF Unfired
<1>3. /\ cap = "native" /\ iter = "none" /\ drops \in {1, 2} /\ remaining \in Int
      /\ promise = "pending" =>
            /\ PaidIn(told) = {} /\ 0 < remaining /\ remaining <= Cardinality(Unfired)
            /\ \A j \in 0 .. index - 1 : j \in handed \/ entries[j] \in Halves
  BY <1>1, <1>2 DEF Placed, Watched, Typed
<1> HIDE DEF drops, whole, refuses
<1>4. /\ Unfired' = Unfired \ {i} /\ (handed \ Unfired)' = (handed \ Unfired) \cup {i}
      /\ Unfired \in SUBSET Elements /\ handed \in SUBSET Elements /\ i \notin handed \ Unfired
  BY <1>1, <1>2 DEF Unfired, Typed
<1>5. /\ Cardinality(Unfired') = Cardinality(Unfired) - 1 /\ Cardinality(Unfired) \in Nat
      /\ Cardinality((handed \ Unfired)') = Cardinality(handed \ Unfired) + 1
      /\ Cardinality(handed \ Unfired) \in Nat
  <2>1. handed \ Unfired \in SUBSET Elements /\ i \in Unfired
    BY <1>2, <1>4
  <2>2. Cardinality(Unfired) \in Nat /\ Cardinality(handed \ Unfired) \in Nat
    BY <1>4, <2>1, ElementsFinite
  <2>3. Cardinality(Unfired \ {i}) = Cardinality(Unfired) - 1
    BY <1>4, <2>1, OneMore
  <2>4. Cardinality((handed \ Unfired) \cup {i}) = Cardinality(handed \ Unfired) + 1
    BY <1>4, <2>1, OneMore
  <2> QED
    BY <1>4, <2>2, <2>3, <2>4
<1>6. -2 * Cardinality((handed \ Unfired)') <= remaining' /\ remaining' <= MaxElements
  BY <1>1, <1>2, <1>3, <1>5, BoundsAssumption DEF Watched
<1>7. /\ entries' \in [Elements -> Halves \cup {"undefined", Hole}] /\ remaining' \in Int
      /\ \A j \in Elements : j # i => entries'[j] = entries[j]
  BY <1>1, <1>2, <1>3 DEF Typed
<1>8. promise = "pending" /\ Cardinality(handed) <= 1 /\ remaining \in 1 .. drops => whole
  <2> SUFFICES ASSUME promise = "pending", Cardinality(handed) <= 1 PROVE whole
    OBVIOUS
  <2>1. IsFiniteSet(handed) /\ Cardinality(handed \ {i}) = Cardinality(handed) - 1
    BY <1>2, <1>4, OneMore, ElementsFinite
  <2>2. Cardinality(handed \ {i}) \in Nat /\ Cardinality(handed) \in Nat
    BY <1>4, ElementsFinite
  <2>3. handed \ {i} = {}
    BY <2>1, <2>2, <1>4, NoneLeft
  <2>4. Cardinality(Unfired) <= Cardinality(handed)
    BY <2>1, FS_Subset DEF Unfired
  <2> QED
    BY <1>3, <2>2, <2>3, <2>4, <1>5 DEF whole
<1>9. /\ Refusal \in Message /\ Refusal.what = "reason"
      /\ given \in Message /\ given.what \in {"values", "lacking"}
      /\ whole => given.what = "values"
  BY DEF Refusal, Message
<1> HIDE DEF given
<1>10. /\ told' \in Seq(Message) /\ stack' \in Seq(Frame) /\ promise' \in Halves \cup {"pending"}
       /\ \A m, n \in PaidIn(told') : m = n
       /\ promise' = "pending" => /\ promise = "pending" /\ PaidIn(told') = {}
                                  /\ ~refuses /\ remaining \notin 1 .. drops
       /\ Cardinality(handed) <= 1 => \A n \in DOMAIN told' : told'[n].what # "lacking"
       /\ \A n \in DOMAIN stack' : stack'[n].by # "loop"
  <2> DEFINE quiet == Cardinality(handed) <= 1
  <2>1. /\ \A m, n \in PaidIn(told) : m = n
        /\ quiet => \A n \in DOMAIN told : told[n].what # "lacking"
        /\ told \in Seq(Message) /\ stack \in Seq(Frame) /\ promise \in Halves \cup {"pending"}
    BY <1>1, <1>2 DEF Paid, Watched, Typed
  <2>2. CASE call = NoCall
    <3>1. UNCHANGED <<told, promise, stack>> /\ DOMAIN stack' = {}
      BY <1>2, <2>2, NothingSaid
    <3>2. promise = "pending" => ~refuses /\ remaining \notin 1 .. drops
      BY <2>2, <1>9 DEF Message, NoCall
    <3> QED
      BY <1>3, <2>1, <3>1, <3>2
  <2>3. ASSUME promise = "pending", NEW c \in {Refusal, given}, call = c,
               quiet => c.what # "lacking"
        PROVE  /\ told' \in Seq(Message) /\ stack' \in Seq(Frame) /\ promise' \in Halves
               /\ \A m, n \in PaidIn(told') : m = n
               /\ quiet => \A n \in DOMAIN told' : told'[n].what # "lacking"
               /\ \A n \in DOMAIN stack' : stack'[n].by # "loop"
    <3>1. c \in Message /\ Calls("handler", c) /\ PaidIn(told) = {} /\ DOMAIN stack = {}
      BY <1>2, <1>3, <1>9, <2>3
    <3> HIDE DEF call
    <3>2. /\ told' \in Seq(Message) /\ stack' \in Seq(Frame)
          /\ promise' \in Halves \cup {"pending"} /\ promise' # "pending"
          /\ PaidIn(told') \in {PaidIn(told), PaidIn(told) \cup {Len(told) + 1}}
          /\ \A n \in DOMAIN stack' : stack'[n].by = "loop" => n \in DOMAIN stack
      BY <1>1, <1>3, <3>1, CallMade
    <3>3. told' = Append(told, c)
      BY <3>1 DEF Calls, Message, NoCall
    <3>4. quiet => \A n \in DOMAIN told' : told'[n].what # "lacking"
      BY <2>1, <2>3, <3>3
    <3> QED
      BY <3>1, <3>2, <3>4
  <2>4. CASE promise = "pending" /\ refuses
    <3>1. call = Refusal /\ Refusal.what # "lacking"
      BY <1>9, <2>4
    <3> QED
      BY <2>3, <2>4, <3>1
  <2>5. CASE promise = "pending" /\ ~refuses /\ remaining \in 1 .. drops
    <3>1. call = given
      BY <2>5
    <3>2. quiet => given.what # "lacking"
      BY <1>8, <1>9, <2>5
    <3> QED
      BY <2>3, <2>5, <3>1, <3>2
  <2> QED
    BY <2>2, <2>4, <2>5
<1> HIDE DEF call
<1>11. Typed'
  BY <1>1, <1>2, <1>7, <1>10 DEF Typed
<1>12. Placed'
  BY <1>1, <1>2 DEF Placed, Typed
<1>13. Untouched'
  BY <1>1, <1>2 DEF Untouched, Placed
<1>14. LoopCallsFirst'
  BY <1>1, <1>2, <1>10 DEF LoopCallsFirst
<1>15. Walked'
  BY <1>1, <1>2 DEF Walked, Placed, Untouched
<1>16. Counted'
  BY <1>1, <1>2 DEF Counted, Untouched, Placed
<1>17. Paid'
  BY <1>1, <1>2, <1>10 DEF Paid, Placed, Untouched
<1>18. Refused'
  BY <1>1, <1>2 DEF Refused, Placed, Untouched
<1>19. Thrown'
  BY <1>1, <1>2, <1>3 DEF Thrown, Placed, Untouched
<1>20. Watched'
  <2>1. handed' \subseteq 0 .. index' - 1 /\ kind' \in Keyed
    BY <1>1, <1>2 DEF Watched
  <2>2. ASSUME promise' = "pending"
        PROVE  /\ PaidIn(told') = {} /\ 0 < remaining' /\ remaining' <= Cardinality(Unfired')
               /\ \A j \in 0 .. index' - 1 : j \in handed' \/ entries'[j] \in Halves
    <3>1. /\ promise = "pending" /\ PaidIn(told') = {} /\ ~refuses /\ remaining \notin 1 .. drops
          /\ drops = 2
      BY <1>10, <2>2 DEF drops
    <3>2. 0 < remaining' /\ remaining' <= Cardinality(Unfired')
      BY <1>2, <1>3, <1>5, <3>1
    <3>3. index \in Nat /\ index <= MaxElements /\ 0 .. index - 1 \subseteq Elements
      BY <1>1, BoundsAssumption DEF Typed, Elements
    <3> QED
      BY <1>2, <1>3, <1>7, <3>1, <3>2, <3>3
  <2>3. Cardinality(handed') <= 1 => \A n \in DOMAIN told' : told'[n].what # "lacking"
    BY <1>2, <1>10
  <2> QED
    BY <1>6, <2>1, <2>2, <2>3 DEF Watched
<1> QED
  BY <1>11, <1>12, <1>13, <1>14, <1>15, <1>16, <1>17, <1>18, <1>19, <1>20 DEF CombInv

\* The inputs are looked at in one go: what is settled is recorded, up to the
\* first that refuses allKeyed, and what is pending is watched.
LEMMA StepKeyed ==
    ASSUME CombInv, NEW n \in 0 .. MaxElements,
           NEW inputs \in [0 .. n - 1 -> {"fulfilled", "rejected", "pending"}],
           keyed_combinator(inputs)
    PROVE  CombInv'
<1> USE DEF At, loop, Streamed, Keyed, Halves, Before, Walking, exhaustion_token
<1>1. /\ Typed /\ Placed /\ Untouched /\ LoopCallsFirst /\ Walked
      /\ Counted /\ Paid /\ Refused /\ Thrown /\ Watched
  BY DEF CombInv
<1> DEFINE all   == DOMAIN inputs
           stops == IF kind = "allKeyed" THEN {i \in all : inputs[i] = "rejected"} ELSE {}
           seen  == {i \in all : \A j \in stops : i < j}
           now   == {i \in seen : inputs[i] # "pending"}
<1>2. /\ pc = "keyed" /\ stack = <<>> /\ DOMAIN stack = {} /\ kind \in Keyed /\ cap = "native"
      /\ promise = "pending" /\ told = <<>> /\ PaidIn(told) = {} /\ iter = "none" /\ already = {}
  BY <1>1 DEF keyed_combinator, Placed, Untouched, PaidIn
<1>3. /\ all = 0 .. n - 1 /\ Cardinality(all) = n /\ n \in Nat /\ n <= MaxElements
      /\ all \in SUBSET Elements
  <2>1. n \in Nat /\ n <= MaxElements /\ all = 0 .. n - 1
    BY BoundsAssumption
  <2>2. all \subseteq Elements
    BY <2>1, BoundsAssumption DEF Elements
  <2> QED
    BY <2>1, <2>2, FS_Interval
<1>4. /\ counted' = all /\ index' = n /\ handed' = seen \ now
      /\ entries' = [i \in Elements |-> IF i \in now THEN inputs[i] ELSE Hole]
      /\ remaining' = n - Cardinality(now) /\ pc' = "settling"
      /\ UNCHANGED <<kind, pair, cap, iter, already>> /\ Unfired' = handed'
  BY <1>2, <1>3 DEF keyed_combinator, Unfired
<1>5. Calls("loop", IF stops # {} THEN Refusal
                    ELSE IF n = Cardinality(now) THEN [fn |-> "resolve", what |-> "values"]
                    ELSE NoCall)
  BY <1>3 DEF keyed_combinator, Refusal
<1>6. /\ now \in SUBSET Elements /\ now \subseteq all /\ seen \subseteq all
      /\ seen \ now \subseteq all \ now /\ stops = {} => seen = all
      /\ \A i \in now : inputs[i] \in Halves
  BY <1>3
<1> HIDE DEF all, stops, seen, now
<1>7. /\ Cardinality(all \ now) = n - Cardinality(now) /\ Cardinality(now) \in 0 .. n
      /\ Cardinality(handed') \in Nat /\ Cardinality(handed') <= n - Cardinality(now)
      /\ n = Cardinality(now) => all = now
  <2>1. IsFiniteSet(all)
    BY <1>3, ElementsFinite
  <2>2. IsFiniteSet(now) /\ Cardinality(now) <= n /\ Cardinality(now) \in Nat
    <3>1. now \in SUBSET all
      BY <1>6
    <3>2. IsFiniteSet(now) /\ Cardinality(now) <= Cardinality(all)
      BY <2>1, <3>1, FS_Subset
    <3> QED
      BY <1>3, <3>2, FS_CardinalityType
  <2>3. IsFiniteSet(all \ now) /\ Cardinality(all \ now) = n - Cardinality(now)
    <3>1. Cardinality(all \ now) = Cardinality(all) - Cardinality(all \cap now) /\ IsFiniteSet(all \ now)
      BY <2>1, <2>2, FS_Difference
    <3>2. all \cap now = now
      BY <1>6
    <3> QED
      BY <1>3, <3>1, <3>2
  <2>4. Cardinality(handed') \in Nat /\ Cardinality(handed') <= Cardinality(all \ now)
    BY <1>4, <1>6, <2>3, FS_Subset, FS_CardinalityType
  <2>5. n = Cardinality(now) => all = now
    <3>1. Cardinality(all \ now) = 0 => all \ now = {}
      BY <2>3, FS_EmptySet
    <3>2. all \ now = {} => all = now
      BY <1>6
    <3> QED
      BY <1>3, <2>2, <2>3, <3>1, <3>2
  <2> QED
    BY <1>3, <2>2, <2>3, <2>4, <2>5
<1>8. /\ entries' \in [Elements -> Halves \cup {"undefined", Hole}] /\ handed' \subseteq all
      /\ \A i \in all : i \in now => entries'[i] \in Halves
  <2>1. /\ \A i \in Elements : entries'[i] = IF i \in now THEN inputs[i] ELSE Hole
        /\ entries' \in [Elements -> Halves \cup {"undefined", Hole}]
    BY <1>4, <1>6
  <2>2. \A i \in Elements : i \in now => entries'[i] \in Halves
    BY <1>6, <2>1
  <2> QED
    BY <1>3, <1>4, <1>6, <2>1, <2>2
<1>9. /\ told' \in Seq(Message) /\ stack' \in Seq(Frame) /\ promise' \in Halves \cup {"pending"}
      /\ \A m1, m2 \in PaidIn(told') : m1 = m2
      /\ \A m \in DOMAIN stack' : stack'[m].by = "loop" => m = 1
      /\ promise' = "pending" => stops = {} /\ PaidIn(told') = {}
      /\ \A m \in DOMAIN told' : told'[m].what # "lacking"
      /\ promise' = "pending" => n # Cardinality(now)
  <2> DEFINE quiet == \A m \in DOMAIN told' : told'[m].what # "lacking"
  <2>0. ASSUME NEW call \in Message, Calls("loop", call), call.what # "lacking"
        PROVE  quiet
    <3>1. told' = Append(<<>>, call)
      BY <1>2, <2>0 DEF Calls, Message, NoCall
    <3> QED
      BY <2>0, <3>1
  <2>1. CASE stops # {}
    <3>1. Calls("loop", Refusal) /\ Refusal \in Message /\ Refusal.what \notin {"values", "errors", "lacking"}
      BY <1>5, <2>1 DEF Refusal, Message
    <3>3. quiet
      BY <2>0, <3>1
    <3>2. /\ told' \in Seq(Message) /\ stack' \in Seq(Frame) /\ promise' \in Halves \cup {"pending"}
          /\ PaidIn(told') = PaidIn(told) /\ promise' # "pending"
          /\ \A m \in DOMAIN stack' : stack'[m].by = "loop" => m = 1
      BY <1>1, <1>2, <3>1, LoopCall
    <3> QED
      BY <1>2, <3>2, <3>3
  <2>2. CASE stops = {} /\ n = Cardinality(now)
    <3> DEFINE whole == [fn |-> "resolve", what |-> "values"]
    <3>1. Calls("loop", whole) /\ whole \in Message /\ whole.what \in {"values", "errors"}
      BY <1>5, <2>2 DEF Message
    <3>3. quiet
      BY <2>0, <3>1
    <3> HIDE DEF whole
    <3>2. /\ told' \in Seq(Message) /\ stack' \in Seq(Frame) /\ promise' \in Halves \cup {"pending"}
          /\ PaidIn(told') = PaidIn(told) \cup {Len(told) + 1} /\ promise' # "pending"
          /\ \A m \in DOMAIN stack' : stack'[m].by = "loop" => m = 1
      BY <1>1, <1>2, <3>1, LoopCall
    <3> QED
      BY <1>2, <1>7, <2>2, <3>2, <3>3
  <2>3. CASE stops = {} /\ n # Cardinality(now)
    <3>1. UNCHANGED <<told, promise, stack>>
      BY <1>5, <2>3, NothingSaid
    <3> QED
      BY <1>1, <1>2, <2>3, <3>1 DEF Typed
  <2> QED
    BY <2>1, <2>2, <2>3
<1>11. Typed'
  BY <1>1, <1>2, <1>3, <1>4, <1>7, <1>8, <1>9 DEF Typed
<1>12. Placed'
  BY <1>1, <1>2, <1>3, <1>4, <1>7, <1>8, <1>9 DEF Placed, Typed
<1>13. Untouched'
  BY <1>1, <1>2, <1>3, <1>4, <1>7, <1>8, <1>9 DEF Untouched, Placed
<1>14. LoopCallsFirst'
  BY <1>1, <1>2, <1>3, <1>4, <1>7, <1>8, <1>9 DEF LoopCallsFirst
<1>15. Walked'
  BY <1>1, <1>2, <1>3, <1>4, <1>7, <1>8, <1>9 DEF Walked, Placed, Untouched
<1>16. Counted'
  BY <1>1, <1>2, <1>3, <1>4, <1>7, <1>8, <1>9 DEF Counted, Untouched, Placed
<1>17. Paid'
  BY <1>1, <1>2, <1>3, <1>4, <1>7, <1>8, <1>9 DEF Paid, Placed, Untouched
<1>18. Refused'
  BY <1>1, <1>2, <1>3, <1>4, <1>7, <1>8, <1>9 DEF Refused, Placed, Untouched
<1>19. Thrown'
  BY <1>1, <1>2, <1>3, <1>4, <1>7, <1>8, <1>9 DEF Thrown, Placed, Untouched
<1>20. Watched'
  <2>1. promise' = "pending" =>
           /\ PaidIn(told') = {} /\ 0 < remaining' /\ remaining' <= Cardinality(Unfired')
           /\ \A i \in all : i \in handed' \/ entries'[i] \in Halves
    <3>1. SUFFICES ASSUME promise' = "pending"
                   PROVE  /\ PaidIn(told') = {} /\ 0 < remaining' /\ remaining' <= Cardinality(Unfired')
                          /\ \A i \in all : i \in handed' \/ entries'[i] \in Halves
      OBVIOUS
    <3>2. stops = {} /\ seen = all /\ handed' = all \ now /\ n # Cardinality(now)
      BY <1>4, <1>6, <1>9, <3>1
    <3> QED
      <4>1. PaidIn(told') = {} /\ remaining' = n - Cardinality(now) /\ 0 < n - Cardinality(now)
        BY <1>3, <1>4, <1>7, <1>9, <3>1, <3>2
      <4>2. Cardinality(Unfired') = n - Cardinality(now)
        BY <1>4, <1>7, <3>2
      <4>3. \A i \in all : i \in handed' \/ entries'[i] \in Halves
        BY <1>8, <3>2
      <4> QED
        BY <1>7, <4>1, <4>2, <4>3
  <2>2. index' = n /\ all = 0 .. n - 1 /\ handed' \subseteq 0 .. n - 1
    BY <1>3, <1>4, <1>8
  <2>3. remaining' <= MaxElements /\ 0 <= remaining'
    BY <1>3, <1>4, <1>7, BoundsAssumption
  <2>4. (handed \ Unfired)' = {} /\ Cardinality((handed \ Unfired)') = 0
    BY <1>4, FS_EmptySet
  <2> QED
    BY <1>9, <2>1, <2>2, <2>3, <2>4 DEF Watched
<1> QED
  BY <1>11, <1>12, <1>13, <1>14, <1>15, <1>16, <1>17, <1>18, <1>19, <1>20 DEF CombInv

\* A keyed combinator gives up before it has looked at its inputs.
LEMMA StepKeyedGivesUp ==
    ASSUME CombInv, keyed_gives_up
    PROVE  CombInv'
<1> USE DEF At, loop, Streamed, Keyed, Halves, Before, Walking, exhaustion_token, keyed_gives_up
<1>1. /\ Typed /\ Placed /\ Untouched /\ LoopCallsFirst /\ Walked
      /\ Counted /\ Paid /\ Refused /\ Thrown /\ Watched
  BY DEF CombInv
<1>2. /\ pc = "keyed" /\ kind \in Keyed /\ cap = "native" /\ iter = "none" /\ remaining = 0
      /\ told = <<>> /\ PaidIn(told) = {} /\ handed = {} /\ stack = <<>> /\ DOMAIN stack = {}
      /\ UNCHANGED loop
  BY <1>1 DEF Placed, Untouched, PaidIn
<1>3. /\ told' \in Seq(Message) /\ stack' \in Seq(Frame) /\ promise' \in Halves \cup {"pending"}
      /\ PaidIn(told') = {} /\ \A n \in DOMAIN told' : told'[n].what # "lacking"
      /\ \A n \in DOMAIN stack' : stack'[n].by = "loop" => n = 1
      /\ \/ pc' = "settling" /\ promise' # "pending"
         \/ pc' = "threw" /\ stack' = <<>>
  <2>1. CASE Rejects
    <3>1. Refusal \in Message /\ Refusal.what \notin {"values", "errors", "lacking"}
      BY DEF Message, Refusal
    <3>2. Calls("loop", Refusal) /\ pc' = "settling"
      BY <2>1 DEF Refusal, Rejects
    <3>3. /\ told' \in Seq(Message) /\ stack' \in Seq(Frame) /\ promise' \in Halves \cup {"pending"}
          /\ PaidIn(told') = PaidIn(told) /\ promise' # "pending"
          /\ \A n \in DOMAIN stack' : stack'[n].by = "loop" => n = 1
      BY <1>1, <1>2, <3>1, <3>2, LoopCall
    <3>4. told' = Append(<<>>, Refusal)
      BY <1>2, <3>1, <3>2 DEF Calls, Message, NoCall
    <3> QED
      BY <1>2, <3>1, <3>2, <3>3, <3>4
  <2>2. CASE pc' = "threw" /\ UNCHANGED <<told, promise, stack>>
    BY <1>1, <1>2, <2>2 DEF Typed
  <2> QED
    BY <2>1, <2>2
<1>4. Undone' = Undone
  BY <1>1, UndoneElements
<1> HIDE DEF keyed_gives_up
<1>11. Typed'
  BY <1>1, <1>2, <1>3 DEF Typed
<1>12. Placed'
  BY <1>1, <1>2, <1>3 DEF Placed, Typed
<1>13. Untouched'
  BY <1>1, <1>2, <1>3 DEF Untouched, Placed
<1>14. LoopCallsFirst'
  BY <1>1, <1>2, <1>3 DEF LoopCallsFirst
<1>15. Walked'
  BY <1>1, <1>2, <1>3 DEF Walked, Placed, Untouched
<1>16. Counted'
  BY <1>1, <1>2, <1>3, <1>4 DEF Counted, Untouched, Placed
<1>17. Paid'
  BY <1>1, <1>2, <1>3 DEF Paid, Placed, Untouched
<1>18. Refused'
  BY <1>1, <1>2, <1>3 DEF Refused, Placed, Untouched
<1>19. Thrown'
  BY <1>1, <1>2, <1>3 DEF Thrown, Placed, Untouched
<1>20. Watched'
  <2>1. Unfired' = {} /\ (handed \ Unfired)' = {} /\ Cardinality((handed \ Unfired)') = 0
    BY <1>2, FS_EmptySet DEF Unfired
  <2> QED
    BY <1>2, <1>3, <2>1, BoundsAssumption DEF Watched
<1> QED
  BY <1>11, <1>12, <1>13, <1>14, <1>15, <1>16, <1>17, <1>18, <1>19, <1>20 DEF CombInv
-----------------------------------------------------------------------------
(* The invariant is inductive.                                             *)

\* Before the call nothing is counted, handed out or told.
LEMMA CombInit == Init => CombInv
<1> SUFFICES ASSUME Init PROVE CombInv
  OBVIOUS
<1>1. PaidIn(told) = {} /\ told \in Seq(Message) /\ stack \in Seq(Frame) /\ DOMAIN stack = {}
  BY DEF Init, PaidIn
<1>2. Typed
  BY <1>1, BoundsAssumption DEF Init, Typed, Before, Walking
<1> QED
  BY <1>1, <1>2, BoundsAssumption
  DEF Init, CombInv, Placed, Untouched, LoopCallsFirst, Walked, Counted, Paid, Refused, Thrown,
      Watched, Unfired, Before, Walking, Streamed, Keyed, Halves

\* Every step keeps it, a stuttering one too.
LEMMA CombStep == CombInv /\ [Next]_vars => CombInv'
<1> SUFFICES ASSUME CombInv, [Next]_vars PROVE CombInv'
  OBVIOUS
<1>1. CASE UNCHANGED vars
  BY <1>1
  DEF vars, CombInv, Typed, Placed, Untouched, LoopCallsFirst, Walked, Counted, Paid, Refused,
      Thrown, Watched, Unfired, Undone
<1>2. CASE Next
  BY <1>2, StepCall, StepConstructThrows, StepExecutor, StepConstructed, StepTry,
     StepGetPromiseResolve, StepGetIterator, StepNextThrows, StepNextDone, StepNextElement,
     StepResolveElement, StepThenThrows, StepReadThen, StepInvokeThen, StepInvokeReturns,
     StepInvokeThrows, StepCloseReturns, StepSettled, StepElementSettled,
     StepCapabilityReturns, StepCapabilityThrows, StepElementHandler, StepKeyedInput,
     StepCallDirectly, StepKeyed, StepKeyedGivesUp
  DEF Next
<1> QED
  BY <1>1, <1>2

\* The walk of a combinator over its elements keeps its count, its record of
\* what was handed out and the calls it made of its capability in step; what a
\* keyed one has counted bounds what it recorded, whose watchers count twice
\* (promise.rs, mod combinator and keyed_combinator; call_setup.rs,
\* run_promise_combinator).
THEOREM CombinatorKept == Spec => []CombInv
BY CombInit, CombStep, PTL DEF Spec

-----------------------------------------------------------------------------
(* What follows from it.                                                   *)

\* The entries of Payoffs are the calls that handed an array over.
LEMMA PayoffsArePaid == Payoffs = PaidIn(told)
BY DEF Payoffs, Handed, PaidIn

\* The count has its range.
LEMMA CombTypes == CombInv => TypeOK
<1> SUFFICES ASSUME CombInv PROVE TypeOK
  OBVIOUS
<1>1. Typed /\ Placed /\ Counted /\ Watched /\ Untouched
  BY DEF CombInv
<1>2. /\ remaining \in -2 * MaxElements .. MaxElements + 1
      /\ remaining < 0 \/ pc = "panicked" => kind \in Keyed
  <2>1. Cardinality(Undone) \in 0 .. MaxElements /\ MaxElements \in Nat
    BY <1>1, UndoneElements, BoundsAssumption
  <2>2. Cardinality(handed \ Unfired) \in 0 .. MaxElements /\ remaining \in Int
    <3>1. handed \ Unfired \in SUBSET Elements
      BY <1>1 DEF Typed
    <3> QED
      BY <1>1, <3>1, ElementsFinite DEF Typed
  <2>6. pc = "panicked" => kind \in Keyed
    BY <1>1 DEF Placed
  <2>3. CASE kind \in Streamed
    BY <1>1, <2>1, <2>3, <2>6 DEF Counted, exhaustion_token, Streamed
  <2>4. CASE kind \in Keyed
    BY <1>1, <2>1, <2>2, <2>4 DEF Watched, Untouched, Before
  <2>5. CASE kind \notin Streamed \cup Keyed
    BY <1>1, <2>1, <2>5, <2>6 DEF Counted
  <2> QED
    BY <2>3, <2>4, <2>5
<1> QED
  BY <1>1, <1>2 DEF Typed, TypeOK, Before, Walking, Over

\* The count is of what is open.
LEMMA CombCounts == CombInv => CountsUnsettled
BY DEF CombInv, Counted, CountsUnsettled, Undone, Streamed

\* An array goes out once, and whole.
LEMMA CombPays == CombInv => PayoffOnceAndWhole
<1> SUFFICES ASSUME CombInv PROVE PayoffOnceAndWhole
  OBVIOUS
<1>1. Typed /\ Placed /\ Walked /\ Counted /\ Paid /\ Watched /\ Untouched
  BY DEF CombInv
<1>2. Cardinality(PaidIn(told)) <= 1
  <2>1. CASE PaidIn(told) = {}
    BY <2>1, FS_EmptySet
  <2>2. CASE PaidIn(told) # {}
    <3>1. PICK n \in PaidIn(told) : TRUE
      BY <2>2
    <3>2. PaidIn(told) = {n}
      BY <1>1, <3>1 DEF Paid
    <3>3. Cardinality({n}) = 1
      BY FS_Singleton
    <3> QED
      BY <3>2, <3>3
  <2> QED
    BY <2>1, <2>2
<1>3. ASSUME PaidIn(told) # {}, kind \in Streamed
      PROVE  iter = "exhausted" /\ \A i \in 0 .. index - 1 : entries[i] # Hole
  <2>1. kind # "race" /\ iter = "exhausted" /\ remaining = 0
    BY <1>1, <1>3 DEF Paid
  <2>2. Undone \in SUBSET Elements /\ Cardinality(Undone) = 0
    BY <1>1, <1>3, <2>1, UndoneElements DEF Counted
  <2>3. Undone = {}
    BY <2>2, NoneLeft
  <2>4. counted = 0 .. index - 1
    BY <1>1, <1>3, <2>1 DEF Walked
  <2> QED
    BY <2>1, <2>3, <2>4 DEF Undone
<1>4. ASSUME kind \in Keyed, Cardinality(handed) <= 1
      PROVE  \A n \in DOMAIN told : told[n].what # "lacking"
  <2>1. CASE pc = "keyed"
    BY <1>1, <2>1 DEF Untouched, Before
  <2> QED
    BY <1>1, <1>4, <2>1 DEF Watched
<1> QED
  BY <1>2, <1>3, <1>4, PayoffsArePaid DEF PayoffOnceAndWhole, Handed

\* When everything is recorded the count is zero, and then it went out; when no
\* watched input is left to fire, the count is no longer positive.
LEMMA CombRemembers == CombInv => NothingForgotten
<1> SUFFICES ASSUME CombInv PROVE NothingForgotten
  OBVIOUS
<1>1. Counted /\ Paid /\ Watched /\ Typed
  BY DEF CombInv
<1>2. ASSUME kind \in {"all", "allSettled", "any"}, iter = "exhausted",
             \A i \in counted : entries[i] # Hole
      PROVE  Payoffs # {}
  <2>1. Undone = {}
    BY <1>2 DEF Undone
  <2>2. Cardinality(Undone) = 0
    BY <2>1, FS_EmptySet
  <2>3. remaining = 0
    BY <1>1, <1>2, <2>2 DEF Counted, Streamed
  <2> QED
    BY <1>1, <1>2, <2>3, PayoffsArePaid DEF Paid, Streamed
<1>3. ASSUME kind \in Keyed, pc \in {"returned", "panicked"},
             \A i \in handed : already_of(i, "fulfilled") \in already
      PROVE  promise # "pending"
  <2>1. Unfired = {} /\ Cardinality(Unfired) = 0
    BY <1>3, FS_EmptySet DEF Unfired, already_of
  <2> QED
    BY <1>1, <1>3, <2>1 DEF Watched, Typed
<1> QED
  BY <1>2, <1>3 DEF NothingForgotten

\* What goes wrong in the loop has rejected.
LEMMA CombRejects == CombInv => AbruptBecomesRejection
<1> SUFFICES ASSUME CombInv PROVE AbruptBecomesRejection
  OBVIOUS
<1>1. Placed /\ Refused /\ Thrown
  BY DEF CombInv
<1> QED
  BY <1>1 DEF AbruptBecomesRejection, Placed, Refused, Thrown, Refusal, Walking

\* For any number of elements, any kind, and any order in which user code calls
\* the handlers it was given: a streamed combinator hands its array over once,
\* whole and not before its iterator ran out, does not forget to, counts exactly
\* what is open, and turns what goes wrong into a rejection (promise.rs,
\* drop_unsettled and settle_through; call_setup.rs, stream_combinator).  A keyed
\* one settles once, with its reason or with an object that is whole unless an
\* input it watched has been counted twice (promise.rs, keyed_combinator).
THEOREM CombinatorsAreSound == Spec => []CombinatorsSettle
<1>1. CombInv => CombinatorsSettle
  BY CombTypes, CombCounts, CombPays, CombRemembers, CombRejects DEF CombinatorsSettle
<1> QED
  BY <1>1, CombinatorKept, PTL

\* An outcome is written where there is none.
LEMMA WritesHoles == CombInv /\ [Next]_vars => FirstHalfWinsStep
<1> SUFFICES ASSUME CombInv, [Next]_vars, NEW e \in Elements, entries[e] # Hole,
                    kind \in Streamed
             PROVE  entries'[e] = entries[e]
  BY DEF FirstHalfWinsStep
<1>1. Typed /\ Placed /\ Untouched /\ Walked /\ Watched
  BY DEF CombInv
<1>2. CASE entries' = entries
  BY <1>2
<1>3. ASSUME NEW callable \in BOOLEAN, ReadThen(callable)
      PROVE  entries'[e] = entries[e]
  <2>1. index \notin counted /\ pc = "then" /\ kind \in Streamed /\ e # index
    BY <1>1, <1>3 DEF ReadThen, At, Placed, Walked, Walking
  <2> QED
    BY <1>1, <1>3, <2>1 DEF ReadThen, Typed
<1>4. ASSUME NEW i \in Elements, NEW half \in Halves, run_combinator_element(i, half)
      PROVE  entries'[e] = entries[e]
  <2>1. kind \in Streamed /\ i \in handed /\ <<i, "both">> \notin already
    BY <1>4 DEF run_combinator_element, already_of
  <2>2. entries[i] = Hole
    BY <1>1, <2>1 DEF Walked
  <2>3. entries' = entries \/ entries' = [entries EXCEPT ![i] = half]
    BY <1>4 DEF run_combinator_element, element_settled
  <2> QED
    BY <1>1, <2>2, <2>3 DEF Typed
<1>5. ASSUME NEW i \in Elements, NEW half \in Halves, KeyedInputSettles(i, half)
      PROVE  entries'[e] = entries[e]
  BY <1>5 DEF KeyedInputSettles, Keyed, Streamed
<1>6. ASSUME NEW n \in 0 .. MaxElements,
             NEW inputs \in [0 .. n - 1 -> {"fulfilled", "rejected", "pending"}],
             keyed_combinator(inputs)
      PROVE  FALSE
  BY <1>1, <1>6 DEF keyed_combinator, At, Untouched, Before
<1>7. entries' = entries \/ (\E callable \in BOOLEAN : ReadThen(callable))
      \/ (\E i \in Elements, half \in Halves :
             run_combinator_element(i, half) \/ KeyedInputSettles(i, half))
      \/ (\E n \in 0 .. MaxElements :
             \E inputs \in [0 .. n - 1 -> {"fulfilled", "rejected", "pending"}] :
                keyed_combinator(inputs))
  BY DEF Next, vars, loop, Call, ConstructThrows, capability_executor, Constructed, run_promise_try,
         keyed_gives_up, GetPromiseResolve, GetIterator, NextThrows, NextDone, NextElement, ResolveElement,
         ThenThrows, InvokeThen, InvokeReturns, InvokeThrows, CloseReturns, Settled,
         ElementSettled, CapabilityReturns, CapabilityThrows, CallDirectly
<1> QED
  BY <1>2, <1>3, <1>4, <1>5, <1>6, <1>7

\* What a streamed combinator records for an element is its first outcome,
\* however often the handlers are called (promise.rs, the alreadyCalled record
\* of a handler).  Keyed combinators have no such record and are set apart.
THEOREM FirstOutcomeStays == Spec => FirstHalfWins
BY CombinatorKept, WritesHoles, PTL DEF Spec, FirstHalfWins
-----------------------------------------------------------------------------
(* The conformance sweep.  A test is in one place; a child that has exited *)
(* has the verdict its test always has, or one near the kill window.       *)

Messages == {"", "threw", "no error", "not done", "timeout", "panic", "skip", "spawn",
             "crashed", "stalled"}
Outcomes == [status : {"pass", "fail", "skip"}, message : Messages, duration : Nat]
Rows     == [status : {"pass", "fail", "skip"}, message : Messages, near : BOOLEAN]
Children == [test : Ids, state : {"running", "exited", "crashed"}, at : Nat, now : Nat,
             exec : Nat, report : Outcomes \cup {Idle}]

\* What a test's status is when no clock interferes.
Plain(t) ==
    IF skipped(t) THEN "skip"
    ELSE IF t.end = "abort" THEN "fail" ELSE verdict(t, t.end, 0, 0).status

SweepTyped ==
    /\ todo \subseteq Ids /\ workers \in [Workers -> Children \cup {Idle}]
    /\ outcomes \in [Ids -> Rows \cup {Idle}] /\ reports \in Seq([Ids -> Rows])

\* A test waits, is with one worker, or has its answer.
InOnePlace ==
    \A k \in Ids :
      /\ k \in todo => outcomes[k] = Idle
      /\ \A w \in Workers :
            workers[w].test = k =>
               k \notin todo /\ outcomes[k] = Idle /\ \A v \in Workers : workers[v].test = k => v = w
      /\ k \in todo \/ outcomes[k] # Idle \/ \E w \in Workers : workers[w].test = k

\* What a child that runs, or has exited, knows of its test.
Sound(c) ==
    LET t == Tests[c.test]
    IN  /\ c.exec <= c.now
        /\ c.state = "running" => c.at = 1 \/ ~skipped(t)
        /\ c.state = "exited" => /\ c.report \in Outcomes
                                 /\ c.report.status = Plain(t) \/ near_kill(c.report)
        /\ c.state = "exited" /\ c.report.status = "pass" =>
              c.now - c.exec <= Window /\ t.end # "panic" /\ ~skipped(t)
        /\ c.state = "crashed" => Plain(t) = "fail"
ChildKnows == \A w \in Workers : workers[w] # Idle => Sound(workers[w])

\* A row has its test's plain status, unless a clock or a failed spawn was in it.
Steady(r, k) == r.status = Plain(Tests[k]) \/ r.near \/ r.message = "spawn"
RowsSteady ==
    /\ \A k \in Ids : outcomes[k] # Idle => Steady(outcomes[k], k)
    /\ \A n \in DOMAIN reports : \A k \in Ids : Steady(reports[n][k], k)

SweepInv == SweepTyped /\ InOnePlace /\ ChildKnows /\ RowsSteady
\* The verdict has the types of an outcome; a verdict that passes was in time;
\* in time it does not depend on the time.
LEMMA VerdictOf ==
    ASSUME NEW t, NEW end, NEW ran \in Nat, NEW d \in Nat
    PROVE  /\ verdict(t, end, ran, d)
                 \in [status : {"pass", "fail"}, message : Messages, duration : {d}]
           /\ verdict(t, end, ran, d).status = "pass" =>
                 ran <= Window /\ end \notin {"panic", "deadline"}
           /\ ran <= Window => verdict(t, end, ran, d).status = verdict(t, end, 0, 0).status
<1>1. Window \in Nat
  BY SweepAssumption
<1> DEFINE judged(took) == CASE end = "deadline" -> outcome("fail", "timeout", took)
                           [] end = "panic" -> outcome("fail", "panic", took)
                           [] end = "ok" -> IF needs_async_verdict(t) THEN handle_async_ok(t, took)
                                            ELSE handle_positive_or_negative_ok(t, took)
                           [] OTHER -> handle_thrown(t, end, took)
<1>2. \A took \in Nat :
         /\ judged(took) \in Outcomes /\ judged(took).status \in {"pass", "fail"}
         /\ judged(took).duration = took /\ judged(took).status = judged(0).status
         /\ judged(took).status = "pass" => end \notin {"panic", "deadline"}
  <2> TAKE took \in Nat
  <2> DEFINE Alike(o, o0) == /\ o \in Outcomes /\ o.status \in {"pass", "fail"}
                             /\ o.duration = took /\ o.status = o0.status
  <2>1. \A m \in Messages, s \in {"pass", "fail"} :
           /\ Alike(outcome(s, m, took), outcome(s, m, 0)) /\ outcome(s, m, took).status = s
    BY DEF outcome, Outcomes
  <2>2. {"", "threw", "no error", "not done", "timeout", "panic"} \subseteq Messages
    BY DEF Messages
  <2>3. \A thrown :
           Alike(handle_thrown(t, thrown, took), handle_thrown(t, thrown, 0))
    BY <2>1, <2>2 DEF handle_thrown
  <2>4. Alike(handle_positive_or_negative_ok(t, took), handle_positive_or_negative_ok(t, 0))
    BY <2>1, <2>2 DEF handle_positive_or_negative_ok
  <2>5. Alike(handle_async_ok(t, took), handle_async_ok(t, 0))
    <3>1. CASE "complete" \in t.prints
      BY <2>4, <3>1 DEF handle_async_ok
    <3>2. CASE "complete" \notin t.prints /\ "failure" \in t.prints
      BY <2>3, <3>2 DEF handle_async_ok
    <3>3. CASE "complete" \notin t.prints /\ "failure" \notin t.prints
      BY <2>1, <2>2, <3>3 DEF handle_async_ok
    <3> QED
      BY <3>1, <3>2, <3>3
  <2>6. CASE end = "deadline"
    BY <2>1, <2>2, <2>6
  <2>7. CASE end = "panic"
    BY <2>1, <2>2, <2>7
  <2>8. CASE end = "ok"
    <3>1. judged(took) = (IF needs_async_verdict(t) THEN handle_async_ok(t, took)
                        ELSE handle_positive_or_negative_ok(t, took))
          /\ judged(0) = (IF needs_async_verdict(t) THEN handle_async_ok(t, 0)
                          ELSE handle_positive_or_negative_ok(t, 0))
      BY <2>8
    <3> QED
      BY <2>4, <2>5, <2>8, <3>1
  <2>9. CASE end \notin {"deadline", "panic", "ok"}
    <3>1. judged(took) = handle_thrown(t, end, took) /\ judged(0) = handle_thrown(t, end, 0)
      BY <2>9
    <3> QED
      BY <2>3, <2>9, <3>1
  <2> QED
    BY <2>6, <2>7, <2>8, <2>9
<1>3. \A r, took : verdict(t, end, r, took) =
         IF r > Window THEN outcome("fail", "timeout", took) ELSE judged(took)
  BY DEF verdict
<1> HIDE DEF judged
<1>4. outcome("fail", "timeout", d) \in Outcomes /\ outcome("fail", "timeout", d).status = "fail"
      /\ outcome("fail", "timeout", d).duration = d
  BY DEF outcome, Outcomes, Messages
<1>5. verdict(t, end, ran, d).status = "pass" => ran <= Window /\ end \notin {"panic", "deadline"}
  BY <1>1, <1>2, <1>3, <1>4
<1>6. ran <= Window => verdict(t, end, ran, d).status = verdict(t, end, 0, 0).status
  BY <1>1, <1>2, <1>3
<1>7. \A o \in Outcomes : o.status \in {"pass", "fail"} /\ o.duration = d =>
         o \in [status : {"pass", "fail"}, message : Messages, duration : {d}]
  BY DEF Outcomes
<1>8. verdict(t, end, ran, d) \in Outcomes
  BY <1>1, <1>2, <1>3, <1>4
<1>9. verdict(t, end, ran, d).status \in {"pass", "fail"} /\ verdict(t, end, ran, d).duration = d
  BY <1>1, <1>2, <1>3, <1>4
<1> QED
  BY <1>5, <1>6, <1>7, <1>8, <1>9

\* What lasted as long as the window is near the kill.
LEMMA LateIsNear ==
    ASSUME NEW o \in Outcomes, o.duration >= Window
    PROVE  near_kill(o)
<1>1. o.duration \in Nat
  BY DEF Outcomes
<1> QED
  BY <1>1, SweepAssumption DEF near_kill, hard_kill

\* Idle is no child, no outcome and no row; tests are numbered from 1.
LEMMA IdleIsNone ==
    /\ Idle \notin Children /\ Idle \notin Outcomes /\ Idle \notin Rows
    /\ Ids = 1 .. Len(Tests) /\ Len(Tests) \in Nat /\ Idle.test \notin Ids
<1>1. Ids = 1 .. Len(Tests) /\ Len(Tests) \in Nat
  BY SweepAssumption DEF Ids
<1>2. Idle.test = 0 /\ DOMAIN Idle = {"test"}
  BY DEF Idle
<1>3. \A o \in Outcomes : "status" \in DOMAIN o
  BY DEF Outcomes
<1>4. \A o \in Rows : "status" \in DOMAIN o
  BY DEF Rows
<1>5. \A c \in Children : c.test \in Ids
  BY DEF Children
<1> QED
  BY <1>1, <1>2, <1>3, <1>4, <1>5

\* A child that goes on, or exits, is still the one child of its test.
LEMMA ChildMoves ==
    ASSUME SweepInv, NEW w \in Workers, NEW c \in Children, workers[w] # Idle,
           c.test = workers[w].test, Sound(c), workers' = [workers EXCEPT ![w] = c],
           UNCHANGED <<todo, outcomes, reports>>
    PROVE  SweepInv'
<1>1. SweepTyped'
  BY DEF SweepInv, SweepTyped
<1>2. \A v \in Workers : workers'[v] = IF v = w THEN c ELSE workers[v]
  BY DEF SweepInv, SweepTyped
<1>3. \A v \in Workers : workers'[v].test = workers[v].test
  BY <1>2
<1>4. InOnePlace'
  BY <1>3 DEF SweepInv, InOnePlace
<1>5. ChildKnows'
  BY <1>2 DEF SweepInv, ChildKnows, Sound, Plain
<1>6. RowsSteady'
  BY DEF SweepInv, RowsSteady, Steady, Plain
<1> QED
  BY <1>1, <1>4, <1>5, <1>6 DEF SweepInv

\* A child's test is one of the tests, and its plan starts with the set-up.
LEMMA ChildTest ==
    ASSUME SweepInv, NEW w \in Workers, workers[w] # Idle
    PROVE  /\ workers[w] \in Children /\ Sound(workers[w])
           /\ Test(w) \in TestSet /\ plan(Test(w))[1] = "setup"
<1>1. workers[w] \in Children /\ Sound(workers[w])
  BY DEF SweepInv, SweepTyped, ChildKnows
<1>2. Test(w) \in TestSet
  BY <1>1, SweepAssumption DEF Test, Child, Children, Ids
<1>3. Test(w).work \in Seq({"script", "native"})
  BY <1>2 DEF TestSet
<1>4. plan(Test(w))[1] = "setup"
  BY <1>3 DEF plan
<1> QED
  BY <1>1, <1>2, <1>4

\* Advance: a child that exits has its test's plain status, or is near the kill.
LEMMA AdvanceKeeps ==
    ASSUME SweepInv, NEW w \in Workers, Advance(w)
    PROVE  SweepInv'
<1> DEFINE c == workers[w]
           t == Tests[c.test]
           now == c.now
<1>1. /\ c # Idle /\ c.state = "running" /\ c \in Children /\ Sound(c)
      /\ t \in TestSet /\ plan(t)[1] = "setup" /\ Child(w) = c /\ Test(w) = t
  BY ChildTest DEF Advance, Live, Child, Test
<1>2. /\ c.at \in Nat /\ now \in Nat /\ c.exec \in Nat /\ c.exec <= now /\ now - c.exec \in Nat
      /\ c.at = 1 \/ ~skipped(t)
  BY <1>1 DEF Children, Sound
<1>3. Window \in Nat
  BY SweepAssumption
<1>10. PICK ran \in Nat, dur \in Nat : ran = now - c.exec /\ dur = now
  BY <1>2
<1>11. \A end : /\ verdict(t, end, ran, dur) \in Outcomes
                /\ verdict(t, end, ran, dur).duration = dur
                /\ verdict(t, end, ran, dur).status = "pass" =>
                      ran <= Window /\ end \notin {"panic", "deadline"}
                /\ ran <= Window => verdict(t, end, ran, dur).status = verdict(t, end, 0, 0).status
  <2> HIDE DEF c, t, now
  <2> TAKE end
  <2>1. verdict(t, end, ran, dur) \in [status : {"pass", "fail"}, message : Messages, duration : {dur}]
    BY VerdictOf
  <2>2. verdict(t, end, ran, dur) \in Outcomes /\ verdict(t, end, ran, dur).duration = dur
    BY <2>1 DEF Outcomes
  <2>3. verdict(t, end, ran, dur).status = "pass" => ran <= Window /\ end \notin {"panic", "deadline"}
    BY VerdictOf
  <2>4. ran <= Window => verdict(t, end, ran, dur).status = verdict(t, end, 0, 0).status
    BY VerdictOf
  <2> QED
    BY <2>2, <2>3, <2>4
<1>4. UNCHANGED <<todo, outcomes, reports>>
  BY DEF Advance
<1>5. \A o \in Outcomes : /\ Exited(c, "exited", o) \in Children
                          /\ Exited(c, "exited", o).test = c.test
                          /\ Exited(c, "exited", o).state = "exited"
                          /\ Exited(c, "exited", o).report = o
                          /\ Exited(c, "exited", o).now = now
                          /\ Exited(c, "exited", o).exec = c.exec
  BY <1>1 DEF Exited, Children
<1>6. CASE plan(t)[c.at] = "setup" /\ skipped(t)
  <2> DEFINE o == outcome("skip", "skip", now)
  <2>1. workers' = [workers EXCEPT ![w] = Exited(c, "exited", o)]
    BY <1>1, <1>6 DEF Advance, Reported
  <2>2. o \in Outcomes /\ o.status = "skip"
    BY <1>2 DEF outcome, Outcomes, Messages
  <2> HIDE DEF o
  <2>3. Sound(Exited(c, "exited", o))
    BY <1>2, <1>5, <1>6, <2>2 DEF Sound, Plain
  <2> QED
    BY <1>1, <1>4, <1>5, <2>1, <2>2, <2>3, ChildMoves
<1>7. CASE ~(plan(t)[c.at] = "setup" /\ skipped(t)) /\ Overdue(w)
  <2> DEFINE o == verdict(t, "deadline", ran, dur)
  <2>1. workers' = [workers EXCEPT ![w] = Exited(c, "exited", o)]
    BY <1>1, <1>7, <1>10 DEF Advance, Reported
  <2>2. o \in Outcomes /\ o.status # "pass" /\ o.duration = now
    BY <1>10, <1>11
  <2> HIDE DEF o
  <2>3. now >= Window
    BY <1>1, <1>2, <1>3, <1>7 DEF Overdue
  <2>4. near_kill(o)
    BY <2>2, <2>3, LateIsNear
  <2>5. Sound(Exited(c, "exited", o))
    BY <1>2, <1>5, <2>2, <2>4 DEF Sound
  <2> QED
    BY <1>1, <1>4, <1>5, <2>1, <2>2, <2>5, ChildMoves
<1>8. CASE ~(plan(t)[c.at] = "setup" /\ skipped(t)) /\ ~Overdue(w) /\ c.at = Len(plan(t))
  <2>1. ~skipped(t) /\ t.end # "skip"
    BY <1>1, <1>2, <1>8 DEF TestSet, TypeNames
  <2>2. workers' = [workers EXCEPT ![w] = Reported(w, t.end)]
    BY <1>1, <1>8 DEF Advance
  <2>3. CASE t.end = "abort"
    <3> DEFINE d == Exited(c, "crashed", Idle)
    <3>1. workers' = [workers EXCEPT ![w] = d]
      BY <1>1, <2>2, <2>3 DEF Reported
    <3>2. d \in Children /\ d.test = c.test /\ d.state = "crashed" /\ d.now = now /\ d.exec = c.exec
      BY <1>1 DEF Exited, Children
    <3> HIDE DEF d
    <3>3. Sound(d)
      BY <1>2, <2>1, <2>3, <3>2 DEF Sound, Plain
    <3> QED
      BY <1>1, <1>4, <3>1, <3>2, <3>3, ChildMoves
  <2>4. CASE t.end # "abort"
    <3> DEFINE o == verdict(t, t.end, ran, dur)
    <3>1. workers' = [workers EXCEPT ![w] = Exited(c, "exited", o)]
      BY <1>1, <1>10, <2>1, <2>2, <2>4 DEF Reported
    <3>2. /\ o \in Outcomes /\ o.duration = now
          /\ o.status = "pass" => ran <= Window /\ t.end # "panic"
          /\ ran <= Window => o.status = verdict(t, t.end, 0, 0).status
      BY <1>10, <1>11
    <3> HIDE DEF o
    <3>3. ran <= Window => o.status = Plain(t)
      BY <2>1, <2>4, <3>2 DEF Plain
    <3>4. ~(ran <= Window) => near_kill(o)
      BY <1>2, <1>3, <1>10, <3>2, LateIsNear
    <3>5. Sound(Exited(c, "exited", o))
      BY <1>2, <1>5, <1>10, <2>1, <3>2, <3>3, <3>4 DEF Sound
    <3> QED
      BY <1>1, <1>4, <1>5, <3>1, <3>2, <3>5, ChildMoves
  <2> QED
    BY <2>3, <2>4
<1>9. CASE ~(plan(t)[c.at] = "setup" /\ skipped(t)) /\ ~Overdue(w) /\ c.at # Len(plan(t))
  <2> DEFINE d == [c EXCEPT !.at = @ + 1, !.exec = IF plan(t)[c.at] = "setup" THEN now ELSE @]
  <2>1. workers' = [workers EXCEPT ![w] = d]
    BY <1>1, <1>9 DEF Advance
  <2>2. /\ d \in Children /\ d.test = c.test /\ d.state = "running" /\ d.now = now
        /\ d.exec \in {now, c.exec}
    <3>1. \A m \in Nat, exec \in {now, c.exec} :
             LET e == [c EXCEPT !.at = m, !.exec = exec]
             IN  /\ e \in Children /\ e.test = c.test /\ e.state = "running" /\ e.now = now
                 /\ e.exec \in {now, c.exec}
      BY <1>1, <1>2 DEF Children
    <3>2. c.at + 1 \in Nat /\ (IF plan(t)[c.at] = "setup" THEN now ELSE c.exec) \in {now, c.exec}
      BY <1>2
    <3>3. d = [c EXCEPT !.at = c.at + 1, !.exec = IF plan(t)[c.at] = "setup" THEN now ELSE c.exec]
      BY <1>1 DEF Children
    <3> HIDE DEF d, c, t, now
    <3> QED
      BY <3>1, <3>2, <3>3
  <2>3. ~skipped(t)
    BY <1>1, <1>2, <1>9
  <2> HIDE DEF d
  <2>4. Sound(d)
    BY <1>2, <2>2, <2>3 DEF Sound
  <2> QED
    BY <1>1, <1>4, <2>1, <2>2, <2>4, ChildMoves
<1> QED
  BY <1>6, <1>7, <1>8, <1>9

\* Tick: the stopwatch of a running child.
LEMMA TickKeeps ==
    ASSUME SweepInv, NEW w \in Workers, Tick(w)
    PROVE  SweepInv'
<1> DEFINE c == workers[w]
           d == [c EXCEPT !.now = @ + 1]
<1>1. c # Idle /\ c.state = "running" /\ c \in Children /\ Sound(c)
  BY ChildTest DEF Tick, Live, Child
<1>2. workers' = [workers EXCEPT ![w] = d] /\ UNCHANGED <<todo, outcomes, reports>>
  BY DEF Tick
<1>3. /\ d \in Children /\ d.test = c.test /\ d.state = "running" /\ d.at = c.at
      /\ d.now = c.now + 1 /\ d.exec = c.exec /\ c.now \in Nat /\ c.exec \in Nat
  BY <1>1 DEF Children
<1> HIDE DEF d
<1>4. Sound(d)
  BY <1>1, <1>3 DEF Sound
<1> QED
  BY <1>1, <1>2, <1>3, <1>4, ChildMoves

\* Spawn: a test leaves the queue for one worker.
LEMMA SpawnKeeps ==
    ASSUME SweepInv, NEW w \in Workers, Spawn(w)
    PROVE  SweepInv'
<1>1. workers[w] = Idle /\ UNCHANGED <<outcomes, reports>>
  BY DEF Spawn, Child
<1>2. PICK test \in todo :
        /\ todo' = todo \ {test}
        /\ workers' = [workers EXCEPT ![w] = [test |-> test, state |-> "running", at |-> 1, now |-> 0,
                                              exec |-> 0, report |-> Idle]]
  BY DEF Spawn
<1> DEFINE c == [test |-> test, state |-> "running", at |-> 1, now |-> 0, exec |-> 0, report |-> Idle]
<1>3. test \in Ids /\ outcomes[test] = Idle
  BY DEF SweepInv, SweepTyped, InOnePlace
<1>4. c \in Children
  BY <1>3 DEF Children
<1>5. c.test = test /\ Sound(c)
  BY DEF Sound
<1>6. workers' = [workers EXCEPT ![w] = c]
  BY <1>2
<1> HIDE DEF c
<1>7. \A v \in Workers : workers'[v] = IF v = w THEN c ELSE workers[v]
  BY <1>6 DEF SweepInv, SweepTyped
<1>8. SweepTyped'
  BY <1>1, <1>2, <1>4, <1>6 DEF SweepInv, SweepTyped
<1>9. InOnePlace'
  <2>1. workers[w].test \notin Ids
    BY <1>1, IdleIsNone
  <2>2. \A v \in Workers : workers[v].test # test
    BY <1>3 DEF SweepInv, InOnePlace
  <2>3. \A k \in Ids, v \in Workers : workers'[v].test = k <=>
           IF v = w THEN k = test ELSE workers[v].test = k
    BY <1>5, <1>7
  <2> SUFFICES ASSUME NEW k \in Ids
               PROVE  /\ k \in todo' => outcomes'[k] = Idle
                      /\ \A v \in Workers : workers'[v].test = k =>
                            /\ k \notin todo' /\ outcomes'[k] = Idle
                            /\ \A u \in Workers : workers'[u].test = k => u = v
                      /\ k \in todo' \/ outcomes'[k] # Idle \/ \E v \in Workers : workers'[v].test = k
    BY DEF InOnePlace
  <2>4. CASE k = test
    BY <1>1, <1>2, <1>3, <2>2, <2>3, <2>4
  <2>5. CASE k # test
    BY <1>1, <1>2, <2>1, <2>3, <2>5 DEF SweepInv, InOnePlace
  <2> QED
    BY <2>4, <2>5
<1>10. ChildKnows'
  BY <1>5, <1>7 DEF SweepInv, ChildKnows, Sound, Plain
<1>11. RowsSteady'
  BY <1>1 DEF SweepInv, RowsSteady, Steady, Plain
<1> QED
  BY <1>8, <1>9, <1>10, <1>11 DEF SweepInv

\* A row of an outcome: the parent has its status, and whether it was near.
LEMMA RowOf ==
    ASSUME NEW o \in Outcomes
    PROVE  /\ Row(o) \in Rows /\ Row(o).status = o.status
           /\ Row(o).near = near_kill(o) /\ Row(o).message = o.message
<1>1. near_kill(o) \in BOOLEAN
  BY DEF near_kill, is_stalled
<1> QED
  BY <1>1 DEF Row, Rows, Outcomes

\* The answer of a test that has left the queue and every worker.
LEMMA AnswerKeeps ==
    ASSUME SweepInv, NEW test \in Ids, NEW o \in Outcomes,
           outcomes[test] = Idle, Answer(test, o), Steady(Row(o), test), UNCHANGED reports,
           todo' = todo \ {test}, workers' \in [Workers -> Children \cup {Idle}],
           \A w \in Workers :
              workers'[w] = IF workers[w].test = test THEN Idle ELSE workers[w]
    PROVE  SweepInv'
<1>1. outcomes' = [outcomes EXCEPT ![test] = Row(o)] /\ Row(o) \in Rows /\ Row(o) # Idle
  BY RowOf, IdleIsNone DEF Answer
<1>2. \A k \in Ids : outcomes'[k] = IF k = test THEN Row(o) ELSE outcomes[k]
  BY <1>1 DEF SweepInv, SweepTyped
<1>3. SweepTyped'
  BY <1>1 DEF SweepInv, SweepTyped
<1>4. InOnePlace'
  <2>1. \A k \in Ids, w \in Workers : workers'[w].test = k <=> k # test /\ workers[w].test = k
    BY IdleIsNone
  <2> SUFFICES ASSUME NEW k \in Ids
               PROVE  /\ k \in todo' => outcomes'[k] = Idle
                      /\ \A v \in Workers : workers'[v].test = k =>
                            /\ k \notin todo' /\ outcomes'[k] = Idle
                            /\ \A u \in Workers : workers'[u].test = k => u = v
                      /\ k \in todo' \/ outcomes'[k] # Idle \/ \E v \in Workers : workers'[v].test = k
    BY DEF InOnePlace
  <2>2. CASE k = test
    BY <1>1, <1>2, <2>1, <2>2
  <2>3. CASE k # test
    BY <1>2, <2>1, <2>3 DEF SweepInv, InOnePlace
  <2> QED
    BY <2>2, <2>3
<1>5. ChildKnows'
  BY DEF SweepInv, ChildKnows, Sound, Plain
<1>6. RowsSteady'
  BY <1>2 DEF SweepInv, RowsSteady, Steady, Plain
<1> QED
  BY <1>3, <1>4, <1>5, <1>6 DEF SweepInv

\* What a worker holds is one test's child, and no other worker has it.
LEMMA LeavesOne ==
    ASSUME SweepInv, NEW w \in Workers, workers[w] # Idle, workers' = [workers EXCEPT ![w] = Idle],
           UNCHANGED todo
    PROVE  LET test == workers[w].test
           IN  /\ test \in Ids /\ outcomes[test] = Idle /\ todo' = todo \ {test}
               /\ workers' \in [Workers -> Children \cup {Idle}]
               /\ \A v \in Workers :
                     workers'[v] = IF workers[v].test = test THEN Idle ELSE workers[v]
<1> DEFINE test == workers[w].test
<1>1. test \in Ids
  BY ChildTest DEF Children
<1>2. outcomes[test] = Idle /\ test \notin todo /\ \A v \in Workers : workers[v].test = test => v = w
  BY <1>1 DEF SweepInv, InOnePlace
<1> QED
  BY <1>1, <1>2 DEF SweepInv, SweepTyped

\* SpawnFails: the test's answer says so.
LEMMA SpawnFailsKeeps ==
    ASSUME SweepInv, NEW w \in Workers, SpawnFails(w)
    PROVE  SweepInv'
<1> DEFINE o == outcome("fail", "spawn", 0)
<1>1. PICK test \in todo : todo' = todo \ {test} /\ Answer(test, o)
  BY DEF SpawnFails
<1>2. UNCHANGED <<workers, reports>>
  BY DEF SpawnFails
<1>3. test \in Ids /\ outcomes[test] = Idle /\ \A v \in Workers : workers[v].test # test
  BY DEF SweepInv, SweepTyped, InOnePlace
<1>4. o \in Outcomes /\ o.message = "spawn"
  BY DEF outcome, Outcomes, Messages
<1> HIDE DEF o
<1>5. Steady(Row(o), test)
  BY <1>4, RowOf DEF Steady
<1>6. workers' \in [Workers -> Children \cup {Idle}]
  BY <1>2 DEF SweepInv, SweepTyped
<1> QED
  BY <1>1, <1>2, <1>3, <1>4, <1>5, <1>6, AnswerKeeps

\* Collect: the child's own outcome, or the crash of its test.
LEMMA CollectKeeps ==
    ASSUME SweepInv, NEW w \in Workers, Collect(w)
    PROVE  SweepInv'
<1> DEFINE c == workers[w]
           o == IF c.state = "exited" THEN c.report ELSE outcome("fail", "crashed", c.now)
<1>1. /\ c # Idle /\ c.state # "running" /\ Answer(c.test, o)
      /\ workers' = [workers EXCEPT ![w] = Idle] /\ UNCHANGED <<todo, reports>>
  BY DEF Collect, Child
<1>2. c \in Children /\ Sound(c)
  BY <1>1, ChildTest
<1>3. o \in Outcomes /\ (o.status = Plain(Tests[c.test]) \/ near_kill(o))
  <2>1. CASE c.state = "exited"
    BY <1>2, <2>1 DEF Sound
  <2>2. CASE c.state # "exited"
    <3>1. c.state = "crashed" /\ c.now \in Nat
      BY <1>1, <1>2, <2>2 DEF Children
    <3>2. Plain(Tests[c.test]) = "fail"
      BY <1>2, <3>1 DEF Sound
    <3>3. outcome("fail", "crashed", c.now) \in Outcomes
          /\ outcome("fail", "crashed", c.now).status = "fail"
      BY <3>1 DEF outcome, Outcomes, Messages
    <3> QED
      BY <2>2, <3>2, <3>3
  <2> QED
    BY <2>1, <2>2
<1> HIDE DEF o
<1>4. Steady(Row(o), c.test)
  BY <1>3, RowOf DEF Steady
<1> QED
  BY <1>1, <1>3, <1>4, LeavesOne, AnswerKeeps

\* Kill: a stalled row is near the kill window.
LEMMA KillKeeps ==
    ASSUME SweepInv, NEW w \in Workers, Kill(w)
    PROVE  SweepInv'
<1> DEFINE c == workers[w]
           o == outcome("fail", "stalled", c.now)
<1>1. /\ c # Idle /\ Answer(c.test, o)
      /\ workers' = [workers EXCEPT ![w] = Idle] /\ UNCHANGED <<todo, reports>>
  BY DEF Kill, Live, Child
<1>2. c.now \in Nat
  BY <1>1, ChildTest DEF Children
<1>3. o \in Outcomes /\ near_kill(o)
  BY <1>2 DEF outcome, Outcomes, Messages, near_kill, is_stalled
<1> HIDE DEF o
<1>4. Steady(Row(o), c.test)
  BY <1>3, RowOf DEF Steady
<1> QED
  BY <1>1, <1>3, <1>4, LeavesOne, AnswerKeeps

\* Report: when the sweep is over every test has its row.
LEMMA ReportKeeps ==
    ASSUME SweepInv, Report
    PROVE  SweepInv'
<1>1. /\ todo = {} /\ \A w \in Workers : workers[w] = Idle
      /\ reports' = Append(reports, outcomes) /\ todo' = Ids
      /\ outcomes' = [k \in Ids |-> Idle] /\ workers' = workers
  BY DEF Report, SweepOver, Child
<1>2. \A w \in Workers, k \in Ids : workers[w].test # k
  BY <1>1, IdleIsNone
<1>3. \A k \in Ids : outcomes[k] # Idle
  BY <1>1, <1>2 DEF SweepInv, InOnePlace
<1>4. outcomes \in [Ids -> Rows]
  BY <1>3 DEF SweepInv, SweepTyped
<1>5. reports' \in Seq([Ids -> Rows])
  BY <1>1, <1>4 DEF SweepInv, SweepTyped
<1>6. SweepTyped'
  BY <1>1, <1>5 DEF SweepInv, SweepTyped
<1>7. InOnePlace'
  BY <1>1, <1>2 DEF InOnePlace
<1>8. ChildKnows'
  BY <1>1 DEF ChildKnows
<1>9. \A n \in DOMAIN reports' : \A k \in Ids : Steady(reports'[n][k], k)
  <2>1. \A n \in DOMAIN reports' : reports'[n] = outcomes \/ (n \in DOMAIN reports /\ reports'[n] = reports[n])
    BY <1>1 DEF SweepInv, SweepTyped
  <2> QED
    BY <1>3, <2>1 DEF SweepInv, RowsSteady
<1>10. RowsSteady'
  BY <1>1, <1>9 DEF RowsSteady, Steady, Plain
<1> QED
  BY <1>6, <1>7, <1>8, <1>10 DEF SweepInv

\* SweepSpec keeps the invariant of the sweep: every step of a worker, whatever
\* its child does, and the report between two sweeps.
THEOREM SweepKept == SweepSpec => []SweepInv
<1>1. SweepInit => SweepInv
  <2> SUFFICES ASSUME SweepInit
               PROVE  SweepInv
    OBVIOUS
  <2>1. SweepTyped
    BY DEF SweepInit, SweepTyped
  <2>2. InOnePlace
    BY IdleIsNone DEF SweepInit, InOnePlace
  <2>3. ChildKnows
    BY DEF SweepInit, ChildKnows
  <2>4. RowsSteady
    BY DEF SweepInit, RowsSteady
  <2> QED
    BY <2>1, <2>2, <2>3, <2>4 DEF SweepInv
<1>2. SweepInv /\ [SweepNext]_sweepVars => SweepInv'
  <2> SUFFICES ASSUME SweepInv, [SweepNext]_sweepVars
               PROVE  SweepInv'
    OBVIOUS
  <2>1. CASE \E w \in Workers : Spawn(w) \/ SpawnFails(w)
    BY <2>1, SpawnKeeps, SpawnFailsKeeps
  <2>2. CASE \E w \in Workers : Advance(w) \/ Tick(w)
    BY <2>2, AdvanceKeeps, TickKeeps
  <2>3. CASE \E w \in Workers : Collect(w) \/ Kill(w)
    BY <2>3, CollectKeeps, KillKeeps
  <2>4. CASE Report
    BY <2>4, ReportKeeps
  <2>5. CASE UNCHANGED sweepVars
    BY <2>5 DEF sweepVars, SweepInv, SweepTyped, InOnePlace, ChildKnows, Sound, RowsSteady, Steady, Plain
  <2> QED
    BY <2>1, <2>2, <2>3, <2>4, <2>5 DEF SweepNext
<1> QED
  BY <1>1, <1>2, PTL DEF SweepSpec

\* The workers of a test are none or one; a report's verdicts are as many as its
\* tests.
LEMMA OnePlaceIsOnce ==
    ASSUME SweepInv
    PROVE  EachTestOnce
<1>1. \A k \in Ids :
         Cardinality({w \in Workers : Child(w).test = k})
         + (IF k \in todo THEN 1 ELSE 0) + (IF outcomes[k] # Idle THEN 1 ELSE 0) = 1
  <2> TAKE k \in Ids
  <2> DEFINE with == {w \in Workers : Child(w).test = k}
  <2>1. with = {w \in Workers : workers[w].test = k}
    BY DEF Child
  <2>2. CASE \E w \in Workers : workers[w].test = k
    <3>1. PICK w \in Workers : workers[w].test = k
      BY <2>2
    <3>2. with = {w} /\ k \notin todo /\ outcomes[k] = Idle
      BY <2>1, <3>1 DEF SweepInv, InOnePlace
    <3>3. Cardinality({w}) = 1
      BY FS_Singleton
    <3> QED
      BY <3>2, <3>3
  <2>3. CASE ~\E w \in Workers : workers[w].test = k
    <3>1. with = {} /\ (k \in todo <=> outcomes[k] = Idle)
      BY <2>1, <2>3 DEF SweepInv, InOnePlace
    <3>2. Cardinality({}) = 0
      BY FS_EmptySet
    <3> QED
      BY <3>1, <3>2
  <2> QED
    BY <2>2, <2>3
<1>2. \A r \in Range(reports) :
         LET s == Summary(r) IN s["pass"] + s["fail"] + s["skip"] = Len(Tests)
  <2> TAKE r \in Range(reports)
  <2> DEFINE of(status) == {k \in Ids : r[k].status = status}
  <2>1. r \in [Ids -> Rows]
    BY DEF SweepInv, SweepTyped, Range
  <2>2. Summary(r) = [status \in {"pass", "fail", "skip"} |-> Cardinality(of(status))]
    BY <2>1 DEF Summary
  <2>3. IsFiniteSet(Ids) /\ Cardinality(Ids) = Len(Tests)
    <3>1. Ids = 1 .. Len(Tests) /\ Len(Tests) \in Nat
      BY IdleIsNone
    <3>2. IsFiniteSet(1 .. Len(Tests))
          /\ Cardinality(1 .. Len(Tests)) = IF 1 > Len(Tests) THEN 0 ELSE Len(Tests) - 1 + 1
      BY <3>1, FS_Interval
    <3> QED
      BY <3>1, <3>2
  <2>4. Ids = (of("pass") \cup of("fail")) \cup of("skip")
    BY <2>1 DEF Rows
  <2>5. \A status : IsFiniteSet(of(status)) /\ Cardinality(of(status)) \in Nat
    BY <2>3, FS_Subset, FS_CardinalityType
  <2>6. of("pass") \cap of("fail") = {} /\ (of("pass") \cup of("fail")) \cap of("skip") = {}
    OBVIOUS
  <2> HIDE DEF of
  <2>7. \A S, T : IsFiniteSet(S) /\ IsFiniteSet(T) /\ S \cap T = {} =>
           /\ IsFiniteSet(S \cup T)
           /\ Cardinality(S \cup T) = Cardinality(S) + Cardinality(T)
    <3> SUFFICES ASSUME NEW S, NEW T, IsFiniteSet(S), IsFiniteSet(T), S \cap T = {}
                 PROVE  /\ IsFiniteSet(S \cup T)
                        /\ Cardinality(S \cup T) = Cardinality(S) + Cardinality(T)
      OBVIOUS
    <3>1. Cardinality(S) \in Nat /\ Cardinality(T) \in Nat
      BY FS_CardinalityType
    <3>2. Cardinality(S \cap T) = 0
      BY FS_EmptySet
    <3>3. IsFiniteSet(S \cup T)
          /\ Cardinality(S \cup T) = Cardinality(S) + Cardinality(T) - Cardinality(S \cap T)
      BY FS_Union
    <3> QED
      BY <3>1, <3>2, <3>3
  <2>8. /\ IsFiniteSet(of("pass") \cup of("fail"))
        /\ Cardinality(of("pass") \cup of("fail")) = Cardinality(of("pass")) + Cardinality(of("fail"))
    BY <2>5, <2>6, <2>7
  <2>9. Cardinality((of("pass") \cup of("fail")) \cup of("skip"))
          = Cardinality(of("pass") \cup of("fail")) + Cardinality(of("skip"))
    BY <2>5, <2>6, <2>7, <2>8
  <2> QED
    BY <2>2, <2>3, <2>4, <2>5, <2>8, <2>9
<1> QED
  BY <1>1, <1>2 DEF EachTestOnce

\* Two rows of one test fall in the same bucket, unless one is near the window.
LEMMA SteadyIsQuiet ==
    ASSUME SweepInv
    PROVE  LoadBreaksNothing
<1> DEFINE before == reports[1]
           after == Last(reports)
<1> SUFFICES ASSUME Len(reports) >= 2, NEW k \in Ids, "spawn" \notin {before[k].message, after[k].message}
             PROVE  faildiff(before, after)[k] \in {"same", "MARGINAL"}
  BY DEF LoadBreaksNothing
<1>1. reports \in Seq([Ids -> Rows])
  BY DEF SweepInv, SweepTyped
<1>2. 1 \in DOMAIN reports /\ Len(reports) \in DOMAIN reports /\ after = reports[Len(reports)]
  BY <1>1 DEF Last
<1>3. Steady(before[k], k) /\ Steady(after[k], k)
  BY <1>2 DEF SweepInv, RowsSteady
<1>4. faildiff(before, after)[k] = classify(before[k], after[k])
  BY DEF faildiff
<1>5. CASE before[k].near \/ after[k].near
  BY <1>4, <1>5 DEF classify
<1>6. CASE ~(before[k].near \/ after[k].near)
  <2>1. before[k].status = after[k].status
    BY <1>3, <1>6 DEF Steady
  <2>2. bucket(before[k].status, after[k].status) = "same"
    BY <2>1 DEF bucket
  <2> QED
    BY <1>4, <2>2 DEF classify
<1> QED
  BY <1>5, <1>6

\* A sweep gives each test one verdict, earned in its window, and the load of the
\* machine moves no test into a bucket of the comparison: for every pool, list of
\* tests and window, for a grace of at most a quarter of the window, and however
\* often a sweep is repeated.
THEOREM SweepsAreSound == SweepSpec => []SweepSound
<1>1. SweepInv => SweepSound
  <2> SUFFICES ASSUME SweepInv
               PROVE  SweepSound
    OBVIOUS
  <2>1. PassedInTime
    BY DEF SweepInv, ChildKnows, Sound, PassedInTime, Child, Test
  <2> QED
    BY <2>1, OnePlaceIsOnce, SteadyIsQuiet DEF SweepSound
<1> QED
  BY <1>1, SweepKept, PTL
-----------------------------------------------------------------------------
(* Accessors.  A transition of a shape adds at most the slot that the      *)
(* object bound to it gets a value for.                                    *)

AttrSets == {DEFAULT, BUILTIN, ENUMERABLE_ACCESSOR}
Props    == [key : Keys, slot : Nat \cup {NoSlot}, get : GettersSetters, set : GettersSetters,
             attrs : AttrSets]
EdgeMaps == UNION {[D -> Nat] : D \in SUBSET (Keys \X AttrSets)}
Shapes   == [props : Seq(Props), num_own : Nat, edges : EdgeMaps]
Entries  == [slot : Nat, get : GettersSetters, set : GettersSetters, accessor : BOOLEAN,
             attrs : AttrSets]
Dicts    == UNION {[D -> Entries] : D \in SUBSET Keys}
Holders  == [shape : Nat, values : Seq({Stored, NoValue}), dict : Dicts, spilled : BOOLEAN]

\* A slot is below the count, or is the one an accessor took that became data;
\* only definitions with attributes of an accessor's make accessors.
SlotsCounted(s) ==
    \A i \in DOMAIN s.props :
       /\ s.props[i].slot <= s.num_own
       /\ is_accessor(s.props[i]) => s.props[i].attrs # DEFAULT

\* One more property, and no slot that the count of its parent does not bound.
OneSlotMore(p, c) ==
    /\ c.num_own = p.num_own + 1
    /\ \A i \in DOMAIN c.props : c.props[i].slot <= p.num_own

\* As many properties, and the slots of the parent but perhaps k's.
AsMany(p, k, c) ==
    LET n == find(c.props, k)
        m == find(p.props, k)
    IN  /\ c.num_own = p.num_own /\ n # 0 /\ c.props[n].slot \in Nat
        /\ ~is_accessor(p.props[m]) => c.props[n].slot = p.props[m].slot
        /\ \A i \in DOMAIN c.props :
              \/ c.props[i].slot <= c.props[n].slot
              \/ \E j \in DOMAIN p.props : c.props[i].slot = p.props[j].slot

\* What each edge of the transition tree adds.
EdgeAdds(p, k, attrs, c) ==
    IF find(p.props, k) = 0 THEN OneSlotMore(p, c)
    ELSE AsMany(p, k, c) /\ (is_accessor(p.props[find(p.props, k)]) => attrs = DEFAULT)

TableOK(ss) ==
    /\ ss \in Seq(Shapes)
    /\ \A s \in DOMAIN ss :
          /\ SlotsCounted(ss[s])
          /\ \A k \in Keys, attrs \in AttrSets :
                edge(ss, s, k, attrs) # 0 =>
                   /\ edge(ss, s, k, attrs) \in s + 1..Len(ss)
                   /\ EdgeAdds(ss[s], k, attrs, ss[edge(ss, s, k, attrs)])
          /\ \A e \in DOMAIN ss[s].edges : ss[s].edges[e] # 0

\* An object has a value for each slot its shape or its dictionary names, and for
\* each the next transition counts on.
Fits(o, s) ==
    /\ s.num_own <= Len(o.values)
    /\ \A i \in DOMAIN s.props : s.props[i].slot < Len(o.values)
    /\ \A k \in DOMAIN o.dict : o.dict[k].slot < Len(o.values)

SlotsInv ==
    /\ TableOK(shapes)
    /\ objects \in [Objects -> Holders]
    /\ \A o \in Objects :
          /\ objects[o].shape \in DOMAIN shapes
          /\ Fits(objects[o], shapes[objects[o].shape])
          /\ objects[o].spilled \/ DOMAIN objects[o].dict = {}
    /\ building \subseteq Objects
    /\ calls \in 0..MaxCalls

\* find yields the first descriptor of the name, when there is one.
LEMMA FindFirst ==
    ASSUME NEW props \in Seq(Props), NEW k
    PROVE  /\ find(props, k) \in Nat
           /\ find(props, k) = 0 <=> \A i \in DOMAIN props : props[i].key # k
           /\ find(props, k) # 0 =>
                 /\ find(props, k) \in DOMAIN props /\ props[find(props, k)].key = k
                 /\ \A j \in 1..find(props, k) - 1 : props[j].key # k
<1> DEFINE P(i) == props[i].key = k /\ \A j \in 1..i - 1 : props[j].key # k
<1>1. DOMAIN props = 1..Len(props) /\ Len(props) \in Nat
  OBVIOUS
<1>2. CASE \A i \in DOMAIN props : props[i].key # k
  BY <1>1, <1>2 DEF find
<1>3. CASE \E i \in DOMAIN props : props[i].key = k
  <2>1. \E i \in DOMAIN props : P(i)
    <3> SUFFICES ASSUME \A i \in DOMAIN props : ~P(i)
                 PROVE  FALSE
      OBVIOUS
    <3> DEFINE S == {n \in Nat : \A j \in 1..n : j \in DOMAIN props => props[j].key # k}
    <3>1. 0 \in S
      OBVIOUS
    <3>2. \A n \in Nat : n \in S => n + 1 \in S
      <4> SUFFICES ASSUME NEW n \in Nat, n \in S
                   PROVE  \A j \in 1..n + 1 : j \in DOMAIN props => props[j].key # k
        OBVIOUS
      <4>1. \A j \in 1..n : j \in DOMAIN props => props[j].key # k
        OBVIOUS
      <4>2. n + 1 \in DOMAIN props => \A j \in 1..(n + 1) - 1 : props[j].key # k
        BY <1>1, <4>1
      <4>3. n + 1 \in DOMAIN props => props[n + 1].key # k
        BY <4>2
      <4> QED
        BY <4>1, <4>3
    <3> HIDE DEF S
    <3>3. Nat \subseteq S
      BY <3>1, <3>2, AllNumbers
    <3>4. Len(props) \in S
      BY <1>1, <3>3
    <3> QED
      BY <1>1, <1>3, <3>4 DEF S
  <2>2. find(props, k) = CHOOSE i \in DOMAIN props : P(i)
    BY <1>3 DEF find
  <2>3. find(props, k) \in DOMAIN props /\ P(find(props, k))
    BY <2>1, <2>2
  <2> QED
    BY <1>1, <1>3, <2>3
<1> QED
  BY <1>2, <1>3

\* It depends on the names alone.
LEMMA FindByKeys ==
    ASSUME NEW p \in Seq(Props), NEW q \in Seq(Props), NEW k,
           DOMAIN p = DOMAIN q, \A i \in DOMAIN p : p[i].key = q[i].key
    PROVE  find(p, k) = find(q, k)
<1> DEFINE m == find(p, k)
           n == find(q, k)
<1>1. /\ m \in Nat /\ (m = 0 <=> \A i \in DOMAIN p : p[i].key # k)
      /\ m # 0 => m \in DOMAIN p /\ p[m].key = k /\ \A j \in 1..m - 1 : p[j].key # k
  BY FindFirst
<1>2. /\ n \in Nat /\ (n = 0 <=> \A i \in DOMAIN q : q[i].key # k)
      /\ n # 0 => n \in DOMAIN q /\ q[n].key = k /\ \A j \in 1..n - 1 : q[j].key # k
  BY FindFirst
<1>3. DOMAIN p = 1..Len(p) /\ DOMAIN q = 1..Len(q)
  OBVIOUS
<1> HIDE DEF m, n
<1>4. m = 0 <=> n = 0
  BY <1>1, <1>2
<1>5. m # 0 => ~(m < n) /\ ~(n < m)
  BY <1>1, <1>2, <1>3, <1>4
<1> QED
  BY <1>1, <1>2, <1>4, <1>5 DEF m, n

\* A table keeps its shapes: their counts, names and slots.
KeepsTable(ss, tt) ==
    /\ Len(ss) <= Len(tt)
    /\ \A s \in DOMAIN ss :
          /\ tt[s].num_own = ss[s].num_own /\ DOMAIN tt[s].props = DOMAIN ss[s].props
          /\ \A i \in DOMAIN ss[s].props :
                tt[s].props[i].slot = ss[s].props[i].slot /\ tt[s].props[i].key = ss[s].props[i].key

\* What a transition adds does not depend on the rest of the table.
LEMMA EdgeAddsSame ==
    ASSUME NEW p \in Shapes, NEW c \in Shapes, NEW q \in Shapes, NEW d \in Shapes, NEW k, NEW attrs,
           EdgeAdds(p, k, attrs, c),
           q.num_own = p.num_own, DOMAIN q.props = DOMAIN p.props,
           \A i \in DOMAIN p.props : q.props[i].slot = p.props[i].slot /\ q.props[i].key = p.props[i].key,
           d.num_own = c.num_own, DOMAIN d.props = DOMAIN c.props,
           \A i \in DOMAIN c.props : d.props[i].slot = c.props[i].slot /\ d.props[i].key = c.props[i].key
    PROVE  EdgeAdds(q, k, attrs, d)
<1>1. p.props \in Seq(Props) /\ q.props \in Seq(Props) /\ c.props \in Seq(Props) /\ d.props \in Seq(Props)
  BY DEF Shapes
<1>2. find(q.props, k) = find(p.props, k) /\ find(d.props, k) = find(c.props, k)
  BY <1>1, FindByKeys
<1>3. CASE find(p.props, k) = 0
  BY <1>2, <1>3 DEF EdgeAdds, OneSlotMore
<1>4. CASE find(p.props, k) # 0
  <2> DEFINE m == find(p.props, k)
             n == find(c.props, k)
  <2>1. AsMany(p, k, c) /\ (is_accessor(p.props[m]) => attrs = DEFAULT)
    BY <1>4 DEF EdgeAdds
  <2>2. m \in DOMAIN p.props /\ q.props[m].slot = p.props[m].slot
    BY <1>1, <1>4, FindFirst
  <2>3. n \in DOMAIN c.props /\ d.props[n].slot = c.props[n].slot
    BY <1>1, <2>1, FindFirst DEF AsMany
  <2>4. is_accessor(q.props[m]) <=> is_accessor(p.props[m])
    BY <2>2 DEF is_accessor
  <2>5. AsMany(q, k, d)
    BY <1>2, <2>1, <2>2, <2>3, <2>4 DEF AsMany
  <2> QED
    BY <1>2, <1>4, <2>1, <2>4, <2>5 DEF EdgeAdds
<1> QED
  BY <1>3, <1>4

\* A new shape under a parent: the rest of the table stays, and its edge leads to it.
LEMMA ChildTable ==
    ASSUME NEW ss, TableOK(ss), NEW parent \in DOMAIN ss, NEW k \in Keys, NEW attrs \in AttrSets,
           NEW props \in Seq(Props), NEW num_own \in Nat,
           LET c == [props |-> props, num_own |-> num_own, edges |-> <<>>]
           IN  SlotsCounted(c) /\ EdgeAdds(ss[parent], k, attrs, c)
    PROVE  LET made == child(ss, parent, k, attrs, props, num_own)
           IN  /\ TableOK(made.shapes) /\ KeepsTable(ss, made.shapes)
               /\ made.shape \in DOMAIN made.shapes
               /\ made.shapes[made.shape].props = props
               /\ made.shapes[made.shape].num_own = num_own
<1> DEFINE c == [props |-> props, num_own |-> num_own, edges |-> <<>>]
           n == Len(ss) + 1
           here == <<k, attrs>>
           E == [e \in DOMAIN ss[parent].edges \cup {here} |->
                    IF e = here THEN n ELSE ss[parent].edges[e]]
           p == [ss[parent] EXCEPT !.edges = E]
           tt == Append([ss EXCEPT ![parent] = p], c)
<1>1. ss \in Seq(Shapes) /\ DOMAIN ss = 1..Len(ss) /\ Len(ss) \in Nat
  BY DEF TableOK
<1>2. ss[parent] \in Shapes /\ ss[parent].edges \in EdgeMaps
  <2>1. ss[parent] \in Shapes
    BY <1>1
  <2> QED
    BY <2>1 DEF Shapes
<1>3. E \in EdgeMaps
  <2>1. PICK D \in SUBSET (Keys \X AttrSets) : ss[parent].edges \in [D -> Nat]
    BY <1>2 DEF EdgeMaps
  <2>2. E \in [D \cup {here} -> Nat]
    BY <1>1, <2>1
  <2>3. D \cup {here} \in SUBSET (Keys \X AttrSets)
    OBVIOUS
  <2> QED
    BY <2>2, <2>3 DEF EdgeMaps
<1>4. <<>> \in EdgeMaps
  <2>1. <<>> \in [{} -> Nat]
    OBVIOUS
  <2> QED
    BY <2>1 DEF EdgeMaps
<1>5. c \in Shapes
  BY <1>4 DEF Shapes
<1>6. /\ p \in Shapes /\ p.props = ss[parent].props /\ p.num_own = ss[parent].num_own
      /\ p.edges = E
  <2> HIDE DEF E
  <2> QED
    BY <1>2, <1>3 DEF Shapes
<1>7. child(ss, parent, k, attrs, props, num_own) = [shapes |-> tt, shape |-> n]
  BY DEF child
<1> HIDE DEF p
<1>8. /\ tt \in Seq(Shapes) /\ Len(tt) = n /\ DOMAIN tt = 1..n /\ tt[n] = c
      /\ \A s \in DOMAIN ss : tt[s] = IF s = parent THEN p ELSE ss[s]
  <2> DEFINE uu == [ss EXCEPT ![parent] = p]
  <2>1. /\ uu \in Seq(Shapes) /\ Len(uu) = Len(ss) /\ DOMAIN uu = DOMAIN ss
        /\ \A s \in DOMAIN ss : uu[s] = IF s = parent THEN p ELSE ss[s]
    BY <1>1, <1>6
  <2> HIDE DEF uu, c
  <2>2. tt = Append(uu, c)
    BY DEF uu
  <2> QED
    BY <1>1, <1>5, <2>1, <2>2
<1> HIDE DEF tt
<1>9. KeepsTable(ss, tt)
  BY <1>1, <1>6, <1>8 DEF KeepsTable
<1>10. \A s \in DOMAIN ss, k2 \in Keys, a2 \in AttrSets :
          edge(tt, s, k2, a2) =
             IF s = parent /\ k2 = k /\ a2 = attrs THEN n ELSE edge(ss, s, k2, a2)
  <2> TAKE s \in DOMAIN ss, k2 \in Keys, a2 \in AttrSets
  <2>1. CASE s = parent
    <3>1. tt[s].edges = E /\ (<<k2, a2>> = here <=> k2 = k /\ a2 = attrs)
      BY <1>6, <1>8, <2>1
    <3> QED
      BY <2>1, <3>1 DEF edge
  <2>2. CASE s # parent
    BY <1>8, <2>2 DEF edge
  <2> QED
    BY <2>1, <2>2
<1>11. \A k2, a2 : edge(tt, n, k2, a2) = 0
  BY <1>8 DEF edge
<1>12. \A s \in DOMAIN tt : s \in DOMAIN ss \/ s = n
  BY <1>1, <1>8
<1>13. TableOK(tt)
  <2>1. \A s \in DOMAIN tt : SlotsCounted(tt[s])
    <3>1. SlotsCounted(p)
      BY <1>6 DEF TableOK, SlotsCounted
    <3> QED
      BY <1>8, <1>12, <3>1 DEF TableOK
  <2>2. \A s \in DOMAIN tt : \A e \in DOMAIN tt[s].edges : tt[s].edges[e] # 0
    <3>1. \A e \in DOMAIN E : E[e] # 0
      BY <1>1 DEF TableOK
    <3>2. DOMAIN c.edges = {}
      OBVIOUS
    <3>3. \A s \in DOMAIN ss : tt[s].edges = IF s = parent THEN E ELSE ss[s].edges
      BY <1>6, <1>8
    <3>4. tt[n].edges = c.edges
      BY <1>8
    <3> HIDE DEF E, c, n
    <3> QED
      BY <1>12, <3>1, <3>2, <3>3, <3>4 DEF TableOK
  <2> SUFFICES ASSUME NEW s \in DOMAIN tt, NEW k2 \in Keys, NEW a2 \in AttrSets,
                      edge(tt, s, k2, a2) # 0
               PROVE  /\ edge(tt, s, k2, a2) \in s + 1..Len(tt)
                      /\ EdgeAdds(tt[s], k2, a2, tt[edge(tt, s, k2, a2)])
    BY <1>8, <2>1, <2>2 DEF TableOK
  <2>3. s \in DOMAIN ss
    BY <1>11, <1>12
  <2>4. tt[s] \in Shapes /\ ss[s] \in Shapes
    BY <1>1, <1>8, <2>3
  <2>5. CASE s = parent /\ k2 = k /\ a2 = attrs
    <3>1. edge(tt, s, k2, a2) = n
      BY <1>10, <2>3, <2>5
    <3>2. EdgeAdds(tt[s], k, attrs, c)
      BY <1>2, <1>5, <1>9, <2>3, <2>4, <2>5, EdgeAddsSame DEF KeepsTable
    <3> QED
      BY <1>1, <1>8, <2>3, <2>5, <3>1, <3>2
  <2>6. CASE ~(s = parent /\ k2 = k /\ a2 = attrs)
    <3> DEFINE t == edge(ss, s, k2, a2)
    <3>1. edge(tt, s, k2, a2) = t
      BY <1>10, <2>3, <2>6
    <3>2. t \in s + 1..Len(ss) /\ EdgeAdds(ss[s], k2, a2, ss[t])
      BY <2>3, <3>1 DEF TableOK
    <3>3. t \in DOMAIN ss /\ t \in s + 1..Len(tt)
      BY <1>1, <1>8, <2>3, <3>2
    <3>4. tt[t] \in Shapes /\ ss[t] \in Shapes
      BY <1>1, <1>8, <3>3
    <3> HIDE DEF t
    <3>5. EdgeAdds(tt[s], k2, a2, tt[t])
      BY <1>9, <2>3, <2>4, <3>2, <3>3, <3>4, EdgeAddsSame DEF KeepsTable
    <3> QED
      BY <3>1, <3>3, <3>5
  <2> QED
    BY <2>5, <2>6
<1> QED
  BY <1>7, <1>8, <1>9, <1>13

\* Halves that meet in a shape: its names, slots and edges stay.
LEMMA MergeTable ==
    ASSUME NEW ss, TableOK(ss), NEW s \in DOMAIN ss, NEW k \in Keys, HasAccessor(ss, s, k),
           NEW g \in GettersSetters, NEW t \in GettersSetters, NEW attrs \in AttrSets, attrs # DEFAULT
    PROVE  LET made == merge(ss, s, k, g, t, attrs)
           IN  TableOK(made.shapes) /\ KeepsTable(ss, made.shapes) /\ made.shape = s
<1> DEFINE i == find(ss[s].props, k)
           d == ss[s].props[i]
           a == Accessor(k, Or(g, d.get), Or(t, d.set),
                         IF Or(g, d.get) = d.get /\ Or(t, d.set) = d.set THEN d.attrs ELSE attrs)
           p == [ss[s] EXCEPT !.props[i] = a]
           tt == [ss EXCEPT ![s] = p]
<1>1. ss \in Seq(Shapes) /\ DOMAIN ss = 1..Len(ss) /\ Len(ss) \in Nat
  BY DEF TableOK
<1>2. ss[s] \in Shapes
  BY <1>1
<1>3. ss[s].props \in Seq(Props)
  BY <1>2 DEF Shapes
<1>4. i \in DOMAIN ss[s].props /\ d.key = k /\ is_accessor(d)
  BY <1>3, FindFirst DEF HasAccessor
<1>5. d \in Props
  BY <1>3, <1>4
<1>6. d.attrs # DEFAULT
  BY <1>4 DEF TableOK, SlotsCounted
<1>7. a \in Props /\ a.key = d.key /\ a.slot = d.slot /\ a.attrs # DEFAULT
  <2>1. /\ d.get \in GettersSetters /\ d.set \in GettersSetters /\ d.attrs \in AttrSets
        /\ d.slot = NoSlot
    BY <1>4, <1>5 DEF Props, is_accessor
  <2>2. Or(g, d.get) \in GettersSetters /\ Or(t, d.set) \in GettersSetters
    BY <2>1 DEF Or
  <2> QED
    BY <1>4, <1>6, <2>1, <2>2 DEF Accessor, Props
<1>8. merge(ss, s, k, g, t, attrs) = [shapes |-> tt, shape |-> s]
  BY DEF merge
<1> HIDE DEF a
<1>9. /\ p \in Shapes /\ p.num_own = ss[s].num_own /\ p.edges = ss[s].edges
      /\ DOMAIN p.props = DOMAIN ss[s].props
      /\ \A j \in DOMAIN p.props : p.props[j] = IF j = i THEN a ELSE ss[s].props[j]
  <2>1. p = [ss[s] EXCEPT !.props = [ss[s].props EXCEPT ![i] = a]]
    BY <1>2
  <2> DEFINE props == [ss[s].props EXCEPT ![i] = a]
  <2>2. /\ props \in Seq(Props) /\ DOMAIN props = DOMAIN ss[s].props
        /\ \A j \in DOMAIN props : props[j] = IF j = i THEN a ELSE ss[s].props[j]
    BY <1>3, <1>4, <1>7
  <2> HIDE DEF props
  <2>3. p = [ss[s] EXCEPT !.props = props]
    BY <2>1 DEF props
  <2> HIDE DEF p, i
  <2> QED
    BY <1>2, <2>2, <2>3 DEF Shapes
<1> HIDE DEF p
<1>10. /\ tt \in Seq(Shapes) /\ Len(tt) = Len(ss) /\ DOMAIN tt = DOMAIN ss
       /\ \A u \in DOMAIN ss : tt[u] = IF u = s THEN p ELSE ss[u]
  BY <1>1, <1>9
<1> HIDE DEF tt
<1>11. \A j \in DOMAIN ss[s].props : p.props[j].slot = ss[s].props[j].slot /\ p.props[j].key = ss[s].props[j].key
  BY <1>7, <1>9
<1>12. KeepsTable(ss, tt)
  BY <1>1, <1>9, <1>10, <1>11 DEF KeepsTable
<1>13. \A u \in DOMAIN ss : tt[u].edges = ss[u].edges
  BY <1>9, <1>10
<1>14. \A u \in DOMAIN ss : \A k2, a2 : edge(tt, u, k2, a2) = edge(ss, u, k2, a2)
  BY <1>13 DEF edge
<1>15. TableOK(tt)
  <2>1. \A u \in DOMAIN tt : SlotsCounted(tt[u])
    <3>1. SlotsCounted(ss[s])
      BY DEF TableOK
    <3>2. \A j \in DOMAIN p.props : p.props[j].slot <= p.num_own
      BY <1>9, <1>11, <3>1 DEF SlotsCounted
    <3>3. \A j \in DOMAIN p.props : p.props[j].attrs = DEFAULT => ~is_accessor(p.props[j])
      BY <1>7, <1>9, <3>1 DEF SlotsCounted
    <3>4. SlotsCounted(p)
      BY <3>2, <3>3 DEF SlotsCounted
    <3> QED
      BY <1>10, <3>4 DEF TableOK
  <2>2. \A u \in DOMAIN tt : \A e \in DOMAIN tt[u].edges : tt[u].edges[e] # 0
    BY <1>10, <1>13 DEF TableOK
  <2> SUFFICES ASSUME NEW u \in DOMAIN tt, NEW k2 \in Keys, NEW a2 \in AttrSets,
                      edge(tt, u, k2, a2) # 0
               PROVE  /\ edge(tt, u, k2, a2) \in u + 1..Len(tt)
                      /\ EdgeAdds(tt[u], k2, a2, tt[edge(tt, u, k2, a2)])
    BY <1>10, <2>1, <2>2 DEF TableOK
  <2> DEFINE v == edge(ss, u, k2, a2)
  <2>3. edge(tt, u, k2, a2) = v
    BY <1>10, <1>14
  <2>4. u \in DOMAIN ss /\ v \in u + 1..Len(ss) /\ EdgeAdds(ss[u], k2, a2, ss[v])
    BY <1>10, <2>3 DEF TableOK
  <2>5. v \in DOMAIN ss
    BY <1>1, <2>4
  <2>6. tt[v] \in Shapes /\ ss[v] \in Shapes /\ tt[u] \in Shapes /\ ss[u] \in Shapes
    BY <1>1, <1>10, <2>4, <2>5
  <2> HIDE DEF v
  <2>7. EdgeAdds(tt[u], k2, a2, tt[v])
    BY <1>12, <2>4, <2>5, <2>6, EdgeAddsSame DEF KeepsTable
  <2> QED
    BY <1>10, <2>3, <2>4, <2>7
<1> QED
  BY <1>8, <1>12, <1>15

\* An edge that is there leads to a shape of the same table.
LEMMA EdgeTable ==
    ASSUME NEW ss, TableOK(ss), NEW parent \in DOMAIN ss, NEW k \in Keys, NEW attrs \in AttrSets,
           edge(ss, parent, k, attrs) # 0
    PROVE  /\ edge(ss, parent, k, attrs) \in DOMAIN ss /\ KeepsTable(ss, ss)
           /\ EdgeAdds(ss[parent], k, attrs, ss[edge(ss, parent, k, attrs)])
<1>1. DOMAIN ss = 1..Len(ss) /\ Len(ss) \in Nat
  BY DEF TableOK
<1>2. KeepsTable(ss, ss)
  BY <1>1 DEF KeepsTable
<1> QED
  BY <1>1, <1>2 DEF TableOK

\* A shape of the table: its parts.
LEMMA ShapeParts ==
    ASSUME NEW ss, TableOK(ss), NEW s \in DOMAIN ss
    PROVE  /\ ss[s] \in Shapes /\ ss[s].props \in Seq(Props) /\ ss[s].num_own \in Nat
           /\ SlotsCounted(ss[s])
           /\ \A i \in DOMAIN ss[s].props : ss[s].props[i] \in Props
<1>1. ss[s] \in Shapes
  BY DEF TableOK
<1>2. ss[s].props \in Seq(Props) /\ ss[s].num_own \in Nat
  BY <1>1 DEF Shapes
<1> QED
  BY <1>1, <1>2 DEF TableOK

\* add_property: one more property, wherever the edge leads.
LEMMA AddTable ==
    ASSUME NEW ss, TableOK(ss), NEW parent \in DOMAIN ss, NEW k \in Keys, NEW attrs \in AttrSets,
           find(ss[parent].props, k) = 0
    PROVE  LET made == add_property(ss, parent, k, attrs)
           IN  /\ TableOK(made.shapes) /\ KeepsTable(ss, made.shapes)
               /\ made.shape \in DOMAIN made.shapes
               /\ OneSlotMore(ss[parent], made.shapes[made.shape])
<1> DEFINE e == edge(ss, parent, k, attrs)
           n == ss[parent].num_own
           d == Data(k, n, attrs)
           props == Append(ss[parent].props, d)
<1>1. CASE e # 0
  <2>1. add_property(ss, parent, k, attrs) = [shapes |-> ss, shape |-> e]
    BY <1>1 DEF add_property
  <2>2. e \in DOMAIN ss /\ KeepsTable(ss, ss) /\ OneSlotMore(ss[parent], ss[e])
    BY <1>1, EdgeTable DEF EdgeAdds
  <2> QED
    BY <2>1, <2>2
<1>2. CASE e = 0
  <2>1. add_property(ss, parent, k, attrs) = child(ss, parent, k, attrs, props, n + 1)
    BY <1>2 DEF add_property
  <2>2. /\ ss[parent].props \in Seq(Props) /\ n \in Nat /\ SlotsCounted(ss[parent])
        /\ \A i \in DOMAIN ss[parent].props : ss[parent].props[i] \in Props
    BY ShapeParts
  <2>3. d \in Props /\ d.slot = n /\ ~is_accessor(d)
    BY <2>2 DEF Data, Props, GettersSetters, is_accessor, NoSlot
  <2> HIDE DEF d
  <2>4. /\ props \in Seq(Props)
        /\ \A i \in DOMAIN props : props[i] = d \/ \E j \in DOMAIN ss[parent].props :
                                                     props[i] = ss[parent].props[j]
    BY <2>2, <2>3
  <2> HIDE DEF n, props
  <2>5. \A i \in DOMAIN props : props[i].slot <= n /\ (is_accessor(props[i]) => props[i].attrs # DEFAULT)
    BY <2>2, <2>3, <2>4 DEF SlotsCounted, n
  <2>6. \A i \in DOMAIN props : props[i].slot \in Nat \cup {NoSlot}
    <3>1. \A i \in DOMAIN props : props[i] \in Props
      BY <2>4
    <3> QED
      BY <3>1 DEF Props
  <2> DEFINE c == [props |-> props, num_own |-> n + 1, edges |-> <<>>]
  <2>7. SlotsCounted(c)
    BY <2>2, <2>5, <2>6 DEF SlotsCounted, NoSlot
  <2>8. EdgeAdds(ss[parent], k, attrs, c)
    BY <2>5 DEF EdgeAdds, OneSlotMore, n
  <2>9. LET made == child(ss, parent, k, attrs, props, n + 1)
        IN  /\ TableOK(made.shapes) /\ KeepsTable(ss, made.shapes)
            /\ made.shape \in DOMAIN made.shapes
            /\ made.shapes[made.shape].props = props /\ made.shapes[made.shape].num_own = n + 1
    <3>1. n + 1 \in Nat
      BY <2>2
    <3> HIDE DEF c
    <3> QED
      BY <2>4, <2>7, <2>8, <3>1, ChildTable DEF c
  <2> QED
    BY <2>1, <2>5, <2>9 DEF OneSlotMore, n
<1> QED
  BY <1>1, <1>2

\* update_data_attrs: as many properties, and a slot for what was an accessor.
LEMMA UpdateTable ==
    ASSUME NEW ss, TableOK(ss), NEW parent \in DOMAIN ss, NEW k \in Keys, NEW attrs \in AttrSets,
           find(ss[parent].props, k) # 0,
           is_accessor(ss[parent].props[find(ss[parent].props, k)]) => attrs = DEFAULT
    PROVE  LET made == update_data_attrs(ss, parent, k, attrs)
           IN  /\ TableOK(made.shapes) /\ KeepsTable(ss, made.shapes)
               /\ made.shape \in DOMAIN made.shapes
               /\ AsMany(ss[parent], k, made.shapes[made.shape])
<1> DEFINE e == edge(ss, parent, k, attrs)
           p == ss[parent]
           i == find(p.props, k)
           slot == IF ~is_accessor(p.props[i]) THEN p.props[i].slot ELSE p.num_own
           d == Data(k, slot, attrs)
           props == [p.props EXCEPT ![i] = d]
<1>1. CASE e # 0
  <2>1. update_data_attrs(ss, parent, k, attrs) = [shapes |-> ss, shape |-> e]
    BY <1>1 DEF update_data_attrs
  <2>2. e \in DOMAIN ss /\ KeepsTable(ss, ss) /\ AsMany(p, k, ss[e])
    BY <1>1, EdgeTable DEF EdgeAdds
  <2> QED
    BY <2>1, <2>2
<1>2. CASE e = 0
  <2>1. /\ p.props \in Seq(Props) /\ p.num_own \in Nat /\ SlotsCounted(p)
        /\ \A j \in DOMAIN p.props : p.props[j] \in Props
    BY ShapeParts
  <2>2. i \in DOMAIN p.props /\ p.props[i].key = k
    BY <2>1, FindFirst
  <2>3. update_data_attrs(ss, parent, k, attrs) = child(ss, parent, k, attrs, props, p.num_own)
    BY <1>2 DEF update_data_attrs
  <2>4. slot \in Nat /\ slot <= p.num_own
    <3>1. p.props[i] \in Props /\ p.props[i].slot <= p.num_own
      BY <2>1, <2>2 DEF SlotsCounted
    <3> QED
      BY <2>1, <3>1 DEF Props, is_accessor
  <2>5. d \in Props /\ d.slot = slot /\ d.key = k /\ ~is_accessor(d)
    BY <2>4 DEF Data, Props, GettersSetters, is_accessor, NoSlot
  <2>6. ~is_accessor(p.props[i]) => slot = p.props[i].slot
    OBVIOUS
  <2> HIDE DEF d, slot
  <2>7. /\ props \in Seq(Props) /\ DOMAIN props = DOMAIN p.props
        /\ \A j \in DOMAIN props : props[j] = IF j = i THEN d ELSE p.props[j]
    BY <2>1, <2>2, <2>5
  <2> HIDE DEF props, i
  <2>8. find(props, k) = i
    <3>1. \A j \in DOMAIN props : props[j].key = p.props[j].key
      BY <2>2, <2>5, <2>7
    <3> QED
      BY <2>1, <2>7, <3>1, FindByKeys DEF i
  <2> DEFINE c == [props |-> props, num_own |-> p.num_own, edges |-> <<>>]
  <2>9. SlotsCounted(c)
    BY <2>1, <2>4, <2>5, <2>7 DEF SlotsCounted
  <2>10. AsMany(p, k, c)
    <3>1. c.num_own = p.num_own /\ c.props = props
      OBVIOUS
    <3> HIDE DEF c, p
    <3>2. i # 0 /\ props[i].slot = slot
      BY <2>2, <2>5, <2>7 DEF i, p
    <3>3. \A j \in DOMAIN props : props[j].slot <= slot \/ \E l \in DOMAIN p.props : props[j].slot = p.props[l].slot
      <4> TAKE j \in DOMAIN props
      <4>1. CASE j = i
        BY <2>4, <3>2, <4>1
      <4>2. CASE j # i
        BY <2>7, <4>2
      <4> QED
        BY <4>1, <4>2
    <3> QED
      BY <2>4, <2>6, <2>8, <3>1, <3>2, <3>3 DEF AsMany, i
  <2>11. EdgeAdds(p, k, attrs, c)
    BY <2>10 DEF EdgeAdds
  <2>12. LET made == child(ss, parent, k, attrs, props, p.num_own)
        IN  /\ TableOK(made.shapes) /\ KeepsTable(ss, made.shapes)
            /\ made.shape \in DOMAIN made.shapes
            /\ made.shapes[made.shape].props = props
            /\ made.shapes[made.shape].num_own = p.num_own
    <3> HIDE DEF c
    <3> QED
      BY <2>1, <2>7, <2>9, <2>11, ChildTable DEF c
  <2> QED
    BY <2>3, <2>10, <2>12 DEF AsMany
<1> QED
  BY <1>1, <1>2

\* define_accessor, where the name is free or an accessor's: a shape with one more
\* property, or the object's own.
LEMMA DefineTable ==
    ASSUME NEW ss, TableOK(ss), NEW parent \in DOMAIN ss, NEW k \in Keys, NEW attrs \in AttrSets,
           NEW g \in GettersSetters, NEW t \in GettersSetters, attrs # DEFAULT,
           \/ find(ss[parent].props, k) = 0
           \/ is_accessor(ss[parent].props[find(ss[parent].props, k)])
    PROVE  LET made == define_accessor(ss, parent, k, g, t, attrs)
           IN  /\ TableOK(made.shapes) /\ KeepsTable(ss, made.shapes)
               /\ made.shape \in DOMAIN made.shapes
               /\ IF find(ss[parent].props, k) = 0
                  THEN OneSlotMore(ss[parent], made.shapes[made.shape])
                  ELSE made.shape = parent
<1> DEFINE e == edge(ss, parent, k, attrs)
           n == ss[parent].num_own
           d == Accessor(k, g, t, attrs)
           props == Append(ss[parent].props, d)
<1>1. e # 0 => e \in DOMAIN ss /\ find(ss[parent].props, k) = 0 /\ OneSlotMore(ss[parent], ss[e])
  BY EdgeTable DEF EdgeAdds
<1>2. CASE e # 0 /\ HasAccessor(ss, e, k)
  <2> DEFINE made == merge(ss, e, k, g, t, attrs)
  <2>1. define_accessor(ss, parent, k, g, t, attrs) = made
    BY <1>2 DEF define_accessor
  <2>2. TableOK(made.shapes) /\ KeepsTable(ss, made.shapes) /\ made.shape = e
    BY <1>1, <1>2, MergeTable
  <2> HIDE DEF made
  <2>3. e \in DOMAIN made.shapes
    BY <1>1, <1>2, <2>2 DEF KeepsTable, TableOK
  <2>4. OneSlotMore(ss[parent], made.shapes[e])
    BY <1>1, <1>2, <2>2 DEF KeepsTable, OneSlotMore
  <2> QED
    BY <1>1, <1>2, <2>1, <2>2, <2>3, <2>4
<1>3. CASE e = 0 /\ HasAccessor(ss, parent, k)
  <2> DEFINE made == merge(ss, parent, k, g, t, attrs)
  <2>1. define_accessor(ss, parent, k, g, t, attrs) = made
    BY <1>3 DEF define_accessor
  <2>2. TableOK(made.shapes) /\ KeepsTable(ss, made.shapes) /\ made.shape = parent
    BY <1>3, MergeTable
  <2> HIDE DEF made
  <2>3. parent \in DOMAIN made.shapes
    BY <2>2 DEF KeepsTable, TableOK
  <2> QED
    BY <1>3, <2>1, <2>2, <2>3 DEF HasAccessor
<1>4. CASE ~(e # 0 /\ HasAccessor(ss, e, k)) /\ ~(e = 0 /\ HasAccessor(ss, parent, k))
  <2>1. define_accessor(ss, parent, k, g, t, attrs) = child(ss, parent, k, attrs, props, n + 1)
    BY <1>4 DEF define_accessor
  <2>2. find(ss[parent].props, k) = 0
    BY <1>1, <1>4 DEF HasAccessor
  <2>3. /\ ss[parent].props \in Seq(Props) /\ n \in Nat /\ SlotsCounted(ss[parent])
        /\ \A i \in DOMAIN ss[parent].props : ss[parent].props[i] \in Props
    BY ShapeParts
  <2>4. d \in Props /\ d.slot = NoSlot /\ d.attrs = attrs
    BY DEF Accessor, Props
  <2> HIDE DEF d
  <2>5. /\ props \in Seq(Props)
        /\ \A i \in DOMAIN props : props[i] = d \/ \E j \in DOMAIN ss[parent].props :
                                                     props[i] = ss[parent].props[j]
    BY <2>3, <2>4
  <2> HIDE DEF n, props
  <2>6. \A i \in DOMAIN props : props[i].slot <= n /\ (is_accessor(props[i]) => props[i].attrs # DEFAULT)
    BY <2>3, <2>4, <2>5 DEF SlotsCounted, n, NoSlot
  <2>7. \A i \in DOMAIN props : props[i].slot \in Nat \cup {NoSlot}
    <3>1. \A i \in DOMAIN props : props[i] \in Props
      BY <2>5
    <3> QED
      BY <3>1 DEF Props
  <2> DEFINE c == [props |-> props, num_own |-> n + 1, edges |-> <<>>]
  <2>8. SlotsCounted(c)
    BY <2>3, <2>6, <2>7 DEF SlotsCounted, NoSlot
  <2>9. EdgeAdds(ss[parent], k, attrs, c)
    BY <2>2, <2>6 DEF EdgeAdds, OneSlotMore, n
  <2>10. LET made == child(ss, parent, k, attrs, props, n + 1)
        IN  /\ TableOK(made.shapes) /\ KeepsTable(ss, made.shapes)
            /\ made.shape \in DOMAIN made.shapes
            /\ made.shapes[made.shape].props = props /\ made.shapes[made.shape].num_own = n + 1
    <3>1. n + 1 \in Nat
      BY <2>3
    <3> HIDE DEF c
    <3> QED
      BY <2>5, <2>8, <2>9, <3>1, ChildTable DEF c
  <2> QED
    BY <2>1, <2>2, <2>6, <2>10 DEF OneSlotMore, n
<1> QED
  BY <1>2, <1>3, <1>4

Values == {Stored, NoValue}

\* An object by itself: its dictionary names values it has.
Good(o) ==
    /\ o \in Holders
    /\ o.spilled \/ DOMAIN o.dict = {}
    /\ \A k \in DOMAIN o.dict : o.dict[k].slot < Len(o.values)

\* An operation takes no value away.
Better(o, p) == Good(p) /\ Len(o.values) <= Len(p.values)

\* put and resized make room, and take none away.
LEMMA RoomFor ==
    ASSUME NEW values \in Seq(Values), NEW slot \in Nat, NEW v \in Values
    PROVE  /\ resized(values, slot) \in Seq(Values)
           /\ Len(resized(values, slot)) >= Len(values) /\ Len(resized(values, slot)) >= slot
           /\ put(values, slot, v) \in Seq(Values)
           /\ Len(put(values, slot, v)) >= Len(values) /\ Len(put(values, slot, v)) > slot
<1>1. Len(values) \in Nat /\ DOMAIN values = 1..Len(values)
  OBVIOUS
<1>2. \A n \in Nat : /\ resized(values, n) \in Seq(Values)
                     /\ Len(resized(values, n)) = IF Len(values) < n THEN n ELSE Len(values)
  <2> TAKE n \in Nat
  <2> DEFINE m == IF Len(values) < n THEN n ELSE Len(values)
             w == [i \in 1..m |-> IF i \in DOMAIN values THEN values[i] ELSE NoValue]
  <2>1. m \in Nat
    BY <1>1
  <2>2. \A i \in 1..m : (IF i \in DOMAIN values THEN values[i] ELSE NoValue) \in Values
    BY DEF Values
  <2> HIDE DEF m
  <2>3. w \in Seq(Values) /\ Len(w) = m
    BY <2>1, <2>2
  <2> QED
    BY <2>3 DEF resized, m
<1>3. \A n \in Nat : Len(resized(values, n)) >= Len(values) /\ Len(resized(values, n)) >= n
  <2> TAKE n \in Nat
  <2>1. Len(resized(values, n)) = IF Len(values) < n THEN n ELSE Len(values)
    BY <1>2
  <2> QED
    BY <1>1, <2>1
<1>4. put(values, slot, v) \in Seq(Values) /\ Len(put(values, slot, v)) = Len(resized(values, slot + 1))
  <2> DEFINE w == resized(values, slot + 1)
  <2>1. slot + 1 \in Nat
    OBVIOUS
  <2>2. w \in Seq(Values) /\ Len(w) >= slot + 1
    BY <1>2, <1>3, <2>1
  <2>3. slot + 1 \in DOMAIN w
    <3> HIDE DEF w
    <3>1. DOMAIN w = 1..Len(w) /\ Len(w) \in Nat
      BY <2>2
    <3> QED
      BY <2>2, <3>1
  <2> HIDE DEF w
  <2>4. [w EXCEPT ![slot + 1] = v] \in Seq(Values) /\ Len([w EXCEPT ![slot + 1] = v]) = Len(w)
    BY <2>2, <2>3
  <2> QED
    BY <2>4 DEF put, w
<1>5. Len(put(values, slot, v)) >= slot + 1
  BY <1>3, <1>4
<1>6. Len(put(values, slot, v)) \in Nat
  BY <1>4
<1> QED
  BY <1>1, <1>2, <1>3, <1>4, <1>5, <1>6

\* The parts of an object.
LEMMA HolderParts ==
    ASSUME NEW o \in Holders
    PROVE  /\ o.shape \in Nat /\ o.values \in Seq(Values) /\ o.spilled \in BOOLEAN /\ o.dict \in Dicts
           /\ Len(o.values) \in Nat /\ DOMAIN o.dict \subseteq Keys
           /\ \A k \in DOMAIN o.dict : o.dict[k] \in Entries
<1>1. o.shape \in Nat /\ o.values \in Seq(Values) /\ o.spilled \in BOOLEAN /\ o.dict \in Dicts
  BY DEF Holders, Values
<1>2. PICK D \in SUBSET Keys : o.dict \in [D -> Entries]
  BY <1>1 DEF Dicts
<1> QED
  BY <1>1, <1>2

\* A store.
LEMMA StoreBetter ==
    ASSUME NEW o, Good(o), NEW w \in Seq(Values), Len(o.values) <= Len(w)
    PROVE  Better(o, [o EXCEPT !.values = w]) /\ [o EXCEPT !.values = w].values = w
<1> DEFINE p == [o EXCEPT !.values = w]
<1>1. /\ o \in Holders /\ o.dict \in Dicts /\ o.spilled \in BOOLEAN /\ Len(o.values) \in Nat
      /\ \A k \in DOMAIN o.dict : o.dict[k] \in Entries
  BY HolderParts DEF Good
<1>2. p \in Holders /\ p.values = w /\ p.dict = o.dict /\ p.spilled = o.spilled
  <2>1. p \in Holders
    BY <1>1 DEF Holders, Values
  <2>2. p.values = w /\ p.dict = o.dict /\ p.spilled = o.spilled
    BY <1>1 DEF Holders
  <2> QED
    BY <2>1, <2>2
<1>3. \A k \in DOMAIN o.dict : o.dict[k].slot < Len(w)
  <2>1. \A k \in DOMAIN o.dict : o.dict[k].slot \in Nat /\ o.dict[k].slot < Len(o.values)
    BY <1>1 DEF Good, Entries
  <2> QED
    BY <1>1, <2>1
<1>4. o.spilled \/ DOMAIN o.dict = {}
  BY DEF Good
<1> HIDE DEF p
<1>5. Better(o, p)
  BY <1>2, <1>3, <1>4 DEF Better, Good
<1> QED
  BY <1>2, <1>5 DEF p

\* A property that is filed in the dictionary, with a slot of its own.
LEMMA FileBetter ==
    ASSUME NEW o, Good(o), NEW k \in Keys, NEW entry \in Entries, NEW v \in Values,
           entry.slot = Len(o.values)
    PROVE  Better(o, [file(o, k, entry) EXCEPT !.values = Append(@, v)])
<1> DEFINE f == [j \in DOMAIN o.dict \cup {k} |-> IF j = k THEN entry ELSE o.dict[j]]
           w == Append(o.values, v)
           p == [file(o, k, entry) EXCEPT !.values = Append(@, v)]
<1>1. /\ o \in Holders /\ o.values \in Seq(Values) /\ Len(o.values) \in Nat
      /\ DOMAIN o.dict \subseteq Keys
      /\ \A j \in DOMAIN o.dict : o.dict[j] \in Entries
  BY HolderParts DEF Good
<1>2. f \in Dicts
  <2>1. f \in [DOMAIN o.dict \cup {k} -> Entries]
    BY <1>1
  <2>2. DOMAIN o.dict \cup {k} \in SUBSET Keys
    BY <1>1
  <2> QED
    BY <2>1, <2>2 DEF Dicts
<1>3. w \in Seq(Values) /\ Len(w) = Len(o.values) + 1
  BY <1>1
<1>4. \A j \in DOMAIN f : f[j].slot < Len(w)
  <2>1. \A j \in DOMAIN o.dict : o.dict[j].slot \in Nat /\ o.dict[j].slot < Len(o.values)
    BY <1>1 DEF Good, Entries
  <2> QED
    BY <1>1, <1>3, <2>1
<1>5. p \in Holders /\ p.values = w /\ p.dict = f /\ p.spilled = TRUE
  <2> DEFINE q == [o EXCEPT !.dict = f, !.spilled = TRUE]
  <2>1. file(o, k, entry) = q
    BY DEF file
  <2> HIDE DEF f, w
  <2>2. q \in Holders /\ q.values = o.values /\ q.dict = f /\ q.spilled = TRUE
    <3>1. q \in Holders
      BY <1>1, <1>2 DEF Holders, Values
    <3>2. q.values = o.values /\ q.dict = f /\ q.spilled = TRUE
      BY <1>1, <1>2 DEF Holders
    <3> QED
      BY <3>1, <3>2
  <2>3. p = [q EXCEPT !.values = w]
    BY <2>1, <2>2 DEF w
  <2> HIDE DEF q
  <2> DEFINE r == [q EXCEPT !.values = w]
  <2>4. r \in Holders
    BY <1>3, <2>2 DEF Holders, Values
  <2>5. r.values = w /\ r.dict = f /\ r.spilled = TRUE
    BY <2>2 DEF Holders
  <2> HIDE DEF r, p
  <2> QED
    BY <2>3, <2>4, <2>5 DEF r
<1> HIDE DEF f, w, p
<1>6. Len(o.values) <= Len(w)
  BY <1>1, <1>3
<1>7. Better(o, p)
  BY <1>4, <1>5, <1>6 DEF Better, Good
<1> QED
  BY <1>7 DEF p

\* dict_insert and convert_key_to_accessor file a property so.
LEMMA DictBetter ==
    ASSUME NEW o, Good(o), NEW k \in Keys, NEW attrs \in AttrSets,
           NEW g \in GettersSetters, NEW s \in GettersSetters
    PROVE  /\ Better(o, dict_insert(o, k, attrs)) /\ Better(o, convert_key_to_data(o, k, attrs))
           /\ Better(o, convert_key_to_accessor(o, k, g, s, attrs))
<1>1. Len(o.values) \in Nat
  BY HolderParts DEF Good
<1>2. \A x \in GettersSetters, y \in GettersSetters, b \in BOOLEAN :
         LET e == Entry(Len(o.values), x, y, b, attrs)
         IN  e \in Entries /\ e.slot = Len(o.values)
  BY <1>1 DEF Entry, Entries
<1>3. Nobody \in GettersSetters /\ Stored \in Values /\ NoValue \in Values
  BY DEF GettersSetters, Values
<1>4. Better(o, dict_insert(o, k, attrs))
  BY <1>2, <1>3, FileBetter DEF dict_insert
<1>5. Better(o, convert_key_to_accessor(o, k, g, s, attrs))
  BY <1>2, <1>3, FileBetter DEF convert_key_to_accessor
<1> QED
  BY <1>4, <1>5 DEF convert_key_to_data

\* An entry of the dictionary that keeps its slot.
LEMMA EntryBetter ==
    ASSUME NEW o, Good(o), NEW k \in DOMAIN o.dict, NEW entry \in Entries,
           entry.slot = o.dict[k].slot, NEW w \in Seq(Values), Len(o.values) <= Len(w)
    PROVE  Better(o, [o EXCEPT !.values = w, !.dict = [o.dict EXCEPT ![k] = entry]])
<1> DEFINE f == [o.dict EXCEPT ![k] = entry]
<1>1. /\ o \in Holders /\ Len(o.values) \in Nat /\ o.spilled \in BOOLEAN
      /\ o.dict \in Dicts /\ \A j \in DOMAIN o.dict : o.dict[j] \in Entries
  BY HolderParts DEF Good
<1>2. PICK D \in SUBSET Keys : o.dict \in [D -> Entries]
  BY <1>1 DEF Dicts
<1>3. f \in [D -> Entries] /\ f \in Dicts /\ \A j \in D : f[j] = IF j = k THEN entry ELSE o.dict[j]
  <2>1. f \in [D -> Entries]
    BY <1>2
  <2>2. \A j \in D : f[j] = IF j = k THEN entry ELSE o.dict[j]
    BY <1>2
  <2> QED
    BY <2>1, <2>2 DEF Dicts
<1> HIDE DEF f
<1>4. \A j \in D : f[j].slot = o.dict[j].slot
  BY <1>3
<1>5. \A j \in DOMAIN f : f[j].slot < Len(w)
  <2>1. \A j \in D : o.dict[j].slot \in Nat /\ o.dict[j].slot < Len(o.values)
    BY <1>1, <1>2 DEF Good, Entries
  <2> QED
    BY <1>1, <1>3, <1>4, <2>1
<1>6. o.spilled \/ DOMAIN f = {}
  BY <1>2, <1>3 DEF Good
<1> DEFINE p == [o EXCEPT !.values = w, !.dict = f]
<1>7. p \in Holders /\ p.values = w /\ p.dict = f /\ p.spilled = o.spilled
  <2>1. p \in Holders
    BY <1>1, <1>3 DEF Holders, Values
  <2>2. p.values = w /\ p.dict = f /\ p.spilled = o.spilled
    BY <1>1, <1>3 DEF Holders
  <2> QED
    BY <2>1, <2>2
<1> HIDE DEF p
<1>8. Better(o, p)
  BY <1>5, <1>6, <1>7 DEF Better, Good
<1> QED
  BY <1>8 DEF f, p

\* An entry that is deleted leaves its slot.
LEMMA UnfiledBetter ==
    ASSUME NEW o, Good(o), NEW k \in DOMAIN o.dict
    PROVE  Better(o, Unfiled(o, k))
<1> DEFINE f == [j \in DOMAIN o.dict \ {k} |-> o.dict[j]]
           slot == o.dict[k].slot
           w == Empty(o, slot)
<1>1. /\ o \in Holders /\ o.values \in Seq(Values) /\ Len(o.values) \in Nat /\ o.spilled \in BOOLEAN
      /\ DOMAIN o.dict \subseteq Keys /\ \A j \in DOMAIN o.dict : o.dict[j] \in Entries
  BY HolderParts DEF Good
<1>2. f \in Dicts
  <2>1. f \in [DOMAIN o.dict \ {k} -> Entries] /\ DOMAIN o.dict \ {k} \in SUBSET Keys
    BY <1>1
  <2> QED
    BY <2>1 DEF Dicts
<1>3. slot \in Nat /\ NoValue \in Values
  BY <1>1 DEF Entries, Values
<1>4. w \in Seq(Values) /\ Len(o.values) <= Len(w)
  <2> HIDE DEF slot
  <2>1. /\ put(o.values, slot, NoValue) \in Seq(Values)
        /\ Len(put(o.values, slot, NoValue)) >= Len(o.values)
    BY <1>1, <1>3, RoomFor
  <2> QED
    BY <1>1, <2>1 DEF Empty
<1>5. \A j \in DOMAIN f : f[j].slot < Len(w)
  <2>1. \A j \in DOMAIN o.dict : o.dict[j].slot \in Nat /\ o.dict[j].slot < Len(o.values)
    BY <1>1 DEF Good, Entries
  <2>2. Len(w) \in Nat
    BY <1>4
  <2> HIDE DEF w
  <2> QED
    BY <1>1, <1>4, <2>1, <2>2
<1>6. o.spilled \/ DOMAIN f = {}
  BY DEF Good
<1> DEFINE p == [o EXCEPT !.values = w, !.dict = f]
<1>7. Unfiled(o, k) = p
  BY DEF Unfiled
<1> HIDE DEF w, f
<1>8. p \in Holders /\ p.values = w /\ p.dict = f /\ p.spilled = o.spilled
  <2>1. p \in Holders
    BY <1>1, <1>2, <1>4 DEF Holders, Values
  <2>2. p.values = w /\ p.dict = f /\ p.spilled = o.spilled
    BY <1>1, <1>2, <1>4 DEF Holders
  <2> QED
    BY <2>1, <2>2
<1> HIDE DEF p
<1>9. Better(o, p)
  BY <1>4, <1>5, <1>6, <1>8 DEF Better, Good
<1> QED
  BY <1>7, <1>9

\* Better objects fit where they did, and where a transition leads that they made
\* room for.
LEMMA FitsAfter ==
    ASSUME NEW o, NEW p, NEW s \in Shapes, NEW c \in Shapes, Good(o), Fits(o, s), Better(o, p), NEW k
    PROVE  /\ Fits(p, s)
           /\ OneSlotMore(s, c) /\ s.num_own + 1 <= Len(p.values) => Fits(p, c)
           /\ AsMany(s, k, c) /\ c.props[find(c.props, k)].slot < Len(p.values) => Fits(p, c)
<1>1. /\ Len(o.values) \in Nat /\ Len(p.values) \in Nat /\ Len(o.values) <= Len(p.values)
      /\ \A x \in DOMAIN p.dict : p.dict[x].slot < Len(p.values)
  BY HolderParts DEF Better, Good
<1>2. /\ s.num_own \in Nat /\ s.props \in Seq(Props) /\ c.num_own \in Nat /\ c.props \in Seq(Props)
  BY DEF Shapes
<1>3. /\ \A i \in DOMAIN s.props : s.props[i].slot \in Int
      /\ \A i \in DOMAIN c.props : c.props[i].slot \in Int
  <2>1. /\ \A i \in DOMAIN s.props : s.props[i] \in Props
        /\ \A i \in DOMAIN c.props : c.props[i] \in Props
    BY <1>2
  <2> QED
    BY <2>1 DEF Props, NoSlot
<1>4. s.num_own <= Len(p.values) /\ \A i \in DOMAIN s.props : s.props[i].slot < Len(p.values)
  BY <1>1, <1>2, <1>3 DEF Fits
<1>5. ASSUME OneSlotMore(s, c), s.num_own + 1 <= Len(p.values)
      PROVE  Fits(p, c)
  <2>1. \A i \in DOMAIN c.props : c.props[i].slot < Len(p.values)
    BY <1>1, <1>2, <1>3, <1>5 DEF OneSlotMore
  <2> QED
    BY <1>1, <1>5, <2>1 DEF OneSlotMore, Fits
<1>6. ASSUME AsMany(s, k, c), c.props[find(c.props, k)].slot < Len(p.values)
      PROVE  Fits(p, c)
  <2> DEFINE top == c.props[find(c.props, k)].slot
  <2>1. top \in Nat /\ top < Len(p.values)
    BY <1>6 DEF AsMany
  <2>2. \A i \in DOMAIN c.props :
           c.props[i].slot <= top \/ \E j \in DOMAIN s.props : c.props[i].slot = s.props[j].slot
    BY <1>6 DEF AsMany
  <2> HIDE DEF top
  <2>3. \A i \in DOMAIN c.props : c.props[i].slot < Len(p.values)
    BY <1>1, <1>3, <1>4, <2>1, <2>2
  <2> QED
    BY <1>1, <1>4, <1>6, <2>3 DEF AsMany, Fits
<1>7. Fits(p, s)
  BY <1>1, <1>4 DEF Fits
<1> QED
  BY <1>5, <1>6, <1>7

\* What holds of one object of a table in order.
LEMMA ObjectOK ==
    ASSUME SlotsInv, NEW o \in Objects
    PROVE  LET s == objects[o].shape
           IN  /\ Good(objects[o]) /\ s \in DOMAIN shapes /\ Fits(objects[o], shapes[s])
               /\ objects[o].values \in Seq(Values) /\ Len(objects[o].values) \in Nat
               /\ TableOK(shapes) /\ shapes[s] \in Shapes /\ shapes[s].num_own \in Nat
               /\ shapes[s].props \in Seq(Props) /\ KeepsTable(shapes, shapes)
<1>1. objects[o] \in Holders /\ objects[o].shape \in DOMAIN shapes /\ TableOK(shapes)
      /\ Fits(objects[o], shapes[objects[o].shape])
  BY DEF SlotsInv
<1>2. Good(objects[o])
  BY <1>1 DEF SlotsInv, Good, Fits
<1>3. KeepsTable(shapes, shapes)
  BY <1>1 DEF KeepsTable, TableOK
<1> QED
  BY <1>1, <1>2, <1>3, HolderParts, ShapeParts

\* One object changes with a table that keeps the shapes of the others.
LEMMA BecomesKeeps ==
    ASSUME SlotsInv, NEW o \in Objects, NEW made, NEW object, Becomes(o, made, object),
           TableOK(made.shapes), KeepsTable(shapes, made.shapes), made.shape \in DOMAIN made.shapes,
           Good(object), Fits(object, made.shapes[made.shape])
    PROVE  SlotsInv'
<1> DEFINE p == [object EXCEPT !.shape = made.shape]
           tt == made.shapes
<1>1. /\ shapes' = tt /\ objects' = [objects EXCEPT ![o] = p] /\ building' = building
      /\ calls < MaxCalls /\ calls' = calls + 1
  BY DEF Becomes
<1>2. objects \in [Objects -> Holders] /\ object \in Holders
  BY DEF SlotsInv, Good
<1>3. made.shape \in Nat
  BY DEF TableOK
<1>4. p \in Holders
  BY <1>2, <1>3 DEF Holders
<1>5. p.values = object.values /\ p.dict = object.dict /\ p.spilled = object.spilled /\ p.shape = made.shape
  BY <1>2 DEF Holders
<1> HIDE DEF p, tt
<1>6. objects' \in [Objects -> Holders] /\ \A u \in Objects : objects'[u] = IF u = o THEN p ELSE objects[u]
  BY <1>1, <1>2, <1>4
<1>7. \A u \in Objects :
         /\ objects'[u].shape \in DOMAIN tt
         /\ Fits(objects'[u], tt[objects'[u].shape])
         /\ objects'[u].spilled \/ DOMAIN objects'[u].dict = {}
  <2> TAKE u \in Objects
  <2>1. CASE u = o
    <3>1. Fits(p, tt[made.shape])
      BY <1>5 DEF Fits, tt
    <3> QED
      BY <1>5, <1>6, <2>1, <3>1 DEF Good, tt
  <2>2. CASE u # o
    <3> DEFINE s == objects[u].shape
    <3>1. /\ s \in DOMAIN shapes /\ Fits(objects[u], shapes[s])
          /\ objects[u].spilled \/ DOMAIN objects[u].dict = {}
      BY DEF SlotsInv
    <3>2. s \in DOMAIN tt
      BY <3>1 DEF KeepsTable, TableOK, SlotsInv, tt
    <3>3. Fits(objects[u], tt[s])
      BY <3>1 DEF KeepsTable, Fits, tt
    <3> QED
      BY <1>6, <2>2, <3>1, <3>2, <3>3
  <2> QED
    BY <2>1, <2>2
<1>8. calls' \in 0..MaxCalls
  BY <1>1, SlotsAssumption DEF SlotsInv
<1>9. TableOK(shapes')
  BY <1>1 DEF tt
<1> QED
  BY <1>1, <1>6, <1>7, <1>8, <1>9 DEF SlotsInv

\* Keeps: no shape changes.
LEMMA KeepsIs ==
    ASSUME SlotsInv, NEW o \in Objects, NEW object, Keeps(o, object), Better(objects[o], object)
    PROVE  SlotsInv'
<1> DEFINE made == [shapes |-> shapes, shape |-> objects[o].shape]
           s == objects[o].shape
<1>1. /\ Good(objects[o]) /\ s \in DOMAIN shapes /\ Fits(objects[o], shapes[s])
      /\ TableOK(shapes) /\ shapes[s] \in Shapes /\ KeepsTable(shapes, shapes)
  BY ObjectOK
<1>2. Becomes(o, made, object) /\ made.shapes = shapes /\ made.shape = s
  BY DEF Keeps
<1>3. Fits(object, shapes[s]) /\ Good(object)
  BY <1>1, FitsAfter DEF Better
<1> HIDE DEF made
<1> QED
  BY <1>1, <1>2, <1>3, BecomesKeeps

\* A property is added, and its value.
LEMMA AddIs ==
    ASSUME SlotsInv, NEW o \in Objects, NEW k \in Keys, NEW attrs \in AttrSets,
           find(shapes[objects[o].shape].props, k) = 0,
           Becomes(o, add_property(shapes, objects[o].shape, k, attrs),
                   [objects[o] EXCEPT !.values = Append(@, Stored)])
    PROVE  SlotsInv'
<1> DEFINE made == add_property(shapes, objects[o].shape, k, attrs)
           s == objects[o].shape
           w == Append(objects[o].values, Stored)
           p == [objects[o] EXCEPT !.values = w]
<1>1. /\ Good(objects[o]) /\ s \in DOMAIN shapes /\ Fits(objects[o], shapes[s])
      /\ objects[o].values \in Seq(Values) /\ Len(objects[o].values) \in Nat
      /\ TableOK(shapes) /\ shapes[s] \in Shapes /\ shapes[s].num_own \in Nat
  BY ObjectOK
<1>2. /\ TableOK(made.shapes) /\ KeepsTable(shapes, made.shapes)
      /\ made.shape \in DOMAIN made.shapes /\ OneSlotMore(shapes[s], made.shapes[made.shape])
  BY <1>1, AddTable
<1>3. w \in Seq(Values) /\ Len(w) = Len(objects[o].values) + 1
  BY <1>1 DEF Values
<1>4. Becomes(o, made, p)
  OBVIOUS
<1> HIDE DEF made, w
<1>5. Better(objects[o], p) /\ p.values = w
  BY <1>1, <1>3, StoreBetter
<1> HIDE DEF p
<1>6. made.shapes[made.shape] \in Shapes
  BY <1>2, ShapeParts
<1>7. shapes[s].num_own + 1 <= Len(p.values)
  BY <1>1, <1>3, <1>5 DEF Fits
<1>8. Fits(p, made.shapes[made.shape]) /\ Good(p)
  BY <1>1, <1>2, <1>5, <1>6, <1>7, FitsAfter DEF Better
<1> QED
  BY <1>2, <1>4, <1>8, BecomesKeeps

\* A property's attributes change: its slot is an own value of the object.
LEMMA UpdateIs ==
    ASSUME SlotsInv, NEW o \in Objects, NEW k \in Keys, NEW attrs \in AttrSets, NEW object,
           LET props == shapes[objects[o].shape].props
               made == update_data_attrs(shapes, objects[o].shape, k, attrs)
               news == made.shapes[made.shape].props
           IN  /\ find(props, k) # 0
               /\ is_accessor(props[find(props, k)]) =>
                     attrs = DEFAULT /\ news[find(news, k)].slot < Len(object.values)
               /\ Becomes(o, made, object),
           Better(objects[o], object)
    PROVE  SlotsInv'
<1> DEFINE made == update_data_attrs(shapes, objects[o].shape, k, attrs)
           s == objects[o].shape
           c == made.shapes[made.shape]
           d == shapes[s].props[find(shapes[s].props, k)]
<1>1. /\ Good(objects[o]) /\ s \in DOMAIN shapes /\ Fits(objects[o], shapes[s])
      /\ objects[o].values \in Seq(Values) /\ Len(objects[o].values) \in Nat
      /\ TableOK(shapes) /\ shapes[s] \in Shapes /\ shapes[s].props \in Seq(Props)
  BY ObjectOK
<1>2. /\ TableOK(made.shapes) /\ KeepsTable(shapes, made.shapes)
      /\ made.shape \in DOMAIN made.shapes /\ AsMany(shapes[s], k, c)
  BY <1>1, UpdateTable
<1>3. c \in Shapes
  BY <1>2, ShapeParts
<1>4. find(shapes[s].props, k) \in DOMAIN shapes[s].props
  BY <1>1, FindFirst
<1>5. c.props[find(c.props, k)].slot < Len(object.values)
  <2>1. CASE is_accessor(d)
    BY <2>1
  <2>2. CASE ~is_accessor(d)
    <3>1. c.props[find(c.props, k)].slot = d.slot /\ d.slot \in Nat
      BY <1>2, <2>2 DEF AsMany
    <3>2. d.slot < Len(objects[o].values)
      BY <1>1, <1>4 DEF Fits
    <3>3. Len(objects[o].values) <= Len(object.values) /\ Len(object.values) \in Nat
      BY HolderParts DEF Better, Good
    <3> QED
      BY <1>1, <3>1, <3>2, <3>3
  <2> QED
    BY <2>1, <2>2
<1>6. Becomes(o, made, object)
  OBVIOUS
<1> HIDE DEF made
<1>7. Fits(object, c) /\ Good(object)
  BY <1>1, <1>2, <1>3, <1>5, FitsAfter DEF Better
<1> QED
  BY <1>2, <1>6, <1>7, BecomesKeeps

\* An accessor is defined in the shape, and its slot reserved if it is new.
LEMMA DefineIs ==
    ASSUME SlotsInv, NEW o \in Objects, NEW k \in Keys, NEW attrs \in AttrSets, attrs # DEFAULT,
           NEW g \in GettersSetters, NEW t \in GettersSetters, NEW object,
           LET props == shapes[objects[o].shape].props
               made == define_accessor(shapes, objects[o].shape, k, g, t, attrs)
           IN  /\ find(props, k) = 0 \/ is_accessor(props[find(props, k)])
               /\ \/ object = reserve(made, objects[o])
                  \/ find(props, k) # 0 /\ object = objects[o]
               /\ Becomes(o, made, object)
    PROVE  SlotsInv'
<1> DEFINE made == define_accessor(shapes, objects[o].shape, k, g, t, attrs)
           s == objects[o].shape
           c == made.shapes[made.shape]
           w == resized(objects[o].values, c.num_own)
<1>1. /\ Good(objects[o]) /\ s \in DOMAIN shapes /\ Fits(objects[o], shapes[s])
      /\ objects[o].values \in Seq(Values) /\ Len(objects[o].values) \in Nat
      /\ TableOK(shapes) /\ shapes[s] \in Shapes /\ shapes[s].num_own \in Nat
  BY ObjectOK
<1>2. /\ TableOK(made.shapes) /\ KeepsTable(shapes, made.shapes)
      /\ made.shape \in DOMAIN made.shapes
      /\ IF find(shapes[s].props, k) = 0 THEN OneSlotMore(shapes[s], c) ELSE made.shape = s
  BY <1>1, DefineTable
<1>3. c \in Shapes /\ c.num_own \in Nat
  BY <1>2, ShapeParts
<1>4. Becomes(o, made, object) /\ (object = reserve(made, objects[o])
        \/ (find(shapes[s].props, k) # 0 /\ object = objects[o]))
  OBVIOUS
<1> HIDE DEF made
<1>5. w \in Seq(Values) /\ Len(w) >= Len(objects[o].values) /\ Len(w) >= c.num_own
  <2>1. Stored \in Values
    BY DEF Values
  <2> QED
    BY <1>1, <1>3, <2>1, RoomFor
<1>6. reserve(made, objects[o]) = [objects[o] EXCEPT !.values = w]
  BY DEF reserve
<1> HIDE DEF w
<1>7. /\ Better(objects[o], [objects[o] EXCEPT !.values = w])
      /\ [objects[o] EXCEPT !.values = w].values = w
  BY <1>1, <1>5, StoreBetter
<1>8. Better(objects[o], reserve(made, objects[o])) /\ reserve(made, objects[o]).values = w
  BY <1>6, <1>7
<1>9. Better(objects[o], objects[o])
  BY <1>1 DEF Better
<1>10. Better(objects[o], object)
  BY <1>4, <1>8, <1>9
<1>11. Fits(object, c)
  <2>1. CASE find(shapes[s].props, k) = 0
    <3>1. Len(object.values) >= shapes[s].num_own + 1 /\ OneSlotMore(shapes[s], c)
      BY <1>2, <1>4, <1>5, <1>8, <2>1 DEF OneSlotMore
    <3> QED
      BY <1>1, <1>3, <1>10, <3>1, FitsAfter
  <2>2. CASE find(shapes[s].props, k) # 0
    <3>1. Fits(object, shapes[s]) /\ made.shape = s
      BY <1>1, <1>2, <1>10, <2>2, FitsAfter
    <3>2. Fits(object, c)
      BY <1>1, <1>2, <3>1 DEF KeepsTable, Fits
    <3> QED
      BY <3>2
  <2> QED
    BY <2>1, <2>2
<1> QED
  BY <1>2, <1>4, <1>10, <1>11, BecomesKeeps DEF Better

\* The sets of attributes are three.
LEMMA AttrsDiffer ==
    /\ {DEFAULT, BUILTIN, ENUMERABLE_ACCESSOR} \subseteq AttrSets
    /\ BUILTIN # DEFAULT /\ ENUMERABLE_ACCESSOR # DEFAULT
BY DEF AttrSets, DEFAULT, BUILTIN, ENUMERABLE_ACCESSOR

\* A descriptor of an object's shape.
LEMMA InShapeIs ==
    ASSUME SlotsInv, NEW o \in Objects, NEW k \in Keys
    PROVE  LET props == shapes[objects[o].shape].props
           IN  /\ InShape(objects[o], k) <=> find(props, k) # 0
               /\ InShape(objects[o], k) =>
                     /\ find(props, k) \in DOMAIN props /\ Descriptor(objects[o], k) = props[find(props, k)]
                     /\ Descriptor(objects[o], k) \in Props
                     /\ is_accessor(Descriptor(objects[o], k)) => Descriptor(objects[o], k).attrs # DEFAULT
                     /\ ~is_accessor(Descriptor(objects[o], k)) => Descriptor(objects[o], k).slot \in Nat
<1> DEFINE props == shapes[objects[o].shape].props
<1>1. props \in Seq(Props) /\ SlotsCounted(shapes[objects[o].shape])
  BY ObjectOK, ShapeParts
<1>2. InShape(objects[o], k) <=> find(props, k) # 0
  BY DEF InShape
<1>3. Descriptor(objects[o], k) = props[find(props, k)]
  BY DEF Descriptor
<1>4. find(props, k) # 0 => find(props, k) \in DOMAIN props /\ props[find(props, k)] \in Props
  BY <1>1, FindFirst
<1> QED
  BY <1>1, <1>2, <1>3, <1>4 DEF SlotsCounted, Props, is_accessor

\* A value that is put, or emptied, in the object.
LEMMA PutBetter ==
    ASSUME SlotsInv, NEW o \in Objects, NEW slot \in Nat, NEW v \in Values
    PROVE  LET p == [objects[o] EXCEPT !.values = put(@, slot, v)]
           IN  Better(objects[o], p) /\ slot < Len(p.values)
<1> DEFINE w == put(objects[o].values, slot, v)
<1>1. Good(objects[o]) /\ objects[o].values \in Seq(Values)
  BY ObjectOK
<1>2. w \in Seq(Values) /\ Len(objects[o].values) <= Len(w) /\ slot < Len(w)
  <2>1. Len(objects[o].values) \in Nat
    BY <1>1
  <2> QED
    BY <1>1, <2>1, RoomFor
<1> HIDE DEF w
<1>3. Better(objects[o], [objects[o] EXCEPT !.values = w]) /\ [objects[o] EXCEPT !.values = w].values = w
  BY <1>1, <1>2, StoreBetter
<1> QED
  BY <1>2, <1>3 DEF w

\* A store to a slot the shape names.
LEMMA StoreInShape ==
    ASSUME SlotsInv, NEW o \in Objects, NEW k \in Keys, NEW v \in Values,
           InShape(objects[o], k), ~is_accessor(Descriptor(objects[o], k)),
           Keeps(o, [objects[o] EXCEPT !.values = put(@, Descriptor(objects[o], k).slot, v)])
    PROVE  SlotsInv'
<1>1. Descriptor(objects[o], k).slot \in Nat
  BY InShapeIs
<1> QED
  BY <1>1, PutBetter, KeepsIs

\* An entry of the dictionary has a slot.
LEMMA InDictIs ==
    ASSUME SlotsInv, NEW o \in Objects, NEW k, InDict(objects[o], k)
    PROVE  /\ k \in DOMAIN objects[o].dict /\ objects[o].dict[k] \in Entries
           /\ objects[o].dict[k].slot \in Nat
<1>1. k \in DOMAIN objects[o].dict
  BY DEF InDict
<1>2. objects[o].dict[k] \in Entries
  BY <1>1, ObjectOK, HolderParts DEF Good
<1> QED
  BY <1>1, <1>2 DEF Entries

\* A store to a slot the dictionary names.
LEMMA StoreInDict ==
    ASSUME SlotsInv, NEW o \in Objects, NEW k, NEW v \in Values, InDict(objects[o], k),
           Keeps(o, [objects[o] EXCEPT !.values = put(@, objects[o].dict[k].slot, v)])
    PROVE  SlotsInv'
<1>1. objects[o].dict[k].slot \in Nat
  BY InDictIs
<1> QED
  BY <1>1, PutBetter, KeepsIs

\* Attributes of a property of the shape, with a store to its slot.
LEMMA AttrsInShape ==
    ASSUME SlotsInv, NEW o \in Objects, NEW k \in Keys, NEW attrs \in AttrSets,
           InShape(objects[o], k), ~is_accessor(Descriptor(objects[o], k)),
           LET d == Descriptor(objects[o], k)
           IN  Becomes(o, IF d.attrs = attrs THEN [shapes |-> shapes, shape |-> objects[o].shape]
                          ELSE update_data_attrs(shapes, objects[o].shape, k, attrs),
                       [objects[o] EXCEPT !.values = put(@, d.slot, Stored)])
    PROVE  SlotsInv'
<1> DEFINE d == Descriptor(objects[o], k)
           p == [objects[o] EXCEPT !.values = put(@, d.slot, Stored)]
<1>1. d.slot \in Nat /\ find(shapes[objects[o].shape].props, k) # 0
      /\ d = shapes[objects[o].shape].props[find(shapes[objects[o].shape].props, k)]
  BY InShapeIs
<1>2. Better(objects[o], p)
  BY <1>1, PutBetter DEF Values
<1>3. Becomes(o, IF d.attrs = attrs THEN [shapes |-> shapes, shape |-> objects[o].shape]
                 ELSE update_data_attrs(shapes, objects[o].shape, k, attrs), p)
      /\ ~is_accessor(d)
  OBVIOUS
<1> HIDE DEF p
<1>4. CASE d.attrs = attrs
  <2>1. Keeps(o, p)
    BY <1>3, <1>4 DEF Keeps
  <2> QED
    BY <1>2, <2>1, KeepsIs
<1>5. CASE d.attrs # attrs
  <2>1. Becomes(o, update_data_attrs(shapes, objects[o].shape, k, attrs), p)
    BY <1>3, <1>5
  <2> QED
    BY <1>1, <1>2, <1>3, <2>1, UpdateIs
<1> QED
  BY <1>4, <1>5

\* SetNew, of either door.
LEMMA SetNewKeeps ==
    ASSUME SlotsInv, NEW o \in Objects, NEW k \in Keys, NEW native, ~InShape(objects[o], k),
           SetNew(o, k, native)
    PROVE  SlotsInv'
<1> DEFINE ob == objects[o]
           spills == ob.spilled \/ (native /\ shapes[ob.shape].num_own >= SpillAt)
<1>1. DEFAULT \in AttrSets /\ Good(ob) /\ find(shapes[ob.shape].props, k) = 0
  BY AttrsDiffer, ObjectOK, InShapeIs
<1>2. CASE spills
  <2>1. Keeps(o, dict_insert(ob, k, DEFAULT))
    BY <1>2 DEF SetNew
  <2>2. Better(ob, dict_insert(ob, k, DEFAULT))
    BY <1>1, DictBetter DEF GettersSetters
  <2> QED
    BY <2>1, <2>2, KeepsIs
<1>3. CASE ~spills
  <2>1. Becomes(o, add_property(shapes, ob.shape, k, DEFAULT), [ob EXCEPT !.values = Append(@, Stored)])
    BY <1>3 DEF SetNew
  <2> QED
    BY <1>1, <2>1, AddIs
<1> QED
  BY <1>2, <1>3

\* set_property, ordinary_set and op_define_method store to what is there, or add.
LEMMA StoresKeep ==
    ASSUME SlotsInv, NEW o \in Objects, NEW k \in Keys,
           set_property(o, k) \/ ordinary_set(o, k) \/ op_define_method(o, k)
    PROVE  SlotsInv'
<1> DEFINE ob == objects[o]
<1>1. Stored \in Values /\ DEFAULT \in AttrSets /\ BUILTIN \in AttrSets
  BY AttrsDiffer DEF Values
<1>2. CASE set_property(o, k)
  <2>1. CASE InShape(ob, k)
    <3>1. /\ ~is_accessor(Descriptor(ob, k))
          /\ Keeps(o, [ob EXCEPT !.values = put(@, Descriptor(ob, k).slot, Stored)])
      BY <1>2, <2>1 DEF set_property
    <3> QED
      BY <1>1, <2>1, <3>1, StoreInShape
  <2>2. CASE ~InShape(ob, k) /\ InDict(ob, k)
    <3>1. Keeps(o, [ob EXCEPT !.values = put(@, ob.dict[k].slot, Stored)])
      BY <1>2, <2>2 DEF set_property
    <3> QED
      BY <1>1, <2>2, <3>1, StoreInDict
  <2>3. CASE ~InShape(ob, k) /\ ~InDict(ob, k)
    <3>1. SetNew(o, k, FALSE)
      BY <1>2, <2>3 DEF set_property
    <3> QED
      BY <2>3, <3>1, SetNewKeeps
  <2> QED
    BY <2>1, <2>2, <2>3
<1>3. CASE ordinary_set(o, k)
  <2>1. CASE InDict(ob, k)
    <3>1. Keeps(o, [ob EXCEPT !.values = put(@, ob.dict[k].slot, Stored)])
      BY <1>3, <2>1 DEF ordinary_set
    <3> QED
      BY <1>1, <2>1, <3>1, StoreInDict
  <2>2. CASE ~InDict(ob, k) /\ InShape(ob, k)
    <3>1. /\ ~is_accessor(Descriptor(ob, k))
          /\ Keeps(o, [ob EXCEPT !.values = put(@, Descriptor(ob, k).slot, Stored)])
      BY <1>3, <2>2 DEF ordinary_set
    <3> QED
      BY <1>1, <2>2, <3>1, StoreInShape
  <2>3. CASE ~InDict(ob, k) /\ ~InShape(ob, k)
    <3>1. SetNew(o, k, TRUE)
      BY <1>3, <2>3 DEF ordinary_set
    <3> QED
      BY <2>3, <3>1, SetNewKeeps
  <2> QED
    BY <2>1, <2>2, <2>3
<1>4. CASE op_define_method(o, k)
  <2>1. CASE InShape(ob, k)
    <3>1. /\ ~is_accessor(Descriptor(ob, k))
          /\ LET d == Descriptor(ob, k)
             IN  Becomes(o, IF d.attrs = BUILTIN THEN [shapes |-> shapes, shape |-> ob.shape]
                            ELSE update_data_attrs(shapes, ob.shape, k, BUILTIN),
                         [ob EXCEPT !.values = put(@, d.slot, Stored)])
      BY <1>4, <2>1 DEF op_define_method
    <3> QED
      BY <1>1, <2>1, <3>1, AttrsInShape
  <2>2. CASE ~InShape(ob, k)
    <3>1. Becomes(o, add_property(shapes, ob.shape, k, BUILTIN), [ob EXCEPT !.values = Append(@, Stored)])
      BY <1>4, <2>2 DEF op_define_method
    <3>2. find(shapes[ob.shape].props, k) = 0
      BY <2>2, InShapeIs
    <3> QED
      BY <1>1, <3>1, <3>2, AddIs
  <2> QED
    BY <2>1, <2>2
<1> QED
  BY <1>2, <1>3, <1>4

\* ordinary_define_own_property: every attribute on.
LEMMA DefineOwnKeeps ==
    ASSUME SlotsInv, NEW o \in Objects, NEW k \in Keys, ordinary_define_own_property(o, k)
    PROVE  SlotsInv'
<1> DEFINE ob == objects[o]
<1>1. Stored \in Values /\ DEFAULT \in AttrSets
  BY AttrsDiffer DEF Values
<1>2. CASE InDict(ob, k)
  <2> DEFINE w == put(ob.values, ob.dict[k].slot, Stored)
             entry == [ob.dict[k] EXCEPT !.attrs = DEFAULT]
             p == [ob EXCEPT !.values = put(@, ob.dict[k].slot, Stored), !.dict[k].attrs = DEFAULT]
  <2>1. Keeps(o, p)
    BY <1>2 DEF ordinary_define_own_property
  <2>2. /\ k \in DOMAIN ob.dict /\ ob.dict[k] \in Entries /\ ob.dict[k].slot \in Nat
        /\ ob.values \in Seq(Values) /\ Good(ob)
    BY <1>2, InDictIs, ObjectOK
  <2>3. entry \in Entries /\ entry.slot = ob.dict[k].slot
    BY <1>1, <2>2 DEF Entries
  <2>4. p = [ob EXCEPT !.values = w, !.dict = [ob.dict EXCEPT ![k] = entry]]
    OBVIOUS
  <2>5. w \in Seq(Values) /\ Len(ob.values) <= Len(w)
    <3>1. Len(ob.values) \in Nat
      BY <2>2
    <3> QED
      BY <1>1, <2>2, <3>1, RoomFor
  <2> HIDE DEF w, entry, p
  <2>6. Better(ob, p)
    BY <2>2, <2>3, <2>4, <2>5, EntryBetter
  <2> QED
    BY <2>1, <2>6, KeepsIs
<1>3. CASE ~InDict(ob, k) /\ InShape(ob, k)
  <2>1. /\ ~is_accessor(Descriptor(ob, k))
        /\ LET d == Descriptor(ob, k)
           IN  Becomes(o, IF d.attrs = DEFAULT THEN [shapes |-> shapes, shape |-> ob.shape]
                          ELSE update_data_attrs(shapes, ob.shape, k, DEFAULT),
                       [ob EXCEPT !.values = put(@, d.slot, Stored)])
    BY <1>3 DEF ordinary_define_own_property
  <2> QED
    BY <1>1, <1>3, <2>1, AttrsInShape
<1>4. CASE ~InDict(ob, k) /\ ~InShape(ob, k)
  <2>1. SetNew(o, k, TRUE)
    BY <1>4 DEF ordinary_define_own_property
  <2> QED
    BY <1>4, <2>1, SetNewKeeps
<1> QED
  BY <1>2, <1>3, <1>4

\* delete_property and ordinary_delete: an emptied slot is still one.
LEMMA DeletesKeep ==
    ASSUME SlotsInv, NEW o \in Objects, NEW k \in Keys, delete_property(o, k) \/ ordinary_delete(o, k)
    PROVE  SlotsInv'
<1> DEFINE ob == objects[o]
           d == Descriptor(ob, k)
<1>1. NoValue \in Values /\ DEFAULT \in AttrSets /\ Good(ob)
  BY AttrsDiffer, ObjectOK DEF Values
<1>2. CASE InDict(ob, k)
  <2>1. Keeps(o, Unfiled(ob, k))
    BY <1>2 DEF delete_property, ordinary_delete
  <2>2. Better(ob, Unfiled(ob, k))
    BY <1>1, <1>2, InDictIs, UnfiledBetter
  <2> QED
    BY <2>1, <2>2, KeepsIs
<1>3. CASE ~InDict(ob, k) /\ ~is_accessor(d)
  <2>1. InShape(ob, k) /\ Keeps(o, [ob EXCEPT !.values = put(@, d.slot, NoValue)])
    BY <1>3 DEF delete_property, ordinary_delete
  <2> QED
    BY <1>1, <1>3, <2>1, StoreInShape
<1>4. CASE ~InDict(ob, k) /\ is_accessor(d)
  <2> DEFINE made == update_data_attrs(shapes, ob.shape, k, DEFAULT)
             props == made.shapes[made.shape].props
             slot == props[find(props, k)].slot
             p == [ob EXCEPT !.values = put(@, slot, NoValue)]
  <2>1. InShape(ob, k) /\ Becomes(o, made, p)
    BY <1>4 DEF delete_property, ordinary_delete
  <2>2. find(shapes[ob.shape].props, k) # 0
        /\ d = shapes[ob.shape].props[find(shapes[ob.shape].props, k)]
    BY <2>1, InShapeIs
  <2>3. slot \in Nat
    <3>1. AsMany(shapes[ob.shape], k, made.shapes[made.shape])
      BY <1>1, <2>2, ObjectOK, UpdateTable
    <3> QED
      BY <3>1 DEF AsMany
  <2> HIDE DEF slot
  <2>4. Better(ob, p) /\ slot < Len(p.values)
    BY <1>1, <2>3, PutBetter
  <2> HIDE DEF p
  <2> QED
    BY <1>1, <2>1, <2>2, <2>4, UpdateIs DEF slot
<1> QED
  BY <1>2, <1>3, <1>4

\* op_define_accessor: not on a name that has a value, unless literals repeat.
LEMMA OpDefineKeeps ==
    ASSUME SlotsInv, ~MayRepeat, NEW o \in Objects, NEW k \in Keys,
           NEW g \in GettersSetters, NEW s \in GettersSetters,
           NEW attrs \in {BUILTIN, ENUMERABLE_ACCESSOR}, op_define_accessor(o, k, g, s, attrs)
    PROVE  SlotsInv'
<1> DEFINE made == define_accessor(shapes, objects[o].shape, k, g, s, attrs)
           p == reserve(made, objects[o])
<1>1. Becomes(o, made, p) /\ (InShape(objects[o], k) => is_accessor(Descriptor(objects[o], k)))
  BY DEF op_define_accessor
<1>2. attrs \in AttrSets /\ attrs # DEFAULT
  BY AttrsDiffer
<1>3. LET props == shapes[objects[o].shape].props
      IN  find(props, k) = 0 \/ is_accessor(props[find(props, k)])
  BY <1>1, InShapeIs
<1> HIDE DEF p
<1> QED
  BY <1>1, <1>2, <1>3, DefineIs DEF p

\* DefineAccessor: in the dictionary, in the shape, or beside it.
LEMMA DefineAccessorKeeps ==
    ASSUME SlotsInv, NEW o \in Objects, NEW k \in Keys,
           NEW g \in GettersSetters, NEW s \in GettersSetters, DefineAccessor(o, k, g, s)
    PROVE  SlotsInv'
<1> DEFINE ob == objects[o]
           d == Descriptor(ob, k)
<1>1. /\ ENUMERABLE_ACCESSOR \in AttrSets /\ ENUMERABLE_ACCESSOR # DEFAULT /\ Good(ob)
      /\ \A x \in GettersSetters, y \in GettersSetters : Or(x, y) \in GettersSetters
  BY AttrsDiffer, ObjectOK DEF Or
<1>2. CASE InDict(ob, k)
  <2> DEFINE e == ob.dict[k]
             entry == refile(e, g, s)
             w == ob.values
             p == [ob EXCEPT !.dict[k] = entry]
  <2>1. Keeps(o, p)
    BY <1>2 DEF DefineAccessor
  <2>2. /\ k \in DOMAIN ob.dict /\ e \in Entries /\ ob.values \in Seq(Values)
        /\ Len(ob.values) \in Nat
    BY <1>2, InDictIs, ObjectOK
  <2>3. entry \in Entries /\ entry.slot = e.slot
    <3>1. Or(g, e.get) \in GettersSetters /\ Or(s, e.set) \in GettersSetters
      BY <1>1, <2>2 DEF Entries
    <3>2. CASE e.accessor
      BY <2>2, <3>1, <3>2 DEF Entries, refile
    <3>3. CASE ~e.accessor
      BY <2>2, <3>3 DEF Entries, refile
    <3> QED
      BY <3>2, <3>3
  <2> HIDE DEF entry
  <2>4. p = [ob EXCEPT !.values = w, !.dict = [ob.dict EXCEPT ![k] = entry]]
    BY <1>1 DEF Good, Holders
  <2>6. w \in Seq(Values) /\ Len(ob.values) <= Len(w)
    BY <2>2
  <2> HIDE DEF p, w
  <2>5. Better(ob, p)
    BY <1>1, <2>2, <2>3, <2>4, <2>6, EntryBetter
  <2> QED
    BY <2>1, <2>5, KeepsIs
<1>3. CASE ~InDict(ob, k) /\ InShape(ob, k) /\ is_accessor(d)
  <2>1. /\ d.get \in GettersSetters /\ d.set \in GettersSetters /\ d.attrs \in AttrSets
        /\ d.attrs # DEFAULT /\ find(shapes[ob.shape].props, k) # 0
        /\ d = shapes[ob.shape].props[find(shapes[ob.shape].props, k)]
    BY <1>3, InShapeIs DEF Props
  <2>2. Becomes(o, define_accessor(shapes, ob.shape, k, Or(g, d.get), Or(s, d.set), d.attrs), ob)
    BY <1>3 DEF DefineAccessor
  <2>3. Or(g, d.get) \in GettersSetters /\ Or(s, d.set) \in GettersSetters
    BY <1>1, <2>1
  <2> QED
    BY <1>3, <2>1, <2>2, <2>3, DefineIs
<1>4. CASE ~InDict(ob, k) /\ InShape(ob, k) /\ ~is_accessor(d)
  <2>1. Keeps(o, convert_key_to_accessor(ob, k, g, s, d.attrs)) /\ d.attrs \in AttrSets
    BY <1>4, InShapeIs DEF DefineAccessor, Props
  <2> QED
    BY <1>1, <2>1, DictBetter, KeepsIs
<1>5. CASE ~InDict(ob, k) /\ ~InShape(ob, k)
  <2>1. CASE ob.spilled \/ shapes[ob.shape].num_own >= SpillAt
    <3>1. Keeps(o, convert_key_to_accessor(ob, k, g, s, ENUMERABLE_ACCESSOR))
      BY <1>5, <2>1 DEF DefineAccessor
    <3> QED
      BY <1>1, <3>1, DictBetter, KeepsIs
  <2>2. CASE ~(ob.spilled \/ shapes[ob.shape].num_own >= SpillAt)
    <3> DEFINE made == define_accessor(shapes, ob.shape, k, g, s, ENUMERABLE_ACCESSOR)
    <3>1. Becomes(o, made, reserve(made, ob))
      BY <1>5, <2>2 DEF DefineAccessor
    <3>2. find(shapes[ob.shape].props, k) = 0
      BY <1>5, InShapeIs
    <3> QED
      BY <1>1, <3>1, <3>2, DefineIs
  <2> QED
    BY <2>1, <2>2
<1> QED
  BY <1>2, <1>3, <1>4, <1>5

\* DefineData: in the dictionary, in the shape, or beside it.
LEMMA DefineDataKeeps ==
    ASSUME SlotsInv, NEW o \in Objects, NEW k \in Keys, NEW writable \in BOOLEAN,
           DefineData(o, k, writable)
    PROVE  SlotsInv'
<1> DEFINE ob == objects[o]
           d == Descriptor(ob, k)
           attrs == IF writable THEN DEFAULT ELSE ENUMERABLE_ACCESSOR
<1>1. attrs \in AttrSets /\ Good(ob) /\ Stored \in Values /\ Nobody \in GettersSetters
  BY AttrsDiffer, ObjectOK DEF Values, GettersSetters
<1>2. DefineData(o, k, writable) <=>
        /\ o \notin building
        /\ IF InDict(ob, k)
           THEN Keeps(o, IF ob.dict[k].accessor THEN [ob EXCEPT !.dict[k].attrs = attrs]
                         ELSE [ob EXCEPT !.values = put(@, ob.dict[k].slot, Stored),
                                         !.dict[k].attrs = attrs])
           ELSE IF InShape(ob, k)
           THEN IF is_accessor(d) THEN Keeps(o, convert_key_to_data(ob, k, attrs))
                ELSE Becomes(o, IF d.attrs = attrs
                                THEN [shapes |-> shapes, shape |-> ob.shape]
                                ELSE update_data_attrs(shapes, ob.shape, k, attrs),
                             [ob EXCEPT !.values = put(@, d.slot, Stored)])
           ELSE IF ob.spilled \/ shapes[ob.shape].num_own >= SpillAt
           THEN Keeps(o, dict_insert(ob, k, attrs))
           ELSE Becomes(o, add_property(shapes, ob.shape, k, attrs),
                        [ob EXCEPT !.values = Append(@, Stored)])
  BY DEF DefineData
<1> HIDE DEF attrs
<1>3. CASE InDict(ob, k)
  <2> DEFINE e == ob.dict[k]
             entry == [e EXCEPT !.attrs = attrs]
             w == put(ob.values, e.slot, Stored)
             f == [ob.dict EXCEPT ![k] = entry]
  <2>1. /\ k \in DOMAIN ob.dict /\ e \in Entries /\ e.slot \in Nat /\ ob.values \in Seq(Values)
        /\ Len(ob.values) \in Nat
    BY <1>3, InDictIs, ObjectOK
  <2>2. entry \in Entries /\ entry.slot = e.slot
    BY <1>1, <2>1 DEF Entries
  <2>3. w \in Seq(Values) /\ Len(ob.values) <= Len(w)
    BY <1>1, <2>1, RoomFor
  <2>4. CASE e.accessor
    <3> DEFINE p == [ob EXCEPT !.dict[k].attrs = attrs]
    <3>1. Keeps(o, p)
      BY <1>2, <1>3, <2>4
    <3> DEFINE v == ob.values
    <3>2. p = [ob EXCEPT !.values = v, !.dict = f]
      BY <1>1 DEF Good, Holders
    <3>4. v \in Seq(Values) /\ Len(ob.values) <= Len(v)
      BY <2>1
    <3> HIDE DEF p, entry, v
    <3>3. Better(ob, p)
      BY <1>1, <2>1, <2>2, <3>2, <3>4, EntryBetter
    <3> QED
      BY <3>1, <3>3, KeepsIs
  <2>5. CASE ~e.accessor
    <3> DEFINE p == [ob EXCEPT !.values = put(@, ob.dict[k].slot, Stored), !.dict[k].attrs = attrs]
    <3>1. Keeps(o, p)
      BY <1>2, <1>3, <2>5
    <3>2. p = [ob EXCEPT !.values = w, !.dict = f]
      OBVIOUS
    <3> HIDE DEF p, entry, w
    <3>3. Better(ob, p)
      BY <1>1, <2>1, <2>2, <2>3, <3>2, EntryBetter
    <3> QED
      BY <3>1, <3>3, KeepsIs
  <2> QED
    BY <2>4, <2>5
<1>4. CASE ~InDict(ob, k) /\ InShape(ob, k) /\ is_accessor(d)
  <2>1. Keeps(o, convert_key_to_data(ob, k, attrs))
    BY <1>2, <1>4
  <2> QED
    BY <1>1, <2>1, DictBetter, KeepsIs
<1>5. CASE ~InDict(ob, k) /\ InShape(ob, k) /\ ~is_accessor(d)
  <2>1. Becomes(o, IF d.attrs = attrs THEN [shapes |-> shapes, shape |-> ob.shape]
                   ELSE update_data_attrs(shapes, ob.shape, k, attrs),
                [ob EXCEPT !.values = put(@, d.slot, Stored)])
    BY <1>2, <1>5
  <2> QED
    BY <1>1, <1>5, <2>1, AttrsInShape
<1>6. CASE ~InDict(ob, k) /\ ~InShape(ob, k)
  <2>1. CASE ob.spilled \/ shapes[ob.shape].num_own >= SpillAt
    <3>1. Keeps(o, dict_insert(ob, k, attrs))
      BY <1>2, <1>6, <2>1
    <3> QED
      BY <1>1, <3>1, DictBetter, KeepsIs
  <2>2. CASE ~(ob.spilled \/ shapes[ob.shape].num_own >= SpillAt)
    <3>1. Becomes(o, add_property(shapes, ob.shape, k, attrs), [ob EXCEPT !.values = Append(@, Stored)])
      BY <1>2, <1>6, <2>2
    <3>2. find(shapes[ob.shape].props, k) = 0
      BY <1>6, InShapeIs
    <3> QED
      BY <1>1, <3>1, <3>2, AddIs
  <2> QED
    BY <2>1, <2>2
<1> QED
  BY <1>3, <1>4, <1>5, <1>6

\* The table and the objects keep in step, for programs whose literals do not give
\* one name both a value and an accessor.
THEOREM SlotsKept ==
    ASSUME ~MayRepeat
    PROVE  SlotsSpec => []SlotsInv
<1>1. SlotsInit => SlotsInv
  <2> SUFFICES ASSUME SlotsInit
               PROVE  SlotsInv
    OBVIOUS
  <2> DEFINE root == [props |-> <<>>, num_own |-> 0, edges |-> <<>>]
             fresh == [shape |-> 1, values |-> <<>>, dict |-> <<>>, spilled |-> FALSE]
  <2>1. shapes = <<root>> /\ objects = [o \in Objects |-> fresh] /\ building = Objects /\ calls = 0
    BY DEF SlotsInit
  <2>2. <<>> \in EdgeMaps /\ <<>> \in Dicts
    <3>1. <<>> \in [{} -> Nat] /\ <<>> \in [{} -> Entries]
      OBVIOUS
    <3> QED
      BY <3>1 DEF EdgeMaps, Dicts
  <2>3. root \in Shapes
    BY <2>2 DEF Shapes
  <2>4. fresh \in Holders
    BY <2>2 DEF Holders
  <2>5. shapes \in Seq(Shapes) /\ Len(shapes) = 1 /\ DOMAIN shapes = {1} /\ shapes[1] = root
    BY <2>1, <2>3
  <2>6. root.props = <<>> /\ root.num_own = 0 /\ DOMAIN root.edges = {} /\ DOMAIN root.props = {}
    OBVIOUS
  <2>7. fresh.shape = 1 /\ Len(fresh.values) = 0 /\ DOMAIN fresh.dict = {}
    OBVIOUS
  <2> HIDE DEF root, fresh
  <2>8. SlotsCounted(root)
    BY <2>6 DEF SlotsCounted
  <2>9. \A k, attrs : edge(shapes, 1, k, attrs) = 0
    BY <2>5, <2>6 DEF edge
  <2>10. TableOK(shapes)
    BY <2>5, <2>6, <2>8, <2>9 DEF TableOK
  <2>11. Fits(fresh, root)
    BY <2>6, <2>7 DEF Fits
  <2>12. \A o \in Objects : objects[o] = fresh
    BY <2>1
  <2>13. objects \in [Objects -> Holders]
    BY <2>1, <2>4
  <2> QED
    BY <2>1, <2>5, <2>7, <2>10, <2>11, <2>12, <2>13, SlotsAssumption DEF SlotsInv
<1>2. SlotsInv /\ [SlotsNext]_slotVars => SlotsInv'
  <2> SUFFICES ASSUME SlotsInv, [SlotsNext]_slotVars
               PROVE  SlotsInv'
    OBVIOUS
  <2>1. \A d \in Definitions : d[1] \in GettersSetters /\ d[2] \in GettersSetters
    BY SlotsAssumption
  <2>2. CASE \E o \in Objects : Publish(o)
    <3>1. UNCHANGED <<shapes, objects, calls>> /\ building' \subseteq building
      BY <2>2 DEF Publish
    <3> QED
      BY <3>1 DEF SlotsInv
  <2>3. CASE \E o \in Objects, k \in Keys :
                set_property(o, k) \/ ordinary_set(o, k) \/ op_define_method(o, k)
    BY <2>3, StoresKeep
  <2>4. CASE \E o \in Objects, k \in Keys :
                \/ ordinary_define_own_property(o, k)
                \/ delete_property(o, k) \/ ordinary_delete(o, k)
    BY <2>4, DefineOwnKeeps, DeletesKeep
  <2>5. CASE \E o \in Objects, k \in Keys, d \in Definitions, attrs \in {BUILTIN, ENUMERABLE_ACCESSOR} :
                op_define_accessor(o, k, d[1], d[2], attrs)
    BY <2>1, <2>5, OpDefineKeeps
  <2>6. CASE \E o \in Objects, k \in Keys, d \in Definitions : DefineAccessor(o, k, d[1], d[2])
    BY <2>1, <2>6, DefineAccessorKeeps
  <2>7. CASE \E o \in Objects, k \in Keys, writable \in BOOLEAN : DefineData(o, k, writable)
    BY <2>7, DefineDataKeeps
  <2>8. CASE UNCHANGED slotVars
    BY <2>8 DEF slotVars, SlotsInv
  <2> QED
    BY <2>2, <2>3, <2>4, <2>5, <2>6, <2>7, <2>8 DEF SlotsNext
<1> QED
  BY <1>1, <1>2, PTL DEF SlotsSpec

\* Every slot that the shape or the dictionary of an object names is one of its
\* values (gc.rs, define_accessor and update_data_attrs; property.rs, spill): for
\* every number of objects and names, wherever dictionaries start, however many
\* shapes and calls.
THEOREM SlotsAreAddressable ==
    ASSUME ~MayRepeat
    PROVE  SlotsSpec => []SlotsAddressable
<1>1. SlotsInv => SlotsAddressable
  <2> SUFFICES ASSUME SlotsInv
               PROVE  SlotsAddressable
    OBVIOUS
  <2>1. SlotsWithin
    BY DEF SlotsInv, Fits, SlotsWithin
  <2>2. \A s \in DOMAIN shapes : \A i \in DOMAIN shapes[s].props :
           /\ shapes[s].props[i].key \in Keys
           /\ {shapes[s].props[i].get, shapes[s].props[i].set} \subseteq GettersSetters
    BY ShapeParts DEF SlotsInv, Props
  <2>3. \A s \in DOMAIN shapes : \A e \in DOMAIN shapes[s].edges :
           shapes[s].edges[e] \in s + 1..Len(shapes)
    <3> SUFFICES ASSUME NEW s \in DOMAIN shapes, NEW e \in DOMAIN shapes[s].edges
                 PROVE  shapes[s].edges[e] \in s + 1..Len(shapes)
      OBVIOUS
    <3>1. shapes[s].edges \in EdgeMaps
      BY ShapeParts DEF SlotsInv, Shapes
    <3>2. PICK k \in Keys, attrs \in AttrSets : e = <<k, attrs>>
      BY <3>1 DEF EdgeMaps
    <3>3. edge(shapes, s, k, attrs) = shapes[s].edges[e] /\ shapes[s].edges[e] # 0
      BY <3>2 DEF edge, SlotsInv, TableOK
    <3> QED
      BY <3>3 DEF SlotsInv, TableOK
  <2>4. \A o \in Objects :
           /\ objects[o].shape \in DOMAIN shapes
           /\ \A i \in DOMAIN objects[o].values : objects[o].values[i] \in {Stored, NoValue}
           /\ objects[o].spilled \/ DOMAIN objects[o].dict = {}
    <3> TAKE o \in Objects
    <3>1. objects[o].values \in Seq(Values)
      BY ObjectOK
    <3> QED
      BY <3>1 DEF SlotsInv, Values
  <2> QED
    BY <2>1, <2>2, <2>3, <2>4 DEF SlotsInv, SlotTypes, SlotsAddressable
<1> QED
  BY <1>1, SlotsKept, PTL
=============================================================================
