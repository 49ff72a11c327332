---------------------------- MODULE Combinators ----------------------------
(***************************************************************************)
(* One call of a Promise combinator: Promise.all, allSettled, any and      *)
(* race, which the interpreter streams over an iterator                    *)
(* (call_setup.rs, run_promise_combinator) with the bookkeeping in the     *)
(* engine (promise.rs, mod combinator); allKeyed and allSettledKeyed,      *)
(* which the engine runs by itself (keyed_combinator); Promise.try and     *)
(* Promise.withResolvers, which share NewPromiseCapability with them.      *)
(*                                                                         *)
(* Everything the loop reads or calls is user code: the constructor, its   *)
(* `resolve`, the iterator, each element's `then`, and, for a receiver     *)
(* that is a subclass, the capability's two functions.  While any of it    *)
(* runs, and at any time after the loop is over, the element handlers that *)
(* have been handed out may be called: synchronously, late, twice, or      *)
(* never.  `pc` is where the loop stands; `stack` holds the calls of the   *)
(* capability's functions that have not returned.                          *)
(*                                                                         *)
(* A payload is only what the properties tell apart: which half of an      *)
(* element's pair wrote it, and whether the capability was handed the      *)
(* values, the errors, values of which some are undefined where an outcome *)
(* should be ("lacking"), an element's own value or a reason.              *)
(***************************************************************************)
EXTENDS Integers, Sequences, FiniteSets

CONSTANTS
    Kinds,        \* the operations that may be called
    MaxElements,  \* the bound on the elements the iterator yields
    MaxNesting    \* the bound on unreturned calls of the capability's functions

VARIABLES
    kind,       \* the operation called, or "none"
    pair,       \* the capability record: [used, resolve, reject]
    cap,        \* whose functions the pair holds: "native" or "user"
    pc,         \* where the operation stands
    iter,       \* the iterator: "none", "open", "exhausted", "failed", "closed"
    index,      \* the element the loop is at
    remaining,  \* SLOT_REMAINING
    counted,    \* the elements `step` has counted
    handed,     \* the elements whose handlers `then` was called with, or that
                \* a keyed combinator watches
    already,    \* the alreadyCalled records that are set; of a watched input,
                \* that its record was taken and its job has run
    entries,    \* SLOT_RESULTS, or SLOT_ERRORS for any
    told,       \* what the operation called the capability's functions with
    promise,    \* the aggregate, when the pair is the engine's own
    stack       \* calls of the capability's functions that have not returned

vars == <<kind, pair, cap, pc, iter, index, remaining, counted, handed, already,
          entries, told, promise, stack>>

Streamed == {"all", "allSettled", "any", "race"}
Keyed    == {"allKeyed", "allSettledKeyed"}
Halves   == {"fulfilled", "rejected"}
Elements == 0 .. MaxElements - 1
Hole     == "hole"

\* What the proofs assume of the constants.
ASSUME BoundsAssumption ==
    /\ Kinds \subseteq Streamed \cup Keyed \cup {"try", "withResolvers"}
    /\ MaxElements \in Nat \ {0} /\ MaxNesting \in Nat

Over     == {"idle", "returned", "threw", "panicked"}

Init == /\ kind = "none" /\ pc = "idle"
        /\ pair = [used |-> FALSE, resolve |-> FALSE, reject |-> FALSE]
        /\ cap = "native" /\ iter = "none" /\ index = 0 /\ remaining = 0
        /\ counted = {} /\ handed = {} /\ already = {}
        /\ entries = [i \in Elements |-> Hole]
        /\ told = <<>> /\ promise = "pending" /\ stack = <<>>

-----------------------------------------------------------------------------
(* The engine's bookkeeping.                                               *)

\* begin seeds the count with one: the iterator has not been exhausted.
no_token == 0                                   \* a mutant: the count starts at zero
exhaustion_token == 1

\* step counts an element for every kind but race.
counts_but_any(k) == k \notin {"race", "any"}    \* a mutant: any's elements are not counted
counts(k) == k # "race"

\* The alreadyCalled record of a handler; the two halves of an allSettled
\* element share theirs.
already_of_half(i, half) == <<i, half>>         \* a mutant: one record per half
already_of(i, half) == <<i, "both">>

\* The halves of an element's pair that are handlers of its own; the others
\* are the capability's functions.
element_handler(k) == CASE k = "all"        -> {"fulfilled"}
                        [] k = "allSettled" -> Halves
                        [] k = "any"        -> {"rejected"}
                        [] OTHER            -> {}

\* drop_unsettled: takes one off and says whether that was the last one.
drop_unsettled(n) == n - 1

\* What the arrays are handed over as.
payoff == IF kind = "any" THEN "errors" ELSE "values"

\* The function the arrays are handed to (settle_through).
settle_through == IF kind = "any" THEN "reject" ELSE "resolve"

\* What settling element i through `half` changes, as the call it makes on the
\* capability: none, or one of its functions with what it is called with.
NoCall == [fn |-> "none", what |-> "none"]

element_settled(i, half) ==
    CASE kind = "race" \/ (kind = "any" /\ half = "fulfilled") ->
            /\ UNCHANGED <<entries, remaining>>
      [] OTHER ->
            /\ entries' = [entries EXCEPT ![i] = half]
            /\ remaining' = drop_unsettled(remaining)

element_payoff(i, half) ==
    IF kind = "race" \/ (kind = "any" /\ half = "fulfilled")
    THEN [fn |-> "resolve", what |-> "value"]
    ELSE IF drop_unsettled(remaining) <= 0 THEN [fn |-> settle_through, what |-> payoff]
    ELSE NoCall

-----------------------------------------------------------------------------
(* Calls of the capability's functions.  One that belongs to the engine    *)
(* settles the aggregate, the first time, and returns; a user's function   *)
(* is free to call handlers, and to throw.                                 *)

\* by: who called it, the loop or a handler
Calls(by, call) ==
    IF call = NoCall THEN UNCHANGED <<told, promise, stack>>
    ELSE /\ Len(stack) <= MaxNesting
         /\ told' = Append(told, [fn |-> call.fn, what |-> call.what])
         /\ stack' = Append(stack, [by |-> by, fn |-> call.fn, what |-> call.what])
         /\ promise' = IF cap = "native" /\ promise = "pending"
                       THEN IF call.fn = "resolve" THEN "fulfilled" ELSE "rejected"
                       ELSE promise

\* User code runs when no call is out, or the function called is the user's.
UserCode == stack = <<>> \/ cap = "user"

\* The loop is at one of its own steps: nothing it called is still out.
At(where) == pc = where /\ stack = <<>>

loop == <<kind, pair, cap, iter, index, remaining, counted, handed, already, entries>>

\* settle_combinator's abrupt half, and IfAbruptRejectPromise everywhere else.
Rejects == Calls("loop", [fn |-> "reject", what |-> "reason"]) /\ pc' = "settling"

\* An element-processing abrupt: the iterator closes first.
AbruptElement == pc' = "closing" /\ UNCHANGED <<told, promise, stack>>

-----------------------------------------------------------------------------
(* NewPromiseCapability.                                                   *)

\* Promise.all(iterable) and its siblings; try runs its callback first.
Call(k) ==
    /\ At("idle")
    /\ kind' = k
    /\ pc' = IF k = "try" THEN "callback" ELSE IF k \in Keyed THEN "keyed" ELSE "construct"
    /\ \E c \in {"native", "user"} : (k \in Keyed => c = "native") /\ cap' = c
    /\ UNCHANGED <<pair, iter, index, remaining, counted, handed, already, entries, told, promise, stack>>

\* The receiver is not a constructor, or construct_object throws.
ConstructThrows == /\ At("construct") /\ pc' = "threw"
                   /\ UNCHANGED <<loop, told, promise, stack>>

\* The executor: the first call records the pair, a second one throws.
capability_executor(resolve, reject) ==
    /\ At("construct") /\ ~pair.used
    /\ (cap = "native" => resolve /\ reject)
    /\ pair' = [used |-> TRUE, resolve |-> resolve, reject |-> reject]
    /\ UNCHANGED <<kind, cap, pc, iter, index, remaining, counted, handed, already, entries,
                   told, promise, stack>>

\* The two IsCallable checks, then what the operation does with the pair.
Constructed ==
    /\ At("construct") /\ (cap = "native" => pair.used)
    /\ UNCHANGED <<loop>>
    /\ \/ /\ ~(pair.resolve /\ pair.reject) /\ pc' = "threw"
          /\ UNCHANGED <<told, promise, stack>>
       \/ /\ pair.resolve /\ pair.reject
          /\ CASE kind = "try" -> \* the callback's outcome reaches the pair
                    /\ \E fn \in {"resolve", "reject"} :
                          Calls("loop", [fn |-> fn, what |-> "value"])
                    /\ pc' = "settling"
               [] kind = "withResolvers" -> pc' = "returned" /\ UNCHANGED <<told, promise, stack>>
               [] OTHER -> pc' = "resolve" /\ UNCHANGED <<told, promise, stack>>

\* Promise.try: the callback returned or threw.  A result that is a promise of
\* the same constructor is the answer itself; reading its constructor may throw.
run_promise_try ==
    /\ At("callback")
    /\ pc' \in {"construct", "returned", "threw"}
    /\ UNCHANGED <<loop, told, promise, stack>>

-----------------------------------------------------------------------------
(* The loop of run_promise_combinator and stream_combinator.               *)

\* Get(C, "resolve") and its IsCallable gate.
GetPromiseResolve ==
    /\ At("resolve")
    /\ \/ /\ Rejects /\ UNCHANGED loop
       \/ /\ remaining' = exhaustion_token /\ pc' = "iterator"
          /\ UNCHANGED <<kind, pair, cap, iter, index, counted, handed, already, entries,
                         told, promise, stack>>

GetIterator ==
    /\ At("iterator")
    /\ UNCHANGED <<kind, pair, cap, index, remaining, counted, handed, already, entries>>
    /\ \/ Rejects /\ UNCHANGED iter
       \/ iter' = "open" /\ pc' = "next" /\ UNCHANGED <<told, promise, stack>>

\* next, done or value threw: the capability rejects, and nothing is closed.
NextThrows ==
    /\ At("next") /\ iter' = "failed" /\ Rejects
    /\ UNCHANGED <<kind, pair, cap, index, remaining, counted, handed, already, entries>>

settle_values ==                                \* a mutant: any keeps its token
    /\ remaining' = IF kind \in {"race", "any"} THEN remaining ELSE drop_unsettled(remaining)
    /\ Calls("loop", IF kind \notin {"race", "any"} /\ drop_unsettled(remaining) <= 0
                     THEN [fn |-> settle_through, what |-> payoff] ELSE NoCall)

\* settle: exhaustion spends the token, except for race.
settle ==
    /\ remaining' = IF kind = "race" THEN remaining ELSE drop_unsettled(remaining)
    /\ Calls("loop", IF kind # "race" /\ drop_unsettled(remaining) <= 0
                     THEN [fn |-> settle_through, what |-> payoff] ELSE NoCall)

NextDone ==
    /\ At("next") /\ iter' = "exhausted" /\ pc' = "settling" /\ settle
    /\ UNCHANGED <<kind, pair, cap, index, counted, handed, already, entries>>

NextElement ==
    /\ At("next") /\ index < MaxElements
    /\ pc' = "element"
    /\ UNCHANGED <<loop, told, promise, stack>>

\* Call(promiseResolve, C, element)
ResolveElement ==
    /\ At("element") /\ UNCHANGED loop
    /\ \/ pc' = "then" /\ UNCHANGED <<told, promise, stack>>
       \/ AbruptElement

\* GetV(nextPromise, "then"), combinator_step, and settle_element_now when
\* there is no `then` to call and the kind asks.
ReadThen(callable) ==
    /\ At("then")
    /\ counted' = IF counts(kind) THEN counted \cup {index} ELSE counted
    /\ UNCHANGED <<kind, pair, cap, iter, index, handed, already>>
    /\ LET n == IF counts(kind) THEN remaining + 1 ELSE remaining IN
       IF callable \/ kind = "allSettled"
       THEN /\ pc' = "invoke" /\ remaining' = n
            /\ UNCHANGED <<entries, told, promise, stack>>
       ELSE /\ pc' = "settlingElement"
            /\ IF kind = "all"
               THEN entries' = [entries EXCEPT ![index] = "fulfilled"] /\ remaining' = n - 1
               ELSE UNCHANGED entries /\ remaining' = n
            /\ Calls("loop", IF kind # "all" THEN [fn |-> "resolve", what |-> "value"]
                             ELSE IF n - 1 = 0 THEN [fn |-> "resolve", what |-> "values"]
                             ELSE NoCall)

ThenThrows == At("then") /\ AbruptElement /\ UNCHANGED loop

\* Invoke reads `then` again: it may have gone, or be the one that is called.
InvokeThen ==
    /\ At("invoke")
    /\ UNCHANGED <<kind, pair, cap, iter, index, remaining, counted, already, entries>>
    /\ \/ AbruptElement /\ UNCHANGED handed
       \/ /\ handed' = handed \cup {index} /\ pc' = "invoked"
          /\ UNCHANGED <<told, promise, stack>>

InvokeReturns == /\ At("invoked") /\ index' = index + 1 /\ pc' = "next"
                 /\ UNCHANGED <<kind, pair, cap, iter, remaining, counted, handed, already,
                                entries, told, promise, stack>>

InvokeThrows == At("invoked") /\ AbruptElement /\ UNCHANGED loop

CloseReturns_forgotten ==                       \* a mutant: the close is skipped
    /\ At("closing") /\ Rejects
    /\ UNCHANGED <<kind, pair, cap, iter, index, remaining, counted, handed, already, entries>>

\* op_iterator_close(iterator, true): whatever `return` does, the original
\* error wins.
CloseReturns ==
    /\ At("closing") /\ iter' = "closed" /\ Rejects
    /\ UNCHANGED <<kind, pair, cap, index, remaining, counted, handed, already, entries>>
\* The operation hands back the capability's promise.
Settled == /\ At("settling") /\ pc' = "returned"
           /\ UNCHANGED <<loop, told, promise, stack>>

ElementSettled == /\ At("settlingElement") /\ index' = index + 1 /\ pc' = "next"
                  /\ UNCHANGED <<kind, pair, cap, iter, remaining, counted, handed, already,
                                 entries, told, promise, stack>>

-----------------------------------------------------------------------------
(* The capability's functions return or throw, and user code calls the     *)
(* handlers it was given.                                                  *)

CapabilityReturns ==
    /\ stack # <<>> /\ stack' = SubSeq(stack, 1, Len(stack) - 1)
    /\ UNCHANGED <<loop, pc, told, promise>>

\* resolve_through: what resolve throws, reject is called with; what reject
\* throws reaches the caller.
CapabilityThrows ==
    /\ stack # <<>> /\ cap = "user"
    /\ LET frame == stack[Len(stack)]
           below == SubSeq(stack, 1, Len(stack) - 1) IN
       IF frame.fn = "resolve" /\ kind # "try"
       THEN /\ told' = Append(told, [fn |-> "reject", what |-> "reason"])
            /\ stack' = Append(below, [frame EXCEPT !.fn = "reject", !.what = "reason"])
            /\ UNCHANGED pc
       ELSE /\ stack' = below /\ UNCHANGED told
            /\ pc' = IF frame.by = "handler" THEN pc
                     ELSE IF pc = "settlingElement" THEN "closing" ELSE "threw"
    /\ UNCHANGED <<loop, promise>>

run_combinator_element_again(i, half) ==        \* a mutant: the flag is not read
    /\ UserCode /\ kind \in Streamed /\ i \in handed /\ half \in element_handler(kind)
    /\ already' = already \cup {already_of(i, half)}
    /\ element_settled(i, half)
    /\ Calls("handler", element_payoff(i, half))
    /\ UNCHANGED <<kind, pair, cap, pc, iter, index, counted, handed>>

\* run_combinator_element: a handler of an element is called.
run_combinator_element(i, half) ==
    /\ UserCode /\ kind \in Streamed /\ i \in handed /\ half \in element_handler(kind)
    /\ already_of(i, half) \notin already
    /\ already' = already \cup {already_of(i, half)}
    /\ element_settled(i, half)
    /\ Calls("handler", element_payoff(i, half))
    /\ UNCHANGED <<kind, pair, cap, pc, iter, index, counted, handed>>
\* The halves that are the capability's own functions settle it directly.
CallDirectly(half) ==
    /\ UserCode /\ kind \in Streamed /\ handed # {} /\ half \notin element_handler(kind)
    /\ kind # "allSettled" /\ cap = "native" /\ promise = "pending"
    /\ promise' = half
    /\ UNCHANGED <<loop, pc, told, stack>>

-----------------------------------------------------------------------------
(* The keyed combinators: every input is looked at in one go, and pending  *)
(* ones are watched by reaction records.  Such a record has three slots,   *)
(* and drain_reaction_jobs takes the first two of a record that short as   *)
(* its capability too: the job calls the watcher of the input's outcome    *)
(* and then, with the undefined that every watcher returns, the watcher of *)
(* a fulfilment.  So what was recorded is overwritten, the count goes down *)
(* once more, and either call may be the one that finds it at zero.        *)
(* `remaining` is a usize: where the build checks for overflow, going      *)
(* below zero ends the engine; elsewhere it wraps, which a negative number *)
(* stands for here.                                                        *)

keyed_combinator(inputs) ==
    LET n     == Cardinality(DOMAIN inputs)
        stops == IF kind = "allKeyed" THEN {i \in DOMAIN inputs : inputs[i] = "rejected"} ELSE {}
        seen  == {i \in DOMAIN inputs : \A j \in stops : i < j}
        now   == {i \in seen : inputs[i] # "pending"}
    IN /\ At("keyed")
       /\ counted' = DOMAIN inputs /\ index' = n
       /\ handed' = seen \ now
       /\ entries' = [i \in Elements |-> IF i \in now THEN inputs[i] ELSE Hole]
       /\ remaining' = n - Cardinality(now)
       /\ pc' = "settling"
       /\ Calls("loop", IF stops # {} THEN [fn |-> "reject", what |-> "reason"]
                        ELSE IF n = Cardinality(now) THEN [fn |-> "resolve", what |-> "values"]
                        ELSE NoCall)
       /\ UNCHANGED <<kind, pair, cap, iter, already>>

\* The receiver is not a constructor, or a getter of an input throws; the
\* argument is not an object, which rejects.
keyed_gives_up ==
    /\ At("keyed") /\ UNCHANGED loop
    /\ \/ Rejects
       \/ pc' = "threw" /\ UNCHANGED <<told, promise, stack>>

\* A watched input settles and its record's job runs: the watcher of `half`,
\* then the one of a fulfilment once more.  allKeyed's rejection watcher leaves
\* entry and count alone.
KeyedInputSettles(i, half) ==
    LET refuses == kind = "allKeyed" /\ half = "rejected"
        drops   == IF refuses THEN 1 ELSE 2
        whole   == remaining = 1 /\ \A j \in 0 .. index - 1 : j # i => entries[j] \in Halves
    IN /\ At("returned") /\ kind \in Keyed /\ i \in handed
       /\ already_of(i, half) \notin already
       /\ already' = already \cup {already_of(i, half)}
       /\ entries' = [entries EXCEPT ![i] = "undefined"]
       /\ remaining' = remaining - drops
       /\ Calls("handler",
                IF promise # "pending" THEN NoCall
                ELSE IF refuses THEN [fn |-> "reject", what |-> "reason"]
                ELSE IF remaining \notin 1 .. drops THEN NoCall
                ELSE [fn |-> "resolve", what |-> IF whole THEN "values" ELSE "lacking"])
       /\ \/ pc' = pc
          \/ remaining >= 0 /\ remaining' < 0 /\ pc' = "panicked"
       /\ UNCHANGED <<kind, pair, cap, iter, index, counted, handed>>

-----------------------------------------------------------------------------
Next ==
    \/ \E k \in Kinds : Call(k)
    \/ ConstructThrows
    \/ \E resolve, reject \in BOOLEAN : capability_executor(resolve, reject)
    \/ Constructed \/ run_promise_try
    \/ GetPromiseResolve \/ GetIterator
    \/ NextThrows \/ NextDone \/ NextElement
    \/ ResolveElement \/ ThenThrows
    \/ \E callable \in BOOLEAN : ReadThen(callable)
    \/ InvokeThen \/ InvokeReturns \/ InvokeThrows \/ CloseReturns
    \/ Settled \/ ElementSettled
    \/ CapabilityReturns \/ CapabilityThrows
    \/ \E i \in Elements, half \in Halves :
          run_combinator_element(i, half) \/ KeyedInputSettles(i, half)
    \/ \E half \in Halves : CallDirectly(half)
    \/ keyed_gives_up
    \/ \E n \in 0 .. MaxElements :
          \E inputs \in [0 .. n - 1 -> {"fulfilled", "rejected", "pending"}] :
             keyed_combinator(inputs)

Spec == Init /\ [][Next]_vars

-----------------------------------------------------------------------------
(* Properties.                                                             *)

Handed(what) == {n \in DOMAIN told : told[n].what = what}
Payoffs == Handed("values") \cup Handed("errors") \cup Handed("lacking")

\* The state has its types; the count of a streamed combinator in particular
\* never goes below zero (drop_unsettled, promise.rs), and only a keyed one can
\* end the engine.
TypeOK ==
    /\ kind \in Kinds \cup {"none"} /\ cap \in {"native", "user"}
    /\ pair \in [used : BOOLEAN, resolve : BOOLEAN, reject : BOOLEAN]
    /\ iter \in {"none", "open", "exhausted", "failed", "closed"}
    /\ pc \in Over \cup {"callback", "keyed", "construct", "resolve", "iterator", "next", "element", "then",
                         "invoke", "invoked", "closing", "settling", "settlingElement"}
    /\ index \in 0 .. MaxElements /\ remaining \in -2 * MaxElements .. MaxElements + 1
    /\ remaining < 0 \/ pc = "panicked" => kind \in Keyed
    /\ counted \subseteq Elements /\ handed \subseteq Elements
    /\ entries \in [Elements -> Halves \cup {"undefined", Hole}]
    /\ promise \in Halves \cup {"pending"}

\* SLOT_REMAINING is the elements counted and not yet recorded, and the
\* exhaustion token while the iterator has not run out: whatever order, and
\* however often, the handlers are called.
CountsUnsettled ==
    kind \in Streamed \ {"race"} /\ iter # "none" =>
        remaining = Cardinality({i \in counted : entries[i] = Hole})
                    + (IF iter = "exhausted" THEN 0 ELSE exhaustion_token)

\* The array of values, or of errors, is handed over at most once; a streamed
\* one only when the iterator ran out, and without a hole: no handler is still
\* to write to it, and a call that was abandoned never hands it over.  A keyed
\* one lacks no outcome as long as at most one input had to be watched; with
\* two or more the code hands it over too early (KeyedInputSettles).
PayoffOnceAndWhole ==
    /\ Cardinality(Payoffs) <= 1
    /\ kind \in Streamed /\ Payoffs # {} => /\ iter = "exhausted"
                                           /\ \A i \in 0 .. index - 1 : entries[i] # Hole
    /\ kind \in Keyed /\ Cardinality(handed) <= 1 => Handed("lacking") = {}

\* When the iterator ran out and every element's outcome is recorded, the
\* array has been handed over, and when every watched input's job has run the
\* aggregate is settled, although the count skips zero: it is not left waiting
\* for a settlement that nobody will make.
NothingForgotten ==
    /\ kind \in {"all", "allSettled", "any"} /\ pc = "returned" /\ iter = "exhausted"
          /\ (\A i \in counted : entries[i] # Hole)
       => Payoffs # {}
    /\ kind \in Keyed /\ pc \in {"returned", "panicked"}
          /\ (\A i \in handed : already_of(i, "fulfilled") \in already)
       => promise # "pending"

\* Once the pair is known to be callable, everything that goes wrong in the
\* loop becomes a call of reject (IfAbruptRejectPromise), after the iterator
\* was closed when an element was to blame; only a user's own function can
\* make the operation throw.
AbruptBecomesRejection ==
    /\ pc \in {"returned", "threw"} => iter # "open"
    /\ pc = "threw" /\ pair.resolve /\ pair.reject /\ kind \in Streamed /\ iter # "none" => cap = "user"
    /\ pc = "returned" /\ kind \in Streamed /\ iter # "exhausted" =>
          \E n \in DOMAIN told : told[n] = [fn |-> "reject", what |-> "reason"]

\* A combinator hands its array over once, whole and not before its iterator
\* ran out, does not forget to, and counts exactly what is open; whatever goes
\* wrong on the way rejects its promise (promise.rs, the streamed and keyed
\* combinators).
CombinatorsSettle ==
    /\ TypeOK /\ CountsUnsettled /\ PayoffOnceAndWhole
    /\ NothingForgotten /\ AbruptBecomesRejection

\* What is recorded for an element of a streamed combinator stays: the half
\* that was called first wins, the two halves of an allSettled element together.
\* A keyed one overwrites what it recorded (KeyedInputSettles).
FirstHalfWinsStep ==
    kind \in Streamed => \A i \in Elements : entries[i] # Hole => entries'[i] = entries[i]
FirstHalfWins == [][FirstHalfWinsStep]_vars
=============================================================================
