----------------------------- MODULE Iteration -----------------------------
(***************************************************************************)
(* Iterators and their helpers (builtins/iterator.rs, builtins/map.rs, and *)
(* the iterator half of call_setup.rs): an array, Map or Set that script   *)
(* changes while it is iterated, or an iterator script wrote; a chain of   *)
(* lazy helpers over it (take, drop, map, filter, flatMap, windows,        *)
(* chunks); and a consumer at the end (forEach, some, every, find, reduce, *)
(* toArray, the Map and Set constructors, IteratorToList).                 *)
(*                                                                         *)
(* Two executors step the same helpers: the engine's iterator_next, which  *)
(* runs no script and is one step here, and the interpreter's              *)
(* step_helper_wrapper, whose `next` and callback calls run script.  What  *)
(* that one keeps in locals across a call is a frame of `stack`.           *)
(*                                                                         *)
(* Entries are numbered as they are inserted, so an entry deleted and      *)
(* added again is another number; a value is the sequence of the entries   *)
(* it was made from, which makes a group a value like any other.           *)
(***************************************************************************)
EXTENDS Integers, Sequences, FiniteSets

CONSTANTS
    Chains,      \* the chains built: sequences of [kind, arg, partial]
    Bases,       \* the sources: subsets of {"array", "map", "set", "object"}
    Consumers,
    MaxEntries,  \* the bound on insertions
    MaxCalls,    \* the bound on calls script makes
    MayReenter   \* whether script called by a chain calls into the chain

\* What the instances assume of the constants.
BoundsAssumption == MaxEntries \in Nat /\ MaxCalls \in Nat /\ MayReenter \in BOOLEAN

VARIABLES
    base,     \* the kind of the source
    store,    \* its entries, Hole where one was deleted
    inserted, \* how many entries were ever inserted
    chain,    \* the iterators: chain[1] walks the store, chain[l + 1] pulls from chain[l]
    stack,    \* the calls under way
    closes,   \* IteratorClose calls that reached an iterator of script's
    ended,    \* the last consumer that ended: how, and what its source had said
    calls

vars == <<base, store, inserted, chain, stack, closes, ended, calls>>

Hole    == 0
SMI_MAX == MaxEntries + 1     \* beyond every index

Limits    == {"take", "drop"}
Callbacks == {"map", "filter", "flatMap"}
Windowing == {"windows", "chunks"}
Partial   == -1               \* the boolean `true` in the slot shared with a count

Last(s)  == s[Len(s)]
Front(s) == SubSeq(s, 1, Len(s) - 1)
Min2(a, b) == IF a < b THEN a ELSE b
Flat[s \in Seq(Seq(Int))] == IF s = <<>> THEN <<>> ELSE Head(s) \o Flat[Tail(s)]

-----------------------------------------------------------------------------
(* Building a chain.                                                       *)

\* An iterator's slots, and what it has pulled and given so far.  slot is
\* SLOT_PENDING_INDEX: flatMap's cursor, or a windowing wrapper's `undersized`
\* flag until its first store, the number of values held afterwards.
Iterator(kind, arg, partial, machine) ==
    [kind |-> kind, index |-> 0, machine |-> machine, arg |-> arg,
     slot |-> IF partial THEN Partial ELSE 0, held |-> <<>>, pending |-> <<>>, open |-> FALSE,
     pulled |-> <<>>, given |-> <<>>, done |-> FALSE, threw |-> FALSE]

\* The engine steps an iterator whose chain runs no script.
engine_can_drive(built) == ~Last(built).machine

\* create_helper_iterator, create_callback_iterator, create_windowing_iterator:
\* a callback always needs the machine; windows and chunks are refused over a
\* source that does.
create_wrapper(built, spec) ==
    Append(built, Iterator(spec.kind, spec.arg, spec.partial,
                           spec.kind \in Callbacks \/ ~engine_can_drive(built)))

Buildable(b, specs) ==
    \A i \in DOMAIN specs : specs[i].kind \in Windowing =>
        b # "object" /\ \A j \in 1 .. i - 1 : specs[j].kind \notin Callbacks

Build(b, specs) ==
    LET f[i \in 0 .. Len(specs)] ==
            IF i = 0 THEN <<Iterator(b, 0, FALSE, b = "object")>> ELSE create_wrapper(f[i - 1], specs[i])
    IN f[Len(specs)]

Init ==
    /\ base \in Bases
    /\ \E specs \in Chains : Buildable(base, specs) /\ chain = Build(base, specs)
    /\ store = <<1, 2>> /\ inserted = 2
    /\ stack = <<>> /\ closes = 0 /\ ended = {} /\ calls = 0

-----------------------------------------------------------------------------
(* The store, changed by script.  Map and Set delete by leaving a hole, so *)
(* that an iterator's index stays good; an array's holes are values.       *)

map_delete_compacting(s, i) == SubSeq(s, 1, i - 1) \o SubSeq(s, i + 1, Len(s))  \* a mutant
map_delete(s, i) == [s EXCEPT ![i] = Hole]
map_clear(s) == [i \in DOMAIN s |-> Hole]
map_set(s, v) == Append(s, v)

\* Script has control: nothing runs, or a callback or a `next` of script's does.
Script == IF stack = <<>> THEN TRUE ELSE Last(stack).phase = "called"
Idle   == IF MayReenter THEN TRUE ELSE stack = <<>>

Mutate ==
    /\ Script /\ calls < MaxCalls /\ calls' = calls + 1 /\ base # "object"
    /\ \/ inserted < MaxEntries /\ store' = map_set(store, inserted + 1) /\ inserted' = inserted + 1
       \/ \E i \in DOMAIN store : /\ store[i] # Hole /\ store' = map_delete(store, i)
                                  /\ UNCHANGED inserted
       \/ store' = map_clear(store) /\ UNCHANGED inserted
    /\ UNCHANGED <<base, chain, stack, closes, ended>>

-----------------------------------------------------------------------------
(* The engine's executor.  Each operator is given the chain and a level    *)
(* and returns the chain after it, whether the answer is done, and a value. *)

Answer(ch, l, done, v) ==
    [chain |-> [ch EXCEPT ![l].given = IF done THEN @ ELSE Append(@, v), ![l].done = @ \/ done],
     done |-> done, value |-> v]

\* iterator_next over an element store: Map and Set skip the holes, and an
\* exhausted iterator stays so however the store grows.
element_next_reviving(ch) ==                    \* a mutant: the index stays at the end
    LET from == ch[1].index
        live == {i \in from + 1 .. Len(store) : base = "array" \/ store[i] # Hole}
    IN IF live = {} THEN Answer([ch EXCEPT ![1].index = Len(store)], 1, TRUE, <<>>)
       ELSE LET i == CHOOSE i \in live : \A j \in live : i <= j
            IN Answer([ch EXCEPT ![1].index = i], 1, FALSE, <<store[i]>>)

element_next(ch) ==
    LET from == ch[1].index
        live == {i \in from + 1 .. Len(store) : base = "array" \/ store[i] # Hole}
    IN IF live = {} THEN Answer([ch EXCEPT ![1].index = SMI_MAX], 1, TRUE, <<>>)
       ELSE LET i == CHOOSE i \in live : \A j \in live : i <= j
            IN Answer([ch EXCEPT ![1].index = i], 1, FALSE, <<store[i]>>)

\* What wrapper_step decides from the counter and the limit.
wrapper_step(kind, count, limit) ==
    IF kind = "take" /\ count >= limit THEN "done"
    ELSE IF kind = "drop" /\ count < limit THEN "skip" ELSE "emit"

RECURSIVE pull(_, _), discard(_, _, _), window(_, _, _)

\* One `next` of the wrapper's source, noted as pulled.
source_next(ch, l) ==
    LET r == pull(ch, l - 1)
    IN IF r.done THEN r ELSE [r EXCEPT !.chain[l].pulled = Append(@, r.value)]

\* The drop phase: the counter is written only when every discard succeeded.
discard(ch, l, n) ==
    IF n = 0 THEN [chain |-> [ch EXCEPT ![l].index = ch[l].arg], done |-> FALSE, value |-> <<>>]
    ELSE LET r == source_next(ch, l) IN IF r.done THEN r ELSE discard(r.chain, l, n - 1)

helper_wrapper_next(ch, l) ==
    LET it == ch[l]
        step == wrapper_step(it.kind, it.index, it.arg)
        skipped == discard(ch, l, it.arg - it.index)
        ready == IF step = "skip" THEN skipped ELSE [chain |-> ch, done |-> FALSE, value |-> <<>>]
    IN IF step = "done" THEN Answer(ch, l, TRUE, <<>>)
       ELSE IF ready.done THEN Answer(ready.chain, l, TRUE, <<>>)
       ELSE LET r == source_next(ready.chain, l)
            IN IF r.done THEN Answer(r.chain, l, TRUE, <<>>)
               ELSE Answer([r.chain EXCEPT ![l].index = IF it.kind = "take" THEN @ + 1 ELSE @],
                           l, FALSE, r.value)

\* store_window_buffer: the values go behind the slots, their number into the
\* slot that held the `undersized` flag.
store_window_buffer_apart(it, held) ==          \* a mutant: the flag has a slot of its own
    [it EXCEPT !.held = held, !.slot = IF it.slot = Partial THEN Partial ELSE Len(held)]
store_window_buffer(it, held) == [it EXCEPT !.held = held, !.slot = Len(held)]

\* windowing_wrapper_next: fill the buffer to the size and emit it; windows
\* keeps all but the first value, chunks none.
window(ch, l, held) ==
    LET it == ch[l]
        keep == IF it.kind = "windows" THEN Tail(held) ELSE <<>>
    IN IF Len(held) = it.arg
       THEN Answer([ch EXCEPT ![l] = store_window_buffer(it, keep)], l, FALSE, Flat[held])
       ELSE LET r == source_next(ch, l) IN
            IF ~r.done THEN window(r.chain, l, Append(held, r.value))
            ELSE IF held = <<>> \/ (it.kind = "windows" /\ it.slot # Partial)
            THEN Answer(r.chain, l, TRUE, <<>>)
            ELSE Answer([r.chain EXCEPT ![l] = store_window_buffer(r.chain[l], <<>>)],
                        l, FALSE, Flat[held])

held_values(it) == IF it.slot = Partial THEN <<>> ELSE it.held

pull(ch, l) == IF l = 1 THEN element_next(ch)
               ELSE IF ch[l].kind \in Limits THEN helper_wrapper_next(ch, l)
               ELSE window(ch, l, held_values(ch[l]))

-----------------------------------------------------------------------------
(* The machine's executor.                                                 *)

Frame(op, l) == [op |-> op, level |-> l, phase |-> "step", count |-> IF op = "wrapper" THEN chain[l].index ELSE 0,
                 limit |-> 0, skipping |-> FALSE, got |-> "none", value |-> <<>>, seeded |-> FALSE, seen |-> FALSE]

\* An answer goes to the frame that asked, or to script.
deliver(s, how, v) ==
    IF s = <<>> \/ Last(s).phase # "asked" THEN s
    ELSE Append(Front(s), [Last(s) EXCEPT !.phase = "got", !.got = how, !.value = v])

\* `next` of level l, for the calls `s`: script's own iterator is called, the
\* machine opens a frame, the engine answers at once.
ask(l, s) ==
    IF l = 1 /\ base = "object"
    THEN stack' = Append(s, [Frame("user", 1) EXCEPT !.phase = "called"]) /\ UNCHANGED chain
    ELSE IF chain[l].machine
    THEN stack' = Append(s, Frame("wrapper", l)) /\ UNCHANGED chain
    ELSE LET r == pull(chain, l)
         IN chain' = r.chain /\ stack' = deliver(s, IF r.done THEN "done" ELSE "value", r.value)

\* The frame on top answers its own caller.
finish(ch, l, how, v) ==
    LET r == Answer(ch, l, how = "done", v)
    IN chain' = (IF how = "throw" THEN [ch EXCEPT ![l].threw = TRUE] ELSE r.chain) /\ stack' = deliver(Front(stack), how, v)

\* Script calls `next` on one of the iterators.
CallNext(l) ==
    /\ Script /\ Idle /\ calls < MaxCalls /\ calls' = calls + 1
    /\ ask(l, stack)
    /\ UNCHANGED <<base, store, inserted, closes, ended>>

\* Script's own iterator answers.  A script's entry is numbered as it comes.
UserNext(how) ==
    /\ stack # <<>> /\ Last(stack).op = "user"
    /\ how = "value" => inserted < MaxEntries
    /\ inserted' = IF how = "value" THEN inserted + 1 ELSE inserted
    /\ finish(chain, 1, how, IF how = "value" THEN <<inserted + 1>> ELSE <<>>)
    /\ UNCHANGED <<base, store, closes, ended, calls>>

Top == Last(stack)
WrapperIn(phase) == stack # <<>> /\ Top.op = "wrapper" /\ Top.phase = phase
Continue(f) == stack' = Append(Front(stack), f)

\* The head of step_helper_wrapper's loop.
WrapperSteps ==
    /\ WrapperIn("step")
    /\ LET l == Top.level
           it == chain[l]
           step == wrapper_step(it.kind, Top.count, it.arg)
           asking == Append(Front(stack), [Top EXCEPT !.phase = "asked", !.skipping = step = "skip"])
       IN IF step = "done" THEN finish(chain, l, "done", <<>>)
          ELSE IF it.kind = "flatMap" /\ it.open
          THEN IF it.slot < Len(it.pending)
               THEN finish([chain EXCEPT ![l].slot = @ + 1], l, "value", it.pending[it.slot + 1])
               ELSE chain' = [chain EXCEPT ![l].open = FALSE, ![l].pending = <<>>]
                    /\ Continue([Top EXCEPT !.count = it.index])
          ELSE ask(l - 1, asking)
    /\ UNCHANGED <<base, store, inserted, closes, ended, calls>>

\* The machine's take counts on from what it read before it called the source.
counted_stuck(f) == f.count                     \* a mutant
counted(f) == f.count + 1

\* Its source has answered.
WrapperGets ==
    /\ WrapperIn("got")
    /\ LET l == Top.level
           it == chain[l]
           got == [chain EXCEPT ![l].pulled = Append(@, Top.value)]
           skipped == Top.count + 1
       IN CASE Top.got \in {"done", "throw"} -> finish(chain, l, Top.got, <<>>)
            [] Top.got = "value" /\ Top.skipping ->
                 /\ chain' = IF skipped = it.arg THEN [got EXCEPT ![l].index = skipped] ELSE got
                 /\ Continue([Top EXCEPT !.phase = "step", !.count = skipped])
            [] Top.got = "value" /\ ~Top.skipping /\ it.kind = "take" ->
                 finish([got EXCEPT ![l].index = counted(Top)], l, "value", Top.value)
            [] Top.got = "value" /\ ~Top.skipping /\ it.kind = "drop" ->
                 finish([got EXCEPT ![l].index = Top.count], l, "value", Top.value)
            [] OTHER ->
                 /\ chain' = [got EXCEPT ![l].index = Top.count + 1]
                 /\ Continue([Top EXCEPT !.phase = "called"])
    /\ UNCHANGED <<base, store, inserted, closes, ended, calls>>

\* IteratorClose of level l: the wrappers have no `return`.
close(l) == closes' = IF l = 1 /\ base = "object" THEN closes + 1 ELSE closes

\* The callback of map, filter or flatMap has returned: a truthy value that is
\* no array, a falsy one, an array, or a throw, on which the source is closed.
WrapperCallback(how) ==
    /\ WrapperIn("called")
    /\ LET l == Top.level
           it == chain[l]
       IN /\ IF how = "throw" THEN close(l - 1) ELSE UNCHANGED closes
          /\ IF how = "throw" THEN finish(chain, l, "throw", <<>>)
             ELSE IF it.kind = "filter" /\ how = "falsy"
             THEN Continue([Top EXCEPT !.phase = "step", !.count = it.index]) /\ UNCHANGED chain
             ELSE IF it.kind = "flatMap" /\ how = "array"
             THEN /\ chain' = [chain EXCEPT ![l].open = TRUE, ![l].slot = 0,
                                            ![l].pending = <<Top.value, Top.value>>]
                  /\ Continue([Top EXCEPT !.phase = "step", !.count = it.index])
             ELSE finish(chain, l, "value", Top.value)
    /\ UNCHANGED <<base, store, inserted, ended, calls>>

-----------------------------------------------------------------------------
(* The consumers.                                                          *)

Silent      == {"toArray", "list"}            \* they call nothing back
Collections == {"collection"}                 \* the Map and Set constructors: the adder is called

StartConsumer(op) ==
    /\ stack = <<>> /\ calls < MaxCalls /\ calls' = calls + 1
    /\ stack' = <<Frame(op, Len(chain))>>
    /\ UNCHANGED <<base, store, inserted, chain, closes, ended>>

ConsumerIn(phase) == stack # <<>> /\ Top.op \in Consumers /\ Top.phase = phase

ConsumerSteps ==
    /\ ConsumerIn("step")
    /\ ask(Top.level, Append(Front(stack), [Top EXCEPT !.phase = "asked"]))
    /\ UNCHANGED <<base, store, inserted, closes, ended, calls>>

End(how) ==
    /\ stack' = <<>>
    /\ ended' = {[op |-> Top.op, how |-> how, level |-> Top.level, said |-> Top.got,
                             closed |-> closes' - closes]}
    /\ UNCHANGED <<base, store, inserted, chain, calls>>

\* The source has answered.  The collection constructors close the iterator
\* also when the iterator itself threw.
close_on_source_error(op) == op \in Collections

ConsumerGets ==
    /\ ConsumerIn("got")
    /\ CASE Top.got = "done" -> UNCHANGED closes /\ End("done")
         [] Top.got = "throw" ->
              /\ IF close_on_source_error(Top.op) THEN close(Top.level) ELSE UNCHANGED closes
              /\ End("throw")
         [] OTHER ->
              /\ Continue([Top EXCEPT !.phase = IF Top.op \in Silent \/ (Top.op = "reduce" /\ ~Top.seeded)
                                                THEN "step" ELSE "called",
                                      !.seeded = TRUE])
              /\ UNCHANGED <<base, store, inserted, chain, closes, ended, calls>>

Stops(op, how) == (op \in {"some", "find"} /\ how = "truthy") \/ (op = "every" /\ how = "falsy")

\* drain_helper and consume_collection_iterable after their callback.
drain_closes_throws(op, how) == how = "throw"   \* a mutant: an early exit leaves it open
drain_closes(op, how) == Stops(op, how) \/ how = "throw"

ConsumerCallback(how) ==
    /\ ConsumerIn("called")
    /\ IF drain_closes(Top.op, how) THEN close(Top.level) ELSE UNCHANGED closes
    /\ IF Stops(Top.op, how) \/ how = "throw"
       THEN End(IF how = "throw" THEN "threw" ELSE "stopped")
       ELSE /\ Continue([Top EXCEPT !.phase = "step"])
            /\ UNCHANGED <<base, store, inserted, chain, ended, calls>>

-----------------------------------------------------------------------------
(* The callback methods that walk the store by index: forEach of Map and   *)
(* Set, until the store has no more; forEach and findLast of an array, over *)
(* the length it had, with or without the indices it does not have.        *)

Walks == {"forEach", "arrayForEach", "arrayFindLast"}

StartWalk(op) ==
    /\ stack = <<>> /\ calls < MaxCalls /\ calls' = calls + 1
    /\ base = (IF op = "forEach" THEN "set" ELSE "array")
    /\ stack' = <<[Frame(op, 1) EXCEPT !.limit = Len(store),
                                      !.count = IF op = "arrayFindLast" THEN Len(store) + 1 ELSE 0]>>
    /\ UNCHANGED <<base, store, inserted, chain, closes, ended>>

callback_index(f) ==
    CASE f.op = "forEach"       -> {i \in f.count + 1 .. Len(store) : store[i] # Hole}
      [] f.op = "arrayForEach"  -> {i \in f.count + 1 .. Min2(f.limit, Len(store)) : store[i] # Hole}
      [] f.op = "arrayFindLast" -> {f.count - 1} \ {0}

WalkSteps ==
    /\ stack # <<>> /\ Top.op \in Walks /\ Top.phase = "step"
    /\ LET at == callback_index(Top)
           i  == CHOOSE i \in at : \A j \in at : i <= j
       IN IF at = {} THEN stack' = <<>>
          ELSE Continue([Top EXCEPT !.phase = "called", !.count = i,
                                    !.value = IF i \in DOMAIN store THEN Append(@, store[i]) ELSE @])
    /\ UNCHANGED <<base, store, inserted, chain, closes, ended, calls>>

WalkCallback(how) ==
    /\ stack # <<>> /\ Top.op \in Walks /\ Top.phase = "called"
    /\ IF how = "throw" \/ (how = "truthy" /\ Top.op = "arrayFindLast")
       THEN stack' = <<>> ELSE Continue([Top EXCEPT !.phase = "step"])
    /\ UNCHANGED <<base, store, inserted, chain, closes, ended, calls>>

Next ==
    \/ Mutate
    \/ \E op \in Walks : StartWalk(op)
    \/ WalkSteps
    \/ \E how \in {"truthy", "falsy", "throw"} : WalkCallback(how)
    \/ \E l \in DOMAIN chain : CallNext(l)
    \/ \E how \in {"value", "done", "throw"} : UserNext(how)
    \/ WrapperSteps \/ WrapperGets
    \/ \E how \in {"truthy", "falsy", "array", "throw"} : WrapperCallback(how)
    \/ \E op \in Consumers : StartConsumer(op)
    \/ ConsumerSteps \/ ConsumerGets
    \/ \E how \in {"truthy", "falsy", "throw"} : ConsumerCallback(how)

Spec == Init /\ [][Next]_vars

-----------------------------------------------------------------------------
(* Properties.                                                             *)

TypeOK ==
    /\ base \in Bases /\ inserted \in 0 .. MaxEntries /\ calls \in 0 .. MaxCalls
    /\ \A i \in DOMAIN store : store[i] \in 0 .. inserted
    /\ \A l \in DOMAIN chain : chain[l].index \in 0 .. SMI_MAX /\ chain[l].slot \in Partial .. SMI_MAX
    /\ \A k \in DOMAIN stack : stack[k].level \in DOMAIN chain
    /\ \A k \in DOMAIN stack : k < Len(stack) => stack[k].phase \in {"asked", "called"}

Active(l) == \E k \in DOMAIN stack : stack[k].op = "wrapper" /\ stack[k].level = l
Sound(l)  == base # "object" /\ \A j \in 1 .. l : ~chain[j].threw
Takes(it) == it.given = it.pulled /\ Len(it.given) <= it.arg
Drops(it) == it.given = SubSeq(it.pulled, it.arg + 1, Len(it.pulled))
Maps(it)  == it.given = it.pulled
Filters(it) == \A v \in {it.given[i] : i \in DOMAIN it.given} : \E i \in DOMAIN it.pulled : it.pulled[i] = v
Chunks(it) ==
    /\ Flat[it.given] \o Flat[it.held] = Flat[it.pulled] \/ it.done
    /\ \A i \in DOMAIN it.given :
          it.given[i] = Flat[SubSeq(it.pulled, (i - 1) * it.arg + 1, Min2(i * it.arg, Len(it.pulled)))]
Windows(it) ==
    IF Len(it.pulled) < it.arg
    THEN \A i \in DOMAIN it.given : it.given[i] = Flat[it.pulled]
    ELSE /\ Len(it.given) = Len(it.pulled) - it.arg + 1
         /\ \A i \in DOMAIN it.given : it.given[i] = Flat[SubSeq(it.pulled, i, i + it.arg - 1)]

\* What a helper has given out is what its kind makes of what it pulled: take a
\* prefix no longer than its limit, drop all but the first values, windows
\* every full group and a short one only when there was no full one, chunks
\* every value once; in either executor, whatever script does to the source
\* between two calls (wrapper_step and the comment over it: "the two
\* executors ... can never drift apart").
GivesWhatItPulled ==
    \A l \in 2 .. Len(chain) :
        LET it == chain[l] IN
        Sound(l) /\ ~Active(l) =>
            CASE it.kind = "take" -> Takes(it)
              [] it.kind = "drop" -> Drops(it)
              [] it.kind = "map" -> Maps(it)
              [] it.kind \in {"filter", "flatMap"} -> Filters(it)
              [] it.kind = "chunks" -> Chunks(it)
              [] it.kind = "windows" -> Windows(it)

\* A consumer that stops early or whose callback throws closes the iterator
\* once; one that came to the end, or whose iterator threw, does not (drain_helper,
\* iterator_to_list; the collection constructors close after a throwing
\* `next`, too).
ClosedWhenAbandoned ==
    \A e \in ended :
        base = "object" /\ e.level = 1 =>
            e.closed = IF e.how \in {"stopped", "threw"} THEN 1
                       ELSE IF e.how = "throw" /\ e.op \in Collections THEN 1 ELSE 0

Entry(v) == v[1]

\* Walking a Map or a Set that script changes gives the entries in insertion
\* order, none twice, and has given every entry still there when it says done
\* (iterator_next, and delete and clear in map.rs, which leave holes).
EveryEntryOnce ==
    base \in {"map", "set"} =>
        LET given == chain'[1].given IN
        /\ \A i \in 2 .. Len(given) : Entry(given[i - 1]) < Entry(given[i])
        /\ ~chain[1].done /\ chain'[1].done =>
              \A i \in DOMAIN store : store[i] # Hole => \E k \in DOMAIN given : Entry(given[k]) = store[i]

\* An iterator over one of the engine's own sources that has said done gives
\* nothing any more, also when the source grows ("a `take` past its limit and a
\* `drop` over a drained source both keep answering `done`").
DoneIsFinal == base # "object" => \A l \in DOMAIN chain : chain[l].done => chain'[l].given = chain[l].given

\* forEach of a Map or a Set, too, has called back for every entry still there
\* when it ends by itself.
ForEachSeesAll ==
    WalkSteps /\ Top.op = "forEach" /\ stack' = <<>> =>
        \A i \in DOMAIN store : store[i] # Hole => \E k \in DOMAIN Top.value : Top.value[k] = store[i]

WalksOnceStep == EveryEntryOnce /\ DoneIsFinal /\ ForEachSeesAll
WalksOnce == [][WalksOnceStep]_vars

\* "no more than `limit` values are ever pulled from `this`" (iterator_take).
TakeKeepsToItsLimit ==
    \A l \in DOMAIN chain : chain[l].kind = "take" => Len(chain[l].pulled) <= chain[l].arg
=============================================================================
