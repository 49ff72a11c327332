----------------------------- MODULE ArrayStore -----------------------------
(***************************************************************************)
(* An array: its element store (v12-heap, elements.rs), which climbs a     *)
(* lattice of representations and escapes to a dictionary, its `length`    *)
(* (slot 0 of its properties), and the methods of Array.prototype, written *)
(* over snapshots of the store and index-by-index reads and writes.        *)
(*                                                                         *)
(* `want` is what the language says the array is: the sequence of its      *)
(* slots, a hole where there is no element.  Every method is one line on   *)
(* that sequence; what the code does with its store must agree.            *)
(*                                                                         *)
(* A value is a pair of the class the write path sorts it into and an      *)
(* identity; a small integer that lands in a store of doubles comes back   *)
(* as the double of the same number.                                       *)
(***************************************************************************)
EXTENDS Integers, SequencesExt, FiniteSetsExt

CONSTANTS
    MaxLength,          \* no call makes an array longer than this
    MaxGap,             \* MAX_FAST_ELEMENT_GAP, 64 in the source
    DictionaryIndex,    \* ELEMENTS_TO_DICTIONARY_INDEX, 1024 in the source
    BucketOrder,        \* the order a dictionary's hash map yields its keys in
    Absent              \* an argument that was not passed

VARIABLES
    object,     \* the array: kind and at (its store), length, lapse
    want,       \* the slots the language gives it
    agreed      \* the last call's answer was the language's

vars == <<object, want, agreed>>

Smi == <<"smi", 1>>
Double == <<"double", 2>>
Undefined == <<"other", 0>>
Hole == <<"hole", 0>>
Values == {Smi, Double, Undefined}
Indices == 0..MaxLength - 1

\* A number is the same number in either encoding.
Visible(v) == IF v[1] = "smi" THEN <<"double", v[2]>> ELSE v

Upto(a, b) == [k \in 1..(IF b < a THEN 0 ELSE b - a + 1) |-> a + k - 1]

Least(a, b) == IF a < b THEN a ELSE b
Most(a, b) == IF a < b THEN b ELSE a

-----------------------------------------------------------------------------
(* The store.                                                              *)

Lattice == <<"PackedSmi", "HoleySmi", "PackedDouble", "HoleyDouble",
             "PackedObject", "HoleyObject", "Dictionary">>

rank(kind) == CHOOSE r \in DOMAIN Lattice : Lattice[r] = kind

is_holey(kind) == kind \in {"HoleySmi", "HoleyDouble", "HoleyObject"}

to_holey(kind) ==
    CASE kind = "PackedSmi" -> "HoleySmi"
      [] kind = "PackedDouble" -> "HoleyDouble"
      [] kind = "PackedObject" -> "HoleyObject"
      [] OTHER -> kind

\* The flat rungs keep indices 0..fast_len-1; a dictionary the keys it has.
fast_len(o) == IF o.kind = "Dictionary" THEN 0 ELSE Cardinality(DOMAIN o.at)

store_len(o) ==
    IF o.kind # "Dictionary" THEN fast_len(o)
    ELSE IF DOMAIN o.at = {} THEN 0 ELSE Max(DOMAIN o.at) + 1

\* The rung that admits the value, no lower than the current one.
minimum(kind, v) ==
    CASE v[1] = "hole" -> to_holey(kind)
      [] v[1] = "smi" -> kind
      [] v[1] = "double" -> IF is_holey(kind) THEN "HoleyDouble" ELSE "PackedDouble"
      [] v[1] = "other" -> IF is_holey(kind) THEN "HoleyObject" ELSE "PackedObject"

\* MUTANT: a gap is forgotten when the value does not itself ask for holes.
plan_gapless(o, i, v) ==
    IF \/ o.kind = "Dictionary"
       \/ i >= DictionaryIndex
       \/ i - store_len(o) > MaxGap
    THEN "Dictionary"
    ELSE IF rank(minimum(o.kind, v)) > rank(o.kind)
         THEN minimum(o.kind, v) ELSE o.kind

plan(o, i, v) ==
    LET most == IF rank(minimum(o.kind, v)) > rank(o.kind)
                THEN minimum(o.kind, v) ELSE o.kind
    IN  IF \/ o.kind = "Dictionary"
           \/ i >= DictionaryIndex
           \/ i - store_len(o) > MaxGap
        THEN "Dictionary"
        ELSE IF i > fast_len(o) THEN to_holey(most) ELSE most

\* Doubles absorb small integers; a dictionary takes no holes over.
convert_to(o, kind) ==
    LET kept == IF kind = "Dictionary" /\ o.kind # "Dictionary"
                THEN {i \in DOMAIN o.at : o.at[i] # Hole} ELSE DOMAIN o.at
    IN  [o EXCEPT !.kind = kind,
                  !.at = [i \in kept |->
                            IF kind \in {"PackedDouble", "HoleyDouble"}
                            THEN Visible(o.at[i]) ELSE o.at[i]]]

fill_gaps(o, len) ==
    IF ~is_holey(o.kind) THEN o
    ELSE [o EXCEPT !.at = [i \in DOMAIN o.at \cup 0..len - 1 |->
                             IF i \in DOMAIN o.at THEN o.at[i] ELSE Hole]]

\* A write past the end is a push, wherever the index pointed.
put_at(at, i, v) ==
    LET k == IF i \in DOMAIN at THEN i ELSE Cardinality(DOMAIN at)
    IN  [j \in DOMAIN at \cup {k} |-> IF j = k THEN v ELSE at[j]]

set_element(o, i, v) ==
    LET kind == plan(o, i, v)
        ready == fill_gaps(IF kind = o.kind THEN o ELSE convert_to(o, kind), i)
    IN  IF kind = "Dictionary"
        THEN [ready EXCEPT !.at = [j \in DOMAIN ready.at \cup {i} |->
                                     IF j = i THEN v ELSE ready.at[j]]]
        ELSE [ready EXCEPT !.at = put_at(@, i,
                 IF kind \in {"PackedDouble", "HoleyDouble"} THEN Visible(v) ELSE v)]

delete_element(o, i) == set_element(o, i, Hole)

\* The flat rungs answer a hole with "nothing"; the dictionary answers with
\* what it holds, and a deleted entry holds the hole itself.
get_element(o, i) == IF i \in DOMAIN o.at THEN o.at[i] ELSE Hole

\* The stored values one after another: by position, or as a hash map yields.
elements_snapshot(o) ==
    LET keys == IF o.kind = "Dictionary"
                THEN SelectSeq(BucketOrder, LAMBDA i : i \in DOMAIN o.at)
                ELSE Upto(0, fast_len(o) - 1)
    IN  [k \in DOMAIN keys |-> o.at[keys[k]]]

\* Every entry with its index, in index order; the flat rungs skip holes, the
\* dictionary does not.
dense_entries(o) ==
    SelectSeq(Upto(0, store_len(o) - 1), LAMBDA i :
        i \in DOMAIN o.at /\ (o.kind = "Dictionary" \/ o.at[i] # Hole))

NewObject(len) ==
    [kind |-> "PackedSmi", at |-> <<>>, length |-> len, lapse |-> FALSE]

\* JsObject::array: the elements one by one, `length` their number.
Stored(o, slots) ==
    FoldLeft(LAMBDA acc, k : set_element(acc, k - 1, slots[k]),
             [o EXCEPT !.kind = "PackedSmi", !.at = [i \in {} |-> Hole]],
             Upto(1, Len(slots)))

NewArray(slots) == Stored(NewObject(Len(slots)), slots)

\* JsObject::array_sparse: a length and no element.
ArraySparse(len) == [NewObject(len) EXCEPT !.at = [i \in {} |-> Hole]]

\* A snapshot of a dictionary has lost the positions: from there on this model
\* no longer compares (the source is wrong: README, section 5).
Snapped(o) == [o EXCEPT !.lapse = @ \/ o.kind = "Dictionary"]

replace_elements(o, values) == Stored(o, values)

-----------------------------------------------------------------------------
(* The plumbing of the array methods.                                      *)

\* array_like_len: `length` through [[Get]], which on an array is slot 0.
array_like_len(o) == o.length

Present(o, i) == get_element(o, i) # Hole

\* index_get: the element, or undefined and absent (Array.prototype holds no
\* elements here).
index_get(o, i) == get_element(o, i)

\* The value of index_get as pop, shift and at return it, without its flag of
\* presence: undefined for what is not there, but a deleted entry of a dictionary
\* is there, and its value is the hole itself.
deleted_entry(o, i) == o.kind = "Dictionary" /\ i \in DOMAIN o.at /\ o.at[i] = Hole

value_at(o, i) ==
    IF deleted_entry(o, i) \/ Present(o, i) THEN get_element(o, i) ELSE Undefined

\* index_set on an array writes the store and leaves `length` to the caller.
index_set(o, i, v) == set_element(o, i, v)

write_slot(o, i, slot) ==
    IF slot = Hole THEN delete_element(o, i) ELSE index_set(o, i, slot)

\* array_set_element, the interpreter's write: `length` rises and never falls.
array_set_element(o, i, v) ==
    [set_element(o, i, v) EXCEPT !.length = Most(@, i + 1)]

\* The slots from start to end, taken from the snapshot by position.
array_slots(o, start, end) ==
    LET all == elements_snapshot(o)
    IN  [k \in 1..Most(end - start, 0) |->
           IF start + k <= Len(all) THEN all[start + k] ELSE Hole]

\* Write `length`, then drop what the store holds beyond it.
set_array_len(o, len) ==
    LET kept == elements_snapshot(o)
    IN  IF len >= array_like_len(o) THEN [o EXCEPT !.length = len]
        ELSE [replace_elements(Snapped(o), SubSeq(kept, 1, Least(len, Len(kept))))
                EXCEPT !.length = len]

relative_index(n, len, default) ==
    IF n = Absent THEN default
    ELSE IF n < 0 THEN Most(len + n, 0) ELSE Least(n, len)

\* Copy the slots from..to-1 to the indices shifted by `by`, in the given order.
Move(o, order, by) ==
    FoldLeft(LAMBDA acc, k : write_slot(acc, k + by, index_get(acc, k)), o, order)

WriteAll(o, first, slots) ==
    FoldLeft(LAMBDA acc, k : write_slot(acc, first + k - 1, slots[k]), o,
             Upto(1, Len(slots)))

DeleteAll(o, order) == FoldLeft(delete_element, o, order)

-----------------------------------------------------------------------------
(* What the language says, on the sequence of slots.                       *)

Holes(n) == [k \in 1..n |-> Hole]

Resized(slots, n) ==
    IF n <= Len(slots) THEN SubSeq(slots, 1, n)
    ELSE slots \o Holes(n - Len(slots))

Shown(slots) == [k \in DOMAIN slots |-> Visible(slots[k])]

With(slots, i, v) == [Resized(slots, Most(Len(slots), i + 1)) EXCEPT ![i + 1] = Visible(v)]

Filled(v) == IF v = Hole THEN Undefined ELSE v

\* Numbers in the order of their texts, then the undefined ones, then holes.
Sorted(slots) ==
    LET only(v) == SelectSeq(slots, LAMBDA s : s = v)
    IN  only(Visible(Smi)) \o only(Double) \o only(Undefined) \o only(Hole)

Spliced(slots, start, count, items) ==
    SubSeq(slots, 1, start) \o Shown(items) \o SubSeq(slots, start + count + 1, Len(slots))

FirstAt(slots, v, from) ==
    LET found == {k \in from..Len(slots) - 1 : slots[k + 1] = Visible(v)}
    IN  IF found = {} THEN -1 ELSE Min(found)

LastAt(slots, v, from) ==
    LET found == {k \in 0..Least(from, Len(slots) - 1) : slots[k + 1] = Visible(v)}
    IN  IF found = {} THEN -1 ELSE Max(found)

-----------------------------------------------------------------------------
(* Calls.                                                                  *)

length == array_like_len(object)
Running == ~object.lapse

Becomes(o, slots) == object' = o /\ want' = slots

Answers(given, due) == agreed' = (given = due)
Silent == agreed' = agreed

\* The answer is the value at an index.  The hole of a deleted entry reaches the
\* program, which should see undefined: that answer alone is not compared (the
\* source is wrong: README, section 5).
AnswersWithValueAt(i, slot) ==
    IF deleted_entry(object, i) THEN Silent
    ELSE Answers(Visible(value_at(object, i)), Filled(slot))

\* The array is replaced by the one a method returned.
Init ==
    /\ \E slots \in {<<>>, <<Smi, Hole, Undefined>>, <<Double, Smi>>} :
          object = NewArray(slots) /\ want = Shown(slots)
    /\ agreed = TRUE

Construct ==
    /\ \E n \in 0..MaxLength :
          Becomes(ArraySparse(n), Holes(n))
    /\ Silent

\* a[i] = v: over an element or past everything, both end in the same write.
Assign ==
    /\ \E i \in Indices, v \in Values :
          Becomes(array_set_element(object, i, v), With(want, i, v))
    /\ Silent

\* delete a[i], of any index, also of one the array never had.
Delete ==
    /\ \E i \in Indices :
          Becomes(delete_element(object, i),
                  IF i < Len(want) THEN [want EXCEPT ![i + 1] = Hole] ELSE want)
    /\ Silent

\* a.length = n is an ordinary write of a data slot.
AssignLength ==
    /\ \E n \in 0..MaxLength :
          /\ Becomes([object EXCEPT !.length = n,
                        !.lapse = \E i \in DOMAIN object.at : i >= n /\ Present(object, i)],
                     Resized(want, n))
    /\ Silent

\* apply_array_length: Object.defineProperty(a, "length", {value: n}).
DefineLength ==
    /\ \E n \in 0..MaxLength :
         LET cut == DeleteAll(object, Reverse(Upto(n, length - 1)))
             kept == elements_snapshot(cut)
         IN  Becomes(IF n >= length THEN [object EXCEPT !.length = n]
                     ELSE [replace_elements(Snapped(cut), SubSeq(kept, 1, Least(n, Len(kept))))
                             EXCEPT !.length = n],
                     Resized(want, n))
    /\ Silent

\* The native paths (Reflect.set, Object.defineProperty of an index) write the
\* store only.
NativeSet ==
    /\ \E i \in Indices, v \in Values :
          Becomes([set_element(object, i, v) EXCEPT !.lapse = i >= length],
                  With(want, i, v))
    /\ Silent

push ==
    \E items \in {<<Smi>>, <<Undefined, Double>>} :
       /\ length + Len(items) <= MaxLength
       /\ Becomes(set_array_len(WriteAll(object, length, items), length + Len(items)),
                  want \o Shown(items))
       /\ Silent

pop ==
    IF length = 0 THEN Becomes(set_array_len(object, 0), want) /\ Silent
    ELSE /\ Becomes(set_array_len(delete_element(object, length - 1), length - 1),
                    Front(want))
         /\ AnswersWithValueAt(length - 1, Last(want))

shift ==
    /\ length > 0
    /\ Becomes(set_array_len(delete_element(Move(object, Upto(1, length - 1), -1),
                                            length - 1), length - 1),
               Tail(want))
    /\ AnswersWithValueAt(0, Head(want))

unshift ==
    \E items \in {<<Smi>>, <<Undefined, Double>>} :
       /\ length + Len(items) <= MaxLength
       /\ Becomes(set_array_len(
                     WriteAll(Move(object, Reverse(Upto(0, length - 1)), Len(items)), 0, items),
                     length + Len(items)),
                  Shown(items) \o want)
       /\ Silent

\* splice(start, count, ...items): shift the tail down or up, write the items.
splice ==
    \E n \in {-1, 0, 1}, c \in {Absent, 0, 1, 2}, items \in {<<>>, <<Smi>>, <<Double, Undefined>>} :
      LET start == relative_index(n, length, 0)
          count == IF c = Absent THEN length - start ELSE Least(c, length - start)
          tail == Upto(start + count, length - 1)
          by == Len(items) - count
          moved ==
            CASE by < 0 -> DeleteAll(Move(object, tail, by), Upto(length + by, length - 1))
              [] by > 0 -> Move(object, Reverse(tail), by)
              [] OTHER -> object
      IN  /\ c = Absent => items = <<>>
          /\ length + by <= MaxLength
          /\ Becomes(set_array_len(WriteAll(moved, start, items), length + by),
                     Spliced(want, start, count, items))
          /\ Answers(Shown([k \in 1..count |-> index_get(object, start + k - 1)]),
                     SubSeq(want, start + 1, start + count))

\* Read every slot, write them back the other way round; a hole is a deletion.
reverse ==
    /\ Becomes(WriteAll(Snapped(object), 0, Reverse(array_slots(object, 0, length))),
               Reverse(want))
    /\ Silent

\* The elements sorted, then the undefined ones; an array without holes is
\* replaced wholesale, another is written and its tail deleted.  A comparator
\* may push one element while the sort holds the length it read before.
sort ==
    \E pushed \in {<<>>, <<Smi>>} :
      LET present == SelectSeq([k \in 1..length |-> index_get(object, k - 1)],
                               LAMBDA v : v # Hole)
          class(v) == SelectSeq(present, LAMBDA u : Visible(u) = Visible(v))
          sorted == class(Smi) \o class(Double) \o class(Undefined)
          n == Len(sorted)
          grown == FoldLeft(LAMBDA o, v : array_set_element(o, o.length, v), object, pushed)
          whole == n = length
      IN  /\ length + Len(pushed) <= MaxLength
          /\ Becomes(IF whole
                     THEN [replace_elements(grown, sorted) EXCEPT !.lapse = pushed # <<>>]
                     ELSE DeleteAll(WriteAll(grown, 0, sorted), Upto(n, length - 1)),
                     Sorted(want) \o Shown(pushed))
          /\ Silent

fill ==
    \E v \in Values, s \in {Absent, -1, 1}, e \in {Absent, -1, 2} :
      LET start == relative_index(s, length, 0)
          end == relative_index(e, length, length)
      IN  /\ Becomes(FoldLeft(LAMBDA o, i : index_set(o, i, v), object, Upto(start, end - 1)),
                     [k \in DOMAIN want |->
                        IF k > start /\ k <= end THEN Visible(v) ELSE want[k]])
          /\ Silent

\* The source slots are read first, so an overlap does no harm.
copyWithin ==
    \E t \in {0, 1, -1}, s \in {0, 1, -2}, e \in {Absent, 2} :
      LET target == relative_index(t, length, 0)
          start == relative_index(s, length, 0)
          end == relative_index(e, length, length)
          count == Least(end - start, length - target)
          read == [k \in 1..Most(count, 0) |-> index_get(object, start + k - 1)]
      IN  /\ Becomes(IF target >= length \/ start >= end THEN object
                     ELSE WriteAll(object, target, read),
                     [k \in DOMAIN want |->
                        IF k > target /\ k <= target + count
                        THEN want[k - target + start] ELSE want[k]])
          /\ Silent

\* slice: the array goes on as the slice of itself.
slice ==
    \E s \in {Absent, 1, -2}, e \in {Absent, 2, -1} :
      LET start == relative_index(s, length, 0)
          end == relative_index(e, length, length)
      IN  /\ Becomes([NewArray(array_slots(object, start, end))
                        EXCEPT !.lapse = Snapped(object).lapse],
                     SubSeq(want, start + 1, end))
          /\ Silent

\* concat with itself and one more element.
concat ==
    /\ 2 * length < MaxLength
    /\ LET slots == array_slots(object, 0, length)
       IN  Becomes([NewArray(slots \o slots \o <<Smi>>)
                      EXCEPT !.lapse = Snapped(object).lapse],
                   want \o want \o <<Visible(Smi)>>)
    /\ Silent

\* Array.from: an array-like's holes become undefined elements.
from ==
    LET slots == array_slots(object, 0, length)
        items == [k \in DOMAIN slots |-> Filled(slots[k])]
    IN  /\ Becomes([set_array_len(NewArray(items), length)
                      EXCEPT !.lapse = Snapped(object).lapse],
                   [k \in DOMAIN want |-> Filled(want[k])])
        /\ Silent

\* [...a]: op_array_append copies the snapshot, not what iteration would give:
\* a hole stays a hole, and slots the store does not reach are lost.
spread ==
    LET all == elements_snapshot(object)
        copy == FoldLeft(LAMBDA o, v : set_element(o, store_len(o), v), NewArray(<<>>), all)
    IN  /\ Becomes([copy EXCEPT !.length = Len(all),
                                !.lapse = \/ Snapped(object).lapse
                                          \/ Len(all) # length
                                          \/ \E k \in DOMAIN want : want[k] = Hole],
                   [k \in DOMAIN want |-> Filled(want[k])])
        /\ Silent

\* indexOf, lastIndexOf and includes walk the entries the store has.
search ==
    \E v \in Values, f \in {Absent, 1, -1} :
      LET first == relative_index(f, length, 0)
          last == relative_index(f, length, length - 1)
          entries == dense_entries(object)
          same(i) == Visible(object.at[i]) = Visible(v)
          up == SelectSeq(entries, LAMBDA i : i >= first /\ i < length)
          hits == SelectSeq(up, same)
          down == SelectSeq(entries, LAMBDA i : i <= last /\ i < length /\ same(i))
          includes == hits # <<>> \/ (v = Undefined /\ length - first > Len(up))
      IN  /\ f # Absent => length >= 1
          /\ \/ Answers(IF hits = <<>> THEN -1 ELSE Head(hits), FirstAt(want, v, first))
             \/ Answers(IF down = <<>> THEN -1 ELSE Last(down), LastAt(want, v, last))
             \* A deleted dictionary entry is counted as present here.
             \/ /\ \A i \in DOMAIN object.at : object.kind = "Dictionary" => Present(object, i)
                /\ Answers(includes,
                           \E k \in first..length - 1 : Filled(want[k + 1]) = Visible(v)
                                                        \/ want[k + 1] = Visible(v))
          /\ UNCHANGED <<object, want>>

\* at(n): below -length the clamp answers with element 0 (README, section 5).
at ==
    \E n \in -2..2 :
      LET i == relative_index(n, length, 0)
      IN  /\ n >= -length
          /\ IF i >= length THEN Answers(Undefined, Undefined)
             ELSE AnswersWithValueAt(i, want[i + 1])
          /\ UNCHANGED <<object, want>>

Next ==
    /\ Running
    /\ \/ Construct \/ Assign \/ Delete \/ AssignLength \/ DefineLength \/ NativeSet
       \/ push \/ pop \/ shift \/ unshift \/ splice
       \/ reverse \/ sort \/ fill \/ copyWithin
       \/ slice \/ concat \/ from \/ spread \/ search \/ at

Spec == Init /\ [][Next]_vars

-----------------------------------------------------------------------------
(* Properties.                                                             *)

\* Every flat rung is contiguous and holds what it may hold: a packed one no
\* hole, a rung of small integers or of doubles nothing else.
TypeOK ==
    /\ object.length \in 0..MaxLength
    /\ object.kind # "Dictionary" => DOMAIN object.at = 0..fast_len(object) - 1
    /\ \A i \in DOMAIN object.at :
         LET class == object.at[i][1]
         IN  CASE object.kind = "PackedSmi" -> class = "smi"
               [] object.kind = "HoleySmi" -> class \in {"smi", "hole"}
               [] object.kind = "PackedDouble" -> class = "double"
               [] object.kind = "HoleyDouble" -> class \in {"double", "hole"}
               [] object.kind = "PackedObject" -> class # "hole"
               [] OTHER -> TRUE

\* The array is the one the language describes: `length` is the number of its
\* slots, an index reads its slot or nothing, whatever representation the
\* store went through; nothing is left beyond `length` to come back when it
\* grows; and every answer given was the right one.
ArrayAsWritten ==
    ~object.lapse =>
      /\ object.length = Len(want)
      /\ \A i \in DOMAIN object.at :
           Visible(object.at[i]) = (IF i < Len(want) THEN want[i + 1] ELSE Hole)
      /\ \A k \in DOMAIN want : want[k] # Hole => k - 1 \in DOMAIN object.at
      /\ agreed

=============================================================================
