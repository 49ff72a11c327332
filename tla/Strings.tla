------------------------------- MODULE Strings -------------------------------
(***************************************************************************)
(* Heap strings (v12-heap, string.rs and the string half of gc.rs): flat   *)
(* leaves in one of two encodings, lazy concatenations and windows over    *)
(* other strings, flattening in place, content hashes computed once, and   *)
(* the table of canonical strings, which is a root of the collector.       *)
(*                                                                         *)
(* A code unit is a small integer; those in Narrow fit Latin-1.  The       *)
(* content hash is a modulus small enough for different texts to collide,  *)
(* as FNV-1a's 32 bits do.  Collection marks from the strings the program  *)
(* holds and the canonical ones and frees the rest at once: slots are      *)
(* reused, lowest first.                                                   *)
(***************************************************************************)
EXTENDS Integers, SequencesExt, FiniteSetsExt

CONSTANTS
    MaxStrings,     \* bound: slots of the string space
    MaxMade,        \* bound: strings allocated
    MaxUnits,       \* bound: length of a string
    Literals,       \* flat stores the program can write: [form, units]
    Narrow,         \* the code units that fit a Latin-1 byte
    EagerMax,       \* CONCAT_EAGER_FLATTEN_MAX_UNITS, 128 in the source
    RopeMaxDepth    \* ROPE_MAX_DEPTH, 64 in the source

VARIABLES
    strings,    \* slot -> V12Str: its storage and cached hash, or Free
    held,       \* the slots the program holds roots to
    interned,   \* hash -> the canonical strings of that hash, oldest first
    text,       \* slot -> the text the string was made to mean
    made        \* strings allocated so far

vars == <<strings, held, interned, text, made>>

Slots == 1..MaxStrings
None == -1
Buckets == 0..1
Flat == {"latin1", "utf16"}

Str(form, units, parts, start, len) ==
    [form |-> form, units |-> units, parts |-> parts, start |-> start, len |-> len,
     hash |-> None]
Free == Str("free", <<>>, <<>>, 0, 0)
Leaf(store) == Str(store.form, store.units, <<>>, 0, Len(store.units))

Live == {h \in Slots : strings[h].form # "free"}
is_flat(s) == s.form \in Flat

-----------------------------------------------------------------------------
(* Walking a composite: a stack of windows, left part popped first.        *)

Task(node, skip, take) == [node |-> node, skip |-> skip, take |-> take]

\* The children of a concatenation that [skip, skip + take) reaches into.
\* MUTANT: the right child is read from the window's own offset.
queue_cons_range_unshifted(heap, s, skip, take) ==
    LET left == heap[s.parts[1]].len
        end == skip + take
    IN  (IF end > left THEN <<Task(s.parts[2], 0, end - Max({left, skip}))>> ELSE <<>>)
        \o (IF Min({left, end}) > skip
            THEN <<Task(s.parts[1], skip, Min({left, end}) - skip)>> ELSE <<>>)

queue_cons_range(heap, s, skip, take) ==
    LET left == heap[s.parts[1]].len
        end == skip + take
    IN  (IF end > left
         THEN <<Task(s.parts[2], Max({0, skip - left}), end - Max({left, skip}))>> ELSE <<>>)
        \o (IF Min({left, end}) > skip
            THEN <<Task(s.parts[1], skip, Min({left, end}) - skip)>> ELSE <<>>)

\* A window over a string: its leaf run, or the windows below it.
leaf_window(s, skip, take) ==
    [wide |-> s.form = "utf16", units |-> SubSeq(s.units, skip + 1, skip + take)]

Below(heap, s, skip, take) ==
    IF s.form = "cons" THEN queue_cons_range(heap, s, skip, take)
    ELSE <<Task(s.parts[1], s.start + skip, take)>>

RECURSIVE walk_leaves(_, _, _)
walk_leaves(heap, stack, runs) ==
    IF stack = <<>> THEN runs
    ELSE LET task == Last(stack)
             s == heap[task.node]
         IN  IF is_flat(s)
             THEN walk_leaves(heap, Front(stack), Append(runs, leaf_window(s, task.skip, task.take)))
             ELSE walk_leaves(heap, Front(stack) \o Below(heap, s, task.skip, task.take), runs)

\* One flat store: Latin-1 only if every leaf it reached is.
materialize(heap, s) ==
    LET runs == IF s.len = 0 THEN <<>>
                ELSE IF is_flat(s) THEN <<leaf_window(s, 0, s.len)>>
                ELSE walk_leaves(heap, Below(heap, s, 0, s.len), <<>>)
    IN  [form |-> IF \E k \in DOMAIN runs : runs[k].wide THEN "utf16" ELSE "latin1",
         units |-> FlattenSeq([k \in DOMAIN runs |-> runs[k].units])]

\* The streaming hash over the units, the same for both encodings.
content_hash(units) == FoldLeft(LAMBDA h, u : (h + u) % 2, 0, units)

\* A flat leaf counts one, a composite one more than its deepest part.
RECURSIVE rope_depth(_, _)
rope_depth(heap, h) ==
    IF heap[h].parts = <<>> THEN 1
    ELSE 1 + Max({rope_depth(heap, p) : p \in Range(heap[h].parts)})

-----------------------------------------------------------------------------
(* Allocation, concatenation and windows.                                  *)

Room == Live # Slots /\ made < MaxMade
NewSlot == Min(Slots \ Live)

Allocated(s, meaning) ==
    /\ strings' = [strings EXCEPT ![NewSlot] = s]
    /\ text' = [text EXCEPT ![NewSlot] = meaning]
    /\ held' = held \cup {NewSlot}
    /\ made' = made + 1

Literal ==
    /\ Room
    /\ \E store \in Literals : Allocated(Leaf(store), store.units)
    /\ UNCHANGED interned

\* Flattening keeps the cached hash: the text did not change.
Flattened(heap, h) ==
    IF is_flat(heap[h]) THEN heap[h]
    ELSE [Leaf(materialize(heap, heap[h])) EXCEPT !.hash = heap[h].hash]

\* A short result, or one over too deep a rope, is flattened at once.
concat ==
    /\ Room
    /\ \E l \in held, r \in held :
         LET total == strings[l].len + strings[r].len
             node == Str("cons", <<>>, <<l, r>>, 0, total)
             heap == [strings EXCEPT ![NewSlot] = node]
         IN  /\ total <= MaxUnits
             /\ Allocated(IF total <= EagerMax \/ rope_depth(heap, NewSlot) > RopeMaxDepth
                          THEN Flattened(heap, NewSlot) ELSE node,
                          text[l] \o text[r])
    /\ UNCHANGED interned

\* The bounds are checked before anything is allocated.
slice_string ==
    /\ Room
    /\ \E p \in held, start \in 0..MaxUnits, len \in 0..MaxUnits :
         /\ start + len <= strings[p].len
         /\ Allocated(Str("sliced", <<>>, <<p>>, start, len), SubSeq(text[p], start + 1, start + len))
    /\ UNCHANGED interned

flatten ==
    /\ \E h \in held : ~is_flat(strings[h]) /\ strings' = [strings EXCEPT ![h] = Flattened(strings, h)]
    /\ UNCHANGED <<held, interned, text, made>>

string_hash ==
    /\ \E h \in held :
         /\ strings[h].hash = None
         /\ strings' = [strings EXCEPT ![h].hash = content_hash(materialize(strings, strings[h]).units)]
    /\ UNCHANGED <<held, interned, text, made>>

-----------------------------------------------------------------------------
(* Equality and canonical strings.                                         *)

\* The units decide, whatever the encodings.
\* MUTANT: the stores are compared as they are.
flat_units_equal_stored(a, b) == a.form = b.form /\ a.units = b.units

flat_units_equal(a, b) == a.units = b.units

strings_equal(a, b) ==
    \/ a = b
    \/ /\ strings[a].len = strings[b].len
       /\ flat_units_equal(materialize(strings, strings[a]), materialize(strings, strings[b]))

\* The canonical string of a text: found in its bucket, or allocated flat with
\* its hash.
Canonical(flat, h) == flat_units_equal(flat, strings[h])

intern_string ==
    /\ \E src \in held :
         LET flat == materialize(strings, strings[src])
             hash == content_hash(flat.units)
             found == SelectSeq(interned[hash], LAMBDA h : Canonical(flat, h))
         IN  IF found # <<>>
             THEN held' = held \cup {found[1]} /\ UNCHANGED <<strings, interned, text, made>>
             ELSE /\ Room
                  /\ Allocated([Leaf(flat) EXCEPT !.hash = hash], text[src])
                  /\ interned' = [interned EXCEPT ![hash] = Append(@, NewSlot)]

-----------------------------------------------------------------------------
(* Collection.                                                             *)

\* A composite keeps its parts alive, and only it does.
\* MUTANT: a window does not keep its parent.
Trace_cons_only(s) == IF s.form = "cons" THEN Range(s.parts) ELSE {}

Trace(s) == Range(s.parts)

RECURSIVE Marked(_)
Marked(set) ==
    LET more == set \cup UNION {Trace(strings[h]) : h \in set}
    IN  IF more = set THEN set ELSE Marked(more)

Roots == held \cup UNION {Range(interned[b]) : b \in Buckets}

force_collect ==
    /\ \E h \in Live : h \notin Marked(Roots)
    /\ strings' = [h \in Slots |-> IF h \in Marked(Roots) THEN strings[h] ELSE Free]
    /\ text' = [h \in Slots |-> IF h \in Marked(Roots) THEN text[h] ELSE <<>>]
    /\ UNCHANGED <<held, interned, made>>

\* The program drops its last reference to a string.
Drop ==
    /\ \E h \in held : held' = held \ {h}
    /\ UNCHANGED <<strings, interned, text, made>>

Init ==
    /\ strings = [h \in Slots |-> Free]
    /\ held = {}
    /\ interned = [b \in Buckets |-> <<>>]
    /\ text = [h \in Slots |-> <<>>]
    /\ made = 0

Next ==
    \/ Literal \/ concat \/ slice_string \/ flatten \/ string_hash \/ intern_string
    \/ force_collect \/ Drop

Spec == Init /\ [][Next]_vars

-----------------------------------------------------------------------------
(* Properties.                                                             *)

TypeOK ==
    /\ held \subseteq Live
    /\ \A h \in Live :
         /\ strings[h].len \in 0..MaxUnits
         /\ strings[h].form = "latin1" => Range(strings[h].units) \subseteq Narrow

\* A string means its text for as long as it lives: through windows of windows
\* and concatenations, flattened or not, whatever else was collected and whose
\* slot was reused; a cached hash is the hash of that text.
TextKept ==
    \A h \in Live :
      /\ Range(strings[h].parts) \subseteq Live
      /\ materialize(strings, strings[h]).units = text[h]
      /\ strings[h].len = Len(text[h])
      /\ strings[h].hash \in {None, content_hash(text[h])}

\* Equality is equality of text, over every pair of representations; equal
\* texts have one canonical string, flat, alive and found under its hash.
OneCanonical ==
    /\ \A a, b \in Live : strings_equal(a, b) <=> text[a] = text[b]
    /\ \A b \in Buckets :
         LET members == interned[b]
         IN  /\ \A k \in DOMAIN members :
                  /\ members[k] \in Live /\ is_flat(strings[members[k]])
                  /\ strings[members[k]].hash = b
             /\ \A j, k \in DOMAIN members :
                  text[members[j]] = text[members[k]] => j = k

StringsKept == TypeOK /\ TextKept /\ OneCanonical

\* The source says of ropes that their depth is bounded by ROPE_MAX_DEPTH.
DepthBounded == \A h \in Live : rope_depth(strings, h) <= RopeMaxDepth

=============================================================================
