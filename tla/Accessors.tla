----------------------------- MODULE Accessors ------------------------------
(***************************************************************************)
(* Accessor properties and the per-object dictionary.  An accessor lives   *)
(* in the shape, where objects that share the shape share its functions;   *)
(* it takes a slot number but no value.  An object that has too many       *)
(* properties, or whose property turned from data to accessor or back,     *)
(* spills to a dictionary of its own while its shape stays as it was.      *)
(*                                                                         *)
(* Two front doors change one object: the interpreter (set_property,       *)
(* delete_property, op_define_accessor, op_define_method) and the native   *)
(* internal methods (apply_property_descriptor, ordinary_set,              *)
(* ordinary_delete, ordinary_define_own_property).  Prototypes, integrity  *)
(* levels and caches are the business of PropertyStore.                    *)
(***************************************************************************)
EXTENDS Integers, Sequences, FiniteSets

CONSTANTS
    Objects, Keys,
    Functions,      \* getters and setters
    Nobody,         \* the half an accessor does not have
    Definitions,    \* pairs of getter and setter a program defines together
    NoValue,        \* what a slot holds that nothing is stored in
    SpillAt,        \* NAMED_DICT_THRESHOLD, 128 in the source
    MaxShapes, MaxCalls,    \* bounds
    MayRepeat       \* a literal may give one name a value and an accessor

VARIABLES
    shapes,     \* the shapes in order of allocation, the root first
    objects,    \* shape, values and dictionary of each object
    building,   \* objects whose literal or class body is being evaluated
    calls       \* operations so far

slotVars == <<shapes, objects, building, calls>>

Stored == "stored"
NoSlot == -1
GettersSetters == Functions \cup {Nobody}

\* What the proofs assume of the constants.
ASSUME SlotsAssumption ==
    /\ Definitions \subseteq GettersSetters \X GettersSetters
    /\ MaxCalls \in Nat /\ MayRepeat \in BOOLEAN

\* Attributes as the set of the bits that are on.
DEFAULT == {"writable", "enumerable", "configurable"}
BUILTIN == {"writable", "configurable"}
ENUMERABLE_ACCESSOR == {"enumerable", "configurable"}

Data(k, slot, attrs) == [key |-> k, slot |-> slot, get |-> Nobody, set |-> Nobody, attrs |-> attrs]
Accessor(k, g, s, attrs) == [key |-> k, slot |-> NoSlot, get |-> g, set |-> s, attrs |-> attrs]
is_accessor(d) == d.slot = NoSlot

\* The place of the first descriptor of the name, 0 when there is none.
find(props, k) ==
    IF \E i \in DOMAIN props : props[i].key = k
    THEN CHOOSE i \in DOMAIN props :
            props[i].key = k /\ \A j \in 1..i - 1 : props[j].key # k
    ELSE 0

-----------------------------------------------------------------------------
(* Shapes.  Each operation yields the table and the shape to bind.         *)

edge(ss, parent, k, attrs) ==
    IF <<k, attrs>> \in DOMAIN ss[parent].edges THEN ss[parent].edges[<<k, attrs>>] ELSE 0

child(ss, parent, k, attrs, props, num_own) ==
    [shapes |-> Append([ss EXCEPT ![parent].edges =
                           [e \in DOMAIN @ \cup {<<k, attrs>>} |->
                              IF e = <<k, attrs>> THEN Len(ss) + 1 ELSE @[e]]],
                       [props |-> props, num_own |-> num_own, edges |-> <<>>]),
     shape |-> Len(ss) + 1]

add_property(ss, parent, k, attrs) ==
    IF edge(ss, parent, k, attrs) # 0
    THEN [shapes |-> ss, shape |-> edge(ss, parent, k, attrs)]
    ELSE child(ss, parent, k, attrs,
               Append(ss[parent].props, Data(k, ss[parent].num_own, attrs)),
               ss[parent].num_own + 1)

\* An accessor that becomes data takes slot num_own without counting it.
update_data_attrs(ss, parent, k, attrs) ==
    LET props == ss[parent].props
        i == find(props, k)
        slot == IF i # 0 /\ ~is_accessor(props[i]) THEN props[i].slot ELSE ss[parent].num_own
    IN  IF edge(ss, parent, k, attrs) # 0
        THEN [shapes |-> ss, shape |-> edge(ss, parent, k, attrs)]
        ELSE IF i = 0
        THEN child(ss, parent, k, attrs, Append(props, Data(k, slot, attrs)),
                   ss[parent].num_own + 1)
        ELSE child(ss, parent, k, attrs, [props EXCEPT ![i] = Data(k, slot, attrs)],
                   ss[parent].num_own)

Or(new, old) == IF new = Nobody THEN old ELSE new

\* The halves of an accessor meet in the shape they are defined on, whoever
\* else is bound to it.
merge(ss, s, k, g, t, attrs) ==
    LET i == find(ss[s].props, k)
    IN  [shapes |-> [ss EXCEPT ![s].props[i] =
                        Accessor(k, Or(g, @.get), Or(t, @.set),
                                 IF Or(g, @.get) = @.get /\ Or(t, @.set) = @.set
                                 THEN @.attrs ELSE attrs)],
         shape |-> s]

HasAccessor(ss, s, k) ==
    LET i == find(ss[s].props, k) IN i # 0 /\ is_accessor(ss[s].props[i])

define_accessor(ss, parent, k, g, t, attrs) ==
    LET e == edge(ss, parent, k, attrs)
    IN  IF e # 0 /\ HasAccessor(ss, e, k) THEN merge(ss, e, k, g, t, attrs)
        ELSE IF e = 0 /\ HasAccessor(ss, parent, k) THEN merge(ss, parent, k, g, t, attrs)
        ELSE child(ss, parent, k, attrs,
                   Append(ss[parent].props, Accessor(k, g, t, attrs)),
                   ss[parent].num_own + 1)

-----------------------------------------------------------------------------
(* Objects.                                                                *)

resized(values, len) ==
    [i \in 1..(IF Len(values) < len THEN len ELSE Len(values)) |->
        IF i \in DOMAIN values THEN values[i] ELSE NoValue]

\* Slots count from 0.
put(values, slot, v) == [resized(values, slot + 1) EXCEPT ![slot + 1] = v]

at(o, slot) == IF slot + 1 \in DOMAIN o.values THEN o.values[slot + 1] ELSE NoValue

Entry(slot, g, s, accessor, attrs) ==
    [slot |-> slot, get |-> g, set |-> s, accessor |-> accessor, attrs |-> attrs]

file(o, k, entry) ==
    [o EXCEPT !.dict = [j \in DOMAIN @ \cup {k} |-> IF j = k THEN entry ELSE @[j]],
              !.spilled = TRUE]

dict_insert(o, k, attrs) ==
    [file(o, k, Entry(Len(o.values), Nobody, Nobody, FALSE, attrs))
        EXCEPT !.values = Append(@, Stored)]

convert_key_to_accessor(o, k, g, s, attrs) ==
    [file(o, k, Entry(Len(o.values), g, s, TRUE, attrs)) EXCEPT !.values = Append(@, NoValue)]

convert_key_to_data(o, k, attrs) == dict_insert(o, k, attrs)

InDict(o, k) == k \in DOMAIN o.dict
InShape(o, k) == find(shapes[o.shape].props, k) # 0
Descriptor(o, k) == shapes[o.shape].props[find(shapes[o.shape].props, k)]

Absent == <<"absent">>

\* What a descriptor query sees: the dictionary first, then the shape.
ordinary_own_descriptor(o, k) ==
    IF InDict(o, k)
    THEN LET e == o.dict[k]
         IN  IF e.accessor THEN <<"accessor", e.get, e.set>>
             ELSE IF at(o, e.slot) = NoValue THEN Absent ELSE <<"data">>
    ELSE IF ~InShape(o, k) THEN Absent
    ELSE LET d == Descriptor(o, k)
         IN  IF is_accessor(d) THEN <<"accessor", d.get, d.set>>
             ELSE IF at(o, d.slot) = NoValue THEN Absent ELSE <<"data">>

views == [o \in Objects, k \in Keys |-> ordinary_own_descriptor(objects[o], k)]

-----------------------------------------------------------------------------
SlotsInit ==
    /\ shapes = <<[props |-> <<>>, num_own |-> 0, edges |-> <<>>]>>
    /\ objects = [o \in Objects |->
                    [shape |-> 1, values |-> <<>>, dict |-> <<>>, spilled |-> FALSE]]
    /\ building = Objects
    /\ calls = 0

Becomes(o, made, object) ==
    /\ Len(made.shapes) <= MaxShapes
    /\ calls < MaxCalls
    /\ calls' = calls + 1
    /\ shapes' = made.shapes
    /\ objects' = [objects EXCEPT ![o] = [object EXCEPT !.shape = made.shape]]
    /\ UNCHANGED building

\* The object changes and no shape does.
Keeps(o, object) == Becomes(o, [shapes |-> shapes, shape |-> objects[o].shape], object)

\* MUTANT: an accessor stores nothing, so no slot is reserved for it.
reserve_nothing(made, object) == object

reserve(made, object) ==
    [object EXCEPT !.values = resized(@, made.shapes[made.shape].num_own)]

\* DefineAccessor of a class, DefineAccessorEnumerable of a literal.
op_define_accessor(o, k, g, s, attrs) ==
    /\ o \in building
    /\ InShape(objects[o], k) /\ ~MayRepeat => is_accessor(Descriptor(objects[o], k))
    /\ LET made == define_accessor(shapes, objects[o].shape, k, g, s, attrs)
       IN  Becomes(o, made, reserve(made, objects[o]))

op_define_method(o, k) ==
    LET ob == objects[o]
    IN  /\ o \in building
        /\ IF InShape(ob, k)
           THEN /\ ~is_accessor(Descriptor(ob, k))
                /\ LET d == Descriptor(ob, k)
                       made == IF d.attrs = BUILTIN THEN [shapes |-> shapes, shape |-> ob.shape]
                               ELSE update_data_attrs(shapes, ob.shape, k, BUILTIN)
                   IN  Becomes(o, made, [ob EXCEPT !.values = put(@, d.slot, Stored)])
           ELSE Becomes(o, add_property(shapes, ob.shape, k, BUILTIN),
                        [ob EXCEPT !.values = Append(@, Stored)])

\* The literal or the class is done: the program has the object.
Publish(o) ==
    /\ o \in building
    /\ building' = building \ {o}
    /\ UNCHANGED <<shapes, objects, calls>>

\* A store to a name the object does not have.  Only the native doors look
\* at the number of properties.
SetNew(o, k, native) ==
    LET ob == objects[o]
    IN  IF ob.spilled \/ (native /\ shapes[ob.shape].num_own >= SpillAt)
        THEN Keeps(o, dict_insert(ob, k, DEFAULT))
        ELSE Becomes(o, add_property(shapes, ob.shape, k, DEFAULT),
                     [ob EXCEPT !.values = Append(@, Stored)])

\* The interpreter's store; a setter that runs changes nothing here.
set_property(o, k) ==
    LET ob == objects[o]
    IN  IF InShape(ob, k)
        THEN /\ ~is_accessor(Descriptor(ob, k))
             /\ "writable" \in Descriptor(ob, k).attrs
             /\ Keeps(o, [ob EXCEPT !.values = put(@, Descriptor(ob, k).slot, Stored)])
        ELSE IF InDict(ob, k)
        THEN /\ ~ob.dict[k].accessor
             /\ "writable" \in ob.dict[k].attrs
             /\ Keeps(o, [ob EXCEPT !.values = put(@, ob.dict[k].slot, Stored)])
        ELSE SetNew(o, k, FALSE)

\* The native store; it asks the dictionary before the shape.
ordinary_set(o, k) ==
    LET ob == objects[o]
    IN  /\ o \notin building
        /\ IF InDict(ob, k)
           THEN /\ ~ob.dict[k].accessor
                /\ "writable" \in ob.dict[k].attrs
                /\ Keeps(o, [ob EXCEPT !.values = put(@, ob.dict[k].slot, Stored)])
           ELSE IF InShape(ob, k)
           THEN /\ ~is_accessor(Descriptor(ob, k))
                /\ "writable" \in Descriptor(ob, k).attrs
                /\ Keeps(o, [ob EXCEPT !.values = put(@, Descriptor(ob, k).slot, Stored)])
           ELSE SetNew(o, k, TRUE)

\* Object.assign and its like: a data property with every attribute on.
\* An accessor stays as it is.
ordinary_define_own_property(o, k) ==
    LET ob == objects[o]
    IN  /\ o \notin building
        /\ IF InDict(ob, k)
           THEN /\ ~ob.dict[k].accessor
                /\ "writable" \in ob.dict[k].attrs
                /\ Keeps(o, [ob EXCEPT !.values = put(@, ob.dict[k].slot, Stored),
                                       !.dict[k].attrs = DEFAULT])
           ELSE IF InShape(ob, k)
           THEN LET d == Descriptor(ob, k)
                IN  /\ ~is_accessor(d)
                    /\ "writable" \in d.attrs
                    /\ Becomes(o, IF d.attrs = DEFAULT
                                  THEN [shapes |-> shapes, shape |-> ob.shape]
                                  ELSE update_data_attrs(shapes, ob.shape, k, DEFAULT),
                               [ob EXCEPT !.values = put(@, d.slot, Stored)])
           ELSE SetNew(o, k, TRUE)

Empty(o, slot) == IF slot + 1 \in DOMAIN o.values THEN put(o.values, slot, NoValue) ELSE o.values

Unfiled(o, k) ==
    [o EXCEPT !.values = Empty(o, o.dict[k].slot),
              !.dict = [j \in DOMAIN @ \ {k} |-> @[j]]]

\* The interpreter turns a deleted accessor into an empty data property of a
\* shape of its own.
delete_property(o, k) ==
    LET ob == objects[o]
    IN  /\ o \notin building
        /\ IF InDict(ob, k) THEN Keeps(o, Unfiled(ob, k))
           ELSE /\ InShape(ob, k)
                /\ IF ~is_accessor(Descriptor(ob, k))
                   THEN Keeps(o, [ob EXCEPT !.values = put(@, Descriptor(ob, k).slot, NoValue)])
                   ELSE LET made == update_data_attrs(shapes, ob.shape, k, DEFAULT)
                            props == made.shapes[made.shape].props
                        IN  Becomes(o, made,
                                [ob EXCEPT !.values = put(@, props[find(props, k)].slot, NoValue)])

\* Reflect.deleteProperty leaves an accessor where it is.
ordinary_delete(o, k) ==
    LET ob == objects[o]
    IN  /\ o \notin building
        /\ IF InDict(ob, k) THEN Keeps(o, Unfiled(ob, k))
           ELSE /\ InShape(ob, k)
                /\ ~is_accessor(Descriptor(ob, k))
                /\ Keeps(o, [ob EXCEPT !.values = put(@, Descriptor(ob, k).slot, NoValue)])

\* An entry that is an accessor keeps the half that is not named.
refile(entry, g, s) ==
    IF entry.accessor THEN [entry EXCEPT !.get = Or(g, @), !.set = Or(s, @)]
    ELSE [entry EXCEPT !.get = g, !.set = s, !.accessor = TRUE]

\* Object.defineProperty with a getter or a setter, configurable and
\* enumerable; a half the descriptor does not name is kept.
DefineAccessor(o, k, g, s) ==
    LET ob == objects[o]
    IN  /\ o \notin building
        /\ IF InDict(ob, k)
           THEN Keeps(o, [ob EXCEPT !.dict[k] = refile(@, g, s)])
           ELSE IF InShape(ob, k)
           THEN LET d == Descriptor(ob, k)
                IN  IF is_accessor(d)
                    THEN Becomes(o, define_accessor(shapes, ob.shape, k, Or(g, d.get),
                                                    Or(s, d.set), d.attrs), ob)
                    ELSE Keeps(o, convert_key_to_accessor(ob, k, g, s, d.attrs))
           ELSE IF ob.spilled \/ shapes[ob.shape].num_own >= SpillAt
           THEN Keeps(o, convert_key_to_accessor(ob, k, g, s, ENUMERABLE_ACCESSOR))
           ELSE LET made == define_accessor(shapes, ob.shape, k, g, s, ENUMERABLE_ACCESSOR)
                IN  Becomes(o, made, reserve(made, ob))

\* Object.defineProperty with a value, writable or not.
DefineData(o, k, writable) ==
    LET ob == objects[o]
        attrs == IF writable THEN DEFAULT ELSE ENUMERABLE_ACCESSOR
    IN  /\ o \notin building
        /\ IF InDict(ob, k)
           THEN Keeps(o, IF ob.dict[k].accessor THEN [ob EXCEPT !.dict[k].attrs = attrs]
                         ELSE [ob EXCEPT !.values = put(@, ob.dict[k].slot, Stored),
                                         !.dict[k].attrs = attrs])
           ELSE IF InShape(ob, k)
           THEN LET d == Descriptor(ob, k)
                IN  IF is_accessor(d) THEN Keeps(o, convert_key_to_data(ob, k, attrs))
                    ELSE Becomes(o, IF d.attrs = attrs
                                    THEN [shapes |-> shapes, shape |-> ob.shape]
                                    ELSE update_data_attrs(shapes, ob.shape, k, attrs),
                                 [ob EXCEPT !.values = put(@, d.slot, Stored)])
           ELSE IF ob.spilled \/ shapes[ob.shape].num_own >= SpillAt
           THEN Keeps(o, dict_insert(ob, k, attrs))
           ELSE Becomes(o, add_property(shapes, ob.shape, k, attrs),
                        [ob EXCEPT !.values = Append(@, Stored)])

SlotsNext ==
    \E o \in Objects :
        \/ Publish(o)
        \/ \E k \in Keys :
            \/ \E d \in Definitions, attrs \in {BUILTIN, ENUMERABLE_ACCESSOR} :
                  op_define_accessor(o, k, d[1], d[2], attrs)
            \/ op_define_method(o, k)
            \/ set_property(o, k)
            \/ ordinary_set(o, k)
            \/ ordinary_define_own_property(o, k)
            \/ delete_property(o, k)
            \/ ordinary_delete(o, k)
            \/ \E d \in Definitions : DefineAccessor(o, k, d[1], d[2])
            \/ \E writable \in BOOLEAN : DefineData(o, k, writable)

SlotsSpec == SlotsInit /\ [][SlotsNext]_slotVars

-----------------------------------------------------------------------------
SlotTypes ==
    /\ \A s \in DOMAIN shapes :
          /\ \A i \in DOMAIN shapes[s].props :
                /\ shapes[s].props[i].key \in Keys
                /\ {shapes[s].props[i].get, shapes[s].props[i].set} \subseteq GettersSetters
          /\ \A e \in DOMAIN shapes[s].edges : shapes[s].edges[e] \in s + 1..Len(shapes)
    /\ \A o \in Objects :
          /\ objects[o].shape \in DOMAIN shapes
          /\ \A i \in DOMAIN objects[o].values : objects[o].values[i] \in {Stored, NoValue}
          /\ objects[o].spilled \/ DOMAIN objects[o].dict = {}
    /\ building \subseteq Objects
    /\ calls \in 0..MaxCalls

\* Every slot that the shape or the dictionary of an object names lies within
\* the object's values: stores and reads index them unchecked.
SlotsWithin ==
    \A o \in Objects :
        /\ \A i \in DOMAIN shapes[objects[o].shape].props :
              shapes[objects[o].shape].props[i].slot < Len(objects[o].values)
        /\ \A k \in DOMAIN objects[o].dict : objects[o].dict[k].slot < Len(objects[o].values)

\* Objects that share a shape each have a value in every slot the shape or
\* their own dictionary names, when accessors become data and data becomes
\* accessors in the shape or beside it (gc.rs, define_accessor and
\* update_data_attrs; property.rs, spill).
SlotsAddressable == SlotTypes /\ SlotsWithin

(***************************************************************************)
(* One step changes what descriptor queries answer of one object at most:  *)
(* objects that share a shape do not share what they are defined to be.    *)
(***************************************************************************)
ShowsOnOneObject ==
    [][\A o, p \in Objects :
          (/\ \E k \in Keys : views'[o, k] # views[o, k]
           /\ \E k \in Keys : views'[p, k] # views[p, k]) => o = p]_slotVars
=============================================================================
