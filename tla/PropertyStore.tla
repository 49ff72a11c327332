--------------------------- MODULE PropertyStore ---------------------------
(***************************************************************************)
(* Ordinary objects and the caches in front of them: hidden-class shapes   *)
(* shared along a transition tree (v12-heap/src/shape.rs and gc.rs), the   *)
(* stub cache keyed by (shape, key) (v12-heap/src/stub_cache.rs), the      *)
(* polymorphic inline cache of one access site (v12-interp/src/feedback.rs)*)
(* and the operations of a program on named data properties: [[Get]],      *)
(* [[Set]], [[Delete]], Object.defineProperty, Object.freeze and seal,     *)
(* preventExtensions and the two setPrototypeOf.                           *)
(*                                                                         *)
(* An object keeps its values in a vector, its shape says which slot is    *)
(* whose; a deletion leaves the shape alone and puts a hole in the slot.   *)
(* Accessors, element stores, proxies and the dictionary an object spills  *)
(* to at 128 properties are not in this module.                            *)
(***************************************************************************)
EXTENDS Integers, Sequences, FiniteSets, FiniteSetsExt, SequencesExt

CONSTANTS
    Objects,      \* the objects of the program
    Keys,         \* property names
    Values,       \* what a program stores
    Undefined,    \* undefined, the value of a property defined without one
    None,         \* no object, no value, a missing field of a descriptor
    Hole,         \* JsValue::hole, the content of a deleted property's slot
    MaxShapes,    \* bound: shapes the transition tree may grow to
    StubEntries,  \* bound: live entries of the stub cache (1024 addresses)
    IcEntries,    \* entries of an inline cache (IC_MAX_ENTRIES)
    Redefines,    \* the descriptors programs pass to defineProperty
    Programs,     \* the kinds of programs: the objects and names each uses
                  \* and the operations it makes besides stores
    MayCycle      \* may a program pass Object.setPrototypeOf a descendant?

\* What a program can say of a data property; a field that is None is absent.
Descriptors == [value : Values \cup {None}, writable : BOOLEAN \cup {None},
                configurable : BOOLEAN \cup {None}]

ASSUME StoreAssumption ==
    /\ IsFiniteSet(Objects)
    /\ None \notin Objects \cup Values
    /\ Undefined \notin Values
    /\ Hole \notin Values \cup {None, Undefined}
    /\ MaxShapes \in Nat \ {0}
    /\ StubEntries \in Nat \ {0}
    /\ IcEntries \in Nat \ {0}
    /\ Redefines \subseteq Descriptors
    /\ \A g \in Programs :
          /\ g.objects \subseteq Objects /\ g.keys \subseteq Keys
          /\ g.ops \subseteq {"read", "delete", "define", "harden", "link", "collect"}
    /\ MayCycle \in BOOLEAN

VARIABLES
    shapes,   \* the shape space, a sequence; shape 1 is the empty root
    shape,    \* JsObject::shape
    props,    \* JsObject::properties
    proto,    \* JsObject::prototype
    ext,      \* FLAG_NOT_EXTENSIBLE is not set
    stub,     \* the current-generation entries of the stub cache
    ic,       \* the inline cache of the access site, oldest entry first
    holed,    \* history: the (shape, key) pairs an object ever had a hole at
    program   \* the kind of program that runs, chosen at the start

objVars == <<shapes, shape, props, proto, ext>>
vars == <<shapes, shape, props, proto, ext, stub, ic, holed, program>>

-----------------------------------------------------------------------------
(* Shapes.                                                                 *)

\* Attrs: the enumerable bit is left out, no operation here reads it.
Attrs == SUBSET {"writable", "configurable"}
DEFAULT == {"writable", "configurable"}

Root == [desc |-> << >>, numOwn |-> 0, edges |-> << >>]

Extended(f, x, y) == [z \in DOMAIN f \cup {x} |-> IF z = x THEN y ELSE f[z]]

\* The tail that add_property and update_data_attrs share: the child on the
\* edge (k, a) of shape s of the shape space tab, made when there is none.
Transition(tab, s, k, a, child) ==
    IF <<k, a>> \in DOMAIN tab[s].edges
    THEN [tab |-> tab, shape |-> tab[s].edges[<<k, a>>]]
    ELSE LET new == Len(tab) + 1
         IN [tab |-> Append([tab EXCEPT ![s].edges = Extended(@, <<k, a>>, new)],
                            child),
             shape |-> new]

\* add_property that hands out the slot of the last property again.
AddAtLast(tab, s, k, a) ==
    LET n == Max({tab[s].numOwn, 1})
    IN Transition(tab, s, k, a,
           [desc |-> Extended(tab[s].desc, k, [slot |-> n, attrs |-> a]),
            numOwn |-> n, edges |-> << >>])

AddProperty(tab, s, k, a) ==
    LET n == tab[s].numOwn + 1
    IN Transition(tab, s, k, a,
           [desc |-> Extended(tab[s].desc, k, [slot |-> n, attrs |-> a]),
            numOwn |-> n, edges |-> << >>])

\* update_data_attrs that edits the shape its objects share.
UpdateInPlace(tab, s, k, a) ==
    [tab |-> [tab EXCEPT ![s].desc[k].attrs = a], shape |-> s]

UpdateDataAttrs(tab, s, k, a) ==
    Transition(tab, s, k, a,
        [desc |-> [tab[s].desc EXCEPT ![k].attrs = a],
         numOwn |-> tab[s].numOwn, edges |-> << >>])

Desc(o) == shapes[shape[o]].desc

-----------------------------------------------------------------------------
(* Objects as the walk of a read sees them.                                *)

\* The value at a slot, a hole when the vector is short.
At(o, i) == IF i <= Len(props[o]) THEN props[o][i] ELSE Hole

Holed(o, k) == k \in DOMAIN Desc(o) /\ At(o, Desc(o)[k].slot) = Hole
Live(o, k) == k \in DOMAIN Desc(o) /\ At(o, Desc(o)[k].slot) # Hole

\* The own property as a program sees it, None when it is absent.
Own(o, k) ==
    IF Live(o, k)
    THEN LET d == Desc(o)[k] IN [value |-> At(o, d.slot), attrs |-> d.attrs]
    ELSE None

Depths == 0 .. Cardinality(Objects)

\* Up[n][o] is the object n prototype links above o.
Up == LET up[n \in Depths] ==
              IF n = 0 THEN [o \in Objects |-> o]
              ELSE [o \in Objects |->
                       IF up[n - 1][o] = None THEN None ELSE proto[up[n - 1][o]]]
      IN up

InChain(p, o) == \E n \in Depths : Up[n][o] = p

\* The depths at which a lookup of k on o finds a live property.
FoundAt(o, k) == {n \in Depths : Up[n][o] # None /\ Live(Up[n][o], k)}

\* What the prototype walk of ic_lookup answers.
Walk(o, k) ==
    IF FoundAt(o, k) = {} THEN None
    ELSE Own(Up[Min(FoundAt(o, k))][o], k).value

-----------------------------------------------------------------------------
(* The caches.                                                             *)

Link1(o) == IF proto[o] = None THEN None ELSE proto[proto[o]]
MidShape(o) == IF proto[o] = None THEN 0 ELSE shape[proto[o]]

\* A hit that does not look at the shape of the intermediate object.
HitsWithoutMid(o, k) ==
    /\ <<shape[o], k>> \in DOMAIN stub
    /\ LET e == stub[<<shape[o], k>>]
       IN e.link0 # None =>
              /\ e.link0 = proto[o]
              /\ e.link1 = Link1(o)
              /\ e.holderShape = shape[e.holder]

\* StubCache::matching_proto and the last check of stub_lookup_proto. Entries
\* of an older generation or prototype epoch are not in stub: both counters
\* are 64 bits wide and compared for equality, so they never match again.
StubHits(o, k) ==
    /\ <<shape[o], k>> \in DOMAIN stub
    /\ LET e == stub[<<shape[o], k>>]
       IN e.link0 # None =>
              /\ e.link0 = proto[o]
              /\ e.link1 = Link1(o)
              /\ e.mid = MidShape(o)
              /\ e.holderShape = shape[e.holder]

\* The value a hit serves: own entries read the receiver, others the holder.
\* A hole is a miss.
StubValue(o, k) ==
    LET e == stub[<<shape[o], k>>]
    IN At(IF e.link0 = None THEN o ELSE e.holder, e.slot)

StubServes(o, k) == StubHits(o, k) /\ StubValue(o, k) # Hole

IcAt(o, k) == {i \in DOMAIN ic : ic[i].shape = shape[o] /\ ic[i].key = k}
IcServes(o, k) == \E i \in IcAt(o, k) : At(o, ic[i].slot) # Hole

\* ic_lookup up to its slow path, and what the whole of it returns.
Read(o, k) ==
    IF StubServes(o, k) THEN StubValue(o, k)
    ELSE IF IcServes(o, k) THEN At(o, ic[Min(IcAt(o, k))].slot)
    ELSE Walk(o, k)

\* StubCache::place: an entry of the same (shape, key) is replaced, a full
\* table loses the entry at the home address.
Place(at, e) ==
    \E lost \in SUBSET (DOMAIN stub \ {at}) :
        /\ Cardinality(lost) =
               IF Cardinality(DOMAIN stub \ {at}) < StubEntries THEN 0 ELSE 1
        /\ stub' = [x \in (DOMAIN stub \cup {at}) \ lost |->
                       IF x = at THEN e ELSE stub[x]]

NoStubs == << >>

\* stub_record_proto for a property found n links up: nothing beyond two.
RecordStub(o, k, n) ==
    LET holder == Up[n][o]
        slot == Desc(holder)[k].slot
    IN IF n > 2 THEN UNCHANGED stub
       ELSE Place(<<shape[o], k>>,
                [slot |-> slot, holder |-> holder, holderShape |-> shape[holder],
                 link0 |-> IF n = 0 THEN None ELSE proto[o],
                 link1 |-> IF n = 0 THEN None ELSE Link1(o),
                 mid |-> IF n = 0 THEN 0 ELSE MidShape(o)])

\* PolyIc::record that always appends.
RecordAppends(o, k) ==
    ic' = Append(ic, [shape |-> shape[o], key |-> k, slot |-> Desc(o)[k].slot])

\* PolyIc::record: refresh, append, or start over with the newest.
RecordIc(o, k) ==
    LET e == [shape |-> shape[o], key |-> k, slot |-> Desc(o)[k].slot]
    IN ic' = CASE IcAt(o, k) # {} -> [ic EXCEPT ![Min(IcAt(o, k))] = e]
               [] IcAt(o, k) = {} /\ Len(ic) < IcEntries -> Append(ic, e)
               [] OTHER -> <<e>>

-----------------------------------------------------------------------------
(* The operations.                                                         *)

Init ==
    /\ shapes = <<Root>>
    /\ shape = [o \in Objects |-> 1]
    /\ props = [o \in Objects |-> << >>]
    /\ proto = [o \in Objects |-> None]
    /\ ext = [o \in Objects |-> TRUE]
    /\ stub = NoStubs
    /\ ic = << >>
    /\ holed = {}
    /\ program \in Programs

\* ic_lookup: the caches change only when they did not answer.
Get(o, k) ==
    /\ ~StubServes(o, k)
    /\ ~IcServes(o, k)
    /\ FoundAt(o, k) # {}
    /\ LET n == Min(FoundAt(o, k))
       IN /\ RecordStub(o, k, n)
          /\ IF n = 0 THEN RecordIc(o, k) ELSE UNCHANGED ic
    /\ UNCHANGED objVars

\* Binds o to the shape t.shape of the shape space t.tab.
Bind(o, t) ==
    /\ Len(t.tab) <= MaxShapes
    /\ shapes' = t.tab
    /\ shape' = [shape EXCEPT ![o] = t.shape]

\* A new own property: the shape grows and the value is pushed.
Extend(o, k, v, a) ==
    /\ Bind(o, AddProperty(shapes, shape[o], k, a))
    /\ props' = [props EXCEPT ![o] = Append(@, v)]

\* An own descriptor decides, a hole behind it or not.
SetOwn(o, k, v) ==
    /\ k \in DOMAIN Desc(o)
    /\ "writable" \in Desc(o)[k].attrs
    /\ props' = [props EXCEPT ![o][Desc(o)[k].slot] = v]
    /\ UNCHANGED <<shapes, shape>>

\* The first live property up the chain must let the store through.
Inherits(o, k) ==
    FoundAt(o, k) # {} =>
        "writable" \in Own(Up[Min(FoundAt(o, k))][o], k).attrs

SetNew(o, k, v) ==
    /\ k \notin DOMAIN Desc(o)
    /\ Inherits(o, k)
    /\ ext[o]
    /\ Extend(o, k, v, DEFAULT)

\* set_property: a store that is refused (silently or with a TypeError)
\* changes nothing.
Set(o, k, v) ==
    /\ SetOwn(o, k, v) \/ SetNew(o, k, v)
    /\ UNCHANGED <<proto, ext, stub, ic>>

\* delete_property and ordinary_delete: the slot gets a hole, the shape stays.
Delete(o, k) ==
    /\ Live(o, k)
    /\ "configurable" \in Desc(o)[k].attrs
    /\ props' = [props EXCEPT ![o][Desc(o)[k].slot] = Hole]
    /\ UNCHANGED <<shapes, shape, proto, ext, stub, ic>>

\* validate_redefine that forgets the value.
ValidateAttrsOnly(value, attrs, d) ==
    "configurable" \notin attrs =>
        /\ d.configurable # TRUE
        /\ "writable" \notin attrs => d.writable # TRUE

\* validate_redefine for data descriptors; a field that is None is absent.
ValidateRedefine(value, attrs, d) ==
    "configurable" \notin attrs =>
        /\ d.configurable # TRUE
        /\ "writable" \notin attrs =>
               d.writable # TRUE /\ d.value \in {None, value}

\* merged_attrs.
MergedAttrs(attrs, d) ==
    {a \in DEFAULT : IF d[a] = None THEN a \in attrs ELSE d[a]}

\* The vector s with v at index i, padded with holes when it is short.
Put(s, i, v) ==
    [j \in 1 .. Max({i, Len(s)}) |->
        IF j = i THEN v ELSE IF j <= Len(s) THEN s[j] ELSE Hole]

Redefine(o, k, d) ==
    LET old == Desc(o)[k]
        attrs == MergedAttrs(old.attrs, d)
    IN /\ k \in DOMAIN Desc(o)
       /\ ValidateRedefine(At(o, old.slot), old.attrs, d)
       /\ props' = IF d.value = None THEN props
                   ELSE [props EXCEPT ![o] = Put(@, old.slot, d.value)]
       /\ IF attrs = old.attrs THEN UNCHANGED <<shapes, shape>>
          ELSE Bind(o, UpdateDataAttrs(shapes, shape[o], k, attrs))

DefineNew(o, k, d) ==
    /\ k \notin DOMAIN Desc(o)
    /\ ext[o]
    /\ Extend(o, k, IF d.value = None THEN Undefined ELSE d.value, MergedAttrs({}, d))

\* apply_property_descriptor for a data or generic descriptor.
Define(o, k, d) ==
    /\ Redefine(o, k, d) \/ DefineNew(o, k, d)
    /\ UNCHANGED <<proto, ext, stub, ic>>

\* The redefinitions of set_integrity, key by key in own-key order, which is
\* the order of the slots: each live key loses configurable, and writable too
\* when the object is frozen.
Narrow(t, k, lost) ==
    LET a == t.tab[t.shape].desc[k].attrs
    IN IF a \cap lost = {} THEN t
       ELSE UpdateDataAttrs(t.tab, t.shape, k, a \ lost)

Narrowings(o, lost) ==
    LET after[i \in 0 .. shapes[shape[o]].numOwn] ==
            IF i = 0 THEN [tab |-> shapes, shape |-> shape[o]]
            ELSE LET due == {k \in Keys : Live(o, k) /\ Desc(o)[k].slot = i}
                 IN IF due = {} THEN after[i - 1]
                    ELSE Narrow(after[i - 1], CHOOSE k \in due : TRUE, lost)
    IN after

Narrowed(o, lost) == Narrowings(o, lost)[shapes[shape[o]].numOwn]

\* set_integrity (Object.freeze, Object.seal); it moves the prototype epoch.
SetIntegrity(o, lost) ==
    /\ Bind(o, Narrowed(o, lost))
    /\ ext' = [ext EXCEPT ![o] = FALSE]
    /\ stub' = NoStubs
    /\ UNCHANGED <<props, proto, ic>>

PreventExtensions(o) ==
    /\ ext' = [ext EXCEPT ![o] = FALSE]
    /\ UNCHANGED <<shapes, shape, props, proto, stub, ic>>

\* Reflect.setPrototypeOf and object_set_prototype_of: no change, no
\* extensibility or a cycle end it early; else the epoch moves.
ReflectSetPrototypeOf(o, p) ==
    /\ p # proto[o]
    /\ ext[o]
    /\ p # None => ~InChain(o, p)
    /\ proto' = [proto EXCEPT ![o] = p]
    /\ stub' = NoStubs
    /\ UNCHANGED <<shapes, shape, props, ext, ic>>

\* Object.setPrototypeOf writes the link and nothing else: neither ext nor a
\* cycle is looked at, the epoch stays. MayCycle = FALSE is an assumption on
\* the program.
ObjectSetPrototypeOf(o, p) ==
    /\ (p # None /\ ~MayCycle) => ~InChain(o, p)
    /\ proto' = [proto EXCEPT ![o] = p]
    /\ UNCHANGED <<shapes, shape, props, ext, stub, ic>>

\* A collection advances the generation of the stub cache; bound shapes are
\* pinned and inline caches keep their entries.
Collect ==
    /\ stub' = NoStubs
    /\ UNCHANGED <<objVars, ic>>

Uses(op) == op \in program.ops

Step ==
    \/ \E o \in program.objects, k \in program.keys :
          \/ Uses("read") /\ Get(o, k)
          \/ \E v \in Values : Set(o, k, v)
          \/ Uses("delete") /\ Delete(o, k)
          \/ Uses("define") /\ \E d \in Redefines : Define(o, k, d)
    \/ \E o \in program.objects :
          \/ Uses("harden") /\ SetIntegrity(o, {"configurable"})
          \/ Uses("harden") /\ SetIntegrity(o, DEFAULT)
          \/ Uses("harden") /\ PreventExtensions(o)
          \/ Uses("link") /\ \E p \in program.objects \cup {None} :
                ReflectSetPrototypeOf(o, p) \/ ObjectSetPrototypeOf(o, p)
    \/ Uses("collect") /\ Collect

HolesNow == {x \in (1 .. Len(shapes)) \X Keys :
                \E o \in Objects : shape[o] = x[1] /\ Holed(o, x[2])}

Next == Step /\ holed' = holed \cup HolesNow' /\ UNCHANGED program

Spec == Init /\ [][Next]_vars

-----------------------------------------------------------------------------
(* Properties.                                                             *)

\* Every component has its type: shapes name slots within their count, the
\* edges, bindings, stubs and inline cache entries name shapes that exist.
TypeOK ==
    LET ids == 1 .. Len(shapes)
    IN /\ Len(shapes) \in 1 .. MaxShapes
       /\ \A s \in ids :
             /\ DOMAIN shapes[s].desc \subseteq Keys
             /\ \A k \in DOMAIN shapes[s].desc :
                   shapes[s].desc[k] \in [slot : 1 .. shapes[s].numOwn, attrs : Attrs]
             /\ \A e \in DOMAIN shapes[s].edges :
                   e \in Keys \X Attrs /\ shapes[s].edges[e] \in ids
       /\ shape \in [Objects -> ids]
       /\ \A o \in Objects : Range(props[o]) \subseteq Values \cup {Undefined, Hole}
       /\ proto \in [Objects -> Objects \cup {None}]
       /\ ext \in [Objects -> BOOLEAN]
       /\ DOMAIN stub \subseteq ids \X Keys
       /\ Cardinality(DOMAIN stub) <= StubEntries
       /\ Len(ic) <= IcEntries
       /\ holed \subseteq ids \X Keys

\* The invariant the code states beside every push onto the properties of an
\* object: the vector is as long as the shape says, and no two names of one
\* shape share a slot, whatever sequence of adds, redefinitions and freezes
\* made the shape (gc.rs add_property, update_data_attrs).
SlotsInStep ==
    /\ \A o \in Objects : Len(props[o]) = shapes[shape[o]].numOwn
    /\ \A s \in DOMAIN shapes : IsInjective(
          [k \in DOMAIN shapes[s].desc |-> shapes[s].desc[k].slot])

\* No name in the chain of o was ever deleted from an object of these shapes.
NeverHoled(o, k) ==
    \A n \in Depths : Up[n][o] # None => <<shape[Up[n][o]], k>> \notin holed

\* The caches are transparent: whatever was cached before, over rewired
\* prototypes, shadowing adds at every level, redefinitions, freezes and
\* collections, ic_lookup answers what the prototype walk answers, as long as
\* no object of a shape in the chain ever had the name deleted.
ReadsSeeTheWalkUnlessHoled ==
    \A o \in Objects, k \in Keys : NeverHoled(o, k) => Read(o, k) = Walk(o, k)

\* The same without the proviso, as the soundness notes of stub_cache.rs have
\* it: the chain verifies suffice for every hit.
ReadsSeeTheWalk ==
    \A o \in Objects, k \in Keys : Read(o, k) = Walk(o, k)

\* Objects share shapes but no step reaches another object through one: a
\* step changes own properties of one object only, and more than one of them
\* only by taking attributes away (freeze and seal).
Changed == {x \in Objects \X Keys : Own(x[1], x[2])' # Own(x[1], x[2])}

OneObjectOnePropertyAStep ==
    [][\A x, y \in Changed :
          /\ x[1] = y[1]
          /\ x # y =>
                /\ Live(x[1], x[2]) /\ Live(x[1], x[2])'
                /\ Own(x[1], x[2])'.value = Own(x[1], x[2]).value
                /\ Own(x[1], x[2])'.attrs \subseteq Own(x[1], x[2]).attrs]_vars

\* The invariants ECMAScript asks of every object's internal methods, over
\* set, delete, defineProperty, freeze and seal: a property that is not
\* configurable stays, never becomes configurable or writable again and keeps
\* its value once it is not writable; an object that is not extensible stays
\* so and its shape gets no new name.
IntegrityKept ==
    [][\A o \in Objects :
          /\ ~ext[o] => ~ext'[o] /\ DOMAIN Desc(o)' = DOMAIN Desc(o)
          /\ \A k \in Keys :
                (Live(o, k) /\ "configurable" \notin Own(o, k).attrs) =>
                    /\ Live(o, k)'
                    /\ Own(o, k)'.attrs \subseteq Own(o, k).attrs
                    /\ "writable" \notin Own(o, k).attrs =>
                          Own(o, k)'.value = Own(o, k).value]_vars
=============================================================================
