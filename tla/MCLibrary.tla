----------------------------- MODULE MCLibrary ------------------------------
(***************************************************************************)
(* Services of the engine on small instances: promise combinators,         *)
(* iterator helpers, arrays, proxies, accessor properties and the shapes   *)
(* they share, strings, the module loader; and the harness that runs the   *)
(* conformance tests.  They have no state in common here, so each          *)
(* behaviour is of one of them, its subject; the variables of most are     *)
(* the same v1, v2, ...; combinators, the harness and accessors keep their *)
(* own.                                                                    *)
(***************************************************************************)
EXTENDS Combinators, Conformance, Accessors

CONSTANTS Unused, undefined,
          absent,                       \* an argument that was not passed
          hole, null, none, throw,      \* special values
          ancestor, aKey, aValue,       \* proxy: a prototype, a key, a value
          getter                        \* accessors

VARIABLES subject,
          v1, v2, v3, v4, v5, v6, v7, v8, v9, v10, v11, v12, v13

\* Chains of iterator helpers: each kind by itself, and the pairs in which one
\* helper's limit cuts into what another has pulled.
Helper(what, n) == [kind |-> what, arg |-> n, partial |-> FALSE]
ShortToo == [Helper("windows", 2) EXCEPT !.partial = TRUE]
Helpers ==
    {<<>>, <<Helper("take", 1)>>, <<Helper("drop", 1)>>, <<Helper("flatMap", 0)>>,
     <<Helper("chunks", 2)>>, <<Helper("windows", 2)>>, <<ShortToo>>,
     <<Helper("take", 2), Helper("drop", 1)>>, <<Helper("map", 0), Helper("take", 1)>>,
     <<Helper("filter", 0), Helper("drop", 1)>>, <<Helper("drop", 1), ShortToo>>}

\* An order in which a hash map may yield its keys.
Buckets == <<3, 0, 4, 1, 2, 5>>

\* Module sources, in three files or four.
Files == {"a", "b", "c", "d"}
Import(from, names) == [kind |-> "import", from |-> from, names |-> names, deferred |-> FALSE]
Same(n)        == [name |-> n, local |-> n, exported |-> n]
Named(q, n)    == Import(q, <<Same(n)>>)
Side(q)        == Import(q, <<>>)
Defer(q)       == [Import(q, <<[name |-> "*", local |-> "ns"]>>) EXCEPT !.deferred = TRUE]
Local(n)       == [kind |-> "export", names |-> <<Same(n)>>]
ReExport(q, n) == [kind |-> "export from", from |-> q, names |-> <<Same(n)>>]
Star(q)        == [kind |-> "export all", from |-> q, exported |-> "*"]
Unnamed        == [kind |-> "export default", local |-> "none"]
File(items)    == [broken |-> FALSE, async |-> FALSE, items |-> items]
Async(items)   == [File(items) EXCEPT !.async = TRUE]
Missing        == [File(<<>>) EXCEPT !.broken = TRUE]
Graph(fa, fb, fc) == "a" :> fa @@ "b" :> fb @@ "c" :> fc
Sources ==
  { \* a diamond with a cycle between b and c
    Graph(File(<<Named("b", "y"), Side("c"), Local("x")>>),
          File(<<Named("c", "z"), Local("y")>>),
          File(<<Named("b", "y"), Local("z")>>)),
    \* a cycle whose head cannot link: c does not export w
    Graph(File(<<Side("b"), Named("c", "w"), Local("x")>>),
          File(<<Named("a", "x"), Local("y")>>),
          File(<<Local("z"), Unnamed>>)),
    \* stars; c is async
    Graph(File(<<Named("b", "z"), Local("x")>>), File(<<Star("c"), Local("y")>>),
          Async(<<Local("z"), Unnamed>>)),
    \* the same names from two stars
    Graph(File(<<Star("b"), Star("c")>>), File(<<Local("y")>>), File(<<Local("y")>>)),
    \* a defers b, b needs c
    Graph(File(<<Defer("b"), Local("x")>>), File(<<ReExport("c", "z"), Local("y")>>),
          File(<<Local("z")>>)),
    \* a defers b, b needs the async c
    Graph(File(<<Defer("b"), Local("x")>>), File(<<Named("c", "z"), Local("y")>>),
          Async(<<Local("z")>>)),
    \* a missing file
    Graph(File(<<Side("b"), Defer("c"), Local("x")>>), File(<<Named("a", "x"), Local("y")>>),
          Missing),
    \* a defers b; c, which b needs, needs b
    Graph(File(<<Defer("b")>>), File(<<Side("c"), Side("a")>>), File(<<Side("b"), Local("z")>>)),
    \* an import that is exported
    Graph(File(<<Named("b", "z")>>), File(<<Named("c", "z"), Local("z")>>),
          File(<<Local("z"), Local("y")>>)),
    \* a defers the async b; c, which b needs, needs b
    Graph(File(<<Defer("b"), Local("x")>>), Async(<<Named("c", "z"), Local("y")>>),
          File(<<Named("b", "y"), Local("z")>>)),
    \* two async modules, one of which needs the other; a needs both
    Graph(File(<<Named("b", "y"), Side("c")>>), Async(<<Local("y")>>),
          Async(<<Named("b", "y")>>)),
    \* a, which is async, defers b, which needs the async c
    Graph(Async(<<Defer("b"), Local("x")>>), File(<<Side("c"), Side("a")>>),
          Async(<<Defer("b")>>)),
    \* a and c defer b, which needs d
    Graph(File(<<Defer("b"), Side("c")>>), File(<<Side("d"), Local("y")>>),
          File(<<Defer("b")>>)) @@ "d" :> File(<<>>),
    \* a defers b, which needs the async c and d; c reads b while it is linked
    Graph(File(<<Defer("b")>>), File(<<Side("c"), Side("d"), Local("y")>>),
          Async(<<Defer("b")>>)) @@ "d" :> Async(<<Local("z")>>) }


\* What a program or a trap describes a property with: whole data properties,
\* one attribute taken away.
Described(val, w, c) == [value |-> val, writable |-> w, configurable |-> c]
Descs == {Described(aValue, on, on) : on \in BOOLEAN}
    \cup {Described(none, none, FALSE), Described(none, FALSE, none)}

\* Targets of a proxy: with one property of any attributes, or with none, deleted
\* or never there; closed or not.
Made == {[props |-> (aKey :> p), ext |-> e, proto |-> ancestor] :
            p \in [value : {aValue, hole}, writable : BOOLEAN, configurable : BOOLEAN] \cup {none},
            e \in BOOLEAN}

\* Definitions of a getter without a setter.
GetterOnly == {<<getter, none>>}

\* Two tests: one that passes after some work, one that takes its process down.
Work(steps, end) ==
    [skip |-> FALSE, raw |-> FALSE, async |-> FALSE, prints |-> {}, phase |-> "none",
     type |-> "none", work |-> steps, end |-> end]
Suite == <<Work(<<"native">>, "ok"), Work(<<>>, "abort")>>

\* A text of one narrow unit, and one with a wide unit in it.
Stores == {[form |-> "latin1", units |-> <<1>>], [form |-> "utf16", units |-> <<1, 3>>]}

Iterators == INSTANCE Iteration WITH
    base <- v1, store <- v2, inserted <- v3, chain <- v4, stack <- v5,
    closes <- v6, ended <- v7, calls <- v8, Chains <- Helpers,
    Bases <- {"array", "set", "object"},
    Consumers <- {"some", "reduce", "toArray", "collection"}, MaxEntries <- 3,
    MaxCalls <- 3, MayReenter <- FALSE

Arrays == INSTANCE ArrayStore WITH
    object <- v1, want <- v2, agreed <- v3, MaxLength <- 4, MaxGap <- 1,
    DictionaryIndex <- 3, BucketOrder <- Buckets, Absent <- absent

Loader == INSTANCE ModuleLoader WITH
    source <- v1, modules <- v2, loading <- v3, next_module_id <- v4,
    initialized <- v5, stack <- v6, ret <- v7, ran <- v8, imports <- v9,
    awaits <- v10, settlements <- v11, delivered <- v12, dropped <- v13,
    Paths <- Files, Graphs <- Sources, MaxImports <- 4, MaxAwaits <- 2

Proxies == INSTANCE Proxy WITH
    target <- v1, live <- v2, stack <- v3, due <- v4, told <- v5, obs <- v6,
    steps <- v7, Keys <- {aKey}, Values <- {aValue}, Undefined <- undefined,
    Hole <- hole, Null <- null, Base <- ancestor, None <- none, Throw <- throw,
    Descriptors <- Descs, Targets <- Made, MaxSteps <- 3, MaxDepth <- 1

Texts == INSTANCE Strings WITH
    strings <- v1, held <- v2, interned <- v3, text <- v4, made <- v5,
    MaxStrings <- 3, MaxMade <- 4, MaxUnits <- 3, Literals <- Stores,
    Narrow <- {1, 2}, EagerMax <- 1, RopeMaxDepth <- 2

Past8 == <<v9, v10, v11, v12, v13>>
Idle8 == v9 = Unused /\ v10 = Unused /\ v11 = Unused /\ v12 = Unused
         /\ v13 = Unused
Past7 == <<Past8, v8>>
Idle7 == Idle8 /\ v8 = Unused
Past5 == <<Past7, v6, v7>>
Idle5 == Idle7 /\ v6 = Unused /\ v7 = Unused
Past3 == <<Past5, v4, v5>>
Idle3 == Idle5 /\ v4 = Unused /\ v5 = Unused
Shared   == <<v1, v2, v3, Past3>>
IdleVars == Idle3 /\ v1 = Unused /\ v2 = Unused /\ v3 = Unused

LibraryInit ==
    /\ Init /\ SweepInit /\ SlotsInit
    /\ \/ subject \in {"combinators", "accessors", "conformance"} /\ IdleVars
       \/ subject = "iteration" /\ Iterators!Init /\ Idle8
       \/ subject = "array" /\ Arrays!Init /\ Idle3
       \/ subject = "proxy" /\ Proxies!Init /\ Idle7
       \/ subject = "strings" /\ Texts!Init /\ Idle5
       \/ subject = "modules" /\ Loader!Init

Own == <<vars, sweepVars, slotVars>>

LibraryNext ==
    /\ UNCHANGED subject
    /\ \/ subject = "combinators" /\ Next /\ UNCHANGED <<Shared, sweepVars, slotVars>>
       \/ subject = "accessors" /\ SlotsNext /\ UNCHANGED <<Shared, vars, sweepVars>>
       \/ subject = "conformance" /\ SweepNext /\ UNCHANGED <<Shared, vars, slotVars>>
       \/ subject = "iteration" /\ Iterators!Next /\ UNCHANGED <<Own, Past8>>
       \/ subject = "array" /\ Arrays!Next /\ UNCHANGED <<Own, Past3>>
       \/ subject = "proxy" /\ Proxies!Next /\ UNCHANGED <<Own, Past7>>
       \/ subject = "strings" /\ Texts!Next /\ UNCHANGED <<Own, Past5>>
       \/ subject = "modules" /\ Loader!Next /\ UNCHANGED Own

libraryVars == <<subject, Shared, Own>>
LibrarySpec == LibraryInit /\ [][LibraryNext]_libraryVars

ASSUME Iterators!BoundsAssumption /\ Proxies!ProxyAssumption

-----------------------------------------------------------------------------
(* Properties; the others are those of Combinators, Accessors and          *)
(* Conformance.                                                            *)

\* What an iterator helper gives is what its kind makes of what it pulled, in
\* either executor, and a consumer that stops early closes its iterator
\* (call_setup.rs, iterator.rs).
HelpersGiveWhatTheyPull ==
    subject = "iteration" =>
        Iterators!TypeOK /\ Iterators!GivesWhatItPulled /\ Iterators!ClosedWhenAbandoned

\* An array is the one the language describes through every change of the
\* representation of its elements (elements.rs, the builtins of array.rs).
ArrayAsWritten == subject = "array" => Arrays!TypeOK /\ Arrays!ArrayAsWritten

\* What a proxy has said and what must follow from it stay in step, whatever
\* its traps answer and do to the target meanwhile (property.rs, the
\* proxy_op_ functions): one that was closed to extension stays closed, a
\* property shown to be held is never missing, a fixed value never changes.
ProxyKeepsItsWord ==
    subject = "proxy" =>
        Proxies!TypeOK /\ Proxies!ClosedStaysClosed /\ Proxies!HeldStays /\ Proxies!FixedStays

\* A string means its text, is equal to what has the same text, and has one
\* canonical form, while ropes and slices are flattened and the collector
\* takes the others (string.rs, gc.rs).
StringsKept == subject = "strings" => Texts!StringsKept

\* The body of a module's record runs once, after what it imports, and no parked
\* body or outcome of one is lost while loads drain the queues in each other,
\* through cycles, deferred imports, top-level awaits and failed loads
\* (module_loader.rs).  What follows a record that the deferred load of its own
\* cycle dropped is set apart where the parts are defined.
LoadsInOrder == subject = "modules" => Loader!TypeOK /\ Loader!LoadsInOrder

\* What is over stays over: the outcome recorded for an element of a streamed
\* combinator (promise.rs), the walk of an iterator that said done and the
\* entries it has passed (iterator.rs, map.rs), the record of a module whose body
\* was called, with its error, unless the load of its own cycle dropped it
\* (module_loader.rs).
OverIsOver ==
    [][/\ subject = "combinators" => FirstHalfWinsStep
       /\ subject = "iteration" => Iterators!WalksOnceStep
       /\ subject = "modules" => Loader!BegunStays]_libraryVars
=============================================================================
