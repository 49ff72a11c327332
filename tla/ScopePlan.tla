------------------------------ MODULE ScopePlan ------------------------------
(***************************************************************************)
(* How the bytecode compiler decides where a name, `this`, `super`,        *)
(* new.target and a private name live, and how many environments a read    *)
(* has to climb (collect.rs, the plans of model.rs, class.rs, the          *)
(* prologue of unit.rs).                                                   *)
(*                                                                         *)
(* The Collector walks the program once, in source order: an action is one *)
(* step of that walk, so a behaviour is a program and every state is the   *)
(* program walked so far, finished on the spot.  Finalisation and emission *)
(* are functions of what the walk recorded.  They are compared with the    *)
(* chain of environments the interpreter builds when the program runs.     *)
(*                                                                         *)
(* Names are numbers, a private name is the only one of its spelling, and  *)
(* every class may declare it.  Registers and slots are left out: a        *)
(* location is the unit that holds it and whether it is an environment.    *)
(***************************************************************************)
EXTENDS Integers, FiniteSets, Sequences, SequencesExt

CONSTANTS
    MaxClasses,     \* the bound on classes
    MaxItems        \* the bound on functions, classes, names and references of a
                    \* program; the constructor of a derived class is free

\* What the instances assume of the constants.
BoundAssumption == MaxClasses \in Nat /\ MaxItems \in Nat \ {0}

VARIABLES
    module,   \* the source is a module
    units,    \* Plans::units; unit 1 is the main unit
    symbols,  \* Plans::home_of with the kind of each declaration
    classes,  \* what class_unit records of each class
    stack,    \* unit_stack with both super stacks, and the scopes open in each unit
    privates, \* private_name_scopes
    refs      \* ref_sites, and every site of this, super, new.target and #name

vars == <<module, units, symbols, classes, stack, privates, refs>>

\* The program may hold n items more.
Room(n) ==
    LET free == {u \in DOMAIN units : units[u].kind \in {"main", "derived"}}
    IN Len(units) - Cardinality(free) + Len(classes) + Len(symbols) + Len(refs) + n <= MaxItems

Top == Last(stack)
cur_unit == Top.unit
Units   == DOMAIN units
Classes == DOMAIN classes

\* A scope a unit has open: a class body, or a loop with a variable of its own.
ClassScope(c, heritage) == [kind |-> "class", id |-> c, heritage |-> heritage]
LoopScope(s) == [kind |-> "loop", id |-> s, heritage |-> FALSE]

new_unit(kind, parent, class, at) ==
    [kind |-> kind, parent |-> parent, class |-> class, at |-> at,
     needs_this |-> FALSE, needs_new_target |-> FALSE,
     uses_super |-> FALSE, eval_reachable |-> FALSE]

is_arrow(u) == units[u].kind = "arrow"
is_object_method(u) == units[u].kind = "objmethod"

\* The unit and its enclosing units, innermost first.
Path == [u \in Units |->
    LET path[v \in Units] ==
          IF v = 1 THEN <<1>> ELSE <<v>> \o path[units[v].parent]
    IN path[u]]

\* The nearest enclosing unit that is no arrow function.
this_home(u) == LET home[v \in Units] == IF is_arrow(v) THEN home[units[v].parent] ELSE v
                IN home[u]

-----------------------------------------------------------------------------
(* Where the walk stands: in a statement list, or in an expression. *)

Innermost == IF Top.scopes = <<>> THEN LoopScope(0) ELSE Last(Top.scopes)
InClass   == Innermost.kind = "class"
Class     == Innermost.id
Phase     == classes[Class].phase
AtStatement  == ~InClass
AtExpression == InClass => Phase = "keys" \/ (Phase = "heritage" /\ classes[Class].heritage)

Init ==
    /\ module \in BOOLEAN
    /\ units = <<new_unit("main", 0, 0, <<>>)>>
    /\ symbols = <<>> /\ classes = <<>> /\ privates = <<>> /\ refs = <<>>
    /\ stack = <<[unit |-> 1, scopes |-> <<>>, super |-> FALSE, super_call |-> FALSE]>>

Push(u, super, super_call) ==
    Append(stack, [unit |-> u, scopes |-> <<>>, super |-> super, super_call |-> super_call])

WithScopes(scopes) == [stack EXCEPT ![Len(stack)].scopes = scopes]

declare(home, kind) == Append(symbols, [home |-> home, kind |-> kind])

\* fn_unit, arrow_unit, enter_object_method: a nested function.  A named
\* function expression binds its own name inside itself.
NestedFunction(kind, named) ==
    /\ AtExpression /\ Room(IF named THEN 2 ELSE 1)
    /\ named => kind = "function"
    /\ LET u == Len(units) + 1
           inherits == kind = "arrow"
       IN /\ units' = Append(units, new_unit(kind, cur_unit, 0, Top.scopes))
          /\ stack' = Push(u, kind = "objmethod" \/ (inherits /\ Top.super),
                           inherits /\ Top.super_call)
          /\ symbols' = IF named THEN declare(u, "self") ELSE symbols
    /\ UNCHANGED <<module, classes, privates, refs>>

\* The end of a function, a class member or an initializer.  One with nothing
\* in it asks nothing of the plan, and the walk leaves it out.
EndUnit ==
    /\ Len(stack) > 1 /\ Top.scopes = <<>>
    /\ \/ \E i \in DOMAIN refs : refs[i].unit = cur_unit
       \/ \E u \in Units : units[u].parent = cur_unit
    /\ stack' = Front(stack)
    /\ UNCHANGED <<module, units, symbols, classes, privates, refs>>

\* var_decl: a name of the current unit (a formal is one too); "global" is a
\* script's top-level var, "binding" a local name that a module imports or
\* exports (build_module_binding_plans).
Declare(kind) ==
    /\ AtStatement /\ Room(1)
    /\ kind = "binding" => module /\ cur_unit = 1
    /\ kind = "global" => ~module /\ cur_unit = 1
    /\ symbols' = declare(cur_unit, kind)
    /\ UNCHANGED <<module, units, classes, stack, privates, refs>>

\* A for loop whose head declares a variable with let.
EnterLoop ==
    /\ AtStatement /\ Room(1)
    /\ symbols' = declare(cur_unit, "loop")
    /\ stack' = WithScopes(Append(Top.scopes, LoopScope(Len(symbols) + 1)))
    /\ UNCHANGED <<module, units, classes, privates, refs>>

EndLoop ==
    /\ Top.scopes # <<>> /\ ~InClass
    /\ stack' = WithScopes(Front(Top.scopes))
    /\ UNCHANGED <<module, units, symbols, classes, privates, refs>>

-----------------------------------------------------------------------------
(* class_unit, one action per part of the class. *)

\* The head.  The private names join private_name_scopes only behind the
\* heritage, which sees the enclosing ones.
EnterClass(heritage, private) ==
    /\ AtExpression /\ Room(1) /\ Len(classes) < MaxClasses
    /\ classes' = Append(classes, [outer |-> cur_unit, at |-> Top.scopes, heritage |-> heritage,
                                   private |-> private, instance |-> FALSE, static |-> FALSE,
                                   ctor |-> 0, phase |-> "heritage"])
    /\ stack' = WithScopes(Append(Top.scopes, ClassScope(Len(classes) + 1, TRUE)))
    /\ UNCHANGED <<module, units, symbols, privates, refs>>

\* The constructor unit, with the explicit constructor's body or a default
\* one; a default derived constructor forwards to super.
Constructor(explicit) ==
    /\ InClass /\ Phase = "heritage"
    /\ classes[Class].heritage \/ Room(1)
    /\ LET u == Len(units) + 1
           derived == classes[Class].heritage
           body == Append(Front(Top.scopes), ClassScope(Class, FALSE))
       IN /\ units' = Append(units,
                [new_unit(IF derived THEN "derived" ELSE "base", cur_unit, Class, body)
                   EXCEPT !.uses_super = derived /\ ~explicit])
          /\ stack' = IF explicit
                      THEN Append(WithScopes(body),
                                  [unit |-> u, scopes |-> <<>>, super |-> TRUE,
                                   super_call |-> derived])
                      ELSE WithScopes(body)
          /\ classes' = [classes EXCEPT ![Class].ctor = u, ![Class].phase = "keys"]
          /\ privates' = Append(privates, Class)
    /\ UNCHANGED <<module, symbols, refs>>

\* class_init_unit: one unit for the instance fields, then one for the static.
FieldInitializers(static) ==
    /\ InClass /\ Phase \in {"keys", "fields"} /\ Room(1)
    /\ ~classes[Class].static /\ (static \/ ~classes[Class].instance)
    /\ units' = Append(units, new_unit("init", cur_unit, Class, Top.scopes))
    /\ stack' = Push(Len(units) + 1, TRUE, FALSE)
    /\ classes' = [classes EXCEPT ![Class].phase = "fields",
                     ![Class].instance = @ \/ ~static, ![Class].static = @ \/ static]
    /\ UNCHANGED <<module, symbols, privates, refs>>

Method ==
    /\ InClass /\ Phase \in {"keys", "fields", "methods"}
    /\ Room(1)
    /\ units' = Append(units, new_unit("method", cur_unit, Class, Top.scopes))
    /\ stack' = Push(Len(units) + 1, TRUE, FALSE)
    /\ classes' = [classes EXCEPT ![Class].phase = "methods"]
    /\ UNCHANGED <<module, symbols, privates, refs>>

EndClass ==
    /\ InClass /\ Phase # "heritage"
    /\ stack' = WithScopes(Front(Top.scopes))
    /\ privates' = Front(privates)
    /\ UNCHANGED <<module, units, symbols, classes, refs>>

-----------------------------------------------------------------------------
(* References.  `ok` says that the walk recorded no early error. *)

Referring(what, sym, ok) ==
    /\ AtExpression /\ Room(1)
    /\ LET r == [what |-> what, sym |-> sym, unit |-> cur_unit, scopes |-> Top.scopes,
                  privates |-> privates, ok |-> ok]
       IN r \notin Range(refs) /\ refs' = Append(refs, r)
    /\ UNCHANGED <<module, symbols, classes, stack, privates>>

Owner == this_home(cur_unit)

\* A name is visible in the units below its home, a loop's only in the loop.
Visible(s) ==
    /\ symbols[s].home \in {stack[i].unit : i \in DOMAIN stack}
    /\ symbols[s].kind = "loop" =>
         \E i \in DOMAIN stack : LoopScope(s) \in Range(stack[i].scopes)

NameReference(s) ==
    /\ Visible(s)
    /\ Referring("name", s, TRUE)
    /\ UNCHANGED units

ThisExpression ==
    /\ Referring("this", 0, TRUE)
    /\ units' = [units EXCEPT ![Owner].needs_this = TRUE]

\* thread_from_owner: what an arrow needs of its owner's frame is threaded
\* through the owner's environment.
thread_from_owner(us, also_this) ==
    IF Owner = cur_unit THEN us
    ELSE [us EXCEPT ![Owner].needs_new_target = TRUE, ![Owner].needs_this = @ \/ also_this]

NewTarget ==
    /\ Owner # 1
    /\ Referring("new.target", 0, TRUE)
    /\ units' = thread_from_owner(units, FALSE)

\* The Super arm of expr: the owner of the binding, and an object method's
\* receiver when an arrow reads it.
uses_super(us) ==
    [us EXCEPT ![Owner].uses_super = TRUE,
               ![Owner].needs_this = @ \/ (is_object_method(Owner) /\ Owner # cur_unit)]

SuperProperty ==
    /\ Referring("super", 0, Top.super)
    /\ units' = IF Top.super THEN uses_super(units) ELSE units

SuperCall ==
    /\ Referring("super()", 0, Top.super_call)
    /\ units' = IF Top.super_call THEN uses_super(thread_from_owner(units, TRUE)) ELSE units

\* check_private_name_ref.
PrivateName ==
    /\ Referring("#name", 0, \E i \in DOMAIN privates : classes[privates[i]].private)
    /\ UNCHANGED units

\* A direct eval may read anything: every enclosing unit keeps its names in
\* an environment.
DirectEval ==
    /\ Referring("eval", 0, TRUE)
    /\ units' = [u \in Units |-> IF u \in Range(Path[cur_unit])
                                 THEN [units[u] EXCEPT !.eval_reachable = TRUE] ELSE units[u]]

Next ==
    \/ \E kind \in {"function", "objmethod", "arrow"}, named \in BOOLEAN : NestedFunction(kind, named)
    \/ EndUnit
    \/ \E kind \in {"local", "global", "binding"} : Declare(kind)
    \/ EnterLoop
    \/ EndLoop
    \/ \E heritage, private \in BOOLEAN : EnterClass(heritage, private)
    \/ \E explicit \in BOOLEAN : Constructor(explicit)
    \/ \E static \in BOOLEAN : FieldInitializers(static)
    \/ Method
    \/ EndClass
    \/ \E s \in DOMAIN symbols : NameReference(s)
    \/ ThisExpression
    \/ NewTarget
    \/ SuperProperty
    \/ SuperCall
    \/ PrivateName
    \/ DirectEval

Spec == Init /\ [][Next]_vars

-----------------------------------------------------------------------------
(* finalize: captures, the units with an environment, and locations. *)

captured == {refs[i].sym : i \in {j \in DOMAIN refs :
                /\ refs[j].what = "name" /\ symbols[refs[j].sym].home # refs[j].unit}}

has_env(u) ==
    \/ \E s \in captured : symbols[s].home = u
    \/ units[u].needs_this \/ units[u].needs_new_target \/ units[u].eval_reachable
    \/ u = 1 /\ module

\* Where a name lives: the global object, its unit's environment, a register.
location(s) ==
    LET home == symbols[s].home IN
    CASE symbols[s].kind = "binding" -> "environment"
      [] symbols[s].kind = "global" -> "global"
      [] OTHER -> IF s \in captured \/ units[home].eval_reachable
                  THEN "environment" ELSE "register"

this_slot(u) == units[u].needs_this
new_target_slot(u) == units[u].needs_new_target

\* Mutant: without the uses of super.
needs_env_own(c) == classes[c].heritage \/ classes[c].private \/ classes[c].instance

\* ClassInitUnits::needs_env: whether evaluating the class pushes an environment.
needs_env(c) ==
    \/ classes[c].heritage \/ classes[c].private \/ classes[c].instance
    \/ \E u \in Units : units[u].class = c /\ units[u].uses_super

-----------------------------------------------------------------------------
(* Emission: how many environments an access climbs. *)

One(b) == IF b THEN 1 ELSE 0

\* The class environments a unit has pushed at a point of its own code.
env_bias(scopes) ==
    Len(SelectSeq(scopes, LAMBDA x : x.kind = "class" /\ needs_env(x.id)))

\* Mutant: without the class environments a closure is created under.
creation_bias_none(u) == u - u
creation_bias(u) == env_bias(units[u].at)

\* Each unit from `from` up to, but not including, `to` adds its own
\* environment and the class environments it was created under.
Hops == [u \in Units |->
    LET hops[v \in Units] ==
          One(has_env(v)) + creation_bias(v) + IF v = 1 THEN 0 ELSE hops[units[v].parent]
    IN hops[u]]
env_depth_between(from, to) == Hops[from] - Hops[to]

biased_depth(r, depth) == env_bias(r.scopes) + depth

\* From a unit up to the class environment its super owner was created under.
super_env_depth_between(from) ==
    LET depth[v \in Units] ==
          One(has_env(v)) +
          IF ~is_arrow(v) /\ units[v].uses_super THEN 0
          ELSE creation_bias(v) + IF v = 1 THEN 0 ELSE depth[units[v].parent]
    IN depth[from]

bias_level(c) == env_bias(classes[c].at) + One(needs_env(c))

class_scope_depth(r, c) ==
    biased_depth(r, env_depth_between(r.unit, classes[c].outer)) - bias_level(c)

\* An access: a register of the running frame, or an environment so many hops
\* up.  `wants` is the environment (or the unit whose register) it means.
UnitEnv(u)  == [kind |-> "unit", id |-> u]
ClassEnv(c) == [kind |-> "class", id |-> c]
Register(u)       == [register |-> TRUE, depth |-> 0, wants |-> UnitEnv(u)]
Climb(depth, env) == [register |-> FALSE, depth |-> depth, wants |-> env]

access(r) ==
    LET home == symbols[r.sym].home IN
    CASE location(r.sym) = "environment" ->
           {Climb(biased_depth(r, env_depth_between(r.unit, home)), UnitEnv(home))}
      [] location(r.sym) = "register" -> {Register(home)}
      [] OTHER -> {}

\* Mutant: a constructor reads its own register, whoever called super().
reads_slot_of_arrows(u) == this_slot(this_home(u)) /\ this_home(u) # u

\* read_this_raw: an arrow reads its home's slot; so does the body of a derived
\* constructor, whose `this` an arrow may bind.
reads_slot(u) ==
    LET home == this_home(u) IN
    this_slot(home) /\ (home # u \/ units[home].kind = "derived")

this_access(r) ==
    LET home == this_home(r.unit) IN
    {IF reads_slot(r.unit)
     THEN Climb(biased_depth(r, env_depth_between(r.unit, home)), UnitEnv(home))
     ELSE Register(home)}

read_new_target(r) ==
    LET home == this_home(r.unit) IN
    {IF new_target_slot(home) /\ home # r.unit
     THEN Climb(biased_depth(r, env_depth_between(r.unit, home)), UnitEnv(home))
     ELSE Register(home)}

\* The class whose code a site is: the class of its nearest unit that is no arrow.
HomeClass(u) == units[this_home(u)].class

home_slot(r) == {Climb(biased_depth(r, super_env_depth_between(r.unit)),
                       ClassEnv(HomeClass(r.unit)))}

super_expr(r) == IF is_object_method(this_home(r.unit)) THEN this_access(r) ELSE home_slot(r)

\* ctor_class_scope, emit_instance_init_call: the class under construction.
instance_init(r) ==
    {Climb(class_scope_depth(r, c), ClassEnv(HomeClass(r.unit))) :
       c \in {d \in Range(r.privates) : classes[d].ctor = this_home(r.unit) /\ classes[d].instance}}

super_call(r) == home_slot(r) \cup read_new_target(r) \cup this_access(r) \cup instance_init(r)

\* The innermost class around a site whose body, not only its heritage,
\* holds the site and declares the private name; 0 if none does.
Lexical(r) ==
    LET around == FoldLeft(LAMBDA scopes, u : units[u].at \o scopes, r.scopes, Path[r.unit])
        body(x) == x.kind = "class" /\ ~x.heritage
        declaring == SelectSeq(around, LAMBDA x : body(x) /\ classes[x.id].private)
    IN IF declaring = <<>> THEN 0 ELSE Last(declaring).id

load_private_name(r) ==
    LET declaring == SelectSeq(r.privates, LAMBDA c : classes[c].private)
    IN {Climb(class_scope_depth(r, Last(declaring)), ClassEnv(Lexical(r)))}

accesses(r) ==
    CASE r.what = "name"       -> access(r)
      [] r.what = "this"       -> this_access(r)
      [] r.what = "new.target" -> read_new_target(r)
      [] r.what = "super"      -> super_expr(r)
      [] r.what = "super()"    -> super_call(r)
      [] r.what = "#name"      -> load_private_name(r)
      [] OTHER -> {}

-----------------------------------------------------------------------------
(* Running: the environments around a site, innermost first. *)

\* A class body that needs one has its environment; a loop whose variable is
\* captured pushes a copy of the unit's environment for each iteration.
scope_envs(scopes) ==
    LET env(x) == IF x.kind = "class" THEN ClassEnv(x.id)
                  ELSE [kind |-> "iteration", id |-> symbols[x.id].home]
        pushed == SelectSeq(scopes, LAMBDA x : IF x.kind = "class" THEN needs_env(x.id)
                                               ELSE location(x.id) = "environment")
    IN Reverse([i \in DOMAIN pushed |-> env(pushed[i])])

\* A closure keeps the environment of the frame that creates it, and an
\* activation pushes its own above that.  A named function expression creates
\* its own closure again in its prologue: called by that name, `again`, it
\* runs above the environment of the activation that created it.
Chain(r, again) ==
    LET own(u) == IF has_env(u) THEN <<UnitEnv(u)>> ELSE <<>>
        activation[u \in Units] ==
          own(u) \o (IF u = again THEN own(u) ELSE <<>>) \o
          IF u = 1 THEN <<>> ELSE scope_envs(units[u].at) \o activation[units[u].parent]
    IN scope_envs(r.scopes) \o activation[r.unit]

Named == {u \in Units : \E s \in DOMAIN symbols : symbols[s] = [home |-> u, kind |-> "self"]}

\* An iteration's environment stands for its unit's.
IsFor(env, wants) ==
    env = wants \/ (env.kind = "iteration" /\ wants = UnitEnv(env.id))

Reaches(r, a, chain) ==
    IF a.register THEN a.wants = UnitEnv(r.unit)
    ELSE a.depth + 1 \in DOMAIN chain /\ IsFor(chain[a.depth + 1], a.wants)

\* On the way to the environment meant lies an iteration of another unit.
CrossesIteration(chain, wants) ==
    \E i \in DOMAIN chain : /\ chain[i].kind = "iteration"
                            /\ \A j \in 1..i : ~IsFor(chain[j], wants)

-----------------------------------------------------------------------------
(* Properties *)

TypeOK ==
    /\ module \in BOOLEAN
    /\ \A u \in Units : units[u].parent < u
    /\ \A s \in DOMAIN symbols : symbols[s].home \in Units
    /\ \A i \in DOMAIN stack : stack[i].unit \in Units
    /\ Range(privates) \subseteq Classes

\* A read or write climbs exactly to the environment that holds what it means:
\* whatever closures, arrows, classes, heritages and computed keys lie between.
\* Left out: a path through another unit's per-iteration environment.
EveryReferenceReachesItsHome ==
    \A i \in DOMAIN refs : LET r == refs[i] chain == Chain(r, 0) IN
      r.ok => \A a \in accesses(r) : Reaches(r, a, chain) \/ CrossesIteration(chain, a.wants)

\* The early errors of the walk are those of the language: super in a method's
\* code, super() in a derived constructor's, #name inside a declaring class.
EarlyErrorsExact ==
    \A i \in DOMAIN refs : LET r == refs[i] kind == units[this_home(r.unit)].kind IN
      r.ok <=> CASE r.what = "super"   -> kind \notin {"main", "function"}
                 [] r.what = "super()" -> kind = "derived"
                 [] r.what = "#name"   -> Lexical(r) # 0
                 [] OTHER -> TRUE

\* When an arrow calls super(), every read of `this` in the constructor sees
\* the object it bound.
SuperBindsWhatIsRead ==
    \A i, j \in DOMAIN refs : LET call == refs[i] read == refs[j] IN
      (/\ call.what = "super()" /\ call.ok /\ read.what = "this"
       /\ this_home(call.unit) = this_home(read.unit)
       /\ call.unit # this_home(call.unit)) => reads_slot(read.unit)

ReferencesResolve ==
    EveryReferenceReachesItsHome /\ EarlyErrorsExact /\ SuperBindsWhatIsRead

\* model.rs, env_depth: "the hop count is purely structural".
HopCountIsStructural ==
    \A i \in DOMAIN refs : LET r == refs[i] IN
      r.ok => \A again \in {0} \cup Named : \A a \in accesses(r) :
                Reaches(r, a, Chain(r, again))

=============================================================================
