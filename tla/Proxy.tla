------------------------------- MODULE Proxy -------------------------------
(***************************************************************************)
(* A proxy over an ordinary object (v12-interp/src/property.rs, the        *)
(* proxy_op_* methods, and the Object and Reflect functions of             *)
(* call_setup.rs that reach them).                                         *)
(*                                                                         *)
(* An operation on the proxy looks up the handler's trap.  Without one it  *)
(* is forwarded to the target; with one it is suspended while the trap,    *)
(* which is user code, runs: that code may change the target, revoke the   *)
(* proxy and operate on the proxy again before it answers, and the answer  *)
(* is then checked against the target.  Assignment and Object.freeze are   *)
(* chains of such operations.                                              *)
(*                                                                         *)
(* Left out: enumerability, proxies of proxies, receivers other than the   *)
(* proxy, accessor properties, and elements of the target.  The prototypes *)
(* used hold none of the names: a walk past the target finds nothing.      *)
(***************************************************************************)
EXTENDS Integers, Sequences, SequencesExt

CONSTANTS
    Keys,       \* property names
    Values,     \* what a program stores
    Undefined,  \* undefined
    Hole,       \* the value of a deleted property, whose descriptor stays
    Null,       \* null, and the end of a prototype chain
    Base,       \* an object used as a prototype
    None,       \* an absent field, no operation, no property
    Throw,      \* an operation that ends in an exception
    Descriptors,\* what to_property_descriptor and read_trap_descriptor return:
                \* properties described by a program or a trap, with fields absent
    Targets,    \* the objects a proxy is made for
    MaxSteps,   \* bound: what a program does, traps included
    MaxDepth    \* bound: operations suspended in traps at a time

\* What the instances assume of the constants.
ProxyAssumption ==
    /\ MaxSteps \in Nat /\ MaxDepth \in Nat
    /\ \A d \in Descriptors : /\ d.value \in Values \cup {None}
                              /\ {d.writable, d.configurable} \subseteq BOOLEAN \cup {None}

VARIABLES
    target,     \* the target: its properties, its prototype, extensible or not
    live,       \* the proxy has not been revoked
    stack,      \* the operations suspended in traps, innermost last
    due,        \* the operation to start, or its result to hand on
    told,       \* history: what the proxy has said that must stay true
    obs,        \* history: the operation the last step completed
    steps       \* bound: steps the program has made

vars == <<target, live, stack, due, told, obs, steps>>

-----------------------------------------------------------------------------
(* Descriptors: OwnDesc.                                                   *)

Vals == Values \cup {Undefined}

Data(v, w, c) == [value |-> v, writable |-> w, configurable |-> c]

\* A property of the target, or the descriptor a deletion left behind.
Stored == {Data(v, w, c) : v \in Vals, w \in BOOLEAN, c \in BOOLEAN}
             \cup {Data(Hole, w, c) : w \in BOOLEAN, c \in BOOLEAN}

\* desc_compatible that leaves the value out.
desc_compatible_attrs(desc, cur) ==
    /\ ~(desc.configurable = FALSE /\ cur.configurable)
    /\ cur.configurable \/ (desc.configurable # TRUE /\ (~cur.writable => desc.writable # TRUE))

desc_compatible(desc, cur) ==
    /\ ~(desc.configurable = FALSE /\ cur.configurable)
    /\ \/ cur.configurable
       \/ /\ desc.configurable # TRUE
          /\ ~cur.writable => desc.writable # TRUE /\ desc.value \in {None, cur.value}

Or(field, default) == IF field = None THEN default ELSE field

-----------------------------------------------------------------------------
(* The target's own operations.  Each gives the target after it and what   *)
(* it returned.                                                            *)

\* ordinary_own_descriptor.
Own(t, k) == IF t.props[k] # None /\ t.props[k].value = Hole THEN None ELSE t.props[k]

ordinary_own_keys(t) == {k \in Keys : Own(t, k) # None}

Put(t, k, d) == [t EXCEPT !.props[k] = d]
Result(t, r) == [t |-> t, res |-> r]

\* delete_property.
delete_property(t, k) ==
    IF t.props[k] = None THEN Result(t, TRUE)
    ELSE IF t.props[k].configurable THEN Result([t EXCEPT !.props[k].value = Hole], TRUE)
    ELSE Result(t, FALSE)

object_prevent_extensions(t) == Result([t EXCEPT !.ext = FALSE], TRUE)

\* object_set_prototype_of and reflect_set_prototype_of.
object_set_prototype_of(t, p) ==
    IF t.proto = p THEN Result(t, TRUE)
    ELSE IF t.ext THEN Result([t EXCEPT !.proto = p], TRUE)
    ELSE Result(t, FALSE)

\* apply_own_desc: a descriptor without a value changes nothing.
apply_own_desc(t, k, desc) ==
    LET base == IF Own(t, k) = None THEN Data(Undefined, FALSE, FALSE) ELSE Own(t, k)
    IN  IF desc.value = None THEN t
        ELSE Put(t, k, Data(desc.value, Or(desc.writable, base.writable),
                            Or(desc.configurable, base.configurable)))

\* ordinary_define_from_own_desc.
ordinary_define_from_own_desc(t, k, desc) ==
    LET cur == Own(t, k)
        refused == IF cur = None THEN ~t.ext
                   ELSE /\ ~cur.configurable
                        /\ \/ desc.configurable = TRUE
                           \/ ~cur.writable /\ desc.writable = TRUE
                           \/ ~cur.writable /\ desc.value \notin {None, cur.value}
    IN  IF refused THEN Result(t, FALSE) ELSE Result(apply_own_desc(t, k, desc), TRUE)

\* apply_property_descriptor that stores the descriptor as it was passed.
apply_property_descriptor_raw(t, k, desc) ==
    IF t.props[k] = None /\ ~t.ext THEN t ELSE Put(t, k, desc)

\* apply_property_descriptor with validate_redefine and merged_attrs, the
\* Object.defineProperty of the target itself: a deleted property still has
\* the descriptor that decides.
apply_property_descriptor(t, k, desc) ==
    LET cur == t.props[k]
        valid == cur.configurable \/
                 /\ desc.configurable # TRUE
                 /\ ~cur.writable => desc.writable # TRUE /\ desc.value \in {None, cur.value}
    IN  CASE cur = None /\ ~t.ext -> t
          [] cur = None /\ t.ext -> Put(t, k, Data(Or(desc.value, Undefined), Or(desc.writable, FALSE),
                                                  Or(desc.configurable, FALSE)))
          [] OTHER -> IF ~valid THEN t
                      ELSE Put(t, k, Data(Or(desc.value, cur.value), Or(desc.writable, cur.writable),
                                          Or(desc.configurable, cur.configurable)))

-----------------------------------------------------------------------------
(* The operations on the proxy: what each does without a trap, what user   *)
(* code may answer, and what becomes of an answer.  A check reads the      *)
(* target as the trap left it; only ownKeys asks whether the target is     *)
(* extensible before its trap runs (ext of the suspended operation).       *)

KeyOps == {"has", "get", "set", "deleteProperty", "getOwnPropertyDescriptor", "defineProperty"}
ObjectOps == {"isExtensible", "preventExtensions", "getPrototypeOf", "setPrototypeOf", "ownKeys"}

Arguments(op) ==
    CASE op = "set" -> Values
      [] op = "defineProperty" -> Descriptors
      [] op = "setPrototypeOf" -> {Null, Base}
      [] OTHER -> {None}

Forward(c) ==
    LET t == target IN
    CASE c.op = "has" -> Result(t, Own(t, c.key) # None)
      [] c.op = "get" -> Result(t, IF Own(t, c.key) = None THEN Undefined ELSE Own(t, c.key).value)
      [] c.op = "deleteProperty" -> delete_property(t, c.key)
      [] c.op = "getOwnPropertyDescriptor" -> Result(t, Own(t, c.key))
      [] c.op = "defineProperty" -> ordinary_define_from_own_desc(t, c.key, c.arg)
      [] c.op = "isExtensible" -> Result(t, t.ext)
      [] c.op = "preventExtensions" -> object_prevent_extensions(t)
      [] c.op = "getPrototypeOf" -> Result(t, t.proto)
      [] c.op = "setPrototypeOf" -> object_set_prototype_of(t, c.arg)
      [] c.op = "ownKeys" -> Result(t, ordinary_own_keys(t))

\* What a trap returns; a list of keys with a duplicate or a number in it
\* reads as Throw, and so does a getPrototypeOf answer that is no object.
Answers(op) ==
    CASE op = "get" -> Vals
      [] op = "getPrototypeOf" -> {Null, Base}
      [] op = "getOwnPropertyDescriptor" -> Descriptors \cup {None}
      [] op = "ownKeys" -> SUBSET Keys
      [] OTHER -> BOOLEAN

Unless(bad, answer) == IF bad THEN Throw ELSE answer

proxy_op_has(k, a) ==
    Unless(~a /\ ((Own(target, k) # None /\ ~Own(target, k).configurable) \/ ~target.ext), a)

proxy_op_get(k, a) ==
    LET d == Own(target, k)
    IN  Unless(d # None /\ ~d.configurable /\ ~d.writable /\ d.value # a, a)

proxy_op_set(k, v, a) ==
    LET d == Own(target, k)
    IN  Unless(a /\ d # None /\ ~d.configurable /\ ~d.writable /\ d.value # v, a)

proxy_op_delete(k, a) ==
    LET d == Own(target, k)
    IN  Unless(a /\ d # None /\ (~d.configurable \/ ~target.ext), a)

proxy_op_get_own_property(k, a) ==
    LET d == Own(target, k)
    IN  IF a = None
        THEN Unless((d # None /\ ~d.configurable) \/ ~target.ext, a)
        ELSE Unless(\/ d = None /\ ~target.ext
                    \/ /\ a.configurable = FALSE
                       /\ \/ d = None
                          \/ d.configurable
                          \/ d.writable /\ a.writable = FALSE
                          \/ ~desc_compatible(a, d), a)

proxy_op_define_own_property(k, desc, a) ==
    LET d == Own(target, k)
    IN  Unless(a /\ IF d = None
                    THEN ~target.ext \/ desc.configurable = FALSE
                    ELSE \/ desc.configurable = FALSE /\ d.configurable
                         \/ ~d.configurable /\ d.writable /\ desc.writable = FALSE
                         \/ ~d.configurable /\ ~desc_compatible(desc, d), a)

proxy_op_is_extensible(a) == Unless(a # target.ext, a)

proxy_op_prevent_extensions(a) == Unless(a /\ target.ext, a)

\* proxy_op_get_prototype_of that takes the trap's word.
proxy_op_get_prototype_of_trusting(a) == a

proxy_op_get_prototype_of(a) == Unless(~target.ext /\ a # target.proto, a)

proxy_op_set_prototype_of(p, a) == Unless(a /\ ~target.ext /\ p # target.proto, a)

\* proxy_op_own_keys that returns early for an extensible target.
proxy_op_own_keys_early(ext, a) == Unless(~ext /\ a # ordinary_own_keys(target), a)

proxy_op_own_keys(ext, a) ==
    LET held == {k \in ordinary_own_keys(target) : ~Own(target, k).configurable}
    IN  Unless(~(held \subseteq a) \/ (~ext /\ a # ordinary_own_keys(target)), a)

Checked(f, a) ==
    CASE f.op = "has" -> proxy_op_has(f.key, a)
      [] f.op = "get" -> proxy_op_get(f.key, a)
      [] f.op = "set" -> proxy_op_set(f.key, f.arg, a)
      [] f.op = "deleteProperty" -> proxy_op_delete(f.key, a)
      [] f.op = "getOwnPropertyDescriptor" -> proxy_op_get_own_property(f.key, a)
      [] f.op = "defineProperty" -> proxy_op_define_own_property(f.key, f.arg, a)
      [] f.op = "isExtensible" -> proxy_op_is_extensible(a)
      [] f.op = "preventExtensions" -> proxy_op_prevent_extensions(a)
      [] f.op = "getPrototypeOf" -> proxy_op_get_prototype_of(a)
      [] f.op = "setPrototypeOf" -> proxy_op_set_prototype_of(f.arg, a)
      [] f.op = "ownKeys" -> proxy_op_own_keys(f.ext, a)

-----------------------------------------------------------------------------
(* Operations that go on with another one: what is left to do is the       *)
(* `then` of the operation.                                                *)

Call(op, key, arg, then) ==
    [step |-> "call", op |-> op, key |-> key, arg |-> arg, then |-> then, ext |-> None, res |-> None]
Done(c, r) == [c EXCEPT !.step = "done", !.res = r]
Nothing == [kind |-> "nothing"]
Storing(v) == [kind |-> "store", value |-> v]
Hardening(frozen, keys) == [kind |-> "harden", frozen |-> frozen, keys |-> keys]

\* ordinary_set_with_receiver and receiver_store, a set without a trap: the
\* target's property decides, then the proxy is asked for its own property
\* and told to define it.
receiver_store(c) ==
    LET d == Own(target, c.key)
    IN  IF d # None /\ ~d.writable THEN Done(c, FALSE)
        ELSE Call("getOwnPropertyDescriptor", c.key, None, Storing(c.arg))

Stores(r, k, v) ==
    Call("defineProperty", k, IF r = None THEN Data(v, TRUE, TRUE) ELSE Data(v, None, None),
         [kind |-> "stored", value |-> v])

\* set_integrity_on: the answer of each definition is not looked at.
HardenNext(frozen, keys) ==
    IF keys = << >> THEN None
    ELSE Call("getOwnPropertyDescriptor", Head(keys), None, Hardening(frozen, keys))

Hardened(d, frozen) ==
    [d EXCEPT !.configurable = FALSE, !.writable = IF frozen THEN FALSE ELSE @]

\* What follows the result r of the operation f, or None.
Continue(f, r) ==
    IF r = Throw THEN None
    ELSE CASE f.then.kind = "store" ->
                IF r # None /\ r.writable = FALSE THEN None
                ELSE Stores(r, f.key, f.then.value)
           [] f.then.kind = "harden" /\ f.op = "preventExtensions" ->
                IF r THEN Call("ownKeys", None, None, f.then) ELSE None
           [] f.then.kind = "harden" /\ f.op = "ownKeys" ->
                HardenNext(f.then.frozen, SetToSeq(r))
           [] f.then.kind = "harden" /\ f.op = "getOwnPropertyDescriptor" ->
                IF r = None THEN HardenNext(f.then.frozen, Tail(f.then.keys))
                ELSE Call("defineProperty", f.key, Hardened(r, f.then.frozen), f.then)
           [] f.then.kind = "harden" /\ f.op = "defineProperty" ->
                HardenNext(f.then.frozen, Tail(f.then.keys))
           [] OTHER -> None

-----------------------------------------------------------------------------
(* History: what the proxy has told the program.                           *)

\* The operation the program asked for and its result, once it is over;
\* with a list of keys, whether the target was extensible at its start.
Outcome(f, r) ==
    CASE f.then.kind = "nothing" -> [op |-> f.op, key |-> f.key, arg |-> IF f.op = "ownKeys" THEN f.ext ELSE f.arg, res |-> r]
      [] f.then.kind = "store" ->
            [op |-> "set", key |-> f.key, arg |-> f.then.value, res |-> IF r = Throw THEN Throw ELSE FALSE]
      [] f.then.kind = "stored" -> [op |-> "set", key |-> f.key, arg |-> f.then.value, res |-> r]
      [] OTHER -> None

If(c, s) == IF c THEN s ELSE {}

\* What an outcome says for good: the object is closed; it has the property
\* and cannot lose it; the property cannot change its value; a closed object
\* has this prototype, and does not have this name.
Binding(f, o) ==
    If(o # None, LET shown == o.op = "getOwnPropertyDescriptor" /\ o.res \notin {None, Throw} IN
         If(o.op = "isExtensible" /\ o.res = FALSE, {<<"closed">>})
    \cup If(o.op = "preventExtensions" /\ o.res = TRUE, {<<"closed">>})
    \cup If(shown /\ o.res.configurable = FALSE, {<<"held", o.key>>})
    \cup If(shown /\ o.res.configurable = FALSE /\ o.res.writable = FALSE /\ o.res.value # None,
            {<<"fixed", o.key, o.res.value>>})
    \cup If(o.op = "getPrototypeOf" /\ o.res # Throw /\ <<"closed">> \in told, {<<"proto", o.res>>})
    \cup If(o.op = "ownKeys" /\ o.res # Throw /\ f.ext = FALSE,
            {<<"without", k>> : k \in {j \in Keys \ o.res : target.props[j] = None}}))

-----------------------------------------------------------------------------
Init ==
    /\ target \in Targets
    /\ live = TRUE
    /\ stack = << >>
    /\ due = None
    /\ told = {}
    /\ obs = None
    /\ steps = 0

\* The program, or the code of the innermost trap, is running.
Program ==
    /\ due = None
    /\ steps < MaxSteps
    /\ steps' = steps + 1
    /\ obs' = None

\* run_proxy_static and the operators: an operation on the proxy.
Operate(op, k, a) ==
    /\ Program
    /\ due' = Call(op, k, a, Nothing)
    /\ UNCHANGED <<target, live, stack, told>>

\* Object.freeze and Object.seal of the proxy.
Harden(frozen) ==
    /\ Program
    /\ due' = Call("preventExtensions", None, None, Hardening(frozen, << >>))
    /\ UNCHANGED <<target, live, stack, told>>

\* An operation on the target itself.
ChangeTarget(t) ==
    /\ Program
    /\ target' = t
    /\ UNCHANGED <<live, stack, due, told>>

\* Object.setPrototypeOf writes the link of an ordinary object whether it is
\* extensible or not, which ends what was known about it.
Relink(p) ==
    /\ Program
    /\ target' = [target EXCEPT !.proto = p]
    /\ told' = told \ {<<"proto", q>> : q \in {Null, Base}}
    /\ UNCHANGED <<live, stack, due>>

\* revoke_proxy.
Revoke ==
    /\ Program
    /\ live
    /\ live' = FALSE
    /\ UNCHANGED <<target, stack, due, told>>

Calling == due # None /\ due.step = "call"
Started == [due EXCEPT !.ext = target.ext]
Quiet == obs' = None /\ UNCHANGED <<live, told, steps>>

\* proxy_parts: a revoked proxy; proxy_trap_method: a trap that is not callable.
Refuse ==
    /\ Calling
    /\ due' = Done(Started, Throw)
    /\ Quiet /\ UNCHANGED <<target, stack>>

\* proxy_trap_method finds no trap.
NoTrap ==
    /\ Calling /\ live
    /\ IF due.op = "set"
       THEN due' = receiver_store(Started) /\ UNCHANGED target
       ELSE LET f == Forward(due) IN target' = f.t /\ due' = Done(Started, f.res)
    /\ Quiet /\ UNCHANGED stack

\* call_inline: the trap runs; the operation waits.
Trap ==
    /\ Calling /\ live
    /\ Len(stack) < MaxDepth
    /\ stack' = Append(stack, Started)
    /\ due' = None
    /\ Quiet /\ UNCHANGED target

\* The innermost trap returns a, or throws.
Answer(a) ==
    LET f == Last(stack) IN
    /\ due = None
    /\ stack' = Front(stack)
    /\ due' = Done(f, IF a = Throw THEN Throw ELSE Checked(f, a))
    /\ Quiet /\ UNCHANGED target

\* The result goes to what is left of the operation, or to the program.
Finish ==
    /\ due # None /\ due.step = "done"
    /\ due' = Continue(due, due.res)
    /\ obs' = IF due' = None THEN Outcome(due, due.res) ELSE None
    /\ told' = told \cup Binding(due, obs')
    /\ UNCHANGED <<target, live, stack, steps>>

Next ==
    \/ \E op \in KeyOps, k \in Keys : \E a \in Arguments(op) : Operate(op, k, a)
    \/ \E op \in ObjectOps : \E a \in Arguments(op) : Operate(op, None, a)
    \/ \E frozen \in BOOLEAN : Harden(frozen)
    \/ \E k \in Keys : ChangeTarget(delete_property(target, k).t)
    \/ \E k \in Keys, d \in Descriptors : ChangeTarget(apply_property_descriptor(target, k, d))
    \/ ChangeTarget(object_prevent_extensions(target).t)
    \/ \E p \in {Null, Base} : Relink(p)
    \/ Revoke
    \/ Refuse
    \/ NoTrap
    \/ Trap
    \/ stack # << >> /\ \E a \in Answers(Last(stack).op) \cup {Throw} : Answer(a)
    \/ Finish

Spec == Init /\ [][Next]_vars

-----------------------------------------------------------------------------
(* Properties.                                                             *)

\* The target keeps whole descriptors, and only operations suspended in a
\* trap remember whether it was extensible.
TypeOK ==
    /\ target \in [props : [Keys -> Stored \cup {None}], ext : BOOLEAN, proto : {Null, Base}]
    /\ live \in BOOLEAN
    /\ Len(stack) <= MaxDepth
    /\ \A i \in DOMAIN stack : stack[i].step = "call" /\ stack[i].ext \in BOOLEAN

\* The last outcome, when it is not an exception, is of op on key k.
Says(op, k) == obs # None /\ obs.op = op /\ obs.key = k /\ obs.res # Throw

\* A proxy that has called itself not extensible never calls itself
\* extensible again, keeps its prototype and gets no name it did not have,
\* whatever the traps answered and did to the target meanwhile; the one
\* exception is an ownKeys that began while the target was extensible
\* (proxy_op_is_extensible, _get_prototype_of, _set_prototype_of, _own_keys,
\* _get_own_property, _define_own_property).
ClosedStaysClosed ==
    /\ <<"closed">> \in told => ~(Says("isExtensible", None) /\ obs.res)
    /\ \A p \in {Null, Base} : <<"proto", p>> \in told =>
          /\ Says("getPrototypeOf", None) => obs.res = p
          /\ Says("setPrototypeOf", None) /\ obs.arg # p => ~obs.res
    /\ \A k \in Keys : <<"without", k>> \in told =>
          /\ Says("ownKeys", None) /\ ~obs.arg => k \notin obs.res
          /\ Says("getOwnPropertyDescriptor", k) => obs.res = None
          /\ Says("defineProperty", k) => ~obs.res

\* A property the proxy has shown to be non-configurable is never reported
\* absent or deleted again (proxy_op_has, _delete, _get_own_property,
\* _own_keys).
HeldStays ==
    \A k \in Keys : <<"held", k>> \in told =>
        /\ Says("has", k) => obs.res
        /\ Says("deleteProperty", k) => ~obs.res
        /\ Says("getOwnPropertyDescriptor", k) => obs.res # None
        /\ Says("ownKeys", None) => k \in obs.res

\* A property shown to be neither configurable nor writable has that value
\* in every later answer, and no assignment of another value succeeds
\* (proxy_op_get, _set, _get_own_property, _define_own_property).
FixedStays ==
    \A k \in Keys, v \in Vals : <<"fixed", k, v>> \in told =>
        /\ Says("get", k) => obs.res = v
        /\ Says("set", k) /\ obs.arg # v => ~obs.res
        /\ Says("getOwnPropertyDescriptor", k) /\ obs.res.configurable = FALSE =>
               obs.res.value \in {None, v} /\ obs.res.writable # TRUE
        /\ Says("defineProperty", k) /\ obs.arg.value \notin {None, v} => ~obs.res
=============================================================================
