------------------------------- MODULE Tiers -------------------------------
(***************************************************************************)
(* Heat, feedback and the compiled tiers.  The interpreter counts the      *)
(* activations and loop crossings of a function and joins the types it     *)
(* sees at each instruction (v12-interp, feedback.rs).  A counter crossing *)
(* the threshold queues the function; once a frame has completed, the      *)
(* queue is drained into the engine's hook (jit_tier.rs), which compiles   *)
(* the function once with the baseline compiler (v12-jit-baseline).  The   *)
(* optimising pipeline (v12-jit-opt) reads the same feedback and writes a  *)
(* map of guards.                                                          *)
(*                                                                         *)
(* A compiled function is a closure over the function's instructions that  *)
(* works on bit patterns without a heap.  Code is given as a sequence of   *)
(* instructions [op, a, b, c], in the order and with the operands of       *)
(* v12-bytecode; a jump's target is its c.  Strings, which the compiled    *)
(* tier has no heap for, are not among the values.                         *)
(***************************************************************************)
EXTENDS Integers, SequencesExt, FiniteSetsExt

CONSTANTS
    Code,           \* function index -> its instructions
    Registers,      \* max_regs of every function: 0..Registers-1
    Inputs,         \* function index -> the pairs of values a caller may pass
    Threshold,      \* FEEDBACK_TIER_UP_THRESHOLD, 1024 in the source
    LoopHot,        \* LOOP_PEEL_HOT, 800 in the source
    MaxGuards,      \* MAX_GUARDS_PER_FUNCTION, 32 in the source
    MaxShapes,      \* IC_MAX_ENTRIES, 3 in the source
    SmiMax,         \* JsValue::SMI_MAX
    MaxCalls,       \* bound: activations
    MaxTicks        \* bound: instructions an activation may take

VARIABLES
    frame,      \* the activation under way: fn, pc, regs, args, ticks; or Idle
    feedback,   \* fn -> its FeedbackVector: types, ics, loops, entries
    pending,    \* tier_up_pending
    tier,       \* the hook: compiled, tier_ups and refused per function
    deopt,      \* fn -> the optimiser's last map: guards, and whether it was kept
    seen,       \* fn -> pc -> what was observed there, values and shapes
    last,       \* the activation completed last: fn, args, result; or Idle
    calls       \* activations so far

vars == <<frame, feedback, pending, tier, deopt, seen, last, calls>>

Fns == DOMAIN Code
Idle == [fn |-> -1]
Undefined == <<"undefined", 0>>
Null == <<"null", 0>>
NaN == <<"nan", 0>>
NegZero == <<"negzero", 0>>
Bool(b) == <<"bool", IF b THEN 1 ELSE 0>>

-----------------------------------------------------------------------------
(* Numbers and the operations of both tiers.  A value is <<class, n>>; an  *)
(* integral number inside the Smi range is always a "smi", zero with a     *)
(* sign and what lies outside stay doubles.                                *)

Numeric == {"smi", "double", "negzero", "nan"}

box_number(k) ==
    IF k[1] # "num" THEN k
    ELSE IF k[2] \in -SmiMax..SmiMax THEN <<"smi", k[2]>> ELSE <<"double", k[2]>>

\* ToNumber, of everything but strings and objects with methods.
to_number(v) ==
    CASE v[1] \in {"smi", "double", "bool"} -> <<"num", v[2]>>
      [] v[1] = "null" -> <<"num", 0>>
      [] v[1] = "negzero" -> NegZero
      [] OTHER -> NaN

Plus(x, y) ==
    IF NaN \in {x, y} THEN NaN
    ELSE IF x = NegZero /\ y = NegZero THEN NegZero ELSE <<"num", x[2] + y[2]>>

Negated(x) ==
    CASE x = NaN -> NaN
      [] x = NegZero -> <<"num", 0>>
      [] OTHER -> IF x[2] = 0 THEN NegZero ELSE <<"num", -x[2]>>

Ordered(op, x, y) ==
    /\ NaN \notin {x, y}
    /\ CASE op = "Lt" -> x[2] < y[2]
         [] op = "Le" -> x[2] <= y[2]
         [] op = "Gt" -> x[2] > y[2]
         [] op = "Ge" -> x[2] >= y[2]

SameNumber(v, w) == NaN \notin {v, w} /\ v[2] = w[2]

\* ops.rs
strict_equals(v, w) ==
    IF v[1] \in Numeric /\ w[1] \in Numeric THEN SameNumber(v, w) ELSE v = w

loose_equals(v, w) ==
    LET nullish == {"null", "undefined"}
        n(x) == IF x[1] = "bool" THEN <<"smi", x[2]>> ELSE x
    IN  IF v[1] \in nullish \/ w[1] \in nullish THEN v[1] \in nullish /\ w[1] \in nullish
        ELSE strict_equals(n(v), n(w))

to_boolean(v) ==
    CASE v[1] \in {"smi", "double", "bool"} -> v[2] # 0
      [] v[1] = "object" -> TRUE
      [] OTHER -> FALSE

\* runtime.rs: without a heap, by the bits unless both are numbers.
jit_strict_eq(v, w) ==
    IF v[1] \in Numeric /\ w[1] \in Numeric THEN SameNumber(v, w) ELSE v = w

jit_eq(v, w) ==
    IF v[1] \in Numeric /\ w[1] \in Numeric THEN SameNumber(v, w)
    ELSE v = w /\ v[1] \in {"undefined", "null", "bool"}

to_boolean_no_heap(v) ==
    IF v[1] \in Numeric THEN v # NaN /\ v[2] # 0
    ELSE IF v[1] = "bool" THEN v[2] = 1 ELSE v[1] \notin {"null", "undefined"}

\* Where the compiled tier's loose equality is not the language's: a boolean
\* against a number, and null against undefined (README, section 5).
LooselyApart(v, w) == jit_eq(v, w) # loose_equals(v, w)

-----------------------------------------------------------------------------
(* Feedback.                                                               *)

\* Lattice::join: smi and double meet in number, everything else in any.
\* MUTANT: a later observation does not widen an earlier one.
join_first(x, y) == IF x = "unknown" THEN y ELSE x

join(x, y) ==
    IF x = y \/ y = "unknown" THEN x
    ELSE IF x = "unknown" THEN y
    ELSE IF {x, y} \subseteq {"smi", "double", "number"} THEN "number" ELSE "any"

from_value(v) ==
    CASE v[1] = "smi" -> "smi"
      [] v[1] \in {"double", "negzero", "nan"} -> "double"
      [] OTHER -> "any"

\* A counter saturates and reports exactly the crossing.
Bumped(n) == IF n < Threshold + 1 THEN n + 1 ELSE n

\* MUTANT: every tick at or above the threshold is a crossing.
crossing_each(n) == n + 1 >= Threshold

crossing(n) == n < Threshold /\ n + 1 >= Threshold

\* PolyIc::record: refresh, append, or start over with the newest shape.
Recorded(ic, shape) ==
    IF \E k \in DOMAIN ic : ic[k] = shape THEN ic
    ELSE IF Len(ic) < MaxShapes THEN Append(ic, shape) ELSE <<shape>>

NoFeedback == [types |-> <<>>, ics |-> <<>>, loops |-> 0, entries |-> 0]

At(f, pc, default) == IF pc \in DOMAIN f THEN f[pc] ELSE default

Put(f, pc, v) == [k \in DOMAIN f \cup {pc} |-> IF k = pc THEN v ELSE f[k]]

record_type(fv, pc, v) ==
    [fv EXCEPT !.types = Put(@, pc, join(At(@, pc, "unknown"), from_value(v)))]

-----------------------------------------------------------------------------
(* The interpreter.                                                        *)

Instr(fn, pc) == Code[fn][pc + 1]

\* What an instruction leaves in its destination.
Result(i, regs) ==
    CASE i.op = "LoadInt" -> <<"smi", i.b>>
      [] i.op = "LoadNull" -> Null
      [] i.op = "Move" -> regs[i.b]
      [] i.op = "Add" -> box_number(Plus(to_number(regs[i.b]), to_number(regs[i.c])))
      [] i.op = "Sub" -> box_number(Plus(to_number(regs[i.b]), Negated(to_number(regs[i.c]))))
      [] i.op = "Neg" -> box_number(Negated(to_number(regs[i.b])))
      [] i.op \in {"Lt", "Le", "Gt", "Ge"} ->
            Bool(Ordered(i.op, to_number(regs[i.b]), to_number(regs[i.c])))
      [] i.op = "Eq" -> Bool(loose_equals(regs[i.b], regs[i.c]))
      [] i.op = "StrictEq" -> Bool(strict_equals(regs[i.b], regs[i.c]))
      [] i.op = "GetProperty" ->
            IF regs[i.b][1] = "object" THEN <<"smi", regs[i.b][2]>> ELSE Undefined

Branches == {"Jump", "JumpIfFalse", "JumpIfTrue"}

Target(i, pc, regs, truthy(_)) ==
    IF \/ i.op = "Jump"
       \/ i.op = "JumpIfTrue" /\ truthy(regs[i.a])
       \/ i.op = "JumpIfFalse" /\ ~truthy(regs[i.a])
    THEN i.c ELSE pc + 1

Noted(fn, crossed) == IF crossed THEN Append(pending, fn) ELSE pending

Saw(fn, pc, x) == seen' = [seen EXCEPT ![fn] = Put(@, pc, At(@, pc, {}) \cup {x})]

\* note_entry, then the frame: the arguments in the first registers.
Enter ==
    /\ frame = Idle /\ calls < MaxCalls
    /\ \E fn \in Fns : \E p \in Inputs[fn] :
         LET fv == feedback[fn]
             regs == [r \in 0..Registers - 1 |-> IF r < 2 THEN p[r + 1] ELSE Undefined]
         IN  /\ frame' = [fn |-> fn, pc |-> 0, regs |-> regs, args |-> regs,
                         ticks |-> 0]
             /\ feedback' = [feedback EXCEPT ![fn].entries = Bumped(@)]
             /\ pending' = Noted(fn, crossing(fv.entries))
    /\ calls' = calls + 1
    /\ UNCHANGED <<tier, deopt, seen, last>>

Running(ops) ==
    /\ frame # Idle /\ frame.ticks < MaxTicks
    /\ Instr(frame.fn, frame.pc).op \in ops

\* Arithmetic records the type of its result at its pc.
Arithmetic ==
    /\ Running({"Add", "Sub"})
    /\ LET i == Instr(frame.fn, frame.pc)
           v == Result(i, frame.regs)
       IN  /\ frame' = [frame EXCEPT !.regs[i.a] = v, !.pc = @ + 1, !.ticks = @ + 1]
           /\ feedback' = [feedback EXCEPT ![frame.fn] = record_type(@, frame.pc, v)]
           /\ Saw(frame.fn, frame.pc, v)
    /\ UNCHANGED <<pending, tier, deopt, last, calls>>

\* A property load records the shape in its cache and the type of the value.
GetProperty ==
    /\ Running({"GetProperty"})
    /\ LET i == Instr(frame.fn, frame.pc)
           v == Result(i, frame.regs)
           base == frame.regs[i.b]
           ics == feedback[frame.fn].ics
           typed == record_type(feedback[frame.fn], frame.pc, v)
       IN  /\ frame' = [frame EXCEPT !.regs[i.a] = v, !.pc = @ + 1, !.ticks = @ + 1]
           /\ IF base[1] = "object"
              THEN /\ feedback' = [feedback EXCEPT ![frame.fn] =
                        [typed EXCEPT !.ics = Put(ics, frame.pc,
                                                  Recorded(At(ics, frame.pc, <<>>), base[2]))]]
                   /\ Saw(frame.fn, frame.pc, base)
              ELSE feedback' = [feedback EXCEPT ![frame.fn] = typed] /\ UNCHANGED seen
    /\ UNCHANGED <<pending, tier, deopt, last, calls>>

Plain ==
    /\ Running({"LoadInt", "LoadNull", "Move", "Neg", "Lt", "Le", "Gt", "Ge", "Eq", "StrictEq"})
    /\ LET i == Instr(frame.fn, frame.pc)
       IN  /\ i.op = "Eq" => ~LooselyApart(frame.regs[i.b], frame.regs[i.c])
           /\ frame' = [frame EXCEPT !.regs[i.a] = Result(i, frame.regs), !.pc = @ + 1,
                                 !.ticks = @ + 1]
    /\ UNCHANGED <<feedback, pending, tier, deopt, seen, last, calls>>

Branch ==
    /\ Running(Branches)
    /\ frame' = [frame EXCEPT !.pc = Target(Instr(frame.fn, @), @, frame.regs, to_boolean),
                              !.ticks = @ + 1]
    /\ UNCHANGED <<feedback, pending, tier, deopt, seen, last, calls>>

\* note_loop.
LoopHeader ==
    /\ Running({"LoopHeader"})
    /\ frame' = [frame EXCEPT !.pc = @ + 1, !.ticks = @ + 1]
    /\ feedback' = [feedback EXCEPT ![frame.fn].loops = Bumped(@)]
    /\ pending' = Noted(frame.fn, crossing(feedback[frame.fn].loops))
    /\ UNCHANGED <<tier, deopt, seen, last, calls>>

-----------------------------------------------------------------------------
(* The baseline compiler.                                                  *)

\* The opcodes the template covers; a jump must stay inside the function and a
\* conditional one must not be the last instruction.
Supported == {"Move", "LoadInt", "LoadNull", "Add", "Sub", "Neg", "Lt", "Le", "Gt", "Ge",
              "Eq", "StrictEq", "Jump", "JumpIfFalse", "JumpIfTrue", "LoopHeader", "Return"}

build_and_verify_ir(fn) ==
    \A pc \in 0..Len(Code[fn]) - 1 :
      LET i == Instr(fn, pc)
      IN  /\ i.op \in Supported
          /\ i.op \in Branches => i.c < Len(Code[fn])
          /\ i.op \in Branches \ {"Jump"} => pc + 1 < Len(Code[fn])

pc_map(fn) == [k \in 1..Len(Code[fn]) |-> [jit_pc |-> 4 * (k - 1), bc_pc |-> k - 1]]

\* The closure's arithmetic is the interpreter's without a heap.
JitResult(i, regs) ==
    CASE i.op = "Eq" -> Bool(jit_eq(regs[i.b], regs[i.c]))
      [] i.op = "StrictEq" -> Bool(jit_strict_eq(regs[i.b], regs[i.c]))
      [] OTHER -> Result(i, regs)

\* MUTANT: the condition is tested as the template's code tests it, against
\* the bits of `false`.
jit_step_by_bits(fn, m) ==
    LET i == Instr(fn, m.pc)
    IN  CASE m.done -> m
          [] i.op = "Return" -> [m EXCEPT !.done = TRUE, !.result = m.regs[i.a]]
          [] i.op \in Branches ->
                [m EXCEPT !.pc = Target(i, m.pc, m.regs, LAMBDA v : v # Bool(FALSE))]
          [] i.op = "LoopHeader" -> [m EXCEPT !.pc = @ + 1]
          [] OTHER -> [m EXCEPT !.regs[i.a] = JitResult(i, m.regs), !.pc = @ + 1]

jit_step(fn, m) ==
    LET i == Instr(fn, m.pc)
    IN  CASE m.done -> m
          [] i.op = "Return" -> [m EXCEPT !.done = TRUE, !.result = m.regs[i.a]]
          [] i.op \in Branches -> [m EXCEPT !.pc = Target(i, m.pc, m.regs, to_boolean_no_heap)]
          [] i.op = "LoopHeader" -> [m EXCEPT !.pc = @ + 1]
          [] OTHER -> [m EXCEPT !.regs[i.a] = JitResult(i, m.regs), !.pc = @ + 1]

\* CompiledFn::execute over a register window.
execute(fn, regs) ==
    FoldLeft(LAMBDA m, k : jit_step(fn, m),
             [pc |-> 0, regs |-> regs, done |-> FALSE, result |-> Undefined],
             [k \in 1..MaxTicks |-> k])

-----------------------------------------------------------------------------
(* The optimising pipeline's guards.                                       *)

guard_for_lattice(x) ==
    CASE x = "smi" -> "TypeIsSmi"
      [] x \in {"double", "number"} -> "TypeIsNumber"
      [] OTHER -> "none"

check_value(guard, v) ==
    CASE guard = "TypeIsSmi" -> v[1] = "smi"
      [] guard = "TypeIsNumber" -> v[1] \in Numeric
      [] OTHER -> TRUE

\* Nothing is recorded past the budget.
record_guard(guards, g) == IF Len(guards) >= MaxGuards THEN guards ELSE Append(guards, g)

Loops(fn) == SelectSeq(pc_map(fn), LAMBDA e : Instr(fn, e.bc_pc).op = "LoopHeader")

\* The first jump below the header that goes back to it; a loop inside ends
\* the search.
Backedge(fn, hdr) ==
    LET back == {pc \in hdr + 1..Len(Code[fn]) - 1 :
                   /\ Instr(fn, pc).op = "Jump" /\ Instr(fn, pc).c = hdr
                   /\ \A q \in hdr + 1..pc : Instr(fn, q).op # "LoopHeader"}
    IN  IF back = {} THEN Len(Code[fn]) ELSE Min(back)

\* Arithmetic sites take a guard from their lattice, property sites from the
\* first shape of their cache.
SiteGuards(fn, fv, guards, e) ==
    LET pc == e.bc_pc
        op == Instr(fn, pc).op
        kind == guard_for_lattice(At(fv.types, pc, "unknown"))
        ic == At(fv.ics, pc, <<>>)
    IN  IF op \in {"Add", "Sub"} /\ kind # "none"
        THEN record_guard(guards, [bc_pc |-> pc, kind |-> kind, site |-> pc, shape |-> 0])
        ELSE IF op = "GetProperty" /\ ic # <<>> /\ At(fv.types, pc, "unknown") # "any"
        THEN record_guard(guards, [bc_pc |-> pc, kind |-> "ShapeEq", site |-> pc, shape |-> ic[1]])
        ELSE guards

\* A hot loop: a validity guard when it is counted, and a peeled iteration
\* guarding the shape of the first cached load in its body.
LoopGuards(fn, fv, guards, e) ==
    LET hdr == e.bc_pc
        back == Backedge(fn, hdr)
        counted == IF back < Len(Code[fn])
                   THEN record_guard(guards, [bc_pc |-> hdr, kind |-> "ValidityCell",
                                              site |-> hdr, shape |-> 0])
                   ELSE guards
        sites == {pc \in DOMAIN fv.ics : pc > hdr /\ pc < back /\ fv.ics[pc] # <<>>}
    IN  IF sites = {} THEN counted
        ELSE record_guard(counted, [bc_pc |-> hdr, kind |-> "ShapeEq", site |-> Min(sites),
                                    shape |-> fv.ics[Min(sites)][1]])

compile_with_feedback(fn, fv) ==
    LET sites == FoldLeft(LAMBDA g, e : SiteGuards(fn, fv, g, e), <<>>, pc_map(fn))
    IN  IF fv.loops > LoopHot
        THEN FoldLeft(LAMBDA g, e : LoopGuards(fn, fv, g, e), sites, Loops(fn))
        ELSE sites

-----------------------------------------------------------------------------
(* Completing a frame drains the queue into the hook.                      *)

\* JitTierHooks::on_tier_up: once compiled, later reports change nothing; a
\* function that was refused is tried again.
on_tier_up(t, fn) ==
    LET told == [t EXCEPT !.tier_ups[fn] = @ + 1]
    IN  IF fn \in t.compiled THEN told
        ELSE IF build_and_verify_ir(fn) THEN [told EXCEPT !.compiled = @ \cup {fn}]
        ELSE [told EXCEPT !.refused[fn] = @ + 1]

Return ==
    /\ Running({"Return"})
    /\ frame' = Idle
    /\ last' = [fn |-> frame.fn, args |-> frame.args,
                result |-> frame.regs[Instr(frame.fn, frame.pc).a]]
    /\ tier' = FoldLeft(on_tier_up, tier, pending)
    /\ pending' = <<>>
    /\ UNCHANGED <<feedback, deopt, seen, calls>>

\* Pipeline::compile_with_feedback, over what the interpreter has seen so far;
\* the baseline compile it ends with may refuse the function, and the map is
\* then dropped.
Optimise ==
    /\ frame = Idle
    /\ \E fn \in Fns :
         deopt' = [deopt EXCEPT ![fn] = [guards |-> compile_with_feedback(fn, feedback[fn]),
                                         kept |-> build_and_verify_ir(fn)]]
    /\ UNCHANGED <<frame, feedback, pending, tier, seen, last, calls>>

Init ==
    /\ frame = Idle /\ last = Idle
    /\ feedback = [fn \in Fns |-> NoFeedback]
    /\ pending = <<>>
    /\ tier = [compiled |-> {}, tier_ups |-> [fn \in Fns |-> 0], refused |-> [fn \in Fns |-> 0]]
    /\ deopt = [fn \in Fns |-> [guards |-> <<>>, kept |-> FALSE]]
    /\ seen = [fn \in Fns |-> <<>>]
    /\ calls = 0

Next == Enter \/ Arithmetic \/ GetProperty \/ Plain \/ Branch \/ LoopHeader \/ Return \/ Optimise

Spec == Init /\ [][Next]_vars

-----------------------------------------------------------------------------
(* Properties.                                                             *)

TypeOK ==
    /\ frame # Idle => frame.pc \in 0..Len(Code[frame.fn]) - 1
    /\ tier.compiled \subseteq Fns
    /\ \A fn \in Fns : feedback[fn].loops \in 0..Threshold + 1
                    /\ feedback[fn].entries \in 0..Threshold + 1

\* A compiled function gives, from the same arguments, what the interpreter
\* gave: same number, same sign of zero, same branch of every conditional.
CompiledAgrees ==
    last # Idle /\ last.fn \in tier.compiled =>
        LET m == execute(last.fn, last.args) IN m.done => m.result = last.result

\* Heat is reported once per counter: a function whose counter is past the
\* threshold has been reported or is in the queue, and none more often than it
\* has counters, however long it stays hot.
HeatReportedOnce ==
    \A fn \in Fns :
      LET reports == tier.tier_ups[fn] + Cardinality({k \in DOMAIN pending : pending[k] = fn})
          hot(n) == IF n >= Threshold THEN 1 ELSE 0
      IN  reports = hot(feedback[fn].entries) + hot(feedback[fn].loops)

\* A guard is a guess the profile bears out: it names an instruction the
\* deoptimisation map knows, its type admits every result seen there when it
\* was recorded, and its shape is one that was seen at the load it stands for.
GuardsFromProfileStep ==
    deopt' # deopt =>
      \A fn \in Fns :
        /\ Len(deopt'[fn].guards) <= MaxGuards
        /\ deopt'[fn] # deopt[fn] =>
            \A k \in DOMAIN deopt'[fn].guards :
              LET g == deopt'[fn].guards[k]
                  profile == At(seen[fn], g.site, {})
              IN  /\ \E e \in Range(pc_map(fn)) : e.bc_pc = g.bc_pc
                  /\ g.kind \in {"TypeIsSmi", "TypeIsNumber"} =>
                        \A v \in profile : check_value(g.kind, v)
                  /\ g.kind = "ShapeEq" => <<"object", g.shape>> \in profile

GuardsFromProfile == [][GuardsFromProfileStep]_vars

\* The compiled closure's doc: it takes the branches the emitted code takes.
BranchesAsEmitted ==
    frame # Idle /\ Running({"JumpIfFalse", "JumpIfTrue"}) =>
      LET v == frame.regs[Instr(frame.fn, frame.pc).a]
      IN  to_boolean_no_heap(v) = (v # Bool(FALSE))

=============================================================================
