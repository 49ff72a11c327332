------------------------------ MODULE Bytecode ------------------------------
(***************************************************************************)
(* One function's instruction words, from the emission funnels of          *)
(* v12-bccompiler/src/model.rs and the FunctionBuilder of v12-bytecode to  *)
(* the peephole optimizer, the validator and the interpreter's decoder.    *)
(*                                                                         *)
(* Lowering.tla models WHICH operations the compiler emits; this module    *)
(* models what they become: words of four bytes, a RegExt prefix in front  *)
(* of an instruction whose registers do not fit a byte, a wide header with *)
(* payload words when an immediate does not, absolute branch targets       *)
(* patched when a label is bound, and an optimizer that deletes words and  *)
(* moves every target and handler.  `written` keeps, at each word index,   *)
(* the operation the emitter was asked for: the meaning the words owe it.  *)
(*                                                                         *)
(* A value is an integer; Undefined stands for undefined and for NaN.      *)
(* Negative zero is not a value here.                                      *)
(***************************************************************************)
EXTENDS Integers, SequencesExt, FiniteSetsExt, Opcodes

CONSTANTS
    Kits,      \* sets of constructs: one function uses the constructs of one of them
    Literals,  \* the integers that literals denote
    LocalsEnds,  \* how many registers the locals take
    EnvSizes,  \* slots of the function's own environment; 0: it has none
    MaxItems   \* BOUND on the constructs of one function

VARIABLES
    phase,     \* "emit" | "optimize" | "done" | "error"
    kit,       \* the constructs this function is made of
    locals_end,  \* undef_reg: one past the locals
    words,     \* FunctionBuilder.instrs; the word at pc is words[pc + 1]
    written,   \* the operation emitted at a header, by word index: [pc -> operation]
    labels,    \* FunctionBuilder.labels: [label -> pc], -1 while unbound
    fixups,    \* FunctionBuilder.fixups: set of [at, label]
    handlers,  \* FunctionBuilder.handlers: sequence of [start, end, target, depth]
    scopes,    \* the enclosing constructs, innermost last
    values,    \* registers of the operands not yet consumed
    temp_top, high_water, handler_max, env_slots, items, rounds,
    source,    \* `written` with its labels and handlers resolved, kept from finish on
    orphaned   \* history: a round deleted a branch and left its prefix behind

vars == <<phase, kit, locals_end, words, written, labels, fixups, handlers, scopes, values,
          temp_top, high_water, handler_max, env_slots, items, rounds, source, orphaned>>

Byte == 256
Undefined == -999999

At(ws, pc) == ws[pc + 1]
Pcs(ws) == [i \in 1..Len(ws) |-> i - 1]
OpAt(ws, pc) == IF pc < Len(ws) THEN At(ws, pc)[1] ELSE 0
Imm16(w) == w[3] * Byte + w[4]
Imm24(w) == w[2] * Byte * Byte + Imm16(w)
TargetOf(w) == IF w[1] = Op.Jump THEN Imm24(w) ELSE Imm16(w)
IsBranch(w) == \E o \in Branching : w[1] = Op[o]

\* set_imm24 and set_imm16 keep the low 24 and 16 bits of the target
Retarget(w, t) ==
    IF w[1] = Op.Jump THEN <<w[1], (t \div (Byte * Byte)) % Byte, (t \div Byte) % Byte, t % Byte>>
    ELSE <<w[1], w[2], (t \div Byte) % Byte, t % Byte>>

Halves(hi, lo) == <<hi \div Byte, hi % Byte, lo \div Byte, lo % Byte>>
Hi(w) == w[1] * Byte + w[2]
Lo(w) == w[3] * Byte + w[4]

(***************************************************************************)
(* Encoding: an operation is <<name, x, y, z, u>>                          *)
(***************************************************************************)
WideWords(name, args) ==
    LET half(i) == IF i = 0 THEN 0 ELSE args[i]
        pay == WideOps[name].pay
    IN  <<<<Op.Wide, 0, 0, WideOps[name].disc>>>>
            \o [k \in 1..Len(pay) |-> Halves(half(pay[k][1]), half(pay[k][2]))]

\* LoadIntW: low word, high word, destination; literals are not negative
IntWords(dst, v) ==
    <<<<Op.Wide, 0, 0, LoadIntW>>,
      <<v \div 16777216, (v \div 65536) % Byte, (v \div Byte) % Byte, v % Byte>>,
      <<0, 0, 0, 0>>, Halves(0, dst)>>

Narrow(args) == \A i \in 1..3 : args[i] < Byte

\* emit_regs: the prefix carries the high byte of each register slot of `mask`
Prefixed(name, args, mask) ==
    LET high(i) == IF i \in mask THEN args[i] \div Byte ELSE 0
        bits == SumSet({CASE i = 1 -> 1 [] i = 2 -> 2 [] OTHER -> 4 : i \in mask})
        word == <<Op[name], args[1] % Byte, args[2] % Byte, args[3] % Byte>>
    IN  IF Narrow(args) THEN <<word>>
        ELSE <<<<Op.Wide, bits, 0, RegExt>>, <<0, high(1), high(2), high(3)>>, word>>

Encode(o) ==
    LET name == o[1]
        args == Tail(o)
        bytes == <<<<Op[name], args[1], args[2], args[3]>>>>
    IN  CASE name = "LoadInt" ->
                IF args[1] < Byte /\ args[2] < 128 THEN <<<<Op.LoadInt, args[1], 0, args[2]>>>>
                ELSE IntWords(args[1], args[2])
          [] name \in {"GetEnvSlot", "SetEnvSlot", "Closure", "NewEnvironment"} ->
                IF Narrow(args) THEN bytes
                ELSE WideWords(name \o "W", args)
          [] name = "Call" -> IF args[3] >= Byte THEN WideWords("CallW", args)
                              ELSE Prefixed(name, args, {1, 2})
          [] name \in AlwaysWide -> WideWords(name, args)
          [] name \in Conditional -> Prefixed(name, <<args[1], 0, 0>>, {1})
          [] name \in {"Jump", "LoopHeader"} -> <<<<Op[name], 0, 0, 0>>>>
          [] OTHER -> Prefixed(name, args, RegisterSlots[name])

(***************************************************************************)
(* Decoding: try_decode, decode_instr                                      *)
(***************************************************************************)
WideNamed(disc) ==
    LET found == {n \in DOMAIN WideOps : WideOps[n].disc = disc}
    IN  IF found = {} THEN "none" ELSE CHOOSE n \in found : TRUE

\* words of the sequence that starts at pc; 0 when it does not decode
WordWidth(ws, pc) ==
    LET w == At(ws, pc)
        disc == w[4]
        width == CASE disc = LoadIntW -> 4
                   [] disc = RegExt -> 2
                   [] WideNamed(disc) # "none" -> 1 + Len(WideOps[WideNamed(disc)].pay)
                   [] OTHER -> 0
    IN  IF w[1] # Op.Wide THEN 1
        ELSE IF pc + width > Len(ws) THEN 0 ELSE width

NameOf(code) == LET found == {o \in DOMAIN Op : Op[o] = code}
                IN  IF found = {} THEN "none" ELSE CHOOSE o \in found : TRUE

WideArgs(ws, pc, name) ==
    LET pay == WideOps[name].pay
        part(i, k) == IF pay[k][1] = i THEN Hi(At(ws, pc + k))
                      ELSE IF pay[k][2] = i THEN Lo(At(ws, pc + k)) ELSE 0
    IN  [i \in 1..4 |-> SumSet({part(i, k) : k \in 1..Len(pay)})]

\* the narrow instruction with the registers its prefix extends
Merged(w, prefix, payload) ==
    LET claimed(i) == LET bit == CASE i = 1 -> 1 [] i = 2 -> 2 [] OTHER -> 4
                      IN  (prefix[2] \div bit) % 2 = 1
    IN  [i \in 1..3 |-> IF claimed(i) THEN payload[i + 1] * Byte + w[i + 1] ELSE w[i + 1]]

Malformed == [op |-> <<"malformed", 0, 0, 0, 0>>, width |-> 1]

\* one logical operation and its width; a branch carries its target as second operand
NarrowOp(w, args, width) ==
    LET name == NameOf(w[1])
    IN  [op |-> CASE name \in Branching -> <<name, args[1], TargetOf(w), 0, 0>>
                  [] name = "LoadInt" -> <<name, args[1], IF w[4] < 128 THEN w[4] ELSE w[4] - Byte, 0, 0>>
                  [] OTHER -> <<name, args[1], args[2], args[3], 0>>,
         width |-> width]

decode_instr(ws, pc) ==
    LET w == At(ws, pc)
    IN  IF w[1] # Op.Wide THEN NarrowOp(w, <<w[2], w[3], w[4]>>, 1)
        ELSE IF WordWidth(ws, pc) = 0 THEN Malformed
        ELSE IF w[4] = RegExt THEN
            IF pc + 2 >= Len(ws) THEN Malformed
            ELSE NarrowOp(At(ws, pc + 2), Merged(At(ws, pc + 2), w, At(ws, pc + 1)), 3)
        ELSE IF w[4] = LoadIntW THEN
            LET low == At(ws, pc + 1)
            IN  [op |-> <<"LoadInt", Lo(At(ws, pc + 3)), Imm24(low) + low[1] * 16777216, 0, 0>>, width |-> 4]
        ELSE LET name == WideNamed(w[4])
                 a == WideArgs(ws, pc, name)
             IN  [op |-> <<IF name \in AlwaysWide THEN name ELSE
                             CASE name = "CallW" -> "Call" [] name = "ClosureW" -> "Closure"
                               [] name = "GetEnvSlotW" -> "GetEnvSlot" [] name = "SetEnvSlotW" -> "SetEnvSlot"
                               [] OTHER -> "NewEnvironment",
                           a[1], a[2], a[3], a[4]>>,
                  width |-> WordWidth(ws, pc)]

(***************************************************************************)
(* Emission                                                                *)
(***************************************************************************)
pc_now == Len(words)

\* operation o has become the words w; a branch's second operand is its label
Emitted(acc, o, w) ==
    LET here == Len(acc.words)
    IN  [words |-> acc.words \o w,
         written |-> [p \in DOMAIN acc.written \cup {here} |-> IF p = here THEN o ELSE acc.written[p]],
         fixups |-> IF o[1] \in Branching
                      THEN acc.fixups \cup {[at |-> here + Len(w) - 1, label |-> o[3]]} ELSE acc.fixups]

\* emit_words: operations `ops` in a row
Emit(ops) ==
    \E all \in {FoldLeft(LAMBDA acc, o : Emitted(acc, o, Encode(o)),
                         [words |-> words, written |-> written, fixups |-> fixups], ops)} :
        words' = all.words /\ written' = all.written /\ fixups' = all.fixups

Width(ops) == FoldLeft(LAMBDA n, o : n + Len(Encode(o)), 0, ops)

\* new_temps: the block is tracked in high_water
Take(n) == temp_top' = temp_top + n /\ high_water' = Max({high_water, temp_top + n})
TakeNone == UNCHANGED <<temp_top, high_water>>

NewLabels(n) == Len(labels) + n
Fresh(n) == labels \o [i \in 1..n |-> -1]
Bind(ls, l, pc) == [ls EXCEPT ![l] = pc]

Item(name) == phase = "emit" /\ name \in kit /\ items < MaxItems /\ items' = items + 1
Still == UNCHANGED <<phase, kit, locals_end, handlers, handler_max, env_slots, rounds, source, orphaned>>
Pop == Front(values)
Kind == IF scopes = <<>> THEN "body" ELSE Last(scopes).kind
Height == IF scopes = <<>> THEN 0 ELSE Last(scopes).height
Statements == {"body", "if", "else", "while", "try", "catch"}
Operand == Len(values) > Height
InStatement == Kind \in Statements /\ Len(values) = Height
\* the completed expression of a statement
Completed == Kind \in Statements /\ Len(values) = Height + 1

Literal(v) ==
    /\ Item("literal") /\ Take(1)
    /\ Emit(<<<<"LoadInt", temp_top, v, 0, 0>>>>)
    /\ values' = Append(values, temp_top)
    /\ UNCHANGED <<labels, scopes>> /\ Still

\* reading a local copies it into a temporary
Local ==
    /\ Item("local") /\ Take(1)
    /\ Emit(<<<<"Move", temp_top, 0, 0, 0>>>>)
    /\ values' = Append(values, temp_top)
    /\ UNCHANGED <<labels, scopes>> /\ Still

Binary(op) ==
    /\ Item("binary") /\ Len(values) >= Height + 2
    /\ Take(1)
    /\ Emit(<<<<op, temp_top, values[Len(values) - 1], Last(values), 0>>>>)
    /\ values' = Append(Front(Pop), temp_top)
    /\ UNCHANGED <<labels, scopes>> /\ Still

Assign ==
    /\ Item("assign") /\ Completed /\ TakeNone
    /\ Emit(<<<<"Move", 0, Last(values), 0, 0>>>>)
    /\ values' = Pop
    /\ UNCHANGED <<labels, scopes>> /\ Still

\* c ? a : b : both arms are moved into one destination
Conditionally ==
    /\ Item("conditional") /\ Operand /\ Take(1)
    /\ Emit(<<<<"JumpIfFalse", Last(values), NewLabels(1), 0, 0>>>>)
    /\ labels' = Fresh(2)
    /\ scopes' = Append(scopes, [kind |-> "then", dst |-> temp_top, l |-> NewLabels(1), m |-> NewLabels(2),
                                 height |-> Len(values) - 1, mark |-> 0, start |-> 0])
    /\ values' = Pop /\ Still

InArm(kind) == Kind = kind /\ Len(values) = Height + 1

OtherArm ==
    LET s == Last(scopes)
        ops == <<<<"Move", s.dst, Last(values), 0, 0>>, <<"Jump", 0, s.m, 0, 0>>>>
    IN  /\ InArm("then") /\ phase = "emit" /\ items' = items /\ TakeNone
        /\ Emit(ops)
        /\ labels' = Bind(labels, s.l, pc_now + Width(ops))
        /\ scopes' = Append(Front(scopes), [s EXCEPT !.kind = "otherwise"])
        /\ values' = Pop /\ Still

ArmsEnd ==
    LET s == Last(scopes)
        ops == <<<<"Move", s.dst, Last(values), 0, 0>>>>
    IN  /\ InArm("otherwise") /\ phase = "emit" /\ items' = items /\ TakeNone
        /\ Emit(ops)
        /\ labels' = Bind(labels, s.m, pc_now + Width(ops))
        /\ scopes' = Front(scopes) /\ values' = Append(Pop, s.dst) /\ Still

\* a || b and a && b : the left operand's register is the destination
Logical(op) ==
    /\ Item("logical") /\ Operand /\ TakeNone
    /\ Emit(<<<<op, Last(values), NewLabels(1), 0, 0>>>>)
    /\ labels' = Fresh(1)
    /\ scopes' = Append(scopes, [kind |-> "logical", dst |-> Last(values), l |-> NewLabels(1), m |-> 0,
                                 height |-> Len(values), mark |-> 0, start |-> 0])
    /\ UNCHANGED values /\ Still

LogicalEnd ==
    LET s == Last(scopes)
        ops == <<<<"Move", s.dst, Last(values), 0, 0>>>>
    IN  /\ InArm("logical") /\ phase = "emit" /\ items' = items /\ TakeNone
        /\ Emit(ops)
        /\ labels' = Bind(labels, s.l, pc_now + Width(ops))
        /\ scopes' = Front(scopes) /\ values' = Pop /\ Still

\* if: always a jump over the alternative, also when there is none
If ==
    /\ Item("if") /\ Completed /\ TakeNone
    /\ Emit(<<<<"JumpIfFalse", Last(values), NewLabels(1), 0, 0>>>>)
    /\ labels' = Fresh(2)
    /\ scopes' = Append(scopes, [kind |-> "if", dst |-> 0, l |-> NewLabels(1), m |-> NewLabels(2),
                                 height |-> Len(values) - 1, mark |-> 0, start |-> 0])
    /\ values' = Pop /\ Still

Else ==
    LET s == Last(scopes)
        ops == <<<<"Jump", 0, s.m, 0, 0>>>>
    IN  /\ phase = "emit" /\ Kind = "if" /\ InStatement /\ items' = items /\ TakeNone
        /\ Emit(ops)
        /\ labels' = Bind(labels, s.l, pc_now + Width(ops))
        /\ scopes' = Append(Front(scopes), [s EXCEPT !.kind = "else"])
        /\ UNCHANGED values /\ Still

IfEnd ==
    /\ phase = "emit" /\ Kind = "else" /\ InStatement
    /\ items' = items /\ TakeNone
    /\ labels' = Bind(labels, Last(scopes).m, pc_now)
    /\ scopes' = Front(scopes)
    /\ UNCHANGED <<words, written, fixups, values>> /\ Still

\* while: the header marks the loop's top for tier-up
While ==
    /\ Item("while") /\ InStatement /\ TakeNone
    /\ Emit(<<<<"LoopHeader", 0, 0, 0, 0>>>>)
    /\ labels' = Bind(Fresh(2), NewLabels(1), pc_now)
    /\ scopes' = Append(scopes, [kind |-> "test", dst |-> 0, l |-> NewLabels(1), m |-> NewLabels(2),
                                 height |-> Len(values), mark |-> 0, start |-> 0])
    /\ UNCHANGED values /\ Still

WhileBody ==
    /\ phase = "emit" /\ InArm("test") /\ items' = items /\ TakeNone
    /\ Emit(<<<<"JumpIfFalse", Last(values), Last(scopes).m, 0, 0>>>>)
    /\ scopes' = [scopes EXCEPT ![Len(scopes)].kind = "while"]
    /\ values' = Pop /\ UNCHANGED labels /\ Still

WhileEnd ==
    LET s == Last(scopes)
        ops == <<<<"Jump", 0, s.l, 0, 0>>>>
    IN  /\ phase = "emit" /\ Kind = "while" /\ InStatement /\ items' = items /\ TakeNone
        /\ Emit(ops)
        /\ labels' = Bind(labels, s.m, pc_now + Width(ops))
        /\ scopes' = Front(scopes) /\ UNCHANGED values /\ Still

\* try/catch: the exception is delivered into a register taken before the body
Try ==
    /\ Item("try") /\ InStatement /\ Take(1)
    /\ scopes' = Append(scopes, [kind |-> "try", dst |-> temp_top, l |-> 0, m |-> 0,
                                 height |-> Len(values), mark |-> temp_top, start |-> pc_now])
    /\ UNCHANGED <<words, written, fixups, labels, values>> /\ Still

\* the range covers at least one word; the catch clause stores the exception in the local
Catch ==
    LET s == Last(scopes)
        ops == <<<<"Jump", 0, NewLabels(1), 0, 0>>>>
    IN  /\ phase = "emit" /\ Kind = "try" /\ InStatement /\ items' = items /\ TakeNone
        /\ Emit(ops \o <<<<"Move", 0, s.dst, 0, 0>>>>)
        /\ labels' = Fresh(1)
        /\ scopes' = Append(Front(scopes), [s EXCEPT !.kind = "catch", !.l = NewLabels(1),
                                            !.m = Max({pc_now, s.start + 1}), !.height = Len(values)])
        /\ handlers' = Append(handlers, [start |-> s.start, end |-> Max({pc_now, s.start + 1}),
                                         target |-> pc_now + Width(ops), depth |-> s.dst])
        /\ handler_max' = Max({handler_max, s.dst + 1})
        /\ UNCHANGED <<phase, kit, locals_end, env_slots, rounds, source, orphaned, values>>

CatchEnd ==
    LET s == Last(scopes)
    IN  /\ phase = "emit" /\ Kind = "catch" /\ InStatement /\ items' = items
        /\ labels' = Bind(labels, s.l, pc_now)
        /\ scopes' = Front(scopes)
        /\ temp_top' = Min({s.mark, temp_top}) /\ UNCHANGED high_water
        /\ UNCHANGED <<words, written, fixups, values>> /\ Still

Leave(op) ==
    /\ Item("leave") /\ Completed /\ TakeNone
    /\ Emit(<<<<op, Last(values), 0, 0, 0>>>>)
    /\ values' = Pop /\ UNCHANGED <<labels, scopes>> /\ Still

\* [callee][this][args…] in a fresh block, the result in another register
CallTo(argc) ==
    /\ Item("call") /\ Take(argc + 3)
    /\ Emit(<<<<"Call", temp_top + argc + 2, temp_top, argc, 0>>>>)
    /\ values' = Append(values, temp_top + argc + 2)
    /\ UNCHANGED <<labels, scopes>> /\ Still

GetEnv(slot) ==
    /\ Item("env") /\ slot < env_slots /\ Take(1)
    /\ Emit(<<<<"GetEnvSlot", temp_top, 0, slot, 0>>>>)
    /\ values' = Append(values, temp_top)
    /\ UNCHANGED <<labels, scopes>> /\ Still

SetEnv(slot) ==
    /\ Item("env") /\ slot < env_slots /\ Completed /\ TakeNone
    /\ Emit(<<<<"SetEnvSlot", 0, slot, Last(values), 0>>>>)
    /\ values' = Pop /\ UNCHANGED <<labels, scopes>> /\ Still

ClosureOf(index) ==
    /\ Item("closure") /\ Take(1)
    /\ Emit(<<<<"Closure", temp_top, index, 0, 0>>>>)
    /\ values' = Append(values, temp_top)
    /\ UNCHANGED <<labels, scopes>> /\ Still

\* an operation of the wide table over fresh registers and the pending operand
WideStep(name) ==
    /\ Item("wide") /\ Completed /\ Take(1)
    /\ LET pay == WideOps[name].pay
           arg(i) == CASE i = 1 -> temp_top
                       [] i \in WideOps[name].regs -> Last(values)
                       [] i \notin UNION {Range(pay[k]) : k \in DOMAIN pay} -> 0
                       [] OTHER -> 300 + i
       IN  Emit(<<<<name, arg(1), arg(2), arg(3), arg(4)>>>>)
    /\ values' = Append(Pop, temp_top)
    /\ UNCHANGED <<labels, scopes>> /\ Still

(***************************************************************************)
(* finish: resolve, sort, optimize, validate                               *)
(***************************************************************************)
Before(h, g) == h.start < g.start \/ (h.start = g.start /\ h.end > g.end)
max_regs == Max({high_water, locals_end + 1, handler_max})

Finish ==
    LET end == <<<<"Move", temp_top, locals_end, 0, 0>>, <<"Return", temp_top, 0, 0, 0>>>>
        step(ws, f) == [ws EXCEPT ![f.at + 1] = Retarget(@, labels[f.label])]
        all == words \o Encode(end[1]) \o Encode(end[2])
        second == Len(words) + Len(Encode(end[1]))
        asked == [p \in DOMAIN written \cup {Len(words), second} |->
                    IF p = Len(words) THEN end[1] ELSE IF p = second THEN end[2]
                    ELSE IF written[p][1] \in Branching THEN [written[p] EXCEPT ![3] = labels[@]]
                    ELSE written[p]]
    IN  /\ phase = "emit" /\ scopes = <<>> /\ values = <<>> /\ items > 0
        /\ phase' = "optimize"
        /\ words' = FoldSet(LAMBDA f, ws : step(ws, f), all, fixups)
        /\ handlers' = SortSeq(handlers, Before)
        /\ source' = [ops |-> asked, handlers |-> SortSeq(handlers, Before), length |-> Len(all)]
        /\ temp_top' = temp_top + 1 /\ high_water' = Max({high_water, temp_top + 1})
        /\ written' = <<>> /\ fixups' = {} /\ labels' = <<>>
        /\ UNCHANGED <<kit, locals_end, scopes, values, handler_max, env_slots, items, rounds, orphaned>>

(***************************************************************************)
(* The peephole optimizer                                                  *)
(***************************************************************************)
\* width_of[i] > 0: the headers of the word stream; an undecodable word counts as one
Headers(ws) ==
    LET from[p \in 0..Len(ws)] ==
            IF p = Len(ws) THEN {}
            ELSE {p} \cup from[Min({Len(ws), p + Max({1, WordWidth(ws, p)})})]
    IN  from[0]

Signed(b) == IF b < 128 THEN b ELSE b - Byte
Apply(op, x, y) == IF Undefined \in {x, y} THEN Undefined
                   ELSE CASE op = "Add" -> x + y [] op = "Sub" -> x - y [] OTHER -> x * y

\* s = [words, gone]: the pair of narrow loads before i + 1 that an arithmetic word consumes
fold_wraps(v) == TRUE
fold_fits(v) == -128 <= v /\ v <= 127
folding(s, i, w, v) ==
    [words |-> [s.words EXCEPT ![i] = <<Op.LoadInt, w[2], 0, v % Byte>>],
     gone |-> s.gone \cup {i, i + 1}]
fold_value(direct, w1, w2, w3) ==
    Apply(NameOf(w3[1]), Signed(IF direct THEN w1[4] ELSE w2[4]), Signed(IF direct THEN w2[4] ELSE w1[4]))
fold_words(s, i, w1, w2, w3, heads) ==
    LET narrow(p, w) == p \in heads /\ w[1] = Op.LoadInt
        direct == w3[3] = w1[2] /\ w3[4] = w2[2]
        swapped == w3[1] \in {Op.Add, Op.Mul} /\ w3[3] = w2[2] /\ w3[4] = w1[2]
        v == fold_value(direct, w1, w2, w3)
    IN  IF {i - 1, i} \cap s.gone = {} /\ narrow(i, w2) /\ narrow(i - 1, w1) /\ i + 1 \in heads
             /\ NameOf(w3[1]) \in Arithmetic /\ (direct \/ swapped) /\ fold_fits(v)
        THEN folding(s, i, w3, v)
        ELSE s
fold_at(s, i, heads) ==
    fold_words(s, i, At(s.words, i - 1), At(s.words, i), At(s.words, i + 1), heads)

\* branches to the next header
dead_branches(ws, heads) ==
    {h \in heads :
        LET later == {g \in heads : g > h}
            next == IF later = {} THEN Len(ws) ELSE Min(later)
        IN  At(ws, h)[1] \in {Op.Jump, Op.JumpIfFalse, Op.JumpIfTrue} /\ TargetOf(At(ws, h)) = next}

\* those with a prefix: it is a header of its own, whose payload is the word between
orphans(ws, heads) ==
    {h \in dead_branches(ws, heads) :
        h - 2 \in heads /\ At(ws, h - 2)[1] = Op.Wide /\ At(ws, h - 2)[4] = RegExt}

\* payload words live or die with their header
with_payload(ws, gone, heads) ==
    {p \in 0..(Len(ws) - 1) : Max({h \in heads : h <= p}) \in gone}

remapped_jumps_only(w) == w[1] = Op.Jump
remapped(w) == IsBranch(w)

compact(ws, hs, gone) ==
    LET n == Len(ws)
        map == [p \in 0..n |-> Cardinality({q \in 0..(p - 1) : q \notin gone})]
        kept == SelectSeq(Pcs(ws), LAMBDA p : p \notin gone)
        moved(w) == IF remapped(w) THEN Retarget(w, map[Min({n, TargetOf(w)})]) ELSE w
    IN  [words |-> [k \in 1..Len(kept) |-> moved(At(ws, kept[k]))],
         handlers |-> SelectSeq([k \in 1..Len(hs) |->
                         [hs[k] EXCEPT !.start = map[@], !.end = map[@], !.target = map[@]]],
                         LAMBDA h : h.end > h.start),
         changed |-> TRUE]

\* at most 16 hops through unconditional jumps
RECURSIVE landing(_, _, _, _)
landing(ws, self, t, hops) ==
    IF hops < 16 /\ t # self /\ OpAt(ws, t) = Op.Jump
    THEN landing(ws, self, Imm24(At(ws, t)), hops + 1) ELSE [target |-> t, hops |-> hops]

thread(ws) ==
    LET step(s, i) ==
            LET w == At(s.words, i)
                to == landing(s.words, IF w[1] = Op.Jump THEN i ELSE -1, TargetOf(w), 0)
            IN  IF IsBranch(w) /\ to.hops > 0
                THEN [words |-> [s.words EXCEPT ![i + 1] = Retarget(w, to.target)], changed |-> TRUE]
                ELSE s
    IN  FoldLeft(step, [words |-> ws, changed |-> FALSE], Pcs(ws))

folded(ws, heads) ==
    FoldLeft(LAMBDA s, i : fold_at(s, i, heads), [words |-> ws, gone |-> {}],
             [i \in 1..Max({0, Len(ws) - 3}) |-> i])

dropped(s, heads) ==
    [words |-> s.words, gone |-> with_payload(s.words, s.gone \cup dead_branches(s.words, heads), heads)]

packed(s, hs) ==
    IF s.gone = {} THEN [words |-> s.words, handlers |-> hs, changed |-> FALSE]
    ELSE compact(s.words, hs, s.gone)

threaded(s, t) == [words |-> t.words, handlers |-> s.handlers, changed |-> s.changed \/ t.changed]

shrunk(ws, hs, heads) == packed(dropped(folded(ws, heads), heads), hs)
round(ws, hs) ==
    LET s == shrunk(ws, hs, Headers(ws)) IN threaded(s, thread(s.words))

MaxRounds == 8

(***************************************************************************)
(* FunctionBytecode::validate                                              *)
(***************************************************************************)
HandlersNest(hs, length) ==
    /\ \A i \in 1..Len(hs) : hs[i].end > hs[i].start /\ hs[i].target < length
    /\ \A i, j \in 1..Len(hs) : i < j =>
          /\ hs[i].start <= hs[j].start
          /\ hs[i].end > hs[j].start => hs[j].end <= hs[i].end /\ hs[j].depth > hs[i].depth

\* the registers and immediates of one decoded operation
OperandsFit(d, regs, length) ==
    LET o == d.op
        slots == IF o[1] \in AlwaysWide THEN WideOps[o[1]].regs
                 ELSE IF o[1] = "malformed" \/ o[1] = "none" THEN {} ELSE RegisterSlots[o[1]]
    IN  /\ o[1] \notin {"malformed", "none"}
        /\ \A i \in slots : o[i + 1] < regs
        /\ o[1] \in Branching => o[3] <= length

\* env slots against the environments this function allocated, in stream order
EnvAccessFits(ws, heads) ==
    LET at(p) == decode_instr(ws, p).op
    IN  \A p \in heads :
          LET o == at(p)
              depth == IF o[1] = "GetEnvSlot" THEN o[3] ELSE o[2]
              slot == IF o[1] = "GetEnvSlot" THEN o[4] ELSE o[3]
              own == SelectSeq(Pcs(ws), LAMBDA q : q \in heads /\ q < p /\ at(q)[1] = "NewEnvironment")
          IN  o[1] \in {"GetEnvSlot", "SetEnvSlot"} /\ depth < Len(own) =>
                slot < at(own[Len(own) - depth])[3]

validate(ws, hs, regs) ==
    LET heads == Headers(ws)
        prefix(p) == At(ws, p)[1] = Op.Wide /\ At(ws, p)[4] = RegExt
        prefixed(p) == \E q \in heads : q + 2 = p /\ prefix(q)
    IN  /\ regs > 0
        /\ HandlersNest(hs, Len(ws))
        /\ \A p \in heads : prefix(p) => p + 2 \in heads /\ At(ws, p + 2)[1] # Op.Wide
        /\ \A p \in heads : ~prefixed(p) => OperandsFit(decode_instr(ws, p), regs, Len(ws))
        /\ EnvAccessFits(ws, heads)

Optimize ==
    /\ phase = "optimize"
    /\ \E r \in {round(words, handlers)} :
        /\ words' = r.words /\ handlers' = r.handlers /\ rounds' = rounds + 1
        /\ phase' = IF r.changed /\ rounds + 1 < MaxRounds THEN "optimize"
                    ELSE IF validate(r.words, r.handlers, max_regs) THEN "done" ELSE "error"
    /\ LET heads == Headers(words)
       IN  orphaned' = (orphaned \/ orphans(folded(words, heads).words, heads) # {})
    /\ UNCHANGED <<kit, locals_end, written, labels, fixups, scopes, values, temp_top, high_water,
                   handler_max, env_slots, items, source>>

(***************************************************************************)
(* The behaviour                                                           *)
(***************************************************************************)
Init ==
    /\ phase = "emit" /\ kit \in Kits /\ locals_end \in LocalsEnds
    /\ env_slots \in (IF "env" \in kit THEN EnvSizes ELSE {0})
    /\ words = IF env_slots = 0 THEN <<>> ELSE Encode(<<"NewEnvironment", 0, env_slots, 0, 0>>)
    /\ written = IF env_slots = 0 THEN <<>> ELSE [p \in {0} |-> <<"NewEnvironment", 0, env_slots, 0, 0>>]
    /\ labels = <<>> /\ fixups = {} /\ handlers = <<>> /\ scopes = <<>> /\ values = <<>>
    /\ temp_top = locals_end + 1 /\ high_water = 0 /\ handler_max = 0 /\ items = 0 /\ rounds = 0
    /\ source = <<>> /\ orphaned = FALSE

Structure ==
    OtherArm \/ ArmsEnd \/ LogicalEnd \/ Else \/ IfEnd \/ WhileBody \/ WhileEnd \/ Catch \/ CatchEnd

Next ==
    \/ \E v \in Literals : Literal(v)
    \/ Local \/ Assign \/ Conditionally \/ If \/ While \/ Try \/ Structure
    \/ \E op \in Arithmetic : Binary(op)
    \/ \E op \in {"JumpIfTrue", "JumpIfFalse"} : Logical(op)
    \/ \E op \in {"Throw", "Return"} : Leave(op)
    \/ \E argc \in {1, 256} : CallTo(argc)
    \/ \E slot \in {0, 256} : GetEnv(slot) \/ SetEnv(slot)
    \/ \E index \in {1, 256} : ClosureOf(index)
    \/ \E name \in AlwaysWide : WideStep(name)
    \/ Finish \/ Optimize

Spec == Init /\ [][Next]_vars

(***************************************************************************)
(* What an instruction stream does                                         *)
(***************************************************************************)
Loops == 2   \* BOUND on the visits of loop headers a comparison follows

Truthy(v) == v \notin {0, Undefined}
Reg(m, r) == IF r \in DOMAIN m.regs THEN m.regs[r] ELSE Undefined
Put(m, r, v) == [m EXCEPT !.regs = [q \in DOMAIN @ \cup {r} |-> IF q = r THEN v ELSE @[q]]]
Note(m, event) == [m EXCEPT !.trace = Append(@, event)]

\* one operation; `next` is where it falls through to
Exec(m, o, next) ==
    LET go(n) == [n EXCEPT !.pc = next]
        halt(how, v) == [m EXCEPT !.how = how, !.value = v]
    IN  CASE o[1] = "Move" -> go(Put(m, o[2], Reg(m, o[3])))
          [] o[1] = "LoadInt" -> go(Put(m, o[2], o[3]))
          [] o[1] \in Arithmetic -> go(Put(m, o[2], Apply(o[1], Reg(m, o[3]), Reg(m, o[4]))))
          [] o[1] = "Jump" -> [m EXCEPT !.pc = o[3]]
          [] o[1] = "JumpIfFalse" -> [m EXCEPT !.pc = IF Truthy(Reg(m, o[2])) THEN next ELSE o[3]]
          [] o[1] = "JumpIfTrue" -> [m EXCEPT !.pc = IF Truthy(Reg(m, o[2])) THEN o[3] ELSE next]
          [] o[1] = "LoopHeader" -> IF m.loops = Loops THEN halt("looping", 0)
                                    ELSE go([m EXCEPT !.loops = @ + 1])
          [] o[1] = "Return" -> halt("return", Reg(m, o[2]))
          [] o[1] = "Throw" -> [m EXCEPT !.how = "throw", !.value = Reg(m, o[2])]
          [] o[1] = "NewEnvironment" -> go(Note([m EXCEPT !.env = <<>>], <<"env", o[3]>>))
          [] o[1] = "SetEnvSlot" ->
                go([m EXCEPT !.env = [s \in DOMAIN @ \cup {o[3]} |-> IF s = o[3] THEN Reg(m, o[4]) ELSE @[s]]])
          [] o[1] = "GetEnvSlot" ->
                go(Put(m, o[2], IF o[4] \in DOMAIN m.env THEN m.env[o[4]] ELSE Undefined))
          [] o[1] = "Call" -> go(Put(Note(m, <<"call", o[3], o[4]>>), o[2], 7))
          [] o[1] = "Closure" -> go(Put(m, o[2], 1000 + o[3]))
          [] o[1] \in AlwaysWide ->
                LET seen(i) == IF i \in WideOps[o[1]].regs /\ i # 1 THEN Reg(m, o[i + 1]) ELSE o[i + 1]
                IN  go(Put(Note(m, <<o[1], seen(1), seen(2), seen(3), seen(4)>>), o[2], 9))
          [] OTHER -> halt("malformed", 0)

\* unwind: the covering handler that starts last; registers from its depth up are reset
Unwind(m, hs) ==
    LET covering == SelectSeq(hs, LAMBDA h : h.start <= m.pc /\ m.pc < h.end)
        h == FoldLeft(LAMBDA best, g : IF g.start >= best.start THEN g ELSE best, covering[1], covering)
    IN  IF covering = <<>> THEN [m EXCEPT !.how = "uncaught"]
        ELSE [m EXCEPT !.how = "running", !.pc = h.target,
                       !.regs = [r \in {q \in DOMAIN @ : q < h.depth} \cup {h.depth} |->
                                   IF r = h.depth THEN m.value ELSE @[r]]]

RECURSIVE Drive(_, _, _, _, _)
Drive(m, hs, fetch(_), length, fuel) ==
    IF m.how = "throw" THEN Drive(Unwind(m, hs), hs, fetch, length, fuel)
    ELSE IF m.how # "running" THEN m
    ELSE IF fuel = 0 THEN [m EXCEPT !.how = "endless"]
    ELSE IF m.pc >= length THEN [m EXCEPT !.how = "return", !.value = Undefined]
    ELSE LET d == fetch(m.pc) IN Drive(Exec(m, d.op, m.pc + d.width), hs, fetch, length, fuel - 1)

Begin == [pc |-> 0, regs |-> <<>>, env |-> <<>>, trace |-> <<>>, how |-> "running", value |-> 0, loops |-> 0]
Seen(m) == [how |-> m.how, value |-> m.value, trace |-> m.trace, env |-> m.env]

Asked == Seen(Drive(Begin, source.handlers,
                    LAMBDA p : IF p \in DOMAIN source.ops
                               THEN [op |-> source.ops[p], width |-> Len(Encode(source.ops[p]))] ELSE Malformed,
                    source.length, 60))
Given == Seen(Drive(Begin, handlers, LAMBDA p : decode_instr(words, p), Len(words), 60))

(***************************************************************************)
(* Properties                                                              *)
(***************************************************************************)
TypeOK ==
    /\ phase \in {"emit", "optimize", "done", "error"}
    /\ \A i \in 1..Len(words) : Len(words[i]) = 4 /\ \A k \in 1..4 : words[i][k] \in 0..(Byte - 1)
    /\ \A f \in fixups : f.at < Len(words) /\ f.label \in 1..Len(labels)
    /\ temp_top >= locals_end + 1 /\ rounds \in 0..MaxRounds
    /\ phase = "emit" => temp_top <= Max({high_water, locals_end + 1})

\* Labels, prefixes, wide escapes and every round of the optimizer leave the meaning of the
\* function alone: decoding the words and running them gives the result, the environment and the
\* observable steps of the operations the emitter was asked for, in the same order.  An if that
\* does nothing, whose test is in a register beyond a byte, is the exception: the optimizer deletes
\* its branch and keeps the prefix, which the next instruction takes for its own.  Until the
\* validator has looked at such words nothing is said of them; those it lets pass run as written.
CompiledRunsAsWritten == phase = "done" \/ (phase = "optimize" /\ ~orphaned) => Given = Asked

\* The compiler's own output passes the validator: no rewrite leaves an empty or overlapping
\* handler, a register past the window, or a target past the end, and none a prefix without its
\* instruction but the one that deletes the branch of such an if.
OutputValidates == phase = "error" => orphaned
=============================================================================
