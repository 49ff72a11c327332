------------------------------ MODULE Opcodes -------------------------------
(***************************************************************************)
(* The opcodes Bytecode uses and the shape of their operands               *)
(* (v12-bytecode/src/opcode.rs, opspec.rs, wide.rs).                       *)
(***************************************************************************)
EXTENDS Integers

Op == [Move |-> 1, LoadInt |-> 3, Wide |-> 4, Add |-> 10, Sub |-> 11, Mul |-> 12,
       Jump |-> 34, JumpIfFalse |-> 35, JumpIfTrue |-> 36, LoopHeader |-> 37, Call |-> 38,
       Return |-> 39, Throw |-> 40, Closure |-> 46, NewEnvironment |-> 47,
       GetEnvSlot |-> 48, SetEnvSlot |-> 49, JumpIfNullish |-> 67]

Conditional == {"JumpIfFalse", "JumpIfTrue", "JumpIfNullish"}
Branching == Conditional \cup {"Jump"}
Arithmetic == {"Add", "Sub", "Mul"}

\* the operand slots that are registers (slot_is_register)
RegisterSlots == [o \in DOMAIN Op |->
    CASE o \in Arithmetic -> {1, 2, 3}
      [] o \in {"Move", "Call"} -> {1, 2}
      [] o \in Conditional \cup {"LoadInt", "Closure", "GetEnvSlot", "Throw", "Return"} -> {1}
      [] o = "SetEnvSlot" -> {3}
      [] OTHER -> {}]

\* WideOp: the operand each half of each payload word carries (0: zero bits), and
\* which operands are registers (each_register)
WideOps ==
    [GetEnvSlotW      |-> [disc |-> 2,  pay |-> << <<1, 2>>, <<0, 3>> >>, regs |-> {1}],
     SetEnvSlotW      |-> [disc |-> 3,  pay |-> << <<3, 1>>, <<0, 2>> >>, regs |-> {3}],
     CallW            |-> [disc |-> 4,  pay |-> << <<1, 2>>, <<0, 3>> >>, regs |-> {1, 2}],
     CopyObjectRestW  |-> [disc |-> 5,  pay |-> << <<1, 2>>, <<3, 4>> >>, regs |-> {1, 2, 3}],
     CopyArrayRestW   |-> [disc |-> 6,  pay |-> << <<1, 2>>, <<0, 3>> >>, regs |-> {1, 2}],
     ClosureW         |-> [disc |-> 8,  pay |-> << <<1, 2>> >>,           regs |-> {1}],
     NewEnvironmentW  |-> [disc |-> 9,  pay |-> << <<1, 2>> >>,           regs |-> {}],
     ConstructW       |-> [disc |-> 10, pay |-> << <<1, 2>>, <<0, 3>> >>, regs |-> {1, 2}],
     NewPrivateNameW  |-> [disc |-> 11, pay |-> << <<1, 2>>, <<0, 3>> >>, regs |-> {1}],
     SetPrivateMethodW |-> [disc |-> 12, pay |-> << <<1, 2>>, <<3, 0>> >>, regs |-> {1, 2}],
     DefinePrivateW   |-> [disc |-> 13, pay |-> << <<1, 3>>, <<2, 0>> >>, regs |-> {1, 2, 3}],
     HasPrivateW      |-> [disc |-> 14, pay |-> << <<1, 2>>, <<3, 0>> >>, regs |-> {1, 2, 3}],
     SetPropertyR     |-> [disc |-> 15, pay |-> << <<1, 2>>, <<3, 4>> >>, regs |-> {1, 2, 3, 4}],
     GetSuperW        |-> [disc |-> 16, pay |-> << <<1, 2>>, <<3, 4>> >>, regs |-> {1, 2, 3, 4}]]
LoadIntW == 1
RegExt == 7

\* operations that only ever leave as wide words: an observable step on their registers
AlwaysWide == {"CopyObjectRestW", "CopyArrayRestW", "SetPropertyR", "GetSuperW", "NewPrivateNameW",
               "SetPrivateMethodW", "DefinePrivateW", "HasPrivateW", "ConstructW"}
=============================================================================
