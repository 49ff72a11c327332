---------------------------- MODULE MCExecution -----------------------------
(***************************************************************************)
(* From source to result, on small instances: programs compiled and run,   *)
(* the scope plan, the bytecode builder, calls, and the tiers.  They have  *)
(* no state in common, so each behaviour is of one of them, its subject.   *)
(* The programs and the calls have variables of their own, the others the  *)
(* same s1, s2, ...                                                        *)
(***************************************************************************)
EXTENDS MCPrograms, Opcodes, Calls

CONSTANT Unused

VARIABLES subject,
          s1, s2, s3, s4, s5, s6, s7, s8, s9, s10, s11, s12, s13, s14, s15,
          s16, s17, s18

\* Values of the tiers.  TLC orders the fields of a record by their first
\* mention: k, which tells what a statement is, has to come first.
Small(k) == <<"smi", k>>
Object(k) == <<"object", k>>
Undef == <<"undefined", 0>>

\* The constructs one function is made of.
Constructs ==
    {{"literal", "local", "binary", "assign", "conditional", "leave"},
     {"literal", "local", "assign", "logical", "if", "while"},
     {"literal", "assign", "try", "leave", "if"},
     {"literal", "env", "assign", "if", "call", "closure"},
     {"literal", "wide", "assign", "logical", "if"}}

\* A counting loop; a branch over arithmetic; a loop around a property load;
\* a branch on loose equality.
Instr3(op, a, b, c) == [op |-> op, a |-> a, b |-> b, c |-> c]
Functions ==
  [fn \in 0..3 |->
    CASE fn = 0 ->
           <<Instr3("LoopHeader", 0, 0, 0), Instr3("Ge", 2, 0, 1), Instr3("JumpIfTrue", 2, 0, 6),
             Instr3("LoadInt", 2, 1, 0), Instr3("Add", 0, 0, 2), Instr3("Jump", 0, 0, 0),
             Instr3("Return", 0, 0, 0)>>
      [] fn = 1 ->
           <<Instr3("JumpIfFalse", 0, 0, 3), Instr3("Sub", 2, 0, 1), Instr3("Return", 2, 0, 0),
             Instr3("StrictEq", 2, 0, 1), Instr3("Neg", 1, 1, 0), Instr3("Return", 1, 0, 0)>>
      [] fn = 2 ->
           <<Instr3("LoopHeader", 0, 0, 0), Instr3("GetProperty", 2, 0, 0), Instr3("Move", 0, 1, 0),
             Instr3("Lt", 1, 1, 2), Instr3("JumpIfFalse", 1, 0, 6), Instr3("Jump", 0, 0, 0),
             Instr3("Add", 2, 2, 0), Instr3("Return", 2, 0, 0)>>
      [] fn = 3 ->
           <<Instr3("Eq", 2, 0, 1), Instr3("JumpIfTrue", 2, 0, 3), Instr3("LoadNull", 2, 0, 0),
             Instr3("Return", 2, 0, 0)>>]
Arguments ==
  [fn \in 0..3 |->
    CASE fn = 0 -> {<<Small(0), Small(2)>>, <<Small(2), Small(2)>>, <<Small(0), Undef>>}
      [] fn = 1 -> {<<Small(2), Undef>>, <<Small(0), Small(0)>>, <<<<"bool", 1>>, Small(1)>>,
                    <<Undef, Object(1)>>}
      [] fn = 2 -> {<<Object(1), Small(0)>>, <<Object(2), Small(0)>>, <<Undef, Small(2)>>}
      [] fn = 3 -> {<<Undef, Undef>>, <<Object(1), Object(1)>>, <<Small(0), Object(1)>>}]

Scoping == INSTANCE ScopePlan WITH
    module <- s1, units <- s2, symbols <- s3, classes <- s4, stack <- s5,
    privates <- s6, refs <- s7, MaxClasses <- 1, MaxItems <- 4

Building == INSTANCE Bytecode WITH
    phase <- s1, kit <- s2, locals_end <- s3, words <- s4, written <- s5,
    labels <- s6, fixups <- s7, handlers <- s8, scopes <- s9, values <- s10,
    temp_top <- s11, high_water <- s12, handler_max <- s13, env_slots <- s14,
    items <- s15, rounds <- s16, source <- s17, Kits <- Constructs,
    Literals <- {1, 100, 300}, LocalsEnds <- {1, 254, 255},
    orphaned <- s18, EnvSizes <- {257}, MaxItems <- 4

Tiering == INSTANCE Tiers WITH
    frame <- s1, feedback <- s2, pending <- s3, tier <- s4, deopt <- s5,
    seen <- s6, last <- s7, calls <- s8, Code <- Functions, Registers <- 3,
    Inputs <- Arguments, Threshold <- 2, LoopHot <- 1, MaxGuards <- 2,
    MaxShapes <- 2, SmiMax <- 2, MaxCalls <- 3, MaxTicks <- 12

Past8 == <<s9, s10, s11, s12, s13, s14, s15, s16, s17, s18>>
Idle8 == s9 = Unused /\ s10 = Unused /\ s11 = Unused /\ s12 = Unused /\
          s13 = Unused /\ s14 = Unused /\ s15 = Unused /\ s16 = Unused /\
          s17 = Unused /\ s18 = Unused
Past7 == <<Past8, s8>>
Idle7 == Idle8 /\ s8 = Unused

Past0 == <<Past7, s1, s2, s3, s4, s5, s6, s7>>
Idle0 == Idle7 /\ s1 = Unused /\ s2 = Unused /\ s3 = Unused /\ s4 = Unused /\ s5 = Unused /\ s6 = Unused /\ s7 = Unused

NoMachine ==
    /\ prog = Unused /\ unit = Unused /\ ip = Unused /\ regs = Unused /\ envs = Unused
    /\ env = Unused /\ mode = Unused /\ hist = Unused /\ caps = Unused /\ done = Unused
NoCalls ==
    /\ frames = Unused /\ top = Unused /\ natives = Unused /\ this = Unused
    /\ calls = Unused /\ deadline = Unused /\ ended = Unused

AnyInit ==
    \/ subject = "programs" /\ Init /\ Idle0 /\ NoCalls
    \/ subject = "scopes" /\ Scoping!Init /\ Idle7 /\ NoMachine /\ NoCalls
    \/ subject = "bytecode" /\ Building!Init /\ NoMachine /\ NoCalls
    \/ subject = "calls" /\ CallsInit /\ Idle0 /\ NoMachine
    \/ subject = "tiers" /\ Tiering!Init /\ Idle8 /\ NoMachine /\ NoCalls

AnyNext ==
    \/ subject = "programs" /\ Next /\ UNCHANGED <<subject, callVars, Past0>>
    \/ subject = "scopes" /\ Scoping!Next /\ UNCHANGED <<subject, vars, callVars, Past7>>
    \/ subject = "bytecode" /\ Building!Next /\ UNCHANGED <<subject, vars, callVars>>
    \/ subject = "calls" /\ CallsNext /\ UNCHANGED <<subject, vars, Past0>>
    \/ subject = "tiers" /\ Tiering!Next /\ UNCHANGED <<subject, vars, callVars, Past8>>

all == <<subject, vars, callVars, Past0>>
AnySpec == AnyInit /\ [][AnyNext]_all

ASSUME Scoping!BoundAssumption

-----------------------------------------------------------------------------
(* Properties; those of the calls are in Calls.                            *)

\* The compiled code of a program does what its source says (compiler.rs and
\* stmt.rs against execute.rs; see RunsAsWritten in Compiled).
ProgramsRunAsWritten == subject = "programs" => TypeOK /\ RunsAsWritten

\* Handler ranges nest with their registers, an iterator is closed once, and a
\* frame returns with the environment it was entered with (stmt.rs).
CleanUpNests ==
    subject = "programs" => HandlersNest /\ ClosedOnce /\ EnvironmentsBalanced

\* Every reference finds its binding: as many hops from the scope it is in, and
\* in that slot, as the scope plan says (collect.rs, model.rs).
ReferencesResolve == subject = "scopes" => Scoping!TypeOK /\ Scoping!ReferencesResolve

\* What the builder emitted and the optimizer rewrote runs as it was written,
\* wide operands and patched jumps included, and passes the validator, where
\* the optimizer did not part a branch from its prefix (builder.rs, wide.rs,
\* peephole.rs; see orphaned in Bytecode).
CompiledRunsAsWritten ==
    subject = "bytecode" =>
        Building!TypeOK /\ Building!CompiledRunsAsWritten /\ Building!OutputValidates

\* The baseline code of a function answers what the interpreter does, a
\* function is reported hot once, and its guards hold on what was seen
\* (feedback.rs, compiler.rs of the baseline tier).
TiersAgree ==
    subject = "tiers" => Tiering!TypeOK /\ Tiering!CompiledAgrees /\ Tiering!HeatReportedOnce
=============================================================================
