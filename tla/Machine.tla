------------------------------- MODULE Machine ------------------------------
(***************************************************************************)
(* The dispatch loop of v12-interp (Interp::execute) over one frame: the   *)
(* register window, the environment chain, handler lookup and unwinding,   *)
(* suspension and resumption.  Whatever user code decides -- what a call   *)
(* returns, whether an iterator is done, how a suspended frame is resumed  *)
(* -- is a choice of the environment, recorded in `hist`.                  *)
(***************************************************************************)
EXTENDS Lowering

CONSTANTS Compile(_),    \* the compiler: the code of a program
          Programs,      \* the statements compiled
          MaxDecisions,  \* bound on the choices of one run
          MaxThrows      \* bound on the choices that throw

VARIABLES prog,    \* the program
          unit,    \* its code, handler ranges and register count
          ip,      \* frame.pc, 0 before the program is compiled
          regs,    \* the register window
          envs,    \* allocated environments: parent and slots
          env,     \* frame.env, 0 when there is none
          mode,    \* the completion a resume injected, read by GenResumeMode
          hist,    \* the choices made: what was asked, of whom, the answer
          caps,    \* environments and slots captured by closures, in order
          done     \* how the frame ended

vars == <<prog, unit, ip, regs, envs, env, mode, hist, caps, done>>

Code   == unit.code
Instr  == Code[ip]
Running == ip > 0 /\ done = <<>>
At(op) == Running /\ ip <= Len(Code) /\ Instr.op = op

Decided == Len(hist) < MaxDecisions
Throws  == Len(SelectSeq(hist, LAMBDA d : d[3] = "throw"))
Thrown  == 100 + Len(hist)         \* the identity of the exception thrown now

(* The answers the environment may give, throws bounded.                   *)
Answers(outs) == IF Throws < MaxThrows THEN outs ELSE outs \ {"throw"}
Ask(what, id, out) == hist' = Append(hist, <<what, id, out>>)

-----------------------------------------------------------------------------
(* Environments.                                                           *)
RECURSIVE env_at(_, _)
env_at(e, depth) == IF depth = 0 THEN e ELSE env_at(envs[e].parent, depth - 1)

-----------------------------------------------------------------------------
(* unwind: the innermost range covering the pc takes the exception in its  *)
(* delivery register; registers from there on are lost, the environment    *)
(* and everything below stay.  With no range the frame ends.               *)
Covering(at) == {n \in DOMAIN unit.handlers :
                   LET h == unit.handlers[n] IN h.start <= at /\ at < h.end}
unwind(at, exc) ==
  LET ns == Covering(at)
      h  == unit.handlers[CHOOSE n \in ns : \A m \in ns : m <= n]
  IN IF ns = {}
     THEN done' = <<"throw", exc>> /\ UNCHANGED <<ip, regs>>
     ELSE /\ ip' = h.target
          /\ regs' = [r \in DOMAIN regs |->
                        IF r < h.depth THEN regs[r]
                        ELSE IF r = h.depth THEN exc ELSE Undefined]
          /\ UNCHANGED done

Put(r, v) == regs' = [regs EXCEPT ![r] = v]
Step      == ip' = ip + 1
SameEnv   == UNCHANGED <<envs, env, caps, mode>>
Silent    == UNCHANGED <<prog, unit, hist, done>>

-----------------------------------------------------------------------------
(* Loads, moves and arithmetic.                                            *)
Load == At("Load") /\ Put(Instr.a, Instr.b) /\ Step /\ SameEnv /\ Silent
Move == At("Move") /\ Put(Instr.a, regs[Instr.b]) /\ Step /\ SameEnv /\ Silent

Operate ==
  /\ Running /\ ip <= Len(Code)
  /\ Instr.op \in {"Add", "Lt", "StrictEq", "IsNullish", "ResultDone", "ResultValue",
                   "OwnKeys", "GenResumeMode"}
  /\ LET l == regs[Instr.b]
         v == CASE Instr.op = "Add"        -> l + regs[Instr.c]
                [] Instr.op = "Lt"         -> OfBool(l < regs[Instr.c])
                [] Instr.op = "StrictEq"   -> OfBool(l = regs[Instr.c])
                [] Instr.op = "IsNullish"  -> OfBool(Nullish(l))
                [] Instr.op = "ResultDone" -> OfBool(l = DoneResult)
                [] Instr.op = "GenResumeMode" -> OfBool(mode = "return")
                [] OTHER -> l
     IN Put(Instr.a, v)
  /\ Step /\ SameEnv /\ Silent

LoopHeader == At("LoopHeader") /\ Step /\ UNCHANGED regs /\ SameEnv /\ Silent

Branch ==
  /\ Running /\ ip <= Len(Code) /\ Instr.op \in Jumps
  /\ LET v == regs[Instr.a]
         taken == \/ Instr.op = "Jump"
                  \/ Instr.op = "JumpIfTrue" /\ Truthy(v)
                  \/ Instr.op = "JumpIfFalse" /\ ~Truthy(v)
                  \/ Instr.op = "JumpIfNullish" /\ Nullish(v)
     IN ip' = IF taken THEN Instr.b ELSE ip + 1
  /\ UNCHANGED regs /\ SameEnv /\ Silent

(* Environment operations.                                                 *)
NewEnvironment_own ==      \* linked to itself: env assigned before the parent is read
  /\ At("NewEnv")
  /\ envs' = Append(envs, [parent |-> Len(envs) + 1, slots |-> [n \in 1..Instr.a |-> Undefined]])
  /\ env' = Len(envs) + 1
  /\ Step /\ UNCHANGED <<regs, caps, mode>> /\ Silent
NewEnvironment ==
  /\ At("NewEnv")
  /\ envs' = Append(envs, [parent |-> env, slots |-> [n \in 1..Instr.a |-> Undefined]])
  /\ env' = Len(envs) + 1
  /\ Step /\ UNCHANGED <<regs, caps, mode>> /\ Silent
PopEnvironment ==
  /\ At("PopEnv")
  /\ env' = envs[env].parent
  /\ Step /\ UNCHANGED <<regs, envs, caps, mode>> /\ Silent
GetEnvSlot ==
  /\ At("GetEnv")
  /\ Put(Instr.a, envs[env_at(env, Instr.b)].slots[Instr.c + 1])
  /\ Step /\ SameEnv /\ Silent
SetEnvSlot ==
  /\ At("SetEnv")
  /\ envs' = [envs EXCEPT ![env_at(env, Instr.a)].slots[Instr.b + 1] = regs[Instr.c]]
  /\ Step /\ UNCHANGED <<regs, env, caps, mode>> /\ Silent
Closure ==
  /\ At("Closure")
  /\ caps' = Append(caps, <<env, Instr.b + 1>>)
  /\ Put(Instr.a, True)
  /\ Step /\ UNCHANGED <<envs, env, mode>> /\ Silent

-----------------------------------------------------------------------------
(* A call completes with a value or unwinds; the frame's pc stays on the   *)
(* call until it does.                                                     *)
CallOp ==
  /\ At("Call") /\ Decided
  /\ \E out \in Answers(Instr.c) :
       /\ Ask("call", Instr.b, out)
       /\ IF out = "throw" THEN unwind(ip, Thrown)
          ELSE /\ Put(Instr.a, CASE out = "t" -> True [] out = "f" -> False [] OTHER -> Undefined)
               /\ Step /\ UNCHANGED done
  /\ SameEnv /\ UNCHANGED <<prog, unit>>

(* A call with arguments shows the callee what is in its window.           *)
CallWindow(base, n) == [k \in 1..n |-> regs[base + k - 1]]
ApplyOp ==
  /\ At("Apply") /\ Decided
  /\ \E out \in Answers({"t", "throw"}) :
       /\ Ask("apply", <<Instr.b>> \o CallWindow(Instr.a + 2, Instr.c), out)
       /\ IF out = "throw" THEN unwind(ip, Thrown)
          ELSE Put(Instr.a, True) /\ Step /\ UNCHANGED done
  /\ SameEnv /\ UNCHANGED <<prog, unit>>
NewArray ==
  /\ At("NewArray") /\ Decided
  /\ Ask("list", CallWindow(Instr.b, Instr.c), "ok")
  /\ Put(Instr.a, True) /\ Step /\ SameEnv /\ UNCHANGED <<prog, unit, done>>

(* Iteration: opening, stepping and closing all run user code.             *)
GetIterator ==
  /\ At("GetIter") /\ Decided
  /\ \E out \in Answers({"ok", "throw"}) :
       /\ Ask("open", regs[Instr.b], out)
       /\ IF out = "throw" THEN unwind(ip, Thrown)
          ELSE Put(Instr.a, regs[Instr.b]) /\ Step /\ UNCHANGED done
  /\ SameEnv /\ UNCHANGED <<prog, unit>>
IteratorNext ==
  /\ At("IterNext") /\ Decided
  /\ \E out \in Answers({"value", "done", "throw"}) :
       /\ Ask("next", regs[Instr.b], out)
       /\ IF out = "throw" THEN unwind(ip, Thrown)
          ELSE /\ Put(Instr.a, IF out = "done" THEN DoneResult ELSE Len(hist) + 1)
               /\ Step /\ UNCHANGED done
  /\ SameEnv /\ UNCHANGED <<prog, unit>>

(* On the throw path (operand 0) the failure of `return` is swallowed.     *)
IteratorClose ==
  /\ At("IterClose") /\ Decided
  /\ \E out \in Answers({"ok", "throw"}) :
       /\ Ask("close", regs[Instr.a], out)
       /\ IF out = "throw" /\ Instr.b = 1 THEN unwind(ip, Thrown)
          ELSE UNCHANGED regs /\ Step /\ UNCHANGED done
  /\ SameEnv /\ UNCHANGED <<prog, unit>>

(* yield* calls the inner iterator's `return` and takes its value.         *)
DelegateReturn ==
  /\ At("IterReturn") /\ Decided
  /\ \E out \in Answers({"ok", "throw"}) :
       /\ Ask("close", regs[Instr.b], out)
       /\ IF out = "throw" THEN unwind(ip, Thrown)
          ELSE Put(Instr.a, Len(hist) + 1) /\ Step /\ UNCHANGED done
  /\ SameEnv /\ UNCHANGED <<prog, unit>>

-----------------------------------------------------------------------------
(* Suspension saves the window, the environment and the pc after the       *)
(* instruction; a resume that throws unwinds from that pc.                 *)
SuspendYield ==
  /\ At("SuspendYield") /\ Decided
  /\ \E out \in Answers({"next", "return", "throw"}) :
       /\ Ask(IF Instr.c = 1 THEN "delegate" ELSE "yield", Instr.b, out)
       /\ mode' = out
       /\ IF out = "throw" THEN unwind(ip + 1, Thrown)
          ELSE Put(Instr.a, Len(hist) + 1) /\ Step /\ UNCHANGED done
  /\ UNCHANGED <<prog, unit, envs, env, caps>>
AwaitOp ==
  /\ At("Await") /\ Decided
  /\ \E out \in Answers({"next", "throw"}) :
       /\ Ask("await", Instr.b, out)
       /\ IF out = "throw" THEN unwind(ip + 1, Thrown)
          ELSE Put(Instr.a, Len(hist) + 1) /\ Step /\ UNCHANGED done
  /\ SameEnv /\ UNCHANGED <<prog, unit>>

ThrowOp == At("Throw") /\ unwind(ip, regs[Instr.a]) /\ SameEnv /\ UNCHANGED <<prog, unit, hist>>
ReturnOp ==
  /\ At("Return") /\ done' = <<"return", regs[Instr.a]>>
  /\ UNCHANGED <<ip, regs>> /\ SameEnv /\ UNCHANGED <<prog, unit, hist>>
FallOff ==
  /\ Running /\ ip > Len(Code) /\ done' = <<"return", Undefined>>
  /\ UNCHANGED <<ip, regs>> /\ SameEnv /\ UNCHANGED <<prog, unit, hist>>

-----------------------------------------------------------------------------
NoUnit == [code |-> <<>>, handlers |-> <<>>, regs |-> 0, slots |-> 0, bad |-> FALSE]

Init ==
  /\ prog \in Programs
  /\ unit = NoUnit /\ ip = 0 /\ regs = [r \in {} |-> Undefined]
  /\ envs = <<>> /\ env = 0 /\ mode = "next" /\ hist = <<>> /\ caps = <<>> /\ done = <<>>

(* The program is compiled, and its code entered with a fresh window.      *)
Enter ==
  /\ ip = 0
  /\ unit' = Compile(prog) /\ ~unit'.bad
  /\ ip' = 1
  /\ regs' = [r \in 0..(unit'.regs - 1) |-> Undefined]
  /\ SameEnv /\ UNCHANGED <<prog, hist, done>>

Next ==
  \/ Enter \/ Load \/ Move \/ Operate \/ LoopHeader \/ Branch
  \/ NewEnvironment \/ PopEnvironment \/ GetEnvSlot \/ SetEnvSlot \/ Closure
  \/ CallOp \/ ApplyOp \/ NewArray
  \/ GetIterator \/ IteratorNext \/ IteratorClose \/ DelegateReturn
  \/ SuspendYield \/ AwaitOp \/ ThrowOp \/ ReturnOp \/ FallOff

Spec == Init /\ [][Next]_vars
=============================================================================
