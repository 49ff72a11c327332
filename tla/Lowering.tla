------------------------------ MODULE Lowering ------------------------------
(***************************************************************************)
(* The emitter of v12-bccompiler (FnCtx): one function unit, from syntax   *)
(* to instructions, labels and handler ranges.  Registers, temporaries and *)
(* delivery registers are numbered as the compiler numbers them, because   *)
(* unwinding truncates the window at a register number.  An instruction is *)
(* [op, a, b, c]; operand b of a jump is a label until `finish`.           *)
(***************************************************************************)
EXTENDS Syntax

I(op, a, b, c) == [op |-> op, a |-> a, b |-> b, c |-> c]
NoLabel == 0
NoReg   == -1

-----------------------------------------------------------------------------
(* collect.rs: storage.  A captured binding takes an environment slot,     *)
(* every other one a register; a lexical binding's initialized flag        *)
(* follows its value in the same storage class.  Register 0 is `this`.     *)
finalize(s) ==
  LET place(p, x) ==
        IF x \in DOMAIN p.loc THEN p
        ELSE IF x \in Captured(s)
        THEN [p EXCEPT !.loc  = (x :> [env |-> TRUE, n |-> p.slots]) @@ @,
                       !.flag = (x :> [env |-> TRUE, n |-> p.slots + 1]) @@ @,
                       !.slots = @ + 2]
        ELSE [p EXCEPT !.loc  = (x :> [env |-> FALSE, n |-> p.end]) @@ @,
                       !.flag = (x :> [env |-> FALSE, n |-> p.end + 1]) @@ @,
                       !.end = @ + 2]
      none == [x \in {} |-> [env |-> FALSE, n |-> 0]]
  IN FoldLeft(place, [loc |-> none, flag |-> none, slots |-> 0, end |-> 1], DeclOrder(s))

(* FnCtx::new: register locals_end stays reserved as the undefined source. *)
FnCtx(s) ==
  LET p == finalize(s)
  IN [code |-> <<>>, lab |-> <<>>, hs |-> <<>>, loops |-> <<>>, finallies |-> <<>>,
      top |-> p.end + 1, high |-> p.end + 1, region |-> 0, known |-> {}, plan |-> p,
      bad |-> FALSE]

pc(c)          == Len(c.code) + 1
emit(c, i)     == [c EXCEPT !.code = Append(@, i)]
new_temps(c, n) == [c EXCEPT !.top = @ + n,
                             !.high = IF c.top + n > @ THEN c.top + n ELSE @]
new_temp(c)    == new_temps(c, 1)
temp_release(c, mark) == [c EXCEPT !.top = IF mark < @ THEN mark ELSE @]
new_labels(c, n) == [c EXCEPT !.lab = @ \o [i \in 1..n |-> 0]]
label(c)       == Len(c.lab) + 1
bind(c, l)     == [c EXCEPT !.lab[l] = pc(c)]
emit_jump(c, op, r, l) == emit(c, I(op, r, l, 0))
push_range_window(c, start, end, target, depth) ==
  [c EXCEPT !.hs = Append(@, [start |-> start, end |-> end, target |-> target,
                              depth |-> c.plan.end])]
push_range(c, start, end, target, depth) ==
  [c EXCEPT !.hs = Append(@, [start |-> start, end |-> end, target |-> target,
                              depth |-> depth])]
load(c, v)     == emit(new_temp(c), I("Load", c.top, v, 0))
enter_tdz_region(c) == [c EXCEPT !.region = @ + 1]
exit_tdz_region(c)  == [c EXCEPT !.region = @ - 1]

-----------------------------------------------------------------------------
(* Variable access and the temporal dead zone.                             *)
read_access(c, at, dst) ==
  emit(c, IF at.env THEN I("GetEnv", dst, 0, at.n) ELSE I("Move", dst, at.n, 0))
store_access(c, at, src) ==
  IF at.env THEN emit(c, I("SetEnv", 0, at.n, src))
  ELSE IF at.n = src THEN c ELSE emit(c, I("Move", at.n, src, 0))

(* The guard around a reference: test, the reference, the throw out of     *)
(* line.  `body` is the context after the reference has been emitted.      *)
tdz_test(c, x) ==
  LET c1 == read_access(new_temp(new_labels(c, 2)), c.plan.flag[x], c.top)
  IN emit_jump(c1, "JumpIfNullish", c.top, label(c))
tdz_guard_end(c, uninit) ==
  LET c1 == bind(emit_jump(c, "Jump", 0, uninit + 1), uninit)
      c2 == emit(new_temps(c1, 4), I("Load", c1.top + 3, RefError, 0))
  IN bind(emit(c2, I("Throw", c1.top + 3, 0, 0)), uninit + 1)

read_binding_into(c, x, dst) ==
  IF x \in c.known THEN read_access(c, c.plan.loc[x], dst)
  ELSE tdz_guard_end(read_access(tdz_test(c, x), c.plan.loc[x], dst), label(c))
store_binding_reassign(c, x, src) ==
  IF x \in c.known THEN store_access(c, c.plan.loc[x], src)
  ELSE tdz_guard_end(store_access(tdz_test(c, x), c.plan.loc[x], src), label(c))

tdz_init(c, x) ==
  LET c1 == store_access(load(c, 1), c.plan.flag[x], c.top)
  IN IF c.region = 0 THEN [c1 EXCEPT !.known = @ \union {x}] ELSE c1

-----------------------------------------------------------------------------
(* Loop contexts and abrupt exits.                                         *)
LoopCtx(c, brk, cont, name, iter, guard, per) ==
  [brk |-> brk, cont |-> cont, name |-> name, base |-> Len(c.finallies),
   iter |-> iter, guard |-> guard, per |-> per]

emit_per_iteration_env(c) ==
  LET n == c.plan.slots
      copy(d, s) == emit(emit(new_temp(d), I("GetEnv", d.top, 1, s)), I("SetEnv", 0, s, d.top))
  IN FoldLeft(copy, emit(c, I("NewEnv", n, 0, 0)), [s \in 1..n |-> s - 1])
emit_env_pop(c) == emit(c, I("PopEnv", 0, 0, 0))

per_iteration_env_needed(c, x) == x # 0 /\ c.plan.loc[x].env

Exited(c, from) == Reverse(SubSeq(c.loops, from, Len(c.loops)))

emit_per_iteration_pops_skipped(c, from) ==
  FoldLeft(LAMBDA d, ctx : IF ctx.per THEN emit_env_pop(d) ELSE d, c, Exited(c, from + 1))
emit_per_iteration_pops(c, from) ==
  FoldLeft(LAMBDA d, ctx : IF ctx.per THEN emit_env_pop(d) ELSE d, c, Exited(c, from))

emit_iterator_closes_open(c, from) == c
emit_iterator_closes(c, from) ==
  LET close(d, ctx) ==
        IF ctx.iter = NoReg THEN d
        ELSE emit(emit(d, I("Load", ctx.guard, True, 0)), I("IterClose", ctx.iter, 1, 0))
  IN FoldLeft(close, c, Exited(c, from))

-----------------------------------------------------------------------------
RECURSIVE expr(_, _), stmt(_, _), run_finally_copies(_, _)

stmt_list(c, ss) == FoldLeft(stmt, c, ss)

(* A finalizer body compiled outside every region.                         *)
copy_finalizer(c, body) ==
  [stmt_list([c EXCEPT !.finallies = <<>>], body) EXCEPT !.finallies = c.finallies]

(* Copies of the active finalizers above `until`, innermost first; each    *)
(* region is popped before its copy and stays popped.                      *)
run_finally_copies(c, until) ==
  IF Len(c.finallies) <= until THEN c
  ELSE LET popped == [c EXCEPT !.finallies = Front(@)]
       IN run_finally_copies(copy_finalizer(popped, Last(c.finallies)), until)

(* The generator return path keeps the stack: a normal resume falls        *)
(* through it.                                                             *)
emit_yield_return_finally_copies(c) ==
  FoldLeft(copy_finalizer, c, Reverse(c.finallies))

emit_suspend_yield(c, id, ydst) ==
  LET c1 == emit(c, I("SuspendYield", ydst, id, 0))
      c2 == emit(new_temp(new_labels(c1, 1)), I("GenResumeMode", c1.top, ydst, 0))
      c3 == emit_yield_return_finally_copies(emit_jump(c2, "JumpIfFalse", c1.top, label(c1)))
  IN bind(emit(c3, I("Return", ydst, 0, 0)), label(c1))

jump_out(c, l, isContinue) ==
  LET fits(n) == IF l # 0 THEN c.loops[n].name = l
                 ELSE /\ c.loops[n].name = 0
                      /\ isContinue => c.loops[n].cont # NoLabel
      ps  == {n \in DOMAIN c.loops : fits(n)}
      pos == CHOOSE n \in ps : \A m \in ps : m <= n
      to  == IF isContinue THEN c.loops[pos].cont ELSE c.loops[pos].brk
      c1  == run_finally_copies(c, c.loops[pos].base)
      c2  == emit_iterator_closes(c1, IF isContinue THEN pos + 1 ELSE pos)
  IN IF ps = {} THEN [c EXCEPT !.bad = TRUE]
     ELSE IF to = NoLabel THEN [c EXCEPT !.bad = TRUE]
     ELSE emit_jump(emit_per_iteration_pops(c2, pos), "Jump", 0, to)

with_loop(c, ctx, ss) ==
  LET c1 == stmt_list(enter_tdz_region([c EXCEPT !.loops = Append(@, ctx)]), ss)
  IN exit_tdz_region([c1 EXCEPT !.loops = c.loops])

-----------------------------------------------------------------------------
(* Expressions: the context after the code, and the register of the value. *)
Val(c, r) == [c |-> c, r |-> r]

(* A nullish test is a loose comparison with null.                         *)
nullish_cmp(c, v) ==
  Val(emit(new_temps(c, 2), I("IsNullish", c.top + 1, v, 0)), c.top + 1)

(* The jump a short-circuit operator takes past its right operand.         *)
short_circuit(c, op, v, end) ==
  CASE op = "or"  -> emit_jump(c, "JumpIfTrue", v, end)
    [] op = "and" -> emit_jump(c, "JumpIfFalse", v, end)
    [] op = "nullish" -> LET t == nullish_cmp(c, v) IN emit_jump(t.c, "JumpIfFalse", t.r, end)

logical(c, e) ==
  LET l   == expr(c, e.a)
      end == label(l.c)
      r   == expr(short_circuit(new_labels(l.c, 1), e.op, l.r, end), e.b)
  IN Val(bind(emit(r.c, I("Move", l.r, r.r, 0)), end), l.r)

(* The value register is the right operand's, also on the path that skips  *)
(* the right operand.                                                      *)
logical_assign(c, e) ==
  LET cur == c.top
      c1  == read_binding_into(new_temp(c), e.x, cur)
      end == label(c1)
      r   == expr(short_circuit(new_labels(c1, 1), e.op, cur, end), e.e)
  IN Val(bind(store_access(r.c, c.plan.loc[e.x], r.r), end), r.r)

conditional(c, e) ==
  LET t    == expr(c, e.t)
      dst  == t.c.top
      else == label(t.c)
      a    == expr(emit_jump(new_temp(new_labels(t.c, 2)), "JumpIfFalse", t.r, else), e.a)
      c1   == emit_jump(emit(a.c, I("Move", dst, a.r, 0)), "Jump", 0, else + 1)
      b    == expr(bind(c1, else), e.b)
  IN Val(bind(emit(b.c, I("Move", dst, b.r, 0)), else + 1), dst)

(* One optional link: a nullish base leaves the chain with undefined.      *)
chain_expr(c, e) ==
  LET exit == label(c)
      dst  == c.top
      base == expr(new_temp(new_labels(c, 1)), e.a)
      t    == nullish_cmp(base.c, base.r)
      on   == label(t.c)
      c1   == emit_jump(new_labels(t.c, 1), "JumpIfFalse", t.r, on)
      c2   == emit_jump(emit(c1, I("Load", dst, Undefined, 0)), "Jump", 0, exit)
      b    == expr(bind(c2, on), e.b)
  IN Val(bind(emit(b.c, I("Move", dst, b.r, 0)), exit), dst)

update(c, e) ==
  LET old == c.top
      c1  == load(read_binding_into(new_temp(c), e.x, old), 1)
      new == c1.top
      c2  == emit(new_temp(c1), I("Add", new, old, new - 1))
  IN Val(store_access(c2, c.plan.loc[e.x], new), old)

(* The right operand is evaluated before the target is read.               *)
assign(c, e) ==
  LET r   == expr(c, e.e)
      cur == r.c.top
      c1  == read_binding_into(new_temp(r.c), e.x, cur)
      out == c1.top
      c2  == emit(new_temp(c1), I("Add", out, cur, r.r))
  IN IF e.k = "assign" THEN Val(store_binding_reassign(r.c, e.x, r.r), r.r)
     ELSE Val(store_access(c2, c.plan.loc[e.x], out), out)

(* Operands evaluated in order into consecutive registers from `base`.     *)
expr_into(c, e, forced) ==
  LET v == expr(c, e) IN IF v.r = forced THEN v.c ELSE emit(v.c, I("Move", forced, v.r, 0))
operands(c, es, base) ==
  FoldLeft(LAMBDA d, n : expr_into(d, es[n], base + n - 1), c, [n \in DOMAIN es |-> n])

(* The call window [callee][this][arguments] is reserved before any of it  *)
(* is evaluated.                                                           *)
call(c, e) ==
  LET block == c.top
      c1    == load(new_temps(c, 2 + Len(e.es)), 0)
      c2    == emit(emit(c1, I("Move", block, c1.top - 1, 0)), I("Load", block + 1, Undefined, 0))
  IN Val(emit(operands(c2, e.es, block + 2), I("Apply", block, e.id, Len(e.es))), block)
array_literal(c, e) ==
  LET c1 == operands(new_temps(c, Len(e.es)), e.es, c.top)
  IN Val(emit(new_temp(c1), I("NewArray", c1.top, c.top, Len(e.es))), c1.top)

(* A return into yield* goes to the inner iterator; the finalizers of the  *)
(* generator follow.                                                       *)
emit_delegate_return_path(c, iter, resume) ==
  LET c1 == emit_jump(emit(new_temp(c), I("GenResumeMode", c.top, 0, 0)), "JumpIfFalse", c.top, resume)
      c2 == emit(new_temp(c1), I("IterReturn", c1.top, iter, 0))
  IN bind(emit(emit_yield_return_finally_copies(c2), I("Return", c1.top, 0, 0)), resume)

(* yield*: step the inner iterator and hand each value out.                *)
delegate(c, e) ==
  LET iter   == c.top + 1
      ret    == iter + 1
      c1     == emit(new_temps(load(c, e.id), 2), I("GetIter", iter, c.top, 0))
      result == c1.top
      loop   == label(c1)
      c2     == bind(emit(new_temp(new_labels(c1, 3)), I("IterNext", result, iter, 0)), loop)
      c3     == emit_jump(emit(new_temp(c2), I("ResultDone", c2.top, result, 0)), "JumpIfTrue", c2.top, loop + 1)
      ydst   == c3.top + 1
      c4     == emit(emit(new_temps(c3, 2), I("ResultValue", c3.top, result, 0)), I("Move", ydst, c3.top, 0))
      c5     == emit(c4, I("SuspendYield", ydst, e.id, 1))
      c6     == emit_delegate_return_path(c5, iter, loop + 2)
      c7     == emit_jump(emit(c6, I("IterNext", result, iter, 0)), "Jump", 0, loop)
  IN Val(emit(bind(c7, loop + 1), I("ResultValue", ret, result, 0)), ret)

(* A program the compiler refuses is refused at its first error: nothing   *)
(* after it is compiled.                                                   *)
expr(c, e) ==
  IF c.bad THEN Val(c, NoReg)
  ELSE CASE e.k = "apply" -> call(c, e)
    [] e.k = "list" -> array_literal(c, e)
    [] e.k = "delegate" -> delegate(c, e)
    [] e.k = "call" ->      \* [callee][this], the call, the result in the callee's register
         Val(emit(new_temps(c, 2), I("Call", c.top, e.id, e.outs)), c.top)
    [] e.k = "num" -> Val(load(c, e.n), c.top)
    [] e.k = "var" -> Val(read_binding_into(new_temp(c), e.x, c.top), c.top)
    [] e.k \in {"less", "add"} ->
         LET a == expr(c, e.a)  b == expr(a.c, e.b)
             op == IF e.k = "less" THEN "Lt" ELSE "Add"
         IN Val(emit(new_temp(b.c), I(op, b.c.top, a.r, b.r)), b.c.top)
    [] e.k \in {"assign", "plus"} -> assign(c, e)
    [] e.k = "incr" -> update(c, e)
    [] e.k = "logical" -> logical(c, e)
    [] e.k = "logassign" -> logical_assign(c, e)
    [] e.k = "cond" -> conditional(c, e)
    [] e.k = "comma" -> expr(expr(c, e.a).c, e.b)
    [] e.k = "optional" -> chain_expr(c, e)
    [] e.k = "capture" ->
         Val(emit(new_temp(c), I("Closure", c.top, c.plan.loc[e.x].n, 0)), c.top)
    [] e.k = "yield" ->
         LET a == expr(c, e.e)
             y == a.c.top
         IN Val(emit_suspend_yield(emit(new_temp(a.c), I("Move", y, a.r, 0)), e.id, y), y)
    [] e.k = "await" ->
         LET a == expr(c, e.e)
         IN Val(emit(new_temp(a.c), I("Await", a.c.top, e.id, a.r)), a.c.top)

-----------------------------------------------------------------------------
(* Statements.                                                             *)
var_decl(c, x, e) ==
  LET v == expr(c, e) IN tdz_init(store_access(v.c, c.plan.loc[x], v.r), x)

if_stmt(c, s) ==
  LET t    == expr(enter_tdz_region(c), s.t)
      else == label(t.c)
      c1   == stmt(emit_jump(new_labels(t.c, 2), "JumpIfFalse", t.r, else), s.a)
      c2   == bind(emit_jump(c1, "Jump", 0, else + 1), else)
  IN exit_tdz_region(bind(stmt(c2, s.b), else + 1))

while_loop(c, s, name) ==
  LET top == label(c)
      t   == expr(emit(bind(new_labels(c, 3), top), I("LoopHeader", 0, 0, 0)), s.t)
      c1  == emit_jump(t.c, "JumpIfFalse", t.r, top + 2)
      c2  == with_loop(c1, LoopCtx(c1, top + 2, top + 1, name, NoReg, NoReg, FALSE), <<s.b>>)
  IN bind(emit_jump(bind(c2, top + 1), "Jump", 0, top), top + 2)

do_while_loop(c, s, name) ==
  LET top == label(c)
      c1  == emit(bind(new_labels(c, 3), top), I("LoopHeader", 0, 0, 0))
      c2  == with_loop(c1, LoopCtx(c1, top + 2, top + 1, name, NoReg, NoReg, FALSE), <<s.b>>)
      t   == expr(bind(c2, top + 1), s.t)
  IN bind(emit_jump(t.c, "JumpIfTrue", t.r, top), top + 2)

(* The per-iteration environment is pushed after the test, so the test and *)
(* the update run in the enclosing one.                                    *)
for_loop(c, s, name) ==
  LET per == per_iteration_env_needed(c, s.x)
      c0  == IF s.x = 0 THEN expr(c, s.i).c ELSE var_decl(c, s.x, s.i)
      top == label(c0)
      t   == expr(emit(bind(new_labels(c0, 3), top), I("LoopHeader", 0, 0, 0)), s.t)
      c1  == emit_jump(t.c, "JumpIfFalse", t.r, top + 2)
      c2  == IF per THEN emit_per_iteration_env(c1) ELSE c1
      c3  == with_loop(c2, LoopCtx(c2, top + 2, top + 1, name, NoReg, NoReg, per), <<s.b>>)
      c4  == bind(IF per THEN emit_env_pop(c3) ELSE c3, top + 1)
  IN bind(emit_jump(expr(c4, s.u).c, "Jump", 0, top), top + 2)

(* The loop variable's store, in a fresh environment when it is captured.  *)
head_store(c, x, value) ==
  LET c1 == IF per_iteration_env_needed(c, x) THEN emit_per_iteration_env(c) ELSE c
  IN IF x = 0 THEN c ELSE tdz_init(store_access(c1, c.plan.loc[x], value), x)

(* A handler that does not look whether a close is under way.             *)
close_handler_unguarded(c, iter, guard, exc, start) ==
  LET over == label(c)
      c1   == emit_jump(new_labels(c, 1), "Jump", 0, over)
      h    == pc(c1)
      c2   == emit(emit(c1, I("IterClose", iter, 0, 0)), I("Throw", exc, 0, 0))
  IN push_range(bind(c2, over), start, h, h, exc)
(* The handler both iterator protocols share: close unless a close is      *)
(* already under way, then rethrow.                                        *)
close_handler(c, iter, guard, exc, start) ==
  LET over == label(c)
      c1   == emit_jump(new_labels(c, 2), "Jump", 0, over)
      h    == pc(c1)
      c2   == emit(emit_jump(c1, "JumpIfTrue", guard, over + 1), I("IterClose", iter, 0, 0))
      c3   == bind(emit(bind(c2, over + 1), I("Throw", exc, 0, 0)), over)
  IN push_range(c3, start, h, h, exc)

for_of_loop(c, s, name) ==
  LET iter   == c.top + 1
      result == iter + 1
      guard  == iter + 2
      exc    == iter + 3
      top    == label(c)
      per    == per_iteration_env_needed(c, s.x)
      c1 == emit(new_temp(load(c, s.id)), I("GetIter", iter, c.top, 0))
      c2 == emit(new_temps(new_labels(c1, 3), 3), I("Load", guard, False, 0))
      start == pc(c2)
      c3 == emit(bind(c2, top), I("LoopHeader", 0, 0, 0))
      c4 == emit(c3, I("IterNext", result, iter, 0))
      done == c4.top + 1
      c5 == emit_jump(emit(new_temps(c4, 2), I("ResultDone", done, result, 0)),
                      "JumpIfTrue", done, top + 2)
      value == c5.top + 1
      c6 == emit(new_temps(c5, 2), I("ResultValue", value, result, 0))
      c7 == head_store(c6, s.x, value)
      c8 == with_loop(c7, LoopCtx(c7, top + 2, top + 1, name, iter, guard, per), <<s.b>>)
      c9 == bind(IF per THEN emit_env_pop(c8) ELSE c8, top + 1)
  IN close_handler(bind(emit_jump(c9, "Jump", 0, top), top + 2), iter, guard, exc, start)

(* The keys are taken once, before the first iteration.                    *)
for_in_loop(c, s, name) ==
  LET keys == c.top + 1
      idx  == keys + 1
      key  == keys + 2
      per  == per_iteration_env_needed(c, s.x)
      c1   == emit(new_temps(load(c, s.n), 8), I("OwnKeys", keys, c.top, 0))
      c2   == emit(load(c1, 0), I("Move", idx, c1.top, 0))
      top  == label(c2)
      c3   == emit(bind(new_labels(c2, 3), top), I("LoopHeader", 0, 0, 0))
      cmp  == c3.top + 2
      c4   == emit_jump(emit(new_temps(c3, 3), I("Lt", cmp, idx, keys)),
                        "JumpIfFalse", cmp, top + 2)
      c5   == load(emit(c4, I("Move", key, idx, 0)), 1)
      nxt  == c5.top
      c6   == emit(emit(new_temp(c5), I("Add", nxt, idx, nxt - 1)), I("Move", idx, nxt, 0))
      c7   == head_store(c6, s.x, key)
      c8   == with_loop(c7, LoopCtx(c7, top + 2, top + 1, name, NoReg, NoReg, per), <<s.b>>)
      c9   == bind(IF per THEN emit_env_pop(c8) ELSE c8, top + 1)
  IN bind(emit_jump(c9, "Jump", 0, top), top + 2)

(* let [x1, ..., xn] = iterable, without rest: one step per element, then  *)
(* a close unless the last step saw the end.                               *)
array_pattern_store(c, s) ==
  LET iter  == c.top + 1
      guard == iter + 1
      last  == iter + 2
      exc   == iter + 3
      c1 == emit(new_temps(load(c, s.id), 4), I("GetIter", iter, c.top, 0))
      c2 == emit(emit(c1, I("Load", guard, False, 0)), I("Load", last, True, 0))
      element(d, x) ==
        LET result == d.top
            done   == d.top + 2
            fin    == label(d)
            d1 == emit(new_temps(new_labels(d, 2), 3), I("IterNext", result, iter, 0))
            d2 == emit(emit(d1, I("ResultDone", done, result, 0)), I("Move", last, done, 0))
            d3 == emit_jump(d2, "JumpIfTrue", done, fin)
            d4 == emit(new_temps(d3, 2), I("ResultValue", d3.top, result, 0))
            d5 == emit_jump(store_access(d4, c.plan.loc[x], d3.top), "Jump", 0, fin + 1)
            d6 == load(bind(d5, fin), Undefined)
        IN bind(store_access(d6, c.plan.loc[x], d5.top), fin + 1)
      c3 == FoldLeft(element, c2, s.xs)
      exhausted == label(c3)
      c4 == emit_jump(new_labels(c3, 1), "JumpIfTrue", last, exhausted)
      c5 == emit(emit(c4, I("Load", guard, True, 0)), I("IterClose", iter, 1, 0))
      c6 == close_handler(bind(c5, exhausted), iter, guard, exc, pc(c2))
  IN FoldLeft(tdz_init, c6, s.xs)

(* The default replaces an undefined property, and only then runs.         *)
lower_default(c, src, e) ==
  LET chosen == c.top
      c1 == emit(new_temps(c, 3), I("Load", chosen + 1, Undefined, 0))
      c2 == emit(c1, I("StrictEq", chosen + 2, src, chosen + 1))
      d  == expr(emit_jump(new_labels(c2, 2), "JumpIfFalse", chosen + 2, label(c2)), e)
      c3 == emit_jump(emit(d.c, I("Move", chosen, d.r, 0)), "Jump", 0, label(c2) + 1)
      c4 == emit(bind(c3, label(c2)), I("Move", chosen, src, 0))
  IN Val(bind(c4, label(c2) + 1), chosen)

(* Object patterns: one read per property, its default, its store.         *)
object_pattern_store(c, s) ==
  LET property(d, p) ==
        LET raw == d.top + 1
            d1  == emit(new_temps(d, 2), I("Call", raw, p.id, {"t", "u", "throw"}))
            v   == IF p.d = <<>> THEN Val(d1, raw) ELSE lower_default(d1, raw, p.d[1])
        IN IF s.decl THEN store_access(v.c, c.plan.loc[p.x], v.r)
           ELSE store_binding_reassign(v.c, p.x, v.r)
      c1 == FoldLeft(property, new_temp(c), s.ps)
  IN IF s.decl THEN FoldLeft(LAMBDA d, p : tdz_init(d, p.x), c1, s.ps) ELSE c1

switch_stmt(c, s, name) ==
  LET d     == expr(c, s.d)
      end   == label(d.c)
      entry(n) == end + n
      guard(b, n) ==
        IF s.cs[n].default THEN b
        ELSE LET t == expr(b, s.cs[n].t)
             IN emit_jump(emit(new_temp(t.c), I("StrictEq", t.c.top, d.r, t.r)),
                          "JumpIfTrue", t.c.top, entry(n))
      ns    == [n \in DOMAIN s.cs |-> n]
      defs  == {n \in DOMAIN s.cs : s.cs[n].default}
      c1    == FoldLeft(guard, new_labels(d.c, 1 + Len(s.cs)), ns)
      c2    == emit_jump(c1, "Jump", 0, IF defs = {} THEN end ELSE entry(CHOOSE n \in defs : TRUE))
      body(b, n) == stmt_list(bind(b, entry(n)), s.cs[n].ss)
      ctx   == LoopCtx(c2, end, NoLabel, name, NoReg, NoReg, FALSE)
      c3    == FoldLeft(body, enter_tdz_region([c2 EXCEPT !.loops = Append(@, ctx)]), ns)
  IN bind(exit_tdz_region([c3 EXCEPT !.loops = c2.loops]), end)

labelled(c, s) ==
  LET end  == label(c)
      c1   == new_labels(c, 1)
  IN CASE s.b.k = "while"  -> while_loop(c, s.b, s.l)
       [] s.b.k = "do"     -> do_while_loop(c, s.b, s.l)
       [] s.b.k = "for"    -> for_loop(c, s.b, s.l)
       [] s.b.k = "forof"  -> for_of_loop(c, s.b, s.l)
       [] s.b.k = "forin"  -> for_in_loop(c, s.b, s.l)
       [] s.b.k = "switch" -> switch_stmt(c, s.b, s.l)
       [] OTHER -> bind(with_loop(c1, LoopCtx(c1, end, NoLabel, s.l, NoReg, NoReg, FALSE),
                                  <<s.b>>), end)

AtLeastOne(end, start) == IF end > start THEN end ELSE start + 1

(* try: the body's exceptions go to the catch clause (or the finalizer),   *)
(* the catch clause's to the finalizer, and each completion path has its   *)
(* own copy of the finalizer.  `finallies.pop()` takes whatever is there.  *)
try_stmt(c, s) ==
  LET exc    == c.top
      popf(d) == [d EXCEPT !.finallies = IF @ = <<>> THEN @ ELSE Front(@)]
      c0     == new_temp(c)
      start  == pc(c0)
      c1     == stmt_list(IF s.hf THEN [c0 EXCEPT !.finallies = Append(@, s.f)] ELSE c0, s.b)
      end    == AtLeastOne(pc(c1), start)
      over   == label(c1)
      \* with a catch clause
      k1     == emit_jump(new_labels(c1, 2), "Jump", 0, over)
      kstart == pc(k1)
      k2     == stmt_list(k1, s.c)
      kend   == AtLeastOne(pc(k2), kstart)
      k3     == push_range(bind(k2, over), start, end, kstart, exc)
      k4     == emit_jump(copy_finalizer(popf(k3), s.f), "Jump", 0, over + 1)
      k5     == emit(copy_finalizer(k4, s.f), I("Throw", exc, 0, 0))
      k6     == push_range(bind(k5, over + 1), kstart, kend, pc(k4), exc)
      \* finalizer only
      f1     == emit_jump(popf(new_labels(c1, 1)), "Jump", 0, over)
      f2     == bind(emit(copy_finalizer(f1, s.f), I("Throw", exc, 0, 0)), over)
      f3     == push_range(copy_finalizer(f2, s.f), start, end, pc(f1), exc)
  IN temp_release(IF ~s.hc THEN f3 ELSE IF s.hf THEN k6 ELSE bind(k3, over + 1), exc)

return_stmt(c, s) ==
  LET v  == expr(c, s.e)
      c1 == emit_iterator_closes(run_finally_copies(v.c, 0), 1)
  IN emit(c1, I("Return", v.r, 0, 0))

stmt(c, s) ==
  IF c.bad THEN c
  ELSE CASE s.k = "expr"   -> expr(c, s.e).c
    [] s.k = "let"    -> var_decl(c, s.x, s.e)
    [] s.k = "block"  -> stmt_list(c, s.ss)
    [] s.k = "if"     -> if_stmt(c, s)
    [] s.k = "while"  -> while_loop(c, s, 0)
    [] s.k = "do"     -> do_while_loop(c, s, 0)
    [] s.k = "for"    -> for_loop(c, s, 0)
    [] s.k = "forof"  -> for_of_loop(c, s, 0)
    [] s.k = "forin"  -> for_in_loop(c, s, 0)
    [] s.k = "pattern" -> array_pattern_store(c, s)
    [] s.k = "object" -> object_pattern_store(c, s)
    [] s.k = "label"  -> labelled(c, s)
    [] s.k = "switch" -> exit_tdz_region(switch_stmt(enter_tdz_region(c), s, 0))
    [] s.k = "break"  -> jump_out(c, s.l, FALSE)
    [] s.k = "continue" -> jump_out(c, s.l, TRUE)
    [] s.k = "return" -> return_stmt(c, s)
    [] s.k = "throw"  -> LET v == expr(c, s.e) IN emit(v.c, I("Throw", v.r, 0, 0))
    [] s.k = "try"    -> exit_tdz_region(try_stmt(enter_tdz_region(c), s))

-----------------------------------------------------------------------------
Jumps == {"Jump", "JumpIfTrue", "JumpIfFalse", "JumpIfNullish"}

(* The builder's fixups: labels become instruction indices.                *)
resolve(c) ==
  [i \in DOMAIN c.code |->
     IF c.code[i].op \in Jumps THEN [c.code[i] EXCEPT !.b = c.lab[@]] ELSE c.code[i]]

(* finish: handler ranges sorted by start, the longer of two that start    *)
(* together first.                                                         *)
sort_handlers(hs) ==
  SortSeq(hs, LAMBDA g, h : g.start < h.start \/ (g.start = h.start /\ g.end > h.end))

-----------------------------------------------------------------------------
(* peephole.rs.  One round: fold an addition of two literals loaded just   *)
(* before it, drop branches to the next instruction, compact, and thread   *)
(* jumps through jumps.  The word layout of wide operands is left out.     *)
MaxRounds == 8
MaxHops   == 16
LoadsInt(i) == i.op = "Load" /\ i.b \in 0..127

fold_literals(code) ==
  LET try(u, i) ==
        LET x == u.code[i - 1]  y == u.code[i]  z == u.code[i + 1]
            fits == /\ u.keep[i] /\ u.keep[i - 1]
                    /\ <<z.b, z.c>> \in {<<x.a, y.a>>, <<y.a, x.a>>} /\ x.b + y.b <= 127
        IN IF ~fits THEN u
           ELSE [code |-> [u.code EXCEPT ![i - 1] = I("Load", z.a, x.b + y.b, 0)],
                 keep |-> [u.keep EXCEPT ![i] = FALSE, ![i + 1] = FALSE]]
      pairs == SelectSeq([i \in DOMAIN code |-> i],
                         LAMBDA i : /\ i \in 2..(Len(code) - 2) /\ code[i + 1].op = "Add"
                                    /\ LoadsInt(code[i - 1]) /\ LoadsInt(code[i]))
  IN FoldLeft(try, [code |-> code, keep |-> [i \in DOMAIN code |-> TRUE]], pairs)

drop_dead_branches(u) ==
  LET dead(i) == u.code[i].op \in {"Jump", "JumpIfTrue", "JumpIfFalse"} /\ u.code[i].b = i + 1
  IN [u EXCEPT !.keep = [i \in DOMAIN u.code |-> u.keep[i] /\ ~dead(i)]]

compact(u, handlers) ==
  LET kept == SelectSeq([i \in DOMAIN u.code |-> i], LAMBDA i : u.keep[i])
      to   == [i \in 1..(Len(u.code) + 1) |-> 1 + Cardinality({k \in DOMAIN kept : kept[k] < i})]
  IN [code |-> [k \in DOMAIN kept |->
                  LET i == u.code[kept[k]]
                  IN IF i.op \in Jumps THEN [i EXCEPT !.b = to[@]] ELSE i],
      handlers |-> SelectSeq([n \in DOMAIN handlers |->
                                [handlers[n] EXCEPT !.start = to[@], !.end = to[@], !.target = to[@]]],
                             LAMBDA h : h.end > h.start)]

RECURSIVE hop(_, _, _, _)
hop(code, i, t, hops) ==
  IF hops = MaxHops \/ t > Len(code) \/ (code[i].op = "Jump" /\ t = i) THEN t
  ELSE IF code[t].op = "Jump" THEN hop(code, i, code[t].b, hops + 1) ELSE t
thread_jumps(code) ==
  FoldLeft(LAMBDA c, i : [c EXCEPT ![i].b = hop(c, i, @, 0)],
           code, SelectSeq([i \in DOMAIN code |-> i], LAMBDA i : code[i].op \in Jumps))

round(unit) ==
  LET u == compact(drop_dead_branches(fold_literals(unit.code)), unit.handlers)
  IN [unit EXCEPT !.code = thread_jumps(u.code), !.handlers = u.handlers]

RECURSIVE run_rounds(_, _)
run_rounds(unit, n) ==
  LET next == round(unit) IN IF n = 0 \/ next = unit THEN unit ELSE run_rounds(next, n - 1)
optimize(unit) == run_rounds(unit, MaxRounds)

(* compile_unit: the prologue pushes the unit's environment when it owns   *)
(* slots; falling off the end returns undefined.                           *)
compile_unit(s) ==
  LET c0 == FnCtx(s)
      c1 == stmt(IF c0.plan.slots > 0 THEN emit(c0, I("NewEnv", c0.plan.slots, 0, 0)) ELSE c0, s)
  IN optimize([code |-> resolve(c1), handlers |-> sort_handlers(c1.hs), regs |-> c1.high,
               slots |-> c1.plan.slots, bad |-> c1.bad])
=============================================================================
