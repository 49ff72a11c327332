----------------------------- MODULE Completions ----------------------------
(***************************************************************************)
(* What a program means: a definitional interpreter over the syntax, in    *)
(* terms of completions (normal, throw, return, break, continue), with the *)
(* environment's answers read from a history.  It knows nothing of         *)
(* registers, labels, handler ranges or copies of finalizers; a run of the *)
(* compiled code is right when this interpreter, given the same answers,   *)
(* asks the same questions in the same order and ends the same way.        *)
(***************************************************************************)
EXTENDS Syntax

Uninit == -7      \* the value of a lexical binding before its declaration

(* Interpreter state: the history and the position in it, the cells of     *)
(* bindings, the current scope, the cells closures captured.               *)
Fresh(h) == [h |-> h, i |-> 1, cells |-> <<>>, scope |-> [x \in {} |-> 0], caps |-> <<>>]

(* A completion: the state after it, its kind, its value or label.  "stuck"*)
(* means the history asks something else, or ended.                        *)
Done(s, k, v)  == [s |-> s, k |-> k, v |-> v]
Normal(s, v)   == Done(s, "normal", v)

Asked(s, what, id) == s.i <= Len(s.h) /\ s.h[s.i][1] = what /\ s.h[s.i][2] = id
Answer(s)      == s.h[s.i][3]
Seen(s)        == [s EXCEPT !.i = @ + 1]
Raised(s)      == Done(Seen(s), "throw", 100 + s.i - 1)
Stuck(s)       == Done(s, "stuck", 0)

(* Ask and continue with a value unless the answer is a throw.             *)
Query(s, what, id, v) ==
  IF ~Asked(s, what, id) THEN Stuck(s)
  ELSE IF Answer(s) = "throw" THEN Raised(s) ELSE Normal(Seen(s), v)

Cell(s, x)     == s.cells[s.scope[x]]
Declare(s, x)  == [s EXCEPT !.cells = Append(@, Uninit),
                            !.scope = (x :> Len(s.cells) + 1) @@ @]
Store(s, x, v) == [s EXCEPT !.cells[s.scope[x]] = v]
ScopeOf(s, t)  == [s EXCEPT !.scope = t.scope]

RECURSIVE EvalExpr(_, _), EvalStmt(_, _, _), EvalList(_, _), EvalWhile(_, _, _),
          EvalDo(_, _, _), EvalFor(_, _, _), EvalForOf(_, _, _), EvalForIn(_, _, _, _),
          Selects(_, _, _, _)

Assigned(r, x) ==       \* x = the value of a completed expression
  IF r.k # "normal" THEN r
  ELSE IF Cell(r.s, x) = Uninit THEN Done(r.s, "throw", RefError)
  ELSE Normal(Store(r.s, x, r.v), r.v)

Reads(s, x) == IF Cell(s, x) = Uninit THEN Done(s, "throw", RefError) ELSE Normal(s, Cell(s, x))

Skips(op, v) == CASE op = "or" -> Truthy(v) [] op = "and" -> ~Truthy(v)
                  [] op = "nullish" -> ~Nullish(v)

(* Operands from left to right; the values, or the first abrupt completion.*)
RECURSIVE EvalArgs(_, _, _)
EvalArgs(s, es, vs) ==
  LET r == EvalExpr(s, Head(es))
  IN IF es = <<>> THEN Normal(s, vs)
     ELSE IF r.k # "normal" THEN r ELSE EvalArgs(r.s, Tail(es), Append(vs, r.v))

(* yield*: every value of the inner iterator is handed out; a return goes  *)
(* to the inner iterator first and its value is what is returned.          *)
RECURSIVE EvalDelegate(_, _)
EvalDelegate(s, id) ==
  LET n == Query(s, "next", id, DoneResult)
      y == Query(n.s, "delegate", id, Undefined)
      c == Query(y.s, "close", id, y.s.i)
  IN IF n.k # "normal" \/ Answer(s) = "done" THEN n
     ELSE IF y.k # "normal" THEN y
     ELSE IF Answer(n.s) = "next" THEN EvalDelegate(y.s, id)
     ELSE IF c.k # "normal" THEN c ELSE Done(c.s, "return", c.v)

EvalExpr(s, e) ==
  CASE e.k = "apply" ->
         LET a == EvalArgs(s, e.es, <<>>)
         IN IF a.k # "normal" THEN a ELSE Query(a.s, "apply", <<e.id>> \o a.v, True)
    [] e.k = "list" ->
         LET a == EvalArgs(s, e.es, <<>>)
         IN IF a.k # "normal" THEN a ELSE Query(a.s, "list", a.v, True)
    [] e.k = "delegate" ->
         LET o == Query(s, "open", e.id, Undefined)
         IN IF o.k # "normal" THEN o ELSE EvalDelegate(o.s, e.id)
    []  e.k = "call" ->
         Query(s, "call", e.id, IF Asked(s, "call", e.id)
                                THEN CASE Answer(s) = "t" -> True [] Answer(s) = "f" -> False
                                       [] OTHER -> Undefined
                                ELSE Undefined)
    [] e.k = "num" -> Normal(s, e.n)
    [] e.k = "var" -> Reads(s, e.x)
    [] e.k \in {"less", "add"} ->
         LET a == EvalExpr(s, e.a)  b == EvalExpr(a.s, e.b)
         IN IF a.k # "normal" THEN a ELSE IF b.k # "normal" THEN b
            ELSE Normal(b.s, IF e.k = "add" THEN a.v + b.v ELSE OfBool(a.v < b.v))
    [] e.k = "assign" -> Assigned(EvalExpr(s, e.e), e.x)
    [] e.k = "plus" ->
         LET a == Reads(s, e.x)  b == EvalExpr(s, e.e)
         IN IF a.k # "normal" THEN a ELSE IF b.k # "normal" THEN b
            ELSE Assigned(Normal(b.s, a.v + b.v), e.x)
    [] e.k = "incr" ->
         LET a == Reads(s, e.x)
         IN IF a.k # "normal" THEN a ELSE Normal(Store(s, e.x, a.v + 1), a.v)
    [] e.k = "logical" ->
         LET a == EvalExpr(s, e.a)
         IN IF a.k # "normal" \/ Skips(e.op, a.v) THEN a ELSE EvalExpr(a.s, e.b)
    [] e.k = "logassign" ->
         LET a == Reads(s, e.x)
         IN IF a.k # "normal" \/ Skips(e.op, a.v) THEN a
            ELSE Assigned(EvalExpr(a.s, e.e), e.x)
    [] e.k = "cond" ->
         LET t == EvalExpr(s, e.t)
         IN IF t.k # "normal" THEN t ELSE EvalExpr(t.s, IF Truthy(t.v) THEN e.a ELSE e.b)
    [] e.k = "comma" ->
         LET a == EvalExpr(s, e.a) IN IF a.k # "normal" THEN a ELSE EvalExpr(a.s, e.b)
    [] e.k = "optional" ->
         LET a == EvalExpr(s, e.a)
         IN IF a.k # "normal" THEN a
            ELSE IF Nullish(a.v) THEN Normal(a.s, Undefined) ELSE EvalExpr(a.s, e.b)
    [] e.k = "capture" -> Normal([s EXCEPT !.caps = Append(@, s.scope[e.x])], True)
    [] e.k \in {"yield", "await"} ->
         LET a == EvalExpr(s, e.e)
             r == Query(a.s, e.k, e.id, a.s.i)
         IN IF a.k # "normal" THEN a
            ELSE IF r.k = "normal" /\ Answer(a.s) = "return" THEN Done(r.s, "return", r.v) ELSE r

-----------------------------------------------------------------------------
(* Does the loop go on after its body, and what does it make of an exit?   *)
GoesOn(r, ls)  == r.k = "normal" \/ (r.k = "continue" /\ r.v \in ls \union {0})
Leaves(r)      == IF r.k = "break" /\ r.v = 0 THEN Normal(r.s, Undefined) ELSE r

EvalWhile(s, t, ls) ==
  LET c == EvalExpr(s, t.t)
      b == EvalStmt(c.s, t.b, {})
  IN IF c.k # "normal" THEN c
     ELSE IF ~Truthy(c.v) THEN Normal(c.s, Undefined)
     ELSE IF GoesOn(b, ls) THEN EvalWhile(b.s, t, ls) ELSE Leaves(b)

EvalDo(s, t, ls) ==
  LET b == EvalStmt(s, t.b, {})
      c == EvalExpr(b.s, t.t)
  IN IF ~GoesOn(b, ls) THEN Leaves(b)
     ELSE IF c.k # "normal" THEN c
     ELSE IF Truthy(c.v) THEN EvalDo(c.s, t, ls) ELSE Normal(c.s, Undefined)

(* Every iteration has its own copy of the head's binding.                 *)
NextCopy(s, x) == IF x = 0 THEN s ELSE Store(Declare(s, x), x, Cell(s, x))
EvalFor(s, t, ls) ==
  LET c == EvalExpr(s, t.t)
      b == EvalStmt(c.s, t.b, {})
      u == EvalExpr(NextCopy(b.s, t.x), t.u)
  IN IF c.k # "normal" THEN c
     ELSE IF ~Truthy(c.v) THEN Normal(c.s, Undefined)
     ELSE IF ~GoesOn(b, ls) THEN Leaves(b)
     ELSE IF u.k # "normal" THEN u ELSE EvalFor(u.s, t, ls)

Bound(s, x, v) == IF x = 0 THEN s ELSE Store(Declare(s, x), x, v)

(* IteratorClose: the completion of the loop wins over a failing close     *)
(* only when it is itself a throw.                                         *)
Closed(r, id) ==
  LET c == Query(r.s, "close", id, Undefined)
  IN IF r.k = "stuck" \/ c.k = "stuck" THEN Stuck(r.s)
     ELSE IF r.k = "throw" \/ c.k = "normal" THEN Done(c.s, r.k, r.v) ELSE c

EvalForOf(s, t, ls) ==
  LET n == Query(s, "next", t.id, s.i)
      b == EvalStmt(Bound(n.s, t.x, n.v), t.b, {})
  IN IF n.k # "normal" THEN n
     ELSE IF Answer(s) = "done" THEN Normal(n.s, Undefined)
     ELSE IF GoesOn(b, ls) THEN EvalForOf(ScopeOf(b.s, s), t, ls)
     ELSE Leaves(Closed(b, t.id))

EvalForIn(s, t, n, ls) ==
  LET b == EvalStmt(Bound(s, t.x, n), t.b, {})
  IN IF n = t.n THEN Normal(s, Undefined)
     ELSE IF GoesOn(b, ls) THEN EvalForIn(ScopeOf(b.s, s), t, n + 1, ls) ELSE Leaves(b)

(* Array binding: no step after the end, a close when the pattern is       *)
(* satisfied first.                                                        *)
RECURSIVE EvalPattern(_, _, _, _)
EvalPattern(s, xs, id, ended) ==
  LET n == Query(s, "next", id, s.i)
  IN IF xs = <<>>
     THEN IF ended THEN Normal(s, Undefined) ELSE Closed(Normal(s, Undefined), id)
     ELSE IF ended THEN EvalPattern(Store(s, Head(xs), Undefined), Tail(xs), id, TRUE)
     ELSE IF n.k # "normal" THEN n
     ELSE IF Answer(s) = "done" THEN EvalPattern(Store(n.s, Head(xs), Undefined), Tail(xs), id, TRUE)
     ELSE EvalPattern(Store(n.s, Head(xs), n.v), Tail(xs), id, FALSE)

(* switch: the first case whose test equals the discriminant, else the     *)
(* default; the result is the clause to enter (0: none).                   *)
Selects(s, cs, n, v) ==
  LET t == EvalExpr(s, cs[n].t)
      ds == {m \in DOMAIN cs : cs[m].default}
  IN IF n > Len(cs) THEN Normal(s, IF ds = {} THEN 0 ELSE CHOOSE m \in ds : TRUE)
     ELSE IF cs[n].default THEN Selects(s, cs, n + 1, v)
     ELSE IF t.k # "normal" THEN t
     ELSE IF t.v = v THEN Normal(t.s, n) ELSE Selects(t.s, cs, n + 1, v)

EvalSwitch(s, t) ==
  LET d == EvalExpr(s, t.d)
      n == Selects(d.s, t.cs, 1, d.v)
      rest == FoldLeft(LAMBDA a, c : a \o c.ss, <<>>, SubSeq(t.cs, n.v, Len(t.cs)))
  IN IF d.k # "normal" THEN d
     ELSE IF n.k # "normal" THEN n
     ELSE IF n.v = 0 THEN Normal(n.s, Undefined) ELSE Leaves(EvalList(n.s, rest))

(* Object patterns: read, default when undefined, store, property by       *)
(* property.                                                               *)
RECURSIVE EvalProps(_, _, _)
EvalProps(s, ps, decl) ==
  LET p == Head(ps)
      r == EvalExpr(s, Call(p.id, {}))
      v == IF r.k = "normal" /\ r.v = Undefined /\ p.d # <<>> THEN EvalExpr(r.s, p.d[1]) ELSE r
      w == IF decl THEN Normal(Store(v.s, p.x, v.v), v.v) ELSE Assigned(v, p.x)
  IN IF ps = <<>> THEN Normal(s, Undefined)
     ELSE IF v.k # "normal" THEN v
     ELSE IF w.k # "normal" THEN w ELSE EvalProps(w.s, Tail(ps), decl)

EvalBlock(s, ss) ==
  LET lets == {ss[n].x : n \in {m \in DOMAIN ss : ss[m].k = "let"}}
                \union UNION {ToSet(Declares(ss[n])) : n \in {m \in DOMAIN ss : ss[m].k = "object"}}
                \union UNION {ToSet(ss[n].xs) : n \in {m \in DOMAIN ss : ss[m].k = "pattern"}}
      r == EvalList(FoldLeft(Declare, s, SetToSeq(lets)), ss)
  IN Done(ScopeOf(r.s, s), r.k, r.v)

(* A finalizer runs once on every path out of its try statement; an abrupt *)
(* completion of its own replaces the one it interrupted.                  *)
EvalTry(s, t) ==
  LET b == EvalBlock(s, t.b)
      c == IF b.k = "throw" /\ t.hc THEN EvalBlock(b.s, t.c) ELSE b
      f == EvalBlock(c.s, t.f)
  IN IF c.k = "stuck" \/ ~t.hf THEN c
     ELSE IF f.k # "normal" THEN f ELSE Done(f.s, c.k, c.v)

EvalList(s, ss) ==
  LET r == EvalStmt(s, Head(ss), {})
  IN IF ss = <<>> THEN Normal(s, Undefined)
     ELSE IF r.k # "normal" THEN r ELSE EvalList(r.s, Tail(ss))

EvalStmt(s, t, ls) ==
  CASE t.k = "expr"  -> EvalExpr(s, t.e)
    [] t.k = "let"   -> LET r == EvalExpr(s, t.e)
                        IN IF r.k # "normal" THEN r ELSE Normal(Store(r.s, t.x, r.v), Undefined)
    [] t.k = "block" -> EvalBlock(s, t.ss)
    [] t.k = "if"    -> LET c == EvalExpr(s, t.t)
                        IN IF c.k # "normal" THEN c
                           ELSE EvalStmt(c.s, IF Truthy(c.v) THEN t.a ELSE t.b, {})
    [] t.k = "while" -> EvalWhile(s, t, ls)
    [] t.k = "do"    -> EvalDo(s, t, ls)
    [] t.k = "for"   ->
         LET i == EvalExpr(IF t.x = 0 THEN s ELSE Declare(s, t.x), t.i)
             r == EvalFor(NextCopy(IF t.x = 0 THEN i.s ELSE Store(i.s, t.x, i.v), t.x), t, ls)
         IN IF i.k # "normal" THEN i ELSE Done(ScopeOf(r.s, s), r.k, r.v)
    [] t.k = "forof" -> LET o == Query(s, "open", t.id, Undefined)
                            r == EvalForOf(o.s, t, ls)
                        IN IF o.k # "normal" THEN o ELSE Done(ScopeOf(r.s, s), r.k, r.v)
    [] t.k = "forin" -> LET r == EvalForIn(s, t, 0, ls) IN Done(ScopeOf(r.s, s), r.k, r.v)
    [] t.k = "pattern" -> LET o == Query(s, "open", t.id, Undefined)
                          IN IF o.k # "normal" THEN o ELSE EvalPattern(o.s, t.xs, t.id, FALSE)
    [] t.k = "object" -> EvalProps(s, t.ps, t.decl)
    [] t.k = "label" -> LET r == EvalStmt(s, t.b, ls \union {t.l})
                        IN IF r.k = "break" /\ r.v = t.l THEN Normal(r.s, Undefined) ELSE r
    [] t.k = "switch" -> EvalSwitch(s, t)
    [] t.k = "break" -> Done(s, "break", t.l)
    [] t.k = "continue" -> Done(s, "continue", t.l)
    [] t.k = "return" -> LET r == EvalExpr(s, t.e)
                         IN IF r.k # "normal" THEN r ELSE Done(r.s, "return", r.v)
    [] t.k = "throw" -> LET r == EvalExpr(s, t.e)
                        IN IF r.k # "normal" THEN r ELSE Done(r.s, "throw", r.v)
    [] t.k = "try"   -> EvalTry(s, t)

(* A whole program: how it ends, how much of the history it used, and what *)
(* the captured bindings hold at the end.                                  *)
Meaning(p, h) ==
  LET r == EvalStmt(Fresh(h), p, {})
  IN [k |-> IF r.k = "normal" THEN "return" ELSE r.k,
      v |-> IF r.k = "normal" THEN Undefined ELSE r.v,
      used |-> r.s.i - 1,
      held |-> [n \in DOMAIN r.s.caps |-> r.s.cells[r.s.caps[n]]]]
=============================================================================
