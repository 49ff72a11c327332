------------------------------- MODULE Syntax -------------------------------
(***************************************************************************)
(* The abstract syntax the bytecode compiler consumes, reduced to control  *)
(* flow.  A leaf is a call of some function of the embedder, named by a    *)
(* number, with the set of ways it may complete; everything else is the    *)
(* statement and expression grammar of v12-bccompiler's stmt.rs and        *)
(* expr.rs.  The parser itself (oxc) is a library.                         *)
(***************************************************************************)
EXTENDS Integers, Sequences, FiniteSets, SequencesExt

\* Run-time values are integers: numbers from 0 on, and the others below 0.
Undefined == -1
Null      == -2
False     == -3
True      == -4
DoneResult == -5     \* an iterator result whose `done` is true
RefError  == -6      \* the ReferenceError of an uninitialized binding

Truthy(v)  == v \notin {Undefined, Null, False, 0}
Nullish(v) == v \in {Undefined, Null}
OfBool(b)  == IF b THEN True ELSE False

-----------------------------------------------------------------------------
(* Expressions.                                                            *)
Call(i, outs)   == [k |-> "call", id |-> i, outs |-> outs]
Num(n)          == [k |-> "num", n |-> n]
Var(x)          == [k |-> "var", x |-> x]
Less(a, b)      == [k |-> "less", a |-> a, b |-> b]
Sum(a, b)       == [k |-> "add", a |-> a, b |-> b]
Assign(x, e)    == [k |-> "assign", x |-> x, e |-> e]
Plus(x, e)      == [k |-> "plus", x |-> x, e |-> e]      \* x += e
Incr(x)         == [k |-> "incr", x |-> x]               \* x++
Logical(o, a, b) == [k |-> "logical", op |-> o, a |-> a, b |-> b]
LogAssign(o, x, e) == [k |-> "logassign", op |-> o, x |-> x, e |-> e]
Cond(t, a, b)   == [k |-> "cond", t |-> t, a |-> a, b |-> b]
Comma(a, b)     == [k |-> "comma", a |-> a, b |-> b]
Optional(a, b)  == [k |-> "optional", a |-> a, b |-> b]  \* a?.m() with b the call
Capture(x)      == [k |-> "capture", x |-> x]            \* keep(() => x)
Apply(i, es)    == [k |-> "apply", id |-> i, es |-> es]  \* f(e1, ..., en)
List(es)        == [k |-> "list", es |-> es]             \* [e1, ..., en]
Delegate(i)     == [k |-> "delegate", id |-> i]          \* yield* i
Yield(i, e)     == [k |-> "yield", id |-> i, e |-> e]
Await(i, e)     == [k |-> "await", id |-> i, e |-> e]

(* Statements.  Label 0 is "no label", variable 0 is "no binding".         *)
Expr(e)         == [k |-> "expr", e |-> e]
Let(x, e)       == [k |-> "let", x |-> x, e |-> e]
Block(ss)       == [k |-> "block", ss |-> ss]
If(t, a, b)     == [k |-> "if", t |-> t, a |-> a, b |-> b]
While(t, b)     == [k |-> "while", t |-> t, b |-> b]
DoWhile(b, t)   == [k |-> "do", t |-> t, b |-> b]
For(x, i, t, u, b) == [k |-> "for", x |-> x, i |-> i, t |-> t, u |-> u, b |-> b]
ForOf(x, i, b)  == [k |-> "forof", x |-> x, id |-> i, b |-> b]
ForIn(x, n, b)  == [k |-> "forin", x |-> x, n |-> n, b |-> b]  \* n own keys
Pattern(xs, i)  == [k |-> "pattern", xs |-> xs, id |-> i]     \* let [x1, ..] = i
Property(x, i, d) == [x |-> x, id |-> i, d |-> d]          \* d: the default, or <<>>
ObjPattern(decl, ps) == [k |-> "object", decl |-> decl, ps |-> ps] \* let {..} = o, ({..} = o)
Labelled(l, b)  == [k |-> "label", l |-> l, b |-> b]
Switch(d, cs)   == [k |-> "switch", d |-> d, cs |-> cs]
Case(t, ss)     == [default |-> FALSE, t |-> t, ss |-> ss]
Default(ss)     == [default |-> TRUE, t |-> Num(0), ss |-> ss]
Break(l)        == [k |-> "break", l |-> l]
Continue(l)     == [k |-> "continue", l |-> l]
Return(e)       == [k |-> "return", e |-> e]
Throw(e)        == [k |-> "throw", e |-> e]
TryCatch(b, c)  == [k |-> "try", b |-> b, hc |-> TRUE, c |-> c, hf |-> FALSE, f |-> <<>>]
TryFinally(b, f) == [k |-> "try", b |-> b, hc |-> FALSE, c |-> <<>>, hf |-> TRUE, f |-> f]
TryAll(b, c, f) == [k |-> "try", b |-> b, hc |-> TRUE, c |-> c, hf |-> TRUE, f |-> f]
Empty           == Block(<<>>)

-----------------------------------------------------------------------------
(* What a node contains: its sub-expressions and its sub-statements.       *)
Exprs(s) ==
  CASE s.k \in {"expr", "let", "return", "throw"} -> <<s.e>>
    [] s.k \in {"if", "while", "do"} -> <<s.t>>
    [] s.k = "for"    -> <<s.i, s.t, s.u>>
    [] s.k = "object" -> FoldLeft(LAMBDA a, p : a \o p.d, <<>>, s.ps)
    [] s.k = "switch" -> <<s.d>> \o [n \in DOMAIN s.cs |-> s.cs[n].t]
    [] OTHER -> <<>>

Subs(s) ==
  CASE s.k = "block" -> s.ss
    [] s.k = "if" -> <<s.a, s.b>>
    [] s.k \in {"while", "do", "for", "forof", "forin", "label"} -> <<s.b>>
    [] s.k = "switch" -> FoldLeft(LAMBDA a, c : a \o c.ss, <<>>, s.cs)
    [] s.k = "try" -> s.b \o s.c \o s.f
    [] OTHER -> <<>>

SubExprs(e) ==
  CASE e.k \in {"assign", "plus", "logassign", "yield", "await"} -> <<e.e>>
    [] e.k \in {"less", "add", "logical", "comma", "optional"} -> <<e.a, e.b>>
    [] e.k = "cond" -> <<e.t, e.a, e.b>>
    [] e.k \in {"apply", "list"} -> e.es
    [] OTHER -> <<>>

RECURSIVE AllExprs(_)
AllExprs(e) == {e} \union UNION {AllExprs(SubExprs(e)[n]) : n \in DOMAIN SubExprs(e)}

RECURSIVE AllStmts(_)
AllStmts(s) == {s} \union UNION {AllStmts(Subs(s)[n]) : n \in DOMAIN Subs(s)}

ExprsIn(s) == UNION {UNION {AllExprs(Exprs(t)[n]) : n \in DOMAIN Exprs(t)} : t \in AllStmts(s)}

(* The bindings a statement declares, in declaration order.                *)
Declares(s) ==
  CASE s.k \in {"let", "for", "forof", "forin"} -> IF s.x = 0 THEN <<>> ELSE <<s.x>>
    [] s.k = "pattern" -> s.xs
    [] s.k = "object" /\ s.decl -> [n \in DOMAIN s.ps |-> s.ps[n].x]
    [] OTHER -> <<>>

RECURSIVE DeclOrder(_)
DeclOrder(s) == Declares(s) \o FoldLeft(LAMBDA a, t : a \o DeclOrder(t), <<>>, Subs(s))

(* Bindings referenced from an inner function.                             *)
Captured(s) == {e.x : e \in {f \in ExprsIn(s) : f.k = "capture"}}
=============================================================================
