------------------------------ MODULE MCPrograms ----------------------------
(***************************************************************************)
(* The programs that are compiled and run: every nesting of two control    *)
(* structures around every kind of exit, and families for scoping,         *)
(* expressions and suspension.                                             *)
(***************************************************************************)
EXTENDS Compiled

C(i) == Expr(Call(i, {"t", "throw"}))
N(i) == Expr(Call(i, {"t"}))            \* a call that does not throw
T(i) == Call(i, {"t", "f"})
U(i) == Call(i, {"t", "f", "u"})
Guarded(i, s) == Block(<<If(T(i), s, Empty), C(i + 1)>>)

Exits == <<C(90), Throw(Num(9)), Return(Num(8)), Guarded(90, Break(0)), Guarded(90, Continue(0)),
            Guarded(90, Return(Num(7))), Guarded(90, Break(1)), Guarded(90, Continue(1)),
           Expr(Yield(90, Num(0))), Expr(Delegate(90)), Block(<<Expr(Await(90, Num(0))), C(91)>>)>>

(* One control structure around b; i numbers its calls.                    *)
Around(i, b) ==
  <<While(T(i), b), DoWhile(b, T(i)), ForOf(0, i, b), ForIn(0, 2, b), Labelled(1, Block(<<b, C(i)>>)),
   Labelled(1, While(T(i), b)), Labelled(1, ForOf(0, i, b)),
   TryCatch(<<b>>, <<C(i)>>), TryCatch(<<C(i)>>, <<b>>),
   TryFinally(<<b>>, <<N(i)>>), TryFinally(<<C(i)>>, <<b>>),
   TryAll(<<b>>, <<C(i)>>, <<N(i + 1)>>), TryAll(<<C(i)>>, <<b>>, <<N(i + 1)>>),
   Switch(T(i), <<Case(Call(i + 1, {"t"}), <<b>>), Default(<<C(i + 2)>>)>>),
   Block(<<b, C(i)>>)>>

Nest(a, b, l) == Around(10, Around(20, Exits[l])[b])[a]
Nests == {Nest(a, b, l) : a \in 1..15, b \in 1..15, l \in DOMAIN Exits}
DeepNests == {Around(30, Nest(a, b, l))[o] : o \in {8, 10}, a \in 1..15, b \in 1..15, l \in DOMAIN Exits}

(* Scopes: dead zones, captured loop variables, labels across per-iteration*)
(* environments.                                                           *)
Counting(x, b) == For(x, Num(0), Less(Var(x), Num(2)), Incr(x), b)
Keep(x) == Expr(Capture(x))
Scopes ==
  {Block(<<Let(1, Num(5)), Return(Var(1))>>), Block(<<Expr(Var(1)), Let(1, Num(5))>>),
   Block(<<Expr(Assign(1, Num(4))), Let(1, Num(5))>>), Block(<<Let(1, Var(1))>>),
   Block(<<If(T(10), Expr(Var(1)), Empty), Let(1, Num(5)), C(11), Return(Var(1))>>),
   Block(<<TryCatch(<<Expr(Incr(1)), C(10)>>, <<C(11)>>), Let(1, Num(5)), Return(Var(1))>>),
   Block(<<Let(1, Num(5)), Keep(1), Expr(Assign(1, Num(6))), Expr(Plus(1, Num(2))), Return(Var(1))>>),
   Block(<<Keep(1), Expr(Var(1)), Let(1, Num(5))>>),
   Block(<<Let(1, Num(0)), While(Less(Var(1), Num(2)), Block(<<Expr(Incr(1)), C(10)>>)), Return(Var(1))>>),
   Block(<<Pattern(<<1>>, 10), Return(Var(1))>>), Block(<<Pattern(<<1>>, 10), Keep(1), C(11)>>),
   Block(<<TryCatch(<<Pattern(<<1>>, 10)>>, <<C(11)>>), C(12)>>)}
  \union {Block(<<h, C(80)>>) : h \in UNION {
      {Counting(1, b), ForOf(1, 10, b), ForIn(1, 2, b)} :
        b \in {C(90), Keep(1), Block(<<Keep(1), C(90)>>), Block(<<Keep(1), Guarded(90, Break(0))>>),
               Block(<<Keep(1), Guarded(90, Continue(0))>>), Block(<<Keep(1), Guarded(90, Return(Var(1)))>>),
               Block(<<Let(2, Var(1)), Keep(1), Keep(2)>>)}}}
  \union {Labelled(1, h) : h \in UNION {
      {Counting(1, Block(<<Keep(1), b>>)), ForOf(1, 10, Block(<<Keep(1), b>>))} :
        b \in UNION {{Counting(2, j), ForOf(2, 20, j)} :
                 j \in {Block(<<Keep(2), Guarded(90, e)>>) : e \in {Break(0), Break(1), Continue(1)}}}}}

(* Expressions.                                                            *)
Ops == {"or", "and", "nullish"}
Flat(i) == {U(i), Comma(U(i), U(i + 1)), Optional(U(i), U(i + 1)), Cond(U(i), U(i + 1), U(i + 2))}
             \union {Logical(o, U(i), U(i + 1)) : o \in Ops}
Expressions ==
  {Return(e) : e \in UNION {{Logical(o, a, b), Optional(a, b), Cond(a, b, U(30))} :
                             o \in Ops, a \in Flat(10), b \in Flat(20)}}
  \union {Return(Sum(Num(3), Sum(Num(4), Num(5)))), Return(Sum(Num(100), Num(100))),
          Return(Cond(T(10), Sum(Num(1), Num(2)), Sum(Sum(Num(3), Num(4)), Num(5))))}
  \union {Return(Apply(10, <<a, Num(7), b>>)) :
             a \in {T(20), Apply(21, <<T(22), Num(5)>>), Cond(T(23), Num(1), Num(2))},
             b \in {Num(6), List(<<Num(3), T(24)>>), Logical("or", T(25), Num(4))}}
  \union {Block(<<Let(2, Num(5)), ObjPattern(TRUE, <<Property(1, 10, d), Property(3, 12, <<>>)>>),
                  ObjPattern(FALSE, <<Property(2, 13, d)>>), Return(Apply(14, <<Var(1), Var(2), Var(3)>>))>>) :
             d \in {<<>>, <<Num(8)>>, <<Apply(11, <<Var(2)>>)>>, <<U(15)>>}}
  \union {Block(<<Let(1, U(10)), Expr(LogAssign(o, 1, U(11))), Return(Var(1))>>) : o \in Ops}

-----------------------------------------------------------------------------
(* Programs on which the compiler is known to depart from the language are *)
(* left out.  An exit is met with the structures it is nested in.          *)
Loops == {"while", "do", "for", "forof", "forin"}
RECURSIVE ExitsOf(_, _, _)
ExitsOf(s, path, l) ==
  LET frame(k) == Append(path, [k |-> k, l |-> l, at |-> s])
      all(ss, p) == UNION {ExitsOf(ss[n], p, 0) : n \in DOMAIN ss}
  IN CASE s.k \in {"break", "continue", "return"} -> {[s |-> s, path |-> path]}
       [] s.k = "expr" -> IF s.e.k \in {"yield", "delegate"} THEN {[s |-> s, path |-> path]} ELSE {}
       [] s.k \in Loops \union {"switch"} -> all(Subs(s), frame(s.k))
       [] s.k = "label" -> IF s.b.k \in Loops \union {"switch"} THEN ExitsOf(s.b, path, s.l)
                           ELSE ExitsOf(s.b, Append(path, [k |-> "label", l |-> s.l, at |-> s]), 0)
       [] s.k = "try" -> all(s.b \o s.c, frame(IF s.hf THEN "finally" ELSE "try"))
                           \union all(s.f, frame("finalizer"))
       [] OTHER -> all(Subs(s), path)

(* The structures an exit leaves, outermost first.                         *)
Target(x) ==
  LET hit(f) == IF x.s.k \in {"return", "expr"} THEN FALSE ELSE IF x.s.l # 0 THEN f.l = x.s.l
                ELSE f.k \in Loops \union (IF x.s.k = "break" THEN {"switch"} ELSE {})
      ns == {n \in DOMAIN x.path : hit(x.path[n])}
  IN IF ns = {} THEN 0 ELSE CHOOSE n \in ns : \A m \in ns : m <= n
Crossed(x) == SubSeq(x.path, IF x.s.k = "break" /\ Target(x) > 0 THEN Target(x) ELSE Target(x) + 1, Len(x.path))
Finallies(fs) == {n \in DOMAIN fs : fs[n].k = "finally"}

(* Every later exit from a region whose finalizer an exit has copied skips *)
(* it (run_finally_copies pops for good).                                  *)
OneExitPerRegion(p) ==
  LET xs == {x \in ExitsOf(p, <<>>, 0) : Finallies(Crossed(x)) # {}}
      outer(x) == x.path[CHOOSE n \in Finallies(x.path) : \A m \in Finallies(x.path) : n <= m].at
  IN \A x, y \in xs : outer(x) = outer(y) => x = y
(* Finalizers run before the closes of iterators nested inside them, and a *)
(* close emitted inside a try lies in its range; a generator returned into *)
(* leaves its iterators open.                                              *)
ClosesOutsideTry(p) ==
  \A x \in ExitsOf(p, <<>>, 0) :
    LET ks == {Crossed(x)[n].k : n \in DOMAIN Crossed(x)}
    IN "forof" \in ks => x.s.k # "expr" /\ ks \cap {"try", "finally"} = {}
(* An unlabelled exit does not find a loop that has a label.               *)
LabelsMatch(p) ==
  \A x \in ExitsOf(p, <<>>, 0) : x.s.k \in {"return", "expr"} \/ x.s.l # 0 \/ Target(x) = 0 \/ x.path[Target(x)].l = 0
(* A copied finalizer lies inside the range it protects, and its own exits *)
(* do not see the outer finalizers.                                        *)
QuietFinalizers(p) ==
  \A s \in AllStmts(p) : s.k = "try" /\ s.hf =>
     \A n \in DOMAIN s.f : \A t \in AllStmts(s.f[n]) :
        t.k \notin {"throw", "forof", "try", "return", "break", "continue"} /\ (t.k = "expr" => t = N(t.e.id))

Faithful(p) == OneExitPerRegion(p) /\ ClosesOutsideTry(p) /\ LabelsMatch(p) /\ QuietFinalizers(p)

AllPrograms == {p \in Nests \union DeepNests : Faithful(p)} \union Scopes \union Expressions
=============================================================================
