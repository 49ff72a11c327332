------------------------------ MODULE Compiled ------------------------------
(***************************************************************************)
(* The compiler and the dispatch loop together, against the meaning of the *)
(* program they run.                                                       *)
(***************************************************************************)
EXTENDS Machine, Completions

CONSTANT Expected(_, _)   \* how a program ends, given the answers it gets

TypeOK ==
  /\ ip \in 0..(Len(Code) + 1)
  /\ DOMAIN regs = 0..(unit.regs - 1)
  /\ env \in 0..Len(envs)
  /\ \A e \in DOMAIN envs : envs[e].parent \in 0..(e - 1)
  /\ mode \in {"next", "return", "throw"}
  /\ Len(hist) <= MaxDecisions /\ Throws <= MaxThrows
  /\ done = <<>> \/ done[1] \in {"return", "throw"}

(* An iterator whose `next` threw is closed all the same, and yield* does  *)
(* not pass a throw on to the inner iterator: known departures from the    *)
(* language, and such runs are not compared.                               *)
NotCompared == \E n \in DOMAIN hist : hist[n][1] \in {"next", "delegate"} /\ hist[n][3] = "throw"

(* What the closures would read now: the flag of a binding follows it.     *)
Held == [n \in DOMAIN caps |->
           LET slots == envs[caps[n][1]].slots
           IN IF Nullish(slots[caps[n][2] + 1]) THEN Uninit ELSE slots[caps[n][2]]]

(* The compiled code of every program asks the questions its source asks,  *)
(* in that order, and ends as the source does: finalizers run once on each *)
(* path, iterators are closed exactly when left early, jumps leave the     *)
(* statements they name, closures hold the binding of their iteration.     *)
RunsAsWritten ==
  (done # <<>> /\ ~NotCompared) =>
    LET m == Expected(prog, hist)
    IN /\ <<m.k, m.v>> = done
       /\ m.used = Len(hist)
       /\ m.held = Held

(* Handler ranges nest, and a range inside another delivers into a higher  *)
(* register than the outer one, so a delivery never overwrites a register  *)
(* an enclosing handler still needs (the layout unwind relies on).         *)
HandlersNest ==
  \A m, n \in DOMAIN unit.handlers :
    LET g == unit.handlers[m]
        h == unit.handlers[n]
    IN (m < n /\ h.start < g.end) => (h.end <= g.end /\ g.depth < h.depth)

(* Closing is final: an iterator already closed is neither stepped nor     *)
(* closed again before it is reopened, whatever throws on the way.         *)
Since(n) == {m \in (n + 1)..Len(hist) : hist[m][2] = hist[n][2] /\ hist[m][1] \in {"open", "next", "close"}}
ClosedOnce ==
  \A n \in DOMAIN hist : hist[n][1] = "close" /\ Since(n) # {} =>
     hist[CHOOSE m \in Since(n) : \A o \in Since(n) : m <= o][1] = "open"

(* A frame that returns has popped every environment it pushed beyond the  *)
(* unit's own, or closures made later would resolve at the wrong depth.    *)
AtStatementEnd == done # <<>> /\ done[1] = "return" /\ ip > Len(Code)
EnvironmentsBalanced ==
  AtStatementEnd => env = IF unit.slots > 0 THEN 1 ELSE 0
=============================================================================
