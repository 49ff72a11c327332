-------------------------- MODULE PromiseContract --------------------------
(***************************************************************************)
(* What `then` promises a program.  A promise settles at most once.  A      *)
(* reaction registered on it waits until it settles and is then due; due   *)
(* reactions run one by one, in the order in which they became due, and    *)
(* those of one promise become due in the order they were registered.      *)
(***************************************************************************)
EXTENDS Sequences, Naturals

CONSTANTS Promises, Outcomes

VARIABLES
    outcome,   \* outcome[p]: <<>> while p is pending
    waiting,   \* waiting[p]: the reactions registered on p while it is pending
    due,       \* the reactions of settled promises that have not run
    known      \* every reaction ever registered, named by its derived promise

vars == <<outcome, waiting, due, known>>

Init ==
    /\ outcome = [p \in Promises |-> <<>>]
    /\ waiting = [p \in Promises |-> <<>>]
    /\ due = <<>>
    /\ known = {}

Register(p, d) ==
    /\ d \notin known
    /\ known' = known \cup {d}
    /\ IF outcome[p] = <<>>
       THEN waiting' = [waiting EXCEPT ![p] = Append(@, d)] /\ due' = due
       ELSE due' = Append(due, d) /\ waiting' = waiting
    /\ UNCHANGED outcome

\* p settles as o; its reactions become due behind those in q.
Settle(p, o, q) ==
    /\ outcome[p] = <<>>
    /\ outcome' = [outcome EXCEPT ![p] = o]
    /\ waiting' = [waiting EXCEPT ![p] = <<>>]
    /\ due' = q \o waiting[p]
    /\ UNCHANGED known

Run == due # <<>> /\ due' = Tail(due) /\ UNCHANGED <<outcome, waiting, known>>

\* A reaction without a handler settles its own promise as it runs.
RunAndSettle(o) == due # <<>> /\ Settle(Head(due), o, Tail(due))

Next ==
    \/ \E p, d \in Promises : Register(p, d)
    \/ \E p \in Promises, o \in Outcomes : Settle(p, o, due) \/ RunAndSettle(o)
    \/ Run

Spec == Init /\ [][Next]_vars
=============================================================================
