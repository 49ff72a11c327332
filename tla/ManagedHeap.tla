---------------------------- MODULE ManagedHeap -----------------------------
(***************************************************************************)
(* What the heap promises its users, whatever the collector does inside:   *)
(* allocation yields an object that was not there, a payload changes only  *)
(* when the program writes it, and a collection removes exactly the        *)
(* objects no chain of references connects to a root.                      *)
(***************************************************************************)
CONSTANT Handles

VARIABLES
    objs,     \* objs[h]: the handles the live object h refers to
    rooted    \* the rooted handles

Closed(C) == \A h \in C : objs[h] \subseteq C

\* The least set of live objects that contains R and is closed under objs.
Reach(R) == {h \in DOMAIN objs : \A C \in SUBSET DOMAIN objs :
                R \subseteq C /\ Closed(C) => h \in C}

Init == /\ DOMAIN objs \subseteq Handles
        /\ \A h \in DOMAIN objs : objs[h] = {}
        /\ rooted = DOMAIN objs

Alloc(h, P) ==
    /\ h \notin DOMAIN objs
    /\ P \subseteq DOMAIN objs
    /\ objs' = [g \in DOMAIN objs \cup {h} |-> IF g = h THEN P ELSE objs[g]]
    /\ UNCHANGED rooted

Write(h, P) ==
    /\ h \in DOMAIN objs
    /\ P \subseteq DOMAIN objs
    /\ objs' = [objs EXCEPT ![h] = P]
    /\ UNCHANGED rooted

SetRoots == /\ rooted' \subseteq DOMAIN objs
            /\ UNCHANGED objs

Collect == /\ objs' = [h \in Reach(rooted) |-> objs[h]]
           /\ UNCHANGED rooted

Next == \/ \E h \in Handles, P \in SUBSET DOMAIN objs : Alloc(h, P)
        \/ \E h \in DOMAIN objs, P \in SUBSET DOMAIN objs : Write(h, P)
        \/ SetRoots
        \/ Collect

Spec == Init /\ [][Next]_<<objs, rooted>>
=============================================================================
