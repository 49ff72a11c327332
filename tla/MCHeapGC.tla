------------------------------ MODULE MCHeapGC ------------------------------
(***************************************************************************)
(* Instances of HeapGC for TLC: two spaces, objects and shapes.  Capacities *)
(* differ: many object slots make the sweep interesting, a third shape slot *)
(* the weak transition edges.                                              *)
(***************************************************************************)
EXTENDS HeapGC, TLC

CONSTANTS objects, shapes, ObjectSlots, ShapeSlots
MCSpaces == {objects, shapes}
MCCap == (objects :> ObjectSlots) @@ (shapes :> ShapeSlots)
=============================================================================
