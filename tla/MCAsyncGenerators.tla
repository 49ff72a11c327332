------------------------- MODULE MCAsyncGenerators -------------------------
(* Instances of AsyncGenerators for TLC. *)
EXTENDS AsyncGenerators
=============================================================================
