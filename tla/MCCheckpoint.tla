---------------------------- MODULE MCCheckpoint ----------------------------
(* Instances of Checkpoint for TLC: tasks, and promises script settles. *)
EXTENDS Checkpoint
=============================================================================
