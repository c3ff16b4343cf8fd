---------------------------- MODULE MCTaskQueue ----------------------------
(***************************************************************************)
(* Instances of TaskQueue for TLC. The task names are interchangeable; the *)
(* slots are not, the model takes the first free one.                      *)
(***************************************************************************)
EXTENDS TaskQueue, TLC

Symmetry == Permutations(Tasks)
=============================================================================
