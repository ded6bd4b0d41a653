--------------------------- MODULE MCTaskService ----------------------------
(* Instances of TaskService for TLC. *)
EXTENDS TaskService, TLC

Symmetry == Permutations(Tasks) \cup Permutations(Rpcs)
=============================================================================
