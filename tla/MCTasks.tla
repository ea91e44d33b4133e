------------------------------ MODULE MCTasks ------------------------------
(* The instance of TaskBoard that TLC checks. *)
EXTENDS TaskBoard, TLC

Symmetric == Permutations(Workers)
=============================================================================
