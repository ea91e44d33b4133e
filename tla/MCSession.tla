----------------------------- MODULE MCSession -----------------------------
(* The instance of SessionLog that TLC checks. *)
EXTENDS SessionLog, TLC

Symmetric == Permutations(Runs) \union Permutations(Instances)
=============================================================================
