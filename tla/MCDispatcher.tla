----------------------------- MODULE MCDispatcher -----------------------------
(* Model-checking instance of AgentDispatcher: requests are interchangeable. *)
EXTENDS AgentDispatcher, TLC

Symmetry == Permutations(Requests) \cup Permutations(Sessions)
=============================================================================
