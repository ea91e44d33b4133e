----------------------------- MODULE MCSandbox -----------------------------
(* The instance of SandboxManager that TLC checks. *)
EXTENDS SandboxManager, TLC

CONSTANTS h1, h2

\* h2 is a nested directory whose last component is that of h1.
MCBase == (h1 :> h1) @@ (h2 :> h1)

Symmetric == Permutations(Callers) \union Permutations(Profiles)
=============================================================================
