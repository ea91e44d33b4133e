------------------------------- MODULE MCMcp -------------------------------
(* The instance of McpManager that TLC checks. *)
EXTENDS McpManager
=============================================================================
