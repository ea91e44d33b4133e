------------------------------ MODULE MCStream ------------------------------
(* The instance of LlmStream that TLC checks. *)
EXTENDS LlmStream
=============================================================================
