------------------------------ MODULE MCControl ------------------------------
(* Model-checking instance of ControlPlane.                                  *)
EXTENDS ControlPlane
=============================================================================
