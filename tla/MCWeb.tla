------------------------------- MODULE MCWeb -------------------------------
(* The instance of WebClient that TLC checks. *)
EXTENDS WebClient
=============================================================================
