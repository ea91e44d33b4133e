----------------------------- MODULE WebClaims -----------------------------
(* What the web application's comments say of WebClient. *)
EXTENDS WebClient

(* "Start reconnect loop if not already reconnecting and not maxed"           *)
(* (web/components/app.rs:387): a lost connection is restored, or the user is *)
(* told that it will not be.                                                  *)
LostIsReconnected == reconnecting ~> (connected \/ maxed)
=============================================================================
