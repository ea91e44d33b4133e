--------------------------- MODULE DispatcherClaims ---------------------------
(***************************************************************************)
(* What a comment of the repository says of the dispatcher, as a property   *)
(* of AgentDispatcher.                                                      *)
(***************************************************************************)
EXTENDS AgentDispatcher

(* dispatcher.rs: "processes queued requests FIFO": a request that was      *)
(* pushed and notified leaves the queue.                                    *)
QueueDrains == \A r \in Requests : pc[r] = "done" ~> ~InQueue(r)
=============================================================================
