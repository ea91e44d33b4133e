----------------------------- MODULE McpManager -----------------------------
(***************************************************************************)
(* McpManager (crate vol-llm-mcp) for one MCP server that several agents of *)
(* a node share: runs reconnect it at their start and disconnect it at      *)
(* their end, tool calls reconnect it on demand, clients ask for a          *)
(* reconnect, and every failed connect spawns a background reconnect loop.  *)
(*                                                                         *)
(* A step is one critical section of the servers lock or one await outside  *)
(* it.  Cancellation tokens are told apart by what became of them: the      *)
(* state holds the "current" one; a token that connect_server replaced is   *)
(* "stale" and nobody can cancel it any more; the rest were "cancelled" by  *)
(* a reconnect loop or "cut" by a disconnect or a client's reconnect.       *)
(* A server process that ends by itself leaves no trace in this state.      *)
(***************************************************************************)
EXTENDS Integers, FiniteSets

CONSTANTS
    Users,          \* runs and clients
    Loops,          \* slots for reconnect loops (bound: loops at one time)
    MaxRetries,     \* McpManager.max_retries
    MaxOps          \* bound: operations

ASSUME McpConstants ==
    /\ MaxRetries \in Nat \ {0}
    /\ MaxOps \in Nat
    /\ Users \cap Loops = {}
    /\ "service" \notin Users \union Loops

VARIABLES
    status,     \* ServerState.status
    retry,      \* ServerState.retry_count
    service,    \* ServerState.running_service is Some
    token,      \* the token each user, loop and the service holds
    pc,         \* where each user and loop is
    inRun,      \* users inside a run of theirs
    ops         \* operations begun

vars == <<status, retry, service, token, pc, inRun, ops>>

Actors == Users \union Loops
Holders == Actors \union {"service"}
Statuses == {"connected", "disconnected", "connecting", "error", "missing", "delayed", "exhausted"}
UserPlaces == {"idle", "reset", "connect", "init", "list", "reading"}
LoopPlaces == {"free", "top", "sleep", "init", "list"}

Init ==
    /\ status = "disconnected"
    /\ retry = 0
    /\ service = FALSE
    /\ token = [h \in Holders |-> "none"]
    /\ pc = [a \in Actors |-> IF a \in Users THEN "idle" ELSE "free"]
    /\ inRun = {}
    /\ ops = 0

(* -- the lock and the tokens ------------------------------------------------ *)

\* read_resource, get_prompt and complete_prompt wait for the server with the
\* read lock held; every step that changes the state needs the write lock.
Writable == \A u \in Users : pc[u] # "reading"

NotReplaced(a, fate) == [token EXCEPT ![a] = "current"]   \* mutant

\* What holders of the current token hold once it is replaced, and the new
\* token goes to a.
Replaced(a, fate) ==
    [h \in Holders |-> IF h = a THEN "current"
                       ELSE IF token[h] = "current" THEN fate ELSE token[h]]

Cut == [h \in Holders |-> IF token[h] = "current" THEN "cut" ELSE token[h]]

IsCancelled(a) == token[a] \in {"cancelled", "cut"}

(* -- connect_server and connect_single ------------------------------------- *)

Goto(a, place) == pc' = [pc EXCEPT ![a] = place]

\* reconnect_all and call_tool reset the counter in a section of its own.
ResetRetries(u) ==
    /\ pc[u] = "reset"
    /\ Writable
    /\ retry' = 0
    /\ Goto(u, "connect")
    /\ UNCHANGED <<status, service, token, inRun, ops>>

\* A new token; the old one is not cancelled.
BeginConnect(u) ==
    /\ pc[u] = "connect"
    /\ Writable
    /\ status' = "connecting"
    /\ token' = Replaced(u, "stale")
    /\ Goto(u, "init")
    /\ UNCHANGED <<retry, service, inRun, ops>>

\* serve_with_ct performs the handshake unless its token is cancelled; the
\* capabilities are listed afterwards, and a failure there is only logged.
Handshake(a) ==
    /\ pc[a] = "init"
    /\ ~IsCancelled(a)
    /\ Goto(a, "list")
    /\ UNCHANGED <<status, retry, service, token, inRun, ops>>

\* The new service takes the place of the old one, with the token it was
\* started with; a token cancelled by then leaves it "cut" from the start.
Install(a, next) ==
    /\ pc[a] = "list"
    /\ Writable
    /\ status' = "connected"
    /\ retry' = 0
    /\ service' = TRUE
    /\ token' = [token EXCEPT !["service"] = IF IsCancelled(a) THEN "cut" ELSE token[a],
                             ![a] = "none"]
    /\ Goto(a, next)
    /\ UNCHANGED <<inRun, ops>>

Connected(u) == u \in Users /\ Install(u, "idle")

\* spawn_reconnect: a task of its own; a loop that already runs is not asked.
Spawn(u, l) ==
    /\ pc[l] = "free"
    /\ pc' = [pc EXCEPT ![u] = "idle", ![l] = "top"]

ConnectFails(u) ==
    /\ pc[u] = "init"
    /\ Writable
    /\ token' = [token EXCEPT ![u] = "none"]
    /\ retry' = retry + 1
    /\ status' = IF retry + 1 >= MaxRetries THEN "delayed" ELSE "error"
    /\ \E l \in Loops : Spawn(u, l)
    /\ UNCHANGED <<service, inRun, ops>>

\* "No such file or directory": no retry.
BinaryMissing(u) ==
    /\ pc[u] = "init"
    /\ Writable
    /\ token' = [token EXCEPT ![u] = "none"]
    /\ status' = "missing"
    /\ Goto(u, "idle")
    /\ UNCHANGED <<retry, service, inRun, ops>>

(* -- spawn_reconnect ----------------------------------------------------------- *)

GivesUp == retry >= MaxRetries

LoopTop(l) ==
    /\ pc[l] = "top"
    /\ Writable
    /\ IF GivesUp
       THEN /\ status' = "exhausted"
            /\ Goto(l, "free")
            /\ UNCHANGED token
       ELSE /\ token' = Replaced(l, "cancelled")
            /\ Goto(l, "sleep")
            /\ UNCHANGED status
    /\ UNCHANGED <<retry, service, inRun, ops>>

LoopWakes(l) ==
    /\ pc[l] = "sleep"
    /\ Goto(l, "init")
    /\ UNCHANGED <<status, retry, service, token, inRun, ops>>

LoopQuits(l) ==   \* mutant
    /\ pc[l] = "sleep"
    /\ token' = [token EXCEPT ![l] = "none"]
    /\ Goto(l, "free")
    /\ UNCHANGED <<status, retry, service, inRun, ops>>

\* The select of the sleep sees the cancellation; a later one goes unseen.
LoopCancelled(l) ==
    /\ pc[l] = "sleep"
    /\ IsCancelled(l)
    /\ token' = [token EXCEPT ![l] = "none"]
    /\ Goto(l, "free")
    /\ UNCHANGED <<status, retry, service, inRun, ops>>

LoopConnected(l) == l \in Loops /\ Install(l, "free")

FailsUncounted(l) ==   \* mutant
    /\ pc[l] \in {"init", "list"}
    /\ Writable
    /\ token' = [token EXCEPT ![l] = "none"]
    /\ status' = "error"
    /\ Goto(l, "top")
    /\ UNCHANGED <<retry, service, inRun, ops>>

\* An error or the ten second timeout, also after the handshake.
LoopFails(l) ==
    /\ pc[l] \in {"init", "list"}
    /\ Writable
    /\ retry' = retry + 1
    /\ token' = [token EXCEPT ![l] = "none"]
    /\ IF retry + 1 >= MaxRetries
       THEN status' = "exhausted" /\ Goto(l, "free")
       ELSE status' = "error" /\ Goto(l, "top")
    /\ UNCHANGED <<service, inRun, ops>>

(* -- what users do --------------------------------------------------------------- *)

Begin(u) ==
    /\ pc[u] = "idle"
    /\ ops < MaxOps
    /\ ops' = ops + 1

\* run_input: reconnect_all skips a server that is connected.
RunStarts(u) ==
    /\ Begin(u)
    /\ u \notin inRun
    /\ inRun' = inRun \union {u}
    /\ Goto(u, IF status = "connected" THEN "idle" ELSE "reset")
    /\ UNCHANGED <<status, retry, service, token>>

\* call_tool: reconnect first if not connected; the call itself waits for the
\* server without the lock and leaves the state alone.
CallTool(u) ==
    /\ Begin(u)
    /\ u \in inRun
    /\ status # "connected"
    /\ Goto(u, "reset")
    /\ UNCHANGED <<status, retry, service, token, inRun>>

\* A request that holds the read lock until the server answers.
ReadResource(u) ==
    /\ Begin(u)
    /\ status = "connected"
    /\ service
    /\ Goto(u, "reading")
    /\ UNCHANGED <<status, retry, service, token, inRun>>

Answered(u) ==
    /\ pc[u] = "reading"
    /\ Goto(u, "idle")
    /\ UNCHANGED <<status, retry, service, token, inRun, ops>>

EndsConnected(u) ==   \* mutant
    /\ pc[u] = "idle"
    /\ u \in inRun
    /\ Writable
    /\ inRun' = inRun \ {u}
    /\ token' = [Cut EXCEPT !["service"] = "none"]
    /\ service' = FALSE
    /\ UNCHANGED <<status, retry, pc, ops>>

\* disconnect at the end of a run: the token, the service, the status.
RunEnds(u) ==
    /\ pc[u] = "idle"
    /\ u \in inRun
    /\ Writable
    /\ inRun' = inRun \ {u}
    /\ token' = [Cut EXCEPT !["service"] = "none"]
    /\ service' = FALSE
    /\ status' = "disconnected"
    /\ UNCHANGED <<retry, pc, ops>>

\* reconnect: the service is closed if connected, the status stays until
\* connect_server takes the lock again.
Reconnect(u) ==
    /\ Begin(u)
    /\ Writable
    /\ retry' = 0
    /\ token' = IF status = "connected" THEN [Cut EXCEPT !["service"] = "none"] ELSE Cut
    /\ service' = (service /\ status # "connected")
    /\ Goto(u, "connect")
    /\ UNCHANGED <<status, inRun>>

Proceeds(u) ==
    \/ ResetRetries(u)
    \/ BeginConnect(u)
    \/ Handshake(u)
    \/ Connected(u)
    \/ ConnectFails(u)
    \/ BinaryMissing(u)
    \/ Answered(u)

LoopStep(l) ==
    \/ LoopTop(l)
    \/ LoopWakes(l)
    \/ LoopCancelled(l)
    \/ Handshake(l)
    \/ LoopConnected(l)
    \/ LoopFails(l)

UserStep(u) ==
    \/ Proceeds(u)
    \/ RunStarts(u)
    \/ CallTool(u)
    \/ ReadResource(u)
    \/ RunEnds(u)
    \/ Reconnect(u)

Next ==
    \/ \E u \in Users : UserStep(u)
    \/ \E l \in Loops : LoopStep(l)

Spec == Init /\ [][Next]_vars

\* Tasks are scheduled; the handshake has a timeout, and so has a whole attempt
\* of a loop.  That the server answers the listing that follows the handshake in
\* connect_server, and a request with the lock held, is assumed of it.
Fairness ==
    /\ \A u \in Users : WF_vars(Proceeds(u))
    /\ \A l \in Loops : WF_vars(LoopStep(l))

FairSpec == Spec /\ Fairness

(* -- properties ------------------------------------------------------------------- *)

TypeOK ==
    /\ status \in Statuses
    /\ retry \in Nat
    /\ service \in BOOLEAN
    /\ token \in [Holders -> {"none", "current", "stale", "cancelled", "cut"}]
    /\ pc \in [Actors -> UserPlaces \union LoopPlaces]
    /\ \A u \in Users : pc[u] \in UserPlaces
    /\ \A l \in Loops : pc[l] \in LoopPlaces
    /\ inRun \subseteq Users
    /\ ops \in 0..MaxOps

(* A server listed as connected has a service, but for the moment between a  *)
(* client's reconnect closing it and connect_server setting the status.      *)
ConnectedHasService ==
    status = "connected" => service \/ \E u \in Users : pc[u] = "connect"

LiveLoop(l) == pc[l] \in {"top", "init", "list"} \/ (pc[l] = "sleep" /\ ~IsCancelled(l))

(* A server listed as connected whose service a reconnect loop cancelled (it  *)
(* cancels whatever token the state holds) is being reconnected by a live    *)
(* loop.  Nobody repairs a service whose token was cancelled while it was     *)
(* being started: it is listed as connected and every call to it fails.      *)
DeadIsRepaired ==
    (status = "connected" /\ token["service"] = "cancelled") =>
        \E l \in Loops : LiveLoop(l)

(* At most one loop sleeps on a token that can still be cancelled, so loops  *)
(* that pile up (every failed connect_server spawns one) are those a later   *)
(* connect_server orphaned.                                                  *)
OneCancellableLoop ==
    \A l, m \in Loops : (token[l] = "current" /\ token[m] = "current") => l = m

(* Every reconnect loop ends, also loops that keep cancelling each other's   *)
(* attempts: each failure counts against max_retries.                        *)
LoopsEnd == \A l \in Loops : pc[l] # "free" ~> pc[l] = "free"

(* A connect that failed is followed up: the server does not stay in error   *)
(* with retries left.                                                        *)
ErrorsSettle == status = "error" ~> status # "error"

(* The loops are where the code can put them, and those that pile up cannot  *)
(* be cancelled but for one.                                                 *)
LoopsOK == TypeOK /\ OneCancellableLoop

(* Whatever fails, the manager comes to rest.                                *)
Settles == LoopsEnd /\ ErrorsSettle
=============================================================================
