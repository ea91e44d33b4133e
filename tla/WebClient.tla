------------------------------ MODULE WebClient ------------------------------
(***************************************************************************)
(* The JSON-RPC client of the web UI (crate vol-llm-ui), the part of        *)
(* GlobalState that follows its connection, and the reconnect loop of the   *)
(* application.  Every step is one task of the browser: a request made by a *)
(* component, the open or close event of a socket, an answer, or the        *)
(* reconnect loop between two of its timers.                                *)
(*                                                                         *)
(* A reconnect swaps in a new socket and leaves the handlers of the old one *)
(* in place, so an old socket that opens or closes late still acts on the   *)
(* client.  agent.subscribe, sent without a callback, is left out; identify, *)
(* sent by a task of its own after each open, is a request like the others. *)
(***************************************************************************)
EXTENDS Integers, FiniteSets

CONSTANTS
    Requests,
    MaxAttempts     \* MAX_ATTEMPTS of the reconnect loop (10 in the code)

ASSUME WebConstants == MaxAttempts \in Nat \ {0}

\* The first socket and one for each attempt.
Sockets == 0..MaxAttempts

VARIABLES
    ready,          \* readyState of every socket
    ws,             \* ClientInner.ws
    state,          \* ClientInner.state
    queue,          \* ClientInner.send_queue
    req,            \* what became of each request; pending: its callback waits
    out,            \* requests on their way to the server, with their socket
    back,           \* answers on their way back
    served,         \* how often the server executed each request (history)
    connected,      \* GlobalState.ws_connected
    reconnecting,   \* GlobalState.reconnecting
    maxed,          \* GlobalState.reconnect_maxed
    attempts,       \* GlobalState.reconnect_attempts
    loop,           \* where the reconnect loop is
    attempt         \* its loop variable

webVars == <<ready, ws, state, queue, req, out, back, served,
          connected, reconnecting, maxed, attempts, loop, attempt>>

socketVars == <<ready, ws, state, queue, out, back, served>>
globalVars == <<connected, reconnecting, maxed, attempts>>
loopVars == <<loop, attempt>>

WebInit ==
    /\ ready = [s \in Sockets |-> IF s = 0 THEN "connecting" ELSE "none"]
    /\ ws = 0
    /\ state = "connecting"
    /\ queue = {}
    /\ req = [r \in Requests |-> "new"]
    /\ out = {}
    /\ back = {}
    /\ served = [r \in Requests |-> 0]
    /\ connected = FALSE
    /\ reconnecting = FALSE
    /\ maxed = FALSE
    /\ attempts = 0
    /\ loop = "waiting"
    /\ attempt = 0

(* -- requests ------------------------------------------------------------------ *)

\* send_raw, then the callback is registered; a refused message fails at once.
Send(r) ==
    /\ req[r] = "new"
    /\ req' = [req EXCEPT ![r] =
            IF ready[ws] \in {"open", "connecting"} THEN "pending" ELSE "failed"]
    /\ out' = IF ready[ws] = "open" THEN out \union {<<r, ws>>} ELSE out
    /\ queue' = IF ready[ws] = "connecting" THEN queue \union {r} ELSE queue
    /\ UNCHANGED <<ready, ws, state, back, served, globalVars, loopVars>>

Serve(r, s) ==
    /\ <<r, s>> \in out
    /\ out' = out \ {<<r, s>>}
    /\ back' = back \union {<<r, s>>}
    /\ served' = [served EXCEPT ![r] = @ + 1]
    /\ UNCHANGED <<ready, ws, state, queue, req, globalVars, loopVars>>

\* handle_message: an answer to a request whose callback is gone is dropped.
Answer(r, s) ==
    /\ <<r, s>> \in back
    /\ ready[s] = "open"
    /\ back' = back \ {<<r, s>>}
    /\ req' = [req EXCEPT ![r] = IF @ = "pending" THEN "ok" ELSE @]
    /\ UNCHANGED <<ready, ws, state, queue, out, served, globalVars, loopVars>>

(* -- socket events --------------------------------------------------------------- *)

\* What the queue becomes when socket s opens and what reaches a server: it is
\* flushed into the current socket, which refuses it unless it is the open one.
Flushed(s) == IF s = ws THEN out \union (queue \X {s}) ELSE out

CopiedQueue(s) == queue    \* mutant

KeptQueue(s) == {}

Opens(s) ==
    /\ ready[s] = "connecting"
    /\ ready' = [ready EXCEPT ![s] = "open"]
    /\ state' = "connected"
    /\ out' = Flushed(s)
    /\ queue' = KeptQueue(s)
    /\ connected' = TRUE
    /\ reconnecting' = FALSE
    /\ maxed' = FALSE
    /\ attempts' = 0
    /\ UNCHANGED <<ws, req, back, served, loopVars>>

\* The closing handshake: the socket refuses messages, its close event follows.
StartsClosing(s) ==
    /\ ready[s] = "open"
    /\ ready' = [ready EXCEPT ![s] = "closing"]
    /\ UNCHANGED <<ws, state, queue, req, out, back, served, globalVars, loopVars>>

NoneFailed == req    \* mutant

AllFailed == [r \in Requests |-> IF req[r] = "pending" THEN "failed" ELSE req[r]]

\* The close event of any socket: every pending callback fails, whichever
\* socket its request went out on, and the queue stays.
Closes(s) ==
    /\ ready[s] \in {"connecting", "open", "closing"}
    /\ ready' = [ready EXCEPT ![s] = "closed"]
    /\ out' = {m \in out : m[2] # s}
    /\ back' = {m \in back : m[2] # s}
    /\ req' = AllFailed
    /\ state' = "disconnected"
    /\ connected' = FALSE
    /\ IF ~reconnecting /\ ~maxed
       THEN reconnecting' = TRUE /\ attempts' = 0
       ELSE UNCHANGED <<reconnecting, attempts>>
    /\ UNCHANGED <<ws, queue, served, maxed, loopVars>>

(* -- the reconnect loop --------------------------------------------------------- *)

BeginAttempt(k) ==
    /\ attempt' = k
    /\ attempts' = k
    /\ loop' = "delay"

LoopBegins ==
    /\ loop = "waiting"
    /\ reconnecting
    /\ ~maxed
    /\ BeginAttempt(1)
    /\ UNCHANGED <<socketVars, req, connected, reconnecting, maxed>>

\* The loop ends for good once it sees a connection.
LoopEnds ==
    /\ \/ loop = "delay" /\ (connected \/ ~reconnecting)
       \/ loop = "watch" /\ connected
    /\ loop' = "ended"
    /\ UNCHANGED <<socketVars, req, globalVars, attempt>>

DelayUnchecked == loop = "delay"    \* mutant

\* Checked after every second of the delay.
DelayOver == loop = "delay" /\ ~connected /\ reconnecting

\* reconnect: the new socket replaces the old one, which is not closed, and
\* nobody is told of the state.
ReconnectSocket ==
    /\ DelayOver
    /\ ws' = attempt
    /\ ready' = [ready EXCEPT ![attempt] = "connecting"]
    /\ state' = "connecting"
    /\ loop' = "watch"
    /\ UNCHANGED <<queue, req, out, back, served, globalVars, attempt>>

\* Five seconds without a connection, with attempts left.
TriesAgain ==
    /\ loop = "watch"
    /\ ~connected
    /\ attempt < MaxAttempts
    /\ BeginAttempt(attempt + 1)
    /\ UNCHANGED <<socketVars, req, connected, reconnecting, maxed>>

GivesUpSilently ==   \* mutant
    /\ loop = "watch"
    /\ ~connected
    /\ attempt = MaxAttempts
    /\ loop' = "ended"
    /\ UNCHANGED <<socketVars, req, connected, reconnecting, maxed, attempts, attempt>>

GivesUpReconnecting ==
    /\ loop = "watch"
    /\ ~connected
    /\ attempt = MaxAttempts
    /\ reconnecting' = FALSE
    /\ maxed' = TRUE
    /\ loop' = "ended"
    /\ UNCHANGED <<socketVars, req, connected, attempts, attempt>>

ReconnectStep == LoopBegins \/ LoopEnds \/ ReconnectSocket \/ TriesAgain \/ GivesUpReconnecting

Settling(s) == ready[s] # "open" /\ (Opens(s) \/ Closes(s))

WebNext ==
    \/ \E r \in Requests :
        \/ Send(r)
        \/ \E s \in Sockets : Serve(r, s) \/ Answer(r, s)
    \/ \E s \in Sockets : Opens(s) \/ StartsClosing(s) \/ Closes(s)
    \/ ReconnectStep

WebSpec == WebInit /\ [][WebNext]_webVars

\* Timers fire; a socket that connects opens or fails, one that is closing
\* closes.  That the server answers while connected is assumed of the server.
WebFairness ==
    /\ WF_webVars(ReconnectStep)
    /\ \A s \in Sockets : WF_webVars(Settling(s))
    /\ \A r \in Requests, s \in Sockets : WF_webVars(Serve(r, s)) /\ WF_webVars(Answer(r, s))

WebFairSpec == WebSpec /\ WebFairness

(* -- properties -------------------------------------------------------------------- *)

WebTypeOK ==
    /\ ready \in [Sockets -> {"none", "connecting", "open", "closing", "closed"}]
    /\ ws \in Sockets /\ ready[ws] # "none"
    /\ state \in {"connecting", "connected", "disconnected"}
    /\ queue \subseteq Requests
    /\ req \in [Requests -> {"new", "pending", "ok", "failed"}]
    /\ out \subseteq Requests \X Sockets /\ back \subseteq Requests \X Sockets
    /\ served \in [Requests -> Nat]
    /\ connected \in BOOLEAN /\ reconnecting \in BOOLEAN /\ maxed \in BOOLEAN
    /\ attempts \in 0..MaxAttempts /\ attempt \in 0..MaxAttempts
    /\ loop \in {"waiting", "delay", "watch", "ended"}

(* However often the connection is lost while messages wait in the queue, a   *)
(* request reaches a server at most once.                                     *)
ServedOnce == \A r \in Requests : served[r] <= 1

(* The status bar shows a connection only while some socket is up, although   *)
(* sockets that the reconnect loop gave up on may open and close late.        *)
ConnectedHasSocket ==
    connected => \E s \in Sockets : ready[s] \in {"open", "closing"}

(* reconnect sets the client's state without telling anyone: the client and   *)
(* the application nevertheless agree on whether there is a connection.       *)
StateAgrees == connected <=> state = "connected"

Lost(r) ==
    /\ req[r] = "pending"
    /\ r \notin queue
    /\ \A s \in Sockets : <<r, s>> \notin out \union back

(* Every callback is called in the end; the exception are requests that an    *)
(* old socket, opening late, flushed into one that is still connecting.       *)
CallbacksCalled == \A r \in Requests : req[r] = "pending" ~> (req[r] # "pending" \/ Lost(r))

(* While the reconnect loop is alive, a lost connection is restored or the    *)
(* user is told that it will not be.                                          *)
ReconnectSettles == (reconnecting /\ loop # "ended") ~> (connected \/ maxed)

(* Client and application agree with each other and with the sockets.         *)
ClientOK == WebTypeOK /\ ConnectedHasSocket /\ StateAgrees
=============================================================================
