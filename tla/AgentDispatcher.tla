--------------------------- MODULE AgentDispatcher ---------------------------
(***************************************************************************)
(* One agent of the data plane: the agent.submit / agent.cancel handlers,   *)
(* the FIFO dispatcher in front of the agent, the shell of                  *)
(* ReActAgent::run_input around the spawned agent task, and the listener    *)
(* that keeps the agent's public status.                                    *)
(*                                                                          *)
(* Every message is handled by its own spawned task, `submit` pushes from   *)
(* another spawned task, and the agent task outlives the future that        *)
(* spawned it: the module has one action per stretch of code between two    *)
(* points at which another task or thread can run.                          *)
(***************************************************************************)
EXTENDS Queues, FiniteSets

CONSTANTS
    Requests,    \* the agent.submit messages clients may send
    Sessions,    \* the session ids a client may name in metadata.session_id
    RunIds,      \* the run ids a client may supply in input.run_id
    None,        \* absent value (no session id, no run id, no current request)
    Discipline   \* when clients send: see MaySubmit

ASSUME DispatcherAssumption ==
    /\ None \notin Requests
    /\ None \notin Sessions
    /\ None \notin RunIds
    /\ Discipline \in {"pipelined", "sequential", "polling"}

VARIABLES
    pc,             \* progress of the handler and of the enqueue task of a request
    input,          \* the AgentInput of a request, None before it is received
    lastSession,    \* AgentHandler.agent_last_session of the agent
    session,        \* AgentConfig.session (None: the session made at registration)
    contextSession, \* the session the "session" context contributor reads
    isRunning,      \* RunningState.is_running
    queue,          \* DispatcherState.queue
    permit,         \* the permit stored in DispatcherState.notify
    lpc,            \* where run_loop is
    cur,            \* the request run_loop executes
    run,            \* the agent task spawned for a request
    runSession,     \* the session its RunContext captured
    events,         \* status events the holder's listener has yet to see
    listening,      \* the requests whose listener task is alive
    status,         \* agent_status: the run shown as running, None when idle
    ended,          \* requests whose final event was forwarded to the client
    lagged,         \* history: requests whose listener ended on a Lagged error
    outcome,        \* what the request's result channel carried
    cancelReply     \* the CancelResult sent for a run id

hvars == <<pc, input, lastSession>>
svars == <<session, contextSession>>
qvars == <<queue, permit, lpc, cur>>
rvars == <<isRunning, run, runSession>>
evars == <<events, listening, status, ended, lagged>>
vars == <<hvars, svars, qvars, rvars, evars, outcome, cancelReply>>

-----------------------------------------------------------------------------
AgentInputs == [sid : Sessions \cup {None}, runId : RunIds \cup {None}, empty : BOOLEAN]

HandlerSteps == {"unsent", "compare", "check", "write", "replace", "remember",
                 "send", "push", "notify", "done"}

LoopSteps == {"top", "waiting", "pop", "enter", "connect", "persist", "await", "join"}

RunStates == {"none", "spawned", "live", "ok", "aborted", "failed", "panicked"}

Outcomes == {"none", "cancelled", "already_running", "invalid_input", "persist_failed",
             "ok", "aborted", "failed", "panicked", "timeout_unguarded", "timeout"}

Init ==
    /\ pc = [r \in Requests |-> "unsent"]
    /\ input = [r \in Requests |-> None]
    /\ lastSession = None
    /\ session = None
    /\ contextSession = None
    /\ isRunning = FALSE
    /\ queue = <<>>
    /\ permit = FALSE
    /\ lpc = "top"
    /\ cur = None
    /\ run = [r \in Requests |-> "none"]
    /\ runSession = [r \in Requests |-> None]
    /\ events = [r \in Requests |-> <<>>]
    /\ listening = {}
    /\ status = None
    /\ ended = {}
    /\ lagged = {}
    /\ outcome = [r \in Requests |-> "none"]
    /\ cancelReply = [i \in RunIds |-> "none"]

-----------------------------------------------------------------------------
(* agent.status: the status map first, the busy lock of the dispatcher when *)
(* the map does not say "running".                                          *)
Busy == lpc \notin {"top", "waiting", "pop"}

StatusReply == IF status # None \/ Busy THEN "running" ELSE "idle"

(* Clients. A pipelined one sends at any time; a sequential one waits for   *)
(* the final event of everything it sent; a polling one also waits until    *)
(* agent.status answers "idle".                                             *)
MaySubmit ==
    \/ Discipline = "pipelined"
    \/ /\ \A r \in Requests : pc[r] = "unsent" \/ r \in ended
       /\ Discipline = "polling" => StatusReply = "idle"

-----------------------------------------------------------------------------
(* The agent.submit handler.                                                *)

Receive(r, in) ==
    /\ pc[r] = "unsent"
    /\ MaySubmit
    /\ pc' = [pc EXCEPT ![r] = "compare"]
    /\ input' = [input EXCEPT ![r] = in]
    /\ UNCHANGED <<lastSession, svars, qvars, rvars, evars, outcome, cancelReply>>

FirstSessionOnly(r) == input[r].sid # None /\ lastSession = None   \* mutant

SessionChanged(r) == input[r].sid # None /\ input[r].sid # lastSession

CompareSession(r) ==
    /\ pc[r] = "compare"
    /\ pc' = [pc EXCEPT ![r] = IF SessionChanged(r) THEN "check" ELSE "send"]
    /\ UNCHANGED <<input, lastSession, svars, qvars, rvars, evars, outcome, cancelReply>>

(* set_session reads is_running, then writes the session, then replaces the *)
(* contributor, each under a lock of its own.                               *)
SetSessionCheck(r) ==
    /\ pc[r] = "check"
    /\ pc' = [pc EXCEPT ![r] = IF isRunning THEN "remember" ELSE "write"]
    /\ UNCHANGED <<input, lastSession, svars, qvars, rvars, evars, outcome, cancelReply>>

SetSessionWrite(r) ==
    /\ pc[r] = "write"
    /\ session' = input[r].sid
    /\ pc' = [pc EXCEPT ![r] = "replace"]
    /\ UNCHANGED <<input, lastSession, contextSession, qvars, rvars, evars, outcome, cancelReply>>

SetSessionReplace(r) ==
    /\ pc[r] = "replace"
    /\ contextSession' = input[r].sid
    /\ pc' = [pc EXCEPT ![r] = "remember"]
    /\ UNCHANGED <<input, lastSession, session, qvars, rvars, evars, outcome, cancelReply>>

(* A refused swap is only logged: the id is remembered all the same.        *)
RememberSession(r) ==
    /\ pc[r] = "remember"
    /\ lastSession' = input[r].sid
    /\ pc' = [pc EXCEPT ![r] = "send"]
    /\ UNCHANGED <<input, svars, qvars, rvars, evars, outcome, cancelReply>>

(* router.send: submit spawns the enqueue task, the client is told          *)
(* accepted = true.                                                         *)
Submit(r) ==
    /\ pc[r] = "send"
    /\ pc' = [pc EXCEPT ![r] = "push"]
    /\ UNCHANGED <<input, lastSession, svars, qvars, rvars, evars, outcome, cancelReply>>

PushedFront(r) == <<r>> \o queue   \* mutant

Enqueued(r) == Append(queue, r)

PushBack(r) ==
    /\ pc[r] = "push"
    /\ queue' = Enqueued(r)
    /\ pc' = [pc EXCEPT ![r] = "notify"]
    /\ UNCHANGED <<input, lastSession, svars, permit, lpc, cur, rvars, evars, outcome, cancelReply>>

NotifyWaiters(r) ==   \* mutant: no permit is stored
    /\ pc[r] = "notify"
    /\ lpc' = IF lpc = "waiting" THEN "pop" ELSE lpc
    /\ pc' = [pc EXCEPT ![r] = "done"]
    /\ UNCHANGED <<input, lastSession, svars, queue, permit, cur, rvars, evars, outcome, cancelReply>>

(* Notify::notify_one wakes the waiting loop or stores the one permit.      *)
NotifyOne(r) ==
    /\ pc[r] = "notify"
    /\ IF lpc = "waiting" THEN lpc' = "pop" /\ UNCHANGED permit
                          ELSE permit' = TRUE /\ UNCHANGED lpc
    /\ pc' = [pc EXCEPT ![r] = "done"]
    /\ UNCHANGED <<input, lastSession, svars, queue, cur, rvars, evars, outcome, cancelReply>>

(* agent.cancel: the first queued request that carries the run id.          *)
WithoutFront(i) == Tail(queue)   \* mutant

Without(i) == Cut(queue, i)

Matches(i, id) == input[queue[i]].runId = id

Cancel(id) ==
    /\ cancelReply[id] = "none"
    /\ \/ \E i \in 1..Len(queue) :
             /\ Matches(i, id)
             /\ \A j \in 1..(i - 1) : ~Matches(j, id)
             /\ queue' = Without(i)
             /\ outcome' = [outcome EXCEPT ![queue[i]] = "cancelled"]
             /\ cancelReply' = [cancelReply EXCEPT ![id] = "true"]
       \/ /\ \A i \in 1..Len(queue) : ~Matches(i, id)
          /\ cancelReply' = [cancelReply EXCEPT ![id] = "false"]
          /\ UNCHANGED <<queue, outcome>>
    /\ UNCHANGED <<hvars, svars, permit, lpc, cur, rvars, evars>>

-----------------------------------------------------------------------------
(* The dispatcher's background loop.                                        *)

Notified ==
    /\ lpc = "top"
    /\ lpc' = IF permit THEN "pop" ELSE "waiting"
    /\ permit' = FALSE
    /\ UNCHANGED <<hvars, svars, queue, cur, rvars, evars, outcome, cancelReply>>

PopFront ==
    /\ lpc = "pop"
    /\ IF queue = <<>>
       THEN lpc' = "top" /\ UNCHANGED <<queue, cur>>
       ELSE /\ cur' = Head(queue)
            /\ queue' = Tail(queue)
            /\ lpc' = "enter"
    /\ UNCHANGED <<hvars, svars, permit, rvars, evars, outcome, cancelReply>>

(* run_input returns `o`: the result goes to the caller, the loop turns.    *)
Return(o) ==
    /\ outcome' = [outcome EXCEPT ![cur] = o]
    /\ cur' = None
    /\ lpc' = "top"
    /\ UNCHANGED <<queue, permit>>

(* The re-entrancy guard.                                                   *)
EnterRun ==
    /\ lpc = "enter"
    /\ IF isRunning
       THEN Return("already_running") /\ UNCHANGED isRunning
       ELSE isRunning' = TRUE /\ lpc' = "connect" /\ UNCHANGED <<queue, permit, cur, outcome>>
    /\ UNCHANGED <<hvars, svars, run, runSession, evars, cancelReply>>

(* MCP servers are connected, the input converted; only then does           *)
(* RunningGuard exist. RunContext::new captures the session.                *)
BeginRun ==
    /\ lpc = "connect"
    /\ IF input[cur].empty
       THEN Return("invalid_input") /\ UNCHANGED runSession
       ELSE /\ runSession' = [runSession EXCEPT ![cur] = session]
            /\ lpc' = "persist"
            /\ UNCHANGED <<queue, permit, cur, outcome>>
    /\ UNCHANGED <<hvars, svars, isRunning, run, evars, cancelReply>>

(* The user message is persisted, the listeners and the agent task spawned. *)
PersistInput ==
    /\ lpc = "persist"
    /\ \/ /\ Return("persist_failed")
          /\ isRunning' = FALSE
          /\ UNCHANGED <<run, listening>>
       \/ /\ run' = [run EXCEPT ![cur] = "spawned"]
          /\ listening' = listening \cup {cur}
          /\ lpc' = "await"
          /\ UNCHANGED <<isRunning, queue, permit, cur, outcome>>
    /\ UNCHANGED <<hvars, svars, runSession, events, status, ended, lagged, cancelReply>>

(* Dropping the JoinSet aborts the listener and what it had not read.       *)
AbortListener ==
    /\ listening' = listening \ {cur}
    /\ events' = [events EXCEPT ![cur] = <<>>]
    /\ UNCHANGED <<status, ended, lagged>>

TaskStarted(r) == run[r] # "spawned"   \* mutant

TaskOver(r) == run[r] \in {"ok", "aborted", "failed", "panicked"}

AgentTaskJoined ==
    /\ lpc = "await"
    /\ TaskOver(cur)
    /\ IF run[cur] = "panicked"
       THEN Return("panicked") /\ isRunning' = FALSE /\ AbortListener
       ELSE lpc' = "join" /\ UNCHANGED <<isRunning, queue, permit, cur, outcome, evars>>
    /\ UNCHANGED <<hvars, svars, run, runSession, cancelReply>>

NotDrained == TRUE   \* mutant

Drained == events[cur] = <<>>

(* The listener has read everything and ended, MCP is disconnected.         *)
ListenersJoined ==
    /\ lpc = "join"
    /\ Drained
    /\ listening' = listening \ {cur}
    /\ Return(run[cur])
    /\ isRunning' = FALSE
    /\ UNCHANGED <<hvars, svars, run, runSession, events, status, ended, lagged, cancelReply>>

GuardAfterSpawn == lpc \in {"await", "join"}   \* mutant

HoldsGuard == lpc \in {"persist", "await", "join"}

(* 300 s are over: run_input is dropped where it stands. The guard resets   *)
(* is_running if it exists; the agent task is detached, not stopped.        *)
Timeout ==
    /\ lpc \in {"connect", "persist", "await", "join"}
    /\ Return(IF lpc = "connect" THEN "timeout_unguarded" ELSE "timeout")
    /\ isRunning' = (isRunning /\ ~HoldsGuard)
    /\ AbortListener
    /\ UNCHANGED <<hvars, svars, run, runSession, cancelReply>>

-----------------------------------------------------------------------------
(* The spawned agent task and the holder's listener.                        *)

Emit(r, es) ==
    events' = IF r \in listening THEN [events EXCEPT ![r] = @ \o es] ELSE events

AgentStart(r) ==
    /\ run[r] = "spawned"
    /\ run' = [run EXCEPT ![r] = "live"]
    /\ Emit(r, <<"start">>)
    /\ UNCHANGED <<hvars, svars, qvars, isRunning, runSession, listening, status, ended, lagged,
                   outcome, cancelReply>>

(* AgentComplete and AgentAborted are emitted; an error propagated with `?` *)
(* and a panic end the task without either.                                 *)
FinalEvents(o) == IF o \in {"ok", "aborted"} THEN <<"end">> ELSE <<>>

AgentEnd(r) ==
    /\ run[r] = "live"
    /\ \E o \in {"ok", "aborted", "failed", "panicked"} :
          /\ run' = [run EXCEPT ![r] = o]
          /\ Emit(r, FinalEvents(o))
    /\ UNCHANGED <<hvars, svars, qvars, isRunning, runSession, listening, status, ended, lagged,
                   outcome, cancelReply>>

Listen(r) ==
    /\ events[r] # <<>>
    /\ events' = [events EXCEPT ![r] = Tail(@)]
    /\ IF Head(events[r]) = "start"
       THEN status' = r /\ UNCHANGED ended
       ELSE status' = None /\ ended' = ended \cup {r}
    /\ UNCHANGED <<hvars, svars, qvars, rvars, listening, lagged, outcome, cancelReply>>

(* The run broadcasts to 1024 slots. A listener held up in conn.send while  *)
(* the run emits more is told Lagged by its next recv: `while let Ok` takes *)
(* that for the end, and what is buffered is never read.                    *)
ListenerLags(r) ==
    /\ r \in listening \ ended
    /\ run[r] # "spawned"
    /\ listening' = listening \ {r}
    /\ lagged' = lagged \cup {r}
    /\ events' = [events EXCEPT ![r] = <<>>]
    /\ UNCHANGED <<hvars, svars, qvars, rvars, status, ended, outcome, cancelReply>>

-----------------------------------------------------------------------------
HandlerStep(r) ==
    \/ CompareSession(r) \/ SetSessionCheck(r) \/ SetSessionWrite(r)
    \/ SetSessionReplace(r) \/ RememberSession(r) \/ Submit(r)

EnqueueStep(r) == PushBack(r) \/ NotifyOne(r)

LoopStep ==
    \/ Notified \/ PopFront \/ EnterRun \/ BeginRun \/ PersistInput
    \/ AgentTaskJoined \/ ListenersJoined \/ Timeout

TaskStep(r) == AgentStart(r) \/ AgentEnd(r) \/ Listen(r) \/ ListenerLags(r)

Next ==
    \/ \E r \in Requests, in \in AgentInputs : Receive(r, in)
    \/ \E r \in Requests : HandlerStep(r) \/ EnqueueStep(r) \/ TaskStep(r)
    \/ \E id \in RunIds : Cancel(id)
    \/ LoopStep

Spec == Init /\ [][Next]_vars

(* tokio polls every spawned task that is ready, and the 300 s timer fires  *)
(* whatever the agent task does: the loop always takes a next step. Nothing *)
(* is assumed of the agent task itself (the LLM may hang).                  *)
Fairness ==
    /\ \A r \in Requests : /\ WF_vars(HandlerStep(r))
                           /\ WF_vars(EnqueueStep(r))
                           /\ WF_vars(Listen(r))
    /\ WF_vars(LoopStep)

FairSpec == Spec /\ Fairness

-----------------------------------------------------------------------------
InQueue(r) == Occurs(queue, r)

Pushed(r) == pc[r] \in {"notify", "done"}

Guarded == lpc \in {"connect", "persist", "await", "join"}

TypeOK ==
    /\ pc \in [Requests -> HandlerSteps]
    /\ input \in [Requests -> AgentInputs \cup {None}]
    /\ lastSession \in Sessions \cup {None}
    /\ session \in Sessions \cup {None}
    /\ contextSession \in Sessions \cup {None}
    /\ isRunning \in BOOLEAN
    /\ queue \in Seq(Requests)
    /\ permit \in BOOLEAN
    /\ lpc \in LoopSteps
    /\ cur \in Requests \cup {None}
    /\ run \in [Requests -> RunStates]
    /\ runSession \in [Requests -> Sessions \cup {None}]
    /\ events \in [Requests -> Seq({"start", "end"})]
    /\ listening \in SUBSET Requests
    /\ status \in Requests \cup {None}
    /\ ended \in SUBSET Requests
    /\ lagged \in SUBSET Requests
    /\ outcome \in [Requests -> Outcomes]
    /\ cancelReply \in [RunIds -> {"none", "true", "false"}]

(* A pushed request without a result is in exactly one place: once in the   *)
(* queue, or in the loop. Cancel, pop and result never lose or repeat it,   *)
(* and nothing is answered before it is pushed.                             *)
QueueIntegrity ==
    /\ NoRepeat(queue)
    /\ \A r \in Requests :
          /\ InQueue(r) => r # cur
          /\ (InQueue(r) \/ r = cur) <=> (Pushed(r) /\ outcome[r] = "none")
          /\ ~Pushed(r) => outcome[r] = "none"

(* The state has its types and every request is in its one place, whatever  *)
(* the order of pushes, cancels, pops, results and timeouts.                *)
QueueOK == TypeOK /\ QueueIntegrity

(* An agent task that runs beside the request the loop executes belongs to  *)
(* a run that was answered with the timeout error.                          *)
OrphansTimedOut ==
    \A r \in Requests :
        run[r] \in {"spawned", "live"} => r = cur \/ outcome[r] = "timeout"

(* is_running is set exactly while run_input executes, or for good once a   *)
(* run_input returned or was dropped between the swap and RunningGuard.     *)
RunningFlagExact ==
    isRunning <=>
        \/ Guarded
        \/ \E r \in Requests : outcome[r] \in {"invalid_input", "timeout_unguarded"}

(* The status map never shows a run that finished normally as running, and  *)
(* shows the executing run once its start event was read: a listener of an  *)
(* earlier run cannot overwrite it. The exceptions are the runs that end    *)
(* without a final event and those whose listener lagged behind.            *)
StatusTruth ==
    /\ status # None => \/ status = cur
                        \/ outcome[status] \in {"failed", "panicked", "timeout"}
                        \/ status \in lagged
    /\ (lpc = "await" /\ run[cur] = "live" /\ events[cur] = <<>>) =>
          status = cur \/ cur \in lagged

(* A request that names a session runs, and reads its context, in it.       *)
RunsInRequestedSession ==
    \A r \in Requests :
        run[r] \in {"spawned", "live"} /\ r = cur /\ input[r].sid # None
            => runSession[r] = input[r].sid /\ contextSession = input[r].sid

(* Every request a client sends is answered: run, refused or cancelled.     *)
Answered == \A r \in Requests : pc[r] # "unsent" ~> outcome[r] # "none"

-----------------------------------------------------------------------------
(* The dispatcher implements a serial FIFO executor, whatever its handlers, *)
(* timeouts and orphaned tasks do.                                          *)
Executor == INSTANCE SerialExecutor
                WITH waiting <- queue, executing <- cur,
                     settled <- {r \in Requests : outcome[r] # "none"}

SerialFIFO == Executor!Spec
=============================================================================
