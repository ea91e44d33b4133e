------------------------------ MODULE AgentRun ------------------------------
(***************************************************************************)
(* One run of ReActAgent::run_input after its re-entrancy guard: the        *)
(* spawned agent task (the ReAct loop), the interceptor task that asks the  *)
(* plugins, one listener task on the event broadcast, and run_input itself, *)
(* which joins them. The four interact through a broadcast channel, a       *)
(* request channel and the sender handles that keep the two open.           *)
(***************************************************************************)
EXTENDS Naturals, Sequences, FiniteSets, Functions

CONSTANTS
    MaxIterations,  \* AgentDef.max_iterations
    MaxCalls,       \* bound: tool calls in one LLM answer
    MaxHistory,     \* AgentDef.max_history_messages
    Prior,          \* the messages earlier runs may have left in the session
    Capacity,       \* capacity of the event broadcast (1024 in the code)
    Plugins,        \* the registered plugins by priority: "hitl" or "other"
    Restricted,     \* call positions whose tool the HITL trigger names
    OnTimeout,      \* HitlConfig.on_timeout
    MayPanic,       \* whether plugins and tools may panic
    None            \* absent value

ASSUME RunAssumption ==
    /\ MaxIterations \in Nat /\ MaxCalls \in Nat \ {0} /\ MaxHistory \in Nat
    /\ Capacity \in Nat \ {0}
    /\ Plugins \in Seq({"hitl", "other"}) /\ Plugins # <<>>
    /\ Restricted \subseteq 1..MaxCalls
    /\ OnTimeout \in {"approve", "reject", "stop"}
    /\ MayPanic \in BOOLEAN
    /\ None \notin (Nat \X Nat)

VARIABLES
    apc,          \* where the agent task is
    iteration,    \* RunContext.iteration
    calls,        \* number of tool calls in the current answer
    call,         \* position of the call being handled
    history,      \* the messages saved to the session, by earlier runs too
    partial,      \* whether get_messages may return less than was saved
    context,      \* the messages sent with the current LLM call
    emitted,      \* every event sent on the broadcast, in order
    executed,     \* calls whose tool was executed
    result,       \* result of the agent task
    interceptor,  \* "alive", "ended" or "panicked"
    asking,       \* the plugin being asked, 0 between requests
    request,      \* the event under interception, None when there is none
    reply,        \* the decision the agent task receives, "none" before
    approved,     \* calls a human, or the timeout rule, approved
    listener,     \* "alive", "closed", "lagged" or "aborted"
    heard,        \* number of events the listener has processed
    eventTx,      \* holders of a sender of the event broadcast
    pluginTx,     \* holders of a sender of the request channel
    rpc           \* what run_input waits for

taskVars == <<apc, iteration, calls, call, history, partial, context, executed, result>>
pluginVars == <<interceptor, asking, approved>>
listenVars == <<listener, heard>>
vars == <<taskVars, emitted, pluginVars, request, reply, listenVars, eventTx, pluginTx, rpc>>

-----------------------------------------------------------------------------
CallIds == (1..MaxIterations) \X (1..MaxCalls)

(* Calls of earlier runs in the same session.                               *)
EarlierIds == {0} \X Nat

Event(kind, id) == [kind |-> kind, call |-> id]

Plain(kind) == Event(kind, None)

Message(role, ids) == [role |-> role, calls |-> ids]

Closings == {"tool_complete", "tool_error", "tool_skipped"}

Kinds == Closings \cup
         {"agent_start", "agent_complete", "agent_aborted", "max_iterations", "llm_start",
          "llm_complete", "llm_error", "tool_begin", "iteration_complete"}

Roles == {"user", "assistant", "tool", "system"}

(* What runs leave of a session that is read back whole: a call is made by  *)
(* one message, has at most one result and that after it; a run that failed *)
(* or was aborted leaves calls without any.                                 *)
WellLeft(p) ==
    \A i \in 1..Len(p) :
        /\ p[i].role = "tool" =>
              /\ \E j \in 1..(i - 1) : /\ p[j].role = "assistant"
                                       /\ \E id \in p[j].calls : p[i] = Message("tool", {id})
              /\ \A j \in 1..Len(p) : p[j] = p[i] => j = i
        /\ p[i].role = "assistant" =>
              \A j \in 1..Len(p) : p[j].role = "assistant" /\ p[i].calls \cap p[j].calls # {} => j = i

ASSUME PriorAssumption == \A p \in Prior : p \in Seq([role : Roles, calls : SUBSET EarlierIds])

ASSUME NoneIsNoEvent == None \notin [kind : Kinds, call : CallIds \cup {None}]

(* The interceptor's context is stripped of the request sender: only the    *)
(* agent task keeps that channel open.                                      *)
Unstripped == {"task", "interceptor"}   \* mutant

RequestSenders == {"task"}

Init ==
    /\ apc = "start" /\ iteration = 0 /\ calls = 0 /\ call = 0
    /\ \E p \in Prior : /\ history = Append(p, Message("user", {}))
                        /\ partial \in {x \in BOOLEAN : x \/ WellLeft(p)}
    /\ context = <<>> /\ emitted = <<>> /\ executed = {} /\ result = "none"
    /\ interceptor = "alive" /\ asking = 0 /\ approved = {}
    /\ request = None /\ reply = "none"
    /\ listener = "alive" /\ heard = 0
    /\ eventTx = {"task", "interceptor", "run_input"}
    /\ pluginTx = RequestSenders
    /\ rpc = "task"

-----------------------------------------------------------------------------
(* The agent task.                                                          *)

Emit(es) == emitted' = emitted \o es

(* RunContext::intercept: the request reaches the interceptor, or the       *)
(* channel is closed and the call errs.                                     *)
Intercept(e) ==
    /\ request' = IF interceptor = "alive" THEN e ELSE None
    /\ reply' = IF interceptor = "alive" THEN "none" ELSE "error"

(* The task returns `o` and drops its RunContext.                           *)
TaskEnds(o) ==
    /\ apc' = "ended"
    /\ result' = o
    /\ eventTx' = eventTx \ {"task"}
    /\ pluginTx' = pluginTx \ {"task"}

TaskGoesOn(where) ==
    /\ apc' = where
    /\ UNCHANGED <<result, eventTx, pluginTx>>

EmitStart ==
    /\ apc = "start"
    /\ Emit(<<Plain("agent_start")>>)
    /\ Intercept(Plain("agent_start"))
    /\ TaskGoesOn("started")
    /\ UNCHANGED <<iteration, calls, call, history, partial, context, executed, pluginVars, listenVars, rpc>>

StartDecided ==
    /\ apc = "started"
    /\ reply # "none"
    /\ reply' = "none"
    /\ IF reply = "abort"
       THEN Emit(<<Plain("agent_aborted")>>) /\ TaskEnds("aborted")
       ELSE TaskGoesOn("iterate") /\ UNCHANGED emitted
    /\ UNCHANGED <<iteration, calls, call, history, partial, context, executed, pluginVars, request,
                   listenVars, rpc>>

Exhausted(n) == n > MaxIterations

LimitEvents == <<Plain("max_iterations"), Plain("agent_aborted")>>

(* SessionContributor::contribute keeps the newest max_history messages.    *)
WindowShort == SubSeq(history, Len(history), Len(history))   \* mutant

Window ==
    IF Len(history) > MaxHistory
    THEN SubSeq(history, Len(history) - MaxHistory + 1, Len(history)) ELSE history

Summary == Message("system", {})

(* ContextBuilder::build. A failing get_messages counts as an empty session *)
(* and a session over the budget is dropped, after a compression was tried. *)
(* Once the session was compressed, or a line of its file is unreadable, it *)
(* is read back in part: a summary and any of its messages (SessionLog says *)
(* which).                                                                  *)
BuildContext ==
    \/ ~partial /\ context' = Window /\ UNCHANGED partial
    \/ context' = <<>> /\ UNCHANGED partial
    \/ /\ partial' = TRUE
       /\ \E n \in 0..MaxHistory : \E from \in [1..n -> 0..Len(history)] :
             context' = [i \in 1..n |-> IF from[i] = 0 THEN Summary ELSE history[from[i]]]

NextIteration ==
    /\ apc = "iterate"
    /\ iteration' = iteration + 1
    /\ \/ /\ Exhausted(iteration + 1)
          /\ Emit(LimitEvents)
          /\ TaskEnds("aborted")
          /\ UNCHANGED <<context, partial>>
       \/ /\ ~Exhausted(iteration + 1)
          /\ Emit(<<Plain("llm_start")>>)
          /\ BuildContext
          /\ TaskGoesOn("llm")
       \/ /\ ~Exhausted(iteration + 1)      \* get_context()? fails
          /\ TaskEnds("failed")
          /\ UNCHANGED <<emitted, context, partial>>
    /\ UNCHANGED <<calls, call, history, executed, pluginVars, request, reply, listenVars, rpc>>

AbortedOnly == <<Plain("agent_aborted")>>   \* mutant

FailureEvents == <<Plain("llm_error"), Plain("agent_aborted")>>

LlmFails ==
    /\ apc = "llm"
    /\ Emit(FailureEvents)
    /\ TaskEnds("aborted")
    /\ context' = <<>>
    /\ UNCHANGED <<iteration, calls, call, history, partial, executed, pluginVars, request, reply,
                   listenVars, rpc>>

(* Tool calls in the answer: the assistant message is persisted first.      *)
LlmCallsTools(n) ==
    /\ apc = "llm"
    /\ Emit(<<Plain("llm_complete")>>)
    /\ \/ /\ history' = Append(history, Message("assistant", {<<iteration, k>> : k \in 1..n}))
          /\ calls' = n
          /\ call' = 1
          /\ TaskGoesOn("call")
       \/ /\ TaskEnds("failed")
          /\ UNCHANGED <<history, calls, call>>
    /\ context' = <<>>
    /\ UNCHANGED <<iteration, partial, executed, pluginVars, request, reply, listenVars, rpc>>

LlmAnswers ==
    /\ apc = "llm"
    /\ \/ /\ history' = Append(history, Message("assistant", {}))
          /\ Emit(<<Plain("llm_complete"), Plain("iteration_complete"), Plain("agent_complete")>>)
          /\ TaskEnds("ok")
       \/ /\ Emit(<<Plain("llm_complete"), Plain("iteration_complete")>>)
          /\ TaskEnds("failed")
          /\ UNCHANGED history
    /\ context' = <<>>
    /\ UNCHANGED <<iteration, calls, call, partial, executed, pluginVars, request, reply,
                   listenVars, rpc>>

Id == <<iteration, call>>

BeginCall ==
    /\ apc = "call"
    /\ Emit(<<Event("tool_begin", Id)>>)
    /\ Intercept(Event("tool_begin", Id))
    /\ TaskGoesOn("decide")
    /\ UNCHANGED <<iteration, calls, call, history, partial, context, executed, pluginVars, listenVars, rpc>>

MoreCalls == call < calls

(* After a call: the next one, or the next iteration.                       *)
CloseCall(kind) ==
    IF MoreCalls
    THEN Emit(<<Event(kind, Id)>>) /\ call' = call + 1 /\ TaskGoesOn("call")
    ELSE /\ Emit(<<Event(kind, Id), Plain("iteration_complete")>>)
         /\ TaskGoesOn("iterate")
         /\ UNCHANGED call

(* A failed interception counts as Continue.                                *)
MayExecute == reply \in {"continue", "error"}

CallDecided ==
    /\ apc = "decide"
    /\ reply # "none"
    /\ reply' = "none"
    /\ IF MayExecute THEN TaskGoesOn("execute") /\ UNCHANGED <<emitted, call>>
       ELSE IF reply = "skip" THEN CloseCall("tool_skipped")
       ELSE Emit(<<Plain("agent_aborted")>>) /\ TaskEnds("aborted") /\ UNCHANGED call
    /\ UNCHANGED <<iteration, calls, history, partial, context, executed, pluginVars, request, listenVars,
                   rpc>>

ResultForFirst == Message("tool", {<<iteration, 1>>})   \* mutant

ToolResult == Message("tool", {Id})

(* Result or error: the event first, then the tool message.                 *)
ExecuteTool ==
    /\ apc = "execute"
    /\ executed' = executed \cup {Id}
    /\ \E kind \in {"tool_complete", "tool_error"} :
          \/ /\ history' = Append(history, ToolResult)
             /\ CloseCall(kind)
          \/ /\ Emit(<<Event(kind, Id)>>)
             /\ TaskEnds("failed")
             /\ UNCHANGED <<history, call>>
    /\ UNCHANGED <<iteration, calls, partial, context, pluginVars, request, reply, listenVars, rpc>>

ToolPanics ==
    /\ MayPanic
    /\ apc = "execute"
    /\ executed' = executed \cup {Id}
    /\ TaskEnds("panicked")
    /\ UNCHANGED <<iteration, calls, call, history, partial, context, emitted, pluginVars, request, reply,
                   listenVars, rpc>>

-----------------------------------------------------------------------------
(* The interceptor task: plugins in turn, the first other decision wins.    *)

TakeRequest ==
    /\ interceptor = "alive"
    /\ request # None /\ asking = 0
    /\ asking' = 1
    /\ UNCHANGED <<taskVars, emitted, interceptor, approved, request, reply, listenVars, eventTx,
                   pluginTx, rpc>>

FirstDecides == TRUE   \* mutant

LastAsked == asking = Len(Plugins)

PluginDecides(d) ==
    /\ IF d = "continue" /\ ~LastAsked
       THEN asking' = asking + 1 /\ UNCHANGED <<request, reply>>
       ELSE asking' = 0 /\ request' = None /\ reply' = d
    /\ UNCHANGED <<taskVars, emitted, interceptor, listenVars, eventTx, pluginTx, rpc>>

OtherDecides ==
    /\ asking # 0 /\ Plugins[asking] = "other"
    /\ \E d \in {"continue", "skip", "abort"} : PluginDecides(d)
    /\ UNCHANGED approved

NeedsToolApproval == request.kind = "tool_begin" /\ request.call[2] \in Restricted

Granted(answer) == answer = "approved" \/ (answer = "none" /\ OnTimeout = "approve")

(* HitlPlugin::intercept over the answer of the approval channel: approved, *)
(* rejected, none in time, or an error of the channel.                      *)
HitlDecides ==
    /\ asking # 0 /\ Plugins[asking] = "hitl"
    /\ \/ /\ ~NeedsToolApproval
          /\ PluginDecides("continue")
          /\ UNCHANGED approved
       \/ /\ NeedsToolApproval
          /\ \E answer \in {"approved", "rejected", "none", "error"} :
                IF Granted(answer)
                THEN PluginDecides("continue") /\ approved' = approved \cup {request.call}
                ELSE PluginDecides("abort") /\ UNCHANGED approved

PluginPanics ==
    /\ MayPanic
    /\ asking # 0
    /\ interceptor' = "panicked"
    /\ asking' = 0 /\ request' = None /\ reply' = "error"
    /\ eventTx' = eventTx \ {"interceptor"}
    /\ UNCHANGED <<taskVars, emitted, approved, listenVars, pluginTx, rpc>>

InterceptorEnds ==
    /\ interceptor = "alive"
    /\ request = None /\ pluginTx = {}
    /\ interceptor' = "ended"
    /\ eventTx' = eventTx \ {"interceptor"}
    /\ UNCHANGED <<taskVars, emitted, asking, approved, request, reply, listenVars, pluginTx, rpc>>

-----------------------------------------------------------------------------
(* The listener task. A receiver more than Capacity events behind gets      *)
(* Lagged, which `while let Ok` takes for the end of the stream.            *)
Listen ==
    /\ listener = "alive"
    /\ heard < Len(emitted)
    /\ IF Len(emitted) - heard > Capacity
       THEN listener' = "lagged" /\ UNCHANGED heard
       ELSE heard' = heard + 1 /\ UNCHANGED listener
    /\ UNCHANGED <<taskVars, emitted, pluginVars, request, reply, eventTx, pluginTx, rpc>>

AnySenderGone == eventTx # {"task", "interceptor", "run_input"}   \* mutant

Closed == eventTx = {}

ListenerEnds ==
    /\ listener = "alive"
    /\ heard = Len(emitted)
    /\ Closed
    /\ listener' = "closed"
    /\ UNCHANGED <<taskVars, emitted, pluginVars, request, reply, heard, eventTx, pluginTx, rpc>>

(* run_input. A panic returns at once and drops the JoinSet.                *)
JoinTask ==
    /\ rpc = "task"
    /\ apc = "ended"
    /\ IF result = "panicked"
       THEN /\ rpc' = "returned"
            /\ listener' = IF listener = "alive" THEN "aborted" ELSE listener
            /\ eventTx' = eventTx \ {"run_input"}
       ELSE rpc' = "interceptor" /\ UNCHANGED <<listener, eventTx>>
    /\ UNCHANGED <<taskVars, emitted, pluginVars, request, reply, heard, pluginTx>>

JoinInterceptor ==
    /\ rpc = "interceptor"
    /\ interceptor # "alive"
    /\ rpc' = "listeners"
    /\ eventTx' = eventTx \ {"run_input"}
    /\ UNCHANGED <<taskVars, emitted, pluginVars, request, reply, listenVars, pluginTx>>

JoinListeners ==
    /\ rpc = "listeners"
    /\ listener # "alive"
    /\ rpc' = "returned"
    /\ UNCHANGED <<taskVars, emitted, pluginVars, request, reply, listenVars, eventTx, pluginTx>>

-----------------------------------------------------------------------------
TaskStep ==
    \/ EmitStart \/ StartDecided \/ NextIteration
    \/ LlmFails \/ LlmAnswers \/ \E n \in 1..MaxCalls : LlmCallsTools(n)
    \/ BeginCall \/ CallDecided \/ ExecuteTool \/ ToolPanics

InterceptorStep ==
    TakeRequest \/ OtherDecides \/ HitlDecides \/ PluginPanics \/ InterceptorEnds

ListenerStep == Listen \/ ListenerEnds

RunInputStep == JoinTask \/ JoinInterceptor \/ JoinListeners

Next == TaskStep \/ InterceptorStep \/ ListenerStep \/ RunInputStep

Spec == Init /\ [][Next]_vars

(* tokio runs every ready task. Nothing is assumed of the agent task, which *)
(* waits for an LLM, for tools and, through the interceptor, for a human.   *)
Fairness ==
    /\ WF_vars(InterceptorEnds)
    /\ WF_vars(ListenerStep)
    /\ WF_vars(RunInputStep)

FairSpec == Spec /\ Fairness

-----------------------------------------------------------------------------
TypeOK ==
    /\ apc \in {"start", "started", "iterate", "llm", "call", "decide", "execute", "ended"}
    /\ iteration \in 0..(MaxIterations + 1)
    /\ calls \in 0..MaxCalls /\ call \in 0..MaxCalls
    /\ history \in Seq([role : Roles, calls : SUBSET (CallIds \cup EarlierIds)])
    /\ context \in Seq([role : Roles, calls : SUBSET (CallIds \cup EarlierIds)])
    /\ partial \in BOOLEAN
    /\ emitted \in Seq([kind : Kinds, call : CallIds \cup {None}])
    /\ executed \subseteq CallIds /\ approved \subseteq CallIds
    /\ result \in {"none", "ok", "aborted", "failed", "panicked"}
    /\ interceptor \in {"alive", "ended", "panicked"}
    /\ asking \in 0..Len(Plugins)
    /\ request \in [kind : Kinds, call : CallIds \cup {None}] \cup {None}
    /\ reply \in {"none", "continue", "skip", "abort", "error"}
    /\ listener \in {"alive", "closed", "lagged", "aborted"}
    /\ heard \in Nat
    /\ eventTx \subseteq {"task", "interceptor", "run_input"}
    /\ pluginTx \subseteq {"task", "interceptor"}
    /\ rpc \in {"task", "interceptor", "listeners", "returned"}

Emitted(kind, id) == Event(kind, id) \in Range(emitted)

Count(kind) == Cardinality({i \in 1..Len(emitted) : emitted[i].kind = kind})

(* Guarantees 2 and 3 of AgentStreamEvent, as far as the code keeps them:   *)
(* an LLM call is open only while the task waits for it or in its last      *)
(* event but one; each closing event of a tool call directly follows the    *)
(* call's own begin event; a begin event left open is the last of its run   *)
(* or is followed by AgentAborted alone.                                    *)
EventsPaired ==
    /\ Count("llm_start") = Count("llm_complete") + Count("llm_error")
                            + (IF apc = "llm" THEN 1 ELSE 0)
    /\ \A i \in 1..Len(emitted) :
          /\ emitted[i].kind \in Closings =>
                i > 1 /\ emitted[i - 1] = Event("tool_begin", emitted[i].call)
          /\ (emitted[i].kind = "tool_begin" /\ i < Len(emitted)) =>
                \/ emitted[i + 1].kind \in Closings
                \/ emitted[i + 1].kind = "agent_aborted" /\ i + 1 = Len(emitted)

(* AgentComplete or AgentAborted is the last event of a run, and is missing *)
(* from an ended run only after a propagated error or a panic.              *)
FinalEventLast ==
    /\ \A i \in 1..Len(emitted) :
          emitted[i].kind \in {"agent_complete", "agent_aborted"} =>
             i = Len(emitted) /\ result \in {"ok", "aborted"}
    /\ result = "ok" => emitted[Len(emitted)].kind = "agent_complete"
    /\ result = "aborted" => emitted[Len(emitted)].kind = "agent_aborted"

(* The session says what the listeners were told: a call has a tool message *)
(* exactly when its result or error was announced, except that the last     *)
(* announcement of a failed run may not have been saved.                    *)
HistoryTellsEvents ==
    \A id \in CallIds :
        LET announced == Emitted("tool_complete", id) \/ Emitted("tool_error", id)
            saved == Message("tool", {id}) \in Range(history)
        IN  /\ saved => announced
            /\ announced /\ ~saved => result = "failed" /\ id = Id

(* The context of an LLM call, as long as the session is read back whole:   *)
(* every call of an assistant message in it has exactly one result after    *)
(* it, unless a plugin skipped it or an earlier run left it without one in  *)
(* the whole session; and a result is without its call only when the window *)
(* cut the history.                                                         *)
ContextPaired ==
    apc = "llm" /\ ~partial =>
        \A i \in 1..Len(context) :
            /\ context[i].role = "assistant" =>
                  \A id \in context[i].calls :
                     \/ Emitted("tool_skipped", id)
                     \/ id \in EarlierIds /\ Message("tool", {id}) \notin Range(history)
                     \/ Cardinality({j \in (i + 1)..Len(context) :
                                        context[j] = Message("tool", {id})}) = 1
            /\ context[i].role = "tool" =>
                  \/ Len(history) > MaxHistory
                  \/ \E j \in 1..(i - 1) : context[j].role = "assistant"
                                           /\ context[i].calls \subseteq context[j].calls

(* A tool the HITL trigger names is executed only after an approval, unless *)
(* the interceptor task has panicked.                                       *)
ApprovedBeforeExecuted ==
    \A id \in executed :
        id[2] \in Restricted /\ "hitl" \in Range(Plugins)
            => id \in approved \/ interceptor = "panicked"

(* The LLM is called at most max_iterations times, and MaxIterationsReached *)
(* is announced only after that many complete answers.                      *)
IterationsBounded ==
    /\ Count("llm_start") <= MaxIterations
    /\ Count("max_iterations") = 1 => Count("llm_complete") = MaxIterations

(* What a client may rely on in the event stream of a run, whichever of the *)
(* loop's exits it takes: paired events, one final event, bounded LLM calls. *)
EventsWellFormed == TypeOK /\ EventsPaired /\ FinalEventLast /\ IterationsBounded

(* A listener that neither lagged nor was aborted has processed every event *)
(* of the run when run_input returns.                                       *)
ListenerHeardAll ==
    rpc = "returned" /\ listener \notin {"lagged", "aborted"} => heard = Len(emitted)

(* Once the agent task has ended, the channels close one after the other    *)
(* and run_input returns.                                                   *)
ShutsDown == apc = "ended" ~> rpc = "returned"
=============================================================================
