------------------------------- MODULE RunProofs -------------------------------
(***************************************************************************)
(* Proofs about AgentRun for any number of iterations, calls and plugins,   *)
(* any history window and any capacity of the broadcast.                    *)
(***************************************************************************)
EXTENDS AgentRun, SequenceTheorems, FiniteSetTheorems, TLAPS

Events == [kind : Kinds, call : CallIds \cup {None}]
AllIds == CallIds \cup EarlierIds
Messages == [role : Roles, calls : SUBSET AllIds]

(* Where the agent task can be with its counters.                           *)
Where ==
    /\ apc \in {"start", "started"} => iteration = 0
    /\ apc = "iterate" => iteration <= MaxIterations
    /\ apc \in {"llm", "call", "decide", "execute"} => iteration \in 1..MaxIterations
    /\ apc \in {"call", "decide", "execute"} => call \in 1..calls
    /\ result = "none" <=> apc # "ended"
    /\ "task" \in pluginTx <=> apc # "ended"

(* The event under interception is the one the agent task waits for.        *)
Intercepting ==
    /\ asking # 0 => request # None
    /\ request # None => interceptor = "alive" /\ reply = "none" /\ apc \in {"started", "decide"}
    /\ apc = "started" /\ reply = "none" => request = Plain("agent_start")
    /\ apc = "decide" /\ reply = "none" => request = Event("tool_begin", Id)
    /\ reply # "none" => apc \in {"started", "decide"}
    /\ reply = "error" => interceptor = "panicked"
    /\ interceptor = "ended" => apc = "ended"

(* What the other parts of the invariant rest on.                           *)
Base == TypeOK /\ Where /\ Intercepting

(* -- helpers ------------------------------------------------------------------ *)

LEMMA IdTyped ==
  ASSUME TypeOK, Where, apc \in {"call", "decide", "execute"}
  PROVE  Id \in CallIds
  BY RunAssumption DEF TypeOK, Where, Id, CallIds

LEMMA EventTyped ==
  ASSUME NEW k \in Kinds, NEW id \in CallIds
  PROVE  /\ Event(k, id) \in Events /\ Event(k, id) # None
         /\ Event(k, id).kind = k /\ Event(k, id).call = id
  <1>1. Event(k, id) \in Events
    BY DEF Event, Events
  <1> QED
    BY <1>1, NoneIsNoEvent DEF Event, Events

LEMMA PlainTyped ==
  ASSUME NEW k \in Kinds
  PROVE  Plain(k) \in Events /\ Plain(k) # None /\ Plain(k).kind = k /\ Plain(k).call = None
  <1>1. Plain(k) \in Events
    BY DEF Plain, Event, Events
  <1> QED
    BY <1>1, NoneIsNoEvent DEF Plain, Event, Events

LEMMA EmitTyped ==
  ASSUME emitted \in Seq(Events), NEW a \in Events, NEW b \in Events, NEW c \in Events
  PROVE  /\ Emit(<<a>>) => emitted' = Append(emitted, a) /\ emitted' \in Seq(Events)
         /\ Emit(<<a, b>>) => /\ emitted' = Append(Append(emitted, a), b)
                              /\ emitted' \in Seq(Events)
         /\ Emit(<<a, b, c>>) => /\ emitted' = Append(Append(Append(emitted, a), b), c)
                                 /\ emitted' \in Seq(Events)
  <1>1. emitted \o <<a>> = Append(emitted, a)
    OBVIOUS
  <1>2. emitted \o <<a, b>> = Append(Append(emitted, a), b)
    OBVIOUS
  <1>3. emitted \o <<a, b, c>> = Append(Append(Append(emitted, a), b), c)
    <2>1. <<a, b>> \in Seq(Events) /\ <<c>> \in Seq(Events)
      OBVIOUS
    <2>2. <<a, b, c>> = <<a, b>> \o <<c>>
      OBVIOUS
    <2>3. emitted \o <<a, b, c>> = (emitted \o <<a, b>>) \o <<c>>
      BY <2>1, <2>2, ConcatAssociative
    <2>4. emitted \o <<a, b>> \in Seq(Events)
      BY <2>1, ConcatProperties
    <2>5. (emitted \o <<a, b>>) \o <<c>> = Append(emitted \o <<a, b>>, c)
      BY <2>4
    <2> QED
      BY <2>3, <2>5, <1>2
  <1>4. \A s \in Seq(Events), e \in Events : Append(s, e) \in Seq(Events)
    BY AppendProperties
  <1> QED
    BY <1>1, <1>2, <1>3, <1>4 DEF Emit

LEMMA PriorSeq ==
  ASSUME NEW p \in Prior
  PROVE  p \in Seq(Messages) /\ \A i \in 1..Len(p) : p[i].calls \subseteq EarlierIds
  <1> DEFINE Left == [role : Roles, calls : SUBSET EarlierIds]
  <1>1. Left \subseteq Messages /\ \A m \in Left : m.calls \subseteq EarlierIds
    BY DEF Messages, AllIds
  <1>2. p \in Seq(Left)
    BY PriorAssumption
  <1> HIDE DEF Left
  <1>3. \A i \in 1..Len(p) : p[i] \in Left
    BY <1>2
  <1> QED
    BY <1>1, <1>2, <1>3

LEMMA BaseInit == Init => Base
  <1> SUFFICES ASSUME Init PROVE Base
    OBVIOUS
  <1>1. history \in Seq(Messages) /\ partial \in BOOLEAN
    <2>1. Message("user", {}) \in Messages
      BY DEF Message, Messages, Roles
    <2>2. PICK p \in Prior : history = Append(p, Message("user", {})) /\ partial \in BOOLEAN
      BY DEF Init
    <2>3. p \in Seq(Messages)
      BY PriorSeq
    <2> QED
      BY <2>1, <2>2, <2>3, AppendProperties
  <1>2. TypeOK
    BY <1>1, RunAssumption DEF Init, TypeOK, Messages, AllIds, RequestSenders
  <1> QED
    BY <1>2 DEF Init, Base, Where, Intercepting, RequestSenders

LEMMA TaskEmits ==
  ASSUME Base, TaskStep
  PROVE  emitted' \in Seq(Events)
  <1>1. emitted \in Seq(Events)
    BY DEF Base, TypeOK, Events
  <1>2. CASE EmitStart
    <2>1. Plain("agent_start") \in Events
      BY PlainTyped DEF Kinds
    <2> QED
      BY <1>1, <1>2, <2>1, EmitTyped DEF EmitStart
  <1>3. CASE StartDecided
    <2>1. Plain("agent_aborted") \in Events
      BY PlainTyped DEF Kinds
    <2> QED
      BY <1>1, <1>3, <2>1, EmitTyped DEF StartDecided
  <1>4. CASE NextIteration
    <2>1. Plain("agent_aborted") \in Events /\ Plain("max_iterations") \in Events
          /\ Plain("llm_start") \in Events
      BY PlainTyped DEF Kinds
    <2> QED
      BY <1>1, <1>4, <2>1, EmitTyped DEF NextIteration, LimitEvents
  <1>5. CASE LlmFails
    <2>1. Plain("agent_aborted") \in Events /\ Plain("llm_error") \in Events
      BY PlainTyped DEF Kinds
    <2> QED
      BY <1>1, <1>5, <2>1, EmitTyped DEF LlmFails, FailureEvents
  <1>6. CASE LlmAnswers
    <2>1. Plain("llm_complete") \in Events /\ Plain("iteration_complete") \in Events
          /\ Plain("agent_complete") \in Events
      BY PlainTyped DEF Kinds
    <2> QED
      BY <1>1, <1>6, <2>1, EmitTyped DEF LlmAnswers
  <1>7. CASE \E n \in 1..MaxCalls : LlmCallsTools(n)
    <2>1. Plain("llm_complete") \in Events
      BY PlainTyped DEF Kinds
    <2> QED
      BY <1>1, <1>7, <2>1, EmitTyped DEF LlmCallsTools
  <1>8. CASE BeginCall
    <2>1. Event("tool_begin", Id) \in Events
      BY <1>8, IdTyped, EventTyped DEF Kinds, BeginCall, Base
    <2> QED
      BY <1>1, <1>8, <2>1, EmitTyped DEF BeginCall
  <1>9. ASSUME NEW k \in Closings, apc \in {"decide", "execute"}, Emit(<<Event(k, Id)>>) \/ CloseCall(k)
        PROVE  emitted' \in Seq(Events)
    <2>1. Event(k, Id) \in Events /\ Plain("iteration_complete") \in Events
      BY <1>9, IdTyped, EventTyped, PlainTyped DEF Kinds, Base
    <2> QED
      BY <1>1, <1>9, <2>1, EmitTyped DEF CloseCall
  <1>10. CASE CallDecided
    <2>1. Plain("agent_aborted") \in Events
      BY PlainTyped DEF Kinds
    <2> QED
      BY <1>1, <1>9, <1>10, <2>1, EmitTyped DEF CallDecided, Closings
  <1>11. CASE ExecuteTool
    BY <1>9, <1>11 DEF ExecuteTool, Closings
  <1>12. CASE ToolPanics
    BY <1>1, <1>12 DEF ToolPanics
  <1> QED
    BY <1>2, <1>3, <1>4, <1>5, <1>6, <1>7, <1>8, <1>10, <1>11, <1>12 DEF TaskStep

LEMMA MessageTyped ==
  ASSUME NEW r \in Roles, NEW ids \in SUBSET CallIds
  PROVE  /\ Message(r, ids) \in Messages
         /\ Message(r, ids).role = r /\ Message(r, ids).calls = ids
  BY DEF Message, Messages, AllIds

(* The messages of the session keep their type in a step of the task.       *)
LEMMA TaskRecords ==
  ASSUME Base, TaskStep
  PROVE  history' \in Seq(Messages) /\ context' \in Seq(Messages) /\ partial' \in BOOLEAN
  <1>1. history \in Seq(Messages) /\ context \in Seq(Messages) /\ partial \in BOOLEAN
    BY DEF Base, TypeOK, Messages, AllIds
  <1>e. <<>> \in Seq(Messages)
    OBVIOUS
  <1>2. \A m \in Messages : Append(history, m) \in Seq(Messages)
    BY <1>1, AppendProperties
  <1>3. CASE NextIteration
    <2>1. Window \in Seq(Messages)
      BY <1>1, RunAssumption, SubSeqProperties DEF Window
    <2>2. ASSUME NEW n \in 0..MaxHistory, NEW from \in [1..n -> 0..Len(history)]
          PROVE  [i \in 1..n |-> IF from[i] = 0 THEN Summary ELSE history[from[i]]] \in Seq(Messages)
      <3>1. Summary \in Messages
        BY MessageTyped DEF Summary, Roles
      <3>2. \A i \in 1..n : (IF from[i] = 0 THEN Summary ELSE history[from[i]]) \in Messages
        BY <1>1, <3>1
      <3>3. n \in Nat
        BY RunAssumption
      <3> QED
        BY <3>2, <3>3
    <2>3. BuildContext => context' \in Seq(Messages) /\ partial' \in BOOLEAN
      BY <1>1, <1>e, <2>1, <2>2 DEF BuildContext
    <2> QED
      BY <1>1, <1>3, <2>3 DEF NextIteration
  <1>4. CASE LlmAnswers
    <2>1. Message("assistant", {}) \in Messages
      BY MessageTyped DEF Roles
    <2> QED
      BY <1>1, <1>2, <1>e, <1>4, <2>1 DEF LlmAnswers
  <1>5. ASSUME NEW n \in 1..MaxCalls, LlmCallsTools(n)
        PROVE  history' \in Seq(Messages) /\ context' \in Seq(Messages) /\ partial' \in BOOLEAN
    <2>1. iteration \in 1..MaxIterations
      BY <1>5 DEF LlmCallsTools, Base, Where
    <2>2. {<<iteration, k>> : k \in 1..n} \subseteq CallIds
      BY <2>1, RunAssumption DEF CallIds
    <2>3. Message("assistant", {<<iteration, k>> : k \in 1..n}) \in Messages
      BY <2>2, MessageTyped DEF Roles
    <2> QED
      BY <1>1, <1>2, <1>e, <1>5, <2>3 DEF LlmCallsTools
  <1>6. CASE ExecuteTool
    <2>1. Id \in CallIds
      BY <1>6, IdTyped DEF ExecuteTool, Base
    <2>2. ToolResult \in Messages
      BY <2>1, MessageTyped DEF ToolResult, Roles
    <2> QED
      BY <1>1, <1>2, <1>6, <2>2 DEF ExecuteTool
  <1> QED
    BY <1>1, <1>e, <1>3, <1>4, <1>5, <1>6
    DEF TaskStep, EmitStart, StartDecided, LlmFails, BeginCall, CallDecided, ToolPanics

LEMMA TaskTyped ==
  ASSUME Base, TaskStep
  PROVE  TypeOK'
  <1>1. /\ emitted' \in Seq(Events)
        /\ history' \in Seq(Messages) /\ context' \in Seq(Messages) /\ partial' \in BOOLEAN
    BY TaskEmits, TaskRecords
  <1>2. TypeOK /\ Where
    BY DEF Base
  <1>3. apc \in {"call", "decide", "execute"} => Id \in CallIds
    BY <1>2, IdTyped
  <1>4. /\ Plain("agent_start") \in Events
        /\ apc = "call" => Event("tool_begin", Id) \in Events
    BY <1>3, PlainTyped, EventTyped DEF Kinds
  <1> USE RunAssumption DEF TypeOK, Events, Messages, AllIds, TaskEnds, TaskGoesOn, pluginVars, listenVars
  <1>0. ASSUME \/ \E o \in {"ok", "aborted", "failed", "panicked"} : TaskEnds(o)
               \/ \E w \in {"iterate", "llm", "call"} : TaskGoesOn(w),
               UNCHANGED <<request, reply, pluginVars, listenVars, rpc>>,
               calls' \in 0..MaxCalls, call' \in 0..MaxCalls,
               iteration' \in 0..(MaxIterations + 1), executed' \subseteq CallIds
        PROVE  TypeOK'
    <2>1. /\ apc' \in {"start", "started", "iterate", "llm", "call", "decide", "execute", "ended"}
          /\ result' \in {"none", "ok", "aborted", "failed", "panicked"}
          /\ eventTx' \subseteq {"task", "interceptor", "run_input"}
          /\ pluginTx' \subseteq {"task", "interceptor"}
      BY <1>0, <1>2
    <2>2. /\ UNCHANGED <<request, reply, interceptor, asking, approved, listener, heard, rpc>>
      BY <1>0
    <2> QED
      BY <1>0, <1>1, <1>2, <2>1, <2>2
  <1>5. CASE EmitStart
    BY <1>1, <1>2, <1>4, <1>5 DEF EmitStart, Intercept
  <1>6. CASE StartDecided
    BY <1>1, <1>2, <1>6 DEF StartDecided
  <1>7. CASE NextIteration
    <2>1. iteration' \in 0..(MaxIterations + 1)
      BY <1>2, <1>7 DEF NextIteration, Where
    <2> HIDE DEF TaskEnds, TaskGoesOn
    <2> QED
      BY <1>0, <1>2, <1>7, <2>1 DEF NextIteration
  <1>8. CASE LlmFails
    BY <1>1, <1>2, <1>8 DEF LlmFails
  <1>9. CASE LlmAnswers
    BY <1>1, <1>2, <1>9 DEF LlmAnswers
  <1>10. ASSUME NEW n \in 1..MaxCalls, LlmCallsTools(n) PROVE TypeOK'
    <2>1. calls' \in 0..MaxCalls /\ call' \in 0..MaxCalls
      BY <1>2, <1>10 DEF LlmCallsTools
    <2> HIDE DEF TaskEnds, TaskGoesOn
    <2> QED
      BY <1>0, <1>2, <1>10, <2>1 DEF LlmCallsTools
  <1>11. CASE BeginCall
    BY <1>1, <1>2, <1>4, <1>11 DEF BeginCall, Intercept
  <1>12. CASE CallDecided
    <2>1. call' \in 0..MaxCalls
      BY <1>2, <1>12 DEF CallDecided, CloseCall, MoreCalls
    <2> QED
      BY <1>1, <1>2, <1>12, <2>1 DEF CallDecided, CloseCall
  <1>13. CASE ExecuteTool
    <2>1. call' \in 0..MaxCalls
      BY <1>2, <1>13 DEF ExecuteTool, CloseCall, MoreCalls
    <2> HIDE DEF TaskEnds, TaskGoesOn
    <2> QED
      BY <1>0, <1>2, <1>3, <1>13, <2>1 DEF ExecuteTool, CloseCall
  <1>14. CASE ToolPanics
    BY <1>1, <1>2, <1>3, <1>14 DEF ToolPanics
  <1> QED
    BY <1>5, <1>6, <1>7, <1>8, <1>9, <1>10, <1>11, <1>12, <1>13, <1>14 DEF TaskStep

LEMMA TaskWhere ==
  ASSUME Base, TaskStep
  PROVE  Where'
  <1>1. /\ iteration \in Nat /\ calls \in Nat /\ call \in Nat
        /\ apc \in {"start", "started", "iterate", "llm", "call", "decide", "execute", "ended"}
        /\ Where
    BY RunAssumption DEF Base, TypeOK
  <1> USE <1>1, RunAssumption DEF Where, TaskEnds, TaskGoesOn
  <1>2. CASE EmitStart \/ StartDecided \/ LlmFails \/ LlmAnswers \/ BeginCall \/ ToolPanics
    BY <1>2 DEF EmitStart, StartDecided, LlmFails, LlmAnswers, BeginCall, ToolPanics
  <1>3. CASE NextIteration
    BY <1>3 DEF NextIteration, Exhausted
  <1>4. ASSUME NEW n \in 1..MaxCalls, LlmCallsTools(n) PROVE Where'
    BY <1>4 DEF LlmCallsTools
  <1>5. CASE CallDecided
    BY <1>5 DEF CallDecided, CloseCall, MoreCalls
  <1>6. CASE ExecuteTool
    BY <1>6 DEF ExecuteTool, CloseCall, MoreCalls
  <1> QED
    BY <1>2, <1>3, <1>4, <1>5, <1>6 DEF TaskStep

LEMMA TaskIntercepting ==
  ASSUME Base, TaskStep
  PROVE  Intercepting'
  <1>1. /\ Intercepting /\ TypeOK
        /\ UNCHANGED <<interceptor, asking>>
    BY DEF Base, TaskStep, EmitStart, StartDecided, NextIteration, LlmFails, LlmAnswers,
           LlmCallsTools, BeginCall, CallDecided, ExecuteTool, ToolPanics, pluginVars
  <1>2. CASE EmitStart
    BY <1>1, <1>2, PlainTyped DEF EmitStart, Intercept, TaskGoesOn, Intercepting, Kinds, TypeOK
  <1>3. CASE BeginCall
    <2>1. Id \in CallIds
      BY <1>3, IdTyped DEF BeginCall, Base
    <2>2. Event("tool_begin", Id) # None
      BY <2>1, EventTyped DEF Kinds
    <2>3. Id' = Id
      BY <1>3 DEF BeginCall, Id
    <2> QED
      BY <1>1, <1>3, <2>2, <2>3 DEF BeginCall, Intercept, TaskGoesOn, Intercepting, TypeOK
  <1>4. CASE ~(EmitStart \/ BeginCall)
    <2>1. /\ request = None /\ request' = None
          /\ apc' \notin {"started", "decide"} /\ reply' = "none"
          /\ apc # "ended"
      BY <1>1, <1>4
      DEF Intercepting, TaskStep, StartDecided, NextIteration, LlmFails, LlmAnswers,
          LlmCallsTools, CallDecided, CloseCall, ExecuteTool, ToolPanics, TaskGoesOn, TaskEnds
    <2> QED
      BY <1>1, <2>1 DEF Intercepting
  <1> QED
    BY <1>2, <1>3, <1>4

(* What a step of the interceptor, of the listener or of run_input leaves   *)
(* alone, and what the request under interception says of the agent task.   *)
LEMMA OthersKeepTask ==
  ASSUME InterceptorStep \/ ListenerStep \/ RunInputStep
  PROVE  UNCHANGED <<taskVars, emitted, pluginTx>>
  BY DEF InterceptorStep, ListenerStep, RunInputStep, TakeRequest, OtherDecides, HitlDecides,
         PluginDecides, PluginPanics, InterceptorEnds, Listen, ListenerEnds, JoinTask,
         JoinInterceptor, JoinListeners

LEMMA AskedAbout ==
  ASSUME Base, asking # 0
  PROVE  /\ interceptor = "alive" /\ reply = "none" /\ request # None
         /\ \/ apc = "started" /\ request = Plain("agent_start") /\ request.kind = "agent_start"
            \/ /\ apc = "decide" /\ Id \in CallIds
               /\ request = Event("tool_begin", Id)
               /\ request.kind = "tool_begin" /\ request.call = Id
  <1>1. /\ interceptor = "alive" /\ reply = "none" /\ request # None
        /\ apc \in {"started", "decide"}
    BY DEF Base, Intercepting
  <1>2. CASE apc = "started"
    BY <1>1, <1>2, PlainTyped DEF Base, Intercepting, Kinds
  <1>3. CASE apc = "decide"
    <2>1. Id \in CallIds
      BY <1>3, IdTyped DEF Base
    <2>2. request = Event("tool_begin", Id)
      BY <1>1, <1>3 DEF Base, Intercepting
    <2> QED
      BY <1>1, <1>3, <2>1, <2>2, EventTyped DEF Kinds
  <1> QED
    BY <1>1, <1>2, <1>3

LEMMA InterceptorBase ==
  ASSUME Base, InterceptorStep
  PROVE  Base'
  <1>1. UNCHANGED <<apc, iteration, calls, call, history, partial, context, executed, result, emitted, pluginTx>>
    BY OthersKeepTask DEF taskVars
  <1>2. TypeOK /\ Where /\ Intercepting
    BY DEF Base
  <1>3. Where' /\ Id' = Id
    BY <1>1, <1>2 DEF Where, Id
  <1>4. asking \in Nat /\ asking <= Len(Plugins) /\ Len(Plugins) \in Nat /\ Len(Plugins) # 0
    BY <1>2, RunAssumption DEF TypeOK
  <1>5. UNCHANGED <<listener, heard, rpc>>
    BY DEF InterceptorStep, TakeRequest, OtherDecides, HitlDecides, PluginDecides, PluginPanics,
           InterceptorEnds, listenVars
  <1>6. /\ Plain("agent_start")' = Plain("agent_start")
        /\ Event("tool_begin", Id)' = Event("tool_begin", Id)
    BY <1>3 DEF Plain, Event
  <1>7. ASSUME asking' \in 0..Len(Plugins), approved' \subseteq CallIds,
               request' \in {request, None}, interceptor' \in {"alive", "ended", "panicked"},
               reply' \in {"none", "continue", "skip", "abort", "error"},
               eventTx' \subseteq eventTx
        PROVE  TypeOK'
    BY <1>1, <1>2, <1>5, <1>7 DEF TypeOK
  <1>8. CASE TakeRequest
    <2>1. TypeOK'
      BY <1>2, <1>4, <1>7, <1>8 DEF TakeRequest, TypeOK
    <2>2. Intercepting'
      BY <1>1, <1>2, <1>6, <1>8 DEF TakeRequest, Intercepting
    <2> QED
      BY <1>3, <2>1, <2>2 DEF Base
  <1>9. ASSUME NEW d \in {"continue", "skip", "abort"}, PluginDecides(d), asking # 0,
               approved' \subseteq CallIds
        PROVE  Base'
    <2>1. asking' \in 0..Len(Plugins)
      BY <1>4, <1>9 DEF PluginDecides, LastAsked
    <2>2. UNCHANGED <<interceptor, eventTx>>
      BY <1>9 DEF PluginDecides
    <2>3. request' \in {request, None} /\ reply' \in {reply, d}
      BY <1>9 DEF PluginDecides
    <2>4. TypeOK'
      BY <1>2, <1>7, <1>9, <2>1, <2>2, <2>3 DEF TypeOK
    <2>5. apc \in {"started", "decide"} /\ interceptor = "alive" /\ reply = "none" /\ request # None
      BY <1>9, AskedAbout
    <2>6. Intercepting'
      BY <1>1, <1>2, <1>4, <1>6, <1>9, <2>2, <2>5 DEF PluginDecides, Intercepting
    <2> QED
      BY <1>3, <2>4, <2>6 DEF Base
  <1>10. CASE OtherDecides
    BY <1>2, <1>9, <1>10 DEF OtherDecides, TypeOK
  <1>11. CASE HitlDecides
    <2>1. NeedsToolApproval => request.call \in CallIds
      BY <1>11, AskedAbout DEF HitlDecides, NeedsToolApproval
    <2>2. approved \subseteq CallIds
      BY <1>2 DEF TypeOK
    <2> QED
      BY <1>9, <1>11, <2>1, <2>2 DEF HitlDecides
  <1>12. CASE PluginPanics
    <2>1. TypeOK'
      BY <1>2, <1>4, <1>7, <1>12 DEF PluginPanics, TypeOK
    <2>2. apc \in {"started", "decide"}
      BY <1>12, AskedAbout DEF PluginPanics
    <2>3. Intercepting'
      BY <1>1, <1>2, <1>12, <2>2 DEF PluginPanics, Intercepting
    <2> QED
      BY <1>3, <2>1, <2>3 DEF Base
  <1>13. CASE InterceptorEnds
    <2>1. TypeOK'
      BY <1>2, <1>4, <1>7, <1>13 DEF InterceptorEnds, TypeOK
    <2>2. apc = "ended" /\ asking = 0
      BY <1>2, <1>13 DEF InterceptorEnds, Where, Intercepting
    <2>3. Intercepting'
      BY <1>1, <1>2, <1>13, <2>2 DEF InterceptorEnds, Intercepting
    <2> QED
      BY <1>3, <2>1, <2>3 DEF Base
  <1> QED
    BY <1>8, <1>10, <1>11, <1>12, <1>13 DEF InterceptorStep

LEMMA JoinersBase ==
  ASSUME Base, ListenerStep \/ RunInputStep
  PROVE  Base'
  <1>1. UNCHANGED <<apc, iteration, calls, call, history, partial, context, executed, result, emitted, pluginTx>>
    BY OthersKeepTask DEF taskVars
  <1>2. UNCHANGED <<interceptor, asking, approved, request, reply>>
    BY DEF ListenerStep, RunInputStep, Listen, ListenerEnds, JoinTask, JoinInterceptor,
           JoinListeners, pluginVars
  <1>3. Where' /\ Intercepting'
    BY <1>1, <1>2 DEF Base, Where, Intercepting, Id, Plain, Event
  <1>4. /\ listener' \in {"alive", "closed", "lagged", "aborted"}
        /\ heard' \in Nat
        /\ eventTx' \subseteq eventTx
        /\ rpc' \in {"task", "interceptor", "listeners", "returned"}
    BY DEF Base, TypeOK, ListenerStep, RunInputStep, Listen, ListenerEnds, JoinTask,
           JoinInterceptor, JoinListeners, listenVars
  <1>5. TypeOK'
    BY <1>1, <1>2, <1>4 DEF Base, TypeOK
  <1> QED
    BY <1>3, <1>5 DEF Base

LEMMA BaseStep ==
  ASSUME Base, [Next]_vars
  PROVE  Base'
  <1>1. CASE TaskStep
    BY <1>1, TaskTyped, TaskWhere, TaskIntercepting DEF Base
  <1>2. CASE InterceptorStep
    BY <1>2, InterceptorBase
  <1>3. CASE ListenerStep \/ RunInputStep
    BY <1>3, JoinersBase
  <1>4. CASE UNCHANGED vars
    BY <1>4 DEF vars, taskVars, pluginVars, listenVars, Base, TypeOK, Where, Intercepting, Id, Plain, Event
  <1> QED
    BY <1>1, <1>2, <1>3, <1>4 DEF Next

(* The agent task, the interceptor, the listener and run_input keep to      *)
(* their states; the event under interception is always the one the agent   *)
(* task waits for, and an interceptor that ended did so after the task.     *)
THEOREM RunBase == Spec => []Base
  <1>1. Init => Base
    BY BaseInit
  <1>2. Base /\ [Next]_vars => Base'
    BY BaseStep
  <1> QED
    BY <1>1, <1>2, PTL DEF Spec

(* -- the listener ------------------------------------------------------------- *)

(* Who holds a sender of the event broadcast, and what a listener that saw  *)
(* the broadcast closed has heard.                                          *)
Channels ==
    /\ "task" \in eventTx <=> apc # "ended"
    /\ "interceptor" \in eventTx <=> interceptor = "alive"
    /\ "run_input" \in eventTx <=> rpc \in {"task", "interceptor"}
    /\ listener = "closed" => heard = Len(emitted) /\ eventTx = {}
    /\ rpc = "returned" => listener # "alive"

LEMMA ChannelsStep ==
  ASSUME Base, Channels, [Next]_vars
  PROVE  Channels'
  <1>1. CASE TaskStep
    <2>1. UNCHANGED <<interceptor, listener, heard, rpc>>
      BY <1>1 DEF TaskStep, EmitStart, StartDecided, NextIteration, LlmFails, LlmAnswers,
             LlmCallsTools, BeginCall, CallDecided, ExecuteTool, ToolPanics, pluginVars, listenVars
    <2>2. apc # "ended"
      BY <1>1 DEF TaskStep, EmitStart, StartDecided, NextIteration, LlmFails, LlmAnswers,
             LlmCallsTools, BeginCall, CallDecided, ExecuteTool, ToolPanics
    <2>3. \/ apc' = "ended" /\ eventTx' = eventTx \ {"task"}
          \/ apc' # "ended" /\ eventTx' = eventTx
      BY <1>1 DEF TaskStep, EmitStart, StartDecided, NextIteration, LlmFails, LlmAnswers,
             LlmCallsTools, BeginCall, CallDecided, CloseCall, ExecuteTool, ToolPanics, TaskEnds,
             TaskGoesOn
    <2> QED
      BY <2>1, <2>2, <2>3 DEF Channels
  <1>2. CASE InterceptorStep
    <2>1. UNCHANGED <<apc, emitted, listener, heard, rpc>>
      BY <1>2, OthersKeepTask
      DEF InterceptorStep, TakeRequest, OtherDecides, HitlDecides, PluginDecides, PluginPanics,
          InterceptorEnds, listenVars, taskVars
    <2>2. asking # 0 => interceptor = "alive"
      BY AskedAbout
    <2>3. \/ UNCHANGED <<interceptor, eventTx>>
          \/ /\ interceptor = "alive" /\ interceptor' # "alive"
             /\ eventTx' = eventTx \ {"interceptor"}
      BY <1>2, <2>2
      DEF InterceptorStep, TakeRequest, OtherDecides, HitlDecides, PluginDecides, PluginPanics,
          InterceptorEnds
    <2> QED
      BY <2>1, <2>3 DEF Channels
  <1>3. CASE ListenerStep
    BY <1>3 DEF ListenerStep, Listen, ListenerEnds, Closed, Channels, taskVars, pluginVars
  <1>4. CASE RunInputStep
    <2>1. UNCHANGED <<apc, emitted, interceptor, heard>>
      BY <1>4 DEF RunInputStep, JoinTask, JoinInterceptor, JoinListeners, taskVars, pluginVars, listenVars
    <2>2. CASE JoinTask
      BY <2>1, <2>2 DEF JoinTask, Channels
    <2>3. CASE JoinInterceptor \/ JoinListeners
      BY <2>1, <2>3 DEF JoinInterceptor, JoinListeners, Channels, listenVars
    <2> QED
      BY <1>4, <2>2, <2>3 DEF RunInputStep
  <1>5. CASE UNCHANGED vars
    BY <1>5 DEF vars, taskVars, pluginVars, listenVars, Channels
  <1> QED
    BY <1>1, <1>2, <1>3, <1>4, <1>5 DEF Next

(* run_input returns only after the listener saw the broadcast closed, and  *)
(* that is after its last sender was dropped and its last event processed,  *)
(* unless the listener lagged or was aborted.                               *)
THEOREM ListenerHears == Spec => []ListenerHeardAll
  <1>1. Init => Base /\ Channels
    BY BaseInit DEF Init, Channels
  <1>2. Base /\ Channels /\ [Next]_vars => (Base /\ Channels)'
    BY BaseStep, ChannelsStep
  <1>3. Base /\ Channels => ListenerHeardAll
    BY DEF Base, TypeOK, Channels, ListenerHeardAll
  <1> QED
    BY <1>1, <1>2, <1>3, PTL DEF Spec

(* -- approval ----------------------------------------------------------------- *)

(* Whether a call needs an approval, and has it or can go without.          *)
Gated(id) == id[2] \in Restricted /\ "hitl" \in Range(Plugins)
Cleared(id) == Gated(id) => id \in approved \/ interceptor = "panicked"

(* A call is cleared when the chain has let it pass; while the chain is at  *)
(* work, the plugins before the one being asked have let it pass.           *)
Approval ==
    /\ \A id \in executed : Cleared(id)
    /\ apc = "execute" => Cleared(Id)
    /\ apc = "decide" /\ reply \in {"continue", "error"} => Cleared(Id)
    /\ apc = "decide" /\ asking # 0 /\ Id[2] \in Restricted =>
          \A k \in 1..(asking - 1) : Plugins[k] = "hitl" => Id \in approved

LEMMA ApprovalStep ==
  ASSUME Base, Approval, [Next]_vars
  PROVE  Approval'
  <1>1. CASE TaskStep
    <2>1. UNCHANGED <<interceptor, asking, approved>>
      BY <1>1 DEF TaskStep, EmitStart, StartDecided, NextIteration, LlmFails, LlmAnswers,
             LlmCallsTools, BeginCall, CallDecided, ExecuteTool, ToolPanics, pluginVars
    <2>2. \A id : Cleared(id)' <=> Cleared(id)
      BY <2>1 DEF Cleared, Gated
    <2>3. CASE BeginCall
      <3>1. asking = 0 /\ reply' \in {"none", "error"} /\ Id' = Id
        BY <2>3 DEF BeginCall, Intercept, Base, Intercepting, Id
      <3>2. reply' = "error" => interceptor = "panicked"
        BY <2>3 DEF BeginCall, Intercept, Base, TypeOK, Intercepting
      <3> QED
        BY <2>1, <2>2, <2>3, <3>1, <3>2 DEF BeginCall, TaskGoesOn, Approval, Cleared
    <2>4. CASE CallDecided
      <3>1. apc' # "decide"
        BY <2>4 DEF CallDecided, CloseCall, TaskGoesOn, TaskEnds
      <3>2. apc' = "execute" => Cleared(Id) /\ Id' = Id
        BY <2>4 DEF CallDecided, CloseCall, TaskGoesOn, TaskEnds, MayExecute, Approval, Id
      <3> QED
        BY <2>1, <2>2, <2>4, <3>1, <3>2 DEF CallDecided, Approval, Cleared, Gated
    <2>5. CASE ExecuteTool \/ ToolPanics
      <3>1. apc' \notin {"decide", "execute"} /\ Cleared(Id) /\ executed' = executed \cup {Id}
        BY <2>5 DEF ExecuteTool, ToolPanics, CloseCall, TaskGoesOn, TaskEnds, Approval
      <3> QED
        BY <2>2, <3>1 DEF Approval
    <2>6. CASE ~(BeginCall \/ CallDecided \/ ExecuteTool \/ ToolPanics)
      <3>1. apc' \notin {"decide", "execute"} /\ executed' = executed
        BY <1>1, <2>6 DEF TaskStep, EmitStart, StartDecided, NextIteration, LlmFails, LlmAnswers,
               LlmCallsTools, TaskGoesOn, TaskEnds
      <3> QED
        BY <2>2, <3>1 DEF Approval
    <2> QED
      BY <2>3, <2>4, <2>5, <2>6
  <1>2. CASE InterceptorStep
    <2>1. UNCHANGED <<apc, executed>> /\ Id' = Id
      BY <1>2, OthersKeepTask DEF taskVars, Id
    <2>2. approved \subseteq approved' /\ (interceptor = "panicked" => interceptor' = "panicked")
      BY <1>2, AskedAbout
      DEF InterceptorStep, TakeRequest, OtherDecides, HitlDecides, PluginDecides, PluginPanics,
          InterceptorEnds
    <2>3. \A id : Cleared(id) => Cleared(id)'
      BY <2>2 DEF Cleared, Gated
    <2>4. \A id \in executed' : Cleared(id)'
      BY <2>1, <2>3 DEF Approval
    <2>5. apc' = "execute" => Cleared(Id)'
      BY <2>1, <2>3 DEF Approval
    <2>6. asking \in Nat /\ asking <= Len(Plugins) /\ Plugins \in Seq({"hitl", "other"})
      BY RunAssumption DEF Base, TypeOK
    <2>7. ASSUME NEW d \in {"continue", "skip", "abort"}, PluginDecides(d), asking # 0, apc = "decide",
                 Id[2] \in Restricted,
                 d = "continue" /\ Plugins[asking] = "hitl" => Id \in approved'
          PROVE  /\ reply' \in {"continue", "error"} => Cleared(Id)'
                 /\ asking' # 0 => \A k \in 1..(asking' - 1) : Plugins[k] = "hitl" => Id \in approved'
      <3>1. reply = "none"
        BY <2>7, AskedAbout
      <3>2. \A k \in 1..(asking - 1) : Plugins[k] = "hitl" => Id \in approved'
        BY <2>2, <2>7 DEF Approval
      <3>3. d = "continue" => \A k \in 1..asking : Plugins[k] = "hitl" => Id \in approved'
        BY <2>6, <2>7, <3>2
      <3>4. CASE d = "continue" /\ ~LastAsked
        BY <2>6, <2>7, <3>1, <3>3, <3>4 DEF PluginDecides
      <3>5. CASE d = "continue" /\ LastAsked
        <4>1. "hitl" \in Range(Plugins) => \E k \in 1..Len(Plugins) : Plugins[k] = "hitl"
          BY <2>6 DEF Range
        <4>2. Cleared(Id)'
          BY <2>1, <3>3, <3>5, <4>1 DEF LastAsked, Cleared, Gated
        <4> QED
          BY <2>7, <3>5, <4>2 DEF PluginDecides
      <3>6. CASE d # "continue"
        BY <2>7, <3>6 DEF PluginDecides
      <3> QED
        BY <3>4, <3>5, <3>6
    <2>8. ASSUME apc = "decide", Id[2] \in Restricted
          PROVE  /\ reply' \in {"continue", "error"} => Cleared(Id)'
                 /\ asking' # 0 => \A k \in 1..(asking' - 1) : Plugins[k] = "hitl" => Id \in approved'
      <3>1. CASE TakeRequest
        BY <2>1, <2>3, <2>8, <3>1 DEF TakeRequest, Approval
      <3>2. CASE OtherDecides
        BY <2>7, <2>8, <3>2 DEF OtherDecides
      <3>3. CASE HitlDecides
        <4>1. request.kind = "tool_begin" /\ request.call = Id
          BY <2>8, <3>3, AskedAbout DEF HitlDecides
        <4>2. NeedsToolApproval
          BY <2>8, <4>1 DEF NeedsToolApproval
        <4> QED
          BY <2>7, <2>8, <3>3, <4>1, <4>2 DEF HitlDecides
      <3>4. CASE PluginPanics
        BY <3>4 DEF PluginPanics, Cleared
      <3>5. CASE InterceptorEnds
        BY <2>1, <2>3, <2>8, <3>5 DEF InterceptorEnds, Approval, Base, Intercepting
      <3> QED
        BY <1>2, <3>1, <3>2, <3>3, <3>4, <3>5 DEF InterceptorStep
    <2>9. Id[2] \notin Restricted => Cleared(Id)'
      BY <2>1 DEF Cleared, Gated
    <2> QED
      BY <2>1, <2>4, <2>5, <2>8, <2>9 DEF Approval
  <1>3. CASE ListenerStep \/ RunInputStep \/ UNCHANGED vars
    <2>1. UNCHANGED <<apc, iteration, call, executed, interceptor, asking, approved, reply>>
      BY <1>3, OthersKeepTask
      DEF ListenerStep, RunInputStep, Listen, ListenerEnds, JoinTask, JoinInterceptor,
          JoinListeners, vars, taskVars, pluginVars
    <2> QED
      BY <2>1 DEF Approval, Cleared, Gated, Id
  <1> QED
    BY <1>1, <1>2, <1>3 DEF Next

(* A tool the HITL trigger names runs only after the human, or the timeout  *)
(* rule, approved the call, wherever the HITL plugin stands in the chain;   *)
(* the exception is a chain that panicked, whose closed channel counts as   *)
(* Continue.                                                                *)
THEOREM ApprovalFirst == Spec => []ApprovedBeforeExecuted
  <1>1. Init => Base /\ Approval
    BY BaseInit DEF Init, Approval
  <1>2. Base /\ Approval /\ [Next]_vars => (Base /\ Approval)'
    BY BaseStep, ApprovalStep
  <1>3. Approval => ApprovedBeforeExecuted
    BY DEF Approval, ApprovedBeforeExecuted, Cleared, Gated
  <1> QED
    BY <1>1, <1>2, <1>3, PTL DEF Spec

(* -- the session and the events ------------------------------------------------ *)

LEMMA EmitRange ==
  ASSUME emitted \in Seq(Events), NEW es \in Seq(Events), Emit(es)
  PROVE  Range(emitted') = Range(emitted) \cup Range(es)
  BY RangeConcatenation DEF Emit

LEMMA EmitsOne ==
  ASSUME emitted \in Seq(Events), NEW a \in Events, Emit(<<a>>)
  PROVE  Range(emitted') = Range(emitted) \cup {a}
  <1>1. <<a>> \in Seq(Events) /\ Range(<<a>>) = {a}
    BY DEF Range
  <1> QED
    BY <1>1, EmitRange

LEMMA EmitsTwo ==
  ASSUME emitted \in Seq(Events), NEW a \in Events, NEW b \in Events, Emit(<<a, b>>)
  PROVE  Range(emitted') = Range(emitted) \cup {a, b}
  <1>1. <<a, b>> \in Seq(Events) /\ Range(<<a, b>>) = {a, b}
    BY DEF Range
  <1> QED
    BY <1>1, EmitRange

LEMMA EmitsThree ==
  ASSUME emitted \in Seq(Events), NEW a \in Events, NEW b \in Events, NEW c \in Events,
         Emit(<<a, b, c>>)
  PROVE  Range(emitted') = Range(emitted) \cup {a, b, c}
  <1>1. <<a, b, c>> \in Seq(Events) /\ Range(<<a, b, c>>) = {a, b, c}
    BY DEF Range
  <1> QED
    BY <1>1, EmitRange

(* The events that are not about a tool call.                               *)
PlainEvents == {Plain(k) : k \in Kinds \ (Closings \cup {"tool_begin"})}

LEMMA PlainFacts ==
  /\ \A k \in Kinds \ (Closings \cup {"tool_begin"}) : Plain(k) \in PlainEvents
  /\ PlainEvents \subseteq Events
  /\ \A e \in PlainEvents : e.kind \in Kinds \ (Closings \cup {"tool_begin"})
  BY PlainTyped DEF PlainEvents

(* What a step adds to the broadcast: events that are not about a call, and *)
(* at most one about the call at hand.                                      *)
Adds(es) ==
    /\ Range(emitted) \cup es \subseteq Range(emitted')
    /\ Range(emitted') \subseteq Range(emitted) \cup es \cup PlainEvents

LEMMA AddsTwo ==
  ASSUME emitted \in Seq(Events), NEW a \in Events, NEW b \in PlainEvents,
         Emit(<<a>>) \/ Emit(<<a, b>>)
  PROVE  Adds({a}) /\ (a \in PlainEvents => Adds({}))
  <1>1. b \in Events
    BY PlainFacts
  <1>2. CASE Emit(<<a>>)
    <2>1. Range(emitted') = Range(emitted) \cup {a}
      BY <1>2, EmitsOne
    <2> QED
      BY <2>1 DEF Adds
  <1>3. CASE Emit(<<a, b>>)
    <2>1. Range(emitted') = Range(emitted) \cup {a, b}
      BY <1>1, <1>3, EmitsTwo
    <2> QED
      BY <2>1 DEF Adds
  <1> QED
    BY <1>2, <1>3

LEMMA TaskTells ==
  ASSUME Base, TaskStep
  PROVE  \/ (ToolPanics \/ apc # "execute") /\ Adds({})
         \/ BeginCall /\ Adds({Event("tool_begin", Id)})
         \/ CallDecided /\ CloseCall("tool_skipped") /\ Adds({Event("tool_skipped", Id)})
         \/ ExecuteTool /\ \E k \in {"tool_complete", "tool_error"} : Adds({Event(k, Id)})
  <1>1. emitted \in Seq(Events)
    BY DEF Base, TypeOK, Events
  <1>2. /\ Plain("agent_start") \in PlainEvents /\ Plain("agent_aborted") \in PlainEvents
        /\ Plain("max_iterations") \in PlainEvents /\ Plain("llm_start") \in PlainEvents
        /\ Plain("llm_complete") \in PlainEvents /\ Plain("llm_error") \in PlainEvents
        /\ Plain("iteration_complete") \in PlainEvents /\ Plain("agent_complete") \in PlainEvents
        /\ PlainEvents \subseteq Events
    BY PlainFacts DEF Kinds, Closings
  <1>3. emitted' = emitted => Adds({})
    BY DEF Adds
  <1>4. \A a \in PlainEvents : Emit(<<a>>) => Adds({})
    BY <1>1, <1>2, AddsTwo
  <1>5. \A a, b \in PlainEvents : Emit(<<a, b>>) => Adds({})
    BY <1>1, <1>2, AddsTwo
  <1>6. CASE EmitStart \/ StartDecided
    BY <1>2, <1>3, <1>4, <1>6 DEF EmitStart, StartDecided
  <1>7. CASE NextIteration
    BY <1>2, <1>3, <1>4, <1>5, <1>7 DEF NextIteration, LimitEvents
  <1>8. CASE LlmFails
    BY <1>2, <1>5, <1>8 DEF LlmFails, FailureEvents
  <1>9. CASE LlmAnswers
    <2>1. Emit(<<Plain("llm_complete"), Plain("iteration_complete"), Plain("agent_complete")>>)
             => Adds({})
      BY <1>1, <1>2, EmitsThree DEF Adds
    <2> QED
      BY <1>2, <1>5, <1>9, <2>1 DEF LlmAnswers
  <1>10. CASE \E n \in 1..MaxCalls : LlmCallsTools(n)
    BY <1>2, <1>4, <1>10 DEF LlmCallsTools
  <1>11. ASSUME apc \in {"call", "decide", "execute"}, NEW k \in Closings \cup {"tool_begin"},
                Emit(<<Event(k, Id)>>) \/ CloseCall(k)
         PROVE  Adds({Event(k, Id)})
    <2>1. Event(k, Id) \in Events
      BY <1>11, IdTyped, EventTyped DEF Base, Kinds
    <2> QED
      BY <1>1, <1>2, <1>11, <2>1, AddsTwo DEF CloseCall
  <1>12. CASE BeginCall
    BY <1>11, <1>12 DEF BeginCall
  <1>13. CASE CallDecided
    <2>1. CASE CloseCall("tool_skipped")
      BY <1>11, <1>13, <2>1 DEF CallDecided, Closings
    <2>2. CASE ~CloseCall("tool_skipped")
      BY <1>2, <1>3, <1>4, <1>13, <2>2 DEF CallDecided
    <2> QED
      BY <2>1, <2>2
  <1>14. CASE ExecuteTool
    <2>1. PICK k \in {"tool_complete", "tool_error"} : Emit(<<Event(k, Id)>>) \/ CloseCall(k)
      BY <1>14 DEF ExecuteTool
    <2> QED
      BY <1>11, <1>14, <2>1 DEF ExecuteTool, Closings
  <1>15. CASE ToolPanics
    <2>1. emitted' = emitted
      BY <1>15 DEF ToolPanics
    <2> QED
      BY <1>3, <1>15, <2>1 DEF ToolPanics
  <1> QED
    BY <1>6, <1>7, <1>8, <1>9, <1>10, <1>12, <1>13, <1>14, <1>15 DEF TaskStep

LEMMA HistoryAppend ==
  ASSUME history \in Seq(Messages), NEW m \in Messages, history' = Append(history, m)
  PROVE  /\ Range(history') = Range(history) \cup {m}
         /\ Len(history) \in Nat /\ Len(history') = Len(history) + 1
         /\ history'[Len(history) + 1] = m
         /\ \A i \in 1..Len(history) : history'[i] = history[i]
  <1>1. <<m>> \in Seq(Messages) /\ Range(<<m>>) = {m}
    BY DEF Range
  <1>2. history' = history \o <<m>>
    BY AppendIsConcat
  <1>3. Range(history') = Range(history) \cup {m}
    <2>1. Range(history \o <<m>>) = Range(history) \cup Range(<<m>>)
      BY <1>1, RangeConcatenation
    <2> QED
      BY <1>1, <1>2, <2>1
  <1> QED
    BY <1>3, AppendProperties

(* An event about a call is no other event.                                 *)
LEMMA CallEvents ==
  ASSUME NEW k \in Closings \cup {"tool_begin"}, NEW id \in CallIds
  PROVE  /\ Event(k, id) \notin PlainEvents
         /\ \A k2, id2 : Event(k2, id2) = Event(k, id) => k2 = k /\ id2 = id
  <1>1. Event(k, id).kind = k
    BY DEF Event
  <1>2. Event(k, id) \notin PlainEvents
    BY <1>1, PlainFacts
  <1> QED
    BY <1>2 DEF Event

Told(id) == Emitted("tool_complete", id) \/ Emitted("tool_error", id)
Saved(id) == Message("tool", {id}) \in Range(history)
Tells == \A id \in CallIds : /\ Saved(id) => Told(id)
                             /\ Told(id) /\ ~Saved(id) => result = "failed" /\ id = Id

LEMMA TaskTellsAll ==
  ASSUME Base, Tells, TaskStep
  PROVE  Tells'
  <1>1. result = "none"
    BY DEF Base, Where, TaskStep, EmitStart, StartDecided, NextIteration, LlmFails,
           LlmAnswers, LlmCallsTools, BeginCall, CallDecided, ExecuteTool, ToolPanics
  <1>2. \A id \in CallIds : Told(id) <=> Saved(id)
    BY <1>1 DEF Tells
  <1>3. history \in Seq(Messages)
    BY DEF Base, TypeOK, Messages, AllIds
  <1>4. CASE ToolPanics
    BY <1>2, <1>4 DEF ToolPanics, Tells, Told, Saved, Emitted, Message, Event
  <1>5. CASE ExecuteTool /\ ~ToolPanics
    <2>1. Id \in CallIds
      BY <1>5, IdTyped DEF ExecuteTool, Base
    <2>2. PICK k \in {"tool_complete", "tool_error"} : Adds({Event(k, Id)})
      BY <1>5, TaskTells DEF ExecuteTool, BeginCall, CallDecided
    <2>3. \A id \in CallIds : Told(id)' <=> Told(id) \/ id = Id
      <3>1. \A id \in CallIds :
               /\ Event("tool_complete", id) \notin PlainEvents
               /\ Event("tool_error", id) \notin PlainEvents
               /\ \A k2 \in {"tool_complete", "tool_error"} : Event(k2, id) = Event(k, Id) => id = Id
        BY CallEvents, <2>1 DEF Closings
      <3> QED
        BY <2>2, <3>1 DEF Adds, Told, Emitted
    <2>4. CASE history' = Append(history, ToolResult)
      <3>1. ToolResult \in Messages /\ \A id \in CallIds : Message("tool", {id}) = ToolResult <=> id = Id
        BY <2>1 DEF ToolResult, Message, Messages, AllIds, Roles
      <3>2. Range(history') = Range(history) \cup {ToolResult}
        BY <1>3, <2>4, <3>1, HistoryAppend
      <3>3. \A id \in CallIds : Saved(id)' <=> Saved(id) \/ id = Id
        BY <3>1, <3>2 DEF Saved
      <3> QED
        BY <1>2, <2>3, <3>3 DEF Tells
    <2>5. CASE history' = history /\ TaskEnds("failed") /\ UNCHANGED call
      <3>1. Id' = Id /\ result' = "failed"
        BY <1>5, <2>5 DEF ExecuteTool, Id, TaskEnds
      <3>2. \A id \in CallIds : Saved(id)' <=> Saved(id)
        BY <2>5 DEF Saved, Message
      <3> QED
        BY <1>2, <2>3, <3>1, <3>2 DEF Tells
    <2> QED
      BY <1>5, <2>4, <2>5 DEF ExecuteTool
  <1>6. CASE ~ExecuteTool /\ ~ToolPanics
    <2>1. apc # "execute"
      BY <1>6 DEF TaskStep, EmitStart, StartDecided, NextIteration, LlmFails,
             LlmAnswers, LlmCallsTools, BeginCall, CallDecided
    <2>2. \/ Adds({})
          \/ \E k \in {"tool_begin", "tool_skipped"} : apc \in {"call", "decide"} /\ Adds({Event(k, Id)})
      BY <1>6, <2>1, TaskTells DEF BeginCall, CallDecided
    <2>3. apc \in {"call", "decide"} => Id \in CallIds
      BY IdTyped DEF Base
    <2>4. \A id \in CallIds : Told(id)' <=> Told(id)
      <3>1. \A id \in CallIds :
               /\ Event("tool_complete", id) \notin PlainEvents
               /\ Event("tool_error", id) \notin PlainEvents
               /\ \A k \in {"tool_begin", "tool_skipped"} : /\ Event(k, Id) # Event("tool_complete", id)
                                                            /\ Event(k, Id) # Event("tool_error", id)
        BY CallEvents DEF Closings
      <3> QED
        BY <2>2, <3>1 DEF Adds, Told, Emitted
    <2>5. \/ history' = history
          \/ \E ids : history' = Append(history, Message("assistant", ids))
      BY <1>6 DEF TaskStep, EmitStart, StartDecided, NextIteration, LlmFails,
             LlmAnswers, LlmCallsTools, BeginCall, CallDecided
    <2>6. \A id \in CallIds : Saved(id)' <=> Saved(id)
      <3>1. CASE history' = history
        BY <3>1 DEF Saved, Message
      <3>2. ASSUME NEW ids, history' = Append(history, Message("assistant", ids))
            PROVE  \A id \in CallIds : Saved(id)' <=> Saved(id)
        <4>1. history' \in Seq(Messages) /\ Len(history) \in Nat
          BY <1>3, TaskRecords
        <4>2. Message("assistant", ids) \in Messages
          BY <1>3, <3>2, <4>1
        <4>3. Range(history') = Range(history) \cup {Message("assistant", ids)}
          BY <1>3, <3>2, <4>2, HistoryAppend
        <4>4. \A id : Message("tool", {id}) # Message("assistant", ids)
          BY DEF Message
        <4> QED
          BY <4>3, <4>4 DEF Saved
      <3> QED
        BY <2>5, <3>1, <3>2
    <2> QED
      BY <1>2, <2>4, <2>6 DEF Tells
  <1> QED
    BY <1>4, <1>5, <1>6

(* The session holds the result of a call exactly when the listeners were   *)
(* told of it; only the last announcement of a run that failed while saving *)
(* the tool message can be missing from the session.                        *)
THEOREM SessionTellsEvents == Spec => []HistoryTellsEvents
  <1>1. Init => Base /\ Tells
    <2>1. ASSUME Init, NEW id \in CallIds PROVE ~Told(id) /\ ~Saved(id)
      <3>1. ~Told(id)
        BY <2>1 DEF Init, Told, Emitted, Range
      <3>2. PICK p \in Prior : history = Append(p, Message("user", {}))
        BY <2>1 DEF Init
      <3>3. id \notin EarlierIds
        BY DEF CallIds, EarlierIds
      <3>4. p \in Seq(Messages) /\ \A i \in 1..Len(p) : p[i] # Message("tool", {id})
        BY <3>3, PriorSeq DEF Message
      <3>5. Message("user", {}) # Message("tool", {id})
        BY DEF Message
      <3>0. PICK u \in Messages : u = Message("user", {})
        BY DEF Message, Messages, Roles
      <3>a. PICK t : t = Message("tool", {id})
        OBVIOUS
      <3>b. /\ Len(p) \in Nat /\ Len(history) = Len(p) + 1 /\ history[Len(p) + 1] = u
            /\ \A i \in 1..Len(p) : history[i] = p[i]
        BY <3>0, <3>2, <3>4, AppendProperties
      <3>c. \A i \in 1..Len(history) : i \in 1..Len(p) \/ i = Len(p) + 1
        BY <3>b
      <3>d. u # t /\ \A i \in 1..Len(p) : p[i] # t
        BY <3>0, <3>a, <3>4, <3>5
      <3>6. \A i \in 1..Len(history) : history[i] # Message("tool", {id})
        BY <3>a, <3>b, <3>c, <3>d
      <3>7. DOMAIN history = 1..Len(history)
        BY <3>2, <3>4
      <3> QED
        BY <3>1, <3>6, <3>7 DEF Saved, Range
    <2> QED
      BY <2>1, BaseInit DEF Tells
  <1>2. Base /\ Tells /\ [Next]_vars => (Base /\ Tells)'
    <2> SUFFICES ASSUME Base, Tells, [Next]_vars PROVE Tells'
      BY BaseStep
    <2>1. CASE TaskStep
      BY <2>1, TaskTellsAll
    <2>2. CASE ~TaskStep
      <3>1. UNCHANGED <<iteration, call, history, result, emitted>>
        BY <2>2, OthersKeepTask DEF Next, vars, taskVars
      <3> QED
        BY <3>1 DEF Tells, Told, Saved, Emitted, Event, Message, Id
    <2> QED
      BY <2>1, <2>2
  <1>3. Tells => HistoryTellsEvents
    BY DEF Tells, Told, Saved, HistoryTellsEvents
  <1> QED
    BY <1>1, <1>2, <1>3, PTL DEF Spec

(* -- the context of an LLM call ------------------------------------------------ *)

(* Calls the task is done with, and calls of the current answer that it has *)
(* still to handle.                                                         *)
AtCalls == apc \in {"call", "decide", "execute"}

Past(id) ==
    \/ id \in EarlierIds
    \/ id[1] < iteration
    \/ id[1] = iteration /\ apc = "iterate"
    \/ id[1] = iteration /\ AtCalls /\ id[2] < call

Pending(id) == id[1] = iteration /\ AtCalls /\ call <= id[2] /\ id[2] <= calls

AnsweredAfter(id, i) == \E j \in (i + 1)..Len(history) : history[j] = Message("tool", {id})

CalledBefore(id, i) == \E j \in 1..(i - 1) : history[j].role = "assistant" /\ id \in history[j].calls

(* A call of an earlier run that was left without result.                   *)
LeftOpen(id) ==
    id \in EarlierIds /\ \A j \in 1..Len(history) : history[j] # Message("tool", {id})

OneResult ==
    \A i, j \in 1..Len(history) : history[i].role = "tool" /\ history[i] = history[j] => i = j

CallsAnswered ==
    \A i \in 1..Len(history) : history[i].role = "assistant" =>
        \A id \in history[i].calls :
            Emitted("tool_skipped", id) \/ Pending(id) \/ AnsweredAfter(id, i) \/ LeftOpen(id)

ResultsCalled ==
    \A i \in 1..Len(history) : history[i].role = "tool" =>
        \E id \in AllIds : history[i] = Message("tool", {id}) /\ Past(id) /\ CalledBefore(id, i)

CurrentAnswer ==
    AtCalls => \E j \in 1..Len(history) :
                  /\ history[j].role = "assistant"
                  /\ \A k \in 1..calls : <<iteration, k>> \in history[j].calls

(* The session of a run that goes on: calls before their results, one       *)
(* result for a call, and an answer for every call but the skipped ones and *)
(* those still to be handled.                                               *)
Records ==
    apc # "ended" /\ ~partial =>
        /\ OneResult /\ CallsAnswered /\ ResultsCalled /\ CurrentAnswer
        /\ apc = "llm" => context \in {Window, <<>>}

(* A compressed session stays so, and no call of an earlier run is handled. *)
LEMMA Earlier ==
  ASSUME Base
  PROVE  /\ TaskStep /\ partial => partial'
         /\ \A id \in EarlierIds : ~Pending(id) /\ id \notin CallIds
         /\ apc' # "ended" => \A id \in EarlierIds : Past(id)'
  <1>1. TaskStep /\ partial => partial'
    BY DEF TaskStep, EmitStart, StartDecided, NextIteration, BuildContext, LlmFails, LlmAnswers,
           LlmCallsTools, BeginCall, CallDecided, ExecuteTool, ToolPanics, Base, TypeOK
  <1>2. AtCalls => iteration # 0
    BY DEF AtCalls, Base, Where
  <1>3. \A id \in EarlierIds : ~Pending(id) /\ id \notin CallIds
    BY <1>2 DEF EarlierIds, CallIds, Pending
  <1> QED
    BY <1>1, <1>3 DEF Past

LEMMA CallIdsTyped ==
  ASSUME NEW id \in CallIds
  PROVE  /\ id[1] \in 1..MaxIterations /\ id[2] \in 1..MaxCalls /\ id = <<id[1], id[2]>>
         /\ id[1] = iteration /\ id[2] = call => id = Id
  BY DEF CallIds, Id

LEMMA TaskMoves ==
  ASSUME Base, TaskStep, apc' # "ended", NEW id \in AllIds
  PROVE  /\ Past(id) => Past(id)'
         /\ Pending(id) => 
              \/ Pending(id)'
              \/ id = Id /\ apc \in {"decide", "execute"} /\ apc' \in {"call", "iterate"}
  <1>0. CASE id \in EarlierIds
    BY <1>0, Earlier DEF Past
  <1> SUFFICES ASSUME id \in CallIds, id \notin EarlierIds
               PROVE  /\ Past(id) => Past(id)'
                      /\ Pending(id) =>
                           \/ Pending(id)'
                           \/ id = Id /\ apc \in {"decide", "execute"} /\ apc' \in {"call", "iterate"}
    BY <1>0 DEF AllIds
  <1>1. /\ iteration \in Nat /\ calls \in Nat /\ call \in Nat /\ id[1] \in Nat /\ id[2] \in Nat
        /\ id[1] = iteration /\ id[2] = call => id = Id
        /\ AtCalls => call \in 1..calls
    BY CallIdsTyped, RunAssumption DEF Base, TypeOK, Where, AtCalls
  <1>2. CASE EmitStart \/ StartDecided
    <2>1. ~AtCalls /\ ~AtCalls' /\ apc # "iterate" /\ iteration' = iteration
      BY <1>2 DEF EmitStart, StartDecided, TaskGoesOn, TaskEnds, AtCalls
    <2> QED
      BY <2>1 DEF Past, Pending
  <1>3. CASE NextIteration
    <2>1. apc = "iterate" /\ ~AtCalls /\ iteration' = iteration + 1
      BY <1>3 DEF NextIteration, AtCalls
    <2> QED
      BY <1>1, <2>1 DEF Past, Pending
  <1>4. CASE \E n \in 1..MaxCalls : LlmCallsTools(n)
    <2>1. apc = "llm" /\ ~AtCalls /\ iteration' = iteration
      BY <1>4 DEF LlmCallsTools, AtCalls
    <2> QED
      BY <1>1, <2>1 DEF Past, Pending
  <1>5. CASE BeginCall
    <2>1. AtCalls /\ AtCalls' /\ UNCHANGED <<iteration, call, calls>> /\ apc # "iterate"
      BY <1>5 DEF BeginCall, TaskGoesOn, AtCalls
    <2> QED
      BY <1>1, <2>1 DEF Past, Pending
  <1>6. CASE CallDecided \/ ExecuteTool
    <2>1. apc \in {"decide", "execute"} /\ AtCalls /\ UNCHANGED <<iteration, calls>>
      BY <1>6 DEF CallDecided, ExecuteTool, AtCalls
    <2>2. \/ apc' = "execute" /\ call' = call
          \/ apc' = "call" /\ call < calls /\ call' = call + 1
          \/ apc' = "iterate" /\ ~(call < calls)
      BY <1>6 DEF CallDecided, ExecuteTool, CloseCall, MoreCalls, TaskGoesOn, TaskEnds
    <2>3. CASE apc' = "execute" /\ call' = call
      BY <1>1, <2>1, <2>3 DEF Past, Pending, AtCalls
    <2>4. CASE apc' = "call" /\ call < calls /\ call' = call + 1
      BY <1>1, <2>1, <2>4 DEF Past, Pending, AtCalls
    <2>5. CASE apc' = "iterate" /\ ~(call < calls)
      BY <1>1, <2>1, <2>5 DEF Past, Pending, AtCalls
    <2> QED
      BY <2>2, <2>3, <2>4, <2>5
  <1>7. CASE LlmFails \/ LlmAnswers \/ ToolPanics
    BY <1>7 DEF LlmFails, LlmAnswers, ToolPanics, TaskEnds
  <1> QED
    BY <1>2, <1>3, <1>4, <1>5, <1>6, <1>7 DEF TaskStep

(* A step that saves nothing closes at most the call at hand, by skipping it. *)
LEMMA QuietRecords ==
  ASSUME Base, Records, TaskStep, apc' # "ended", history' = history
  PROVE  Records'
  <1> SUFFICES ASSUME ~partial' PROVE Records'
    BY DEF Records
  <1>1. apc # "ended" /\ ~partial
    BY Earlier
       DEF TaskStep, EmitStart, StartDecided, NextIteration, LlmFails, LlmAnswers, LlmCallsTools,
           BeginCall, CallDecided, ExecuteTool, ToolPanics
  <1>2. history \in Seq(Messages)
    BY DEF Base, TypeOK, Messages, AllIds
  <1>3. \A i \in 1..Len(history) : history[i].calls \subseteq AllIds
    <2>1. \A m \in Messages : m.calls \subseteq AllIds
      BY DEF Messages
    <2> QED
      BY <1>2, <2>1
  <1>4. OneResult'
    BY <1>1 DEF Records, OneResult
  <1>5. Range(emitted) \subseteq Range(emitted')
    BY TaskTells DEF Adds
  <1>6. \A id, i : (AnsweredAfter(id, i) <=> AnsweredAfter(id, i)') /\ (CalledBefore(id, i) <=> CalledBefore(id, i)')
    BY DEF AnsweredAfter, CalledBefore, Message
  <1>7. ~ExecuteTool /\ ~\E n \in 1..MaxCalls : LlmCallsTools(n)
    <2>1. \A m : Append(history, m) # history
      BY <1>2
    <2> QED
      BY <2>1 DEF ExecuteTool, LlmCallsTools, TaskEnds
  <1>8. apc \in {"decide", "execute"} /\ apc' \in {"call", "iterate"} =>
           Event("tool_skipped", Id) \in Range(emitted')
    <2> SUFFICES ASSUME apc \in {"decide", "execute"}, apc' \in {"call", "iterate"}
                 PROVE  Event("tool_skipped", Id) \in Range(emitted')
      OBVIOUS
    <2>1. CallDecided
      BY <1>7 DEF TaskStep, EmitStart, StartDecided, NextIteration, LlmFails, LlmAnswers,
             BeginCall, ToolPanics, TaskEnds
    <2>2. CloseCall("tool_skipped") /\ Id \in CallIds
      BY <2>1, IdTyped DEF CallDecided, TaskGoesOn, TaskEnds, Base
    <2>3. Event("tool_skipped", Id) \in Events /\ Plain("iteration_complete") \in PlainEvents
      BY <2>2, EventTyped, PlainFacts DEF Kinds, Closings
    <2>4. Adds({Event("tool_skipped", Id)})
      BY <2>2, <2>3, AddsTwo DEF CloseCall, Base, TypeOK, Events
    <2> QED
      BY <2>4 DEF Adds
  <1>9. CallsAnswered'
    <2> SUFFICES ASSUME NEW i \in 1..Len(history), history[i].role = "assistant", NEW id \in history[i].calls
                 PROVE  \/ Emitted("tool_skipped", id)' \/ Pending(id)'
                        \/ AnsweredAfter(id, i)' \/ LeftOpen(id)'
      BY DEF CallsAnswered
    <2>1. Emitted("tool_skipped", id) \/ Pending(id) \/ AnsweredAfter(id, i) \/ LeftOpen(id)
      BY <1>1 DEF Records, CallsAnswered
    <2>2. id \in AllIds
      BY <1>3
    <2>3. Emitted("tool_skipped", id) => Emitted("tool_skipped", id)'
      BY <1>5 DEF Emitted, Event
    <2>4. Pending(id) => Pending(id)' \/ Emitted("tool_skipped", id)'
      <3> SUFFICES ASSUME Pending(id), ~Pending(id)' PROVE Emitted("tool_skipped", id)'
        OBVIOUS
      <3>1. id = Id /\ apc \in {"decide", "execute"} /\ apc' \in {"call", "iterate"}
        BY <2>2, TaskMoves
      <3>2. Event("tool_skipped", id) \in Range(emitted')
        BY <1>8, <3>1
      <3> QED
        BY <3>2 DEF Emitted, Event
    <2>5. LeftOpen(id) => LeftOpen(id)'
      BY DEF LeftOpen, Message
    <2> QED
      BY <1>6, <2>1, <2>3, <2>4, <2>5
  <1>10. ResultsCalled'
    <2> SUFFICES ASSUME NEW i \in 1..Len(history), history[i].role = "tool"
                 PROVE  \E id \in AllIds : history[i] = Message("tool", {id})' /\ Past(id)' /\ CalledBefore(id, i)'
      BY DEF ResultsCalled
    <2>1. PICK id \in AllIds : history[i] = Message("tool", {id}) /\ Past(id) /\ CalledBefore(id, i)
      BY <1>1 DEF Records, ResultsCalled
    <2>2. Past(id)'
      BY <2>1, TaskMoves
    <2> QED
      BY <1>6, <2>1, <2>2 DEF Message
  <1>11. CurrentAnswer'
    <2>1. AtCalls' => AtCalls /\ UNCHANGED <<iteration, calls>>
      BY <1>7 DEF TaskStep, EmitStart, StartDecided, NextIteration, LlmFails, LlmAnswers,
             BeginCall, CallDecided, CloseCall, ToolPanics, TaskEnds, TaskGoesOn, AtCalls
    <2> QED
      BY <1>1, <2>1 DEF Records, CurrentAnswer
  <1>12. apc' = "llm" => context' \in {Window', <<>>}
    BY <1>1, <1>7
    DEF TaskStep, EmitStart, StartDecided, NextIteration, BuildContext, LlmFails, LlmAnswers, BeginCall,
        CallDecided, CloseCall, ToolPanics, TaskEnds, TaskGoesOn, Window
  <1> QED
    BY <1>4, <1>9, <1>10, <1>11, <1>12 DEF Records

(* What an append keeps: the results and the calls found before.            *)
LEMMA AppendKeeps ==
  ASSUME history \in Seq(Messages), NEW m \in Messages, history' = Append(history, m),
         NEW i \in 1..Len(history), NEW id \in AllIds
  PROVE  /\ AnsweredAfter(id, i) => AnsweredAfter(id, i)'
         /\ m = Message("tool", {id}) => AnsweredAfter(id, i)'
         /\ CalledBefore(id, i) => CalledBefore(id, i)'
         /\ history[i].role = "assistant" /\ id \in history[i].calls
               => \A n \in Nat : n > i => CalledBefore(id, n)'
  <1>1. /\ Len(history) \in Nat /\ Len(history') = Len(history) + 1
        /\ history'[Len(history) + 1] = m
        /\ \A j \in 1..Len(history) : history'[j] = history[j]
    BY HistoryAppend
  <1>2. Message("tool", {id})' = Message("tool", {id})
    BY DEF Message
  <1>3. AnsweredAfter(id, i) => AnsweredAfter(id, i)'
    BY <1>1, <1>2 DEF AnsweredAfter
  <1>4. m = Message("tool", {id}) => AnsweredAfter(id, i)'
    BY <1>1, <1>2 DEF AnsweredAfter
  <1>5. CalledBefore(id, i) => CalledBefore(id, i)'
    BY <1>1 DEF CalledBefore
  <1>6. history[i].role = "assistant" /\ id \in history[i].calls
           => \A n \in Nat : n > i => CalledBefore(id, n)'
    BY <1>1 DEF CalledBefore
  <1> QED
    BY <1>3, <1>4, <1>5, <1>6

LEMMA CallsInMessages ==
  ASSUME history \in Seq(Messages), NEW i \in 1..Len(history)
  PROVE  history[i] \in Messages /\ history[i].calls \subseteq AllIds
  <1>1. \A m \in Messages : m.calls \subseteq AllIds
    BY DEF Messages
  <1> QED
    BY <1>1

(* The answer is saved before its calls are handled.                        *)
LEMMA AnswerRecords ==
  ASSUME Base, Records, NEW n \in 1..MaxCalls, LlmCallsTools(n), apc' # "ended"
  PROVE  Records'
  <1> SUFFICES ASSUME ~partial' PROVE Records'
    BY DEF Records
  <1>1. TaskStep /\ apc = "llm" /\ apc' = "call" /\ ~partial
    BY DEF TaskStep, LlmCallsTools, TaskEnds, TaskGoesOn
  <1> DEFINE m == Message("assistant", {<<iteration, k>> : k \in 1..n})
  <1>2. /\ history' = Append(history, m) /\ calls' = n /\ call' = 1
        /\ UNCHANGED iteration
    BY DEF LlmCallsTools, TaskEnds
  <1>3. history \in Seq(Messages) /\ history' \in Seq(Messages) /\ Len(history) \in Nat
    BY <1>1, TaskRecords DEF Base, TypeOK, Messages, AllIds
  <1>4. m.role = "assistant" /\ m.calls = {<<iteration, k>> : k \in 1..n}
    BY DEF Message
  <1> HIDE DEF m
  <1>5. m \in Messages
    BY <1>2, <1>3
  <1>6. /\ Len(history') = Len(history) + 1
        /\ history'[Len(history) + 1] = m
        /\ \A j \in 1..Len(history) : history'[j] = history[j]
    BY <1>2, <1>3, <1>5, HistoryAppend
  <1>7. iteration \in Nat /\ n \in Nat
    BY DEF Base, TypeOK
  <1>8. OneResult'
    BY <1>1, <1>3, <1>4, <1>6 DEF Records, OneResult
  <1>9. CallsAnswered'
    <2> SUFFICES ASSUME NEW i \in 1..Len(history'), history'[i].role = "assistant", NEW id \in history'[i].calls
                 PROVE  \/ Emitted("tool_skipped", id)' \/ Pending(id)'
                        \/ AnsweredAfter(id, i)' \/ LeftOpen(id)'
      BY DEF CallsAnswered
    <2>1. CASE i = Len(history) + 1
      <3>1. PICK k \in 1..n : id = <<iteration, k>>
        BY <1>4, <1>6, <2>1
      <3>2. id[1] = iteration' /\ call' <= id[2] /\ id[2] <= calls'
        BY <1>2, <3>1
      <3> QED
        BY <1>1, <3>2 DEF Pending, AtCalls
    <2>2. CASE i \in 1..Len(history)
      <3>1. history[i].role = "assistant" /\ id \in history[i].calls /\ id \in AllIds
        BY <1>3, <1>6, <2>2, CallsInMessages
      <3>2. Emitted("tool_skipped", id) \/ AnsweredAfter(id, i) \/ LeftOpen(id)
        BY <1>1, <2>2, <3>1 DEF Records, CallsAnswered, Pending, AtCalls
      <3>3. Range(emitted) \subseteq Range(emitted')
        BY <1>1, TaskTells DEF Adds
      <3>4. Emitted("tool_skipped", id) => Emitted("tool_skipped", id)'
        BY <3>3 DEF Emitted, Event
      <3>5. AnsweredAfter(id, i) => AnsweredAfter(id, i)'
        BY <1>2, <1>3, <1>5, <2>2, <3>1, AppendKeeps
      <3>6. m # Message("tool", {id})
        BY <1>4 DEF Message
      <3>7. LeftOpen(id) => LeftOpen(id)'
        <4>1. \A j \in 1..Len(history') : j \in 1..Len(history) \/ j = Len(history) + 1
          BY <1>3, <1>6
        <4> QED
          BY <1>6, <3>6, <4>1 DEF LeftOpen, Message
      <3> QED
        BY <3>2, <3>4, <3>5, <3>7
    <2> QED
      BY <1>3, <1>6, <2>1, <2>2
  <1>10. ResultsCalled'
    <2> SUFFICES ASSUME NEW i \in 1..Len(history'), history'[i].role = "tool"
                 PROVE  \E id \in AllIds : /\ history'[i] = Message("tool", {id})'
                                           /\ Past(id)' /\ CalledBefore(id, i)'
      BY DEF ResultsCalled
    <2>1. i \in 1..Len(history) /\ history'[i] = history[i] /\ history[i].role = "tool"
      BY <1>3, <1>4, <1>6
    <2>2. PICK id \in AllIds : history[i] = Message("tool", {id}) /\ Past(id) /\ CalledBefore(id, i)
      BY <1>1, <2>1 DEF Records, ResultsCalled
    <2>3. Past(id)'
      BY <1>1, <2>2, TaskMoves
    <2>4. CalledBefore(id, i)'
      BY <1>2, <1>3, <1>5, <2>1, <2>2, AppendKeeps
    <2> QED
      BY <2>1, <2>2, <2>3, <2>4 DEF Message
  <1>11. CurrentAnswer'
    <2>1. history'[Len(history) + 1].role = "assistant"
          /\ \A k \in 1..calls' : <<iteration', k>> \in history'[Len(history) + 1].calls
      BY <1>2, <1>4, <1>6
    <2> QED
      BY <1>3, <1>6, <2>1 DEF CurrentAnswer
  <1> QED
    BY <1>1, <1>8, <1>9, <1>10, <1>11 DEF Records

(* The result of a call is saved after the answer that made the call, once. *)
LEMMA ResultRecords ==
  ASSUME Base, Records, ExecuteTool, apc' # "ended"
  PROVE  Records'
  <1> SUFFICES ASSUME ~partial' PROVE Records'
    BY DEF Records
  <1>p. ~partial
    BY DEF ExecuteTool
  <1>1. TaskStep /\ apc = "execute" /\ apc' \in {"call", "iterate"} /\ Id \in CallIds /\ AtCalls
    BY IdTyped DEF TaskStep, ExecuteTool, CloseCall, TaskEnds, TaskGoesOn, Base, AtCalls
  <1>2. /\ history' = Append(history, ToolResult)
        /\ UNCHANGED <<iteration, calls>>
        /\ (apc' = "call" /\ call' = call + 1) \/ apc' = "iterate"
    BY DEF ExecuteTool, CloseCall, TaskGoesOn, TaskEnds
  <1>3. history \in Seq(Messages) /\ history' \in Seq(Messages) /\ Len(history) \in Nat
    BY <1>1, TaskRecords DEF Base, TypeOK, Messages, AllIds
  <1>4. ToolResult.role = "tool" /\ ToolResult = Message("tool", {Id}) /\ ToolResult \in Messages
    BY <1>1, MessageTyped DEF ToolResult, Roles
  <1>5. /\ Len(history') = Len(history) + 1
        /\ history'[Len(history) + 1] = ToolResult
        /\ \A j \in 1..Len(history) : history'[j] = history[j]
    BY <1>2, <1>3, <1>4, HistoryAppend
  <1>6. Records /\ OneResult /\ CallsAnswered /\ ResultsCalled /\ CurrentAnswer
    BY <1>p, <1>1 DEF Records
  <1>7. call \in 1..calls /\ iteration \in Nat /\ call \in Nat
    BY <1>1, RunAssumption DEF Base, Where, TypeOK
  <1>0. PICK me \in CallIds : me = Id /\ me \in AllIds
    BY <1>1 DEF AllIds
  <1>8. ~Past(me) /\ Past(me)'
    <2>1. me[1] = iteration /\ me[2] = call
      BY <1>0 DEF Id
    <2>0. me \notin EarlierIds
      BY Earlier
    <2>2. ~Past(me)
      BY <1>1, <1>7, <2>0, <2>1 DEF Past
    <2>3. CASE apc' = "call" /\ call' = call + 1
      BY <1>2, <1>7, <2>1, <2>2, <2>3 DEF Past, AtCalls
    <2>4. CASE apc' = "iterate"
      BY <1>2, <1>7, <2>1, <2>2, <2>4 DEF Past
    <2> QED
      BY <1>2, <2>2, <2>3, <2>4
  <1>9. OneResult'
    <2>1. \A i \in 1..Len(history) : history[i].role = "tool" => history[i] # ToolResult
      <3> SUFFICES ASSUME NEW i \in 1..Len(history), history[i].role = "tool", history[i] = ToolResult
                   PROVE  FALSE
        OBVIOUS
      <3>1. PICK id \in AllIds : history[i] = Message("tool", {id}) /\ Past(id)
        BY <1>6 DEF ResultsCalled
      <3>2. id = me
        BY <1>4, <1>0, <3>1 DEF Message
      <3> QED
        BY <1>8, <3>1, <3>2
    <2> SUFFICES ASSUME NEW i \in 1..Len(history'), NEW j \in 1..Len(history'),
                        history'[i].role = "tool", history'[i] = history'[j]
                 PROVE  i = j
      BY DEF OneResult
    <2>2. /\ i \in 1..Len(history) \/ i = Len(history) + 1
          /\ j \in 1..Len(history) \/ j = Len(history) + 1
      BY <1>3, <1>5
    <2>3. i \in 1..Len(history) /\ j \in 1..Len(history) => i = j
      BY <1>5, <1>6 DEF OneResult
    <2> QED
      BY <1>5, <2>1, <2>2, <2>3
  <1>10. CallsAnswered'
    <2> SUFFICES ASSUME NEW i \in 1..Len(history'), history'[i].role = "assistant", NEW id \in history'[i].calls
                 PROVE  \/ Emitted("tool_skipped", id)' \/ Pending(id)'
                        \/ AnsweredAfter(id, i)' \/ LeftOpen(id)'
      BY DEF CallsAnswered
    <2>1. i \in 1..Len(history) /\ history'[i] = history[i]
      BY <1>3, <1>4, <1>5
    <2>2. id \in history[i].calls /\ id \in AllIds
      BY <1>3, <2>1, CallsInMessages
    <2>3. Emitted("tool_skipped", id) \/ Pending(id) \/ AnsweredAfter(id, i) \/ LeftOpen(id)
      BY <1>6, <2>1, <2>2 DEF CallsAnswered
    <2>4. Range(emitted) \subseteq Range(emitted')
      BY <1>1, TaskTells DEF Adds
    <2>5. Emitted("tool_skipped", id) => Emitted("tool_skipped", id)'
      BY <2>4 DEF Emitted, Event
    <2>6. /\ AnsweredAfter(id, i) => AnsweredAfter(id, i)'
          /\ ToolResult = Message("tool", {id}) => AnsweredAfter(id, i)'
      BY <1>2, <1>3, <1>4, <2>1, <2>2, AppendKeeps
    <2>7. Pending(id) => Pending(id)' \/ id = Id
      BY <1>1, <2>2, TaskMoves
    <2>8. LeftOpen(id) => LeftOpen(id)'
      <3>1. id \in EarlierIds => ToolResult # Message("tool", {id})
        BY <1>1, <1>4, Earlier DEF Message
      <3>2. \A j \in 1..Len(history') : j \in 1..Len(history) \/ j = Len(history) + 1
        BY <1>3, <1>5
      <3> QED
        BY <1>5, <3>1, <3>2 DEF LeftOpen, Message
    <2> QED
      BY <1>4, <2>3, <2>5, <2>6, <2>7, <2>8
  <1>11. \A n \in Nat : n > Len(history) => CalledBefore(me, n)'
    <2>1. PICK j \in 1..Len(history) : /\ history[j].role = "assistant"
                                       /\ \A k \in 1..calls : <<iteration, k>> \in history[j].calls
      BY <1>1, <1>6 DEF CurrentAnswer
    <2>2. me \in history[j].calls
      BY <1>7, <1>0, <2>1 DEF Id
    <2>3. \A n \in Nat : n > j => CalledBefore(me, n)'
      BY <1>0, <1>2, <1>3, <1>4, <2>1, <2>2, AppendKeeps
    <2> QED
      BY <1>3, <2>3
  <1>12. ResultsCalled'
    <2> SUFFICES ASSUME NEW i \in 1..Len(history'), history'[i].role = "tool"
                 PROVE  \E id \in AllIds : /\ history'[i] = Message("tool", {id})
                                           /\ Past(id)' /\ CalledBefore(id, i)'
      BY DEF ResultsCalled, Message
    <2>1. CASE i = Len(history) + 1
      <3>1. history'[i] = Message("tool", {me}) /\ CalledBefore(me, i)'
        BY <1>3, <1>4, <1>5, <1>11, <1>0, <2>1
      <3> QED
        BY <1>0, <1>8, <3>1
    <2>2. CASE i \in 1..Len(history)
      <3>1. PICK id \in AllIds : history[i] = Message("tool", {id}) /\ Past(id) /\ CalledBefore(id, i)
        BY <1>5, <1>6, <2>2 DEF ResultsCalled
      <3>2. Past(id)'
        BY <1>1, <3>1, TaskMoves
      <3>3. CalledBefore(id, i)'
        BY <1>2, <1>3, <1>4, <2>2, <3>1, AppendKeeps
      <3> QED
        BY <1>5, <2>2, <3>1, <3>2, <3>3
    <2>3. i = Len(history) + 1 \/ i \in 1..Len(history)
      BY <1>3, <1>5
    <2> QED
      BY <2>1, <2>2, <2>3
  <1>13. CurrentAnswer'
    <2>1. \A j \in 1..Len(history) : j \in 1..Len(history') /\ history'[j] = history[j]
      BY <1>3, <1>5
    <2> QED
      BY <1>1, <1>2, <1>6, <2>1 DEF CurrentAnswer
  <1> QED
    BY <1>1, <1>9, <1>10, <1>12, <1>13 DEF Records

LEMMA RecordsStep ==
  ASSUME Base, Records, [Next]_vars
  PROVE  Records'
  <1>1. CASE TaskStep /\ apc' # "ended"
    <2>1. CASE history' = history
      BY <1>1, <2>1, QuietRecords
    <2>2. CASE \E n \in 1..MaxCalls : LlmCallsTools(n)
      BY <1>1, <2>2, AnswerRecords
    <2>3. CASE ExecuteTool
      BY <1>1, <2>3, ResultRecords
    <2> QED
      BY <1>1, <2>1, <2>2, <2>3
      DEF TaskStep, EmitStart, StartDecided, NextIteration, LlmFails, LlmAnswers, BeginCall,
          CallDecided, ToolPanics, TaskEnds
  <1>2. CASE apc' = "ended"
    BY <1>2 DEF Records
  <1>3. CASE ~TaskStep
    <2>1. UNCHANGED <<apc, iteration, calls, call, history, partial, context, emitted>>
      BY <1>3, OthersKeepTask DEF Next, vars, taskVars
    <2>2. \A id : /\ Past(id)' <=> Past(id)
                  /\ Pending(id)' <=> Pending(id)
                  /\ Emitted("tool_skipped", id)' <=> Emitted("tool_skipped", id)
                  /\ LeftOpen(id)' <=> LeftOpen(id)
                  /\ \A i : /\ AnsweredAfter(id, i)' <=> AnsweredAfter(id, i)
                            /\ CalledBefore(id, i)' <=> CalledBefore(id, i)
      BY <2>1 DEF Past, Pending, AtCalls, Emitted, Event, AnsweredAfter, CalledBefore, LeftOpen,
                      Message
    <2>3. (OneResult' <=> OneResult) /\ (CurrentAnswer' <=> CurrentAnswer) /\ Window' = Window
      BY <2>1 DEF OneResult, CurrentAnswer, AtCalls, Window
    <2>4. CallsAnswered => CallsAnswered'
      BY <2>1, <2>2 DEF CallsAnswered
    <2>5. ResultsCalled => ResultsCalled'
      BY <2>1, <2>2 DEF ResultsCalled, Message
    <2> QED
      BY <2>1, <2>3, <2>4, <2>5 DEF Records
  <1> QED
    BY <1>1, <1>2, <1>3

LEMMA WindowShift ==
  ASSUME history \in Seq(Messages)
  PROVE  \E off \in Nat : /\ off # 0 => Len(history) > MaxHistory
                          /\ off <= Len(history)
                          /\ Len(Window) = Len(history) - off
                          /\ \A i \in 1..Len(Window) : /\ i + off \in 1..Len(history)
                                                       /\ Window[i] = history[i + off]
  <1>1. Len(history) \in Nat
    OBVIOUS
  <1>2. CASE Len(history) > MaxHistory
    <2> DEFINE off == Len(history) - MaxHistory
    <2>1. /\ off \in Nat /\ off <= Len(history)
          /\ off + 1 \in 1..(Len(history) + 1) /\ Len(history) \in off..Len(history)
      BY <1>1, <1>2, RunAssumption
    <2>2. Window = SubSeq(history, off + 1, Len(history))
      BY <1>2 DEF Window
    <2>3. /\ Len(Window) = Len(history) - off
          /\ \A i \in 1..(Len(history) - off) : Window[i] = history[(off + 1) + i - 1]
      BY <1>1, <2>1, <2>2
    <2> QED
      BY <1>1, <1>2, <2>1, <2>3
  <1>3. CASE ~(Len(history) > MaxHistory)
    <2>1. Window = history
      BY <1>3 DEF Window
    <2>2. /\ 0 \in Nat /\ 0 <= Len(history) /\ Len(Window) = Len(history) - 0
          /\ \A i \in 1..Len(Window) : i + 0 \in 1..Len(history) /\ Window[i] = history[i + 0]
      BY <1>1, <2>1
    <2> QED
      BY <2>2
  <1> QED
    BY <1>2, <1>3

LEMMA RecordsPaired ==
  ASSUME Base, Records
  PROVE  ContextPaired
  <1> SUFFICES ASSUME apc = "llm", ~partial, context # <<>>
               PROVE  \A i \in 1..Len(context) :
                         /\ context[i].role = "assistant" =>
                               \A id \in context[i].calls :
                                  \/ Emitted("tool_skipped", id)
                                  \/ id \in EarlierIds /\ Message("tool", {id}) \notin Range(history)
                                  \/ Cardinality({j \in (i + 1)..Len(context) :
                                                     context[j] = Message("tool", {id})}) = 1
                         /\ context[i].role = "tool" =>
                               \/ Len(history) > MaxHistory
                               \/ \E j \in 1..(i - 1) : context[j].role = "assistant"
                                                        /\ context[i].calls \subseteq context[j].calls
    <2>1. context = <<>> => 1..Len(context) = {}
      OBVIOUS
    <2> QED
      BY <2>1 DEF ContextPaired
  <1>1. /\ history \in Seq(Messages) /\ Len(history) \in Nat /\ context = Window
        /\ OneResult /\ CallsAnswered /\ ResultsCalled /\ ~AtCalls
    BY DEF Base, TypeOK, Messages, AllIds, Records, AtCalls
  <1>2. PICK off \in Nat : /\ off # 0 => Len(history) > MaxHistory
                           /\ off <= Len(history)
                           /\ Len(context) = Len(history) - off
                           /\ \A i \in 1..Len(context) : /\ i + off \in 1..Len(history)
                                                         /\ context[i] = history[i + off]
    BY <1>1, WindowShift
  <1> TAKE i \in 1..Len(context)
  <1>3. ASSUME context[i].role = "assistant", NEW id \in context[i].calls,
               ~Emitted("tool_skipped", id), ~LeftOpen(id)
        PROVE  Cardinality({j \in (i + 1)..Len(context) : context[j] = Message("tool", {id})}) = 1
    <2>1. AnsweredAfter(id, i + off)
      BY <1>1, <1>2, <1>3 DEF CallsAnswered, Pending
    <2>2. PICK n \in (i + off + 1)..Len(history) : history[n] = Message("tool", {id})
      BY <2>1 DEF AnsweredAfter
    <2>3. n - off \in (i + 1)..Len(context) /\ context[n - off] = Message("tool", {id})
      BY <1>1, <1>2, <2>2
    <2>4. Message("tool", {id}).role = "tool"
      BY DEF Message
    <2>5. \A j \in (i + 1)..Len(context) : context[j] = Message("tool", {id}) => j = n - off
      BY <1>1, <1>2, <2>2, <2>4 DEF OneResult
    <2>6. {j \in (i + 1)..Len(context) : context[j] = Message("tool", {id})} = {n - off}
      BY <2>3, <2>5
    <2> QED
      BY <2>6, FS_Singleton
  <1>4. ASSUME context[i].role = "tool", ~(Len(history) > MaxHistory)
        PROVE  \E j \in 1..(i - 1) : context[j].role = "assistant"
                                     /\ context[i].calls \subseteq context[j].calls
    <2>1. off = 0 /\ Len(context) = Len(history) /\ i \in 1..Len(history)
          /\ \A k \in 1..Len(history) : context[k] = history[k]
      BY <1>1, <1>2, <1>4
    <2>2. PICK id \in AllIds : history[i] = Message("tool", {id}) /\ CalledBefore(id, i)
      BY <1>1, <1>4, <2>1 DEF ResultsCalled
    <2>3. PICK j \in 1..(i - 1) : history[j].role = "assistant" /\ id \in history[j].calls
      BY <2>2 DEF CalledBefore
    <2>4. history[i].calls = {id}
      BY <2>2 DEF Message
    <2> QED
      BY <1>1, <2>1, <2>3, <2>4
  <1>5. \A id : LeftOpen(id) => id \in EarlierIds /\ Message("tool", {id}) \notin Range(history)
    <2>1. DOMAIN history = 1..Len(history)
      BY <1>1
    <2>2. \A id : LeftOpen(id) => \A j \in DOMAIN history : history[j] # Message("tool", {id})
      BY <2>1 DEF LeftOpen
    <2> QED
      BY <2>2 DEF LeftOpen, Range
  <1> QED
    BY <1>3, <1>4, <1>5

(* A session that earlier runs left well is a good start.                   *)
LEMMA PriorRecords ==
  ASSUME Init, ~partial
  PROVE  OneResult /\ CallsAnswered /\ ResultsCalled
  <1>1. PICK p \in Prior : history = Append(p, Message("user", {})) /\ WellLeft(p)
    BY DEF Init
  <1>0. Message("user", {}) \in Messages /\ Message("user", {}).role = "user"
    BY MessageTyped DEF Roles
  <1>2. PICK u \in Messages : u = Message("user", {}) /\ u.role = "user"
    BY <1>0
  <1>3. p \in Seq(Messages) /\ \A i \in 1..Len(p) : p[i].calls \subseteq EarlierIds
    BY PriorSeq
  <1>4. /\ Len(p) \in Nat /\ Len(history) = Len(p) + 1 /\ history[Len(p) + 1].role = "user"
        /\ \A i \in 1..Len(p) : history[i] = p[i]
    BY <1>1, <1>2, <1>3, AppendProperties
  <1>5. \A i \in 1..Len(history) :
           history[i].role # "user" => i \in 1..Len(p) /\ history[i] = p[i]
    <2>1. \A i \in 1..Len(history) : i \in 1..Len(p) \/ i = Len(p) + 1
      BY <1>4
    <2> QED
      BY <1>4, <2>1
  <1>6. \A i \in 1..Len(p) : p[i].role = "tool" =>
           /\ \E j \in 1..(i - 1) : /\ p[j].role = "assistant"
                                    /\ \E id \in p[j].calls : p[i] = Message("tool", {id})
           /\ \A j \in 1..Len(p) : p[j] = p[i] => j = i
    BY <1>1 DEF WellLeft
  <1>7. \A i, j \in 1..Len(p) :
           p[i].role = "assistant" /\ p[j].role = "assistant" /\ p[i].calls \cap p[j].calls # {} => i = j
    BY <1>1 DEF WellLeft
  <1>8. OneResult
    BY <1>5, <1>6 DEF OneResult
  <1>9. ResultsCalled
    <2> SUFFICES ASSUME NEW i \in 1..Len(history), history[i].role = "tool"
                 PROVE  \E id \in AllIds : /\ history[i] = Message("tool", {id})
                                           /\ Past(id) /\ CalledBefore(id, i)
      BY DEF ResultsCalled
    <2>1. i \in 1..Len(p) /\ history[i] = p[i]
      BY <1>5
    <2>2. PICK j \in 1..(i - 1) : /\ p[j].role = "assistant"
                                  /\ \E id \in p[j].calls : p[i] = Message("tool", {id})
      BY <1>6, <2>1
    <2>3. PICK id \in p[j].calls : p[i] = Message("tool", {id})
      BY <2>2
    <2>4. j \in 1..Len(p) /\ history[j] = p[j]
      BY <1>4, <2>1, <2>2
    <2>5. id \in EarlierIds /\ CalledBefore(id, i)
      BY <1>3, <2>2, <2>3, <2>4 DEF CalledBefore
    <2> QED
      BY <2>1, <2>3, <2>5 DEF Past, AllIds
  <1>10. CallsAnswered
    <2> SUFFICES ASSUME NEW i \in 1..Len(history), history[i].role = "assistant",
                        NEW id \in history[i].calls, ~LeftOpen(id)
                 PROVE  AnsweredAfter(id, i)
      BY DEF CallsAnswered
    <2>1. i \in 1..Len(p) /\ history[i] = p[i] /\ id \in EarlierIds
      BY <1>3, <1>5
    <2>2. PICK n \in 1..Len(history) : history[n] = Message("tool", {id})
      BY <2>1 DEF LeftOpen
    <2>3. history[n].role = "tool" /\ history[n].calls = {id}
      BY <2>2 DEF Message
    <2>4. n \in 1..Len(p) /\ history[n] = p[n]
      BY <1>5, <2>3
    <2>5. PICK j \in 1..(n - 1) : /\ p[j].role = "assistant"
                                  /\ \E x \in p[j].calls : p[n] = Message("tool", {x})
      BY <1>6, <2>3, <2>4
    <2>6. id \in p[j].calls
      BY <2>3, <2>4, <2>5 DEF Message
    <2>7. j = i
      BY <1>4, <1>7, <2>1, <2>4, <2>5, <2>6
    <2> QED
      BY <1>4, <2>2, <2>4, <2>5, <2>7 DEF AnsweredAfter
  <1> QED
    BY <1>8, <1>9, <1>10

(* In the context of an LLM call that was read from a whole session every   *)
(* tool call is followed by exactly one result, unless a plugin skipped it  *)
(* or an earlier run left it open, and a result without its call is the     *)
(* work of the history window.                                              *)
THEOREM ContextIsPaired == Spec => []ContextPaired
  <1>1. Init => Base /\ Records
    <2> SUFFICES ASSUME Init PROVE Records
      BY BaseInit
    <2>1. CASE partial
      BY <2>1 DEF Records
    <2>2. CASE ~partial
      <3>1. OneResult /\ CallsAnswered /\ ResultsCalled
        BY <2>2, PriorRecords
      <3> QED
        BY <3>1 DEF Init, Records, CurrentAnswer, AtCalls
    <2> QED
      BY <2>1, <2>2
  <1>2. Base /\ Records /\ [Next]_vars => (Base /\ Records)'
    BY BaseStep, RecordsStep
  <1>3. Base /\ Records => ContextPaired
    BY RecordsPaired
  <1> QED
    BY <1>1, <1>2, <1>3, PTL DEF Spec

(* -- counted events ------------------------------------------------------------ *)

CountIn(s, k) == Cardinality({i \in 1..Len(s) : s[i].kind = k})
One(e, k) == IF e.kind = k THEN 1 ELSE 0

LEMMA CountAppend ==
  ASSUME NEW s \in Seq(Events), NEW e \in Events, NEW k
  PROVE  /\ CountIn(s, k) \in Nat
         /\ CountIn(Append(s, e), k) = CountIn(s, k) + One(e, k)
  <1> DEFINE T == Append(s, e)
             I(q) == {i \in 1..Len(q) : q[i].kind = k}
  <1>1. /\ Len(s) \in Nat /\ Len(T) = Len(s) + 1
        /\ T[Len(s) + 1] = e
        /\ \A i \in 1..Len(s) : T[i] = s[i]
    BY AppendProperties
  <1> HIDE DEF T
  <1>2. IsFiniteSet(I(s)) /\ Cardinality(I(s)) \in Nat
    <2>1. IsFiniteSet(1..Len(s))
      BY <1>1, FS_Interval
    <2>2. I(s) \subseteq 1..Len(s)
      OBVIOUS
    <2>3. IsFiniteSet(I(s))
      BY <2>1, <2>2, FS_Subset
    <2> QED
      BY <2>3, FS_CardinalityType
  <1>3. CASE e.kind = k
    <2>1. I(T) = I(s) \cup {Len(s) + 1}
      BY <1>1, <1>3
    <2>2. Len(s) + 1 \notin I(s)
      BY <1>1
    <2>3. Cardinality(I(T)) = Cardinality(I(s)) + 1
      BY <1>2, <2>1, <2>2, FS_AddElement
    <2> QED
      BY <1>2, <1>3, <2>3 DEF CountIn, One, T
  <1>4. CASE e.kind # k
    <2>1. I(T) = I(s)
      BY <1>1, <1>4
    <2>2. One(e, k) = 0 /\ Cardinality(I(s)) = Cardinality(I(s)) + 0
      BY <1>2, <1>4 DEF One
    <2>3. CountIn(Append(s, e), k) = Cardinality(I(T)) /\ CountIn(s, k) = Cardinality(I(s))
      BY DEF CountIn, T
    <2> QED
      BY <1>2, <2>1, <2>2, <2>3
  <1> QED
    BY <1>3, <1>4

(* The same, for each number of events a step may send.                     *)
LEMMA CountOne ==
  ASSUME emitted \in Seq(Events), NEW a \in Events, NEW k, Emit(<<a>>)
  PROVE  Count(k) \in Nat /\ Count(k)' = Count(k) + One(a, k)
  <1>1. emitted' = Append(emitted, a)
    BY EmitTyped
  <1>2. CountIn(emitted', k) = CountIn(emitted, k) + One(a, k) /\ CountIn(emitted, k) \in Nat
    BY <1>1, CountAppend
  <1>3. Count(k) = CountIn(emitted, k) /\ Count(k)' = CountIn(emitted', k)
    BY DEF Count, CountIn
  <1> QED
    BY <1>2, <1>3

LEMMA CountTwo ==
  ASSUME emitted \in Seq(Events), NEW a \in Events, NEW b \in Events, NEW k, Emit(<<a, b>>)
  PROVE  Count(k) \in Nat /\ Count(k)' = Count(k) + One(a, k) + One(b, k)
  <1>1. emitted' = Append(Append(emitted, a), b)
    BY EmitTyped
  <1>2. Append(emitted, a) \in Seq(Events)
    BY AppendProperties
  <1>3. CountIn(emitted', k) = CountIn(Append(emitted, a), k) + One(b, k)
    BY <1>1, <1>2, CountAppend
  <1>4. CountIn(Append(emitted, a), k) = CountIn(emitted, k) + One(a, k) /\ CountIn(emitted, k) \in Nat
    BY CountAppend
  <1>5. Count(k) = CountIn(emitted, k) /\ Count(k)' = CountIn(emitted', k)
    BY DEF Count, CountIn
  <1> QED
    BY <1>3, <1>4, <1>5

LEMMA CountThree ==
  ASSUME emitted \in Seq(Events), NEW a \in Events, NEW b \in Events, NEW c \in Events, NEW k,
         Emit(<<a, b, c>>)
  PROVE  Count(k) \in Nat /\ Count(k)' = Count(k) + One(a, k) + One(b, k) + One(c, k)
  <1>1. emitted' = Append(Append(Append(emitted, a), b), c)
    BY EmitTyped
  <1>2. Append(emitted, a) \in Seq(Events) /\ Append(Append(emitted, a), b) \in Seq(Events)
    BY AppendProperties
  <1>3. CountIn(emitted', k) = CountIn(Append(Append(emitted, a), b), k) + One(c, k)
    BY <1>1, <1>2, CountAppend
  <1>4. CountIn(Append(Append(emitted, a), b), k) = CountIn(Append(emitted, a), k) + One(b, k)
    BY <1>2, CountAppend
  <1>5. CountIn(Append(emitted, a), k) = CountIn(emitted, k) + One(a, k) /\ CountIn(emitted, k) \in Nat
    BY CountAppend
  <1>6. Count(k) = CountIn(emitted, k) /\ Count(k)' = CountIn(emitted', k)
    BY DEF Count, CountIn
  <1> QED
    BY <1>3, <1>4, <1>5, <1>6

Counted == {"llm_start", "llm_complete", "llm_error", "max_iterations"}

(* LLM calls started, answered and failed, by where the task is.            *)
Counts ==
    /\ \A k \in Counted : Count(k) \in Nat
    /\ Count("llm_start") = Count("llm_complete") + Count("llm_error")
                            + (IF apc = "llm" THEN 1 ELSE 0)
    /\ apc # "ended" => /\ Count("llm_start") = iteration
                        /\ Count("llm_error") = 0 /\ Count("max_iterations") = 0
    /\ Count("llm_start") <= MaxIterations
    /\ Count("max_iterations") = 1 => Count("llm_complete") = MaxIterations

LEMMA PlainOne ==
  ASSUME NEW j \in Kinds
  PROVE  Plain(j) \in Events /\ \A k \in Counted : One(Plain(j), k) = IF j = k THEN 1 ELSE 0
  BY PlainTyped DEF One

LEMMA CountsStep ==
  ASSUME Base, Counts, [Next]_vars
  PROVE  Counts'
  <1>1. emitted \in Seq(Events) /\ iteration \in Nat /\ MaxIterations \in Nat
    BY RunAssumption DEF Base, TypeOK, Events
  <1>2. \A k \in Counted : Count(k) \in Nat
    BY DEF Counts
  <1>3. ASSUME NEW a \in Events, NEW b \in Events, a.kind \notin Counted, b.kind \notin Counted,
               Emit(<<a>>) \/ Emit(<<a, b>>) \/ UNCHANGED emitted
        PROVE  \A k \in Counted : Count(k)' = Count(k)
    <2> TAKE k \in Counted
    <2>1. One(a, k) = 0 /\ One(b, k) = 0
      BY <1>3 DEF One
    <2>2. CASE Emit(<<a>>)
      BY <1>1, <1>2, <1>3, <2>1, <2>2, CountOne
    <2>3. CASE Emit(<<a, b>>)
      BY <1>1, <1>2, <1>3, <2>1, <2>3, CountTwo
    <2>4. CASE UNCHANGED emitted
      BY <2>4 DEF Count
    <2> QED
      BY <1>3, <2>2, <2>3, <2>4
  <1>4. ASSUME \A k \in Counted : Count(k)' = Count(k), apc # "llm", apc' # "llm", apc # "ended",
               UNCHANGED iteration
        PROVE  Counts'
    BY <1>4, <1>2 DEF Counts, Counted
  <1>5. CASE EmitStart \/ StartDecided
    <2>1. /\ Plain("agent_start") \in Events /\ Plain("agent_start").kind \notin Counted
          /\ Plain("agent_aborted") \in Events /\ Plain("agent_aborted").kind \notin Counted
      BY PlainTyped DEF Kinds, Counted
    <2>2. \A k \in Counted : Count(k)' = Count(k)
      BY <1>3, <1>5, <2>1 DEF EmitStart, StartDecided
    <2> QED
      BY <1>4, <1>5, <2>2 DEF EmitStart, StartDecided, TaskGoesOn, TaskEnds
  <1>6. CASE NextIteration
    <2>1. apc = "iterate" /\ iteration <= MaxIterations /\ iteration' = iteration + 1
      BY <1>6 DEF NextIteration, Base, Where
    <2>2. CASE Exhausted(iteration + 1) /\ Emit(LimitEvents) /\ TaskEnds("aborted")
      <3>1. iteration = MaxIterations /\ apc' = "ended"
        BY <1>1, <2>1, <2>2 DEF Exhausted, TaskEnds
      <3>2. /\ Count("llm_start")' = Count("llm_start")
            /\ Count("llm_complete")' = Count("llm_complete")
            /\ Count("llm_error")' = Count("llm_error")
            /\ Count("max_iterations")' = Count("max_iterations") + 1
        BY <1>1, <1>2, <2>2, CountTwo, PlainOne DEF LimitEvents, Counted, Kinds
      <3> QED
        BY <1>1, <1>2, <2>1, <3>1, <3>2 DEF Counts, Counted
    <2>3. CASE ~Exhausted(iteration + 1) /\ Emit(<<Plain("llm_start")>>) /\ TaskGoesOn("llm")
      <3>1. iteration + 1 <= MaxIterations /\ apc' = "llm"
        BY <1>1, <2>1, <2>3 DEF Exhausted, TaskGoesOn
      <3>2. /\ Count("llm_start")' = Count("llm_start") + 1
            /\ Count("llm_complete")' = Count("llm_complete")
            /\ Count("llm_error")' = Count("llm_error")
            /\ Count("max_iterations")' = Count("max_iterations")
        BY <1>1, <1>2, <2>3, CountOne, PlainOne DEF Counted, Kinds
      <3> QED
        BY <1>1, <1>2, <2>1, <3>1, <3>2 DEF Counts, Counted
    <2>4. CASE TaskEnds("failed") /\ UNCHANGED emitted
      BY <1>2, <2>1, <2>4 DEF TaskEnds, Counts, Count, Counted
    <2> QED
      BY <1>6, <2>2, <2>3, <2>4 DEF NextIteration
  <1>7. CASE LlmFails
    <2>1. /\ Count("llm_start")' = Count("llm_start")
          /\ Count("llm_complete")' = Count("llm_complete")
          /\ Count("llm_error")' = Count("llm_error") + 1
          /\ Count("max_iterations")' = Count("max_iterations")
      BY <1>1, <1>2, <1>7, CountTwo, PlainOne DEF LlmFails, FailureEvents, Counted, Kinds
    <2> QED
      BY <1>1, <1>2, <1>7, <2>1 DEF LlmFails, TaskEnds, Counts, Counted
  <1>8. CASE LlmAnswers \/ \E n \in 1..MaxCalls : LlmCallsTools(n)
    <2>1. /\ Count("llm_start")' = Count("llm_start")
          /\ Count("llm_complete")' = Count("llm_complete") + 1
          /\ Count("llm_error")' = Count("llm_error")
          /\ Count("max_iterations")' = Count("max_iterations")
      <3>1. \/ Emit(<<Plain("llm_complete")>>)
            \/ Emit(<<Plain("llm_complete"), Plain("iteration_complete")>>)
            \/ Emit(<<Plain("llm_complete"), Plain("iteration_complete"), Plain("agent_complete")>>)
        BY <1>8 DEF LlmAnswers, LlmCallsTools
      <3> QED
        BY <1>1, <1>2, <3>1, CountOne, CountTwo, CountThree, PlainOne DEF Counted, Kinds
    <2>2. apc = "llm" /\ apc' # "llm" /\ iteration' = iteration
      BY <1>8 DEF LlmAnswers, LlmCallsTools, TaskEnds, TaskGoesOn
    <2> QED
      BY <1>1, <1>2, <2>1, <2>2 DEF Counts, Counted
  <1>9. CASE BeginCall
    <2>1. Event("tool_begin", Id) \in Events /\ Event("tool_begin", Id).kind \notin Counted
      BY <1>9, IdTyped, EventTyped DEF Kinds, Counted, Base, BeginCall
    <2>2. \A k \in Counted : Count(k)' = Count(k)
      BY <1>3, <1>9, <2>1 DEF BeginCall
    <2> QED
      BY <1>4, <1>9, <2>2 DEF BeginCall, TaskGoesOn
  <1>10. CASE CallDecided \/ ExecuteTool \/ ToolPanics
    <2>1. /\ apc \in {"decide", "execute"} /\ iteration' = iteration
          /\ apc' \in {"execute", "call", "iterate", "ended"}
      BY <1>10 DEF CallDecided, ExecuteTool, ToolPanics, CloseCall, TaskEnds, TaskGoesOn
    <2>2. \A k \in Closings : Event(k, Id) \in Events /\ Event(k, Id).kind \notin Counted
      BY <2>1, IdTyped, EventTyped DEF Kinds, Closings, Counted, Base
    <2>3. /\ Plain("iteration_complete") \in Events /\ Plain("iteration_complete").kind \notin Counted
          /\ Plain("agent_aborted") \in Events /\ Plain("agent_aborted").kind \notin Counted
      BY PlainTyped DEF Kinds, Counted
    <2>4. \A k \in Closings : CloseCall(k) \/ Emit(<<Event(k, Id)>>) =>
             \A j \in Counted : Count(j)' = Count(j)
      BY <1>3, <2>2, <2>3 DEF CloseCall
    <2>5. \A j \in Counted : Count(j)' = Count(j)
      <3>1. \/ \E k \in Closings : CloseCall(k) \/ Emit(<<Event(k, Id)>>)
            \/ Emit(<<Plain("agent_aborted")>>) \/ UNCHANGED emitted
        BY <1>10 DEF CallDecided, ExecuteTool, ToolPanics, Closings
      <3> QED
        BY <1>3, <2>3, <2>4, <3>1
    <2> QED
      BY <1>4, <2>1, <2>5
  <1>11. CASE ~TaskStep
    <2>1. UNCHANGED <<apc, iteration, emitted>>
      BY <1>11, OthersKeepTask DEF Next, vars, taskVars
    <2> QED
      BY <2>1 DEF Counts, Count
  <1> QED
    BY <1>5, <1>6, <1>7, <1>8, <1>9, <1>10, <1>11 DEF TaskStep

(* -- the shape of the event stream ---------------------------------------------- *)

Finals == {"agent_complete", "agent_aborted"}

(* A closing event directly follows its own begin event; a begin event left *)
(* open is last, or only an abort follows it; a final event is the last.    *)
Shape(s) ==
    \A i \in 1..Len(s) :
        /\ s[i].kind \in Closings => i > 1 /\ s[i - 1] = Event("tool_begin", s[i].call)
        /\ s[i].kind = "tool_begin" /\ i < Len(s) =>
              \/ s[i + 1].kind \in Closings
              \/ s[i + 1].kind = "agent_aborted" /\ i + 1 = Len(s)
        /\ s[i].kind \in Finals => i = Len(s)

NoFinal(s) == \A i \in 1..Len(s) : s[i].kind \notin Finals

LastKind(s) == IF s = <<>> THEN "none" ELSE s[Len(s)].kind

(* What may follow an open stream: a closing event only the begin event of  *)
(* its call, and such a begin event only a closing event or an abort.       *)
Follows(s, e) ==
    /\ e.kind \in Closings => s # <<>> /\ s[Len(s)] = Event("tool_begin", e.call)
    /\ LastKind(s) = "tool_begin" => e.kind \in Closings \cup {"agent_aborted"}

Open(s) == s \in Seq(Events) /\ Shape(s) /\ NoFinal(s)

LEMMA ShapeGrows ==
  ASSUME NEW s, Open(s), NEW e \in Events, Follows(s, e)
  PROVE  /\ Append(s, e) \in Seq(Events) /\ Shape(Append(s, e))
         /\ Append(s, e) # <<>> /\ Append(s, e)[Len(Append(s, e))] = e
         /\ LastKind(Append(s, e)) = e.kind
         /\ e.kind \notin Finals => Open(Append(s, e))
  <1> DEFINE T == Append(s, e)
  <1>1. /\ s \in Seq(Events) /\ Len(s) \in Nat /\ T \in Seq(Events)
        /\ Len(T) = Len(s) + 1 /\ T # <<>>
        /\ T[Len(s) + 1] = e
        /\ \A i \in 1..Len(s) : T[i] = s[i]
    BY AppendProperties DEF Open
  <1> HIDE DEF T
  <1>2. LastKind(T) = e.kind
    BY <1>1 DEF LastKind
  <1>3. e.kind \notin Finals => NoFinal(T)
    BY <1>1 DEF Open, NoFinal
  <1>4. Shape(T)
    <2> SUFFICES ASSUME NEW i \in 1..Len(T)
                 PROVE  /\ T[i].kind \in Closings => i > 1 /\ T[i - 1] = Event("tool_begin", T[i].call)
                        /\ T[i].kind = "tool_begin" /\ i < Len(T) =>
                              \/ T[i + 1].kind \in Closings
                              \/ T[i + 1].kind = "agent_aborted" /\ i + 1 = Len(T)
                        /\ T[i].kind \in Finals => i = Len(T)
      BY DEF Shape
    <2>1. CASE i = Len(s) + 1
      <3>1. e.kind \in Closings => s # <<>> /\ s[Len(s)] = Event("tool_begin", e.call)
        BY DEF Follows
      <3>2. s # <<>> => Len(s) \in 1..Len(s)
        BY <1>1
      <3> QED
        BY <1>1, <2>1, <3>1, <3>2
    <2>2. CASE i \in 1..(Len(s) - 1)
      <3>1. /\ T[i] = s[i] /\ T[i + 1] = s[i + 1] /\ i \in 1..Len(s) /\ i + 1 \in 1..Len(s)
            /\ i > 1 => T[i - 1] = s[i - 1]
        BY <1>1, <2>2
      <3>2. s[i].kind \notin Finals /\ s[i + 1].kind \notin Finals
        BY <3>1 DEF Open, NoFinal
      <3>3. /\ s[i].kind \in Closings => i > 1 /\ s[i - 1] = Event("tool_begin", s[i].call)
            /\ s[i].kind = "tool_begin" => s[i + 1].kind \in Closings
        BY <1>1, <2>2, <3>1, <3>2 DEF Open, Shape, Finals
      <3> QED
        BY <3>1, <3>2, <3>3
    <2>3. CASE i = Len(s) /\ i # 0
      <3>1. T[i] = s[i] /\ T[i + 1] = e /\ (i > 1 => T[i - 1] = s[i - 1]) /\ i \in 1..Len(s) /\ s # <<>>
        BY <1>1, <2>3
      <3>2. s[i].kind = "tool_begin" => e.kind \in Closings \cup {"agent_aborted"}
        BY <2>3, <3>1 DEF Follows, LastKind
      <3>3. s[i].kind \notin Finals
        BY <3>1 DEF Open, NoFinal
      <3>4. s[i].kind \in Closings => i > 1 /\ s[i - 1] = Event("tool_begin", s[i].call)
        BY <3>1 DEF Open, Shape
      <3> QED
        BY <1>1, <2>3, <3>1, <3>2, <3>3, <3>4
    <2> QED
      BY <1>1, <2>1, <2>2, <2>3
  <1> QED
    BY <1>1, <1>2, <1>3, <1>4 DEF Open, T

LEMMA PlainFollows ==
  ASSUME NEW s, NEW k \in Kinds \ Closings, LastKind(s) # "tool_begin" \/ k = "agent_aborted"
  PROVE  Plain(k) \in Events /\ Plain(k).kind = k /\ Follows(s, Plain(k))
  BY PlainTyped DEF Follows

(* A step that sends one event, or one and then others that are not about a *)
(* call.                                                                    *)
LEMMA StreamOne ==
  ASSUME Open(emitted), NEW e \in Events, Follows(emitted, e), Emit(<<e>>)
  PROVE  /\ Shape(emitted') /\ LastKind(emitted') = e.kind
         /\ emitted' # <<>> /\ emitted'[Len(emitted')] = e
         /\ e.kind \notin Finals => Open(emitted')
  <1>1. emitted' = Append(emitted, e)
    BY EmitTyped DEF Open
  <1> QED
    BY <1>1, ShapeGrows

LEMMA StreamTwo ==
  ASSUME Open(emitted), NEW e \in Events, Follows(emitted, e),
         NEW k \in Kinds \ Closings, Emit(<<e, Plain(k)>>),
         e.kind \notin Finals, e.kind # "tool_begin"
  PROVE  /\ Shape(emitted') /\ LastKind(emitted') = k
         /\ k \notin Finals => Open(emitted')
  <1>1. Plain(k) \in Events
    BY PlainTyped
  <1>2. emitted' = Append(Append(emitted, e), Plain(k))
    BY <1>1, EmitTyped DEF Open
  <1>3. Open(Append(emitted, e)) /\ LastKind(Append(emitted, e)) = e.kind
    BY ShapeGrows
  <1>4. Follows(Append(emitted, e), Plain(k)) /\ Plain(k).kind = k
    BY <1>3, PlainFollows
  <1> QED
    BY <1>1, <1>2, <1>3, <1>4, ShapeGrows

LEMMA StreamThree ==
  ASSUME Open(emitted), LastKind(emitted) # "tool_begin",
         NEW j \in Kinds \ Closings, NEW k \in Kinds \ Closings, NEW m \in Kinds \ Closings,
         {j, k} \cap (Finals \cup {"tool_begin"}) = {},
         Emit(<<Plain(j), Plain(k), Plain(m)>>)
  PROVE  Shape(emitted') /\ LastKind(emitted') = m
  <1> DEFINE s1 == Append(emitted, Plain(j))
             s2 == Append(s1, Plain(k))
  <1>1. Plain(j) \in Events /\ Plain(k) \in Events /\ Plain(m) \in Events
        /\ Plain(j).kind = j /\ Plain(k).kind = k /\ Plain(m).kind = m
    BY PlainTyped
  <1>2. emitted' = Append(s2, Plain(m))
    BY <1>1, EmitTyped DEF Open
  <1>3. Open(s1) /\ LastKind(s1) = j
    <2>1. Follows(emitted, Plain(j))
      BY PlainFollows
    <2> QED
      BY <1>1, <2>1, ShapeGrows
  <1> HIDE DEF s1
  <1>4. Open(s2) /\ LastKind(s2) = k
    <2>1. Follows(s1, Plain(k))
      BY <1>3, PlainFollows
    <2> QED
      BY <1>1, <1>3, <2>1, ShapeGrows
  <1> HIDE DEF s2
  <1>5. Follows(s2, Plain(m))
    BY <1>4, PlainFollows
  <1> QED
    BY <1>1, <1>2, <1>4, <1>5, ShapeGrows

(* How the stream ends, by where the task is and how it ended.              *)
Stream ==
    /\ Shape(emitted)
    /\ result \notin {"ok", "aborted"} => NoFinal(emitted)
    /\ apc \in {"decide", "execute"} =>
          emitted # <<>> /\ emitted[Len(emitted)] = Event("tool_begin", Id)
    /\ apc \in {"start", "started", "iterate", "llm", "call"} => LastKind(emitted) # "tool_begin"
    /\ result = "ok" => LastKind(emitted) = "agent_complete"
    /\ result = "aborted" => LastKind(emitted) = "agent_aborted"

LEMMA StreamStep ==
  ASSUME Base, Stream, [Next]_vars
  PROVE  Stream'
  <1>1. emitted \in Seq(Events)
    BY DEF Base, TypeOK, Events
  <1>2. ASSUME TaskStep PROVE result = "none" /\ Open(emitted)
    BY <1>1, <1>2 DEF TaskStep, EmitStart, StartDecided, NextIteration, LlmFails, LlmAnswers,
           LlmCallsTools, BeginCall, CallDecided, ExecuteTool, ToolPanics, Base, Where, Stream, Open
  <1>3. ASSUME TaskStep, NEW w \in {"started", "iterate", "llm", "call"}, TaskGoesOn(w),
               Open(emitted'), LastKind(emitted') # "tool_begin"
        PROVE  Stream'
    BY <1>2, <1>3 DEF TaskGoesOn, Stream, Open
  <1>4. ASSUME NEW o \in {"failed", "panicked"}, TaskEnds(o), Open(emitted')
        PROVE  Stream'
    BY <1>4 DEF TaskEnds, Stream, Open
  <1>5. ASSUME TaskEnds("aborted"), Shape(emitted'), LastKind(emitted') = "agent_aborted"
        PROVE  Stream'
    BY <1>5 DEF TaskEnds, Stream
  <1>6. apc \in {"start", "started", "iterate", "llm", "call"} => LastKind(emitted) # "tool_begin"
    BY DEF Stream
  <1>7. CASE EmitStart
    <2>1. TaskStep /\ apc = "start" /\ Emit(<<Plain("agent_start")>>) /\ TaskGoesOn("started")
      BY <1>7 DEF TaskStep, EmitStart
    <2>2. /\ Plain("agent_start") \in Events /\ Plain("agent_start").kind = "agent_start"
          /\ Follows(emitted, Plain("agent_start"))
      BY <1>6, <2>1, PlainFollows DEF Kinds, Closings
    <2>3. Open(emitted') /\ LastKind(emitted') = "agent_start"
      BY <1>2, <2>1, <2>2, StreamOne DEF Finals
    <2> QED
      BY <1>3, <2>1, <2>3
  <1>8. CASE StartDecided
    <2>1. TaskStep /\ apc = "started"
      BY <1>8 DEF TaskStep, StartDecided
    <2>2. CASE Emit(<<Plain("agent_aborted")>>) /\ TaskEnds("aborted")
      <3>1. /\ Plain("agent_aborted") \in Events /\ Plain("agent_aborted").kind = "agent_aborted"
            /\ Follows(emitted, Plain("agent_aborted"))
        BY PlainFollows DEF Kinds, Closings
      <3>2. Shape(emitted') /\ LastKind(emitted') = "agent_aborted"
        BY <1>2, <2>1, <2>2, <3>1, StreamOne
      <3> QED
        BY <1>5, <2>2, <3>2
    <2>3. CASE TaskGoesOn("iterate") /\ UNCHANGED emitted
      <3>1. Open(emitted') /\ LastKind(emitted') # "tool_begin"
        BY <1>2, <1>6, <2>1, <2>3
      <3> QED
        BY <1>3, <2>1, <2>3, <3>1
    <2> QED
      BY <1>8, <2>2, <2>3 DEF StartDecided
  <1>9. CASE NextIteration
    <2>1. TaskStep /\ apc = "iterate"
      BY <1>9 DEF TaskStep, NextIteration
    <2>2. CASE Emit(LimitEvents) /\ TaskEnds("aborted")
      <3>1. /\ Plain("max_iterations") \in Events /\ Plain("max_iterations").kind = "max_iterations"
            /\ Follows(emitted, Plain("max_iterations"))
        BY <1>6, <2>1, PlainFollows DEF Kinds, Closings
      <3>2. "agent_aborted" \in Kinds \ Closings
        BY DEF Kinds, Closings
      <3>3. Shape(emitted') /\ LastKind(emitted') = "agent_aborted"
        BY <1>2, <2>1, <2>2, <3>1, <3>2, StreamTwo DEF LimitEvents, Finals
      <3> QED
        BY <1>5, <2>2, <3>3
    <2>3. CASE Emit(<<Plain("llm_start")>>) /\ TaskGoesOn("llm")
      <3>1. /\ Plain("llm_start") \in Events /\ Plain("llm_start").kind = "llm_start"
            /\ Follows(emitted, Plain("llm_start"))
        BY <1>6, <2>1, PlainFollows DEF Kinds, Closings
      <3>2. Open(emitted') /\ LastKind(emitted') = "llm_start"
        BY <1>2, <2>1, <2>3, <3>1, StreamOne DEF Finals
      <3> QED
        BY <1>3, <2>1, <2>3, <3>2
    <2>4. CASE TaskEnds("failed") /\ UNCHANGED emitted
      BY <1>2, <1>4, <2>1, <2>4
    <2> QED
      BY <1>9, <2>2, <2>3, <2>4 DEF NextIteration
  <1>10. CASE LlmFails
    <2>1. TaskStep /\ apc = "llm" /\ Emit(FailureEvents) /\ TaskEnds("aborted")
      BY <1>10 DEF TaskStep, LlmFails
    <2>2. /\ Plain("llm_error") \in Events /\ Plain("llm_error").kind = "llm_error"
          /\ Follows(emitted, Plain("llm_error"))
      BY <1>6, <2>1, PlainFollows DEF Kinds, Closings
    <2>3. "agent_aborted" \in Kinds \ Closings
      BY DEF Kinds, Closings
    <2>4. Shape(emitted') /\ LastKind(emitted') = "agent_aborted"
      BY <1>2, <2>1, <2>2, <2>3, StreamTwo DEF FailureEvents, Finals
    <2> QED
      BY <1>5, <2>1, <2>4
  <1>11. CASE LlmAnswers \/ \E n \in 1..MaxCalls : LlmCallsTools(n)
    <2>1. TaskStep /\ apc = "llm"
      BY <1>11 DEF TaskStep, LlmAnswers, LlmCallsTools
    <2>2. /\ Plain("llm_complete") \in Events /\ Plain("llm_complete").kind = "llm_complete"
          /\ Follows(emitted, Plain("llm_complete"))
      BY <1>6, <2>1, PlainFollows DEF Kinds, Closings
    <2>3. {"llm_complete", "iteration_complete", "agent_complete"} \subseteq Kinds \ Closings
      BY DEF Kinds, Closings
    <2>4. CASE Emit(<<Plain("llm_complete")>>) /\ (TaskGoesOn("call") \/ TaskEnds("failed"))
      <3>1. Open(emitted') /\ LastKind(emitted') = "llm_complete"
        BY <1>2, <2>1, <2>2, <2>4, StreamOne DEF Finals
      <3> QED
        BY <1>3, <1>4, <2>1, <2>4, <3>1
    <2>5. CASE Emit(<<Plain("llm_complete"), Plain("iteration_complete")>>) /\ TaskEnds("failed")
      <3>1. Open(emitted')
        BY <1>2, <2>1, <2>2, <2>3, <2>5, StreamTwo DEF Finals
      <3> QED
        BY <1>4, <2>5, <3>1
    <2>6. CASE /\ Emit(<<Plain("llm_complete"), Plain("iteration_complete"), Plain("agent_complete")>>)
               /\ TaskEnds("ok")
      <3>1. Shape(emitted') /\ LastKind(emitted') = "agent_complete"
        BY <1>2, <1>6, <2>1, <2>3, <2>6, StreamThree DEF Finals
      <3> QED
        BY <2>6, <3>1 DEF TaskEnds, Stream
    <2> QED
      BY <1>11, <2>4, <2>5, <2>6 DEF LlmAnswers, LlmCallsTools
  <1>12. CASE BeginCall
    <2>1. TaskStep /\ apc = "call" /\ Emit(<<Event("tool_begin", Id)>>) /\ TaskGoesOn("decide")
      BY <1>12 DEF TaskStep, BeginCall
    <2>2. Event("tool_begin", Id) \in Events /\ Event("tool_begin", Id).kind = "tool_begin"
      BY <2>1, IdTyped, EventTyped DEF Kinds, Base
    <2>3. Follows(emitted, Event("tool_begin", Id))
      BY <1>6, <2>1, <2>2 DEF Follows, Closings
    <2>4. Open(emitted') /\ emitted' # <<>> /\ emitted'[Len(emitted')] = Event("tool_begin", Id)
      BY <1>2, <2>1, <2>2, <2>3, StreamOne DEF Finals
    <2>5. Id' = Id
      BY <1>12 DEF BeginCall, Id
    <2> QED
      BY <1>2, <2>1, <2>4, <2>5 DEF TaskGoesOn, Stream, Open, Event
  <1>13. ASSUME TaskStep, apc \in {"decide", "execute"}, NEW k \in Closings
         PROVE  /\ Event(k, Id) \in Events /\ Event(k, Id).kind = k
                /\ Follows(emitted, Event(k, Id))
                /\ Emit(<<Event(k, Id)>>) => Open(emitted') /\ LastKind(emitted') = k
                /\ CloseCall(k) => Stream'
    <2>1. /\ Event(k, Id) \in Events /\ Event(k, Id).kind = k /\ Event(k, Id).call = Id
          /\ Event("tool_begin", Id).kind = "tool_begin"
      BY <1>13, IdTyped, EventTyped DEF Kinds, Base
    <2>2. Follows(emitted, Event(k, Id))
      BY <1>13, <2>1 DEF Stream, Follows
    <2>3. k \notin Finals /\ k # "tool_begin" /\ "iteration_complete" \in Kinds \ Closings
      BY DEF Closings, Finals, Kinds
    <2>4. Emit(<<Event(k, Id)>>) => Open(emitted') /\ LastKind(emitted') = k
      BY <1>2, <1>13, <2>1, <2>2, <2>3, StreamOne
    <2>5. Emit(<<Event(k, Id), Plain("iteration_complete")>>) =>
             Open(emitted') /\ LastKind(emitted') = "iteration_complete"
      BY <1>2, <1>13, <2>1, <2>2, <2>3, StreamTwo DEF Finals
    <2>6. CloseCall(k) => Stream'
      BY <1>3, <1>13, <2>3, <2>4, <2>5 DEF CloseCall
    <2> QED
      BY <2>1, <2>2, <2>4, <2>6
  <1>14. CASE CallDecided
    <2>1. TaskStep /\ apc = "decide"
      BY <1>14 DEF TaskStep, CallDecided
    <2>2. CASE TaskGoesOn("execute") /\ UNCHANGED <<emitted, call>>
      <3>1. Id' = Id
        BY <1>14, <2>2 DEF CallDecided, Id
      <3> QED
        BY <1>2, <2>1, <2>2, <3>1 DEF TaskGoesOn, Stream, Open, Event
    <2>3. CASE CloseCall("tool_skipped")
      BY <1>13, <2>1, <2>3 DEF Closings
    <2>4. CASE Emit(<<Plain("agent_aborted")>>) /\ TaskEnds("aborted")
      <3>1. /\ Plain("agent_aborted") \in Events /\ Plain("agent_aborted").kind = "agent_aborted"
            /\ Follows(emitted, Plain("agent_aborted"))
        BY PlainFollows DEF Kinds, Closings
      <3>2. Shape(emitted') /\ LastKind(emitted') = "agent_aborted"
        BY <1>2, <2>1, <2>4, <3>1, StreamOne
      <3> QED
        BY <1>5, <2>4, <3>2
    <2> QED
      BY <1>14, <2>2, <2>3, <2>4 DEF CallDecided
  <1>15. CASE ExecuteTool
    <2>1. TaskStep /\ apc = "execute"
      BY <1>15 DEF TaskStep, ExecuteTool
    <2>2. PICK k \in {"tool_complete", "tool_error"} :
             CloseCall(k) \/ (Emit(<<Event(k, Id)>>) /\ TaskEnds("failed"))
      BY <1>15 DEF ExecuteTool
    <2> QED
      BY <1>4, <1>13, <2>1, <2>2 DEF Closings
  <1>16. CASE ToolPanics
    <2>1. TaskStep /\ TaskEnds("panicked") /\ UNCHANGED emitted
      BY <1>16 DEF TaskStep, ToolPanics
    <2> QED
      BY <1>2, <1>4, <2>1
  <1>17. CASE ~TaskStep
    <2>1. UNCHANGED <<apc, iteration, call, result, emitted>>
      BY <1>17, OthersKeepTask DEF Next, vars, taskVars
    <2> QED
      BY <2>1 DEF Stream, Id, Event
  <1> QED
    BY <1>7, <1>8, <1>9, <1>10, <1>11, <1>12, <1>14, <1>15, <1>16, <1>17 DEF TaskStep

(* Whichever exit the loop takes, every LLM call is answered or announced   *)
(* as failed, every closing event of a tool call follows its begin event,   *)
(* the final event is the last one, and the LLM is called at most           *)
(* max_iterations times.                                                    *)
THEOREM StreamWellFormed == Spec => []EventsWellFormed
  <1>1. Init => Base /\ Counts /\ Stream
    <2> SUFFICES ASSUME Init PROVE Counts /\ Stream
      BY BaseInit
    <2>1. emitted = <<>> /\ Len(emitted) = 0 /\ apc = "start" /\ result = "none" /\ iteration = 0
      BY DEF Init
    <2>2. \A k \in Counted : Count(k) = 0
      <3>1. \A k : {i \in 1..Len(emitted) : emitted[i].kind = k} = {}
        BY <2>1
      <3> QED
        BY <3>1, FS_EmptySet DEF Count
    <2>3. Counts
      BY <2>1, <2>2, RunAssumption DEF Counts, Counted
    <2>4. Stream
      BY <2>1 DEF Stream, Shape, NoFinal, LastKind
    <2> QED
      BY <2>3, <2>4
  <1>2. Base /\ Counts /\ Stream /\ [Next]_vars => (Base /\ Counts /\ Stream)'
    BY BaseStep, CountsStep, StreamStep
  <1>3. Base /\ Counts /\ Stream => EventsWellFormed
    <2> SUFFICES ASSUME Base, Counts, Stream PROVE EventsWellFormed
      OBVIOUS
    <2>1. TypeOK
      BY DEF Base
    <2>2. EventsPaired
      BY DEF Counts, Stream, Shape, EventsPaired
    <2>3. FinalEventLast
      BY DEF Stream, Shape, NoFinal, LastKind, Finals, FinalEventLast
    <2>4. IterationsBounded
      BY DEF Counts, IterationsBounded
    <2> QED
      BY <2>1, <2>2, <2>3, <2>4 DEF EventsWellFormed
  <1> QED
    BY <1>1, <1>2, <1>3, PTL DEF Spec
=============================================================================
