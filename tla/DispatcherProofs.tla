--------------------------- MODULE DispatcherProofs ---------------------------
(***************************************************************************)
(* Proofs about AgentDispatcher for every set of requests, sessions and run *)
(* ids and for every client discipline.                                     *)
(***************************************************************************)
EXTENDS AgentDispatcher, SequenceTheorems, TLAPS

-----------------------------------------------------------------------------
(* What append, pop and removal do to the members of a queue in which       *)
(* nothing is repeated.                                                     *)

(* Removal at k: one element less, those behind k move up.                  *)
LEMMA CutProperties ==
    ASSUME NEW S, NEW q \in Seq(S), NEW k \in 1..Len(q)
    PROVE  /\ Cut(q, k) \in Seq(S)
           /\ Len(Cut(q, k)) = Len(q) - 1
           /\ \A i \in 1..(Len(q) - 1) : Cut(q, k)[i] = IF i < k THEN q[i] ELSE q[i + 1]
  <1> DEFINE a == SubSeq(q, 1, k - 1)
             b == SubSeq(q, k + 1, Len(q))
  <1>0. Len(q) \in Nat /\ k \in Nat /\ 1 <= k /\ k <= Len(q)
    OBVIOUS
  <1>1. a \in Seq(S) /\ Len(a) = k - 1 /\ \A i \in 1..(k - 1) : a[i] = q[i]
    <2>1. \A i \in 1..(k - 1) : i \in 1..Len(q)
      BY <1>0
    <2>2. QED
      BY <1>0, <2>1, SubSeqProperties
  <1>2. b \in Seq(S) /\ Len(b) = Len(q) - k /\ \A i \in 1..(Len(q) - k) : b[i] = q[k + i]
    <2>1. CASE k = Len(q)
      BY <1>0, <2>1, SubSeqProperties
    <2>2. CASE k < Len(q)
      BY <1>0, <2>2, SubSeqProperties
    <2>3. QED
      BY <1>0, <2>1, <2>2
  <1>3. Cut(q, k) = a \o b
    BY DEF Cut
  <1> HIDE DEF a, b
  <1>4. Cut(q, k) \in Seq(S) /\ Len(Cut(q, k)) = Len(a) + Len(b)
    BY <1>1, <1>2, <1>3, ConcatProperties
  <1>5. \A i \in 1..(Len(a) + Len(b)) : (a \o b)[i] = IF i <= Len(a) THEN a[i] ELSE b[i - Len(a)]
    BY <1>1, <1>2, ConcatProperties
  <1>6. ASSUME NEW i \in 1..(Len(q) - 1)
        PROVE  Cut(q, k)[i] = IF i < k THEN q[i] ELSE q[i + 1]
    <2>1. CASE i < k
      BY <1>0, <1>1, <1>2, <1>3, <1>5, <2>1
    <2>2. CASE i >= k
      <3>1. i \in 1..(Len(a) + Len(b)) /\ ~(i <= Len(a)) /\ i - Len(a) \in 1..(Len(q) - k)
        BY <1>0, <1>1, <1>2, <2>2
      <3>2. Cut(q, k)[i] = b[i - Len(a)]
        BY <1>3, <1>5, <3>1
      <3>3. b[i - Len(a)] = q[k + (i - Len(a))]
        BY <1>2, <3>1
      <3>4. k + (i - Len(a)) = i + 1
        BY <1>0, <1>1
      <3>5. QED
        BY <1>0, <2>2, <3>2, <3>3, <3>4
    <2>3. QED
      BY <1>0, <2>1, <2>2
  <1>7. QED
    BY <1>0, <1>1, <1>2, <1>4, <1>6

(* Removal at k takes q[k] out and nothing else.                            *)
LEMMA CutOccurs ==
    ASSUME NEW S, NEW q \in Seq(S), NEW k \in 1..Len(q), NoRepeat(q)
    PROVE  /\ NoRepeat(Cut(q, k))
           /\ \A x : Occurs(Cut(q, k), x) <=> Occurs(q, x) /\ x # q[k]
  <1> DEFINE c == Cut(q, k)
  <1>0. Len(q) \in Nat /\ k \in Nat /\ 1 <= k /\ k <= Len(q)
    OBVIOUS
  <1>1. Len(c) = Len(q) - 1 /\ \A i \in 1..(Len(q) - 1) : c[i] = IF i < k THEN q[i] ELSE q[i + 1]
    BY CutProperties
  <1> HIDE DEF c
  <1>2. NoRepeat(c)
    BY <1>0, <1>1 DEF NoRepeat
  <1>3. ASSUME NEW x, Occurs(c, x)
        PROVE  Occurs(q, x) /\ x # q[k]
    BY <1>0, <1>1, <1>3 DEF NoRepeat, Occurs
  <1>4. ASSUME NEW x, Occurs(q, x), x # q[k]
        PROVE  Occurs(c, x)
    <2>1. PICK i \in 1..Len(q) : q[i] = x
      BY <1>4 DEF Occurs
    <2>2. CASE i < k
      <3>1. i \in 1..(Len(q) - 1) /\ c[i] = x
        BY <1>0, <1>1, <2>1, <2>2
      <3>2. QED
        BY <3>1, <1>1 DEF Occurs
    <2>3. CASE i > k
      <3>1. i - 1 \in 1..(Len(q) - 1) /\ c[i - 1] = x
        BY <1>0, <1>1, <2>1, <2>3
      <3>2. QED
        BY <3>1, <1>1 DEF Occurs
    <2>4. QED
      BY <1>0, <1>4, <2>1, <2>2, <2>3
  <1>5. QED
    BY <1>2, <1>3, <1>4 DEF c

(* Appending a new element adds it and nothing else.                        *)
LEMMA AppendOccurs ==
    ASSUME NEW S, NEW q \in Seq(S), NEW r \in S, NoRepeat(q), ~Occurs(q, r)
    PROVE  /\ NoRepeat(Append(q, r))
           /\ \A x : Occurs(Append(q, r), x) <=> Occurs(q, x) \/ x = r
  <1>1. /\ Len(Append(q, r)) = Len(q) + 1 /\ Len(q) \in Nat
        /\ \A i \in 1..Len(q) : Append(q, r)[i] = q[i]
        /\ Append(q, r)[Len(q) + 1] = r
    BY AppendProperties
  <1>2. NoRepeat(Append(q, r))
    BY <1>1 DEF NoRepeat, Occurs
  <1>3. ASSUME NEW x
        PROVE  Occurs(Append(q, r), x) <=> Occurs(q, x) \/ x = r
    BY <1>1 DEF Occurs
  <1>4. QED
    BY <1>2, <1>3

(* Popping takes the head out and nothing else.                             *)
LEMMA TailOccurs ==
    ASSUME NEW S, NEW q \in Seq(S), q # <<>>, NoRepeat(q)
    PROVE  /\ NoRepeat(Tail(q))
           /\ Occurs(q, Head(q))
           /\ \A x : Occurs(Tail(q), x) <=> Occurs(q, x) /\ x # Head(q)
  <1>1. /\ Len(q) \in Nat /\ Len(q) >= 1 /\ Head(q) = q[1]
        /\ Len(Tail(q)) = Len(q) - 1
        /\ \A i \in 1..Len(Tail(q)) : Tail(q)[i] = q[i + 1]
    BY HeadTailProperties, EmptySeq
  <1>2. NoRepeat(Tail(q))
    BY <1>1 DEF NoRepeat
  <1>3. Occurs(q, Head(q))
    BY <1>1 DEF Occurs
  <1>4. ASSUME NEW x, Occurs(Tail(q), x)
        PROVE  Occurs(q, x) /\ x # Head(q)
    BY <1>1, <1>4 DEF NoRepeat, Occurs
  <1>5. ASSUME NEW x, Occurs(q, x), x # Head(q)
        PROVE  Occurs(Tail(q), x)
    <2>1. PICK i \in 1..Len(q) : q[i] = x
      BY <1>5 DEF Occurs
    <2>2. i - 1 \in 1..Len(Tail(q)) /\ Tail(q)[i - 1] = x
      BY <1>1, <1>5, <2>1
    <2>3. QED
      BY <2>2 DEF Occurs
  <1>6. QED
    BY <1>2, <1>3, <1>4, <1>5

-----------------------------------------------------------------------------

(* A request past "unsent" has its input; the loop has a current request    *)
(* exactly while it executes one; the joined task ended without a panic.    *)
LoopInv ==
    /\ \A r \in Requests : pc[r] # "unsent" => input[r] \in AgentInputs
    /\ cur # None <=> lpc \notin {"top", "waiting", "pop"}
    /\ lpc = "join" => run[cur] \in {"ok", "aborted", "failed"}

TypeInv == TypeOK /\ LoopInv

USE DEF DispatcherAssumption
USE DispatcherAssumption

(* The empty backlog of status events is well typed.                         *)
LEMMA NoEvents == <<>> \in Seq({"start", "end"})
  OBVIOUS

(* So is the backlog of one final event.                                   *)
LEMMA OneEvent == <<"end">> \in Seq({"start", "end"})
  <1>1. "end" \in {"start", "end"}
    OBVIOUS
  <1>2. QED
    BY <1>1

(* A newly registered agent satisfies the type invariant.                   *)
LEMMA TypeInit == Init => TypeInv
  <1> SUFFICES ASSUME Init
               PROVE  TypeInv
    OBVIOUS
  <1>1. events \in [Requests -> Seq({"start", "end"})]
    <2>1. events = [r \in Requests |-> <<>>]
      BY DEF Init
    <2>2. QED
      BY <2>1, NoEvents
  <1>2. /\ pc \in [Requests -> HandlerSteps]
        /\ input \in [Requests -> AgentInputs \cup {None}]
        /\ run \in [Requests -> RunStates]
        /\ runSession \in [Requests -> Sessions \cup {None}]
    BY DEF Init, HandlerSteps, RunStates
  <1>3. /\ outcome \in [Requests -> Outcomes]
        /\ cancelReply \in [RunIds -> {"none", "true", "false"}]
    BY DEF Init, Outcomes
  <1>4. queue \in Seq(Requests) /\ lpc \in LoopSteps
    BY DEF Init, LoopSteps
  <1>5. TypeOK
    BY <1>1, <1>2, <1>3, <1>4, Zenon DEF Init, TypeOK
  <1>6. LoopInv
    BY DEF Init, LoopInv
  <1>7. QED
    BY <1>5, <1>6 DEF TypeInv

(* Every action keeps the type invariant.                                   *)
LEMMA TypeStep == TypeInv /\ [Next]_vars => TypeInv'
  <1> SUFFICES ASSUME TypeInv, [Next]_vars
               PROVE  TypeInv'
    OBVIOUS
  <1> USE DEF TypeInv, TypeOK, LoopInv, HandlerSteps, LoopSteps, RunStates, Outcomes,
              hvars, svars, qvars, rvars, evars
  <1>1. ASSUME NEW r \in Requests, NEW in \in AgentInputs, Receive(r, in)
        PROVE  TypeInv'
    BY <1>1 DEF Receive
  <1>2. ASSUME NEW r \in Requests, HandlerStep(r)
        PROVE  TypeInv'
    <2>1. CASE CompareSession(r)
      BY <2>1 DEF CompareSession
    <2>2. CASE SetSessionCheck(r)
      BY <2>2 DEF SetSessionCheck
    <2>3. CASE SetSessionWrite(r)
      BY <2>3 DEF SetSessionWrite, AgentInputs
    <2>4. CASE SetSessionReplace(r)
      BY <2>4 DEF SetSessionReplace, AgentInputs
    <2>5. CASE RememberSession(r)
      BY <2>5 DEF RememberSession, AgentInputs
    <2>6. CASE Submit(r)
      BY <2>6 DEF Submit
    <2>7. QED
      BY <1>2, <2>1, <2>2, <2>3, <2>4, <2>5, <2>6 DEF HandlerStep
  <1>3. ASSUME NEW r \in Requests, PushBack(r)
        PROVE  TypeInv'
    BY <1>3 DEF PushBack, Enqueued
  <1>4. ASSUME NEW r \in Requests, NotifyOne(r)
        PROVE  TypeInv'
    BY <1>4 DEF NotifyOne
  <1>5. ASSUME NEW r \in Requests, AgentStart(r)
        PROVE  TypeInv'
    BY <1>5 DEF AgentStart, Emit
  <1>6. ASSUME NEW r \in Requests, AgentEnd(r)
        PROVE  TypeInv'
    <2> PICK o \in {"ok", "aborted", "failed", "panicked"} :
              /\ run' = [run EXCEPT ![r] = o]
              /\ Emit(r, FinalEvents(o))
      BY <1>6 DEF AgentEnd
    <2>1. FinalEvents(o) \in Seq({"start", "end"})
      BY NoEvents, OneEvent DEF FinalEvents
    <2>2. events' \in [Requests -> Seq({"start", "end"})]
      BY <2>1 DEF Emit
    <2>3. run[r] = "live" /\ UNCHANGED <<hvars, svars, qvars, isRunning, runSession, listening,
                                          status, ended, lagged, outcome, cancelReply>>
      BY <1>6 DEF AgentEnd
    <2>4. run' \in [Requests -> RunStates]
      OBVIOUS
    <2>5. (lpc = "join" => run[cur] \in {"ok", "aborted", "failed"})'
      BY <2>3
    <2>6. QED
      BY <2>2, <2>3, <2>4, <2>5
  <1>7. ASSUME NEW r \in Requests, Listen(r) \/ ListenerLags(r)
        PROVE  TypeInv'
    <2>1. CASE Listen(r)
      BY <2>1 DEF Listen
    <2>2. CASE ListenerLags(r)
      <3>1. events' \in [Requests -> Seq({"start", "end"})]
        BY <2>2, NoEvents DEF ListenerLags
      <3>2. listening' \in SUBSET Requests /\ lagged' \in SUBSET Requests
        BY <2>2 DEF ListenerLags
      <3>3. QED
        BY <2>2, <3>1, <3>2 DEF ListenerLags
    <2>3. QED
      BY <1>7, <2>1, <2>2
  <1>8. ASSUME NEW id \in RunIds, Cancel(id)
        PROVE  TypeInv'
    <2>1. queue' \in Seq(Requests)
      <3>1. ASSUME NEW i \in 1..Len(queue)
            PROVE  Without(i) \in Seq(Requests)
        BY CutProperties DEF Without
      <3>2. QED
        BY <1>8, <3>1 DEF Cancel
    <2>2. outcome' \in [Requests -> Outcomes]
      BY <1>8 DEF Cancel
    <2>3. cancelReply' \in [RunIds -> {"none", "true", "false"}]
      BY <1>8 DEF Cancel
    <2>4. QED
      BY <1>8, <2>1, <2>2, <2>3 DEF Cancel
  <1>9. CASE Notified
    BY <1>9 DEF Notified
  <1>10. CASE PopFront
    <2>1. CASE queue = <<>>
      BY <1>10, <2>1 DEF PopFront
    <2>2. CASE queue # <<>>
      <3>1. Head(queue) \in Requests /\ Tail(queue) \in Seq(Requests)
        BY <2>2
      <3>2. cur' \in Requests /\ queue' \in Seq(Requests)
        BY <1>10, <2>2, <3>1 DEF PopFront
      <3>3. lpc' = "enter"
        BY <1>10, <2>2 DEF PopFront
      <3>4. UNCHANGED <<hvars, svars, permit, rvars, evars, outcome, cancelReply>>
        BY <1>10 DEF PopFront
      <3>5. QED
        BY <3>2, <3>3, <3>4
    <2>3. QED
      BY <2>1, <2>2
  <1>11. CASE EnterRun
    BY <1>11 DEF EnterRun, Return
  <1>12. CASE BeginRun
    <2>1. CASE input[cur].empty
      BY <1>12, <2>1 DEF BeginRun, Return
    <2>2. CASE ~input[cur].empty
      <3>1. runSession' = [runSession EXCEPT ![cur] = session] /\ lpc' = "persist"
        BY <1>12, <2>2 DEF BeginRun
      <3>2. UNCHANGED <<hvars, svars, queue, permit, cur, isRunning, run, evars, outcome,
                        cancelReply>>
        BY <1>12, <2>2 DEF BeginRun
      <3>3. runSession' \in [Requests -> Sessions \cup {None}]
        BY <3>1
      <3>4. lpc = "connect"
        BY <1>12 DEF BeginRun
      <3>5. QED
        BY <3>1, <3>2, <3>3, <3>4
    <2>3. QED
      BY <2>1, <2>2
  <1>13. CASE PersistInput
    BY <1>13 DEF PersistInput, Return
  <1>14. CASE AgentTaskJoined
    <2>1. CASE run[cur] = "panicked"
      <3>1. events' \in [Requests -> Seq({"start", "end"})]
        <4>1. events' = [events EXCEPT ![cur] = <<>>]
          BY <1>14, <2>1 DEF AgentTaskJoined, AbortListener
        <4>2. QED
          BY <4>1, NoEvents
      <3>2. QED
        BY <1>14, <2>1, <3>1 DEF AgentTaskJoined, TaskOver, Return, AbortListener
    <2>2. CASE run[cur] # "panicked"
      BY <1>14, <2>2 DEF AgentTaskJoined, TaskOver
    <2>3. QED
      BY <2>1, <2>2
  <1>15. CASE ListenersJoined
    BY <1>15 DEF ListenersJoined, Drained, Return
  <1>16. CASE Timeout
    <2>1. events' \in [Requests -> Seq({"start", "end"})]
      BY <1>16, NoEvents DEF Timeout, AbortListener
    <2>2. QED
      BY <1>16, <2>1 DEF Timeout, Return, AbortListener, HoldsGuard
  <1>17. CASE UNCHANGED vars
    BY <1>17 DEF vars
  <1>18. QED
    BY <1>1, <1>2, <1>3, <1>4, <1>5, <1>6, <1>7, <1>8, <1>9, <1>10, <1>11, <1>12, <1>13,
       <1>14, <1>15, <1>16, <1>17
       DEF Next, EnqueueStep, TaskStep, LoopStep

(* Every variable of the dispatcher keeps its type, and the loop's program  *)
(* counter and its current request agree.                                   *)
THEOREM TypeCorrect == Spec => []TypeOK
  <1>1. TypeInv => TypeOK
    BY DEF TypeInv
  <1>2. QED
    BY TypeInit, TypeStep, <1>1, PTL DEF Spec

-----------------------------------------------------------------------------
(* Nothing is queued, executed or answered at first.                        *)
LEMMA QueueInit == Init => QueueIntegrity
  <1> SUFFICES ASSUME Init
               PROVE  QueueIntegrity
    OBVIOUS
  <1>1. Len(queue) = 0
    BY DEF Init
  <1>2. NoRepeat(queue) /\ \A r \in Requests : ~InQueue(r)
    BY <1>1 DEF NoRepeat, InQueue, Occurs
  <1>3. \A r \in Requests : r # cur /\ ~Pushed(r) /\ outcome[r] = "none"
    BY DEF Init, Pushed
  <1>4. QED
    BY <1>2, <1>3 DEF QueueIntegrity

(* A step that leaves the queue, the current request, the outcomes and      *)
(* whether a request was pushed alone preserves QueueIntegrity.             *)
LEMMA QueueFrame ==
    ASSUME QueueIntegrity, UNCHANGED <<queue, cur, outcome>>,
           \A r \in Requests : Pushed(r)' <=> Pushed(r)
    PROVE  QueueIntegrity'
  <1>1. \A r \in Requests : InQueue(r)' <=> InQueue(r)
    BY DEF InQueue, Occurs
  <1>2. NoRepeat(queue)'
    BY DEF QueueIntegrity, NoRepeat
  <1>3. QED
    BY <1>1, <1>2 DEF QueueIntegrity

(* run_input returns: the current request is settled and left.              *)
LEMMA QueueReturn ==
    ASSUME TypeInv, QueueIntegrity, NEW o \in Outcomes \ {"none"}, cur # None, Return(o),
           UNCHANGED pc
    PROVE  QueueIntegrity'
  <1>1. cur \in Requests /\ cur' = None /\ outcome' = [outcome EXCEPT ![cur] = o]
    BY DEF TypeInv, TypeOK, Return
  <1>2. \A r \in Requests : (InQueue(r)' <=> InQueue(r)) /\ (Pushed(r)' <=> Pushed(r))
    BY DEF Return, InQueue, Occurs, Pushed
  <1>3. NoRepeat(queue)'
    BY DEF QueueIntegrity, NoRepeat, Return
  <1>4. ASSUME NEW r \in Requests
        PROVE  /\ InQueue(r)' => r # cur'
               /\ (InQueue(r)' \/ r = cur') <=> (Pushed(r)' /\ outcome'[r] = "none")
               /\ ~Pushed(r)' => outcome'[r] = "none"
    BY <1>1, <1>2 DEF QueueIntegrity, TypeInv, TypeOK, Outcomes
  <1>5. QED
    BY <1>3, <1>4 DEF QueueIntegrity

(* Every action keeps every request in one place.                           *)
LEMMA QueueStep == TypeInv /\ QueueIntegrity /\ [Next]_vars => QueueIntegrity'
  <1> SUFFICES ASSUME TypeInv, QueueIntegrity, [Next]_vars
               PROVE  QueueIntegrity'
    OBVIOUS
  <1> USE DEF hvars, svars, qvars, rvars, evars
  <1>t. pc \in [Requests -> HandlerSteps] /\ outcome \in [Requests -> Outcomes]
        /\ queue \in Seq(Requests) /\ NoRepeat(queue)
    BY DEF TypeInv, TypeOK, QueueIntegrity
  <1>1. ASSUME NEW r \in Requests, NEW in \in AgentInputs, Receive(r, in)
        PROVE  QueueIntegrity'
    BY <1>1, <1>t, QueueFrame DEF Receive, Pushed
  <1>2. ASSUME NEW r \in Requests, HandlerStep(r)
        PROVE  QueueIntegrity'
    <2>1. UNCHANGED <<queue, cur, outcome>>
      BY <1>2 DEF HandlerStep, CompareSession, SetSessionCheck, SetSessionWrite,
                  SetSessionReplace, RememberSession, Submit
    <2>2. /\ pc[r] \notin {"notify", "done"}
          /\ \E x \in HandlerSteps \ {"notify", "done"} : pc' = [pc EXCEPT ![r] = x]
      BY <1>2 DEF HandlerStep, CompareSession, SetSessionCheck, SetSessionWrite,
                  SetSessionReplace, RememberSession, Submit, HandlerSteps
    <2>3. QED
      BY <1>t, <2>1, <2>2, QueueFrame DEF Pushed
  <1>3. ASSUME NEW r \in Requests, PushBack(r)
        PROVE  QueueIntegrity'
    <2>1. ~Pushed(r) /\ ~Occurs(queue, r) /\ r # cur
      BY <1>3 DEF PushBack, Pushed, QueueIntegrity, InQueue
    <2>2. queue' = Append(queue, r) /\ UNCHANGED <<cur, outcome>>
      BY <1>3 DEF PushBack, Enqueued
    <2>3. NoRepeat(queue') /\ \A x : Occurs(queue', x) <=> Occurs(queue, x) \/ x = r
      BY <1>t, <2>1, <2>2, AppendOccurs
    <2>4. \A x \in Requests : Pushed(x)' <=> Pushed(x) \/ x = r
      BY <1>3, <1>t DEF PushBack, Pushed
    <2>5. outcome[r] = "none"
      BY <2>1 DEF QueueIntegrity
    <2>6. QED
      BY <2>1, <2>2, <2>3, <2>4, <2>5 DEF QueueIntegrity, InQueue
  <1>4. ASSUME NEW r \in Requests, NotifyOne(r)
        PROVE  QueueIntegrity'
    BY <1>4, <1>t, QueueFrame DEF NotifyOne, Pushed
  <1>5. ASSUME NEW r \in Requests, TaskStep(r)
        PROVE  QueueIntegrity'
    BY <1>5, QueueFrame DEF TaskStep, AgentStart, AgentEnd, Listen, ListenerLags, Pushed
  <1>6. ASSUME NEW id \in RunIds, Cancel(id)
        PROVE  QueueIntegrity'
    <2>1. CASE UNCHANGED <<queue, outcome>>
      BY <1>6, <2>1, QueueFrame DEF Cancel, Pushed
    <2>2. ASSUME NEW i \in 1..Len(queue), queue' = Cut(queue, i),
                 outcome' = [outcome EXCEPT ![queue[i]] = "cancelled"]
          PROVE  QueueIntegrity'
      <3>1. queue[i] \in Requests /\ Occurs(queue, queue[i])
        BY <1>t, ElementOfSeq DEF Occurs
      <3>2. NoRepeat(queue') /\ \A x : Occurs(queue', x) <=> Occurs(queue, x) /\ x # queue[i]
        BY <1>t, <2>2, CutOccurs
      <3>3. UNCHANGED <<pc, cur>>
        BY <1>6 DEF Cancel
      <3>4. ASSUME NEW r \in Requests
            PROVE  /\ Occurs(queue', r) => r # cur
                   /\ (Occurs(queue', r) \/ r = cur) <=> (Pushed(r) /\ outcome'[r] = "none")
                   /\ ~Pushed(r) => outcome'[r] = "none"
        BY <1>t, <2>2, <3>1, <3>2 DEF QueueIntegrity, InQueue
      <3>5. \A r \in Requests : Pushed(r)' <=> Pushed(r)
        BY <3>3 DEF Pushed
      <3>6. QED
        BY <3>2, <3>3, <3>4, <3>5 DEF QueueIntegrity, InQueue
    <2>3. QED
      BY <1>6, <2>1, <2>2 DEF Cancel, Without
  <1>7. CASE Notified
    BY <1>7, QueueFrame DEF Notified, Pushed
  <1>8. CASE PopFront
    <2>1. CASE queue = <<>>
      BY <1>8, <2>1, QueueFrame DEF PopFront, Pushed
    <2>2. CASE queue # <<>>
      <3>1. queue' = Tail(queue) /\ cur' = Head(queue) /\ UNCHANGED <<pc, outcome>>
        BY <1>8, <2>2 DEF PopFront
      <3>2. cur = None
        BY <1>8 DEF PopFront, TypeInv, LoopInv
      <3>3. /\ NoRepeat(Tail(queue)) /\ Occurs(queue, Head(queue))
            /\ \A x : Occurs(Tail(queue), x) <=> Occurs(queue, x) /\ x # Head(queue)
        BY <1>t, <2>2, TailOccurs
      <3>4. \A r \in Requests : Pushed(r)' <=> Pushed(r)
        BY <3>1 DEF Pushed
      <3>5. NoRepeat(queue') /\ \A r \in Requests :
               /\ InQueue(r)' <=> InQueue(r) /\ r # Head(queue)
               /\ r = Head(queue) => InQueue(r)
        BY <3>1, <3>3 DEF InQueue
      <3>6. \A r \in Requests : r # cur
        BY <3>2
      <3>7. QED
        BY <3>1, <3>4, <3>5, <3>6 DEF QueueIntegrity
    <2>3. QED
      BY <2>1, <2>2
  <1>c. lpc \notin {"top", "waiting", "pop"} => cur # None
    BY DEF TypeInv, LoopInv
  <1>9. CASE EnterRun
    <2>1. CASE isRunning
      BY <1>9, <1>c, <2>1, QueueReturn DEF EnterRun, Outcomes
    <2>2. CASE ~isRunning
      BY <1>9, <2>2, QueueFrame DEF EnterRun, Pushed
    <2>3. QED
      BY <2>1, <2>2
  <1>10. CASE BeginRun
    <2>1. CASE input[cur].empty
      BY <1>10, <1>c, <2>1, QueueReturn DEF BeginRun, Outcomes
    <2>2. CASE ~input[cur].empty
      BY <1>10, <2>2, QueueFrame DEF BeginRun, Pushed
    <2>3. QED
      BY <2>1, <2>2
  <1>11. CASE PersistInput
    <2>1. CASE Return("persist_failed")
      BY <1>11, <1>c, <2>1, QueueReturn DEF PersistInput, Outcomes
    <2>2. CASE UNCHANGED <<queue, cur, outcome>>
      BY <1>11, <2>2, QueueFrame DEF PersistInput, Pushed
    <2>3. QED
      BY <1>11, <2>1, <2>2 DEF PersistInput
  <1>12. CASE AgentTaskJoined
    <2>1. CASE run[cur] = "panicked"
      BY <1>12, <1>c, <2>1, QueueReturn DEF AgentTaskJoined, Outcomes
    <2>2. CASE run[cur] # "panicked"
      BY <1>12, <2>2, QueueFrame DEF AgentTaskJoined, Pushed
    <2>3. QED
      BY <2>1, <2>2
  <1>13. CASE ListenersJoined
    <2>1. run[cur] \in Outcomes \ {"none"}
      BY <1>13 DEF ListenersJoined, TypeInv, LoopInv, Outcomes
    <2>2. QED
      BY <1>13, <1>c, <2>1, QueueReturn DEF ListenersJoined
  <1>14. CASE Timeout
    BY <1>14, <1>c, QueueReturn DEF Timeout, Outcomes
  <1>15. CASE UNCHANGED vars
    BY <1>15, QueueFrame DEF vars, Pushed
  <1>16. QED
    BY <1>1, <1>2, <1>3, <1>4, <1>5, <1>6, <1>7, <1>8, <1>9, <1>10, <1>11, <1>12, <1>13,
       <1>14, <1>15
       DEF Next, EnqueueStep, LoopStep

(* Whatever the interleaving of handlers, cancels, timeouts and results, a  *)
(* pushed request is in exactly one place until it is answered, once.       *)
THEOREM QueueIntegrityHolds == Spec => []QueueIntegrity
  BY TypeInit, TypeStep, QueueInit, QueueStep, PTL DEF Spec

(* Types and queue together: AgentDispatcher::submit, cancel and run_loop   *)
(* lose and repeat nothing.                                                 *)
THEOREM QueueOKHolds == Spec => []QueueOK
  BY TypeCorrect, QueueIntegrityHolds, PTL DEF QueueOK

-----------------------------------------------------------------------------
(* An agent task exists only for the awaited request and for settled ones,  *)
(* and is unfinished only while awaited or after a timeout.                 *)
RunInv ==
    \A r \in Requests :
        /\ run[r] # "none" => outcome[r] # "none" \/ (r = cur /\ lpc \in {"await", "join"})
        /\ run[r] \in {"spawned", "live"} =>
              (r = cur /\ lpc = "await") \/ outcome[r] = "timeout"

(* What QueueIntegrity says of outcomes that steps may still set.           *)
LEMMA OpenOutcomes ==
    ASSUME TypeInv, QueueIntegrity
    PROVE  /\ cur # None => cur \in Requests /\ outcome[cur] = "none"
           /\ \A i \in 1..Len(queue) :
                 queue[i] \in Requests /\ queue[i] # cur /\ outcome[queue[i]] = "none"
  <1>1. cur # None => cur \in Requests /\ outcome[cur] = "none"
    BY DEF TypeInv, TypeOK, QueueIntegrity
  <1>2. ASSUME NEW i \in 1..Len(queue)
        PROVE  queue[i] \in Requests /\ queue[i] # cur /\ outcome[queue[i]] = "none"
    <2>1. queue[i] \in Requests
      BY ElementOfSeq DEF TypeInv, TypeOK
    <2>2. InQueue(queue[i])
      BY DEF InQueue, Occurs
    <2>3. QED
      BY <2>1, <2>2 DEF QueueIntegrity
  <1>3. QED
    BY <1>1, <1>2

(* Every action keeps the tie between agent tasks and outcomes.             *)
LEMMA RunStep == TypeInv /\ QueueIntegrity /\ RunInv /\ [Next]_vars => RunInv'
  <1> SUFFICES ASSUME TypeInv, QueueIntegrity, RunInv, [Next]_vars
               PROVE  RunInv'
    OBVIOUS
  <1> USE DEF hvars, svars, qvars, rvars, evars
  <1>t. /\ run \in [Requests -> RunStates] /\ outcome \in [Requests -> Outcomes]
        /\ cur # None => cur \in Requests /\ outcome[cur] = "none"
        /\ lpc \notin {"top", "waiting", "pop"} => cur # None
    BY OpenOutcomes DEF TypeInv, TypeOK, LoopInv
  <1>1. ASSUME NEW r \in Requests, NEW in \in AgentInputs, Receive(r, in)
        PROVE  RunInv'
    BY <1>1 DEF Receive, RunInv
  <1>2. ASSUME NEW r \in Requests, HandlerStep(r)
        PROVE  RunInv'
    BY <1>2 DEF HandlerStep, CompareSession, SetSessionCheck, SetSessionWrite,
                SetSessionReplace, RememberSession, Submit, RunInv
  <1>3. ASSUME NEW r \in Requests, EnqueueStep(r)
        PROVE  RunInv'
    BY <1>3 DEF EnqueueStep, PushBack, NotifyOne, RunInv
  <1>4. ASSUME NEW r \in Requests, TaskStep(r)
        PROVE  RunInv'
    <2>1. CASE AgentStart(r)
      BY <1>t, <2>1 DEF AgentStart, RunInv
    <2>2. CASE AgentEnd(r)
      BY <1>t, <2>2 DEF AgentEnd, RunInv
    <2>3. CASE Listen(r) \/ ListenerLags(r)
      BY <2>3 DEF Listen, ListenerLags, RunInv
    <2>4. QED
      BY <1>4, <2>1, <2>2, <2>3 DEF TaskStep
  <1>5. ASSUME NEW id \in RunIds, Cancel(id)
        PROVE  RunInv'
    <2>1. UNCHANGED <<run, cur, lpc>>
      BY <1>5 DEF Cancel
    <2>2. CASE UNCHANGED outcome
      BY <2>1, <2>2 DEF RunInv
    <2>3. ASSUME NEW i \in 1..Len(queue),
                 outcome' = [outcome EXCEPT ![queue[i]] = "cancelled"]
          PROVE  RunInv'
      <3>1. queue[i] \in Requests /\ queue[i] # cur /\ outcome[queue[i]] = "none"
        BY OpenOutcomes
      <3>2. run[queue[i]] = "none"
        BY <3>1 DEF RunInv
      <3>3. QED
        BY <1>t, <2>1, <2>3, <3>1, <3>2 DEF RunInv
    <2>4. QED
      BY <1>5, <2>2, <2>3 DEF Cancel
  <1>6. CASE Notified
    BY <1>6, <1>t DEF Notified, RunInv
  <1>7. CASE PopFront
    <2>1. lpc = "pop" /\ UNCHANGED <<run, outcome>>
      BY <1>7 DEF PopFront
    <2>2. QED
      BY <2>1 DEF RunInv
  <1>8. CASE EnterRun
    BY <1>8, <1>t DEF EnterRun, Return, RunInv
  <1>9. CASE BeginRun
    <2>1. run[cur] = "none" /\ UNCHANGED run /\ lpc = "connect"
      BY <1>9, <1>t DEF BeginRun, RunInv
    <2>2. CASE Return("invalid_input")
      BY <1>t, <2>1, <2>2 DEF Return, RunInv
    <2>3. CASE lpc' = "persist" /\ UNCHANGED <<cur, outcome>>
      BY <1>t, <2>1, <2>3 DEF RunInv
    <2>4. QED
      BY <1>9, <2>2, <2>3 DEF BeginRun
  <1>10. CASE PersistInput
    <2>1. run[cur] = "none" /\ lpc = "persist"
      BY <1>10, <1>t DEF PersistInput, RunInv
    <2>2. CASE Return("persist_failed") /\ UNCHANGED run
      BY <1>t, <2>1, <2>2 DEF Return, RunInv
    <2>3. CASE /\ run' = [run EXCEPT ![cur] = "spawned"] /\ lpc' = "await"
               /\ UNCHANGED <<cur, outcome>>
      BY <1>t, <2>1, <2>3 DEF RunInv
    <2>4. QED
      BY <1>10, <2>2, <2>3 DEF PersistInput
  <1>11. CASE AgentTaskJoined
    <2>1. TaskOver(cur) /\ lpc = "await" /\ UNCHANGED run
      BY <1>11 DEF AgentTaskJoined
    <2>2. CASE Return("panicked")
      BY <1>t, <2>1, <2>2 DEF Return, RunInv, TaskOver
    <2>3. CASE lpc' = "join" /\ UNCHANGED <<cur, outcome>>
      BY <1>t, <2>1, <2>3 DEF RunInv, TaskOver
    <2>4. QED
      BY <1>11, <2>2, <2>3 DEF AgentTaskJoined
  <1>12. CASE ListenersJoined
    <2>1. run[cur] \in {"ok", "aborted", "failed"} /\ UNCHANGED run /\ Return(run[cur])
          /\ lpc = "join"
      BY <1>12 DEF ListenersJoined, TypeInv, LoopInv
    <2>2. QED
      BY <1>t, <2>1 DEF Return, RunInv
  <1>13. CASE Timeout
    <2>1. CASE lpc = "connect"
      <3>1. Return("timeout_unguarded") /\ UNCHANGED run
        BY <1>13, <2>1 DEF Timeout
      <3>2. QED
        BY <1>t, <2>1, <3>1 DEF Return, RunInv
    <2>2. CASE lpc # "connect"
      <3>1. Return("timeout") /\ UNCHANGED run /\ cur # None
        BY <1>13, <1>t, <2>2 DEF Timeout
      <3>2. QED
        BY <1>t, <3>1 DEF Return, RunInv
    <2>3. QED
      BY <2>1, <2>2
  <1>14. CASE UNCHANGED vars
    BY <1>14 DEF vars, RunInv
  <1>15. QED
    BY <1>1, <1>2, <1>3, <1>4, <1>5, <1>6, <1>7, <1>8, <1>9, <1>10, <1>11, <1>12, <1>13, <1>14
       DEF Next, LoopStep

(* Two agent tasks of one agent are only ever alive together after a        *)
(* timeout: nothing else lets the loop leave a task behind.                 *)
THEOREM OrphansTimedOutHolds == Spec => []OrphansTimedOut
  <1>1. Init => RunInv
    BY DEF Init, RunInv
  <1>2. RunInv => OrphansTimedOut
    BY DEF RunInv, OrphansTimedOut
  <1>3. QED
    BY TypeInit, TypeStep, QueueInit, QueueStep, RunStep, <1>1, <1>2, PTL DEF Spec

-----------------------------------------------------------------------------
(* Some run_input ended between the swap of is_running and RunningGuard.    *)
Leaked == \E r \in Requests : outcome[r] \in {"invalid_input", "timeout_unguarded"}

(* run_input is only entered when no earlier one has leaked the flag.       *)
FlagInv == RunningFlagExact /\ (Guarded => ~Leaked)

(* A step that sets an outcome to a value that is no leak, and touches no   *)
(* leaked one, changes nothing about Leaked.                                *)
LEMMA LeakFrame ==
    ASSUME NEW r \in Requests, NEW o \in Outcomes, outcome \in [Requests -> Outcomes],
           outcome[r] = "none", outcome' = [outcome EXCEPT ![r] = o]
    PROVE  Leaked' <=> Leaked \/ o \in {"invalid_input", "timeout_unguarded"}
  BY DEF Leaked

(* Every step keeps is_running exact.                                       *)
LEMMA FlagStep == TypeInv /\ QueueIntegrity /\ FlagInv /\ [Next]_vars => FlagInv'
  <1> SUFFICES ASSUME TypeInv, QueueIntegrity, FlagInv, [Next]_vars
               PROVE  FlagInv'
    OBVIOUS
  <1> USE DEF hvars, svars, qvars, rvars, evars
  <1>t. /\ outcome \in [Requests -> Outcomes] /\ isRunning \in BOOLEAN
        /\ lpc \notin {"top", "waiting", "pop"} => cur \in Requests /\ outcome[cur] = "none"
    BY OpenOutcomes DEF TypeInv, TypeOK, LoopInv
  <1>f. /\ isRunning <=> Guarded \/ Leaked
        /\ Guarded => ~Leaked
    BY DEF FlagInv, RunningFlagExact, Leaked
  <1>g. ASSUME (isRunning <=> Guarded \/ Leaked)', (Guarded => ~Leaked)'
        PROVE  FlagInv'
    BY <1>g DEF FlagInv, RunningFlagExact, Leaked
  <1>u. ASSUME UNCHANGED <<isRunning, outcome>>, Guarded' <=> Guarded
        PROVE  FlagInv'
    <2>1. Leaked' <=> Leaked
      BY <1>u DEF Leaked
    <2>2. QED
      BY <1>f, <1>g, <1>u, <2>1
  <1>r. ASSUME NEW o \in Outcomes, Return(o), Guarded,
               isRunning' <=> o \in {"invalid_input", "timeout_unguarded"}
        PROVE  FlagInv'
    <2>1. cur \in Requests /\ outcome[cur] = "none" /\ ~Leaked
      BY <1>f, <1>r, <1>t DEF Guarded
    <2>2. Leaked' <=> o \in {"invalid_input", "timeout_unguarded"}
      BY <1>r, <1>t, <2>1, LeakFrame DEF Return
    <2>3. ~Guarded'
      BY <1>r DEF Return, Guarded
    <2>4. QED
      BY <1>g, <1>r, <2>2, <2>3
  <1>1. ASSUME NEW r \in Requests, NEW in \in AgentInputs, Receive(r, in)
        PROVE  FlagInv'
    BY <1>1, <1>u DEF Receive, Guarded
  <1>2. ASSUME NEW r \in Requests, HandlerStep(r)
        PROVE  FlagInv'
    BY <1>2, <1>u DEF HandlerStep, CompareSession, SetSessionCheck, SetSessionWrite,
                      SetSessionReplace, RememberSession, Submit, Guarded
  <1>3. ASSUME NEW r \in Requests, EnqueueStep(r)
        PROVE  FlagInv'
    BY <1>3, <1>u DEF EnqueueStep, PushBack, NotifyOne, Guarded
  <1>4. ASSUME NEW r \in Requests, TaskStep(r)
        PROVE  FlagInv'
    BY <1>4, <1>u DEF TaskStep, AgentStart, AgentEnd, Listen, ListenerLags, Guarded
  <1>5. ASSUME NEW id \in RunIds, Cancel(id)
        PROVE  FlagInv'
    <2>1. UNCHANGED <<isRunning, lpc>> /\ (Guarded' <=> Guarded)
      BY <1>5 DEF Cancel, Guarded
    <2>2. CASE UNCHANGED outcome
      BY <1>u, <2>1, <2>2
    <2>3. ASSUME NEW i \in 1..Len(queue),
                 outcome' = [outcome EXCEPT ![queue[i]] = "cancelled"]
          PROVE  FlagInv'
      <3>1. queue[i] \in Requests /\ outcome[queue[i]] = "none"
        BY OpenOutcomes
      <3>2. Leaked' <=> Leaked
        BY <1>t, <2>3, <3>1, LeakFrame DEF Outcomes
      <3>3. QED
        BY <1>f, <1>g, <2>1, <3>2
    <2>4. QED
      BY <1>5, <2>2, <2>3 DEF Cancel
  <1>6. CASE Notified
    BY <1>6, <1>u DEF Notified, Guarded
  <1>7. CASE PopFront
    BY <1>7, <1>u DEF PopFront, Guarded
  <1>8. CASE EnterRun
    <2>1. CASE isRunning
      <3>1. Return("already_running") /\ UNCHANGED isRunning /\ lpc = "enter"
        BY <1>8, <2>1 DEF EnterRun
      <3>2. Leaked' <=> Leaked
        BY <1>t, <3>1, LeakFrame DEF Return, Outcomes
      <3>3. ~Guarded /\ ~Guarded'
        BY <3>1 DEF Return, Guarded
      <3>4. QED
        BY <1>f, <1>g, <3>1, <3>2, <3>3
    <2>2. CASE ~isRunning
      <3>1. isRunning' /\ Guarded' /\ UNCHANGED outcome
        BY <1>8, <2>2 DEF EnterRun, Guarded
      <3>2. ~Leaked'
        BY <1>f, <2>2, <3>1 DEF Leaked
      <3>3. QED
        BY <1>g, <3>1, <3>2
    <2>3. QED
      BY <2>1, <2>2
  <1>9. CASE BeginRun
    <2>1. Guarded /\ isRunning /\ UNCHANGED isRunning
      BY <1>9, <1>f DEF BeginRun, Guarded
    <2>2. CASE Return("invalid_input")
      BY <1>r, <2>1, <2>2 DEF Outcomes
    <2>3. CASE lpc' = "persist" /\ UNCHANGED outcome
      BY <1>u, <2>1, <2>3 DEF Guarded
    <2>4. QED
      BY <1>9, <2>2, <2>3 DEF BeginRun
  <1>10. CASE PersistInput
    <2>1. Guarded
      BY <1>10 DEF PersistInput, Guarded
    <2>2. CASE Return("persist_failed") /\ isRunning' = FALSE
      BY <1>r, <2>1, <2>2 DEF Outcomes
    <2>3. CASE lpc' = "await" /\ UNCHANGED <<isRunning, outcome>>
      BY <1>u, <2>1, <2>3 DEF Guarded
    <2>4. QED
      BY <1>10, <2>2, <2>3 DEF PersistInput
  <1>11. CASE AgentTaskJoined
    <2>1. Guarded
      BY <1>11 DEF AgentTaskJoined, Guarded
    <2>2. CASE Return("panicked") /\ isRunning' = FALSE
      BY <1>r, <2>1, <2>2 DEF Outcomes
    <2>3. CASE lpc' = "join" /\ UNCHANGED <<isRunning, outcome>>
      BY <1>u, <2>1, <2>3 DEF Guarded
    <2>4. QED
      BY <1>11, <2>2, <2>3 DEF AgentTaskJoined
  <1>12. CASE ListenersJoined
    <2>1. Guarded /\ Return(run[cur]) /\ isRunning' = FALSE
      BY <1>12 DEF ListenersJoined, Guarded
    <2>2. run[cur] \in {"ok", "aborted", "failed"}
      BY <1>12 DEF ListenersJoined, TypeInv, LoopInv
    <2>3. QED
      BY <1>r, <2>1, <2>2 DEF Outcomes
  <1>13. CASE Timeout
    <2>1. Guarded /\ isRunning
      BY <1>13, <1>f DEF Timeout, Guarded
    <2>2. CASE lpc = "connect"
      <3>1. Return("timeout_unguarded") /\ isRunning' = TRUE
        BY <1>13, <2>1, <2>2 DEF Timeout, HoldsGuard
      <3>2. QED
        BY <1>r, <2>1, <3>1 DEF Outcomes
    <2>3. CASE lpc # "connect"
      <3>1. Return("timeout") /\ isRunning' = FALSE
        BY <1>13, <2>1, <2>3 DEF Timeout, HoldsGuard
      <3>2. QED
        BY <1>r, <2>1, <3>1 DEF Outcomes
    <2>4. QED
      BY <2>2, <2>3
  <1>14. CASE UNCHANGED vars
    BY <1>14, <1>u DEF vars, Guarded
  <1>15. QED
    BY <1>1, <1>2, <1>3, <1>4, <1>5, <1>6, <1>7, <1>8, <1>9, <1>10, <1>11, <1>12, <1>13, <1>14
       DEF Next, LoopStep

(* is_running is TRUE exactly while run_input executes, except that the two *)
(* exits before RunningGuard leave it TRUE for good.                        *)
THEOREM RunningFlagExactHolds == Spec => []RunningFlagExact
  <1>1. Init => FlagInv
    BY DEF Init, FlagInv, RunningFlagExact, Guarded, Leaked
  <1>2. FlagInv => RunningFlagExact
    BY DEF FlagInv
  <1>3. QED
    BY TypeInit, TypeStep, QueueInit, QueueStep, FlagStep, <1>1, <1>2, PTL DEF Spec

-----------------------------------------------------------------------------
(* The requests the refinement mapping counts as settled.                   *)
Settled == {r \in Requests : outcome[r] # "none"}

(* run_input returns: the executor finishes its request.                    *)
LEMMA ReturnFinishes ==
    ASSUME TypeInv, NEW o \in Outcomes \ {"none"}, cur # None, Return(o)
    PROVE  Executor!Finish
  <1>1. Settled' = Settled \cup {cur}
    BY DEF Settled, Return, TypeInv, TypeOK
  <1>2. cur' = None /\ UNCHANGED queue
    BY DEF Return
  <1>3. QED
    BY <1>1, <1>2 DEF Executor!Finish, Settled

(* Every step of the dispatcher is a step of the executor, or invisible.    *)
LEMMA ExecutorStep ==
    TypeInv /\ QueueIntegrity /\ [Next]_vars => [Executor!Next]_(Executor!vars)
  <1> SUFFICES ASSUME TypeInv, QueueIntegrity, [Next]_vars
               PROVE  Executor!Next \/ UNCHANGED Executor!vars
    OBVIOUS
  <1> USE DEF hvars, svars, qvars, rvars, evars
  <1>t. outcome \in [Requests -> Outcomes] /\ queue \in Seq(Requests)
    BY DEF TypeInv, TypeOK
  <1>c. lpc \notin {"top", "waiting", "pop"} <=> cur # None
    BY DEF TypeInv, LoopInv
  <1>u. ASSUME UNCHANGED <<queue, cur, outcome>>
        PROVE  UNCHANGED Executor!vars
    BY <1>u DEF Executor!vars
  <1>f. Executor!Finish => Executor!Next
    BY DEF Executor!Next
  <1>1. ASSUME NEW r \in Requests, NEW in \in AgentInputs, Receive(r, in)
        PROVE  UNCHANGED Executor!vars
    BY <1>1, <1>u DEF Receive
  <1>2. ASSUME NEW r \in Requests, HandlerStep(r)
        PROVE  UNCHANGED Executor!vars
    BY <1>2, <1>u DEF HandlerStep, CompareSession, SetSessionCheck, SetSessionWrite,
                      SetSessionReplace, RememberSession, Submit
  <1>3. ASSUME NEW r \in Requests, PushBack(r)
        PROVE  Executor!Next
    <2>1. ~Occurs(queue, r) /\ r # cur /\ outcome[r] = "none"
      BY <1>3 DEF PushBack, Pushed, QueueIntegrity, InQueue
    <2>2. queue' = Append(queue, r) /\ UNCHANGED <<cur, outcome>>
      BY <1>3 DEF PushBack, Enqueued
    <2>3. Executor!Enqueue(r)
      BY <2>1, <2>2 DEF Executor!Enqueue, Executor!Occurs, Occurs
    <2>4. QED
      BY <2>3 DEF Executor!Next
  <1>4. ASSUME NEW r \in Requests, NotifyOne(r) \/ TaskStep(r)
        PROVE  UNCHANGED Executor!vars
    BY <1>4, <1>u DEF NotifyOne, TaskStep, AgentStart, AgentEnd, Listen, ListenerLags
  <1>5. ASSUME NEW id \in RunIds, Cancel(id)
        PROVE  Executor!Next \/ UNCHANGED Executor!vars
    <2>1. CASE UNCHANGED <<queue, outcome>>
      BY <1>5, <1>u, <2>1 DEF Cancel
    <2>2. ASSUME NEW i \in 1..Len(queue), queue' = Cut(queue, i),
                 outcome' = [outcome EXCEPT ![queue[i]] = "cancelled"]
          PROVE  Executor!Next
      <3>1. queue[i] \in Requests
        BY <1>t, ElementOfSeq
      <3>2. Settled' = Settled \cup {queue[i]}
        BY <1>t, <2>2, <3>1 DEF Settled
      <3>3. UNCHANGED cur
        BY <1>5 DEF Cancel
      <3>4. Executor!Withdraw(i)
        BY <2>2, <3>2, <3>3 DEF Executor!Withdraw, Executor!Cut, Cut, Settled
      <3>5. QED
        BY <3>4 DEF Executor!Next
    <2>3. QED
      BY <1>5, <2>1, <2>2 DEF Cancel, Without
  <1>6. CASE Notified
    BY <1>6, <1>u DEF Notified
  <1>7. CASE PopFront
    <2>1. CASE queue = <<>>
      BY <1>7, <1>u, <2>1 DEF PopFront
    <2>2. CASE queue # <<>>
      <3>1. cur = None /\ cur' = Head(queue) /\ queue' = Tail(queue) /\ UNCHANGED outcome
        BY <1>7, <1>c, <2>2 DEF PopFront
      <3>2. Executor!Begin
        BY <2>2, <3>1 DEF Executor!Begin
      <3>3. QED
        BY <3>2 DEF Executor!Next
    <2>3. QED
      BY <2>1, <2>2
  <1>8. CASE EnterRun
    <2>1. CASE isRunning
      BY <1>8, <1>c, <1>f, <2>1, ReturnFinishes DEF EnterRun, Outcomes
    <2>2. CASE ~isRunning
      BY <1>8, <1>u, <2>2 DEF EnterRun
    <2>3. QED
      BY <2>1, <2>2
  <1>9. CASE BeginRun
    <2>1. CASE input[cur].empty
      BY <1>9, <1>c, <1>f, <2>1, ReturnFinishes DEF BeginRun, Outcomes
    <2>2. CASE ~input[cur].empty
      BY <1>9, <1>u, <2>2 DEF BeginRun
    <2>3. QED
      BY <2>1, <2>2
  <1>10. CASE PersistInput
    <2>1. CASE Return("persist_failed")
      BY <1>10, <1>c, <1>f, <2>1, ReturnFinishes DEF PersistInput, Outcomes
    <2>2. CASE UNCHANGED <<queue, cur, outcome>>
      BY <1>u, <2>2
    <2>3. QED
      BY <1>10, <2>1, <2>2 DEF PersistInput
  <1>11. CASE AgentTaskJoined
    <2>1. CASE run[cur] = "panicked"
      BY <1>11, <1>c, <1>f, <2>1, ReturnFinishes DEF AgentTaskJoined, Outcomes
    <2>2. CASE run[cur] # "panicked"
      BY <1>11, <1>u, <2>2 DEF AgentTaskJoined
    <2>3. QED
      BY <2>1, <2>2
  <1>12. CASE ListenersJoined
    <2>1. run[cur] \in Outcomes \ {"none"}
      BY <1>12 DEF ListenersJoined, TypeInv, LoopInv, Outcomes
    <2>2. QED
      BY <1>12, <1>c, <1>f, <2>1, ReturnFinishes DEF ListenersJoined
  <1>13. CASE Timeout
    BY <1>13, <1>c, <1>f, ReturnFinishes DEF Timeout, Outcomes
  <1>14. CASE UNCHANGED vars
    BY <1>14, <1>u DEF vars
  <1>15. QED
    BY <1>1, <1>2, <1>3, <1>4, <1>5, <1>6, <1>7, <1>8, <1>9, <1>10, <1>11, <1>12, <1>13, <1>14
       DEF Next, EnqueueStep, LoopStep

(* The dispatcher implements the serial FIFO executor: requests are taken   *)
(* in the order they were pushed, one at a time, and each is settled once.  *)
THEOREM SerialFIFOHolds == Spec => SerialFIFO
  <1>1. Init => Executor!Init
    <2> SUFFICES ASSUME Init
                 PROVE  Executor!Init
      OBVIOUS
    <2>1. queue = <<>> /\ cur = None
      BY DEF Init
    <2>2. {r \in Requests : outcome[r] # "none"} = {}
      BY DEF Init
    <2>3. QED
      BY <2>1, <2>2 DEF Executor!Init
  <1>2. QED
    BY TypeInit, TypeStep, QueueInit, QueueStep, ExecutorStep, <1>1, PTL
       DEF Spec, SerialFIFO, Executor!Spec

-----------------------------------------------------------------------------
(* What the listener of a request has heard of its agent task so far.       *)
Heard(r) ==
    /\ run[r] = "spawned" => events[r] = <<>> /\ status # r
    /\ run[r] \in {"live", "failed", "panicked"} =>
          \/ events[r] = <<"start">> /\ status # r
          \/ events[r] = <<>> /\ status = r
    /\ run[r] \in {"ok", "aborted"} =>
          \/ events[r] = <<"start", "end">> /\ status # r
          \/ events[r] = <<"end">>
          \/ events[r] = <<>> /\ status = None

(* Only the awaited request has a listener, and the listener heard its      *)
(* events in order; a status left behind is of a run without a final event. *)
ListenInv ==
    /\ listening = (IF lpc \in {"await", "join"} THEN {cur} ELSE {}) \ lagged
    /\ \A r \in lagged : run[r] # "none"
    /\ \A r \in Requests : r \notin listening => events[r] = <<>>
    /\ \A r \in listening : run[r] # "none" /\ Heard(r)
    /\ status # None => \/ status \in listening \/ status \in lagged
                        \/ outcome[status] \in {"failed", "panicked", "timeout"}
    /\ \A r \in ended : run[r] \in {"ok", "aborted"}

(* The backlog of a run whose final event follows its start event.          *)
LEMMA StartThenEnd == <<"start">> \o <<"end">> = <<"start", "end">>
  <1> DEFINE S == {"start", "end"}
             s == <<"start">> \o <<"end">>
             t == <<"start", "end">>
  <1>1. /\ <<"start">> \in Seq(S) /\ <<"end">> \in Seq(S)
        /\ t \in Seq(S) /\ Len(t) = 2 /\ t[1] = "start" /\ t[2] = "end"
    OBVIOUS
  <1>2. s \in Seq(S) /\ Len(s) = 2 /\ s[1] = "start" /\ s[2] = "end"
    BY <1>1, ConcatProperties
  <1> HIDE DEF S, s, t
  <1>3. \A i \in 1..Len(s) : s[i] = t[i]
    BY <1>1, <1>2
  <1>4. s = t
    BY <1>1, <1>2, <1>3, SeqEqual
  <1>5. QED
    BY <1>4 DEF s, t

(* The other backlogs: a first or last event, nothing more, the next one.   *)
LEMMA Backlogs ==
    /\ <<>> \o <<"start">> = <<"start">> /\ <<>> \o <<"end">> = <<"end">>
    /\ <<"start">> \o <<>> = <<"start">> /\ <<>> \o <<>> = <<>>
    /\ <<"start">> # <<>> /\ <<"end">> # <<>> /\ <<"start", "end">> # <<>>
    /\ Head(<<"start">>) = "start" /\ Tail(<<"start">>) = <<>>
    /\ Head(<<"end">>) = "end" /\ Tail(<<"end">>) = <<>>
    /\ Head(<<"start", "end">>) = "start" /\ Tail(<<"start", "end">>) = <<"end">>
  OBVIOUS

(* A step that concerns neither tasks nor listeners, and gives a result at  *)
(* most to a request that had none.                                         *)
LEMMA ListenFrame ==
    ASSUME ListenInv, UNCHANGED <<run, events, listening, status, ended, lagged>>,
           lpc \in {"await", "join"} <=> lpc' \in {"await", "join"},
           lpc \in {"await", "join"} => cur' = cur,
           \A r : outcome[r] \in {"failed", "panicked", "timeout"} => outcome'[r] = outcome[r]
    PROVE  ListenInv'
  <1>1. \A r \in listening : run'[r] # "none" /\ Heard(r)'
    BY DEF ListenInv, Heard
  <1>2. /\ listening' = (IF lpc' \in {"await", "join"} THEN {cur'} ELSE {}) \ lagged'
        /\ \A r \in lagged' : run'[r] # "none"
    BY DEF ListenInv
  <1>3. status' # None => \/ status' \in listening' \/ status' \in lagged'
                          \/ outcome'[status'] \in {"failed", "panicked", "timeout"}
    BY DEF ListenInv
  <1>4. /\ \A r \in Requests : r \notin listening' => events'[r] = <<>>
        /\ \A r \in ended' : run'[r] \in {"ok", "aborted"}
    BY DEF ListenInv
  <1>5. QED
    BY <1>1, <1>2, <1>3, <1>4 DEF ListenInv

(* run_input returns: its listener is gone, with what it had not read.      *)
LEMMA ListenReturn ==
    ASSUME TypeInv, QueueIntegrity, ListenInv, lpc \notin {"top", "waiting", "pop"},
           NEW o \in Outcomes, Return(o), UNCHANGED <<run, status, ended, lagged>>,
           listening' = listening \ {cur}, events' = [events EXCEPT ![cur] = <<>>],
           status = cur => o \in {"failed", "panicked", "timeout"} \/ cur \in lagged
    PROVE  ListenInv'
  <1>1. cur \in Requests /\ outcome[cur] = "none" /\ cur # None
    BY OpenOutcomes DEF TypeInv, LoopInv
  <1>2. listening' = {} /\ lpc' = "top"
    BY DEF ListenInv, Return
  <1>3. outcome' = [outcome EXCEPT ![cur] = o] /\ outcome \in [Requests -> Outcomes]
    BY DEF Return, TypeInv, TypeOK
  <1>4. \A r \in Requests : events'[r] = <<>>
    BY <1>1 DEF ListenInv, TypeInv, TypeOK
  <1>5. status # None => \/ outcome'[status] \in {"failed", "panicked", "timeout"}
                         \/ status \in lagged
    <2>1. CASE status = cur
      BY <1>1, <1>3, <2>1
    <2>2. CASE status # cur
      BY <1>1, <1>3, <2>2 DEF ListenInv, TypeInv, TypeOK
    <2>3. QED
      BY <2>1, <2>2
  <1>6. QED
    BY <1>2, <1>4, <1>5 DEF ListenInv

(* Every action keeps the listener and the status map in step.              *)
LEMMA ListenStep ==
    TypeInv /\ QueueIntegrity /\ RunInv /\ ListenInv /\ [Next]_vars => ListenInv'
  <1> SUFFICES ASSUME TypeInv, QueueIntegrity, RunInv, ListenInv, [Next]_vars
               PROVE  ListenInv'
    OBVIOUS
  <1> USE DEF hvars, svars, qvars, rvars, evars
  <1>t. /\ run \in [Requests -> RunStates] /\ outcome \in [Requests -> Outcomes]
        /\ events \in [Requests -> Seq({"start", "end"})]
        /\ status \in Requests \cup {None} /\ listening \in SUBSET Requests
        /\ lpc \notin {"top", "waiting", "pop"} <=> cur # None
        /\ cur # None => cur \in Requests /\ outcome[cur] = "none"
    BY OpenOutcomes DEF TypeInv, TypeOK, LoopInv
  <1>1. ASSUME NEW r \in Requests, NEW in \in AgentInputs, Receive(r, in)
        PROVE  ListenInv'
    BY <1>1, ListenFrame DEF Receive
  <1>2. ASSUME NEW r \in Requests, HandlerStep(r)
        PROVE  ListenInv'
    <2>1. UNCHANGED <<run, events, listening, status, ended, lagged, lpc, cur, outcome>>
      BY <1>2 DEF HandlerStep, CompareSession, SetSessionCheck, SetSessionWrite,
                  SetSessionReplace, RememberSession, Submit
    <2>2. QED
      BY <2>1, ListenFrame
  <1>3. ASSUME NEW r \in Requests, EnqueueStep(r)
        PROVE  ListenInv'
    BY <1>3, ListenFrame DEF EnqueueStep, PushBack, NotifyOne
  <1>4. ASSUME NEW r \in Requests, AgentStart(r)
        PROVE  ListenInv'
    <2>1. /\ run[r] = "spawned" /\ run' = [run EXCEPT ![r] = "live"]
          /\ events' = IF r \in listening THEN [events EXCEPT ![r] = @ \o <<"start">>] ELSE events
          /\ UNCHANGED <<listening, status, ended, lagged, lpc, cur, outcome>>
      BY <1>4 DEF AgentStart, Emit
    <2>2. \A x \in Requests : x \notin listening => events'[x] = <<>>
      BY <1>t, <2>1 DEF ListenInv
    <2>3. ASSUME NEW x \in listening
          PROVE  run'[x] # "none" /\ Heard(x)'
      <3>1. CASE x = r
        <4>1. run'[r] = "live" /\ events'[r] = events[r] \o <<"start">>
          BY <1>t, <2>1, <3>1
        <4>2. events[r] = <<>> /\ status # r
          BY <2>1, <3>1 DEF ListenInv, Heard
        <4>3. events'[r] = <<"start">>
          BY <4>1, <4>2, Backlogs
        <4>4. QED
          BY <2>1, <3>1, <4>1, <4>2, <4>3 DEF Heard
      <3>2. CASE x # r
        <4>1. run'[x] = run[x] /\ events'[x] = events[x] /\ x \in Requests
          BY <1>t, <2>1, <3>2
        <4>2. QED
          BY <2>1, <4>1 DEF ListenInv, Heard
      <3>3. QED
        BY <3>1, <3>2
    <2>4. \A x \in ended : run'[x] \in {"ok", "aborted"}
      BY <1>t, <2>1 DEF ListenInv, TypeInv, TypeOK
    <2>5. QED
      BY <2>1, <2>2, <2>3, <2>4 DEF ListenInv
  <1>5. ASSUME NEW r \in Requests, AgentEnd(r)
        PROVE  ListenInv'
    <2>0. PICK o \in {"ok", "aborted", "failed", "panicked"} :
              run' = [run EXCEPT ![r] = o] /\ Emit(r, FinalEvents(o))
      BY <1>5 DEF AgentEnd
    <2>1. /\ run[r] = "live"
          /\ events' = IF r \in listening THEN [events EXCEPT ![r] = @ \o FinalEvents(o)] ELSE events
          /\ UNCHANGED <<listening, status, ended, lagged, lpc, cur, outcome>>
      BY <1>5, <2>0 DEF AgentEnd, Emit
    <2>2. \A x \in Requests : x \notin listening => events'[x] = <<>>
      BY <1>t, <2>1 DEF ListenInv
    <2>3. ASSUME NEW x \in listening
          PROVE  run'[x] # "none" /\ Heard(x)'
      <3>1. CASE x = r
        <4>1. run'[r] = o /\ events'[r] = events[r] \o FinalEvents(o)
          BY <1>t, <2>0, <2>1, <3>1
        <4>2. \/ events[r] = <<"start">> /\ status # r
              \/ events[r] = <<>> /\ status = r
          BY <2>1, <3>1 DEF ListenInv, Heard
        <4>3. CASE o \in {"ok", "aborted"}
          <5>1. events'[r] = events[r] \o <<"end">>
            BY <4>1, <4>3 DEF FinalEvents
          <5>2. \/ events'[r] = <<"start", "end">> /\ status # r
                \/ events'[r] = <<"end">>
            BY <4>2, <5>1, Backlogs, StartThenEnd
          <5>3. QED
            BY <2>1, <3>1, <4>1, <4>3, <5>2 DEF Heard
        <4>4. CASE o \in {"failed", "panicked"}
          <5>1. events'[r] = events[r]
            <6>1. events'[r] = events[r] \o <<>>
              BY <4>1, <4>4 DEF FinalEvents
            <6>2. QED
              BY <4>2, <6>1, Backlogs
          <5>2. QED
            BY <2>1, <3>1, <4>1, <4>2, <4>4, <5>1 DEF Heard
        <4>5. QED
          BY <4>3, <4>4
      <3>2. CASE x # r
        <4>1. run'[x] = run[x] /\ events'[x] = events[x] /\ x \in Requests
          BY <1>t, <2>0, <2>1, <3>2
        <4>2. QED
          BY <2>1, <4>1 DEF ListenInv, Heard
      <3>3. QED
        BY <3>1, <3>2
    <2>4. /\ \A x \in ended : run'[x] \in {"ok", "aborted"}
          /\ \A x \in lagged : run'[x] # "none"
      BY <1>t, <2>0, <2>1 DEF ListenInv, TypeInv, TypeOK
    <2>5. QED
      BY <2>1, <2>2, <2>3, <2>4 DEF ListenInv
  <1>6. ASSUME NEW r \in Requests, Listen(r)
        PROVE  ListenInv'
    <2>1. /\ events[r] # <<>> /\ events' = [events EXCEPT ![r] = Tail(@)]
          /\ UNCHANGED <<run, listening, lagged, lpc, cur, outcome>>
      BY <1>6 DEF Listen
    <2>2. r \in listening /\ Heard(r) /\ run[r] # "none" /\ listening = {r}
      BY <2>1 DEF ListenInv
    <2>3. \A x \in Requests : x \notin listening => events'[x] = <<>>
      BY <1>t, <2>1, <2>2 DEF ListenInv
    <2>4. CASE Head(events[r]) = "start"
      <3>1. status' = r /\ UNCHANGED ended
        BY <1>6, <2>4 DEF Listen
      <3>2. \/ run[r] \in {"live", "failed", "panicked"} /\ events'[r] = <<>>
            \/ run[r] \in {"ok", "aborted"} /\ events'[r] = <<"end">>
        <4>1. events'[r] = Tail(events[r])
          BY <1>t, <2>1
        <4>2. \/ run[r] \in {"live", "failed", "panicked"} /\ events[r] = <<"start">>
              \/ run[r] \in {"ok", "aborted"} /\ events[r] \in {<<"start", "end">>, <<"end">>}
          BY <1>t, <2>1, <2>2 DEF Heard, RunStates
        <4>3. events[r] # <<"end">>
          BY <2>4, Backlogs
        <4>4. QED
          BY <4>1, <4>2, <4>3, Backlogs
      <3>3. Heard(r)'
        BY <2>1, <3>1, <3>2 DEF Heard
      <3>4. QED
        BY <2>1, <2>2, <2>3, <3>1, <3>3 DEF ListenInv
    <2>5. CASE Head(events[r]) # "start"
      <3>1. status' = None /\ ended' = ended \cup {r}
        BY <1>6, <2>5 DEF Listen
      <3>2. run[r] \in {"ok", "aborted"} /\ events'[r] = <<>>
        <4>1. events'[r] = Tail(events[r])
          BY <1>t, <2>1
        <4>2. \/ events[r] = <<"start">>
              \/ run[r] \in {"ok", "aborted"} /\ events[r] \in {<<"start", "end">>, <<"end">>}
          BY <1>t, <2>1, <2>2 DEF Heard, RunStates
        <4>3. QED
          BY <2>5, <4>1, <4>2, Backlogs
      <3>3. Heard(r)'
        BY <2>1, <3>1, <3>2 DEF Heard
      <3>4. \A x \in ended' : run'[x] \in {"ok", "aborted"}
        BY <2>1, <3>1, <3>2 DEF ListenInv
      <3>5. QED
        BY <2>1, <2>2, <2>3, <3>1, <3>3, <3>4 DEF ListenInv
    <2>6. QED
      BY <2>4, <2>5
  <1>l. ASSUME NEW r \in Requests, ListenerLags(r)
        PROVE  ListenInv'
    <2>1. /\ r \in listening /\ listening' = listening \ {r} /\ lagged' = lagged \cup {r}
          /\ events' = [events EXCEPT ![r] = <<>>]
          /\ UNCHANGED <<run, status, ended, lpc, cur, outcome>>
      BY <1>l DEF ListenerLags
    <2>2. run[r] # "none" /\ listening = {r} /\ listening' = {}
      BY <2>1 DEF ListenInv
    <2>3. \A x \in Requests : events'[x] = <<>>
      BY <1>t, <2>1, <2>2 DEF ListenInv
    <2>4. QED
      BY <2>1, <2>2, <2>3 DEF ListenInv
  <1>7. ASSUME NEW id \in RunIds, Cancel(id)
        PROVE  ListenInv'
    <2>1. UNCHANGED <<run, events, listening, status, ended, lagged, lpc, cur>>
      BY <1>7 DEF Cancel
    <2>2. CASE UNCHANGED outcome
      BY <2>1, <2>2, ListenFrame
    <2>3. ASSUME NEW i \in 1..Len(queue),
                 outcome' = [outcome EXCEPT ![queue[i]] = "cancelled"]
          PROVE  ListenInv'
      <3>1. queue[i] \in Requests /\ outcome[queue[i]] = "none"
        BY OpenOutcomes
      <3>2. \A x : outcome[x] \in {"failed", "panicked", "timeout"} => outcome'[x] = outcome[x]
        BY <1>t, <2>3, <3>1
      <3>3. QED
        BY <2>1, <3>2, ListenFrame
    <2>4. QED
      BY <1>7, <2>2, <2>3 DEF Cancel
  <1>r. ASSUME NEW o, Return(o), cur # None
        PROVE  \A x : outcome[x] \in {"failed", "panicked", "timeout"} => outcome'[x] = outcome[x]
    BY <1>r, <1>t DEF Return
  <1>8. CASE Notified
    BY <1>8, ListenFrame DEF Notified
  <1>9. CASE PopFront
    BY <1>9, ListenFrame DEF PopFront
  <1>10. CASE EnterRun
    BY <1>10, <1>r, <1>t, ListenFrame DEF EnterRun, Return
  <1>11. CASE BeginRun
    BY <1>11, <1>r, <1>t, ListenFrame DEF BeginRun, Return
  <1>12. CASE PersistInput
    <2>1. lpc = "persist" /\ UNCHANGED <<events, status, ended, lagged>> /\ cur \in Requests /\ run[cur] = "none"
      BY <1>12, <1>t DEF PersistInput, RunInv
    <2>2. CASE Return("persist_failed") /\ UNCHANGED <<run, listening>>
      BY <1>r, <1>t, <2>1, <2>2, ListenFrame DEF Return
    <2>3. CASE /\ run' = [run EXCEPT ![cur] = "spawned"] /\ listening' = listening \cup {cur}
               /\ lpc' = "await" /\ UNCHANGED <<cur, outcome>>
      <3>1. /\ listening = {} /\ cur \notin lagged /\ events'[cur] = <<>> /\ status' # cur
            /\ run'[cur] = "spawned"
        BY <1>t, <2>1, <2>3 DEF ListenInv
      <3>2. Heard(cur)' /\ cur' = cur /\ listening' = {cur} /\ listening' = {cur} \ lagged'
        BY <2>1, <2>3, <3>1 DEF Heard
      <3>l. \A x \in lagged' : run'[x] # "none"
        BY <1>t, <2>1, <2>3 DEF ListenInv, TypeInv, TypeOK
      <3>3. \A x \in ended : run'[x] \in {"ok", "aborted"}
        BY <1>t, <2>1, <2>3 DEF ListenInv, TypeInv, TypeOK
      <3>4. QED
        BY <2>1, <2>3, <3>1, <3>2, <3>l, <3>3 DEF ListenInv
    <2>4. QED
      BY <1>12, <2>2, <2>3 DEF PersistInput
  <1>13. CASE AgentTaskJoined
    <2>1. lpc = "await" /\ UNCHANGED run
      BY <1>13 DEF AgentTaskJoined
    <2>2. CASE Return("panicked") /\ AbortListener
      BY <2>1, <2>2, ListenReturn DEF AbortListener, Outcomes
    <2>3. CASE lpc' = "join" /\ UNCHANGED <<cur, outcome, evars>>
      BY <2>1, <2>3, ListenFrame
    <2>4. QED
      BY <1>13, <2>2, <2>3 DEF AgentTaskJoined
  <1>14. CASE ListenersJoined
    <2>1. /\ lpc = "join" /\ Return(run[cur]) /\ events[cur] = <<>> /\ listening' = listening \ {cur}
          /\ UNCHANGED <<run, events, status, ended, lagged>> /\ run[cur] \in {"ok", "aborted", "failed"}
      BY <1>14 DEF ListenersJoined, Drained, TypeInv, LoopInv
    <2>2. (cur \in listening \/ cur \in lagged) /\ cur # None
      BY <1>t, <2>1 DEF ListenInv
    <2>3. status = cur => run[cur] = "failed" \/ cur \in lagged
      BY <2>1, <2>2 DEF ListenInv, Heard
    <2>4. events' = [events EXCEPT ![cur] = <<>>]
      BY <1>t, <2>1, <2>2
    <2>5. QED
      BY <2>1, <2>3, <2>4, ListenReturn DEF Outcomes
  <1>15. CASE Timeout
    <2>1. lpc \in {"connect", "persist", "await", "join"} /\ UNCHANGED run /\ AbortListener
      BY <1>15 DEF Timeout
    <2>2. CASE lpc = "connect"
      <3>1. Return("timeout_unguarded") /\ status # cur
        BY <1>15, <1>t, <2>2 DEF Timeout, ListenInv, RunInv
      <3>2. QED
        BY <2>1, <2>2, <3>1, ListenReturn DEF AbortListener, Outcomes
    <2>3. CASE lpc # "connect"
      <3>1. Return("timeout")
        BY <1>15, <2>3 DEF Timeout
      <3>2. QED
        BY <2>1, <2>3, <3>1, ListenReturn DEF AbortListener, Outcomes
    <2>4. QED
      BY <2>2, <2>3
  <1>16. CASE UNCHANGED vars
    BY <1>16, ListenFrame DEF vars
  <1>17. QED
    BY <1>1, <1>2, <1>3, <1>4, <1>5, <1>6, <1>l, <1>7, <1>8, <1>9, <1>10, <1>11, <1>12, <1>13,
       <1>14, <1>15, <1>16
       DEF Next, TaskStep, LoopStep

(* The status map shows the executing run once its start event was read,    *)
(* and no run that finished normally: agent_status is written by the        *)
(* listener of the run alone, and the listener is joined or aborted first.  *)
THEOREM StatusTruthHolds == Spec => []StatusTruth
  <1>1. Init => RunInv /\ ListenInv
    BY DEF Init, RunInv, ListenInv
  <1>2. ListenInv => StatusTruth
    BY DEF ListenInv, Heard, StatusTruth
  <1>3. QED
    BY TypeInit, TypeStep, QueueInit, QueueStep, RunStep, ListenStep, <1>1, <1>2, PTL DEF Spec

-----------------------------------------------------------------------------
(* A polling client: one request at a time is under way, and while it is    *)
(* not yet pushed the dispatcher has nothing to do.                         *)
Underway(r) == pc[r] # "unsent" /\ r \notin ended

BeforePush == {"compare", "check", "write", "replace", "remember", "send", "push"}

TurnInv ==
    /\ \A r, s \in Requests : Underway(r) /\ Underway(s) => r = s
    /\ (\E r \in Requests : pc[r] \in BeforePush) => cur = None /\ queue = <<>>

Asks(r) == input[r].sid # None

(* The three places that name a session (AgentConfig.session, the session   *)
(* contributor and agent_last_session) agree but for the swap under way,    *)
(* and the request under way finds its own session there.                   *)
SwapInv ==
    /\ (\A r \in Requests : pc[r] \notin {"replace", "remember"}) => session = lastSession
    /\ (\A r \in Requests : pc[r] # "remember") => contextSession = lastSession
    /\ \A r \in Requests :
          /\ pc[r] \in {"check", "write", "replace", "remember"} => Asks(r)
          /\ pc[r] \in {"replace", "remember"} => session = input[r].sid
          /\ pc[r] = "remember" => contextSession = input[r].sid
          /\ pc[r] \in {"send", "push", "notify", "done"} /\ r \notin ended /\ Asks(r) =>
                lastSession = input[r].sid
          /\ r = cur /\ r \notin ended /\ lpc \in {"persist", "await", "join"} /\ Asks(r) =>
                runSession[r] = input[r].sid

(* A run whose final event was forwarded did not leak is_running.           *)
EndedInv == \A r \in ended : outcome[r] \notin {"invalid_input", "timeout_unguarded"}

RequestInv == TypeInv /\ QueueIntegrity /\ RunInv /\ FlagInv /\ ListenInv /\ EndedInv

(* A request that was answered ran, so it was pushed; before the push of a  *)
(* request no other is being handled.                                       *)
LEMMA TurnFacts ==
    ASSUME RequestInv, TurnInv
    PROVE  /\ \A r \in Requests : pc[r] \in BeforePush => Underway(r)
           /\ \A r \in Requests : pc[r] \in BeforePush =>
                 \A s \in Requests \ {r} : pc[s] \notin BeforePush /\ ~Underway(s)
           /\ cur # None => /\ cur \in Requests /\ pc[cur] \in {"notify", "done"}
                            /\ \A r \in Requests : pc[r] \notin BeforePush
  <1>1. ASSUME NEW r \in Requests, r \in ended
        PROVE  Pushed(r)
    <2>1. run[r] # "none"
      BY <1>1 DEF RequestInv, ListenInv
    <2>2. outcome[r] # "none" \/ r = cur
      BY <2>1 DEF RequestInv, RunInv
    <2>3. QED
      BY <2>2 DEF RequestInv, QueueIntegrity
  <1>2. \A r \in Requests : pc[r] \in BeforePush => Underway(r)
    BY <1>1 DEF BeforePush, Pushed, Underway
  <1>3. cur # None => cur \in Requests /\ Pushed(cur)
    BY DEF RequestInv, QueueIntegrity, TypeInv, TypeOK
  <1>4. QED
    BY <1>2, <1>3 DEF TurnInv, Pushed

(* A polling client sends when nothing is under way, queued or executed.    *)
LEMMA PollingWaits ==
    ASSUME RequestInv, Discipline = "polling", MaySubmit
    PROVE  cur = None /\ queue = <<>> /\ \A r \in Requests : ~Underway(r)
  <1>1. StatusReply = "idle" /\ \A r \in Requests : ~Underway(r)
    BY DEF MaySubmit, Underway
  <1>2. ~Busy
    BY <1>1 DEF StatusReply
  <1>3. cur = None
    BY <1>2 DEF Busy, RequestInv, TypeInv, LoopInv
  <1>4. CASE queue # <<>>
    <2>1. 1 \in 1..Len(queue) /\ queue \in Seq(Requests)
      BY <1>4 DEF RequestInv, TypeInv, TypeOK
    <2>2. PICK r \in Requests : r = queue[1]
      BY <2>1, ElementOfSeq
    <2>3. InQueue(r)
      BY <2>1, <2>2 DEF InQueue, Occurs
    <2>4. Pushed(r) /\ outcome[r] = "none"
      BY <2>3 DEF RequestInv, QueueIntegrity
    <2>5. r \in ended
      BY <1>1, <2>4 DEF Pushed, Underway
    <2>6. run[r] # "none"
      BY <2>5 DEF RequestInv, ListenInv
    <2>7. QED
      BY <1>3, <2>4, <2>6 DEF RequestInv, RunInv
  <1>5. QED
    BY <1>1, <1>3, <1>4

(* So the swap of the session is never refused.                             *)
LEMMA SwapAccepted ==
    ASSUME RequestInv, TurnInv, NEW r \in Requests, pc[r] \in BeforePush
    PROVE  ~isRunning
  <1>1. cur = None
    BY DEF TurnInv
  <1>2. ~Guarded
    BY <1>1 DEF Guarded, RequestInv, TypeInv, LoopInv
  <1>3. ASSUME NEW s \in Requests, outcome[s] \in {"invalid_input", "timeout_unguarded"}
        PROVE  FALSE
    <2>1. Pushed(s)
      BY <1>3 DEF RequestInv, QueueIntegrity
    <2>2. s # r
      BY <2>1 DEF Pushed, BeforePush
    <2>3. ~Underway(s)
      BY <2>2, TurnFacts
    <2>4. s \in ended
      BY <2>1, <2>3 DEF Underway, Pushed
    <2>5. QED
      BY <1>3, <2>4 DEF RequestInv, EndedInv
  <1>4. QED
    BY <1>2, <1>3 DEF RequestInv, FlagInv, RunningFlagExact

(* Every action keeps EndedInv: a run leaks before its agent task exists.   *)
LEMMA EndedStep == RequestInv /\ [Next]_vars => EndedInv'
  <1> SUFFICES ASSUME RequestInv, [Next]_vars
               PROVE  EndedInv'
    OBVIOUS
  <1> USE DEF hvars, svars, qvars, rvars, evars
  <1>t. /\ outcome \in [Requests -> Outcomes]
        /\ lpc \notin {"top", "waiting", "pop"} => cur \in Requests /\ outcome[cur] = "none"
        /\ cur \in ended => lpc \in {"await", "join"}
    <2>1. /\ outcome \in [Requests -> Outcomes] /\ ended \in SUBSET Requests
          /\ lpc \notin {"top", "waiting", "pop"} => cur \in Requests /\ outcome[cur] = "none"
          /\ cur # None => outcome[cur] = "none"
      BY OpenOutcomes DEF RequestInv, TypeInv, TypeOK, LoopInv
    <2>2. QED
      BY <2>1 DEF RequestInv, ListenInv, RunInv
  <1>u. ASSUME UNCHANGED <<ended, outcome>>
        PROVE  EndedInv'
    BY <1>u DEF RequestInv, EndedInv
  <1>r. ASSUME NEW o, Return(o), UNCHANGED ended, lpc \notin {"top", "waiting", "pop"},
               o \in {"invalid_input", "timeout_unguarded"} => lpc = "connect"
        PROVE  EndedInv'
    BY <1>r, <1>t DEF Return, RequestInv, EndedInv
  <1>1. ASSUME NEW r \in Requests, NEW in \in AgentInputs, Receive(r, in)
        PROVE  EndedInv'
    BY <1>1, <1>u DEF Receive
  <1>2. ASSUME NEW r \in Requests, HandlerStep(r)
        PROVE  EndedInv'
    BY <1>2, <1>u DEF HandlerStep, CompareSession, SetSessionCheck, SetSessionWrite,
                      SetSessionReplace, RememberSession, Submit
  <1>3. ASSUME NEW r \in Requests,
               EnqueueStep(r) \/ AgentStart(r) \/ AgentEnd(r) \/ ListenerLags(r)
        PROVE  EndedInv'
    BY <1>3, <1>u DEF EnqueueStep, PushBack, NotifyOne, AgentStart, AgentEnd, ListenerLags
  <1>4. ASSUME NEW r \in Requests, Listen(r)
        PROVE  EndedInv'
    <2>1. r = cur /\ lpc \in {"await", "join"}
      BY <1>4 DEF Listen, RequestInv, ListenInv
    <2>2. outcome[r] = "none" /\ ended' \in {ended, ended \cup {r}} /\ UNCHANGED outcome
      BY <1>4, <1>t, <2>1 DEF Listen
    <2>3. QED
      BY <2>2 DEF RequestInv, EndedInv
  <1>5. ASSUME NEW id \in RunIds, Cancel(id)
        PROVE  EndedInv'
    <2>1. UNCHANGED ended
      BY <1>5 DEF Cancel
    <2>2. ASSUME NEW i \in 1..Len(queue),
                 outcome' = [outcome EXCEPT ![queue[i]] = "cancelled"]
          PROVE  EndedInv'
      BY <1>t, <2>1, <2>2 DEF RequestInv, EndedInv
    <2>3. QED
      BY <1>5, <1>u, <2>1, <2>2 DEF Cancel
  <1>6. CASE Notified \/ PopFront
    BY <1>6, <1>u DEF Notified, PopFront
  <1>7. CASE EnterRun
    BY <1>7, <1>r, <1>u DEF EnterRun
  <1>8. CASE BeginRun
    BY <1>8, <1>r, <1>u DEF BeginRun
  <1>9. CASE PersistInput
    BY <1>9, <1>r, <1>u DEF PersistInput
  <1>10. CASE AgentTaskJoined
    BY <1>10, <1>r, <1>u DEF AgentTaskJoined, AbortListener
  <1>11. CASE ListenersJoined
    <2>1. run[cur] \in {"ok", "aborted", "failed"} /\ lpc = "join"
      BY <1>11 DEF ListenersJoined, RequestInv, TypeInv, LoopInv
    <2>2. QED
      BY <1>11, <1>r, <2>1 DEF ListenersJoined
  <1>12. CASE Timeout
    BY <1>12, <1>r DEF Timeout, AbortListener
  <1>13. CASE UNCHANGED vars
    BY <1>13, <1>u DEF vars
  <1>14. QED
    BY <1>1, <1>2, <1>3, <1>4, <1>5, <1>6, <1>7, <1>8, <1>9, <1>10, <1>11, <1>12, <1>13
       DEF Next, TaskStep, LoopStep

(* A step of a request that stays under way, or moves no request back.      *)
LEMMA TurnFrame ==
    ASSUME TurnInv, ended \subseteq ended',
           \A r \in Requests : /\ pc'[r] # "unsent" => pc[r] # "unsent"
                               /\ pc'[r] \in BeforePush => pc[r] \in BeforePush,
           (\A r \in Requests : pc'[r] \notin BeforePush) \/ UNCHANGED <<cur, queue>>
    PROVE  TurnInv'
  <1>1. ASSUME NEW r \in Requests, pc'[r] # "unsent", r \notin ended'
        PROVE  pc[r] # "unsent" /\ r \notin ended
    BY <1>1
  <1>2. \A r, s \in Requests : Underway(r)' /\ Underway(s)' => r = s
    BY <1>1 DEF TurnInv, Underway
  <1>3. BeforePush' = BeforePush
    BY DEF BeforePush
  <1>4. ASSUME NEW r \in Requests, pc'[r] \in BeforePush
        PROVE  cur' = None /\ queue' = <<>>
    <2>1. pc[r] \in BeforePush /\ UNCHANGED <<cur, queue>>
      BY <1>4
    <2>2. QED
      BY <2>1 DEF TurnInv
  <1>5. QED
    BY <1>2, <1>3, <1>4 DEF TurnInv

(* Every action keeps the turns of a polling client.                        *)
LEMMA TurnStep ==
    ASSUME Discipline = "polling"
    PROVE  RequestInv /\ TurnInv /\ [Next]_vars => TurnInv'
  <1> SUFFICES ASSUME RequestInv, TurnInv, [Next]_vars
               PROVE  TurnInv'
    OBVIOUS
  <1> USE DEF hvars, svars, qvars, rvars, evars
  <1>t. /\ pc \in [Requests -> HandlerSteps]
        /\ lpc \notin {"top", "waiting", "pop"} => \A r \in Requests : pc[r] \notin BeforePush
    BY TurnFacts DEF RequestInv, TypeInv, TypeOK, LoopInv
  <1>u. ASSUME UNCHANGED pc, ended \subseteq ended',
               lpc \notin {"top", "waiting", "pop"} \/ UNCHANGED <<cur, queue>>
        PROVE  TurnInv'
    BY <1>t, <1>u, TurnFrame
  <1>1. ASSUME NEW r \in Requests, NEW in \in AgentInputs, Receive(r, in)
        PROVE  TurnInv'
    <2>1. cur = None /\ queue = <<>> /\ \A s \in Requests : ~Underway(s)
      BY <1>1, PollingWaits DEF Receive
    <2>2. pc' = [pc EXCEPT ![r] = "compare"] /\ UNCHANGED <<cur, queue, ended>>
      BY <1>1 DEF Receive
    <2>3. \A s \in Requests : Underway(s)' => s = r
      BY <1>t, <2>1, <2>2 DEF Underway
    <2>4. QED
      BY <2>1, <2>2, <2>3 DEF TurnInv
  <1>2. ASSUME NEW r \in Requests, HandlerStep(r)
        PROVE  TurnInv'
    <2>1. UNCHANGED <<cur, queue, ended>>
      BY <1>2 DEF HandlerStep, CompareSession, SetSessionCheck, SetSessionWrite,
                  SetSessionReplace, RememberSession, Submit
    <2>2. pc[r] \in BeforePush /\ \E x : pc' = [pc EXCEPT ![r] = x]
      BY <1>2 DEF HandlerStep, CompareSession, SetSessionCheck, SetSessionWrite,
                  SetSessionReplace, RememberSession, Submit, BeforePush
    <2>3. \A s \in Requests : /\ pc'[s] # "unsent" => pc[s] # "unsent"
                              /\ pc'[s] \in BeforePush => pc[s] \in BeforePush
      BY <1>t, <2>2 DEF BeforePush
    <2>4. QED
      BY <2>1, <2>3, TurnFrame
  <1>3. ASSUME NEW r \in Requests, PushBack(r)
        PROVE  TurnInv'
    <2>1. pc[r] = "push" /\ pc' = [pc EXCEPT ![r] = "notify"] /\ UNCHANGED ended
      BY <1>3 DEF PushBack
    <2>2. \A s \in Requests \ {r} : pc[s] \notin BeforePush
      BY <2>1, TurnFacts DEF BeforePush
    <2>3. \A s \in Requests : pc'[s] \notin BeforePush /\ (pc'[s] # "unsent" => pc[s] # "unsent")
      BY <1>t, <2>1, <2>2 DEF BeforePush
    <2>4. QED
      BY <2>1, <2>3, TurnFrame
  <1>4. ASSUME NEW r \in Requests, NotifyOne(r)
        PROVE  TurnInv'
    <2>1. pc[r] = "notify" /\ pc' = [pc EXCEPT ![r] = "done"] /\ UNCHANGED <<ended, cur, queue>>
      BY <1>4 DEF NotifyOne
    <2>2. QED
      BY <1>t, <2>1, TurnFrame DEF BeforePush
  <1>5. ASSUME NEW r \in Requests, TaskStep(r)
        PROVE  TurnInv'
    <2>1. UNCHANGED <<pc, cur, queue>> /\ ended \subseteq ended'
      BY <1>5 DEF TaskStep, AgentStart, AgentEnd, Listen, ListenerLags
    <2>2. QED
      BY <1>u, <2>1
  <1>6. ASSUME NEW id \in RunIds, Cancel(id)
        PROVE  TurnInv'
    <2>1. UNCHANGED <<pc, cur, ended>>
      BY <1>6 DEF Cancel
    <2>2. CASE \E r \in Requests : pc[r] \in BeforePush
      <3>1. Len(queue) = 0
        BY <2>2 DEF TurnInv
      <3>2. UNCHANGED queue
        BY <1>6, <3>1 DEF Cancel
      <3>3. QED
        BY <1>u, <2>1, <3>2
    <2>3. CASE \A r \in Requests : pc[r] \notin BeforePush
      BY <2>1, <2>3, TurnFrame
    <2>4. QED
      BY <2>2, <2>3
  <1>7. CASE Notified
    BY <1>7, <1>u DEF Notified
  <1>8. CASE PopFront
    <2>1. UNCHANGED <<pc, ended>>
      BY <1>8 DEF PopFront
    <2>2. CASE queue = <<>>
      BY <1>8, <1>u, <2>1, <2>2 DEF PopFront
    <2>3. CASE queue # <<>>
      <3>1. \A r \in Requests : pc[r] \notin BeforePush
        BY <2>3 DEF TurnInv
      <3>2. QED
        BY <2>1, <3>1, TurnFrame
    <2>4. QED
      BY <2>2, <2>3
  <1>9. CASE EnterRun \/ BeginRun \/ PersistInput \/ AgentTaskJoined \/ ListenersJoined \/ Timeout
    <2>1. UNCHANGED <<pc, ended>> /\ lpc \notin {"top", "waiting", "pop"}
      BY <1>9 DEF EnterRun, BeginRun, PersistInput, AgentTaskJoined, ListenersJoined, Timeout,
                  AbortListener
    <2>2. QED
      BY <1>u, <2>1
  <1>10. CASE UNCHANGED vars
    BY <1>10, <1>u DEF vars
  <1>11. QED
    BY <1>1, <1>2, <1>3, <1>4, <1>5, <1>6, <1>7, <1>8, <1>9, <1>10
       DEF Next, EnqueueStep, LoopStep

(* A step that touches neither the sessions nor a handler.                  *)
LEMMA SwapFrame ==
    ASSUME SwapInv, UNCHANGED <<pc, input, lastSession, session, contextSession>>,
           ended \subseteq ended',
           \A r \in Requests :
               r = cur' /\ lpc' \in {"persist", "await", "join"} =>
                   /\ r = cur /\ lpc \in {"persist", "await", "join"}
                   /\ runSession'[r] = runSession[r]
    PROVE  SwapInv'
  <1>1. \A r \in Requests : Asks(r)' <=> Asks(r)
    BY DEF Asks
  <1>2. QED
    BY <1>1 DEF SwapInv

(* A handler's step: the other requests are not under way, so all is about  *)
(* this one.                                                                *)
LEMMA SwapHandler ==
    ASSUME RequestInv, TurnInv, SwapInv, NEW r \in Requests, pc[r] \in BeforePush,
           NEW x \in HandlerSteps \ {"done"}, pc' = [pc EXCEPT ![r] = x],
           UNCHANGED <<input, cur, ended, lpc, runSession>>,
           x \notin {"replace", "remember"} => session' = lastSession',
           x # "remember" => contextSession' = lastSession',
           x \in {"check", "write", "replace", "remember"} => Asks(r),
           x \in {"replace", "remember"} => session' = input[r].sid,
           x = "remember" => contextSession' = input[r].sid,
           x \in {"send", "push", "notify"} /\ Asks(r) => lastSession' = input[r].sid
    PROVE  SwapInv'
  <1>1. /\ pc'[r] = x
        /\ \A s \in Requests \ {r} : pc'[s] = pc[s] /\ pc[s] \notin BeforePush /\ ~Underway(s)
    BY TurnFacts DEF RequestInv, TypeInv, TypeOK
  <1>2. cur' = None /\ \A s \in Requests : s # cur'
    BY DEF TurnInv
  <1>3. \A s \in Requests : Asks(s)' <=> Asks(s)
    BY DEF Asks
  <1>4. ASSUME NEW s \in Requests \ {r}
        PROVE  /\ pc'[s] \notin {"check", "write", "replace", "remember"}
               /\ pc'[s] \in {"send", "push", "notify", "done"} => s \in ended
    BY <1>1 DEF BeforePush, Underway
  <1>5. /\ (\A s \in Requests : pc'[s] \notin {"replace", "remember"}) => session' = lastSession'
        /\ (\A s \in Requests : pc'[s] # "remember") => contextSession' = lastSession'
    BY <1>1
  <1>6. ASSUME pc'[r] \in {"send", "push", "notify", "done"}, r \notin ended, Asks(r)
        PROVE  lastSession' = input[r].sid
    BY <1>1, <1>6
  <1>7. ASSUME NEW s \in Requests
        PROVE  /\ pc'[s] \in {"check", "write", "replace", "remember"} => Asks(s)'
               /\ pc'[s] \in {"replace", "remember"} => session' = input'[s].sid
               /\ pc'[s] = "remember" => contextSession' = input'[s].sid
               /\ pc'[s] \in {"send", "push", "notify", "done"} /\ s \notin ended' /\ Asks(s)' =>
                     lastSession' = input'[s].sid
               /\ s # cur'
    BY <1>1, <1>2, <1>3, <1>4, <1>6
  <1>8. QED
    BY <1>5, <1>7 DEF SwapInv

(* Every action keeps the three names of the session in step.               *)
LEMMA SwapStep ==
    ASSUME Discipline = "polling"
    PROVE  RequestInv /\ TurnInv /\ SwapInv /\ [Next]_vars => SwapInv'
  <1> SUFFICES ASSUME RequestInv, TurnInv, SwapInv, [Next]_vars
               PROVE  SwapInv'
    OBVIOUS
  <1> USE DEF hvars, svars, qvars, rvars, evars
  <1>t. pc \in [Requests -> HandlerSteps] /\ input \in [Requests -> AgentInputs \cup {None}]
    BY DEF RequestInv, TypeInv, TypeOK
  <1>o. ASSUME NEW r \in Requests, pc[r] \in BeforePush
        PROVE  \A s \in Requests \ {r} : pc[s] \notin BeforePush
    BY <1>o, TurnFacts
  <1>1. ASSUME NEW r \in Requests, NEW in \in AgentInputs, Receive(r, in)
        PROVE  SwapInv'
    <2>1. cur = None /\ queue = <<>> /\ \A s \in Requests : ~Underway(s)
      BY <1>1, PollingWaits DEF Receive
    <2>2. /\ pc' = [pc EXCEPT ![r] = "compare"] /\ pc[r] = "unsent"
          /\ UNCHANGED <<cur, ended, session, contextSession, lastSession>>
      BY <1>1 DEF Receive
    <2>3. \A s \in Requests : pc[s] \notin BeforePush
      BY <2>1, TurnFacts
    <2>4. ASSUME NEW s \in Requests
          PROVE  /\ pc'[s] \notin {"check", "write", "replace", "remember"}
                 /\ pc'[s] \in {"send", "push", "notify", "done"} => s \in ended
                 /\ s # cur'
      BY <1>t, <2>1, <2>2, <2>3 DEF Underway, BeforePush
    <2>5. session' = lastSession' /\ contextSession' = lastSession'
      BY <2>2, <2>3 DEF SwapInv, BeforePush
    <2>6. QED
      BY <2>2, <2>4, <2>5 DEF SwapInv
  <1>2. ASSUME NEW r \in Requests, CompareSession(r)
        PROVE  SwapInv'
    <2>1. pc[r] = "compare" /\ pc[r] \in BeforePush
      BY <1>2 DEF CompareSession, BeforePush
    <2>2. session = lastSession /\ contextSession = lastSession
      BY <1>o, <2>1 DEF SwapInv, BeforePush
    <2>3. UNCHANGED <<input, cur, ended, lpc, runSession, session, contextSession, lastSession>>
      BY <1>2 DEF CompareSession
    <2>4. CASE SessionChanged(r)
      <3>1. pc' = [pc EXCEPT ![r] = "check"] /\ Asks(r)
        BY <1>2, <2>4 DEF CompareSession, SessionChanged, Asks
      <3>2. QED
        BY <2>1, <2>2, <2>3, <3>1, SwapHandler DEF HandlerSteps
    <2>5. CASE ~SessionChanged(r)
      <3>1. pc' = [pc EXCEPT ![r] = "send"] /\ (Asks(r) => lastSession = input[r].sid)
        BY <1>2, <2>5 DEF CompareSession, SessionChanged, Asks
      <3>2. QED
        BY <2>1, <2>2, <2>3, <3>1, SwapHandler DEF HandlerSteps
    <2>6. QED
      BY <2>4, <2>5
  <1>3. ASSUME NEW r \in Requests, SetSessionCheck(r)
        PROVE  SwapInv'
    <2>1. pc[r] = "check" /\ pc[r] \in BeforePush
      BY <1>3 DEF SetSessionCheck, BeforePush
    <2>2. session = lastSession /\ contextSession = lastSession /\ Asks(r)
      BY <1>o, <2>1 DEF SwapInv, BeforePush
    <2>3. /\ pc' = [pc EXCEPT ![r] = "write"]
          /\ UNCHANGED <<input, cur, ended, lpc, runSession, session, contextSession, lastSession>>
      BY <1>3, <2>1, SwapAccepted DEF SetSessionCheck
    <2>4. QED
      BY <2>1, <2>2, <2>3, SwapHandler DEF HandlerSteps
  <1>4. ASSUME NEW r \in Requests, SetSessionWrite(r)
        PROVE  SwapInv'
    <2>1. pc[r] = "write" /\ pc[r] \in BeforePush
      BY <1>4 DEF SetSessionWrite, BeforePush
    <2>2. contextSession = lastSession /\ Asks(r)
      BY <1>o, <2>1 DEF SwapInv, BeforePush
    <2>3. /\ pc' = [pc EXCEPT ![r] = "replace"] /\ session' = input[r].sid
          /\ UNCHANGED <<input, cur, ended, lpc, runSession, contextSession, lastSession>>
      BY <1>4 DEF SetSessionWrite
    <2>4. QED
      BY <2>1, <2>2, <2>3, SwapHandler DEF HandlerSteps
  <1>5. ASSUME NEW r \in Requests, SetSessionReplace(r)
        PROVE  SwapInv'
    <2>1. pc[r] = "replace" /\ pc[r] \in BeforePush
      BY <1>5 DEF SetSessionReplace, BeforePush
    <2>2. session = input[r].sid /\ Asks(r)
      BY <2>1 DEF SwapInv
    <2>3. /\ pc' = [pc EXCEPT ![r] = "remember"] /\ contextSession' = input[r].sid
          /\ UNCHANGED <<input, cur, ended, lpc, runSession, session, lastSession>>
      BY <1>5 DEF SetSessionReplace
    <2>4. QED
      BY <2>1, <2>2, <2>3, SwapHandler DEF HandlerSteps
  <1>6. ASSUME NEW r \in Requests, RememberSession(r)
        PROVE  SwapInv'
    <2>1. pc[r] = "remember" /\ pc[r] \in BeforePush
      BY <1>6 DEF RememberSession, BeforePush
    <2>2. session = input[r].sid /\ contextSession = input[r].sid
      BY <2>1 DEF SwapInv
    <2>3. /\ pc' = [pc EXCEPT ![r] = "send"] /\ lastSession' = input[r].sid
          /\ UNCHANGED <<input, cur, ended, lpc, runSession, session, contextSession>>
      BY <1>6 DEF RememberSession
    <2>4. QED
      BY <2>1, <2>2, <2>3, SwapHandler DEF HandlerSteps
  <1>7. ASSUME NEW r \in Requests, NEW x \in {"push", "notify"}, pc[r] \in {"send", "push"},
               pc' = [pc EXCEPT ![r] = x],
               UNCHANGED <<input, cur, ended, lpc, runSession, session, contextSession, lastSession>>
        PROVE  SwapInv'
    <2>1. pc[r] \in BeforePush
      BY <1>7 DEF BeforePush
    <2>2. session = lastSession /\ contextSession = lastSession
      BY <1>7, <1>o, <2>1 DEF SwapInv, BeforePush
    <2>3. Asks(r) => lastSession = input[r].sid
      BY <1>7, <2>1, TurnFacts DEF SwapInv, Underway
    <2>4. QED
      BY <1>7, <2>1, <2>2, <2>3, SwapHandler DEF HandlerSteps
  <1>8. ASSUME NEW r \in Requests, NotifyOne(r)
        PROVE  SwapInv'
    <2>1. /\ pc[r] = "notify" /\ pc' = [pc EXCEPT ![r] = "done"]
          /\ UNCHANGED <<input, cur, ended, runSession, session, contextSession, lastSession>>
          /\ lpc' \in {lpc, "pop"}
      BY <1>8 DEF NotifyOne
    <2>2. \A s \in Requests : Asks(s)' <=> Asks(s)
      BY <2>1 DEF Asks
    <2>3. ASSUME NEW s \in Requests
          PROVE  /\ pc'[s] \in {"check", "write", "replace", "remember"} => pc'[s] = pc[s]
                 /\ pc[s] \in {"replace", "remember"} => pc'[s] = pc[s]
                 /\ pc'[s] \in {"send", "push", "notify", "done"} =>
                       pc[s] \in {"send", "push", "notify", "done"}
      BY <1>t, <2>1
    <2>4. lpc' \in {"persist", "await", "join"} => lpc' = lpc
      BY <2>1
    <2>5. QED
      BY <2>1, <2>2, <2>3, <2>4 DEF SwapInv
  <1>9. ASSUME NEW r \in Requests, TaskStep(r)
        PROVE  SwapInv'
    <2>1. /\ UNCHANGED <<pc, input, lastSession, session, contextSession, cur, lpc, runSession>>
          /\ ended \subseteq ended'
      BY <1>9 DEF TaskStep, AgentStart, AgentEnd, Listen, ListenerLags
    <2>2. QED
      BY <2>1, SwapFrame
  <1>10. ASSUME NEW id \in RunIds, Cancel(id)
         PROVE  SwapInv'
    BY <1>10, SwapFrame DEF Cancel
  <1>11. CASE Notified
    BY <1>11, SwapFrame DEF Notified
  <1>12. CASE PopFront
    BY <1>12, SwapFrame DEF PopFront
  <1>13. CASE EnterRun
    BY <1>13, SwapFrame DEF EnterRun, Return
  <1>14. CASE BeginRun
    <2>1. lpc = "connect" /\ cur # None /\ UNCHANGED <<pc, input, lastSession, session, contextSession, ended>>
      BY <1>14 DEF BeginRun, RequestInv, TypeInv, LoopInv
    <2>2. CASE Return("invalid_input")
      BY <2>1, <2>2, SwapFrame DEF Return
    <2>3. CASE runSession' = [runSession EXCEPT ![cur] = session] /\ UNCHANGED cur
      <3>1. cur \in Requests /\ pc[cur] \in {"notify", "done"} /\ \A r \in Requests : pc[r] \notin BeforePush
        BY <2>1, TurnFacts
      <3>2. session = lastSession
        BY <3>1 DEF SwapInv, BeforePush
      <3>3. runSession'[cur] = session
        BY <2>3, <3>1 DEF RequestInv, TypeInv, TypeOK
      <3>4. Asks(cur) /\ cur \notin ended => runSession'[cur] = input[cur].sid
        BY <3>1, <3>2, <3>3 DEF SwapInv
      <3>5. \A r \in Requests : Asks(r)' <=> Asks(r)
        BY <2>1 DEF Asks
      <3>6. QED
        BY <2>1, <2>3, <3>4, <3>5 DEF SwapInv
    <2>4. QED
      BY <1>14, <2>2, <2>3 DEF BeginRun
  <1>15. CASE PersistInput
    BY <1>15, SwapFrame DEF PersistInput, Return
  <1>16. CASE AgentTaskJoined
    BY <1>16, SwapFrame DEF AgentTaskJoined, Return, AbortListener
  <1>17. CASE ListenersJoined
    BY <1>17, SwapFrame DEF ListenersJoined, Return
  <1>18. CASE Timeout
    BY <1>18, SwapFrame DEF Timeout, Return, AbortListener
  <1>19. CASE UNCHANGED vars
    BY <1>19, SwapFrame DEF vars
  <1>20. ASSUME NEW r \in Requests, Submit(r) \/ PushBack(r)
         PROVE  SwapInv'
    BY <1>7, <1>20 DEF Submit, PushBack
  <1>21. QED
    BY <1>1, <1>2, <1>3, <1>4, <1>5, <1>6, <1>8, <1>9, <1>10, <1>11, <1>12, <1>13, <1>14, <1>15,
       <1>16, <1>17, <1>18, <1>19, <1>20
       DEF Next, HandlerStep, EnqueueStep, LoopStep

(* For a client that waits until agent.status answers idle, a request that  *)
(* names a session runs in it and reads its context there: set_session is   *)
(* never refused, and no other request swaps the session meanwhile.         *)
THEOREM RunsInRequestedSessionHolds ==
    ASSUME Discipline = "polling"
    PROVE  Spec => []RunsInRequestedSession
  <1> DEFINE Inv == RequestInv /\ TurnInv /\ SwapInv
  <1>1. Init => Inv
    <2> SUFFICES ASSUME Init
                 PROVE  Inv
      OBVIOUS
    <2>1. TypeInv /\ QueueIntegrity
      BY TypeInit, QueueInit
    <2>2. RunInv /\ FlagInv /\ ListenInv /\ EndedInv
      BY DEF Init, RunInv, FlagInv, RunningFlagExact, Guarded, ListenInv, EndedInv
    <2>3. TurnInv /\ SwapInv
      BY DEF Init, TurnInv, Underway, BeforePush, SwapInv
    <2>4. QED
      BY <2>1, <2>2, <2>3 DEF RequestInv
  <1>2. Inv /\ [Next]_vars => Inv'
    BY TypeStep, QueueStep, RunStep, FlagStep, ListenStep, EndedStep, TurnStep, SwapStep
       DEF RequestInv
  <1>3. Inv => RunsInRequestedSession
    <2> SUFFICES ASSUME Inv, NEW r \in Requests, run[r] \in {"spawned", "live"}, r = cur,
                        input[r].sid # None
                 PROVE  runSession[r] = input[r].sid /\ contextSession = input[r].sid
      BY DEF RunsInRequestedSession
    <2>1. cur # None /\ outcome[r] = "none"
      BY OpenOutcomes DEF RequestInv
    <2>2. lpc = "await" /\ r \notin ended
      BY <2>1 DEF RequestInv, RunInv, ListenInv
    <2>3. pc[r] \in {"notify", "done"} /\ \A s \in Requests : pc[s] \notin BeforePush
      BY <2>1, TurnFacts
    <2>4. QED
      BY <2>2, <2>3 DEF SwapInv, BeforePush, Asks
  <1> HIDE DEF Inv
  <1>4. QED
    BY <1>1, <1>2, <1>3, PTL DEF Spec
=============================================================================
