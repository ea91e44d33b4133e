-------------------------- MODULE ReconnectProofs --------------------------
(***************************************************************************)
(* Proofs about the two components that restore a lost connection by        *)
(* themselves: McpManager for any number of users, reconnect loops, retries *)
(* and operations, and WebClient for any number of requests and attempts.   *)
(***************************************************************************)
EXTENDS McpManager, WebClient, TLAPS

-----------------------------------------------------------------------------
(* -- McpManager ---------------------------------------------------------------- *)

USE McpConstants DEF McpConstants

Tokens == {"none", "current", "stale", "cancelled", "cut"}

(* The state's token has at most one holder, whoever holds it: replacing it *)
(* and moving it into the service never leave a second one.                 *)
OneCurrent ==
    \A h, k \in Holders : (token[h] = "current" /\ token[k] = "current") => h = k

(* -- types -------------------------------------------------------------------- *)

LEMMA TypeInit == Init => TypeOK
  <1> SUFFICES ASSUME Init
               PROVE  TypeOK
    OBVIOUS
  <1>1. service \in BOOLEAN
    BY Zenon DEF Init
  <1>2. \A l \in Loops : l \in Actors /\ l \notin Users
    BY DEF Actors
  <1>3. /\ pc \in [Actors -> UserPlaces \union LoopPlaces]
        /\ \A u \in Users : pc[u] \in UserPlaces
        /\ \A l \in Loops : pc[l] \in LoopPlaces
    BY <1>2 DEF Init, UserPlaces, LoopPlaces, Actors
  <1>4. token \in [Holders -> {"none", "current", "stale", "cancelled", "cut"}]
    BY DEF Init
  <1>5. status \in Statuses /\ retry \in Nat /\ inRun \subseteq Users /\ ops \in 0..MaxOps
    BY DEF Init, Statuses
  <1>6. QED
    BY <1>1, <1>3, <1>4, <1>5 DEF TypeOK

(* What connect_server does to the tokens is a function of their types.     *)
LEMMA TokenTypes ==
  ASSUME token \in [Holders -> Tokens]
  PROVE  /\ Cut \in [Holders -> Tokens]
         /\ \A a \in Holders : \A fate \in {"stale", "cancelled"} :
               Replaced(a, fate) \in [Holders -> Tokens]
  BY DEF Cut, Replaced, Tokens

LEMMA TypeStep == TypeOK /\ [Next]_vars => TypeOK'
  <1> SUFFICES ASSUME TypeOK, [Next]_vars
               PROVE  TypeOK'
    OBVIOUS
  <1> USE DEF Statuses, UserPlaces, LoopPlaces
  <1>0. token \in [Holders -> Tokens]
    BY DEF TypeOK, Tokens
  <1>1. ASSUME NEW u \in Users, UserStep(u)
        PROVE  TypeOK'
    <2> u \in Actors /\ u \in Holders /\ u \notin Loops
      BY DEF Actors, Holders
    <2>1. CASE ResetRetries(u)
      BY <2>1 DEF TypeOK, ResetRetries, Goto
    <2>2. CASE BeginConnect(u)
      BY <2>2, <1>0, TokenTypes DEF TypeOK, BeginConnect, Goto, Tokens
    <2>3. CASE Handshake(u)
      BY <2>3 DEF TypeOK, Handshake, Goto
    <2>4. CASE Connected(u)
      BY <2>4, <1>0 DEF TypeOK, Connected, Install, Goto, Tokens
    <2>5. CASE ConnectFails(u)
      <3> PICK l \in Loops : Spawn(u, l)
        BY <2>5 DEF ConnectFails
      <3> l \in Actors /\ l \notin Users
        BY DEF Actors
      <3>1. /\ pc' \in [Actors -> UserPlaces \union LoopPlaces]
            /\ \A v \in Users : pc'[v] \in UserPlaces
            /\ \A m \in Loops : pc'[m] \in LoopPlaces
        BY DEF TypeOK, Spawn, Actors
      <3>2. token' \in [Holders -> Tokens]
        BY <2>5, <1>0 DEF ConnectFails, Tokens
      <3>3. status' \in Statuses /\ retry' \in Nat
        BY <2>5 DEF ConnectFails, TypeOK
      <3>4. service' \in BOOLEAN /\ inRun' \subseteq Users /\ ops' \in 0..MaxOps
        BY <2>5 DEF ConnectFails, TypeOK
      <3>5. QED
        BY <3>1, <3>2, <3>3, <3>4 DEF TypeOK, Tokens
    <2>6. CASE BinaryMissing(u)
      BY <2>6, <1>0 DEF TypeOK, BinaryMissing, Goto, Tokens
    <2>7. CASE Answered(u)
      BY <2>7 DEF TypeOK, Answered, Goto
    <2>8. CASE RunStarts(u)
      BY <2>8 DEF TypeOK, RunStarts, Begin, Goto
    <2>9. CASE CallTool(u)
      BY <2>9 DEF TypeOK, CallTool, Begin, Goto
    <2>10. CASE ReadResource(u)
      BY <2>10 DEF TypeOK, ReadResource, Begin, Goto
    <2>11. CASE RunEnds(u)
      BY <2>11, <1>0, TokenTypes DEF TypeOK, RunEnds, Tokens
    <2>12. CASE Reconnect(u)
      <3>1. service' \in BOOLEAN
        BY <2>12, Zenon DEF Reconnect
      <3>2. token' \in [Holders -> Tokens]
        BY <2>12, <1>0, TokenTypes DEF Reconnect, Tokens
      <3>3. ops' \in 0..MaxOps /\ retry' \in Nat
        BY <2>12 DEF Reconnect, Begin, TypeOK
      <3>4. QED
        BY <2>12, <3>1, <3>2, <3>3 DEF TypeOK, Reconnect, Begin, Goto, Tokens
    <2>13. QED
      BY <1>1, <2>1, <2>2, <2>3, <2>4, <2>5, <2>6, <2>7, <2>8, <2>9, <2>10, <2>11, <2>12
      DEF UserStep, Proceeds
  <1>2. ASSUME NEW l \in Loops, LoopStep(l)
        PROVE  TypeOK'
    <2> l \in Actors /\ l \in Holders /\ l \notin Users
      BY DEF Actors, Holders
    <2>1. CASE LoopTop(l)
      <3>1. token' \in [Holders -> Tokens]
        BY <2>1, <1>0, TokenTypes DEF LoopTop
      <3>2. status' \in Statuses
        BY <2>1 DEF LoopTop, TypeOK
      <3>3. /\ pc' \in [Actors -> UserPlaces \union LoopPlaces]
            /\ \A v \in Users : pc'[v] \in UserPlaces
            /\ \A m \in Loops : pc'[m] \in LoopPlaces
        BY <2>1 DEF LoopTop, Goto, TypeOK, Actors
      <3>4. QED
        BY <2>1, <3>1, <3>2, <3>3 DEF TypeOK, LoopTop, Tokens
    <2>2. CASE LoopWakes(l)
      BY <2>2 DEF TypeOK, LoopWakes, Goto
    <2>3. CASE LoopCancelled(l)
      BY <2>3, <1>0 DEF TypeOK, LoopCancelled, Goto, Tokens
    <2>4. CASE Handshake(l)
      BY <2>4 DEF TypeOK, Handshake, Goto
    <2>5. CASE LoopConnected(l)
      BY <2>5, <1>0 DEF TypeOK, LoopConnected, Install, Goto, Tokens
    <2>6. CASE LoopFails(l)
      <3>1. token' \in [Holders -> Tokens]
        BY <2>6, <1>0 DEF LoopFails, Tokens
      <3>2. status' \in Statuses /\ retry' \in Nat
        BY <2>6 DEF LoopFails, TypeOK
      <3>3. /\ pc' \in [Actors -> UserPlaces \union LoopPlaces]
            /\ \A v \in Users : pc'[v] \in UserPlaces
            /\ \A m \in Loops : pc'[m] \in LoopPlaces
        BY <2>6 DEF LoopFails, Goto, TypeOK, Actors
      <3>4. QED
        BY <2>6, <3>1, <3>2, <3>3 DEF TypeOK, LoopFails, Tokens
    <2>7. QED
      BY <1>2, <2>1, <2>2, <2>3, <2>4, <2>5, <2>6 DEF LoopStep
  <1>3. CASE UNCHANGED vars
    BY <1>3 DEF TypeOK, vars
  <1>4. QED
    BY <1>1, <1>2, <1>3 DEF Next

(* -- tokens ------------------------------------------------------------------- *)

(* A step that gives nobody the token keeps it with at most one holder.     *)
LEMMA NobodyNew ==
  ASSUME OneCurrent,
         \A h \in Holders : token'[h] = "current" => token[h] = "current"
  PROVE  OneCurrent'
  BY DEF OneCurrent, Holders, Actors

(* connect_server and LoopTop put a new token into the state: whoever held  *)
(* the old one no longer holds the current one.                             *)
LEMMA OnlyHolder ==
  ASSUME NEW a \in Holders, NEW fate \in {"stale", "cancelled"},
         token' = Replaced(a, fate)
  PROVE  OneCurrent'
  BY DEF OneCurrent, Replaced, Holders, Actors

(* The service takes over the token it was started with.                    *)
LEMMA InstallMoves ==
  ASSUME TypeOK, OneCurrent, NEW a \in Actors, NEW next, Install(a, next)
  PROVE  OneCurrent'
  <1>1. a \in Holders /\ a # "service"
    BY DEF Holders, Actors
  <1>2. \A h \in Holders : token'[h] = IF h = a THEN "none"
                             ELSE IF h = "service" THEN IF IsCancelled(a) THEN "cut" ELSE token[a]
                             ELSE token[h]
    BY <1>1 DEF TypeOK, Install
  <1>3. QED
    BY <1>1, <1>2 DEF OneCurrent, Holders, Actors

LEMMA CurrentStep == TypeOK /\ OneCurrent /\ [Next]_vars => OneCurrent'
  <1> SUFFICES ASSUME TypeOK, OneCurrent, [Next]_vars
               PROVE  OneCurrent'
    OBVIOUS
  <1>1. ASSUME NEW u \in Users, UserStep(u)
        PROVE  OneCurrent'
    <2> u \in Actors /\ u \in Holders
      BY DEF Actors, Holders
    <2>1. CASE BeginConnect(u)
      BY <2>1, OnlyHolder DEF BeginConnect
    <2>2. CASE Connected(u)
      BY <2>2, InstallMoves DEF Connected
    <2>3. CASE ConnectFails(u) \/ BinaryMissing(u)
      BY <2>3, NobodyNew DEF ConnectFails, BinaryMissing, TypeOK
    <2>4. CASE RunEnds(u) \/ Reconnect(u)
      BY <2>4, NobodyNew DEF RunEnds, Reconnect, Cut, TypeOK
    <2>5. CASE \/ ResetRetries(u) \/ Handshake(u) \/ Answered(u)
               \/ RunStarts(u) \/ CallTool(u) \/ ReadResource(u)
      BY <2>5 DEF ResetRetries, Handshake, Answered, RunStarts, CallTool, ReadResource, OneCurrent
    <2>6. QED
      BY <1>1, <2>1, <2>2, <2>3, <2>4, <2>5 DEF UserStep, Proceeds
  <1>2. ASSUME NEW l \in Loops, LoopStep(l)
        PROVE  OneCurrent'
    <2> l \in Actors /\ l \in Holders
      BY DEF Actors, Holders
    <2>1. CASE LoopTop(l)
      BY <2>1, OnlyHolder DEF LoopTop, OneCurrent
    <2>2. CASE LoopConnected(l)
      BY <2>2, InstallMoves DEF LoopConnected
    <2>3. CASE LoopCancelled(l) \/ LoopFails(l)
      BY <2>3, NobodyNew DEF LoopCancelled, LoopFails, TypeOK
    <2>4. CASE LoopWakes(l) \/ Handshake(l)
      BY <2>4 DEF LoopWakes, Handshake, OneCurrent
    <2>5. QED
      BY <1>2, <2>1, <2>2, <2>3, <2>4 DEF LoopStep
  <1>3. CASE UNCHANGED vars
    BY <1>3 DEF OneCurrent, vars
  <1>4. QED
    BY <1>1, <1>2, <1>3 DEF Next

(* -- the service -------------------------------------------------------------- *)

(* Only a client's reconnect takes the service away and leaves the status,  *)
(* and it goes on to connect_server.                                        *)
LEMMA ServiceStep == TypeOK /\ ConnectedHasService /\ [Next]_vars => ConnectedHasService'
  <1> SUFFICES ASSUME TypeOK, ConnectedHasService, [Next]_vars, status' = "connected"
               PROVE  service' \/ \E v \in Users : pc'[v] = "connect"
    BY DEF ConnectedHasService
  <1>1. ASSUME NEW u \in Users, UserStep(u)
        PROVE  service' \/ \E v \in Users : pc'[v] = "connect"
    <2> u \in Actors
      BY DEF Actors
    <2>1. CASE ResetRetries(u) \/ Reconnect(u)
      BY <2>1 DEF ResetRetries, Reconnect, Goto, TypeOK
    <2>2. CASE BeginConnect(u) \/ ConnectFails(u) \/ BinaryMissing(u) \/ RunEnds(u)
      BY <2>2 DEF BeginConnect, ConnectFails, BinaryMissing, RunEnds
    <2>3. CASE Connected(u)
      BY <2>3 DEF Connected, Install
    <2>4. CASE Handshake(u) \/ Answered(u) \/ RunStarts(u) \/ CallTool(u) \/ ReadResource(u)
      <3>1. status = "connected" /\ service' = service
        BY <2>4 DEF Handshake, Answered, RunStarts, CallTool, ReadResource
      <3>2. \A v \in Users : pc[v] = "connect" => pc'[v] = "connect"
        BY <2>4 DEF Handshake, Answered, RunStarts, CallTool, ReadResource, Begin, Goto, TypeOK, Actors
      <3>3. QED
        BY <3>1, <3>2 DEF ConnectedHasService
    <2>5. QED
      BY <1>1, <2>1, <2>2, <2>3, <2>4 DEF UserStep, Proceeds
  <1>2. ASSUME NEW l \in Loops, LoopStep(l)
        PROVE  service' \/ \E v \in Users : pc'[v] = "connect"
    <2> l \in Actors /\ l \notin Users
      BY DEF Actors
    <2>1. CASE LoopConnected(l)
      BY <2>1 DEF LoopConnected, Install
    <2>2. CASE LoopFails(l)
      BY <2>2 DEF LoopFails
    <2>3. CASE LoopTop(l) \/ LoopWakes(l) \/ LoopCancelled(l) \/ Handshake(l)
      <3>1. status = "connected" /\ service' = service
        BY <2>3 DEF LoopTop, LoopWakes, LoopCancelled, Handshake
      <3>2. \A v \in Users : pc'[v] = pc[v]
        BY <2>3 DEF LoopTop, LoopWakes, LoopCancelled, Handshake, Goto, TypeOK, Actors
      <3>3. QED
        BY <3>1, <3>2 DEF ConnectedHasService
    <2>4. QED
      BY <1>2, <2>1, <2>2, <2>3 DEF LoopStep
  <1>3. CASE UNCHANGED vars
    BY <1>3 DEF ConnectedHasService, vars
  <1>4. QED
    BY <1>1, <1>2, <1>3 DEF Next

(* -- repair ------------------------------------------------------------------- *)

(* The service's token is cancelled by a loop that goes on to reconnect, and *)
(* that loop is in turn only cancelled by another one that does.             *)
LEMMA RepairStep == TypeOK /\ DeadIsRepaired /\ [Next]_vars => DeadIsRepaired'
  <1> SUFFICES ASSUME TypeOK, DeadIsRepaired, [Next]_vars,
                      status' = "connected", token'["service"] = "cancelled"
               PROVE  \E m \in Loops : LiveLoop(m)'
    BY DEF DeadIsRepaired
  <1> "service" \in Holders /\ "service" \notin Actors
    BY DEF Holders, Actors
  <1>1. ASSUME NEW u \in Users, UserStep(u)
        PROVE  \E m \in Loops : LiveLoop(m)'
    <2> u \in Actors /\ u \in Holders /\ u \notin Loops /\ u # "service"
      BY DEF Actors, Holders
    <2>1. CASE BeginConnect(u) \/ ConnectFails(u) \/ BinaryMissing(u) \/ RunEnds(u)
      BY <2>1 DEF BeginConnect, ConnectFails, BinaryMissing, RunEnds
    <2>2. CASE Connected(u)
      <3>1. token'["service"] = IF IsCancelled(u) THEN "cut" ELSE token[u]
        BY <2>2 DEF Connected, Install, TypeOK
      <3>2. QED
        BY <3>1 DEF IsCancelled
    <2>3. CASE Reconnect(u)
      <3>1. status = "connected"
        BY <2>3 DEF Reconnect
      <3>2. token'["service"] = "none"
        BY <2>3, <3>1 DEF Reconnect, Cut
      <3>3. QED
        BY <3>2
    <2>4. CASE \/ ResetRetries(u) \/ Handshake(u) \/ Answered(u)
               \/ RunStarts(u) \/ CallTool(u) \/ ReadResource(u)
      <3>1. status = "connected" /\ token' = token
        BY <2>4 DEF ResetRetries, Handshake, Answered, RunStarts, CallTool, ReadResource
      <3>2. \A m \in Loops : pc'[m] = pc[m]
        BY <2>4 DEF ResetRetries, Handshake, Answered, RunStarts, CallTool, ReadResource,
                    Begin, Goto, TypeOK, Actors
      <3>3. PICK m \in Loops : LiveLoop(m)
        BY <3>1 DEF DeadIsRepaired
      <3>4. LiveLoop(m)'
        BY <3>1, <3>2, <3>3 DEF LiveLoop, IsCancelled
      <3>5. QED
        BY <3>4
    <2>5. QED
      BY <1>1, <2>1, <2>2, <2>3, <2>4 DEF UserStep, Proceeds
  <1>2. ASSUME NEW l \in Loops, LoopStep(l)
        PROVE  \E m \in Loops : LiveLoop(m)'
    <2> l \in Actors /\ l \in Holders /\ l \notin Users /\ l # "service"
      BY DEF Actors, Holders
    <2>1. CASE LoopTop(l)
      <3>1. ~GivesUp
        BY <2>1 DEF LoopTop
      <3>2. token'[l] = "current" /\ pc'[l] = "sleep"
        BY <2>1, <3>1 DEF LoopTop, Replaced, Goto, TypeOK
      <3>3. LiveLoop(l)'
        BY <3>2 DEF LiveLoop, IsCancelled
      <3>4. QED
        BY <3>3
    <2>2. CASE LoopWakes(l)
      <3>1. pc'[l] = "init"
        BY <2>2 DEF LoopWakes, Goto, TypeOK
      <3>2. LiveLoop(l)'
        BY <3>1 DEF LiveLoop
      <3>3. QED
        BY <3>2
    <2>3. CASE Handshake(l)
      <3>1. pc'[l] = "list"
        BY <2>3 DEF Handshake, Goto, TypeOK
      <3>2. LiveLoop(l)'
        BY <3>1 DEF LiveLoop
      <3>3. QED
        BY <3>2
    <2>4. CASE LoopConnected(l)
      <3>1. token'["service"] = IF IsCancelled(l) THEN "cut" ELSE token[l]
        BY <2>4 DEF LoopConnected, Install, TypeOK
      <3>2. QED
        BY <3>1 DEF IsCancelled
    <2>5. CASE LoopFails(l)
      BY <2>5 DEF LoopFails
    <2>6. CASE LoopCancelled(l)
      <3>1. status = "connected" /\ token["service"] = "cancelled"
        BY <2>6 DEF LoopCancelled, TypeOK
      <3>2. PICK m \in Loops : LiveLoop(m)
        BY <3>1 DEF DeadIsRepaired
      <3>3. m # l
        BY <2>6, <3>2 DEF LoopCancelled, LiveLoop
      <3>4. pc'[m] = pc[m] /\ token'[m] = token[m]
        BY <2>6, <3>3 DEF LoopCancelled, Goto, TypeOK, Actors, Holders
      <3>5. LiveLoop(m)'
        BY <3>2, <3>4 DEF LiveLoop, IsCancelled
      <3>6. QED
        BY <3>5
    <2>7. QED
      BY <1>2, <2>1, <2>2, <2>3, <2>4, <2>5, <2>6 DEF LoopStep
  <1>3. CASE UNCHANGED vars
    <2>1. PICK m \in Loops : LiveLoop(m)
      BY <1>3 DEF DeadIsRepaired, vars
    <2>2. LiveLoop(m)'
      BY <1>3, <2>1 DEF LiveLoop, IsCancelled, vars
    <2>3. QED
      BY <2>2
  <1>4. QED
    BY <1>1, <1>2, <1>3 DEF Next

(* -- theorems ----------------------------------------------------------------- *)

(* LoopsOK: types, and at most one loop that can still be cancelled         *)
(* (McpManager::connect_server, spawn_reconnect).                           *)
THEOREM LoopsOKHolds == Spec => []LoopsOK
  <1>1. Init => OneCurrent
    BY DEF Init, OneCurrent
  <1>2. TypeOK /\ OneCurrent => LoopsOK
    BY DEF LoopsOK, OneCancellableLoop, OneCurrent, Holders, Actors
  <1>3. QED
    BY <1>1, <1>2, TypeInit, TypeStep, CurrentStep, PTL DEF Spec

(* ConnectedHasService: a server listed as connected has a service or a     *)
(* reconnect in progress (disconnect, reconnect, spawn_reconnect).          *)
THEOREM ConnectedHasServiceHolds == Spec => []ConnectedHasService
  <1>1. Init => ConnectedHasService
    BY DEF Init, ConnectedHasService
  <1>2. QED
    BY <1>1, TypeInit, TypeStep, ServiceStep, PTL DEF Spec

(* DeadIsRepaired: a service that a reconnect loop killed is being          *)
(* reconnected (spawn_reconnect cancels the token it finds).                *)
THEOREM DeadIsRepairedHolds == Spec => []DeadIsRepaired
  <1>1. Init => DeadIsRepaired
    BY DEF Init, DeadIsRepaired
  <1>2. QED
    BY <1>1, TypeInit, TypeStep, RepairStep, PTL DEF Spec

-----------------------------------------------------------------------------
(* -- WebClient ----------------------------------------------------------------- *)

USE WebConstants DEF WebConstants

(* What WebTypeOK needs to be inductive: the loop reconnects with an attempt   *)
(* of 1..MaxAttempts only.                                                  *)
WebTypeInv ==
    /\ WebTypeOK
    /\ loop \in {"delay", "watch"} => attempt \in 1..MaxAttempts

(* A request is in one place until a server has executed it: not sent yet,  *)
(* in the send queue, or on its way over one socket.                        *)
Once(r) ==
    /\ served[r] \in 0..1
    /\ (req[r] = "new" \/ r \in queue) => served[r] = 0 /\ \A s \in Sockets : <<r, s>> \notin out
    /\ req[r] = "new" => r \notin queue
    /\ \A s \in Sockets : <<r, s>> \in out => served[r] = 0
    /\ \A s, t \in Sockets : (<<r, s>> \in out /\ <<r, t>> \in out) => s = t

OnceInv == \A r \in Requests : Once(r)

Agreement == ConnectedHasSocket /\ StateAgrees

(* -- types -------------------------------------------------------------------- *)

LEMMA WebTypeInit == WebInit => WebTypeInv
  <1> SUFFICES ASSUME WebInit
               PROVE  WebTypeInv
    OBVIOUS
  <1>1. connected \in BOOLEAN /\ reconnecting \in BOOLEAN /\ maxed \in BOOLEAN
    BY Zenon DEF WebInit
  <1>2. 0 \in Sockets
    BY DEF Sockets
  <1>3. ready \in [Sockets -> {"none", "connecting", "open", "closing", "closed"}]
        /\ ws \in Sockets /\ ready[ws] # "none"
    BY <1>2 DEF WebInit
  <1>4. QED
    BY <1>1, <1>3 DEF WebInit, WebTypeInv, WebTypeOK

LEMMA WebTypeStep == WebTypeInv /\ [WebNext]_webVars => WebTypeInv'
  <1> SUFFICES ASSUME WebTypeInv, [WebNext]_webVars
               PROVE  WebTypeInv'
    OBVIOUS
  <1> USE DEF WebTypeInv, WebTypeOK
  <1>1. ASSUME NEW r \in Requests, Send(r)
        PROVE  WebTypeInv'
    BY <1>1 DEF Send, globalVars, loopVars
  <1>2. ASSUME NEW r \in Requests, NEW s \in Sockets, Serve(r, s)
        PROVE  WebTypeInv'
    BY <1>2 DEF Serve, globalVars, loopVars
  <1>3. ASSUME NEW r \in Requests, NEW s \in Sockets, Answer(r, s)
        PROVE  WebTypeInv'
    BY <1>3 DEF Answer, globalVars, loopVars
  <1>4. ASSUME NEW s \in Sockets, Opens(s)
        PROVE  WebTypeInv'
    <2>1. connected' \in BOOLEAN /\ reconnecting' \in BOOLEAN /\ maxed' \in BOOLEAN
      BY <1>4, Zenon DEF Opens
    <2>2. out' \subseteq Requests \X Sockets
      BY <1>4 DEF Opens, Flushed
    <2>3. QED
      BY <1>4, <2>1, <2>2 DEF Opens, KeptQueue, loopVars
  <1>5. ASSUME NEW s \in Sockets, StartsClosing(s)
        PROVE  WebTypeInv'
    BY <1>5 DEF StartsClosing, globalVars, loopVars
  <1>6. ASSUME NEW s \in Sockets, Closes(s)
        PROVE  WebTypeInv'
    <2>1. connected' \in BOOLEAN /\ reconnecting' \in BOOLEAN /\ maxed' \in BOOLEAN
      <3>1. connected' \in BOOLEAN /\ maxed' \in BOOLEAN
        BY <1>6, Zenon DEF Closes
      <3>2. reconnecting' \in BOOLEAN
        BY <1>6, Zenon DEF Closes
      <3>3. QED
        BY <3>1, <3>2
    <2>2. req' \in [Requests -> {"new", "pending", "ok", "failed"}]
      BY <1>6 DEF Closes, AllFailed
    <2>3. attempts' \in 0..MaxAttempts
      BY <1>6 DEF Closes
    <2>4. QED
      BY <1>6, <2>1, <2>2, <2>3 DEF Closes, loopVars
  <1>7. CASE LoopBegins
    BY <1>7 DEF LoopBegins, BeginAttempt, socketVars
  <1>8. CASE LoopEnds
    BY <1>8 DEF LoopEnds, socketVars, globalVars
  <1>9. CASE ReconnectSocket
    BY <1>9 DEF ReconnectSocket, DelayOver, globalVars, Sockets
  <1>10. CASE TriesAgain
    BY <1>10 DEF TriesAgain, BeginAttempt, socketVars
  <1>11. CASE GivesUpReconnecting
    <2>1. connected' \in BOOLEAN /\ reconnecting' \in BOOLEAN /\ maxed' \in BOOLEAN
      BY <1>11, Zenon DEF GivesUpReconnecting
    <2>2. QED
      BY <1>11, <2>1 DEF GivesUpReconnecting, socketVars
  <1>12. CASE UNCHANGED webVars
    BY <1>12 DEF webVars
  <1>13. QED
    BY <1>1, <1>2, <1>3, <1>4, <1>5, <1>6, <1>7, <1>8, <1>9, <1>10, <1>11, <1>12
    DEF WebNext, ReconnectStep

(* -- client and application --------------------------------------------------- *)

LEMMA AgreementStep == WebTypeInv /\ Agreement /\ [WebNext]_webVars => Agreement'
  <1> SUFFICES ASSUME WebTypeInv, Agreement, [WebNext]_webVars
               PROVE  Agreement'
    OBVIOUS
  <1> USE DEF Agreement, ConnectedHasSocket, StateAgrees
  <1>1. ASSUME NEW r \in Requests, NEW s \in Sockets, Send(r) \/ Serve(r, s) \/ Answer(r, s)
        PROVE  Agreement'
    BY <1>1 DEF Send, Serve, Answer, globalVars
  <1>2. ASSUME NEW s \in Sockets, Opens(s)
        PROVE  Agreement'
    <2>1. ready'[s] = "open"
      BY <1>2 DEF Opens, WebTypeInv, WebTypeOK
    <2>2. QED
      BY <1>2, <2>1 DEF Opens
  <1>3. ASSUME NEW s \in Sockets, StartsClosing(s)
        PROVE  Agreement'
    <2>1. ready'[s] = "closing"
      BY <1>3 DEF StartsClosing, WebTypeInv, WebTypeOK
    <2>2. QED
      BY <1>3, <2>1 DEF StartsClosing, globalVars
  <1>4. ASSUME NEW s \in Sockets, Closes(s)
        PROVE  Agreement'
    BY <1>4 DEF Closes
  <1>5. CASE ReconnectSocket
    BY <1>5 DEF ReconnectSocket, DelayOver, globalVars
  <1>6. CASE LoopBegins \/ LoopEnds \/ TriesAgain \/ GivesUpReconnecting
    BY <1>6 DEF LoopBegins, LoopEnds, TriesAgain, GivesUpReconnecting, socketVars, globalVars
  <1>7. CASE UNCHANGED webVars
    BY <1>7 DEF webVars
  <1>8. QED
    BY <1>1, <1>2, <1>3, <1>4, <1>5, <1>6, <1>7 DEF WebNext, ReconnectStep, Sockets

(* -- requests ----------------------------------------------------------------- *)

(* A step that leaves the queue and the servers alone, puts nothing on its  *)
(* way and makes no request new.                                            *)
LEMMA NothingSent ==
  ASSUME NEW r \in Requests, Once(r), queue' = queue, served' = served,
         out' \subseteq out, req'[r] = "new" => req[r] = "new"
  PROVE  Once(r)'
  BY DEF Once

LEMMA OnceStep == WebTypeInv /\ OnceInv /\ [WebNext]_webVars => OnceInv'
  <1> SUFFICES ASSUME WebTypeInv, OnceInv, [WebNext]_webVars, NEW r \in Requests
               PROVE  Once(r)'
    BY DEF OnceInv
  <1>0. Once(r)
    BY DEF OnceInv
  <1>1. ASSUME NEW q \in Requests, Send(q)
        PROVE  Once(r)'
    <2>1. ws \in Sockets /\ req \in [Requests -> {"new", "pending", "ok", "failed"}]
      BY DEF WebTypeInv, WebTypeOK
    <2>2. CASE q = r
      <3>1. served[r] = 0 /\ (\A s \in Sockets : <<r, s>> \notin out) /\ r \notin queue
        BY <1>0, <1>1, <2>2 DEF Once, Send
      <3>2. req'[r] # "new"
        BY <1>1, <2>1, <2>2 DEF Send
      <3>3. CASE ready[ws] = "open"
        <4>1. out' = out \union {<<r, ws>>} /\ queue' = queue /\ served' = served
          BY <1>1, <2>2, <3>3 DEF Send
        <4>2. QED
          BY <3>1, <3>2, <4>1 DEF Once
      <3>4. CASE ready[ws] # "open"
        <4>1. out' = out /\ served' = served
          BY <1>1, <3>4 DEF Send
        <4>2. QED
          BY <3>1, <3>2, <4>1 DEF Once
      <3>5. QED
        BY <3>3, <3>4
    <2>3. CASE q # r
      <3>1. \A s \in Sockets : <<r, s>> \in out' <=> <<r, s>> \in out
        BY <1>1, <2>3 DEF Send
      <3>2. (r \in queue' <=> r \in queue) /\ req'[r] = req[r] /\ served' = served
        BY <1>1, <2>1, <2>3 DEF Send
      <3>3. QED
        BY <1>0, <3>1, <3>2 DEF Once
    <2>4. QED
      BY <2>2, <2>3
  <1>2. ASSUME NEW q \in Requests, NEW s \in Sockets, Serve(q, s)
        PROVE  Once(r)'
    <2>1. served \in [Requests -> Nat]
      BY DEF WebTypeInv, WebTypeOK
    <2>2. CASE q = r
      <3>1. served[r] = 0 /\ req[r] # "new" /\ r \notin queue
        BY <1>0, <1>2, <2>2 DEF Once, Serve
      <3>2. \A t \in Sockets : <<r, t>> \notin out'
        BY <1>0, <1>2, <2>2 DEF Once, Serve
      <3>3. served'[r] = 1 /\ req' = req /\ queue' = queue
        BY <1>2, <2>1, <2>2, <3>1 DEF Serve
      <3>4. QED
        BY <3>1, <3>2, <3>3 DEF Once
    <2>3. CASE q # r
      <3>1. served'[r] = served[r] /\ req' = req /\ queue' = queue /\ out' \subseteq out
        BY <1>2, <2>1, <2>3 DEF Serve
      <3>2. QED
        BY <1>0, <3>1 DEF Once
    <2>4. QED
      BY <2>2, <2>3
  <1>3. ASSUME NEW q \in Requests, NEW s \in Sockets, Answer(q, s)
        PROVE  Once(r)'
    BY <1>0, <1>3, NothingSent DEF Answer, WebTypeInv, WebTypeOK
  <1>4. ASSUME NEW s \in Sockets, Opens(s)
        PROVE  Once(r)'
    <2>1. queue' = {} /\ served' = served /\ req' = req /\ out' = Flushed(s)
      BY <1>4 DEF Opens, KeptQueue
    <2>2. CASE r \in queue /\ s = ws
      <3>1. served[r] = 0 /\ req[r] # "new" /\ \A t \in Sockets : <<r, t>> \notin out
        BY <1>0, <2>2 DEF Once
      <3>2. \A t \in Sockets : <<r, t>> \in out' => t = s
        BY <2>1, <2>2, <3>1 DEF Flushed
      <3>3. QED
        BY <2>1, <3>1, <3>2 DEF Once
    <2>3. CASE ~(r \in queue /\ s = ws)
      <3>1. \A t \in Sockets : <<r, t>> \in out' => <<r, t>> \in out
        BY <2>1, <2>3 DEF Flushed
      <3>2. QED
        BY <1>0, <2>1, <3>1 DEF Once
    <2>4. QED
      BY <2>2, <2>3
  <1>5. ASSUME NEW s \in Sockets, StartsClosing(s)
        PROVE  Once(r)'
    BY <1>0, <1>5, NothingSent DEF StartsClosing
  <1>6. ASSUME NEW s \in Sockets, Closes(s)
        PROVE  Once(r)'
    <2>1. req'[r] = "new" => req[r] = "new"
      BY <1>6 DEF Closes, AllFailed
    <2>2. QED
      BY <1>0, <1>6, <2>1, NothingSent DEF Closes
  <1>7. CASE ReconnectStep
    BY <1>0, <1>7, NothingSent DEF ReconnectStep, LoopBegins, LoopEnds, ReconnectSocket, TriesAgain, GivesUpReconnecting, socketVars
  <1>8. CASE UNCHANGED webVars
    BY <1>0, <1>8, NothingSent DEF webVars
  <1>9. QED
    BY <1>1, <1>2, <1>3, <1>4, <1>5, <1>6, <1>7, <1>8 DEF WebNext

(* -- theorems ----------------------------------------------------------------- *)

(* ClientOK: types, and client, application and sockets agree about the     *)
(* connection (on_open, on_close, reconnect, the state callback of App).    *)
THEOREM ClientOKHolds == WebSpec => []ClientOK
  <1>1. WebInit => Agreement
    BY DEF WebInit, Agreement, ConnectedHasSocket, StateAgrees
  <1>2. WebTypeInv /\ Agreement => ClientOK
    BY DEF WebTypeInv, Agreement, ClientOK
  <1>3. QED
    BY <1>1, <1>2, WebTypeInit, WebTypeStep, AgreementStep, PTL DEF WebSpec

(* ServedOnce: no request is executed twice, however often the connection   *)
(* is lost while it waits in the send queue (send_raw, on_open).            *)
THEOREM ServedOnceHolds == WebSpec => []ServedOnce
  <1>1. WebInit => OnceInv
    BY DEF WebInit, OnceInv, Once
  <1>2. OnceInv => ServedOnce
    BY DEF OnceInv, Once, ServedOnce
  <1>3. QED
    BY <1>1, <1>2, WebTypeInit, WebTypeStep, OnceStep, PTL DEF WebSpec
=============================================================================
