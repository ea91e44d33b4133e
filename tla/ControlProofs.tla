---------------------------- MODULE ControlProofs ----------------------------
(***************************************************************************)
(* Proofs about ControlPlane for any number of nodes and connections, whose *)
(* tasks run in any order: the types and the connection table, and the      *)
(* routes of every node that no earlier connection of it has crossed.       *)
(***************************************************************************)
EXTENDS ControlPlane, SequenceTheorems, TLAPS

USE ControlAssumption DEF ControlAssumption

(* A connection has a serving task exactly when its node has opened it.     *)
Opened ==
    \A n \in Nodes, k \in 1..MaxConns : spc[<<n, k>>] # "unused" <=> k <= used[n]

(* What the table needs: the types it rests on, Opened and TableLive.       *)
TableInv ==
    /\ used \in [Nodes -> 0..MaxConns]
    /\ spc \in [Conns -> ServeSteps]
    /\ nodeConn \in [Nodes -> Conns \cup {None}]
    /\ Opened
    /\ TableLive

(* No node has connected yet: the table is empty.                           *)
LEMMA TableInit == Init => TableInv
  <1> SUFFICES ASSUME Init
               PROVE  TableInv
    OBVIOUS
  <1>1. used \in [Nodes -> 0..MaxConns] /\ spc \in [Conns -> ServeSteps]
    BY DEF Init, ServeSteps
  <1>2. nodeConn \in [Nodes -> Conns \cup {None}]
    BY DEF Init
  <1>3. Opened
    BY DEF Init, Opened, Conns
  <1>4. TableLive
    BY DEF Init, TableLive
  <1>5. QED
    BY <1>1, <1>2, <1>3, <1>4 DEF TableInv

(* A step of a serving task that does not end it, and leaves the table.     *)
LEMMA TableServing ==
  ASSUME TableInv, NEW c \in Conns, NEW where \in ServeSteps \ {"unused", "ended"},
         spc[c] # "unused", spc' = [spc EXCEPT ![c] = where],
         UNCHANGED <<used, nodeConn>>
  PROVE  TableInv'
  <1>1. spc' \in [Conns -> ServeSteps]
    BY DEF TableInv
  <1>2. Opened'
    BY DEF TableInv, Opened, Conns
  <1>3. TableLive'
    <2> SUFFICES ASSUME NEW n \in Nodes, nodeConn[n] # None
                 PROVE  /\ nodeConn[n] \in {<<n, k>> : k \in 1..used[n]}
                        /\ spc'[nodeConn[n]] \notin {"unused", "ended"}
      BY DEF TableLive
    <2>1. nodeConn[n] \in Conns
      BY DEF TableInv
    <2>2. nodeConn[n] \in {<<n, k>> : k \in 1..used[n]}
      BY DEF TableInv, TableLive
    <2>3. spc[nodeConn[n]] \notin {"unused", "ended"}
      BY DEF TableInv, TableLive
    <2>4. QED
      BY <2>1, <2>2, <2>3 DEF TableInv
  <1>4. QED
    BY <1>1, <1>2, <1>3 DEF TableInv

(* Every step keeps the table alive.                                        *)
LEMMA TableStep == TableInv /\ [Next]_vars => TableInv'
  <1> SUFFICES ASSUME TableInv, [Next]_vars
               PROVE  TableInv'
    OBVIOUS
  <1>f. ASSUME UNCHANGED <<used, spc, nodeConn>>
        PROVE  TableInv'
    BY <1>f DEF TableInv, TableLive, Opened
  <1>1. CASE UNCHANGED vars
    BY <1>1, <1>f DEF vars, nodeVars, serveVars, planeVars
  <1>2. ASSUME NEW n \in Nodes, Connect(n)
        PROVE  TableInv'
    <2> DEFINE c == <<n, used[n] + 1>>
    <2>1. c \in Conns /\ used[n] \in 0..MaxConns
      BY <1>2 DEF Connect, Conns, TableInv
    <2>2. /\ used' = [used EXCEPT ![n] = used[n] + 1]
          /\ spc' = [spc EXCEPT ![c] = "reading"]
          /\ nodeConn' = nodeConn
      BY <1>2 DEF Connect, planeVars
    <2>3. used' \in [Nodes -> 0..MaxConns] /\ spc' \in [Conns -> ServeSteps]
      BY <1>2, <2>1, <2>2 DEF Connect, TableInv, ServeSteps
    <2>4. Opened'
      <3> SUFFICES ASSUME NEW m \in Nodes, NEW k \in 1..MaxConns
                   PROVE  spc'[<<m, k>>] # "unused" <=> k <= used'[m]
        BY DEF Opened
      <3>1. <<m, k>> \in Conns /\ used[m] \in 0..MaxConns /\ used \in [Nodes -> 0..MaxConns]
        BY DEF Conns, TableInv
      <3>2. spc[<<m, k>>] # "unused" <=> k <= used[m]
        BY DEF TableInv, Opened
      <3>3. CASE m = n
        <4>1. used'[m] = used[m] + 1
          BY <2>2, <3>1, <3>3
        <4>2. CASE k = used[n] + 1
          BY <2>1, <2>2, <3>1, <3>3, <4>1, <4>2 DEF TableInv
        <4>3. CASE k # used[n] + 1
          <5>1. spc'[<<m, k>>] = spc[<<m, k>>]
            BY <2>1, <2>2, <3>1, <3>3, <4>3 DEF TableInv
          <5>2. QED
            BY <2>1, <3>1, <3>2, <3>3, <4>1, <4>3, <5>1
        <4>4. QED
          BY <4>2, <4>3
      <3>4. CASE m # n
        <4>1. used'[m] = used[m]
          BY <2>2, <3>1, <3>4
        <4>2. spc'[<<m, k>>] = spc[<<m, k>>]
          BY <2>1, <2>2, <3>1, <3>4 DEF TableInv
        <4>3. QED
          BY <3>2, <4>1, <4>2
      <3>5. QED
        BY <3>3, <3>4
    <2>5. TableLive'
      <3> SUFFICES ASSUME NEW m \in Nodes, nodeConn[m] # None
                   PROVE  /\ nodeConn[m] \in {<<m, k>> : k \in 1..used'[m]}
                          /\ spc'[nodeConn[m]] \notin {"unused", "ended"}
        BY <2>2 DEF TableLive
      <3>1. PICK k \in 1..used[m] : nodeConn[m] = <<m, k>>
        BY DEF TableInv, TableLive
      <3>2. k \in 1..used'[m]
        BY <2>1, <2>2, <3>1 DEF TableInv
      <3>3. nodeConn[m] \in Conns /\ spc[nodeConn[m]] \notin {"unused", "ended"}
        BY DEF TableInv, TableLive
      <3>4. spc'[nodeConn[m]] \notin {"unused", "ended"}
        BY <2>1, <2>2, <3>3 DEF TableInv
      <3>5. QED
        BY <3>1, <3>2, <3>4
    <2>6. QED
      BY <2>2, <2>3, <2>4, <2>5 DEF TableInv
  <1>3. ASSUME NEW n \in Nodes,
               \/ RegisterReply(n) \/ ReportReply(n) \/ Heartbeat(n) \/ HeartbeatReply(n)
               \/ Ignore(n) \/ SeesClose(n) \/ Timeout(n) \/ NodeRestart(n)
        PROVE  TableInv'
    BY <1>3, <1>f DEF RegisterReply, ReportReply, Heartbeat, HeartbeatReply, Ignore, SeesClose,
       Timeout, NodeRestart, Drop, Goes, nodeVars, serveVars, planeVars
  <1>4. ASSUME NEW c \in Conns, StoreConnection(c)
        PROVE  TableInv'
    <2>1. /\ spc[c] = "storing"
          /\ spc' = [spc EXCEPT ![c] = "replying"]
          /\ nodeConn' = [nodeConn EXCEPT ![c[1]] = c]
          /\ used' = used
      BY <1>4 DEF StoreConnection, Serving, nodeVars
    <2>2. PICK n \in Nodes, k \in 1..MaxConns : c = <<n, k>>
      BY DEF Conns
    <2>3. k \in 1..used[n]
      BY <2>1, <2>2 DEF TableInv, Opened
    <2>4. spc' \in [Conns -> ServeSteps] /\ nodeConn' \in [Nodes -> Conns \cup {None}]
      BY <2>1, <2>2 DEF TableInv, ServeSteps
    <2>5. Opened'
      BY <2>1, <2>2, <2>3 DEF TableInv, Opened, Conns
    <2>6. TableLive'
      <3> SUFFICES ASSUME NEW m \in Nodes, nodeConn'[m] # None
                   PROVE  /\ nodeConn'[m] \in {<<m, j>> : j \in 1..used[m]}
                          /\ spc'[nodeConn'[m]] \notin {"unused", "ended"}
        BY <2>1 DEF TableLive
      <3>1. CASE m = n
        <4>1. nodeConn'[m] = c
          BY <2>1, <2>2, <3>1 DEF TableInv
        <4>2. spc'[c] = "replying"
          BY <2>1 DEF TableInv
        <4>3. QED
          BY <4>1, <4>2, <2>2, <2>3, <3>1
      <3>2. CASE m # n
        <4>1. nodeConn'[m] = nodeConn[m]
          BY <2>1, <2>2, <3>2 DEF TableInv
        <4>2. /\ nodeConn[m] \in {<<m, j>> : j \in 1..used[m]}
              /\ nodeConn[m] \in Conns
              /\ spc[nodeConn[m]] \notin {"unused", "ended"}
          BY <4>1 DEF TableInv, TableLive
        <4>3. spc'[nodeConn[m]] \notin {"unused", "ended"}
          BY <2>1, <4>2 DEF TableInv
        <4>4. QED
          BY <4>1, <4>2, <4>3
      <3>3. QED
        BY <3>1, <3>2
    <2>7. QED
      BY <2>1, <2>4, <2>5, <2>6 DEF TableInv
  <1>5. ASSUME NEW c \in Conns,
               \/ ServeRegister(c) \/ Register(c) \/ ApplySnapshot(c) \/ UpdateRevision(c)
               \/ ServeHeartbeat(c) \/ SendReply(c)
        PROVE  TableInv'
    <2>1. spc[c] # "unused" /\ UNCHANGED <<used, nodeConn>>
      BY <1>5 DEF ServeRegister, Register, ApplySnapshot, UpdateRevision, ServeHeartbeat,
         SendReply, Takes, nodeVars, planeVars
    <2>2. \E where \in ServeSteps \ {"unused", "ended"} : spc' = [spc EXCEPT ![c] = where]
      BY <1>5 DEF ServeRegister, Register, ApplySnapshot, UpdateRevision, ServeHeartbeat,
         SendReply, Serving, ServeSteps
    <2>3. QED
      BY <2>1, <2>2, TableServing
  <1>6. ASSUME NEW c \in Conns, ServeEnds(c)
        PROVE  TableInv'
    <2>1. /\ spc[c] = "reading"
          /\ spc' = [spc EXCEPT ![c] = "ended"]
          /\ nodeConn' = [m \in Nodes |-> IF nodeConn[m] = c THEN None ELSE nodeConn[m]]
          /\ used' = used
      BY <1>6 DEF ServeEnds, WithoutConnection, nodeVars
    <2>2. spc' \in [Conns -> ServeSteps] /\ nodeConn' \in [Nodes -> Conns \cup {None}]
      BY <2>1 DEF TableInv, ServeSteps
    <2>3. Opened'
      BY <2>1 DEF TableInv, Opened, Conns
    <2>4. TableLive'
      <3> SUFFICES ASSUME NEW m \in Nodes, nodeConn'[m] # None
                   PROVE  /\ nodeConn'[m] \in {<<m, j>> : j \in 1..used[m]}
                          /\ spc'[nodeConn'[m]] \notin {"unused", "ended"}
        BY <2>1 DEF TableLive
      <3>1. nodeConn'[m] = nodeConn[m] /\ nodeConn[m] # c
        BY <2>1
      <3>2. /\ nodeConn[m] \in {<<m, j>> : j \in 1..used[m]}
            /\ nodeConn[m] \in Conns
            /\ spc[nodeConn[m]] \notin {"unused", "ended"}
        BY <3>1 DEF TableInv, TableLive
      <3>3. spc'[nodeConn[m]] \notin {"unused", "ended"}
        BY <2>1, <3>1, <3>2 DEF TableInv
      <3>4. QED
        BY <3>1, <3>2, <3>3
    <2>5. QED
      BY <2>1, <2>2, <2>3, <2>4 DEF TableInv
  <1>7. ASSUME NEW c \in Conns, Keepalive(c)
        PROVE  TableInv'
    BY <1>7, <1>f DEF Keepalive, nodeVars, serveVars, planeVars
  <1>8. CASE ControlRestart
    <2>1. /\ spc' = [c \in Conns |-> IF spc[c] = "unused" THEN "unused" ELSE "ended"]
          /\ nodeConn' = [n \in Nodes |-> None]
          /\ used' = used
      BY <1>8 DEF ControlRestart, nodeVars
    <2>2. spc' \in [Conns -> ServeSteps] /\ nodeConn' \in [Nodes -> Conns \cup {None}]
      BY <2>1 DEF ServeSteps
    <2>3. Opened'
      BY <2>1 DEF TableInv, Opened, Conns
    <2>4. TableLive'
      BY <2>1 DEF TableLive
    <2>5. QED
      BY <2>1, <2>2, <2>3, <2>4 DEF TableInv
  <1>9. ASSUME NEW s \in Submits, Forward(s) \/ \E t \in Agents : RouteAgent(s, t)
        PROVE  TableInv'
    BY <1>9, <1>f DEF Forward, RouteAgent, nodeVars, serveVars, planeVars
  <1>10. QED
    BY <1>1, <1>2, <1>3, <1>4, <1>5, <1>6, <1>7, <1>8, <1>9 DEF Next, NodeStep, ServeStep

(* The connection table never names a connection that is over or another    *)
(* node's, for any number of nodes, connections, restarts and races.        *)
THEOREM TableLiveHolds == Spec => []TableLive
  <1>1. Init => TableInv
    BY TableInit
  <1>2. TableInv /\ [Next]_vars => TableInv'
    BY TableStep
  <1>3. TableInv => TableLive
    BY DEF TableInv
  <1>4. QED
    BY <1>1, <1>2, <1>3, PTL DEF Spec
-----------------------------------------------------------------------------
(* The type invariant by component. A revision counts the connections of    *)
(* one life of the node's process, so it never exceeds `used`; a task that  *)
(* records or replies holds what it needs.                                  *)
NodeOK ==
    /\ npc \in [Nodes -> NodeSteps]
    /\ used \in [Nodes -> 0..MaxConns]
    /\ revision \in [Nodes -> 0..MaxConns]
    /\ agents \in [Nodes -> SUBSET Agents]
    /\ \A n \in Nodes : revision[n] <= used[n]

WireOK ==
    /\ up \in [Conns -> Seq(Upward)]
    /\ down \in [Conns -> Seq(Downward)]
    /\ open \in [Conns -> BOOLEAN]

ServeOK ==
    /\ spc \in [Conns -> ServeSteps]
    /\ handling \in [Conns -> Upward \cup {None}]
    /\ reply \in [Conns -> Downward \cup {"none"}]
    /\ \A c \in Conns : /\ spc[c] = "recording" => handling[c] \in Upward
                        /\ spc[c] = "replying" => reply[c] \in Downward

PlaneOK ==
    /\ generation \in [Nodes -> Nat]
    /\ recorded \in [Nodes -> 0..MaxConns]
    /\ snapshots \in [Nodes -> Snapshot \cup {None}]
    /\ nodeConn \in [Nodes -> Conns \cup {None}]
    /\ crossed \subseteq Nodes

ClientOK ==
    /\ cpc \in [Submits -> {"unsent", "routed", "over"}]
    /\ via \in [Submits -> Nodes \cup {None}]
    /\ restarts \in 0..MaxRestarts

TypeInv == NodeOK /\ WireOK /\ ServeOK /\ PlaneOK /\ ClientOK

(* Sending a message keeps the queues of a direction well typed.            *)
LEMMA AppendTyped ==
  ASSUME NEW S, NEW f \in [Conns -> Seq(S)], NEW x, NEW m \in S
  PROVE  [f EXCEPT ![x] = Append(@, m)] \in [Conns -> Seq(S)]
  <1>1. ASSUME x \in Conns
        PROVE  Append(f[x], m) \in Seq(S)
    <2>1. f[x] \in Seq(S)
      BY <1>1
    <2>2. QED
      BY <2>1, AppendProperties
  <1>2. QED
    BY <1>1

(* Reading the head of a queue.                                             *)
LEMMA TailTyped ==
  ASSUME NEW S, NEW f \in [Conns -> Seq(S)], NEW x, f[x] # <<>>
  PROVE  [f EXCEPT ![x] = Tail(@)] \in [Conns -> Seq(S)]
  <1>1. ASSUME x \in Conns
        PROVE  Tail(f[x]) \in Seq(S)
    <2>1. f[x] \in Seq(S)
      BY <1>1
    <2>2. QED
      BY <2>1, HeadTailProperties
  <1>2. QED
    BY <1>1

(* Losing what was sent last.                                               *)
LEMMA PrefixTyped ==
  ASSUME NEW S, NEW f \in [Conns -> Seq(S)], NEW x, NEW k \in 0..Len(f[x])
  PROVE  [f EXCEPT ![x] = SubSeq(@, 1, k)] \in [Conns -> Seq(S)]
  <1>1. ASSUME x \in Conns
        PROVE  SubSeq(f[x], 1, k) \in Seq(S)
    BY <1>1, SubSeqProperties
  <1>2. QED
    BY <1>1

(* Dropping a queue.                                                        *)
LEMMA EmptyTyped ==
  ASSUME NEW S, NEW f \in [Conns -> Seq(S)], NEW x
  PROVE  [f EXCEPT ![x] = <<>>] \in [Conns -> Seq(S)]
  <1>1. <<>> \in Seq(S)
    OBVIOUS
  <1>2. QED
    BY <1>1

(* What the node sends is well typed.                                       *)
LEMMA MessageTyped ==
  ASSUME NEW kind \in {"register", "snapshot", "heartbeat"}, NEW rev \in 0..MaxConns,
         NEW as \in SUBSET Agents
  PROVE  Message(kind, rev, as) \in Upward
  BY DEF Message, Upward

(* The control plane sends on a connection, held at the other end or not.   *)
LEMMA DeliverTyped ==
  ASSUME WireOK, NEW c \in Conns, NEW m \in Downward, Deliver(c, m), UNCHANGED <<up, open>>
  PROVE  WireOK'
  <1>1. CASE open[c]
    <2>1. down' = [down EXCEPT ![c] = Append(@, m)]
      BY <1>1 DEF Deliver
    <2>2. down' \in [Conns -> Seq(Downward)]
      BY <2>1, AppendTyped DEF WireOK
    <2>3. QED
      BY <2>2 DEF WireOK
  <1>2. CASE ~open[c]
    BY <1>2 DEF Deliver, WireOK
  <1>3. QED
    BY <1>1, <1>2

(* Nothing is connected at the start.                                       *)
LEMMA TypeInit == Init => TypeInv
  <1> SUFFICES ASSUME Init
               PROVE  TypeInv
    OBVIOUS
  <1>1. NodeOK
    BY DEF Init, NodeOK, NodeSteps
  <1>2. WireOK
    <2>1. <<>> \in Seq(Upward) /\ <<>> \in Seq(Downward)
      OBVIOUS
    <2>2. QED
      BY <2>1 DEF Init, WireOK
  <1>3. ServeOK
    BY DEF Init, ServeOK, ServeSteps
  <1>4. PlaneOK
    BY DEF Init, PlaneOK
  <1>5. ClientOK
    BY DEF Init, ClientOK
  <1>6. QED
    BY <1>1, <1>2, <1>3, <1>4, <1>5 DEF TypeInv

(* Components a step leaves alone.                                          *)
LEMMA TypeFrame ==
  ASSUME TypeInv
  PROVE  /\ UNCHANGED nodeVars => NodeOK'
         /\ UNCHANGED wireVars => WireOK'
         /\ UNCHANGED serveVars => ServeOK'
         /\ UNCHANGED planeVars => PlaneOK'
         /\ UNCHANGED <<clientVars, restarts>> => ClientOK'
  <1>1. UNCHANGED nodeVars => NodeOK'
    BY DEF TypeInv, NodeOK, nodeVars
  <1>2. UNCHANGED wireVars => WireOK'
    BY DEF TypeInv, WireOK, wireVars
  <1>3. UNCHANGED serveVars => ServeOK'
    BY DEF TypeInv, ServeOK, serveVars
  <1>4. UNCHANGED planeVars => PlaneOK'
    BY DEF TypeInv, PlaneOK, planeVars
  <1>5. UNCHANGED <<clientVars, restarts>> => ClientOK'
    BY DEF TypeInv, ClientOK, clientVars
  <1>6. QED
    BY <1>1, <1>2, <1>3, <1>4, <1>5

(* The connector moves on.                                                  *)
LEMMA GoesTyped ==
  ASSUME NodeOK, NEW n \in Nodes, NEW where \in NodeSteps, Goes(n, where)
  PROVE  NodeOK'
  BY DEF NodeOK, Goes

(* The connector, or the end of its process, drops the connection.          *)
LEMMA DropEndTyped ==
  ASSUME WireOK, NEW n \in Nodes, DropEnd(n)
  PROVE  WireOK'
  <1>1. open' \in [Conns -> BOOLEAN]
    BY DEF WireOK, DropEnd
  <1>2. up' \in [Conns -> Seq(Upward)]
    <2>1. PICK k \in 0..Len(up[Current(n)]) :
             up' = [up EXCEPT ![Current(n)] = SubSeq(@, 1, k)]
      BY DEF DropEnd
    <2>2. QED
      BY <2>1, PrefixTyped DEF WireOK
  <1>3. down' \in [Conns -> Seq(Downward)]
    BY EmptyTyped DEF WireOK, DropEnd
  <1>4. QED
    BY <1>1, <1>2, <1>3 DEF WireOK

(* The connector drops the connection and starts over.                      *)
LEMMA DropTyped ==
  ASSUME WireOK, NodeOK, NEW n \in Nodes, Drop(n)
  PROVE  WireOK' /\ NodeOK'
  <1>1. "connecting" \in NodeSteps
    BY DEF NodeSteps
  <1>2. QED
    BY <1>1, DropEndTyped, GoesTyped DEF Drop

(* The connector reads a frame.                                             *)
LEMMA ReadsTyped ==
  ASSUME WireOK, NEW n \in Nodes, down[Current(n)] # <<>>, Reads(n)
  PROVE  down' \in [Conns -> Seq(Downward)]
  BY TailTyped DEF WireOK, Reads

(* The connector sends a message.                                           *)
LEMMA SendsTyped ==
  ASSUME WireOK, NEW n \in Nodes, NEW m \in Upward, Sends(n, m)
  PROVE  up' \in [Conns -> Seq(Upward)]
  BY AppendTyped DEF WireOK, Sends

(* Steps of the connectors.                                                 *)
LEMMA NodeTyped ==
  ASSUME TypeInv, NEW n \in Nodes, NodeStep(n) \/ Timeout(n) \/ NodeRestart(n)
  PROVE  TypeInv'
  <1>1. NodeOK /\ WireOK /\ ServeOK /\ PlaneOK /\ ClientOK
    BY DEF TypeInv
  <1>2. {"registering", "reporting", "idle", "beating", "connecting"} \subseteq NodeSteps
    BY DEF NodeSteps
  <1>3. CASE Connect(n)
    <2> DEFINE c == <<n, used[n] + 1>>
    <2>1. NodeOK'
      BY <1>1, <1>2, <1>3 DEF Connect, NodeOK
    <2>2. WireOK'
      <3>1. Message("register", 0, {}) \in Upward
        BY MessageTyped
      <3>2. <<Message("register", 0, {})>> \in Seq(Upward)
        BY <3>1
      <3>3. up' = [up EXCEPT ![c] = <<Message("register", 0, {})>>]
        BY <1>3 DEF Connect
      <3>4. up' \in [Conns -> Seq(Upward)]
        BY <1>1, <3>2, <3>3 DEF WireOK
      <3>5. QED
        BY <1>1, <1>3, <3>4 DEF Connect, WireOK
    <2>3. ServeOK'
      BY <1>1, <1>3 DEF Connect, ServeOK, ServeSteps
    <2>4. PlaneOK'
      BY <1>1, <1>3 DEF Connect, PlaneOK
    <2>5. ClientOK'
      BY <1>3, TypeFrame DEF Connect
    <2>6. QED
      BY <2>1, <2>2, <2>3, <2>4, <2>5 DEF TypeInv
  <1>4. CASE RegisterReply(n)
    <2>1. WireOK' /\ NodeOK'
      <3>1. CASE Drop(n)
        BY <1>1, <3>1, DropTyped
      <3>2. CASE /\ Reads(n) /\ Sends(n, Report(n)) /\ Goes(n, "reporting") /\ UNCHANGED open
        <4>1. Report(n) \in Upward
          BY <1>1, MessageTyped DEF Report, NodeOK
        <4>2. up' \in [Conns -> Seq(Upward)] /\ down' \in [Conns -> Seq(Downward)]
          BY <1>1, <1>4, <3>2, <4>1, SendsTyped, ReadsTyped DEF RegisterReply
        <4>3. NodeOK'
          BY <1>1, <1>2, <3>2, GoesTyped
        <4>4. QED
          BY <1>1, <3>2, <4>2, <4>3 DEF WireOK
      <3>3. QED
        BY <1>4, <3>1, <3>2 DEF RegisterReply
    <2>2. ServeOK' /\ PlaneOK' /\ ClientOK'
      BY <1>4, TypeFrame DEF RegisterReply
    <2>3. QED
      BY <2>1, <2>2 DEF TypeInv
  <1>5. CASE ReportReply(n)
    <2>1. down' \in [Conns -> Seq(Downward)]
      BY <1>1, <1>5, ReadsTyped DEF ReportReply
    <2>2. WireOK'
      BY <1>1, <1>5, <2>1 DEF ReportReply, WireOK
    <2>3. NodeOK'
      BY <1>1, <1>2, <1>5, GoesTyped DEF ReportReply
    <2>4. ServeOK' /\ PlaneOK' /\ ClientOK'
      BY <1>5, TypeFrame DEF ReportReply
    <2>5. QED
      BY <2>2, <2>3, <2>4 DEF TypeInv
  <1>6. CASE Heartbeat(n)
    <2>1. Message("heartbeat", 0, {}) \in Upward
      BY MessageTyped
    <2>2. up' \in [Conns -> Seq(Upward)]
      BY <1>1, <1>6, <2>1, SendsTyped DEF Heartbeat
    <2>3. WireOK'
      BY <1>1, <1>6, <2>2 DEF Heartbeat, WireOK
    <2>4. NodeOK'
      BY <1>1, <1>2, <1>6, GoesTyped DEF Heartbeat
    <2>5. ServeOK' /\ PlaneOK' /\ ClientOK'
      BY <1>6, TypeFrame DEF Heartbeat
    <2>6. QED
      BY <2>3, <2>4, <2>5 DEF TypeInv
  <1>7. CASE HeartbeatReply(n)
    <2>1. WireOK' /\ NodeOK'
      <3>1. CASE Drop(n)
        BY <1>1, <3>1, DropTyped
      <3>2. CASE Reads(n) /\ Goes(n, "idle") /\ UNCHANGED <<up, open>>
        <4>1. down' \in [Conns -> Seq(Downward)]
          BY <1>1, <1>7, <3>2, ReadsTyped DEF HeartbeatReply
        <4>2. NodeOK'
          BY <1>1, <1>2, <3>2, GoesTyped
        <4>3. QED
          BY <1>1, <3>2, <4>1, <4>2 DEF WireOK
      <3>3. QED
        BY <1>7, <3>1, <3>2 DEF HeartbeatReply
    <2>2. ServeOK' /\ PlaneOK' /\ ClientOK'
      BY <1>7, TypeFrame DEF HeartbeatReply
    <2>3. QED
      BY <2>1, <2>2 DEF TypeInv
  <1>8. CASE Ignore(n)
    <2>1. down' \in [Conns -> Seq(Downward)]
      BY <1>1, <1>8, ReadsTyped DEF Ignore
    <2>2. WireOK'
      BY <1>1, <1>8, <2>1 DEF Ignore, WireOK
    <2>3. NodeOK' /\ ServeOK' /\ PlaneOK' /\ ClientOK'
      BY <1>8, TypeFrame DEF Ignore
    <2>4. QED
      BY <2>2, <2>3 DEF TypeInv
  <1>9. CASE SeesClose(n)
    <2>1. WireOK' /\ NodeOK'
      BY <1>1, <1>9, DropTyped DEF SeesClose
    <2>2. ServeOK' /\ PlaneOK' /\ ClientOK'
      BY <1>9, TypeFrame DEF SeesClose
    <2>3. QED
      BY <2>1, <2>2 DEF TypeInv
  <1>10. CASE Timeout(n)
    <2>1. WireOK' /\ NodeOK'
      <3>1. CASE Drop(n)
        BY <1>1, <3>1, DropTyped
      <3>2. CASE Goes(n, "idle") /\ UNCHANGED wireVars
        BY <1>1, <1>2, <3>2, GoesTyped, TypeFrame
      <3>3. QED
        BY <1>10, <3>1, <3>2 DEF Timeout
    <2>2. ServeOK' /\ PlaneOK' /\ ClientOK'
      BY <1>10, TypeFrame DEF Timeout
    <2>3. QED
      BY <2>1, <2>2 DEF TypeInv
  <1>11. CASE NodeRestart(n)
    <2>1. WireOK'
      BY <1>1, <1>11, DropEndTyped DEF NodeRestart
    <2>2. NodeOK'
      <3>1. PICK as \in SUBSET Agents : agents' = [agents EXCEPT ![n] = as]
        BY <1>11 DEF NodeRestart
      <3>2. /\ npc' = [npc EXCEPT ![n] = "connecting"]
            /\ revision' = [revision EXCEPT ![n] = 0]
            /\ used' = used
        BY <1>11 DEF NodeRestart
      <3>3. npc' \in [Nodes -> NodeSteps]
        BY <1>1, <1>2, <3>2 DEF NodeOK
      <3>4. agents' \in [Nodes -> SUBSET Agents]
        BY <1>1, <3>1 DEF NodeOK
      <3>5. revision' \in [Nodes -> 0..MaxConns]
        BY <1>1, <3>2 DEF NodeOK
      <3>6. \A m \in Nodes : revision'[m] <= used[m]
        BY <1>1, <3>2 DEF NodeOK
      <3>7. QED
        BY <1>1, <3>2, <3>3, <3>4, <3>5, <3>6 DEF NodeOK
    <2>3. ServeOK' /\ PlaneOK' /\ ClientOK'
      BY <1>11, TypeFrame DEF NodeRestart
    <2>4. QED
      BY <2>1, <2>2, <2>3 DEF TypeInv
  <1>12. QED
    BY <1>3, <1>4, <1>5, <1>6, <1>7, <1>8, <1>9, <1>10, <1>11 DEF NodeStep

(* The serving task takes the next message of its connection.               *)
LEMMA TakesTyped ==
  ASSUME WireOK, ServeOK, NEW c \in Conns, NEW kind, Takes(c, kind), UNCHANGED <<down, open>>
  PROVE  /\ WireOK'
         /\ Head(up[c]) \in Upward
         /\ handling' = [handling EXCEPT ![c] = Head(up[c])]
  <1>1. up[c] \in Seq(Upward) /\ up[c] # <<>>
    BY DEF WireOK, Takes
  <1>2. Head(up[c]) \in Upward
    BY <1>1, HeadTailProperties
  <1>3. up' \in [Conns -> Seq(Upward)]
    BY <1>1, TailTyped DEF WireOK, Takes
  <1>4. QED
    BY <1>2, <1>3 DEF WireOK, Takes

(* The serving task moves on with a message and a reply of their types.     *)
LEMMA ServingTyped ==
  ASSUME ServeOK, NEW c \in Conns, NEW where \in ServeSteps,
         NEW m \in Upward \cup {None}, NEW r \in Downward \cup {"none"},
         spc' = [spc EXCEPT ![c] = where], reply' = [reply EXCEPT ![c] = r],
         handling' = [handling EXCEPT ![c] = m],
         where = "recording" => m \in Upward, where = "replying" => r \in Downward
  PROVE  ServeOK'
  <1>1. /\ spc' \in [Conns -> ServeSteps]
        /\ handling' \in [Conns -> Upward \cup {None}]
        /\ reply' \in [Conns -> Downward \cup {"none"}]
    BY DEF ServeOK
  <1>2. ASSUME NEW d \in Conns
        PROVE  /\ spc'[d] = "recording" => handling'[d] \in Upward
               /\ spc'[d] = "replying" => reply'[d] \in Downward
    <2>1. CASE d = c
      BY <2>1 DEF ServeOK
    <2>2. CASE d # c
      BY <2>2 DEF ServeOK
    <2>3. QED
      BY <2>1, <2>2
  <1>3. QED
    BY <1>1, <1>2 DEF ServeOK

(* Steps of the serving tasks.                                              *)
LEMMA ServeTyped ==
  ASSUME TypeInv, NEW c \in Conns, ServeStep(c)
  PROVE  TypeInv'
  <1>1. NodeOK /\ WireOK /\ ServeOK /\ PlaneOK /\ ClientOK
    BY DEF TypeInv
  <1>2. {"reading", "registering", "storing", "recording", "replying", "ended"} \subseteq ServeSteps
    BY DEF ServeSteps
  <1>3. /\ "register_ack" \in Downward /\ "snapshot_ack" \in Downward
        /\ "heartbeat_ack" \in Downward /\ "error" \in Downward
    BY DEF Downward
  <1>4. c[1] \in Nodes
    BY DEF Conns
  <1>5. /\ handling[c] \in Upward \cup {None}
        /\ handling = [handling EXCEPT ![c] = handling[c]]
    BY <1>1 DEF ServeOK
  <1>x. ASSUME Crosses(c)
        PROVE  crossed' \subseteq Nodes
    BY <1>1, <1>x DEF Crosses, PlaneOK, Conns
  <1>6. CASE ServeRegister(c)
    <2>1. WireOK' /\ Head(up[c]) \in Upward /\ handling' = [handling EXCEPT ![c] = Head(up[c])]
      BY <1>1, <1>6, TakesTyped DEF ServeRegister
    <2>2. ServeOK'
      BY <1>1, <1>2, <1>6, <2>1, ServingTyped DEF ServeRegister, Serving
    <2>3. PlaneOK'
      BY <1>1, <1>x, <1>6 DEF ServeRegister, RemoveNode, PlaneOK
    <2>4. NodeOK' /\ ClientOK'
      BY <1>6, TypeFrame DEF ServeRegister
    <2>5. QED
      BY <2>1, <2>2, <2>3, <2>4 DEF TypeInv
  <1>7. CASE Register(c)
    <2>1. ServeOK'
      BY <1>1, <1>2, <1>5, <1>7, ServingTyped DEF Register, Serving
    <2>2. PlaneOK'
      <3>1. generation' \in [Nodes -> Nat]
        BY <1>1, <1>4, <1>7 DEF Register, PlaneOK
      <3>2. recorded' \in [Nodes -> 0..MaxConns]
        BY <1>1, <1>4, <1>7 DEF Register, PlaneOK
      <3>3. QED
        BY <1>1, <1>x, <1>7, <3>1, <3>2 DEF Register, PlaneOK
    <2>3. NodeOK' /\ WireOK' /\ ClientOK'
      BY <1>7, TypeFrame DEF Register
    <2>4. QED
      BY <2>1, <2>2, <2>3 DEF TypeInv
  <1>8. CASE StoreConnection(c)
    <2>1. ServeOK'
      BY <1>1, <1>2, <1>3, <1>5, <1>8, ServingTyped DEF StoreConnection, Serving
    <2>2. PlaneOK'
      BY <1>1, <1>x, <1>8 DEF StoreConnection, PlaneOK
    <2>3. NodeOK' /\ WireOK' /\ ClientOK'
      BY <1>8, TypeFrame DEF StoreConnection
    <2>4. QED
      BY <2>1, <2>2, <2>3 DEF TypeInv
  <1>9. CASE ApplySnapshot(c)
    <2>1. WireOK' /\ Head(up[c]) \in Upward /\ handling' = [handling EXCEPT ![c] = Head(up[c])]
      BY <1>1, <1>9, TakesTyped DEF ApplySnapshot
    <2>2. CASE Serving(c, "replying", "error") /\ UNCHANGED <<snapshots, crossed>>
      <3>1. ServeOK'
        BY <1>1, <1>2, <1>3, <2>1, <2>2, ServingTyped DEF Serving
      <3>2. PlaneOK'
        BY <1>1, <1>9, <2>2 DEF ApplySnapshot, PlaneOK
      <3>3. QED
        BY <1>9, <2>1, <3>1, <3>2, TypeFrame DEF TypeInv, ApplySnapshot
    <2>3. CASE /\ snapshots' = [snapshots EXCEPT ![c[1]] = [revision |-> Head(up[c]).revision,
                                                           agents |-> Head(up[c]).agents]]
               /\ Crosses(c)
               /\ Serving(c, "recording", "none")
      <3>1. ServeOK'
        BY <1>1, <1>2, <2>1, <2>3, ServingTyped DEF Serving
      <3>2. [revision |-> Head(up[c]).revision, agents |-> Head(up[c]).agents] \in Snapshot
        BY <2>1 DEF Upward, Snapshot
      <3>3. snapshots' \in [Nodes -> Snapshot \cup {None}]
        BY <1>1, <2>3, <3>2 DEF PlaneOK
      <3>4. PlaneOK'
        BY <1>1, <1>x, <1>9, <2>3, <3>3 DEF ApplySnapshot, PlaneOK
      <3>5. QED
        BY <1>9, <2>1, <3>1, <3>4, TypeFrame DEF TypeInv, ApplySnapshot
    <2>4. QED
      BY <1>9, <2>2, <2>3 DEF ApplySnapshot
  <1>10. CASE UpdateRevision(c)
    <2>1. ServeOK'
      BY <1>1, <1>2, <1>3, <1>5, <1>10, ServingTyped DEF UpdateRevision, Serving
    <2>2. handling[c] \in Upward
      BY <1>1, <1>10 DEF UpdateRevision, ServeOK
    <2>3. handling[c].revision \in 0..MaxConns
      BY <2>2 DEF Upward
    <2>4. recorded' \in [Nodes -> 0..MaxConns]
      BY <1>1, <1>10, <2>3 DEF UpdateRevision, PlaneOK
    <2>5. PlaneOK'
      BY <1>1, <1>x, <1>10, <2>4 DEF UpdateRevision, PlaneOK
    <2>6. NodeOK' /\ WireOK' /\ ClientOK'
      BY <1>10, TypeFrame DEF UpdateRevision
    <2>7. QED
      BY <2>1, <2>5, <2>6 DEF TypeInv
  <1>11. CASE ServeHeartbeat(c)
    <2>1. WireOK' /\ Head(up[c]) \in Upward /\ handling' = [handling EXCEPT ![c] = Head(up[c])]
      BY <1>1, <1>11, TakesTyped DEF ServeHeartbeat
    <2>2. ServeOK'
      BY <1>1, <1>2, <1>3, <1>11, <2>1, ServingTyped DEF ServeHeartbeat, Serving
    <2>3. NodeOK' /\ PlaneOK' /\ ClientOK'
      BY <1>11, TypeFrame DEF ServeHeartbeat
    <2>4. QED
      BY <2>1, <2>2, <2>3 DEF TypeInv
  <1>12. CASE SendReply(c)
    <2>1. reply[c] \in Downward
      BY <1>1, <1>12 DEF SendReply, ServeOK
    <2>2. WireOK'
      BY <1>1, <1>12, <2>1, DeliverTyped DEF SendReply
    <2>3. ServeOK'
      BY <1>1, <1>2, <1>12, ServingTyped DEF SendReply, Serving
    <2>4. NodeOK' /\ PlaneOK' /\ ClientOK'
      BY <1>12, TypeFrame DEF SendReply
    <2>5. QED
      BY <2>2, <2>3, <2>4 DEF TypeInv
  <1>13. CASE ServeEnds(c)
    <2>1. ServeOK'
      BY <1>1, <1>2, <1>13 DEF ServeEnds, ServeOK
    <2>2. PlaneOK'
      BY <1>1, <1>13 DEF ServeEnds, WithoutConnection, PlaneOK
    <2>3. NodeOK' /\ WireOK' /\ ClientOK'
      BY <1>13, TypeFrame DEF ServeEnds
    <2>4. QED
      BY <2>1, <2>2, <2>3 DEF TypeInv
  <1>14. QED
    BY <1>6, <1>7, <1>8, <1>9, <1>10, <1>11, <1>12, <1>13 DEF ServeStep

(* Steps of the keep-alive task, of the clients, and a restart.             *)
LEMMA PlaneTyped ==
  ASSUME TypeInv,
         \/ \E c \in Conns : Keepalive(c)
         \/ ControlRestart
         \/ \E s \in Submits : Forward(s) \/ \E t \in Agents : RouteAgent(s, t)
  PROVE  TypeInv'
  <1>1. NodeOK /\ WireOK /\ ServeOK /\ PlaneOK /\ ClientOK
    BY DEF TypeInv
  <1>2. "ping" \in Downward /\ "submit" \in Downward
    BY DEF Downward
  <1>3. ASSUME NEW c \in Conns, Keepalive(c)
        PROVE  TypeInv'
    <2>1. WireOK'
      BY <1>1, <1>2, <1>3, DeliverTyped DEF Keepalive
    <2>2. QED
      BY <1>3, <2>1, TypeFrame DEF TypeInv, Keepalive
  <1>4. CASE ControlRestart
    <2>1. ServeOK'
      BY <1>1, <1>4 DEF ControlRestart, ServeOK, ServeSteps
    <2>2. PlaneOK'
      BY <1>1, <1>4 DEF ControlRestart, PlaneOK
    <2>3. ClientOK'
      <3>1. cpc' = [s \in Submits |-> IF cpc[s] = "routed" THEN "over" ELSE cpc[s]]
        BY <1>4 DEF ControlRestart
      <3>2. restarts' \in 0..MaxRestarts
        BY <1>1, <1>4 DEF ControlRestart, ClientOK
      <3>3. QED
        BY <1>1, <1>4, <3>1, <3>2 DEF ControlRestart, ClientOK
    <2>4. WireOK'
      <3>1. <<>> \in Seq(Upward)
        OBVIOUS
      <3>2. QED
        BY <1>1, <1>4, <3>1 DEF ControlRestart, WireOK
    <2>5. NodeOK'
      BY <1>4, TypeFrame DEF ControlRestart
    <2>6. QED
      BY <2>1, <2>2, <2>3, <2>4, <2>5 DEF TypeInv
  <1>5. ASSUME NEW s \in Submits, Forward(s)
        PROVE  TypeInv'
    <2> DEFINE c == nodeConn[via[s]]
    <2>1. ClientOK'
      BY <1>1, <1>5 DEF Forward, ClientOK
    <2>2. CASE UNCHANGED down
      BY <1>5, <2>1, <2>2, TypeFrame DEF TypeInv, Forward, wireVars
    <2>3. CASE Deliver(c, "submit") /\ down' # down
      <3>1. c \in Conns
        BY <1>1, <2>3 DEF Deliver, WireOK
      <3>2. WireOK'
        BY <1>1, <1>2, <1>5, <2>3, <3>1, DeliverTyped DEF Forward
      <3>3. QED
        BY <1>5, <2>1, <3>2, TypeFrame DEF TypeInv, Forward
    <2>4. QED
      BY <1>5, <2>2, <2>3 DEF Forward
  <1>6. ASSUME NEW s \in Submits, NEW t \in Agents, RouteAgent(s, t)
        PROVE  TypeInv'
    <2>1. ClientOK'
      BY <1>1, <1>6 DEF RouteAgent, Candidates, ClientOK
    <2>2. QED
      BY <1>6, <2>1, TypeFrame DEF TypeInv, RouteAgent
  <1>7. QED
    BY <1>3, <1>4, <1>5, <1>6

(* Every step keeps the types.                                              *)
LEMMA TypeStep == TypeInv /\ [Next]_vars => TypeInv'
  <1> SUFFICES ASSUME TypeInv, [Next]_vars
               PROVE  TypeInv'
    OBVIOUS
  <1>1. CASE UNCHANGED vars
    BY <1>1, TypeFrame DEF TypeInv, vars
  <1>2. CASE Next
    BY <1>2, NodeTyped, ServeTyped, PlaneTyped DEF Next
  <1>3. QED
    BY <1>1, <1>2

(* Every variable keeps its type whatever the number of nodes, connections, *)
(* submits and restarts: no step of a task acts on a message or a reply it  *)
(* does not hold, and no snapshot carries a revision beyond its node's      *)
(* connections.                                                             *)
THEOREM ControlTypeCorrect == Spec => []TypeOK
  <1>1. TypeInv => TypeOK
    BY DEF TypeInv, TypeOK, NodeOK, WireOK, ServeOK, PlaneOK, ClientOK
  <1>2. QED
    BY <1>1, TypeInit, TypeStep, PTL DEF Spec

(* Types and connection table together: serve_connection inserts and        *)
(* removes entries of live connections of the node only.                    *)
THEOREM TableOKHolds == Spec => []TableOK
  BY ControlTypeCorrect, TableLiveHolds, PTL DEF TableOK

-----------------------------------------------------------------------------
(* Routes: what the control plane knows of a node that is not crossed.      *)

(* The RegisterAck of a connection has not been sent.                       *)
AckUnsent(c) == \A i \in 1..Len(down[c]) : down[c][i] # "register_ack"

(* From position k on a connection carries nothing but heartbeats.          *)
Heartbeats(c, k) == \A i \in k..Len(up[c]) : up[c][i].kind = "heartbeat"

(* A registering node: its message is unread, or its serving task cleared   *)
(* the snapshot and no other task has put one back.                         *)
Registering(n) ==
    LET c == Current(n)
    IN  \/ /\ up[c] = <<Message("register", 0, {})>>
           /\ spc[c] = "reading" /\ AckUnsent(c) /\ nodeConn[n] # c
        \/ /\ up[c] = <<>> /\ snapshots[n] = None
           /\ \/ spc[c] \in {"registering", "storing"} /\ AckUnsent(c)
              \/ spc[c] = "replying" /\ AckUnsent(c) /\ nodeConn[n] = c
              \/ spc[c] = "reading" /\ nodeConn[n] = c

(* A node past its report: the report is the next message of the            *)
(* connection, was just applied, or is applied and recorded.                *)
Reported(n) ==
    LET c == Current(n)
    IN  /\ nodeConn[n] = c
        /\ \/ /\ up[c] # <<>> /\ up[c][1] = Report(n) /\ Heartbeats(c, 2)
              /\ snapshots[n] = None /\ spc[c] = "reading"
           \/ /\ Heartbeats(c, 1)
              /\ snapshots[n] = [revision |-> revision[n], agents |-> agents[n]]
              /\ \/ spc[c] = "recording" /\ handling[c].revision = revision[n]
                 \/ spc[c] \in {"reading", "replying"} /\ recorded[n] = revision[n]

Link(n) ==
    npc[n] # "connecting" =>
        /\ used[n] > 0 /\ open[Current(n)]
        /\ spc[Current(n)] # "ended" /\ Uncrossed(n) =>
              IF npc[n] = "registering" THEN Registering(n) ELSE Reported(n)

(* A node holds its latest connection only, and nothing is in flight to it  *)
(* on another.                                                              *)
OpenInv ==
    \A c \in Conns :
        /\ open[c] => c = Current(c[1]) /\ npc[c[1]] # "connecting"
        /\ ~open[c] => down[c] = <<>>

LinkInv == OpenInv /\ \A n \in Nodes : Link(n)

RouteInv == TypeInv /\ TableInv /\ LinkInv

(* A step that leaves all that concerns a node alone, but for acks already  *)
(* read and messages other than a RegisterAck.                              *)
Untouched(n) ==
    /\ npc'[n] = npc[n] /\ used'[n] = used[n] /\ revision'[n] = revision[n] /\ agents'[n] = agents[n]
    /\ n \in crossed' <=> n \in crossed
    /\ snapshots'[n] = snapshots[n] /\ recorded'[n] = recorded[n] /\ nodeConn'[n] = nodeConn[n]
    /\ \A k \in 1..MaxConns :
          /\ up'[<<n, k>>] = up[<<n, k>>] /\ spc'[<<n, k>>] = spc[<<n, k>>]
          /\ open'[<<n, k>>] = open[<<n, k>>] /\ handling'[<<n, k>>] = handling[<<n, k>>]
          /\ AckUnsent(<<n, k>>) => AckUnsent(<<n, k>>)'

LEMMA LinkFrame ==
    ASSUME TypeInv, NEW n \in Nodes, Link(n), Untouched(n)
    PROVE  Link(n)'
  <1> SUFFICES ASSUME npc[n] # "connecting"
               PROVE  Link(n)'
    BY DEF Untouched, Link
  <1> DEFINE c == Current(n)
  <1>1. used[n] \in 1..MaxConns
    BY DEF TypeInv, NodeOK, Link
  <1>2. Current(n)' = c /\ c = <<n, used[n]>>
    BY DEF Untouched, Current
  <1>3. /\ up'[c] = up[c] /\ spc'[c] = spc[c] /\ open'[c] = open[c] /\ handling'[c] = handling[c]
        /\ AckUnsent(c) => AckUnsent(c)'
    BY <1>1, <1>2 DEF Untouched
  <1>4. Uncrossed(n)' <=> Uncrossed(n)
    BY DEF Untouched, Uncrossed
  <1>5. Report(n)' = Report(n)
    BY DEF Untouched, Report, Message
  <1>6. \A k : Heartbeats(c, k)' <=> Heartbeats(c, k)
    BY <1>2, <1>3 DEF Heartbeats
  <1> HIDE DEF c
  <1>7. CASE spc[c] = "ended" \/ ~Uncrossed(n)
    BY <1>2, <1>3, <1>4, <1>7 DEF Link, Untouched, c
  <1>8. CASE spc[c] # "ended" /\ Uncrossed(n) /\ npc[n] = "registering"
    <2>1. Registering(n)
      BY <1>8 DEF Link, c
    <2>2. Registering(n)'
      BY <1>2, <1>3, <2>1 DEF Registering, Untouched, c
    <2>3. QED
      BY <1>2, <1>3, <1>8, <2>2 DEF Link, Untouched, c
  <1>9. CASE spc[c] # "ended" /\ Uncrossed(n) /\ npc[n] # "registering"
    <2>1. Reported(n)
      BY <1>9 DEF Link, c
    <2>2. Reported(n)'
      BY <1>2, <1>3, <1>5, <1>6, <2>1 DEF Reported, Untouched, c
    <2>3. QED
      BY <1>2, <1>3, <1>9, <2>2 DEF Link, Untouched, c
  <1>10. QED
    BY <1>7, <1>8, <1>9

(* The control plane sends something other than a RegisterAck.              *)
LEMMA DeliverUnsent ==
    ASSUME TypeInv, NEW d \in Conns, NEW m \in Downward \ {"register_ack"}, Deliver(d, m),
           NEW c \in Conns, AckUnsent(c)
    PROVE  AckUnsent(c)'
  <1>1. down[c] \in Seq(Downward)
    BY DEF TypeInv, WireOK
  <1>2. CASE down'[c] = down[c]
    BY <1>2 DEF AckUnsent
  <1>3. CASE down'[c] = Append(down[c], m)
    BY <1>1, <1>3 DEF AckUnsent
  <1>4. QED
    BY <1>2, <1>3 DEF Deliver, TypeInv, WireOK

(* It sends only to a node that holds its end.                              *)
LEMMA DeliverOpen ==
    ASSUME TypeInv, OpenInv, NEW d \in Conns, NEW m, Deliver(d, m), UNCHANGED <<open, npc, used>>
    PROVE  OpenInv'
  BY DEF TypeInv, WireOK, OpenInv, Deliver, Current

(* The end of a connection at the node.                                     *)
LEMMA DropOpen ==
    ASSUME TypeInv, LinkInv, NEW n \in Nodes, npc[n] # "connecting", DropEnd(n),
           npc' = [npc EXCEPT ![n] = "connecting"], UNCHANGED used
    PROVE  OpenInv' /\ Link(n)'
  <1>1. /\ open' = [open EXCEPT ![Current(n)] = FALSE] /\ down' = [down EXCEPT ![Current(n)] = <<>>]
        /\ npc'[n] = "connecting" /\ \A m \in Nodes \ {n} : npc'[m] = npc[m]
    BY DEF DropEnd, TypeInv, NodeOK
  <1>2. ASSUME NEW c \in Conns
        PROVE  /\ open'[c] => c = Current(c[1])' /\ npc'[c[1]] # "connecting"
               /\ ~open'[c] => down'[c] = <<>>
    <2>1. c[1] \in Nodes /\ Current(c[1])' = Current(c[1])
      BY DEF Conns, Current
    <2>2. CASE c = Current(n)
      <3>1. ~open'[c] /\ down'[c] = <<>>
        BY <1>1, <2>2 DEF TypeInv, WireOK
      <3>2. QED
        BY <3>1
    <2>3. CASE c # Current(n)
      <3>1. open'[c] = open[c] /\ down'[c] = down[c]
        BY <1>1, <2>3 DEF TypeInv, WireOK
      <3>2. open[c] => c[1] # n
        BY <2>3 DEF LinkInv, OpenInv
      <3>3. QED
        BY <1>1, <2>1, <3>1, <3>2 DEF LinkInv, OpenInv
    <2>4. QED
      BY <2>2, <2>3
  <1>3. OpenInv'
    BY <1>2 DEF OpenInv
  <1>4. Link(n)'
    BY <1>1 DEF Link
  <1>5. QED
    BY <1>3, <1>4

(* A connector leaves the other nodes alone.                                *)
LEMMA NodeApart ==
    ASSUME TypeInv, NEW n \in Nodes, NodeStep(n) \/ Timeout(n) \/ NodeRestart(n),
           NEW m \in Nodes \ {n}
    PROVE  Untouched(m)
  <1>1. UNCHANGED <<snapshots, recorded, nodeConn, handling>> /\ (m \in crossed' <=> m \in crossed)
    BY DEF NodeStep, Connect, RegisterReply, ReportReply, Heartbeat, HeartbeatReply, Ignore, SeesClose,
           Timeout, NodeRestart, planeVars, serveVars
  <1>2. CASE Connect(n)
    BY <1>1, <1>2 DEF Connect, Untouched, AckUnsent
  <1>3. CASE UNCHANGED <<used, spc>>
    <2>g. ASSUME NEW where, Goes(n, where)
          PROVE  npc'[m] = npc[m] /\ revision'[m] = revision[m] /\ agents'[m] = agents[m]
      BY <2>g DEF Goes
    <2>d. ASSUME DropEnd(n), NEW k \in 1..MaxConns
          PROVE  /\ up'[<<m, k>>] = up[<<m, k>>] /\ open'[<<m, k>>] = open[<<m, k>>]
                 /\ down'[<<m, k>>] = down[<<m, k>>]
      BY <2>d DEF DropEnd, Current
    <2>r. ASSUME Reads(n), NEW k \in 1..MaxConns
          PROVE  down'[<<m, k>>] = down[<<m, k>>]
      BY <2>r DEF Reads, Current
    <2>s. ASSUME NEW x, Sends(n, x), NEW k \in 1..MaxConns
          PROVE  up'[<<m, k>>] = up[<<m, k>>]
      BY <2>s DEF Sends, Current
    <2>1. npc'[m] = npc[m] /\ revision'[m] = revision[m] /\ agents'[m] = agents[m]
      <3>1. CASE NodeRestart(n)
        BY <3>1 DEF NodeRestart
      <3>2. CASE RegisterReply(n)
        BY <2>g, <3>2 DEF RegisterReply, Drop
      <3>3. CASE ReportReply(n) \/ Heartbeat(n) \/ SeesClose(n)
        BY <2>g, <3>3 DEF ReportReply, Heartbeat, SeesClose, Drop
      <3>4. CASE HeartbeatReply(n) \/ Timeout(n)
        BY <2>g, <3>4 DEF HeartbeatReply, Timeout, Drop
      <3>5. CASE Ignore(n)
        BY <3>5 DEF Ignore, nodeVars
      <3>6. CASE Connect(n)
        BY <3>6 DEF Connect
      <3>7. QED
        BY <3>1, <3>2, <3>3, <3>4, <3>5, <3>6 DEF NodeStep
    <2>2. ASSUME NEW k \in 1..MaxConns
          PROVE  /\ up'[<<m, k>>] = up[<<m, k>>] /\ open'[<<m, k>>] = open[<<m, k>>]
                 /\ down'[<<m, k>>] = down[<<m, k>>]
      <3>1. CASE NodeRestart(n)
        BY <2>d, <3>1 DEF NodeRestart
      <3>2. CASE RegisterReply(n)
        BY <2>d, <2>r, <2>s, <3>2 DEF RegisterReply, Drop
      <3>3. CASE ReportReply(n) \/ Heartbeat(n) \/ SeesClose(n)
        BY <2>d, <2>r, <2>s, <3>3 DEF ReportReply, Heartbeat, SeesClose, Drop
      <3>4. CASE HeartbeatReply(n) \/ Timeout(n)
        BY <2>d, <2>r, <3>4 DEF HeartbeatReply, Timeout, Drop, wireVars
      <3>5. CASE Ignore(n)
        BY <2>r, <3>5 DEF Ignore
      <3>6. CASE Connect(n)
        BY <3>6 DEF Connect
      <3>7. QED
        BY <3>1, <3>2, <3>3, <3>4, <3>5, <3>6 DEF NodeStep
    <2>3. QED
      BY <1>1, <1>3, <2>1, <2>2 DEF Untouched, AckUnsent
  <1>4. QED
    BY <1>2, <1>3 DEF NodeStep, RegisterReply, ReportReply, Heartbeat, HeartbeatReply, Ignore, SeesClose,
       Timeout, NodeRestart, Drop, Goes, nodeVars, serveVars

(* A connector's step leaves LinkInv if it does for its node and what is    *)
(* open.                                                                    *)
LEMMA NodeLinks ==
    ASSUME RouteInv, NEW n \in Nodes, NodeStep(n) \/ Timeout(n) \/ NodeRestart(n), OpenInv', Link(n)'
    PROVE  LinkInv'
  BY NodeApart, LinkFrame DEF RouteInv, LinkInv

(* A connector's step within its connection.                                *)
LEMMA StaysOpen ==
    ASSUME RouteInv, NEW n \in Nodes, npc[n] # "connecting", UNCHANGED <<used, open>>,
           NEW where \in NodeSteps \ {"connecting"}, npc' = [npc EXCEPT ![n] = where],
           down' = [down EXCEPT ![Current(n)] = Tail(@)] \/ UNCHANGED down
    PROVE  OpenInv'
  <1>1. ASSUME NEW c \in Conns
        PROVE  /\ open'[c] => c = Current(c[1])' /\ npc'[c[1]] # "connecting"
               /\ ~open'[c] => down'[c] = <<>>
    <2>1. c[1] \in Nodes /\ Current(c[1])' = Current(c[1]) /\ open[Current(n)]
      BY DEF Conns, Current, RouteInv, LinkInv, Link
    <2>2. open[c] => c = Current(c[1]) /\ npc[c[1]] # "connecting"
      BY DEF RouteInv, LinkInv, OpenInv
    <2>3. ~open[c] => down'[c] = <<>>
      BY <2>1 DEF RouteInv, LinkInv, OpenInv, TypeInv, WireOK
    <2>4. QED
      BY <2>1, <2>2, <2>3 DEF RouteInv, TypeInv, NodeOK
  <1>2. QED
    BY <1>1 DEF OpenInv

(* What a connection past its report needs of the connector's steps.        *)
LEMMA StaysReported ==
    ASSUME TypeInv, NEW n \in Nodes, used[n] > 0, Reported(n),
           UNCHANGED <<used, revision, agents, spc, handling, nodeConn, snapshots, recorded>>,
           up'[Current(n)] = up[Current(n)]
             \/ up'[Current(n)] = Append(up[Current(n)], Message("heartbeat", 0, {}))
    PROVE  Reported(n)'
  <1> DEFINE c == Current(n)
             beat == Message("heartbeat", 0, {})
  <1>1. /\ Current(n)' = c /\ Report(n)' = Report(n)
        /\ c \in Conns
    BY DEF Current, Report, Message, Conns, TypeInv, NodeOK
  <1>2. up[c] \in Seq(Upward) /\ beat.kind = "heartbeat"
    BY <1>1 DEF TypeInv, WireOK, Message
  <1> HIDE DEF c, beat
  <1>3. ASSUME NEW k \in {1, 2}, Heartbeats(c, k)
        PROVE  Heartbeats(c, k)'
    <2>1. CASE up'[c] = up[c]
      BY <1>1, <1>3, <2>1 DEF Heartbeats, c
    <2>2. CASE up'[c] = Append(up[c], beat)
      BY <1>1, <1>2, <1>3, <2>2 DEF Heartbeats, c
    <2>3. QED
      BY <2>1, <2>2 DEF c, beat
  <1>4. up[c] # <<>> => up'[c] # <<>> /\ up'[c][1] = up[c][1]
    <2>1. CASE up'[c] = up[c]
      BY <2>1
    <2>2. CASE up'[c] = Append(up[c], beat)
      BY <1>2, <2>2
    <2>3. QED
      BY <2>1, <2>2 DEF c, beat
  <1>5. QED
    BY <1>1, <1>3, <1>4 DEF Reported, c

(* Every step of a connector keeps LinkInv.                                 *)
LEMMA NodeLink ==
    ASSUME RouteInv, NEW n \in Nodes, NodeStep(n) \/ Timeout(n) \/ NodeRestart(n)
    PROVE  LinkInv'
  <1>t. /\ TypeInv /\ npc \in [Nodes -> NodeSteps] /\ used \in [Nodes -> 0..MaxConns]
        /\ up \in [Conns -> Seq(Upward)] /\ down \in [Conns -> Seq(Downward)]
    BY DEF RouteInv, TypeInv, NodeOK, WireOK
  <1>d. ASSUME npc[n] # "connecting", Drop(n)
        PROVE  LinkInv'
    <2>1. DropEnd(n) /\ npc' = [npc EXCEPT ![n] = "connecting"] /\ UNCHANGED used
      BY <1>d DEF Drop, Goes
    <2>2. QED
      BY <1>d, <2>1, DropOpen, NodeLinks DEF RouteInv
  <1>p. ASSUME npc[n] \in {"reporting", "idle", "beating"}, NEW where \in {"reporting", "idle", "beating"},
               Goes(n, where),
               UNCHANGED <<serveVars, planeVars, open>>, Reads(n) \/ UNCHANGED down,
               UNCHANGED up \/ Sends(n, Message("heartbeat", 0, {}))
        PROVE  LinkInv'
    <2>1. /\ npc' = [npc EXCEPT ![n] = where] /\ UNCHANGED <<used, revision, agents>>
          /\ UNCHANGED <<spc, handling, nodeConn, snapshots, recorded, crossed>>
          /\ down' = [down EXCEPT ![Current(n)] = Tail(@)] \/ UNCHANGED down
      BY <1>p DEF Goes, serveVars, planeVars, Reads
    <2>2. OpenInv'
      BY <1>p, <2>1, StaysOpen DEF NodeSteps
    <2>3. /\ used[n] > 0 /\ open[Current(n)] /\ Current(n)' = Current(n) /\ npc'[n] = where
          /\ Current(n) \in Conns
      BY <1>p, <1>t, <2>1 DEF RouteInv, LinkInv, Link, Current, Conns
    <2>4. \/ up'[Current(n)] = up[Current(n)]
          \/ up'[Current(n)] = Append(up[Current(n)], Message("heartbeat", 0, {}))
      BY <1>p, <1>t, <2>3 DEF Sends
    <2>5. CASE spc[Current(n)] = "ended" \/ ~Uncrossed(n)
      <3>1. Link(n)'
        BY <1>p, <2>1, <2>3, <2>5 DEF Link, Uncrossed
      <3>2. QED
        BY <2>2, <3>1, NodeLinks
    <2>6. CASE spc[Current(n)] # "ended" /\ Uncrossed(n)
      <3>1. Reported(n)
        BY <1>p, <2>6 DEF RouteInv, LinkInv, Link
      <3>2. Reported(n)'
        BY <1>t, <2>1, <2>3, <2>4, <3>1, StaysReported
      <3>3. Link(n)'
        BY <1>p, <2>1, <2>3, <3>2 DEF Link
      <3>4. QED
        BY <2>2, <3>3, NodeLinks
    <2>7. QED
      BY <2>5, <2>6
  <1>1. CASE Connect(n)
    <2> DEFINE c == <<n, used[n] + 1>>
    <2>1. /\ npc[n] = "connecting" /\ c \in Conns /\ Current(n)' = c
          /\ used' = [used EXCEPT ![n] = @ + 1] /\ npc' = [npc EXCEPT ![n] = "registering"]
          /\ open' = [open EXCEPT ![c] = TRUE] /\ spc' = [spc EXCEPT ![c] = "reading"]
          /\ up' = [up EXCEPT ![c] = <<Message("register", 0, {})>>]
          /\ UNCHANGED <<down, nodeConn>>
      BY <1>1, <1>t DEF Connect, Conns, Current
    <2>2. open \in [Conns -> BOOLEAN] /\ spc \in [Conns -> ServeSteps]
      BY DEF RouteInv, TypeInv, WireOK, ServeOK
    <2>3. \A d \in Conns : open[d] => d[1] # n /\ d[1] \in Nodes
      BY <2>1 DEF RouteInv, LinkInv, OpenInv, Conns
    <2>4. ASSUME NEW d \in Conns
          PROVE  /\ open'[d] => d = Current(d[1])' /\ npc'[d[1]] # "connecting"
                 /\ ~open'[d] => down'[d] = <<>>
      <3>1. CASE d = c
        BY <1>t, <2>1, <2>2, <3>1
      <3>2. CASE d # c
        <4>1. open'[d] = open[d]
          BY <2>1, <2>2, <3>2
        <4>2. ~open[d] => down'[d] = <<>>
          BY <2>1 DEF RouteInv, LinkInv, OpenInv
        <4>3. ASSUME open[d]
              PROVE  d = Current(d[1])' /\ npc'[d[1]] # "connecting"
          <5>1. d[1] \in Nodes \ {n}
            BY <2>3, <4>3
          <5>2. Current(d[1])' = Current(d[1]) /\ npc'[d[1]] = npc[d[1]]
            BY <1>t, <2>1, <5>1 DEF Current
          <5>3. QED
            BY <4>3, <5>2 DEF RouteInv, LinkInv, OpenInv
        <4>4. QED
          BY <4>1, <4>2, <4>3
      <3>3. QED
        BY <3>1, <3>2
    <2>5. OpenInv'
      BY <2>4 DEF OpenInv
    <2>6. down[c] = <<>>
      BY <2>1, <2>3 DEF RouteInv, LinkInv, OpenInv
    <2>7. nodeConn[n] # c
      <3>1. nodeConn[n] = None \/ \E k \in 1..used[n] : nodeConn[n] = <<n, k>>
        BY DEF RouteInv, TableInv, TableLive
      <3>2. None # c
        BY <2>1 DEF Conns
      <3>3. QED
        <4>1. \A k \in 1..used[n] : k # used[n] + 1
          BY <1>t
        <4>2. QED
          BY <3>1, <3>2, <4>1
    <2>8. /\ up'[c] = <<Message("register", 0, {})>> /\ spc'[c] = "reading" /\ open'[c]
          /\ npc'[n] = "registering" /\ used'[n] > 0
      BY <1>t, <2>1, <2>2
    <2>9. AckUnsent(Current(n))'
      BY <2>1, <2>6 DEF AckUnsent
    <2> HIDE DEF c
    <2>10. Registering(n)'
      BY <2>1, <2>7, <2>8, <2>9 DEF Registering
    <2>11. Link(n)'
      BY <2>1, <2>8, <2>10 DEF Link
    <2>12. QED
      BY <2>5, <2>11, NodeLinks
  <1>2. CASE RegisterReply(n)
    <2> DEFINE c == Current(n)
    <2>1. npc[n] = "registering" /\ down[c] # <<>> /\ UNCHANGED <<serveVars, planeVars>>
      BY <1>2 DEF RegisterReply
    <2>2. CASE Head(down[c]) # "register_ack"
      BY <1>2, <1>d, <2>1, <2>2 DEF RegisterReply
    <2>3. CASE Head(down[c]) = "register_ack"
      <3>1. Reads(n) /\ Sends(n, Report(n)) /\ Goes(n, "reporting") /\ UNCHANGED open
        BY <1>2, <2>3 DEF RegisterReply
      <3>2. /\ npc' = [npc EXCEPT ![n] = "reporting"] /\ UNCHANGED <<used, revision, agents>>
            /\ down' = [down EXCEPT ![c] = Tail(@)] /\ up' = [up EXCEPT ![c] = Append(@, Report(n))]
            /\ UNCHANGED <<spc, handling, nodeConn, snapshots, recorded, crossed>>
        BY <2>1, <3>1 DEF Reads, Sends, Goes, serveVars, planeVars
      <3>3. OpenInv'
        BY <2>1, <3>1, <3>2, StaysOpen DEF NodeSteps
      <3>4. used[n] > 0 /\ open[c] /\ c \in Conns
        BY <1>t, <2>1 DEF RouteInv, LinkInv, Link, Current, Conns
      <3>5. ~AckUnsent(c)
        <4>1. down[c] \in Seq(Downward)
          BY <1>t, <3>4
        <4>2. QED
          BY <2>1, <2>3, <4>1 DEF AckUnsent
      <3>6. /\ Current(n)' = c /\ Report(n)' = Report(n) /\ npc'[n] = "reporting"
        BY <1>t, <3>2 DEF Current, Report, Message
      <3>7. CASE spc[c] = "ended" \/ ~Uncrossed(n)
        <4>1. Link(n)'
          BY <3>1, <3>2, <3>4, <3>6, <3>7 DEF Link, Uncrossed
        <4>2. QED
          BY <3>3, <4>1, NodeLinks
      <3>8. CASE spc[c] # "ended" /\ Uncrossed(n)
        <4>1. /\ up[c] = <<>> /\ snapshots[n] = None /\ spc[c] = "reading"
              /\ nodeConn[n] = c
          BY <2>1, <3>5, <3>8 DEF RouteInv, LinkInv, Link, Registering
        <4>2. up'[c] = Append(<<>>, Report(n))
          BY <1>t, <3>2, <3>4, <4>1
        <4>3. Len(up'[c]) = 1 /\ up'[c][1] = Report(n) /\ up'[c] # <<>>
          BY <4>2
        <4>4. Heartbeats(c, 2)'
          BY <3>6, <4>3 DEF Heartbeats
        <4>5. Reported(n)'
          BY <3>2, <3>6, <4>1, <4>3, <4>4 DEF Reported
        <4>6. Link(n)'
          BY <3>1, <3>2, <3>4, <3>6, <4>5 DEF Link
        <4>7. QED
          BY <3>3, <4>6, NodeLinks
      <3>9. QED
        BY <3>7, <3>8
    <2>4. QED
      BY <2>2, <2>3
  <1>3. CASE ReportReply(n)
    BY <1>3, <1>p DEF ReportReply
  <1>4. CASE Heartbeat(n)
    BY <1>4, <1>p DEF Heartbeat
  <1>5. CASE HeartbeatReply(n)
    <2>1. CASE Drop(n)
      BY <1>5, <1>d, <2>1 DEF HeartbeatReply
    <2>2. CASE Reads(n) /\ Goes(n, "idle") /\ UNCHANGED <<up, open>>
      BY <1>5, <1>p, <2>2 DEF HeartbeatReply
    <2>3. QED
      BY <1>5, <2>1, <2>2 DEF HeartbeatReply
  <1>6. CASE Ignore(n)
    <2>1. npc[n] = "idle" /\ UNCHANGED nodeVars
      BY <1>6 DEF Ignore
    <2>2. Goes(n, "idle")
      BY <1>t, <2>1 DEF Goes, nodeVars
    <2>3. QED
      BY <1>6, <1>p, <2>1, <2>2 DEF Ignore
  <1>7. CASE SeesClose(n)
    BY <1>7, <1>d DEF SeesClose
  <1>8. CASE Timeout(n)
    <2>1. CASE npc[n] \in {"registering", "beating"} /\ Drop(n)
      BY <1>d, <2>1
    <2>2. CASE npc[n] = "reporting" /\ Goes(n, "idle") /\ UNCHANGED wireVars
      BY <1>8, <1>p, <2>2 DEF Timeout, wireVars
    <2>3. QED
      BY <1>8, <2>1, <2>2 DEF Timeout
  <1>9. CASE NodeRestart(n)
    <2>1. npc[n] # "connecting" /\ DropEnd(n) /\ npc' = [npc EXCEPT ![n] = "connecting"] /\ UNCHANGED used
      BY <1>9 DEF NodeRestart
    <2>2. QED
      BY <2>1, DropOpen, NodeLinks DEF RouteInv
  <1>10. QED
    BY <1>1, <1>2, <1>3, <1>4, <1>5, <1>6, <1>7, <1>8, <1>9 DEF NodeStep

(* What every step of a serving task has in common.                         *)
LEMMA ServeFrame ==
    ASSUME RouteInv, NEW d \in Conns, ServeStep(d)
    PROVE  /\ UNCHANGED <<npc, used, revision, agents, open>>
           /\ spc[d] \notin {"unused", "ended"}
           /\ \A c \in Conns \ {d} : /\ up'[c] = up[c] /\ spc'[c] = spc[c] /\ handling'[c] = handling[c]
                                     /\ down'[c] = down[c]
           /\ \A m \in Nodes \ {d[1]} : /\ snapshots'[m] = snapshots[m] /\ recorded'[m] = recorded[m]
                                        /\ nodeConn'[m] = nodeConn[m]
           /\ nodeConn'[d[1]] \in {nodeConn[d[1]], d, None}
           /\ \A m \in Nodes : m \in crossed => m \in crossed'
           /\ \A m \in Nodes : m # d[1] \/ d = Current(m) => (m \in crossed' <=> m \in crossed)
           /\ OpenInv'
  <1>t. /\ spc \in [Conns -> ServeSteps] /\ up \in [Conns -> Seq(Upward)] /\ d[1] \in Nodes
        /\ handling \in [Conns -> Upward \cup {None}] /\ down \in [Conns -> Seq(Downward)]
        /\ nodeConn \in [Nodes -> Conns \cup {None}] /\ snapshots \in [Nodes -> Snapshot \cup {None}]
        /\ recorded \in [Nodes -> 0..MaxConns]
    BY DEF RouteInv, TypeInv, ServeOK, WireOK, PlaneOK, Conns
  <1>1. UNCHANGED <<npc, used, revision, agents, open>> /\ spc[d] \notin {"unused", "ended"}
    BY DEF ServeStep, ServeRegister, Register, StoreConnection, ApplySnapshot, UpdateRevision,
           ServeHeartbeat, SendReply, ServeEnds, Takes, nodeVars, wireVars
  <1>2. \A c \in Conns \ {d} : up'[c] = up[c] /\ spc'[c] = spc[c] /\ handling'[c] = handling[c]
    BY <1>t DEF ServeStep, ServeRegister, Register, StoreConnection, ApplySnapshot, UpdateRevision,
           ServeHeartbeat, SendReply, ServeEnds, Takes, Serving, wireVars
  <1>3. UNCHANGED down \/ (SendReply(d) /\ Deliver(d, reply[d]))
    BY DEF ServeStep, ServeRegister, Register, StoreConnection, ApplySnapshot, UpdateRevision,
           ServeHeartbeat, SendReply, ServeEnds, wireVars
  <1>4. \A c \in Conns \ {d} : down'[c] = down[c]
    BY <1>3, <1>t DEF Deliver
  <1>5. \A m \in Nodes \ {d[1]} : snapshots'[m] = snapshots[m] /\ recorded'[m] = recorded[m]
    BY <1>t DEF ServeStep, ServeRegister, Register, StoreConnection, ApplySnapshot, UpdateRevision,
           ServeHeartbeat, SendReply, ServeEnds, RemoveNode, planeVars
  <1>6. /\ \A m \in Nodes \ {d[1]} : nodeConn'[m] = nodeConn[m]
        /\ nodeConn'[d[1]] \in {nodeConn[d[1]], d, None}
    <2>1. CASE ServeEnds(d)
      <3>1. \A m \in Nodes \ {d[1]} : nodeConn[m] # d
        <4>1. ASSUME NEW m \in Nodes \ {d[1]}
              PROVE  nodeConn[m] # d
          <5>1. nodeConn[m] = None \/ nodeConn[m][1] = m
            BY DEF RouteInv, TableInv, TableLive
          <5>2. None # d
            BY DEF Conns
          <5>3. QED
            BY <5>1, <5>2
        <4>2. QED
          BY <4>1
      <3>2. QED
        BY <1>t, <2>1, <3>1 DEF ServeEnds, WithoutConnection
    <2>2. CASE StoreConnection(d)
      BY <1>t, <2>2 DEF StoreConnection
    <2>3. CASE UNCHANGED nodeConn
      BY <2>3
    <2>4. QED
      BY <2>1, <2>2, <2>3 DEF ServeStep, ServeRegister, Register, ApplySnapshot, UpdateRevision,
           ServeHeartbeat, SendReply, planeVars
  <1>7. OpenInv'
    <2>1. CASE UNCHANGED down
      BY <1>1, <2>1 DEF RouteInv, LinkInv, OpenInv, Current
    <2>2. CASE Deliver(d, reply[d])
      BY <1>1, <2>2, DeliverOpen DEF RouteInv, LinkInv
    <2>3. QED
      BY <1>3, <2>1, <2>2
  <1>8. crossed' = crossed \/ Crosses(d)
    BY DEF ServeStep, ServeRegister, Register, StoreConnection, ApplySnapshot, UpdateRevision,
           ServeHeartbeat, SendReply, ServeEnds, planeVars
  <1>9. /\ \A m \in Nodes : m \in crossed => m \in crossed'
        /\ \A m \in Nodes : m # d[1] \/ d = Current(m) => (m \in crossed' <=> m \in crossed)
    BY <1>8 DEF Crosses
  <1>10. QED
    BY <1>1, <1>2, <1>4, <1>5, <1>6, <1>7, <1>9

(* A task that leaves a node uncrossed changes none of its entries once the *)
(* Register of the node's connection is taken up, but for its own cleanup.  *)
LEMMA EarlierChanges ==
    ASSUME RouteInv, NEW d \in Conns, ServeStep(d), d # Current(d[1]), Taken(Current(d[1])),
           d[1] \notin crossed'
    PROVE  /\ UNCHANGED <<snapshots, recorded>>
           /\ nodeConn[d[1]] # d => nodeConn'[d[1]] = nodeConn[d[1]]
  <1>1. ~Crosses(d)
    BY DEF Crosses
  <1>2. CASE ServeEnds(d)
    BY <1>2 DEF ServeEnds, WithoutConnection, RouteInv, TypeInv, PlaneOK, Conns
  <1>3. CASE ApplySnapshot(d)
    BY <1>1, <1>3 DEF ApplySnapshot
  <1>4. CASE ServeHeartbeat(d) \/ SendReply(d)
    BY <1>4 DEF ServeHeartbeat, SendReply, planeVars
  <1>5. QED
    BY <1>1, <1>2, <1>3, <1>4 DEF ServeStep, ServeRegister, Register, StoreConnection, UpdateRevision

(* The task of a connection the node left either crosses the node or finds  *)
(* its Register unread, or leaves what it knows of the node alone.          *)
LEMMA EarlierServes ==
    ASSUME RouteInv, NEW d \in Conns, ServeStep(d), d # Current(d[1])
    PROVE  Link(d[1])'
  <1> DEFINE n == d[1]
             c == Current(n)
  <1>1. /\ UNCHANGED <<npc, used, revision, agents, open>> /\ n \in Nodes /\ c' = c
        /\ Report(n)' = Report(n) /\ (n \in crossed => n \in crossed')
    BY ServeFrame DEF Conns, Current, Report, Message
  <1> SUFFICES ASSUME npc[n] # "connecting"
               PROVE  Link(n)'
    BY <1>1 DEF Link
  <1>2. used[n] \in 1..MaxConns /\ open[c] /\ c = <<n, used[n]>> /\ c \in Conns /\ c # d
    BY DEF RouteInv, LinkInv, Link, TypeInv, NodeOK, Current, Conns
  <1>3. /\ up'[c] = up[c] /\ spc'[c] = spc[c] /\ down'[c] = down[c] /\ handling'[c] = handling[c]
        /\ nodeConn'[n] \in {nodeConn[n], d, None}
    BY <1>2, ServeFrame
  <1>4. up[c] \in Seq(Upward) /\ None # c
    BY <1>2 DEF RouteInv, TypeInv, WireOK, Conns
  <1>5. (AckUnsent(c)' <=> AckUnsent(c)) /\ \A k : Heartbeats(c, k)' <=> Heartbeats(c, k)
    BY <1>1, <1>3 DEF AckUnsent, Heartbeats
  <1>6. ASSUME Taken(c), Uncrossed(n)'
        PROVE  /\ UNCHANGED <<snapshots, recorded>>
               /\ nodeConn[n] = c => nodeConn'[n] = c
    BY <1>2, <1>6, EarlierChanges DEF Uncrossed
  <1> HIDE DEF c
  <1>7. CASE spc[c] = "ended" \/ ~Uncrossed(n)'
    BY <1>1, <1>2, <1>3, <1>7 DEF Link, c
  <1>8. CASE spc[c] # "ended" /\ Uncrossed(n)' /\ npc[n] = "registering"
    <2>1. Registering(n)
      BY <1>1, <1>8 DEF RouteInv, LinkInv, Link, Uncrossed, c
    <2>2. CASE up[c] # <<>>
      <3>1. /\ up[c] = <<Message("register", 0, {})>> /\ spc[c] = "reading" /\ AckUnsent(c)
            /\ nodeConn[n] # c
        BY <2>1, <2>2 DEF Registering, c
      <3>2. Registering(n)'
        BY <1>1, <1>2, <1>3, <1>4, <1>5, <3>1 DEF Registering, c
      <3>3. QED
        BY <1>1, <1>2, <1>3, <1>8, <3>2 DEF Link, c
    <2>3. CASE up[c] = <<>>
      <3>1. spc[c] # "unused" /\ Taken(c)
        BY <2>1, <2>3 DEF Registering, Taken, c
      <3>2. Registering(n)'
        BY <1>1, <1>3, <1>5, <1>6, <1>8, <2>1, <2>3, <3>1 DEF Registering, c
      <3>3. QED
        BY <1>1, <1>2, <1>3, <1>8, <3>2 DEF Link, c
    <2>4. QED
      BY <2>2, <2>3
  <1>9. CASE spc[c] # "ended" /\ Uncrossed(n)' /\ npc[n] # "registering"
    <2>1. Reported(n)
      BY <1>1, <1>9 DEF RouteInv, LinkInv, Link, Uncrossed, c
    <2>2. Taken(c)
      <3>1. spc[c] # "unused"
        BY <2>1 DEF Reported, c
      <3>2. up[c] # <<>> => Head(up[c]) = up[c][1] /\ Len(up[c]) \in Nat /\ Len(up[c]) > 0
        BY <1>4
      <3>3. Report(n).kind = "snapshot"
        BY DEF Report, Message
      <3>4. up[c] # <<>> => up[c][1].kind # "register"
        BY <2>1, <3>2, <3>3 DEF Reported, Heartbeats, c
      <3>5. QED
        BY <3>1, <3>2, <3>4 DEF Taken
    <2>3. Reported(n)'
      BY <1>1, <1>3, <1>5, <1>6, <1>9, <2>1, <2>2 DEF Reported, c
    <2>4. QED
      BY <1>1, <1>2, <1>3, <1>9, <2>3 DEF Link, c
  <1>10. QED
    BY <1>7, <1>8, <1>9

(* Reading leaves the rest of the heartbeats.                               *)
LEMMA TakesBeats ==
    ASSUME TypeInv, NEW c \in Conns, up[c] # <<>>, up' = [up EXCEPT ![c] = Tail(@)],
           Heartbeats(c, 2)
    PROVE  \A i \in 1..Len(up'[c]) : up'[c][i].kind = "heartbeat"
  <1>1. up[c] \in Seq(Upward) /\ up'[c] = Tail(up[c])
    BY DEF TypeInv, WireOK
  <1>2. Len(Tail(up[c])) = Len(up[c]) - 1 /\ \A i \in 1..Len(Tail(up[c])) : Tail(up[c])[i] = up[c][i + 1]
    BY <1>1, HeadTailProperties
  <1>3. Len(up[c]) \in Nat
    BY <1>1
  <1>4. ASSUME NEW i \in 1..Len(Tail(up[c]))
        PROVE  Tail(up[c])[i].kind = "heartbeat"
    <2>1. i + 1 \in 2..Len(up[c]) /\ Tail(up[c])[i] = up[c][i + 1]
      BY <1>2, <1>3
    <2>2. QED
      BY <2>1 DEF Heartbeats
  <1>5. QED
    BY <1>1, <1>4

(* The task of the connection a node holds.                                 *)
LEMMA CurrentServes ==
    ASSUME RouteInv, NEW n \in Nodes, Current(n) \in Conns, npc[n] # "connecting",
           ServeStep(Current(n))
    PROVE  Link(n)'
  <1>0. PICK c \in Conns : c = Current(n)
    OBVIOUS
  <1>1. /\ UNCHANGED <<npc, used, revision, agents, open>> /\ Current(n)' = c
        /\ c[1] = n /\ c[2] = used[n] /\ spc[c] \notin {"unused", "ended"}
    BY <1>0, ServeFrame DEF Current
  <1>2. used[n] \in 1..MaxConns /\ open[c]
    BY <1>0 DEF RouteInv, LinkInv, Link, TypeInv, NodeOK
  <1>u. Uncrossed(n)' <=> Uncrossed(n)
    BY <1>0, <1>1, ServeFrame DEF Uncrossed
  <1> SUFFICES ASSUME Uncrossed(n)
               PROVE  Link(n)'
    BY <1>0, <1>1, <1>2, <1>u DEF Link
  <1>3. IF npc[n] = "registering" THEN Registering(n) ELSE Reported(n)
    BY <1>0, <1>1 DEF RouteInv, LinkInv, Link
  <1>4. Report(n)' = Report(n) /\ Report(n).kind = "snapshot" /\ Report(n).revision = revision[n]
        /\ Report(n).agents = agents[n]
    BY <1>1 DEF Report, Message
  <1>t. /\ spc \in [Conns -> ServeSteps] /\ up \in [Conns -> Seq(Upward)]
        /\ handling \in [Conns -> Upward \cup {None}]
        /\ nodeConn \in [Nodes -> Conns \cup {None}] /\ snapshots \in [Nodes -> Snapshot \cup {None}]
        /\ recorded \in [Nodes -> 0..MaxConns]
    BY DEF RouteInv, TypeInv, ServeOK, WireOK, PlaneOK
  <1>g. ASSUME npc[n] = "registering", Registering(n)'
        PROVE  Link(n)'
    BY <1>1, <1>2, <1>g DEF Link
  <1>p. ASSUME npc[n] # "registering", Reported(n)'
        PROVE  Link(n)'
    BY <1>1, <1>2, <1>p DEF Link
  <1>6. CASE ServeRegister(c)
    <2>1. /\ spc[c] = "reading" /\ up[c] # <<>> /\ Head(up[c]).kind = "register"
          /\ up' = [up EXCEPT ![c] = Tail(@)] /\ snapshots' = [snapshots EXCEPT ![n] = None]
          /\ spc' = [spc EXCEPT ![c] = "registering"] /\ UNCHANGED down
      BY <1>1, <1>6 DEF ServeRegister, Takes, RemoveNode, Serving
    <2>3. Head(up[c]) = up[c][1] /\ Len(up[c]) > 0
      BY <1>t, <2>1
    <2>4. npc[n] = "registering"
      BY <1>0, <1>3, <1>4, <2>1, <2>3 DEF Reported, Heartbeats
    <2>5. up[c] = <<Message("register", 0, {})>> /\ AckUnsent(c)
      BY <1>0, <1>3, <2>1, <2>4 DEF Registering
    <2>6. up'[c] = <<>> /\ snapshots'[n] = None /\ spc'[c] = "registering"
      BY <1>t, <2>1, <2>5
    <2>7. AckUnsent(c)'
      BY <2>1, <2>5 DEF AckUnsent
    <2>8. Registering(n)'
      BY <1>1, <2>6, <2>7 DEF Registering
    <2>9. QED
      BY <1>g, <2>4, <2>8
  <1>7. CASE Register(c)
    <2>1. /\ spc[c] = "registering" /\ spc' = [spc EXCEPT ![c] = "storing"]
          /\ UNCHANGED <<up, down, snapshots>>
      BY <1>7 DEF Register, Serving, wireVars
    <2>2. npc[n] = "registering" /\ up[c] = <<>> /\ snapshots[n] = None /\ AckUnsent(c)
      BY <1>0, <1>3, <2>1 DEF Registering, Reported
    <2>3. AckUnsent(c)' /\ spc'[c] = "storing"
      BY <1>t, <2>1, <2>2 DEF AckUnsent
    <2>4. Registering(n)'
      BY <1>1, <2>1, <2>2, <2>3 DEF Registering
    <2>5. QED
      BY <1>g, <2>2, <2>4
  <1>8. CASE StoreConnection(c)
    <2>1. /\ spc[c] = "storing" /\ spc' = [spc EXCEPT ![c] = "replying"]
          /\ nodeConn' = [nodeConn EXCEPT ![n] = c] /\ UNCHANGED <<up, down, snapshots>>
      BY <1>1, <1>8 DEF StoreConnection, Serving, wireVars
    <2>2. npc[n] = "registering" /\ up[c] = <<>> /\ snapshots[n] = None /\ AckUnsent(c)
      BY <1>0, <1>3, <2>1 DEF Registering, Reported
    <2>3. AckUnsent(c)' /\ spc'[c] = "replying" /\ nodeConn'[n] = c
      BY <1>t, <2>1, <2>2 DEF AckUnsent
    <2>4. Registering(n)'
      BY <1>1, <2>1, <2>2, <2>3 DEF Registering
    <2>5. QED
      BY <1>g, <2>2, <2>4
  <1>9. CASE ApplySnapshot(c)
    <2>1. /\ spc[c] = "reading" /\ up[c] # <<>> /\ Head(up[c]).kind = "snapshot"
          /\ up' = [up EXCEPT ![c] = Tail(@)] /\ handling' = [handling EXCEPT ![c] = Head(up[c])]
          /\ UNCHANGED <<recorded, nodeConn>>
      BY <1>9 DEF ApplySnapshot, Takes
    <2>2. Head(up[c]) = up[c][1] /\ Len(up[c]) > 0
      BY <1>t, <2>1
    <2>3. npc[n] # "registering"
      BY <1>0, <1>3, <2>1, <2>2 DEF Registering, Message
    <2>4. /\ nodeConn[n] = c /\ up[c][1] = Report(n) /\ Heartbeats(c, 2)
          /\ snapshots[n] = None
      BY <1>0, <1>3, <2>1, <2>2, <2>3 DEF Reported, Heartbeats
    <2>5. ~Stale(n, Head(up[c]).revision)
      BY <2>4 DEF Stale
    <2>6. /\ snapshots' = [snapshots EXCEPT ![n] = [revision |-> revision[n], agents |-> agents[n]]]
          /\ spc' = [spc EXCEPT ![c] = "recording"]
      BY <1>1, <1>4, <1>9, <2>2, <2>4, <2>5 DEF ApplySnapshot, Serving
    <2>7. /\ snapshots'[n] = [revision |-> revision[n], agents |-> agents[n]]
          /\ spc'[c] = "recording" /\ handling'[c].revision = revision[n] /\ nodeConn'[n] = c
      BY <1>4, <1>t, <2>1, <2>2, <2>4, <2>6
    <2>8. Heartbeats(c, 1)'
      BY <2>1, <2>4, TakesBeats DEF Heartbeats, RouteInv
    <2>9. Reported(n)'
      BY <1>1, <2>4, <2>7, <2>8 DEF Reported
    <2>10. QED
      BY <1>p, <2>3, <2>9
  <1>10. CASE UpdateRevision(c)
    <2>1. /\ spc[c] = "recording" /\ spc' = [spc EXCEPT ![c] = "replying"]
          /\ recorded' = [recorded EXCEPT ![n] = handling[c].revision]
          /\ UNCHANGED <<up, nodeConn, snapshots>>
      BY <1>1, <1>10 DEF UpdateRevision, Serving, wireVars
    <2>2. /\ npc[n] # "registering" /\ nodeConn[n] = c /\ Heartbeats(c, 1)
          /\ snapshots[n] = [revision |-> revision[n], agents |-> agents[n]]
          /\ handling[c].revision = revision[n]
      BY <1>0, <1>3, <2>1 DEF Registering, Reported
    <2>3. Heartbeats(c, 1)' /\ spc'[c] = "replying" /\ recorded'[n] = revision[n]
      BY <1>t, <2>1, <2>2 DEF Heartbeats
    <2>4. Reported(n)'
      BY <1>1, <2>1, <2>2, <2>3 DEF Reported
    <2>5. QED
      BY <1>p, <2>2, <2>4
  <1>11. CASE ServeHeartbeat(c)
    <2>1. /\ spc[c] = "reading" /\ up[c] # <<>> /\ Head(up[c]).kind = "heartbeat"
          /\ up' = [up EXCEPT ![c] = Tail(@)] /\ spc' = [spc EXCEPT ![c] = "replying"]
          /\ UNCHANGED <<recorded, nodeConn, snapshots>>
      BY <1>11 DEF ServeHeartbeat, Takes, Serving, planeVars
    <2>2. Head(up[c]) = up[c][1] /\ Len(up[c]) > 0
      BY <1>t, <2>1
    <2>3. npc[n] # "registering"
      BY <1>0, <1>3, <2>1, <2>2 DEF Registering, Message
    <2>4. /\ nodeConn[n] = c /\ Heartbeats(c, 1) /\ recorded[n] = revision[n]
          /\ snapshots[n] = [revision |-> revision[n], agents |-> agents[n]]
      BY <1>0, <1>3, <1>4, <2>1, <2>2, <2>3 DEF Reported
    <2>5. Heartbeats(c, 2)
      BY <2>4 DEF Heartbeats
    <2>6. Heartbeats(c, 1)' /\ spc'[c] = "replying"
      BY <1>t, <2>1, <2>5, TakesBeats DEF Heartbeats, RouteInv
    <2>7. Reported(n)'
      BY <1>1, <2>1, <2>4, <2>6 DEF Reported
    <2>8. QED
      BY <1>p, <2>3, <2>7
  <1>12. CASE SendReply(c)
    <2>1. /\ spc[c] = "replying" /\ spc' = [spc EXCEPT ![c] = "reading"]
          /\ UNCHANGED <<up, recorded, nodeConn, snapshots>>
      BY <1>12 DEF SendReply, Serving, planeVars
    <2>2. spc'[c] = "reading"
      BY <1>t, <2>1
    <2>3. CASE npc[n] = "registering"
      <3>1. up[c] = <<>> /\ snapshots[n] = None /\ nodeConn[n] = c
        BY <1>0, <1>3, <2>1, <2>3 DEF Registering
      <3>2. Registering(n)'
        BY <1>1, <2>1, <2>2, <3>1 DEF Registering
      <3>3. QED
        BY <1>g, <2>3, <3>2
    <2>4. CASE npc[n] # "registering"
      <3>1. /\ nodeConn[n] = c /\ Heartbeats(c, 1) /\ recorded[n] = revision[n]
            /\ snapshots[n] = [revision |-> revision[n], agents |-> agents[n]]
        BY <1>0, <1>3, <2>1, <2>4 DEF Reported
      <3>2. Heartbeats(c, 1)'
        BY <2>1, <3>1 DEF Heartbeats
      <3>3. Reported(n)'
        BY <1>1, <2>1, <2>2, <3>1, <3>2 DEF Reported
      <3>4. QED
        BY <1>p, <2>4, <3>3
    <2>5. QED
      BY <2>3, <2>4
  <1>13. CASE ServeEnds(c)
    BY <1>2, <1>13 DEF ServeEnds
  <1>14. QED
    BY <1>0, <1>6, <1>7, <1>8, <1>9, <1>10, <1>11, <1>12, <1>13 DEF ServeStep

(* Every step of a serving task keeps LinkInv.                              *)
LEMMA ServeLink ==
    ASSUME RouteInv, NEW d \in Conns, ServeStep(d)
    PROVE  LinkInv'
  <1>1. d[1] \in Nodes /\ d = <<d[1], d[2]>>
    BY DEF Conns
  <1>2. ASSUME NEW m \in Nodes \ {d[1]}
        PROVE  Link(m)'
    <2>1. \A k \in 1..MaxConns : <<m, k>> \in Conns \ {d}
      BY <1>1 DEF Conns
    <2>2. Untouched(m)
      BY <2>1, ServeFrame DEF Untouched, AckUnsent
    <2>3. QED
      BY <2>2, LinkFrame DEF RouteInv, LinkInv
  <1>3. Link(d[1])'
    <2>1. CASE d # Current(d[1])
      BY <2>1, EarlierServes
    <2>2. CASE d = Current(d[1]) /\ npc[d[1]] # "connecting"
      <3>1. PICK n \in Nodes : n = d[1]
        BY <1>1
      <3>2. Link(n)'
        BY <2>2, <3>1, CurrentServes
      <3>3. QED
        BY <3>1, <3>2
    <2>3. CASE npc[d[1]] = "connecting"
      BY <2>3, ServeFrame DEF Link
    <2>4. QED
      BY <2>1, <2>2, <2>3
  <1>4. QED
    BY <1>2, <1>3, ServeFrame DEF LinkInv

(* Every step keeps LinkInv.                                                *)
LEMMA LinkStep ==
    RouteInv /\ [Next]_vars => LinkInv'
  <1> SUFFICES ASSUME RouteInv, [Next]_vars
               PROVE  LinkInv'
    OBVIOUS
  <1>f. ASSUME \A n \in Nodes : Untouched(n), OpenInv'
        PROVE  LinkInv'
    BY <1>f, LinkFrame DEF RouteInv, LinkInv
  <1>u. ASSUME UNCHANGED <<nodeVars, up, open, serveVars, snapshots, recorded, nodeConn, crossed>>,
               \A c \in Conns : AckUnsent(c) => AckUnsent(c)'
        PROVE  \A n \in Nodes : Untouched(n)
    <2>1. ASSUME NEW n \in Nodes, NEW k \in 1..MaxConns
          PROVE  AckUnsent(<<n, k>>) => AckUnsent(<<n, k>>)'
      BY <1>u DEF Conns
    <2>2. QED
      BY <1>u, <2>1 DEF Untouched, nodeVars, serveVars
  <1>d. ASSUME NEW d \in Conns, NEW m \in {"ping", "submit"}, Deliver(d, m),
               UNCHANGED <<nodeVars, up, open, serveVars, snapshots, recorded, nodeConn, crossed>>
        PROVE  LinkInv'
    <2>1. OpenInv'
      BY <1>d, DeliverOpen DEF RouteInv, LinkInv, nodeVars
    <2>2. \A c \in Conns : AckUnsent(c) => AckUnsent(c)'
      BY <1>d, DeliverUnsent DEF RouteInv, Downward
    <2>3. QED
      BY <1>d, <1>f, <1>u, <2>1, <2>2
  <1>s. ASSUME UNCHANGED <<nodeVars, wireVars, serveVars, snapshots, recorded, nodeConn, crossed>>
        PROVE  LinkInv'
    <2>1. OpenInv'
      BY <1>s DEF RouteInv, LinkInv, OpenInv, Current, nodeVars, wireVars
    <2>2. \A c \in Conns : AckUnsent(c) => AckUnsent(c)'
      BY <1>s DEF AckUnsent, wireVars
    <2>3. QED
      BY <1>f, <1>s, <1>u, <2>1, <2>2 DEF wireVars
  <1>1. ASSUME NEW n \in Nodes, NodeStep(n) \/ Timeout(n) \/ NodeRestart(n)
        PROVE  LinkInv'
    BY <1>1, NodeLink
  <1>2. ASSUME NEW c \in Conns, ServeStep(c)
        PROVE  LinkInv'
    BY <1>2, ServeLink
  <1>3. ASSUME NEW c \in Conns, Keepalive(c)
        PROVE  LinkInv'
    BY <1>3, <1>d DEF Keepalive, planeVars
  <1>4. CASE ControlRestart
    <2>1. /\ UNCHANGED <<npc, used, open, down>>
          /\ \A c \in Conns : spc'[c] = IF spc[c] = "unused" THEN "unused" ELSE "ended"
      BY <1>4 DEF ControlRestart, nodeVars
    <2>2. OpenInv'
      BY <2>1 DEF RouteInv, LinkInv, OpenInv, Current
    <2>3. ASSUME NEW n \in Nodes, npc[n] # "connecting"
          PROVE  used[n] > 0 /\ open[Current(n)] /\ spc'[Current(n)] = "ended"
      <3>1. used[n] > 0 /\ open[Current(n)] /\ used[n] \in 1..MaxConns /\ Current(n) = <<n, used[n]>>
        BY <2>3 DEF RouteInv, LinkInv, Link, TypeInv, NodeOK, Current
      <3>2. spc[Current(n)] # "unused" /\ Current(n) \in Conns
        BY <3>1 DEF RouteInv, TableInv, Opened, Conns
      <3>3. QED
        BY <2>1, <3>1, <3>2
    <2>4. \A n \in Nodes : Link(n)'
      BY <2>1, <2>3 DEF Link, Current
    <2>5. QED
      BY <2>2, <2>4 DEF LinkInv
  <1>5. ASSUME NEW s \in Submits, Forward(s)
        PROVE  LinkInv'
    <2>1. UNCHANGED <<nodeVars, up, open, serveVars, snapshots, recorded, nodeConn, crossed>>
      BY <1>5 DEF Forward, planeVars
    <2>2. CASE UNCHANGED down
      BY <1>s, <2>1, <2>2 DEF wireVars
    <2>3. CASE Deliver(nodeConn[via[s]], "submit") /\ down' # down
      <3>1. nodeConn[via[s]] \in Conns
        BY <2>3 DEF Deliver, RouteInv, TypeInv, WireOK
      <3>2. QED
        BY <1>d, <2>1, <2>3, <3>1
    <2>4. QED
      BY <1>5, <2>2, <2>3 DEF Forward
  <1>6. ASSUME NEW s \in Submits, NEW t \in Agents, RouteAgent(s, t)
        PROVE  LinkInv'
    BY <1>6, <1>s DEF RouteAgent, planeVars
  <1>7. CASE UNCHANGED vars
    BY <1>7, <1>s DEF vars, planeVars
  <1>8. QED
    BY <1>1, <1>2, <1>3, <1>4, <1>5, <1>6, <1>7 DEF Next

(* No node has connected: nothing is open, nothing in flight.               *)
LEMMA LinkInit == Init => LinkInv
  <1> SUFFICES ASSUME Init
               PROVE  LinkInv
    OBVIOUS
  <1>1. OpenInv
    BY DEF Init, OpenInv
  <1>2. \A n \in Nodes : Link(n)
    BY DEF Init, Link
  <1>3. QED
    BY <1>1, <1>2 DEF LinkInv

(* A node whose reported connection has nothing unread is linked.           *)
LEMMA QuietLinked ==
    ASSUME RouteInv, NEW n \in Nodes, Quiet(n), Uncrossed(n)
    PROVE  Linked(n)
  <1>1. /\ npc[n] = "idle" /\ up[Current(n)] = <<>> /\ spc[Current(n)] = "reading"
    BY DEF Quiet
  <1>2. Reported(n)
    BY <1>1 DEF RouteInv, LinkInv, Link
  <1>3. QED
    BY <1>1, <1>2 DEF Reported, Linked

(* A node whose live connection is in the table has no snapshot or its own. *)
LEMMA LiveHosts ==
    ASSUME RouteInv, NEW n \in Nodes,
           nodeConn[n] = Current(n), open[Current(n)], snapshots[n] # None,
           Uncrossed(n)
    PROVE  snapshots[n].agents = agents[n]
  <1>1. nodeConn[n] # None
    <2>1. used[n] \in Nat
      BY DEF RouteInv, TypeInv, NodeOK
    <2>2. QED
      BY <2>1 DEF Current
  <1>2. /\ Current(n) \in Conns /\ spc[Current(n)] # "ended"
    BY <1>1 DEF RouteInv, TableInv, TableLive
  <1>3. npc[n] # "connecting"
    BY <1>2 DEF RouteInv, LinkInv, OpenInv, Current
  <1>4. IF npc[n] = "registering" THEN Registering(n) ELSE Reported(n)
    BY <1>2, <1>3 DEF RouteInv, LinkInv, Link
  <1>5. npc[n] # "registering" /\ Reported(n)
    BY <1>4 DEF Registering
  <1>6. snapshots[n] = [revision |-> revision[n], agents |-> agents[n]]
    BY <1>5 DEF Reported
  <1>7. QED
    BY <1>6

(* What holds of every node's route.                                        *)
LEMMA RouteHolds ==
    Spec => []RouteInv
  <1>1. Init => RouteInv
    BY TypeInit, TableInit, LinkInit DEF RouteInv
  <1>2. RouteInv /\ [Next]_vars => RouteInv'
    <2> SUFFICES ASSUME RouteInv, [Next]_vars
                 PROVE  RouteInv'
      OBVIOUS
    <2>1. TypeInv'
      BY TypeStep DEF RouteInv
    <2>2. TableInv'
      BY TableStep DEF RouteInv
    <2>3. LinkInv'
      BY LinkStep
    <2>4. QED
      BY <2>1, <2>2, <2>3 DEF RouteInv
  <1>3. QED
    BY <1>1, <1>2, PTL DEF Spec

(* Once a node has registered and reported and all it sent is handled, the  *)
(* control plane holds its current connection, revision and agents, for any *)
(* number of nodes, reconnections and restarts on either side, however late *)
(* the tasks of its earlier connections end, unless one of them changed the *)
(* node's entries after the Register was taken up.                          *)
THEOREM SettledNodesRoutableHolds == Spec => []SettledNodesRoutable
  <1>1. RouteInv => SettledNodesRoutable
    BY QuietLinked DEF SettledNodesRoutable
  <1>2. QED
    BY <1>1, RouteHolds, PTL

(* With the same exception route_agent never sends a submit over a node's   *)
(* live connection on the word of the node's earlier process: a new         *)
(* registration has removed that snapshot first.                            *)
THEOREM RoutesToHostsHolds == Spec => []RoutesToHosts
  <1>1. RouteInv => RoutesToHosts
    BY LiveHosts DEF RoutesToHosts
  <1>2. QED
    BY <1>1, RouteHolds, PTL
=============================================================================
