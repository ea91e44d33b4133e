---------------------------- MODULE ControlPlane ----------------------------
(***************************************************************************)
(* The control plane and the data-plane nodes connected to it: each node's  *)
(* connector task (connect, register, report, heartbeat, reconnect), the    *)
(* control plane's task per connection, its node registry, capability index *)
(* and connection table, and the clients' agent.submit routed through them. *)
(*                                                                          *)
(* A connection is <<n, k>>, the k-th one of node n. Both directions are    *)
(* FIFO; what the control plane has not read when the node drops its end    *)
(* may be delivered or lost. The registry's identity check is left out:     *)
(* the codec sets every remote sender to "client", so it never refuses.     *)
(***************************************************************************)
EXTENDS Naturals, Sequences, FiniteSets

CONSTANTS
    Nodes,        \* node ids
    Agents,       \* agent ids a node may offer
    Submits,      \* the agent.submit messages clients may send
    MaxConns,     \* bound: connections one node opens
    MaxUnread,    \* bound: unread messages for which a node still heartbeats
    MaxRestarts,  \* bound: restarts of the control plane
    None          \* absent value

ASSUME ControlAssumption ==
    /\ MaxConns \in Nat /\ MaxUnread \in Nat /\ MaxRestarts \in Nat
    /\ None \notin Nodes /\ None \notin Nodes \X Nat

VARIABLES
    npc,         \* where the connector of a node is
    used,        \* connections the node has opened
    revision,    \* the connector's snapshot revision
    agents,      \* the agents the node's process has
    up, down,    \* messages in flight on a connection, to and from the control plane
    open,        \* whether the node holds its end of a connection
    spc,         \* where the serving task of a connection is
    handling,    \* the message it handles
    reply,       \* the reply it is about to send
    generation,  \* NodeAuth.generation, 0 when the node has no record
    recorded,    \* NodeRecord.capability_revision
    snapshots,   \* CapabilityIndex.snapshots
    nodeConn,    \* ControlPlaneState.node_connections
    crossed,     \* history: nodes whose entries an earlier connection changed after the
                 \* Register of the present one was taken up
    cpc,         \* where an agent.submit is
    via,         \* the node it was routed to
    restarts     \* restarts of the control plane so far

nodeVars == <<npc, used, revision, agents>>
wireVars == <<up, down, open>>
serveVars == <<spc, handling, reply>>
planeVars == <<generation, recorded, snapshots, nodeConn, crossed>>
clientVars == <<cpc, via>>
vars == <<nodeVars, wireVars, serveVars, planeVars, clientVars, restarts>>

-----------------------------------------------------------------------------
Conns == Nodes \X (1..MaxConns)

Upward == [kind : {"register", "snapshot", "heartbeat"},
           revision : 0..MaxConns, agents : SUBSET Agents]

Downward == {"register_ack", "snapshot_ack", "heartbeat_ack", "error", "submit", "ping"}

Snapshot == [revision : 0..MaxConns, agents : SUBSET Agents]

NodeSteps == {"connecting", "registering", "reporting", "idle", "beating"}

ServeSteps == {"unused", "reading", "registering", "storing", "recording", "replying", "ended"}

Message(kind, rev, as) == [kind |-> kind, revision |-> rev, agents |-> as]

Current(n) == <<n, used[n]>>

Init ==
    /\ npc = [n \in Nodes |-> "connecting"]
    /\ used = [n \in Nodes |-> 0]
    /\ revision = [n \in Nodes |-> 0]
    /\ agents \in [Nodes -> SUBSET Agents]
    /\ up = [c \in Conns |-> <<>>]
    /\ down = [c \in Conns |-> <<>>]
    /\ open = [c \in Conns |-> FALSE]
    /\ spc = [c \in Conns |-> "unused"]
    /\ handling = [c \in Conns |-> None]
    /\ reply = [c \in Conns |-> "none"]
    /\ generation = [n \in Nodes |-> 0]
    /\ recorded = [n \in Nodes |-> 0]
    /\ snapshots = [n \in Nodes |-> None]
    /\ nodeConn = [n \in Nodes |-> None]
    /\ crossed = {}
    /\ cpc = [s \in Submits |-> "unsent"]
    /\ via = [s \in Submits |-> None]
    /\ restarts = 0

-----------------------------------------------------------------------------
(* The connector of a node.                                                 *)

Goes(n, where) == npc' = [npc EXCEPT ![n] = where] /\ UNCHANGED <<used, revision, agents>>

Sends(n, m) == up' = [up EXCEPT ![Current(n)] = Append(@, m)]

Reads(n) == down' = [down EXCEPT ![Current(n)] = Tail(@)]

Connect(n) ==
    /\ npc[n] = "connecting"
    /\ used[n] < MaxConns
    /\ used' = [used EXCEPT ![n] = @ + 1]
    /\ revision' = [revision EXCEPT ![n] = @ + 1]
    /\ npc' = [npc EXCEPT ![n] = "registering"]
    /\ crossed' = crossed \ {n}
    /\ LET c == <<n, used[n] + 1>>
       IN  /\ open' = [open EXCEPT ![c] = TRUE]
           /\ up' = [up EXCEPT ![c] = <<Message("register", 0, {})>>]
           /\ spc' = [spc EXCEPT ![c] = "reading"]
    /\ UNCHANGED <<agents, down, handling, reply, generation, recorded, snapshots, nodeConn,
                   clientVars, restarts>>

(* The node drops its end: some of what it sent last may be lost.           *)
DropEnd(n) ==
    /\ open' = [open EXCEPT ![Current(n)] = FALSE]
    /\ \E k \in 0..Len(up[Current(n)]) :
          /\ spc[Current(n)] = "ended" => k = 0
          /\ up' = [up EXCEPT ![Current(n)] = SubSeq(@, 1, k)]
    /\ down' = [down EXCEPT ![Current(n)] = <<>>]

Drop(n) == DropEnd(n) /\ Goes(n, "connecting")

Report(n) == Message("snapshot", revision[n], agents[n])

(* Only the RegisterAck will do as first frame.                             *)
RegisterReply(n) ==
    /\ npc[n] = "registering"
    /\ down[Current(n)] # <<>>
    /\ IF Head(down[Current(n)]) = "register_ack"
       THEN /\ Reads(n)
            /\ Sends(n, Report(n))
            /\ Goes(n, "reporting")
            /\ UNCHANGED open
       ELSE Drop(n)
    /\ UNCHANGED <<serveVars, planeVars, clientVars, restarts>>

(* Any frame, and even the timeout, will do as CapabilitySnapshotAck.       *)
ReportReply(n) ==
    /\ npc[n] = "reporting"
    /\ down[Current(n)] # <<>>
    /\ Reads(n)
    /\ Goes(n, "idle")
    /\ UNCHANGED <<up, open, serveVars, planeVars, clientVars, restarts>>

Heartbeat(n) ==
    /\ npc[n] = "idle"
    /\ Len(up[Current(n)]) < MaxUnread
    /\ Sends(n, Message("heartbeat", 0, {}))
    /\ Goes(n, "beating")
    /\ UNCHANGED <<down, open, serveVars, planeVars, clientVars, restarts>>

(* Any text frame will do as HeartbeatAck; a ping counts as a failure.      *)
HeartbeatReply(n) ==
    /\ npc[n] = "beating"
    /\ down[Current(n)] # <<>>
    /\ IF Head(down[Current(n)]) = "ping"
       THEN Drop(n)
       ELSE Reads(n) /\ Goes(n, "idle") /\ UNCHANGED <<up, open>>
    /\ UNCHANGED <<serveVars, planeVars, clientVars, restarts>>

(* Between heartbeats every frame is read and ignored.                      *)
Ignore(n) ==
    /\ npc[n] = "idle"
    /\ down[Current(n)] # <<>>
    /\ Reads(n)
    /\ UNCHANGED <<nodeVars, up, open, serveVars, planeVars, clientVars, restarts>>

(* The control plane has ended the connection.                              *)
SeesCloseWhenIdle(n) ==   \* mutant
    /\ npc[n] = "idle"
    /\ spc[Current(n)] = "ended"
    /\ down[Current(n)] = <<>>
    /\ Drop(n)
    /\ UNCHANGED <<serveVars, planeVars, clientVars, restarts>>

SeesClose(n) ==
    /\ npc[n] # "connecting"
    /\ spc[Current(n)] = "ended"
    /\ down[Current(n)] = <<>>
    /\ Drop(n)
    /\ UNCHANGED <<serveVars, planeVars, clientVars, restarts>>

Timeout(n) ==
    /\ \/ npc[n] \in {"registering", "beating"} /\ used[n] < MaxConns /\ Drop(n)
       \/ npc[n] = "reporting" /\ Goes(n, "idle") /\ UNCHANGED wireVars
    /\ UNCHANGED <<serveVars, planeVars, clientVars, restarts>>

(* The node's process restarts, its configuration possibly changed.         *)
NodeRestart(n) ==
    /\ npc[n] # "connecting"
    /\ used[n] < MaxConns
    /\ DropEnd(n)
    /\ npc' = [npc EXCEPT ![n] = "connecting"]
    /\ revision' = [revision EXCEPT ![n] = 0]
    /\ \E as \in SUBSET Agents : agents' = [agents EXCEPT ![n] = as]
    /\ UNCHANGED <<used, serveVars, planeVars, clientVars, restarts>>

-----------------------------------------------------------------------------
(* The task that serves connection c.                                       *)

Deliver(c, m) == down' = IF open[c] THEN [down EXCEPT ![c] = Append(@, m)] ELSE down

(* The Register of connection d has been taken up.                          *)
Taken(d) == spc[d] # "unused" /\ (up[d] = <<>> \/ Head(up[d]).kind # "register")

(* The task of c changes the node's entries, whatever later connections of  *)
(* the node have done: nothing orders the tasks of two connections.         *)
Crosses(c) ==
    crossed' = crossed \cup {n \in {c[1]} : c # Current(n) /\ Taken(Current(n))}

Takes(c, kind) ==
    /\ spc[c] = "reading"
    /\ up[c] # <<>>
    /\ Head(up[c]).kind = kind
    /\ up' = [up EXCEPT ![c] = Tail(@)]
    /\ handling' = [handling EXCEPT ![c] = Head(up[c])]

Serving(c, where, r) ==
    /\ spc' = [spc EXCEPT ![c] = where]
    /\ reply' = [reply EXCEPT ![c] = r]

KeepSnapshot(n) == UNCHANGED snapshots   \* mutant

RemoveNode(n) == snapshots' = [snapshots EXCEPT ![n] = None]

ServeRegister(c) ==
    /\ Takes(c, "register")
    /\ RemoveNode(c[1])
    /\ Crosses(c)
    /\ Serving(c, "registering", "none")
    /\ UNCHANGED <<nodeVars, down, open, generation, recorded, nodeConn, clientVars, restarts>>

Register(c) ==
    /\ spc[c] = "registering"
    /\ generation' = [generation EXCEPT ![c[1]] = @ + 1]
    /\ recorded' = [recorded EXCEPT ![c[1]] = 0]
    /\ Crosses(c)
    /\ Serving(c, "storing", "none")
    /\ UNCHANGED <<nodeVars, wireVars, handling, snapshots, nodeConn, clientVars, restarts>>

(* The connection is stored before the RegisterAck is sent.                 *)
StoreConnection(c) ==
    /\ spc[c] = "storing"
    /\ nodeConn' = [nodeConn EXCEPT ![c[1]] = c]
    /\ Crosses(c)
    /\ Serving(c, "replying", "register_ack")
    /\ UNCHANGED <<nodeVars, wireVars, handling, generation, recorded, snapshots, clientVars,
                   restarts>>

Stale(n, rev) == snapshots[n] # None /\ rev <= snapshots[n].revision

ApplySnapshot(c) ==
    /\ Takes(c, "snapshot")
    /\ LET n == c[1]
           m == Head(up[c])
       IN  IF Stale(n, m.revision)
           THEN Serving(c, "replying", "error") /\ UNCHANGED <<snapshots, crossed>>
           ELSE /\ snapshots' = [snapshots EXCEPT
                                    ![n] = [revision |-> m.revision, agents |-> m.agents]]
                /\ Crosses(c)
                /\ Serving(c, "recording", "none")
    /\ UNCHANGED <<nodeVars, down, open, generation, recorded, nodeConn, clientVars, restarts>>

UpdateRevision(c) ==
    /\ spc[c] = "recording"
    /\ recorded' = [recorded EXCEPT ![c[1]] = handling[c].revision]
    /\ Crosses(c)
    /\ Serving(c, "replying", "snapshot_ack")
    /\ UNCHANGED <<nodeVars, wireVars, handling, generation, snapshots, nodeConn, clientVars,
                   restarts>>

ServeHeartbeat(c) ==
    /\ Takes(c, "heartbeat")
    /\ Serving(c, "replying", "heartbeat_ack")
    /\ UNCHANGED <<nodeVars, down, open, planeVars, clientVars, restarts>>

SendReply(c) ==
    /\ spc[c] = "replying"
    /\ Deliver(c, reply[c])
    /\ Serving(c, "reading", "none")
    /\ handling' = [handling EXCEPT ![c] = None]
    /\ UNCHANGED <<nodeVars, up, open, planeVars, clientVars, restarts>>

KeepEntries(c) == nodeConn   \* mutant

WithoutConnection(c) == [n \in Nodes |-> IF nodeConn[n] = c THEN None ELSE nodeConn[n]]

ServeEnds(c) ==
    /\ spc[c] = "reading"
    /\ ~open[c] /\ up[c] = <<>>
    /\ spc' = [spc EXCEPT ![c] = "ended"]
    /\ nodeConn' = WithoutConnection(c)
    /\ UNCHANGED <<nodeVars, wireVars, handling, reply, generation, recorded, snapshots, crossed,
                   clientVars, restarts>>

(* The keep-alive task of the connection; at most one unread ping.          *)
Keepalive(c) ==
    /\ spc[c] \notin {"unused", "ended"}
    /\ open[c]
    /\ c[2] < MaxConns
    /\ \A i \in 1..Len(down[c]) : down[c][i] # "ping"
    /\ Deliver(c, "ping")
    /\ UNCHANGED <<nodeVars, up, open, serveVars, planeVars, clientVars, restarts>>

ControlRestart ==
    /\ restarts < MaxRestarts
    /\ restarts' = restarts + 1
    /\ spc' = [c \in Conns |-> IF spc[c] = "unused" THEN "unused" ELSE "ended"]
    /\ handling' = [c \in Conns |-> None]
    /\ reply' = [c \in Conns |-> "none"]
    /\ generation' = [n \in Nodes |-> 0]
    /\ recorded' = [n \in Nodes |-> 0]
    /\ snapshots' = [n \in Nodes |-> None]
    /\ nodeConn' = [n \in Nodes |-> None]
    /\ up' = [c \in Conns |-> <<>>]
    /\ cpc' = [s \in Submits |-> IF cpc[s] = "routed" THEN "over" ELSE cpc[s]]
    /\ UNCHANGED <<nodeVars, down, open, crossed, via>>

-----------------------------------------------------------------------------
(* agent.submit of a client.                                                *)

Candidates(t) ==
    {n \in Nodes : generation[n] > 0 /\ snapshots[n] # None /\ t \in snapshots[n].agents}

RouteAgent(s, t) ==
    /\ cpc[s] = "unsent"
    /\ \/ \E n \in Candidates(t) :
             /\ via' = [via EXCEPT ![s] = n]
             /\ cpc' = [cpc EXCEPT ![s] = "routed"]
       \/ /\ Candidates(t) = {}
          /\ cpc' = [cpc EXCEPT ![s] = "over"]
          /\ UNCHANGED via
    /\ UNCHANGED <<nodeVars, wireVars, serveVars, planeVars, restarts>>

(* Without a connection the client is told so; a failed send is only        *)
(* logged, and the client is told accepted = true.                          *)
Forward(s) ==
    /\ cpc[s] = "routed"
    /\ cpc' = [cpc EXCEPT ![s] = "over"]
    /\ via' = [via EXCEPT ![s] = None]
    /\ LET c == nodeConn[via[s]]
       IN  IF c = None THEN UNCHANGED down ELSE Deliver(c, "submit")
    /\ UNCHANGED <<nodeVars, up, open, serveVars, planeVars, restarts>>

-----------------------------------------------------------------------------
NodeStep(n) ==
    \/ Connect(n) \/ RegisterReply(n) \/ ReportReply(n) \/ Heartbeat(n) \/ HeartbeatReply(n)
    \/ Ignore(n) \/ SeesClose(n)

ServeStep(c) ==
    \/ ServeRegister(c) \/ Register(c) \/ StoreConnection(c) \/ ApplySnapshot(c)
    \/ UpdateRevision(c) \/ ServeHeartbeat(c) \/ SendReply(c) \/ ServeEnds(c)

Next ==
    \/ \E n \in Nodes : NodeStep(n) \/ Timeout(n) \/ NodeRestart(n)
    \/ \E c \in Conns : ServeStep(c) \/ Keepalive(c)
    \/ ControlRestart
    \/ \E s \in Submits : Forward(s) \/ \E t \in Agents : RouteAgent(s, t)

Spec == Init /\ [][Next]_vars

(* Every task is polled when it is ready. Timeouts, pings, restarts and     *)
(* submits may happen and need not.                                         *)
Fairness ==
    /\ \A n \in Nodes : WF_vars(NodeStep(n))
    /\ \A c \in Conns : WF_vars(ServeStep(c))
    /\ \A s \in Submits : WF_vars(Forward(s))

FairSpec == Spec /\ Fairness

-----------------------------------------------------------------------------
TypeOK ==
    /\ npc \in [Nodes -> NodeSteps]
    /\ used \in [Nodes -> 0..MaxConns]
    /\ revision \in [Nodes -> 0..MaxConns]
    /\ agents \in [Nodes -> SUBSET Agents]
    /\ up \in [Conns -> Seq(Upward)]
    /\ down \in [Conns -> Seq(Downward)]
    /\ open \in [Conns -> BOOLEAN]
    /\ spc \in [Conns -> ServeSteps]
    /\ handling \in [Conns -> Upward \cup {None}]
    /\ reply \in [Conns -> Downward \cup {"none"}]
    /\ generation \in [Nodes -> Nat]
    /\ recorded \in [Nodes -> 0..MaxConns]
    /\ snapshots \in [Nodes -> Snapshot \cup {None}]
    /\ nodeConn \in [Nodes -> Conns \cup {None}]
    /\ crossed \subseteq Nodes
    /\ cpc \in [Submits -> {"unsent", "routed", "over"}]
    /\ via \in [Submits -> Nodes \cup {None}]
    /\ restarts \in 0..MaxRestarts

(* The connection table names, for a node, a connection of that node whose  *)
(* serving task still runs: no entry outlives its connection.               *)
TableLive ==
    \A n \in Nodes :
        nodeConn[n] # None => /\ nodeConn[n] \in {<<n, k>> : k \in 1..used[n]}
                              /\ spc[nodeConn[n]] \notin {"unused", "ended"}

(* The state has its types and the connection table is live, in whatever    *)
(* order the connections of a node are served.                              *)
TableOK == TypeOK /\ TableLive

Quiet(n) ==
    /\ npc[n] = "idle"
    /\ open[Current(n)]
    /\ up[Current(n)] = <<>>
    /\ spc[Current(n)] = "reading"

Linked(n) ==
    /\ nodeConn[n] = Current(n)
    /\ snapshots[n] = [revision |-> revision[n], agents |-> agents[n]]
    /\ recorded[n] = revision[n]

(* No earlier connection of the node registered, reported or recorded       *)
(* anything after the present one's Register was taken up.                  *)
Uncrossed(n) == n \notin crossed

(* Once a node has registered and reported and all it sent is handled, the  *)
(* control plane has its current connection, revision and agents, although  *)
(* earlier connections may still be served, unless one crossed this one.    *)
SettledNodesRoutable == \A n \in Nodes : Quiet(n) /\ Uncrossed(n) => Linked(n)

(* What is routed over a node's live connection is meant for an agent the   *)
(* node's present process has, whatever an earlier process reported, unless *)
(* a connection of that process crossed this one.                           *)
RoutesToHosts ==
    \A n \in Nodes :
        /\ nodeConn[n] = Current(n) /\ open[Current(n)]
        /\ snapshots[n] # None /\ Uncrossed(n)
        => snapshots[n].agents = agents[n]

(* A node that has yet another connection to make, or the present one still *)
(* open, ends up linked for good: after the last timeout, ping, restart or  *)
(* misread frame it gets through, though its old connections are still to   *)
(* be cleaned up, unless one of them crosses the present one.               *)
OutOfConns(n) == npc[n] = "connecting" /\ used[n] = MaxConns

Recovers == \A n \in Nodes : <>[](Linked(n) \/ OutOfConns(n) \/ ~Uncrossed(n))
=============================================================================
