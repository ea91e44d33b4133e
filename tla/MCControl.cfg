\* One node with a connection it gives up and a last one, whose tasks run in any
\* order; a restart of the control plane before each, a submit at any time for each.
CONSTANTS
    Nodes = {n1}
    Agents = {a1}
    Submits = {s1, s2}
    MaxConns = 2
    MaxUnread = 2
    MaxRestarts = 2
    None = None
SPECIFICATION FairSpec
INVARIANTS TableOK RoutesToHosts SettledNodesRoutable
PROPERTIES Recovers
CHECK_DEADLOCK FALSE
