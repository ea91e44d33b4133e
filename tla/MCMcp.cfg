\* Two users of one server, three operations, up to two loops at a time.
CONSTANTS
    Users = {u1, u2}
    Loops = {l1, l2}
    MaxRetries = 2
    MaxOps = 3
SPECIFICATION FairSpec
INVARIANTS LoopsOK ConnectedHasService DeadIsRepaired
PROPERTIES Settles
CHECK_DEADLOCK FALSE
