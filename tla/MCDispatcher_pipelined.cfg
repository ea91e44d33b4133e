\* Three pipelined requests, some with the one run id: every order of push,
\* notify, cancel, pop, run, timeout and status event.
CONSTANTS
    Requests = {r1, r2, r3}
    Sessions = {}
    RunIds = {x1}
    None = None
    Discipline = "pipelined"
SYMMETRY Symmetry
SPECIFICATION Spec
INVARIANTS QueueOK OrphansTimedOut RunningFlagExact StatusTruth
PROPERTIES SerialFIFO
CHECK_DEADLOCK FALSE
