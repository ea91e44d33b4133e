CONSTANTS
    Requests = {r1, r2}
    Sessions = {}
    RunIds = {}
    None = None
    Discipline = "pipelined"
SPECIFICATION FairSpec
PROPERTY QueueDrains
CHECK_DEADLOCK FALSE
