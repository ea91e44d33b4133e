CONSTANTS
    Requests = {r1, r2, r3}
    Sessions = {s1, s2}
    RunIds = {}
    None = None
    Discipline = "polling"
SPECIFICATION FairSpec
INVARIANTS RunsInRequestedSession
PROPERTIES Answered
CHECK_DEADLOCK FALSE
