\* Two iterations of up to two tool calls, the first of them restricted; a
\* broadcast of four events that a slow listener can overrun; panics.
CONSTANTS
    MaxIterations = 2
    MaxCalls = 2
    MaxHistory = 3
    Prior <- Sessions
    Capacity = 4
    Plugins <- OtherThenHitl
    Restricted = {1}
    OnTimeout = "approve"
    MayPanic = TRUE
    None = None
SPECIFICATION FairSpec
INVARIANTS EventsWellFormed HistoryTellsEvents ContextPaired
           ApprovedBeforeExecuted ListenerHeardAll
PROPERTIES ShutsDown
CHECK_DEADLOCK FALSE
