\* Two runs in one session the database knows, two compressions, two seconds,
\* one fault; a tail of two lines.
CONSTANTS
    Runs = {r1, r2}
    Instances = {i1}
    MaxMessages = 2
    MaxCompress = 2
    MaxTime = 2
    MaxFaults = 1
    KeepFirst = 1
    SampleEvery = 2
    Images = {2}
    TailLines = 2
    Resumed = TRUE
    None = None
SPECIFICATION Spec
SYMMETRY Symmetric
INVARIANTS TailHoldsLatest AckedReadable CompressionKeeps LogOK BindingsKept
CHECK_DEADLOCK FALSE
