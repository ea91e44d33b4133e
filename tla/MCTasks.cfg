\* Two workers, two ids, a board that starts with none or two tasks, three
\* operations, one crash.
CONSTANTS
    Workers = {w1, w2}
    MaxTasks = 2
    Starting = {0, 2}
    MaxOps = 3
    MaxCrashes = 1
    Nobody = Nobody
    NoFile = NoFile
    Empty = Empty
    Garbage = Garbage
SPECIFICATION Spec
SYMMETRY Symmetric
INVARIANTS BoardOK ExclusiveClaims
PROPERTIES DependenciesFirst
CHECK_DEADLOCK FALSE
