\* Two callers, two profiles, two directories or hosts they may share, one of
\* them nested; three operations.
CONSTANTS
    Callers = {c1, c2}
    Profiles = {p1, p2}
    Homes = {h1, h2}
    h1 = h1
    h2 = h2
    Base <- MCBase
    Default = Default
    MaxOps = 3
    None = None
SPECIFICATION Spec
SYMMETRY Symmetric
INVARIANTS ScratchOK RightSandbox 
CHECK_DEADLOCK FALSE
