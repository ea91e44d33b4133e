\* Five pieces: two thinking blocks and a text, or two calls with arguments.
CONSTANTS
    Capacity = 2
    MaxPieces = 5
SPECIFICATION FairSpec
INVARIANTS AnswerWhole CallsFaithful BrokenIsError
PROPERTIES StreamSettles
CHECK_DEADLOCK FALSE
