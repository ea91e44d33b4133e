CONSTANTS
    Requests = {r1}
    MaxAttempts = 2
SPECIFICATION WebFairSpec
PROPERTIES LostIsReconnected
CHECK_DEADLOCK FALSE
