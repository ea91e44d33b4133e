\* Two requests and three reconnect attempts, hence four sockets.
CONSTANTS
    Requests = {r1, r2}
    MaxAttempts = 3
SPECIFICATION WebFairSpec
INVARIANTS ClientOK ServedOnce
PROPERTIES CallbacksCalled ReconnectSettles
CHECK_DEADLOCK FALSE
