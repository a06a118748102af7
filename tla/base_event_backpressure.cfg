\* The client is slow to read, and the socket's send buffer fills up.
SPECIFICATION FairSpec
CONSTANTS
    Freed = Freed
    BufferLen = 4
    ReqLen = 5
    RespLen = 3
    SizeT = 8
    Early = {0, 2}
    MaxReq = 1
    Window = 1
    Bursts = TRUE
    Backpressure = TRUE
INVARIANTS WrittenCounted
CHECK_DEADLOCK FALSE
