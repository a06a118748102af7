\* The client closes with a part of a request sent.
SPECIFICATION FairSpec
CONSTANTS
    Freed = Freed
    BufferLen = 4
    ReqLen = 5
    RespLen = 3
    SizeT = 8
    Early = {0, 2}
    MaxReq = 1
    Window = 1
    Bursts = FALSE
    Backpressure = FALSE
INVARIANTS BufferThere
CHECK_DEADLOCK FALSE
