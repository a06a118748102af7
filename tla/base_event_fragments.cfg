\* The segments of a request may arrive so far apart that read() finds nothing
\* in between.
SPECIFICATION FairSpec
CONSTANTS
    Freed = Freed
    BufferLen = 4
    ReqLen = 5
    RespLen = 3
    SizeT = 8
    Early = {0, 2}
    MaxReq = 1
    Window = 1
    Bursts = FALSE
    Backpressure = FALSE
INVARIANTS TextKept
CHECK_DEADLOCK FALSE
