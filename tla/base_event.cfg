\* Requests of five bytes through a buffer of four, responses of three, two
\* requests under way at once.  Requests come in bursts, write() never blocks.
SPECIFICATION FairSpec
CONSTANTS
    Freed = Freed
    BufferLen = 4
    ReqLen = 5
    RespLen = 3
    SizeT = 8
    Early = {0, 2}
    MaxReq = 3
    Window = 2
    Bursts = TRUE
    Backpressure = FALSE
INVARIANTS TypeOK RoomToRead InputKept ExecutedInOrder WireExact WrittenCounted
PROPERTIES TurnEnds
\* The client has sent everything, or closed.
CHECK_DEADLOCK FALSE
