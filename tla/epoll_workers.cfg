\* Two I/O workers; c1 may close and c2 may reset.  Patient clients: each waits
\* for its response, and moves on after the worker has left the write task.
SPECIFICATION FairSpec
CONSTANTS
    c1 = c1
    c2 = c2
    c3 = c3
    w1 = w1
    w2 = w2
    None = None
    ServerFD = 0
    Conns <- FirstTwoConns
    Bad <- Nobody
    Quitters <- FirstConn
    Aborters <- SecondConn
    FDs <- ThreeFDs
    EventsLen = 4
    Workers <- TwoWorkers
    EventIds <- FourEvents
    MaxReq = 2
    Window = 1
    Eager = FALSE
INVARIANTS NothingForgotten GoodClientsKept OneHolder CoreOnly
PROPERTIES ImplementsRequestServer Answered
CHECK_DEADLOCK FALSE
