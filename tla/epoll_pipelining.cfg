\* One thread, one connection that sends its second request before it has the
\* response to the first.
SPECIFICATION FairSpec
CONSTANTS
    c1 = c1
    c2 = c2
    c3 = c3
    w1 = w1
    w2 = w2
    None = None
    ServerFD = 0
    Conns <- FirstConn
    Bad <- Nobody
    Quitters <- Nobody
    Aborters <- Nobody
    FDs <- TwoFDs
    EventsLen = 4
    Workers <- NoWorkers
    EventIds <- FourEvents
    MaxReq = 2
    Window = 2
    Eager = TRUE
INVARIANTS NothingForgotten
CHECK_DEADLOCK FALSE
