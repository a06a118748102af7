\* Two I/O workers and clients that send the next request on seeing a response.
SPECIFICATION FairSpec
CONSTANTS
    c1 = c1
    c2 = c2
    c3 = c3
    w1 = w1
    w2 = w2
    None = None
    ServerFD = 0
    Conns <- FirstConn
    Bad <- Nobody
    Quitters <- Nobody
    Aborters <- Nobody
    FDs <- TwoFDs
    EventsLen = 4
    Workers <- TwoWorkers
    EventIds <- FourEvents
    MaxReq = 2
    Window = 1
    Eager = TRUE
INVARIANTS CoreOnly
CHECK_DEADLOCK FALSE
