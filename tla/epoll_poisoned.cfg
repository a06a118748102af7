\* One thread, two descriptors: c2 may connect after c1 sent something that is not
\* RESP and was closed on.
SPECIFICATION FairSpec
CONSTANTS
    c1 = c1
    c2 = c2
    c3 = c3
    w1 = w1
    w2 = w2
    None = None
    ServerFD = 0
    Conns <- FirstTwoConns
    Bad <- FirstConn
    Quitters <- Nobody
    Aborters <- Nobody
    FDs <- TwoFDs
    EventsLen = 4
    Workers <- NoWorkers
    EventIds <- FourEvents
    MaxReq = 1
    Window = 1
    Eager = TRUE
INVARIANTS GoodClientsKept
CHECK_DEADLOCK FALSE
