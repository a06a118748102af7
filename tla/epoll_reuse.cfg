\* Two I/O workers and two connections; c2 may reset at any time and c1 connect at
\* any time, so that c1 may be given c2's descriptor while a task is still to
\* write c2's response.
SPECIFICATION FairSpec
CONSTANTS
    c1 = c1
    c2 = c2
    c3 = c3
    w1 = w1
    w2 = w2
    None = None
    ServerFD = 0
    Conns <- FirstTwoConns
    Bad <- Nobody
    Quitters <- Nobody
    Aborters <- SecondConn
    FDs <- TwoFDs
    EventsLen = 4
    Workers <- TwoWorkers
    EventIds <- FourEvents
    MaxReq = 1
    Window = 1
    Eager = TRUE
INVARIANTS OwnResponses
CHECK_DEADLOCK FALSE
