\* One thread; three connections and three descriptors, so that accept runs out of
\* them; one epoll_wait reports two events at most.  c1 may close or
\* reset, c3 sends something that is not RESP.  Clients wait for a response
\* before the next request, but close at any time.
SPECIFICATION FairSpec
CONSTANTS
    c1 = c1
    c2 = c2
    c3 = c3
    w1 = w1
    w2 = w2
    None = None
    ServerFD = 0
    Conns <- AllConns
    Bad <- ThirdConn
    Quitters <- FirstConn
    Aborters <- FirstConn
    FDs <- ThreeFDs
    EventsLen = 2
    Workers <- NoWorkers
    EventIds <- FourEvents
    MaxReq = 2
    Window = 1
    Eager = TRUE
INVARIANTS TypeOK DiesOfLeaversOnly KeptUnlessPoisoned
PROPERTIES ImplementsRequestServer Answered Reaped
\* All requests are sent and answered: the loop waits in epoll_wait.
CHECK_DEADLOCK FALSE
