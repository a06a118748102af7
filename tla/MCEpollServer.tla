--------------------------- MODULE MCEpollServer ---------------------------
(* Instances of EpollServer for TLC: see the .cfg files for the values.       *)
EXTENDS EpollServer

CONSTANTS c1, c2, c3, w1, w2

Nobody == {}
FirstConn == {c1}
SecondConn == {c2}
ThirdConn == {c3}
FirstTwoConns == {c1, c2}
AllConns == {c1, c2, c3}
NoWorkers == {}
TwoWorkers == {w1, w2}
TwoFDs == 1..2
ThreeFDs == 1..3
FourEvents == 1..4
=============================================================================
