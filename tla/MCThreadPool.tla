---------------------------- MODULE MCThreadPool ----------------------------
(* Instances of ThreadPool for TLC: see the .cfg files for the values.        *)
EXTENDS ThreadPool

CONSTANTS w1, w2, w3, t1, t2, t3

TwoWorkers == {w1, w2}
ThreeWorkers == {w1, w2, w3}
ThreeTasks == {t1, t2, t3}
=============================================================================
