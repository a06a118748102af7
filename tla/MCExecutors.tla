---------------------------- MODULE MCExecutors ----------------------------
(* Instances of Executors for TLC.                                            *)
EXTENDS Executors, TLC

CONSTANTS k1, k2, v1, v2

TwoKeys == {k1, k2}
TwoValues == {v1, v2}
LowerCase == {"get"}

\* A file with one command, and one that describes it anew next to another.
TwoFiles == {[SET |-> 1], [SET |-> 2, GET |-> 1]}

\* How careless the clients are.
NotAtAll == {}
OfMissingKeys == {"missing"}
OfArguments == {"short"}

Symmetry == Permutations(TwoKeys) \union Permutations(TwoValues)
=============================================================================
