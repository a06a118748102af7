---------------------------- MODULE MCKVStorage ----------------------------
(* Instances of KVStorage for TLC.                                            *)
EXTENDS KVStorage, TLC

CONSTANTS k1, k2

TwoKeys == {k1, k2}

Symmetry == Permutations(TwoKeys)
=============================================================================
