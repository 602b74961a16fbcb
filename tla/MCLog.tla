------------------------------- MODULE MCLog --------------------------------
(* Small instances of the log: which blocks and values exist.              *)
EXTENDS Log, TLC

CONSTANTS o1, o2, o3, b1, b2, b3

TwoOps == {o1, o2}
ThreeOps == {o1, o2, o3}
TwoBlocks == {b1, b2}
ThreeBlocks == {b1, b2, b3}

OpSymmetry == Permutations(Op)
=============================================================================
