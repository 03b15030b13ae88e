---------------------------- MODULE MCTransfer ----------------------------
(* A small instance of the model file transfer for TLC: two files of two   *)
(* blocks that differ in both, and one that fails the first check.         *)
EXTENDS Transfer, TLC

CONSTANTS b1, b2, b3, b4, bad, u1, u2, d1

ThreeFiles == {<<b1, b2>>, <<b3, b4>>, <<bad, b2>>}

Symm == Permutations(Uploads) \cup Permutations(Names)
=============================================================================
