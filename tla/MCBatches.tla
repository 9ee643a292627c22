------------------------------ MODULE MCBatches ------------------------------
(* Instances of Batches for TLC.                                           *)
EXTENDS Batches, TLC

CONSTANTS r1, r2, r3, r4, r5, b1, d1, d2, x1, x2

Symmetry == Permutations(Requests) \cup Permutations(Texts)
=============================================================================
