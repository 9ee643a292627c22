------------------------------ MODULE MCLibrary ------------------------------
(* Instances of Library for TLC.                                           *)
EXTENDS Library, TLC

CONSTANTS r1, r2, r3, t1, t2, c1, c2, c3, k1

Symmetry ==
    Permutations(Requests) \cup Permutations(Tenants) \cup Permutations(Contents)
=============================================================================
