-------------------------- MODULE MCSessionCleanup --------------------------
(* Instances of SessionCleanup for TLC.                                    *)
EXTENDS SessionCleanup, TLC

CONSTANTS s1, s2

Symmetry == Permutations(Sessions)
=============================================================================
