------------------------------ MODULE MCTenancy ------------------------------
(* Instances of Tenancy for TLC.                                           *)
EXTENDS Tenancy, TLC

CONSTANTS u1, u2, u3, o1, o2, i1, i2, r1

Symmetry == Permutations(Users) \cup Permutations(Organizations)
              \cup Permutations(Installers)
=============================================================================
