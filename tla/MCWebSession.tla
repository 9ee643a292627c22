---------------------------- MODULE MCWebSession ----------------------------
(* Instances of WebSession for TLC.                                        *)
EXTENDS WebSession, TLC

CONSTANTS t0, t1, t2, o1, o2, p1, p2, p3

Symmetry == Permutations(Tasks \ {Mount}) \cup Permutations(Orgs)
=============================================================================
