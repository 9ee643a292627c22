------------------------------- MODULE MCLogin -------------------------------
(* Instances of Login for TLC.                                             *)
EXTENDS Login

CONSTANTS r1, r2, e1, c1, p1

Thresholds == [login_id |-> 1, login_client |-> 2, refresh_client |-> 1]
=============================================================================
