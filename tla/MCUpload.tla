------------------------------ MODULE MCUpload ------------------------------
(* Instances of Upload for TLC.                                            *)
EXTENDS Upload, TLC

CONSTANTS r1, r2, r3, k1, k2, p1, p2, bad, h1, h2, hbad

MCHashOf == [p \in Payloads |->
               IF p = p1 THEN h1 ELSE IF p = p2 THEN h2 ELSE hbad]

(* Requests and keys are interchangeable, and so are the two valid uploads *)
(* when each is exchanged together with its hash.                          *)
Symmetry ==
    Permutations(Requests) \cup Permutations(Keys)
        \cup {p1 :> p2 @@ p2 :> p1 @@ h1 :> h2 @@ h2 :> h1}
=============================================================================
