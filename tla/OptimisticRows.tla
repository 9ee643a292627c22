--------------------------- MODULE OptimisticRows ---------------------------
(***************************************************************************)
(* What a table with a lock_version promises its clients, whatever locks,  *)
(* WHERE clauses and transactions it is made of: a change that names the   *)
(* version it is based on is accepted, in one step, exactly while that     *)
(* version is current, and refused as a conflict exactly when it is not.   *)
(***************************************************************************)
EXTENDS Naturals

CONSTANTS
    Requests,   \* changes that clients ask for
    Ids,        \* ids of rows
    None

VARIABLES
    version,    \* the lock_version of a row, 0 when there is none
    basis,      \* the row and the version that a request is based on
    verdict     \* what a request was told

rowVars == <<version, basis, verdict>>

Init ==
    /\ version = [i \in Ids |-> 0]
    /\ basis = [r \in Requests |-> [row |-> None, version |-> 0]]
    /\ verdict = [r \in Requests |-> "none"]

Insert(i) ==
    /\ version[i] = 0
    /\ version' = [version EXCEPT ![i] = 1]
    /\ UNCHANGED <<basis, verdict>>

Read(r, i) ==
    /\ basis[r].row = None /\ version[i] > 0
    /\ basis' = [basis EXCEPT ![r] = [row |-> i, version |-> version[i]]]
    /\ UNCHANGED <<version, verdict>>

Accept(r) ==
    LET i == basis[r].row IN
    /\ verdict[r] = "none" /\ i \in Ids
    /\ version[i] = basis[r].version
    /\ version' = [version EXCEPT ![i] = @ + 1]
    /\ verdict' = [verdict EXCEPT ![r] = "accepted"]
    /\ UNCHANGED basis

Conflict(r) ==
    LET i == basis[r].row IN
    /\ verdict[r] = "none" /\ i \in Ids
    /\ version[i] # basis[r].version
    /\ verdict' = [verdict EXCEPT ![r] = "conflict"]
    /\ UNCHANGED <<version, basis>>

Next ==
    \/ \E i \in Ids : Insert(i)
    \/ \E r \in Requests :
        \/ \E i \in Ids : Read(r, i)
        \/ Accept(r)
        \/ Conflict(r)

Spec == Init /\ [][Next]_rowVars
=============================================================================
