------------------------------- MODULE Batches -------------------------------
(***************************************************************************)
(* The document batches of one tenant (application/batches.py,             *)
(* domain/batches.py, infrastructure/batches.py): batch rows with a        *)
(* lock_version, and batch_documents rows that make documents members.     *)
(*                                                                         *)
(* The statements of a request and its commit are separate steps.  What a  *)
(* statement has written is visible to others, and its audit event is      *)
(* kept, from the commit on; until then it makes conflicting statements    *)
(* wait: FOR UPDATE and an INSERT that refers to the batch exclude each    *)
(* other, and an INSERT or a DELETE of a membership waits for a DELETE.    *)
(***************************************************************************)
EXTENDS Naturals, FiniteSets

CONSTANTS
    Requests,    \* HTTP requests of the tenant's users
    BatchIds,    \* ids of batches
    Documents,   \* document ids that requests name
    Existing,    \* those of the tenant's documents
    Texts,       \* names and descriptions
    None

ASSUME BatchesAssumption ==
    /\ IsFiniteSet(Requests)
    /\ Existing \subseteq Documents
    /\ None \notin Requests \cup BatchIds \cup Documents \cup Texts

VARIABLES
    batches,  \* the batches table
    members,  \* batch_documents: the row's id, by batch and document; the id
              \* of a membership is the request that inserted it
    trail,    \* committed audit events
    pc,       \* where a request is
    cmd,      \* the batch, the operation and the document of a request
    seen,     \* the batch as the client has read it
    work,     \* the batch row to be written by a request
    link,     \* the membership a request has inserted, found or deleted
    answer    \* what a request returned: an add its membership's id

vars == <<batches, members, trail, pc, cmd, seen, work, link, answer>>

-----------------------------------------------------------------------------
(* BatchRecord; the status "closed" is never assigned.                     *)
Row == [status   : {"absent", "open", "archived"},
        text     : Texts \cup {None},
        archived : BOOLEAN,
        lock     : Nat]

NoRow == [status |-> "absent", text |-> None, archived |-> FALSE, lock |-> 0]

(* Batch.create                                                            *)
NewBatch(x) == [status |-> "open", text |-> x, archived |-> FALSE, lock |-> 1]

BatchUpdate(row, x) == [row EXCEPT !.text = x, !.lock = @ + 1]

BatchArchive(row) ==
    [row EXCEPT !.status = "archived", !.archived = TRUE, !.lock = @ + 1]

(* _ensure_mutable                                                         *)
Mutable(row) == row.status # "archived"

Exists(b) == batches[b].status # "absent"

Pair(r) == <<cmd[r].row, cmd[r].doc>>

(* No other transaction has selected the batch FOR UPDATE.                 *)
NotLocked(r, b) ==
    \A q \in Requests \ {r} : pc[q] = "locked" => cmd[q].row # b

(* FOR UPDATE also waits for uncommitted INSERTs that refer to the batch.  *)
NotReferred(r, b) ==
    \A q \in Requests \ {r} : pc[q] \in {"locked", "inserted"} => cmd[q].row # b

(* No other transaction has deleted the membership p.                      *)
NotDeleted(r, p) ==
    \A q \in Requests \ {r} : pc[q] = "deleted" /\ link[q] # None => Pair(q) # p

(* Nor inserted it.                                                        *)
NotWritten(r, p) ==
    /\ NotDeleted(r, p)
    /\ \A q \in Requests \ {r} : pc[q] = "inserted" => Pair(q) # p

Ops == {"create", "update", "archive", "add_document", "remove_document"}

Goto(r, l) == pc' = [pc EXCEPT ![r] = l]

Return(r, code, id) ==
    /\ Goto(r, "done")
    /\ answer' = [answer EXCEPT ![r] = [code |-> code, id |-> id]]

(* AuditEvent: its id is fresh, and is named here by the request, which    *)
(* records one event.  An event of a membership names the batch and the    *)
(* document, not the membership; that of a removal tells whether the       *)
(* DELETE has found a row.                                                 *)
Event == [id : Requests, type : Ops, target : BatchIds,
          doc : Documents \cup {None}, removed : BOOLEAN]

(* _record: the event is written in the transaction of the change.         *)
Record(r) ==
    trail' = trail \cup
        {[id |-> r, type |-> cmd[r].op, target |-> cmd[r].row, doc |-> cmd[r].doc,
          removed |-> pc[r] = "deleted" /\ link[r] # None]}

-----------------------------------------------------------------------------
Init ==
    /\ batches = [b \in BatchIds |-> NoRow]
    /\ members = [p \in BatchIds \X Documents |-> None]
    /\ trail = {}
    /\ pc = [r \in Requests |-> "idle"]
    /\ cmd = [r \in Requests |-> [row |-> None, op |-> "none", doc |-> None]]
    /\ seen = [r \in Requests |-> NoRow]
    /\ work = [r \in Requests |-> NoRow]
    /\ link = [r \in Requests |-> None]
    /\ answer = [r \in Requests |-> [code |-> "none", id |-> None]]

(* BatchService.create, up to its commit: an INSERT under a fresh id that  *)
(* nobody else sees.                                                       *)
CreateBatch(r, b, x) ==
    /\ pc[r] = "idle" /\ ~Exists(b)
    /\ \A q \in Requests : cmd[q].op = "create" /\ cmd[q].row = b => pc[q] = "crashed"
    /\ cmd' = [cmd EXCEPT ![r] = [row |-> b, op |-> "create", doc |-> None]]
    /\ work' = [work EXCEPT ![r] = NewBatch(x)]
    /\ Goto(r, "created")
    /\ UNCHANGED <<batches, members, trail, seen, link, answer>>

(* Any other operation on a batch that does not exist.                     *)
BatchNotFound(r, b, op) ==
    /\ pc[r] = "idle" /\ ~Exists(b)
    /\ cmd' = [cmd EXCEPT ![r] = [row |-> b, op |-> op, doc |-> None]]
    /\ Return(r, "not_found", None)
    /\ UNCHANGED <<batches, members, trail, seen, work, link>>

(* A client has read the batch it is going to change.                      *)
Read(r, b) ==
    /\ pc[r] = "idle" /\ Exists(b)
    /\ seen' = [seen EXCEPT ![r] = batches[b]]
    /\ cmd' = [cmd EXCEPT ![r].row = b]
    /\ Goto(r, "read")
    /\ UNCHANGED <<batches, members, trail, work, link, answer>>

(* Fault: the version the client has read is not compared.                 *)
Fault_LockBatchUnchecked(r, op, new) ==
    LET b == cmd[r].row IN
    /\ pc[r] = "read" /\ NotReferred(r, b)
    /\ cmd' = [cmd EXCEPT ![r].op = op]
    /\ IF ~Mutable(batches[b])
       THEN Return(r, "error", None) /\ UNCHANGED work
       ELSE /\ work' = [work EXCEPT ![r] = new]
            /\ Goto(r, "locked")
            /\ UNCHANGED answer
    /\ UNCHANGED <<batches, members, trail, seen, link>>

(* get_for_update, the comparison of versions, and the operation of the    *)
(* aggregate, whose ArchivedBatchMutationError becomes a 500.              *)
LockBatch(r, op, new) ==
    LET b == cmd[r].row IN
    /\ pc[r] = "read" /\ NotReferred(r, b)
    /\ cmd' = [cmd EXCEPT ![r].op = op]
    /\ IF batches[b].lock # seen[r].lock
       THEN Return(r, "conflict", None) /\ UNCHANGED work
       ELSE IF ~Mutable(batches[b])
       THEN Return(r, "error", None) /\ UNCHANGED work
       ELSE /\ work' = [work EXCEPT ![r] = new]
            /\ Goto(r, "locked")
            /\ UNCHANGED answer
    /\ UNCHANGED <<batches, members, trail, seen, link>>

UpdateBatch(r, x) == LockBatch(r, "update", BatchUpdate(batches[cmd[r].row], x))

ArchiveBatch(r) == LockBatch(r, "archive", BatchArchive(batches[cmd[r].row]))

(* add_document: the INSERT violates the unique constraint or a foreign    *)
(* key and the session is rolled back, or it awaits its commit.            *)
AddDocument(r, b, d) ==
    /\ pc[r] = "idle" /\ Exists(b)
    /\ NotLocked(r, b) /\ NotWritten(r, <<b, d>>)
    /\ cmd' = [cmd EXCEPT ![r] = [row |-> b, op |-> "add_document", doc |-> d]]
    /\ IF d \in Existing /\ members[<<b, d>>] = None
       THEN Goto(r, "inserted") /\ link' = [link EXCEPT ![r] = r]
       ELSE Goto(r, "lookup") /\ UNCHANGED link
    /\ UNCHANGED <<batches, members, trail, seen, work, answer>>

(* After the rollback the membership is looked up by batch and document.   *)
LookUp(r) ==
    /\ pc[r] = "lookup"
    /\ IF members[Pair(r)] # None
       THEN /\ link' = [link EXCEPT ![r] = members[Pair(r)]]
            /\ Goto(r, "found")
            /\ UNCHANGED answer
       ELSE Return(r, "not_found", None) /\ UNCHANGED link
    /\ UNCHANGED <<batches, members, trail, cmd, seen, work>>

(* Fault: the DELETE does not wait for another of the same row.            *)
Fault_RemoveDocumentUnlocked(r, b, d) ==
    /\ pc[r] = "idle" /\ Exists(b)
    /\ cmd' = [cmd EXCEPT ![r] = [row |-> b, op |-> "remove_document", doc |-> d]]
    /\ link' = [link EXCEPT ![r] = members[<<b, d>>]]
    /\ Goto(r, "deleted")
    /\ UNCHANGED <<batches, members, trail, seen, work, answer>>

(* remove_document: the DELETE, whose row count goes into the event.       *)
RemoveDocument(r, b, d) ==
    /\ pc[r] = "idle" /\ Exists(b)
    /\ NotDeleted(r, <<b, d>>)
    /\ cmd' = [cmd EXCEPT ![r] = [row |-> b, op |-> "remove_document", doc |-> d]]
    /\ link' = [link EXCEPT ![r] = members[<<b, d>>]]
    /\ Goto(r, "deleted")
    /\ UNCHANGED <<batches, members, trail, seen, work, answer>>

(* The INSERT or the UPDATE ... WHERE lock_version = of a batch, committed *)
(* with its event.  The row count of the UPDATE is ignored.                *)
CommitBatch(r) ==
    LET b == cmd[r].row IN
    /\ pc[r] \in {"created", "locked"}
    /\ batches' = IF batches[b].lock = work[r].lock - 1
                  THEN [batches EXCEPT ![b] = work[r]] ELSE batches
    /\ Record(r)
    /\ Return(r, "ok", None)
    /\ UNCHANGED <<members, cmd, seen, work, link>>

(* The commit of add_document, answered with the membership, or of         *)
(* remove_document.                                                        *)
CommitMembership(r) ==
    /\ pc[r] \in {"inserted", "found", "deleted"}
    /\ members' = CASE pc[r] = "inserted" -> [members EXCEPT ![Pair(r)] = r]
                    [] pc[r] = "deleted" /\ link[r] # None
                                          -> [members EXCEPT ![Pair(r)] = None]
                    [] OTHER              -> members
    /\ Record(r)
    /\ Return(r, "ok", IF pc[r] = "deleted" THEN None ELSE link[r])
    /\ UNCHANGED <<batches, cmd, seen, work, link>>

(* The process or its connection is lost: the transaction is rolled back.  *)
Crash(r) ==
    /\ pc[r] \notin {"idle", "done", "crashed"}
    /\ Goto(r, "crashed")
    /\ UNCHANGED <<batches, members, trail, cmd, seen, work, link, answer>>

Next ==
    \E r \in Requests :
        \/ \E b \in BatchIds, x \in Texts : CreateBatch(r, b, x)
        \/ \E b \in BatchIds, op \in Ops \ {"create"} : BatchNotFound(r, b, op)
        \/ \E b \in BatchIds : Read(r, b)
        \/ \E x \in Texts : UpdateBatch(r, x)
        \/ ArchiveBatch(r)
        \/ \E b \in BatchIds, d \in Documents : AddDocument(r, b, d)
        \/ LookUp(r)
        \/ \E b \in BatchIds, d \in Documents : RemoveDocument(r, b, d)
        \/ CommitBatch(r)
        \/ CommitMembership(r)
        \/ Crash(r)

Spec == Init /\ [][Next]_vars

-----------------------------------------------------------------------------
(* Properties.                                                             *)

(* Every table and every request holds values of its own kind.             *)
TypeOK ==
    /\ batches \in [BatchIds -> Row]
    /\ members \in [BatchIds \X Documents -> Requests \cup {None}]
    /\ trail \subseteq Event
    /\ pc \in [Requests -> {"idle", "created", "read", "locked", "inserted",
                            "lookup", "found", "deleted", "done", "crashed"}]
    /\ cmd \in [Requests -> [row : BatchIds \cup {None}, op : Ops \cup {"none"},
                             doc : Documents \cup {None}]]
    /\ seen \in [Requests -> Row]
    /\ work \in [Requests -> Row]
    /\ link \in [Requests -> Requests \cup {None}]
    /\ answer \in [Requests ->
                     [code : {"none", "ok", "conflict", "error", "not_found"},
                      id   : Requests \cup {None}]]

(* The memberships of p that requests were answered with.                  *)
Told(p) ==
    {m \in Requests : \E q \in Requests :
        /\ cmd[q].op = "add_document" /\ Pair(q) = p
        /\ answer[q].code = "ok" /\ answer[q].id = m}

(* The events that report the removal of a membership of p.                *)
Removals(p) ==
    {e \in trail : /\ e.type = "remove_document" /\ e.removed
                   /\ <<e.target, e.doc>> = p}

(* The memberships that add_document has answered with are the one in the  *)
(* table and those that some removal has reported, each by one event: no   *)
(* row is reported removed twice, none goes unreported, and none is        *)
(* inserted beside one that was found.                                     *)
MembershipsAccounted ==
    \A p \in BatchIds \X Documents :
        Cardinality(Told(p)) =
            Cardinality(Removals(p)) + (IF members[p] = None THEN 0 ELSE 1)

(* The table as its clients see it: see OptimisticRows.                    *)
Versions == [b \in BatchIds |-> batches[b].lock]

Based(r) == seen[r].lock # 0

Basis == [r \in Requests |->
            [row |-> IF Based(r) THEN cmd[r].row ELSE None, version |-> seen[r].lock]]

Verdict == [r \in Requests |->
              CASE Based(r) /\ answer[r].code = "ok"       -> "accepted"
                [] Based(r) /\ answer[r].code = "conflict" -> "conflict"
                [] OTHER                                   -> "none"]

Abstract == INSTANCE OptimisticRows
              WITH Ids <- BatchIds, version <- Versions,
                   basis <- Basis, verdict <- Verdict

(* Batches implement the promise of a lock_version, with uncommitted       *)
(* membership rows and crashes in between (update, archive).               *)
ImplementsOptimisticRows == Abstract!Spec
=============================================================================
