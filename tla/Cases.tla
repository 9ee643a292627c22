-------------------------------- MODULE Cases --------------------------------
(***************************************************************************)
(* The cases of one tenant (application/cases.py, domain/cases.py,         *)
(* infrastructure/cases.py): a case and its tasks are rows with a          *)
(* lock_version, its documents, comments and decisions are rows without.   *)
(*                                                                         *)
(* A client reads a row and later asks for a change of the version it has  *)
(* read.  The service selects the row FOR UPDATE, which holds it until the *)
(* transaction ends, and then updates it WHERE lock_version is the old     *)
(* one, without looking at the row count.  An INSERT that refers to a case *)
(* waits for a transaction that has selected the case FOR UPDATE.          *)
(***************************************************************************)
EXTENDS Naturals, FiniteSets

CONSTANTS
    Requests,    \* HTTP requests of the tenant's users
    Cases,       \* ids of cases
    Documents,   \* document ids that requests name
    Existing,    \* those of the tenant's documents
    Texts,       \* titles, summaries, priorities, assignees: what an update sets
    None

ASSUME CasesAssumption ==
    /\ Existing \subseteq Documents
    /\ Requests \cap Cases = {}
    /\ None \notin Texts \cup Cases \cup Requests

VARIABLES
    rows,     \* cases, by id, and case_tasks, by the request that inserted them
    members,  \* case_documents: pairs of case and document
    notes,    \* case_comments and case_decisions: request, case and kind
    trail,    \* committed audit events: request and event
    pc,       \* where a request is
    cmd,      \* the row and the operation of a request
    seen,     \* the row as the client has read it
    over,     \* history: the case or task as the request's transaction saw it
    work,     \* the row to be written by a request that holds its lock
    answer    \* what a request returned

vars == <<rows, members, notes, trail, pc, cmd, seen, over, work, answer>>

-----------------------------------------------------------------------------
Ids == Cases \cup Requests

(* CaseRecord and CaseTaskRecord.  done stands for closed_at or            *)
(* completed_at, archived for archived_at; the ids of the actors are set   *)
(* and reset with these.                                                   *)
Row == [status   : {"absent", "open", "closed", "archived", "completed"},
        case     : Cases \cup {None},
        text     : Texts \cup {None},
        done     : BOOLEAN,
        archived : BOOLEAN,
        lock     : Nat]

NoRow == [status |-> "absent", case |-> None, text |-> None,
          done |-> FALSE, archived |-> FALSE, lock |-> 0]

(* Case.create, and the CaseTask of create_task.                           *)
NewRow(c, x) == [status |-> "open", case |-> c, text |-> x,
                 done |-> FALSE, archived |-> FALSE, lock |-> 1]

Exists(i) == rows[i].status # "absent"

(* The aggregates' operations: each returns the next version of the row.   *)
CaseUpdate(row, x) == [row EXCEPT !.text = x, !.lock = @ + 1]

CaseClose(row) == [row EXCEPT !.status = "closed", !.done = TRUE, !.lock = @ + 1]

(* Fault: a reopened case keeps its closing date.                          *)
Fault_CaseReopenKeeps(row) == [row EXCEPT !.status = "open", !.lock = @ + 1]

CaseReopen(row) == [row EXCEPT !.status = "open", !.done = FALSE, !.lock = @ + 1]

CaseArchive(row) ==
    [row EXCEPT !.status = "archived", !.archived = TRUE, !.lock = @ + 1]

TaskUpdate(row, x) == [row EXCEPT !.text = x, !.lock = @ + 1]

TaskComplete(row) ==
    [row EXCEPT !.status = "completed", !.done = TRUE, !.lock = @ + 1]

(* _ensure_mutable, and the test of reopen.                                *)
Mutable(row) == row.status # "archived"

CaseOps == {"update", "close", "reopen", "archive"}
TaskOps == {"update", "complete"}
ChildOps == {"create_task", "comment", "decision", "add_document", "remove_document"}
Ops == CaseOps \cup TaskOps \cup ChildOps \cup {"create_case"}

(* Fault: get instead of get_for_update.                                   *)
Fault_FreeAlways(r, i) == TRUE

(* No other transaction has selected the row FOR UPDATE.                   *)
Free(r, i) == \A q \in Requests \ {r} : ~(pc[q] = "locked" /\ cmd[q].row = i)

Goto(r, l) == pc' = [pc EXCEPT ![r] = l]

Return(r, code) ==
    /\ Goto(r, "done")
    /\ answer' = [answer EXCEPT ![r] = code]

(* _record: the audit event is part of the transaction.                    *)
Record(r, event) == trail' = trail \cup {<<r, event>>}

-----------------------------------------------------------------------------
Init ==
    /\ rows = [i \in Ids |-> NoRow]
    /\ members = {} /\ notes = {} /\ trail = {}
    /\ pc = [r \in Requests |-> "idle"]
    /\ cmd = [r \in Requests |-> [row |-> None, op |-> "none", doc |-> None]]
    /\ seen = [r \in Requests |-> NoRow]
    /\ over = [r \in Requests |-> NoRow]
    /\ work = [r \in Requests |-> NoRow]
    /\ answer = [r \in Requests |-> "none"]

(* CaseService.create, one transaction on a row nobody else knows of.      *)
CreateCase(r, c, x) ==
    /\ pc[r] = "idle" /\ ~Exists(c)
    /\ rows' = [rows EXCEPT ![c] = NewRow(c, x)]
    /\ cmd' = [cmd EXCEPT ![r] = [row |-> c, op |-> "create_case", doc |-> None]]
    /\ Record(r, "create_case")
    /\ Return(r, "ok")
    /\ UNCHANGED <<members, notes, seen, over, work>>

(* Every other operation on a case that does not exist.  The routes of     *)
(* create_task and create_decision let CaseNotFoundError become a 500.     *)
CaseNotFound(r, c, op) ==
    /\ pc[r] = "idle" /\ ~Exists(c)
    /\ cmd' = [cmd EXCEPT ![r] = [row |-> c, op |-> op, doc |-> None]]
    /\ Return(r, IF op \in {"create_task", "decision"} THEN "error" ELSE "not_found")
    /\ UNCHANGED <<rows, members, notes, trail, seen, over, work>>

(* update_task and complete_task of a task that does not exist.            *)
TaskNotFound(r, t, op) ==
    /\ pc[r] = "idle" /\ ~Exists(t)
    /\ cmd' = [cmd EXCEPT ![r] = [row |-> t, op |-> op, doc |-> None]]
    /\ Return(r, "not_found")
    /\ UNCHANGED <<rows, members, notes, trail, seen, over, work>>

(* A client has read the case or the task it is going to change.           *)
Read(r, i) ==
    /\ pc[r] = "idle" /\ Exists(i)
    /\ seen' = [seen EXCEPT ![r] = rows[i]]
    /\ cmd' = [cmd EXCEPT ![r].row = i]
    /\ Goto(r, "read")
    /\ UNCHANGED <<rows, members, notes, trail, over, work, answer>>

(* Fault: the version the client has read is not compared.                 *)
Fault_LockRowUnchecked(r, op, accepts, new) ==
    LET i == cmd[r].row IN
    /\ pc[r] = "read" /\ Free(r, i)
    /\ cmd' = [cmd EXCEPT ![r].op = op]
    /\ over' = [over EXCEPT ![r] = rows[i]]
    /\ IF ~accepts
       THEN Return(r, "error") /\ UNCHANGED work
       ELSE /\ work' = [work EXCEPT ![r] = new]
            /\ Goto(r, "locked")
            /\ UNCHANGED answer
    /\ UNCHANGED <<rows, members, notes, trail, seen>>

(* Fault: a refused operation is reported as a conflict.                   *)
Fault_LockRowRefusalConflicts(r, op, accepts, new) ==
    LET i == cmd[r].row IN
    /\ pc[r] = "read" /\ Free(r, i)
    /\ cmd' = [cmd EXCEPT ![r].op = op]
    /\ over' = [over EXCEPT ![r] = rows[i]]
    /\ IF rows[i].lock # seen[r].lock \/ ~accepts
       THEN Return(r, "conflict") /\ UNCHANGED work
       ELSE /\ work' = [work EXCEPT ![r] = new]
            /\ Goto(r, "locked")
            /\ UNCHANGED answer
    /\ UNCHANGED <<rows, members, notes, trail, seen>>

(* _locked_case or _locked_task, then the operation of the aggregate; its  *)
(* CaseError is not caught and becomes a 500.                              *)
LockRow(r, op, accepts, new) ==
    LET i == cmd[r].row IN
    /\ pc[r] = "read" /\ Free(r, i)
    /\ cmd' = [cmd EXCEPT ![r].op = op]
    /\ over' = [over EXCEPT ![r] = rows[i]]
    /\ IF rows[i].lock # seen[r].lock
       THEN Return(r, "conflict") /\ UNCHANGED work
       ELSE IF ~accepts
       THEN Return(r, "error") /\ UNCHANGED work
       ELSE /\ work' = [work EXCEPT ![r] = new]
            /\ Goto(r, "locked")
            /\ UNCHANGED answer
    /\ UNCHANGED <<rows, members, notes, trail, seen>>

UpdateCase(r, x) ==
    LET row == rows[cmd[r].row] IN
    /\ cmd[r].row \in Cases
    /\ LockRow(r, "update", Mutable(row), CaseUpdate(row, x))

CloseCase(r) ==
    LET row == rows[cmd[r].row] IN
    /\ cmd[r].row \in Cases
    /\ LockRow(r, "close", Mutable(row), CaseClose(row))

ReopenCase(r) ==
    LET row == rows[cmd[r].row] IN
    /\ cmd[r].row \in Cases
    /\ LockRow(r, "reopen", Mutable(row), CaseReopen(row))

(* archive does not test the status.                                       *)
ArchiveCase(r) ==
    LET row == rows[cmd[r].row] IN
    /\ cmd[r].row \in Cases
    /\ LockRow(r, "archive", TRUE, CaseArchive(row))

UpdateTask(r, x) ==
    LET row == rows[cmd[r].row] IN
    /\ cmd[r].row \in Requests
    /\ LockRow(r, "update", TRUE, TaskUpdate(row, x))

CompleteTask(r) ==
    LET row == rows[cmd[r].row] IN
    /\ cmd[r].row \in Requests
    /\ LockRow(r, "complete", TRUE, TaskComplete(row))

(* The UPDATE of the row i in which the lock_version must be the old one.  *)
(* Nothing tells the caller when the WHERE clause has matched no row.      *)
UpdateRow(i, new) ==
    rows' = IF rows[i].lock = new.lock - 1 THEN [rows EXCEPT ![i] = new] ELSE rows

(* Fault: the event is recorded after the commit and lost.                 *)
Fault_WriteCaseUnaudited(r) ==
    /\ pc[r] = "locked" /\ cmd[r].row \in Cases
    /\ UpdateRow(cmd[r].row, work[r])
    /\ Return(r, "ok")
    /\ UNCHANGED <<members, notes, trail, cmd, seen, over, work>>

(* repository.update, the audit event, and commit.                         *)
WriteCase(r) ==
    /\ pc[r] = "locked" /\ cmd[r].row \in Cases
    /\ UpdateRow(cmd[r].row, work[r])
    /\ Record(r, cmd[r].op)
    /\ Return(r, "ok")
    /\ UNCHANGED <<members, notes, cmd, seen, over, work>>

(* repository.update_task, the audit event, and commit.                    *)
WriteTask(r) ==
    /\ pc[r] = "locked" /\ cmd[r].row \in Requests
    /\ UpdateRow(cmd[r].row, work[r])
    /\ Record(r, cmd[r].op)
    /\ Return(r, "ok")
    /\ UNCHANGED <<members, notes, cmd, seen, over, work>>

(* The operations without a lock_version.  They read the case to see that  *)
(* it exists, whatever its status.                                         *)
Begin(r, c, op, d) ==
    /\ pc[r] = "idle" /\ Exists(c)
    /\ cmd' = [cmd EXCEPT ![r] = [row |-> c, op |-> op, doc |-> d]]
    /\ over' = [over EXCEPT ![r] = rows[c]]

CreateTask(r, c, x) ==
    /\ Begin(r, c, "create_task", None)
    /\ Free(r, c)
    /\ rows' = [rows EXCEPT ![r] = NewRow(c, x)]
    /\ Record(r, "create_task")
    /\ Return(r, "ok")
    /\ UNCHANGED <<members, notes, seen, work>>

(* add_comment or add_decision, the audit event, and commit.               *)
InsertNote(r, c, kind) ==
    /\ Begin(r, c, kind, None)
    /\ Free(r, c)
    /\ notes' = notes \cup {<<r, c, kind>>}
    /\ Record(r, kind)
    /\ Return(r, "ok")
    /\ UNCHANGED <<rows, members, seen, work>>

CreateComment(r, c) == InsertNote(r, c, "comment")

CreateDecision(r, c) == InsertNote(r, c, "decision")

(* add_document: the INSERT violates the unique constraint or the foreign  *)
(* key to documents, or succeeds and is committed.                         *)
AddDocument(r, c, d) ==
    /\ Begin(r, c, "add_document", d)
    /\ Free(r, c)
    /\ IF d \in Existing /\ <<c, d>> \notin members
       THEN /\ members' = members \cup {<<c, d>>}
            /\ Record(r, "add_document")
            /\ Return(r, "ok")
       ELSE Goto(r, "lookup") /\ UNCHANGED <<members, trail, answer>>
    /\ UNCHANGED <<rows, notes, seen, work>>

(* After the rollback the membership is looked up: it is returned as if    *)
(* added, or the document is reported as missing.                          *)
LookUp(r) ==
    /\ pc[r] = "lookup"
    /\ IF <<cmd[r].row, cmd[r].doc>> \in members
       THEN Record(r, "add_document") /\ Return(r, "ok")
       ELSE Return(r, "not_found") /\ UNCHANGED trail
    /\ UNCHANGED <<rows, members, notes, cmd, seen, over, work>>

RemoveDocument(r, c, d) ==
    /\ Begin(r, c, "remove_document", d)
    /\ members' = members \ {<<c, d>>}
    /\ Record(r, "remove_document")
    /\ Return(r, "ok")
    /\ UNCHANGED <<rows, notes, seen, work>>

(* The process or its database connection is lost; its transaction is      *)
(* rolled back and its row locks are released.                             *)
Crash(r) ==
    /\ pc[r] \in {"read", "locked", "lookup"}
    /\ Goto(r, "crashed")
    /\ UNCHANGED <<rows, members, notes, trail, cmd, seen, over, work, answer>>

Next ==
    \E r \in Requests :
        \/ \E c \in Cases, x \in Texts : CreateCase(r, c, x)
        \/ \E c \in Cases, op \in CaseOps \cup ChildOps : CaseNotFound(r, c, op)
        \/ \E t \in Requests, op \in TaskOps : TaskNotFound(r, t, op)
        \/ \E i \in Ids : Read(r, i)
        \/ \E x \in Texts : UpdateCase(r, x)
        \/ CloseCase(r)
        \/ ReopenCase(r)
        \/ ArchiveCase(r)
        \/ \E x \in Texts : UpdateTask(r, x)
        \/ CompleteTask(r)
        \/ WriteCase(r)
        \/ WriteTask(r)
        \/ \E c \in Cases, x \in Texts : CreateTask(r, c, x)
        \/ \E c \in Cases : CreateComment(r, c)
        \/ \E c \in Cases : CreateDecision(r, c)
        \/ \E c \in Cases, d \in Documents : AddDocument(r, c, d)
        \/ \E c \in Cases, d \in Documents : RemoveDocument(r, c, d)
        \/ LookUp(r)
        \/ Crash(r)

Spec == Init /\ [][Next]_vars

-----------------------------------------------------------------------------
(* Properties.                                                             *)

(* Every table and every request holds values of its own kind.             *)
TypeOK ==
    /\ rows \in [Ids -> Row]
    /\ members \subseteq Cases \X Existing
    /\ notes \subseteq Requests \X Cases \X {"comment", "decision"}
    /\ trail \subseteq Requests \X Ops
    /\ pc \in [Requests -> {"idle", "read", "locked", "lookup", "done", "crashed"}]
    /\ cmd \in [Requests -> [row : Ids \cup {None},
                             op  : Ops \cup {"none"},
                             doc : Documents \cup {None}]]
    /\ seen \in [Requests -> Row]
    /\ over \in [Requests -> Row]
    /\ work \in [Requests -> Row]
    /\ answer \in [Requests -> {"none", "ok", "conflict", "error", "not_found"}]

(* The accepted changes of versioned rows.                                 *)
Accepted(r) == answer[r] = "ok" /\ cmd[r].op \in CaseOps \cup TaskOps

(* No accepted change is lost: each has a version of its own that the row  *)
(* has reached, although update ignores how many rows it has written.      *)
NoLostUpdate ==
    \A r \in Requests : Accepted(r) =>
        /\ work[r].lock <= rows[cmd[r].row].lock
        /\ \A q \in Requests \ {r} :
              Accepted(q) /\ cmd[q].row = cmd[r].row => work[q].lock # work[r].lock

(* A client never overwrites what it has not seen: the row an accepted     *)
(* change replaced is, in every column, the row its client had read        *)
(* (_locked_case, _locked_task).                                           *)
OverwritesWhatWasRead ==
    \A r \in Requests : Accepted(r) => over[r] = seen[r]

(* The dates agree with the status through any sequence of close, reopen,  *)
(* archive and complete; an archived case keeps its closing date.          *)
DatesAgreeWithStatus ==
    \A i \in Ids :
        /\ rows[i].status \in {"absent", "open"} => ~rows[i].done
        /\ rows[i].status \in {"closed", "completed"} => rows[i].done
        /\ rows[i].archived <=> rows[i].status = "archived"

(* The audit event e is about the insertion or a change of row i.          *)
About(e, i) ==
    \/ e = <<i, "create_task">>
    \/ cmd[e[1]].row = i /\ e[2] \in CaseOps \cup TaskOps \cup {"create_case"}

(* The audit trail explains the version of a row: one committed event for  *)
(* its insertion and for every change since (_record before commit), and   *)
(* none for a row that was not written.                                    *)
TrailExplainsVersion ==
    \A i \in Ids : rows[i].lock = Cardinality({e \in trail : About(e, i)})

(* An archived case stays archived with the contents it had, whatever      *)
(* requests that had read it before still ask for.                         *)
ArchivedForever ==
    [][\A c \in Cases : rows[c].status = "archived" =>
          /\ rows'[c].status = "archived"
          /\ rows'[c].text = rows[c].text]_vars

(* The table as its clients see it: the version of a row, the version a    *)
(* request is based on, and what the request was told.                     *)
Versions == [i \in Ids |-> rows[i].lock]

Based(r) == seen[r].lock # 0

Basis == [r \in Requests |->
            [row |-> IF Based(r) THEN cmd[r].row ELSE None, version |-> seen[r].lock]]

Verdict == [r \in Requests |->
              CASE Based(r) /\ answer[r] = "ok"       -> "accepted"
                [] Based(r) /\ answer[r] = "conflict" -> "conflict"
                [] OTHER                              -> "none"]

Abstract == INSTANCE OptimisticRows
              WITH version <- Versions, basis <- Basis, verdict <- Verdict

(* Cases and tasks implement the promise of a lock_version: FOR UPDATE,    *)
(* the comparison, the UPDATE whose row count is ignored and the commit    *)
(* together are one compare-and-swap (_locked_case, _locked_task, update). *)
ImplementsOptimisticRows == Abstract!Spec

=============================================================================
