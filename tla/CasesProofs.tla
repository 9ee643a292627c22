----------------------------- MODULE CasesProofs -----------------------------
(* Proofs about Cases, for every set of requests, cases, documents and     *)
(* texts.                                                                  *)
EXTENDS Cases, FiniteSetTheorems, TLAPS

Pcs == {"idle", "read", "locked", "lookup", "done", "crashed"}
Codes == {"none", "ok", "conflict", "error", "not_found"}
Cmd == [row : Ids \cup {None}, op : Ops \cup {"none"}, doc : Documents \cup {None}]

(* A request that holds the lock of a row is about to change it.            *)
LockedOp == \A r \in Requests : pc[r] = "locked" => cmd[r].op \in CaseOps \cup TaskOps

(* The rows that the aggregates create are of their type.                  *)
LEMMA NewRowType ==
    ASSUME NEW c \in Cases, NEW x \in Texts
    PROVE  NewRow(c, x) \in Row /\ NoRow \in Row
BY DEF NewRow, NoRow, Row

(* So are the rows that they change.                                       *)
LEMMA ChangeType ==
    ASSUME NEW row \in Row
    PROVE  /\ \A x \in Texts : CaseUpdate(row, x) \in Row /\ TaskUpdate(row, x) \in Row
           /\ CaseClose(row) \in Row
           /\ CaseReopen(row) \in Row
           /\ CaseArchive(row) \in Row
           /\ TaskComplete(row) \in Row
<1>1. row.lock + 1 \in Nat
  BY DEF Row
<1>2. ASSUME NEW x \in Texts PROVE CaseUpdate(row, x) \in Row /\ TaskUpdate(row, x) \in Row
  BY <1>1 DEF Row, CaseUpdate, TaskUpdate
<1>3. CaseClose(row) \in Row
  BY <1>1 DEF Row, CaseClose
<1>4. CaseReopen(row) \in Row
  BY <1>1 DEF Row, CaseReopen
<1>5. CaseArchive(row) \in Row
  BY <1>1 DEF Row, CaseArchive
<1>6. TaskComplete(row) \in Row
  BY <1>1 DEF Row, TaskComplete
<1>7. QED
  BY <1>2, <1>3, <1>4, <1>5, <1>6

(* The operations that take the lock of a row.                             *)
Locking(r) ==
    \/ \E x \in Texts : UpdateCase(r, x)
    \/ CloseCase(r) \/ ReopenCase(r) \/ ArchiveCase(r)
    \/ \E x \in Texts : UpdateTask(r, x)
    \/ CompleteTask(r)

(* Taking the row lock, whatever the operation.                            *)
LEMMA LockRowType ==
    ASSUME TypeOK, NEW r \in Requests, NEW op \in CaseOps \cup TaskOps,
           NEW accepts \in BOOLEAN, NEW new \in Row,
           cmd[r].row \in Ids, LockRow(r, op, accepts, new)
    PROVE  TypeOK'
<1>1. op \in Ops \cup {"none"}
  BY DEF Ops
<1>2. cmd' \in [Requests -> Cmd]
  BY <1>1 DEF LockRow, TypeOK, Cmd
<1>3. over' \in [Requests -> Row]
  BY DEF LockRow, TypeOK
<1>4. work' \in [Requests -> Row]
  BY DEF LockRow, TypeOK
<1>5. pc' \in [Requests -> Pcs] /\ answer' \in [Requests -> Codes]
  BY DEF LockRow, TypeOK, Return, Goto, Pcs, Codes
<1>6. QED
  BY <1>2, <1>3, <1>4, <1>5 DEF LockRow, TypeOK, Cmd, Pcs, Codes

(* Every step keeps every variable in its type.                            *)
LEMMA TypeStep ==
    ASSUME TypeOK, LockedOp, [Next]_vars PROVE TypeOK'
<1>1. ASSUME NEW r \in Requests, NEW c \in Cases, NEW x \in Texts, CreateCase(r, c, x)
      PROVE  TypeOK'
  <2>1. rows' \in [Ids -> Row]
    BY <1>1, NewRowType DEF CreateCase, TypeOK, Ids
  <2>2. cmd' \in [Requests -> Cmd] /\ trail' \subseteq Requests \X Ops
    BY <1>1 DEF CreateCase, Record, TypeOK, Cmd, Ops, Ids
  <2>3. QED
    BY <1>1, <2>1, <2>2 DEF CreateCase, TypeOK, Cmd, Return, Goto
<1>2. ASSUME NEW r \in Requests, NEW c \in Cases, NEW op \in CaseOps \cup ChildOps,
             CaseNotFound(r, c, op)
      PROVE  TypeOK'
  <2>1. cmd' \in [Requests -> Cmd]
    BY <1>2 DEF CaseNotFound, TypeOK, Cmd, Ops, Ids
  <2>2. QED
    BY <1>2, <2>1 DEF CaseNotFound, TypeOK, Cmd, Return, Goto
<1>3. ASSUME NEW r \in Requests, NEW i \in Ids, Read(r, i) PROVE TypeOK'
  <2>1. cmd' \in [Requests -> Cmd]
    BY <1>3 DEF Read, TypeOK, Cmd
  <2>2. QED
    BY <1>3, <2>1 DEF Read, TypeOK, Cmd, Goto
<1>4. ASSUME NEW r \in Requests, Locking(r) PROVE TypeOK'
  <2>1. cmd[r].row \in Ids
    BY <1>4 DEF Locking, UpdateCase, CloseCase, ReopenCase, ArchiveCase, UpdateTask,
                CompleteTask, Ids
  <2>2. rows[cmd[r].row] \in Row
    BY <2>1 DEF TypeOK
  <2>3. PICK op \in CaseOps \cup TaskOps, accepts \in BOOLEAN, new \in Row :
          LockRow(r, op, accepts, new)
    BY <1>4, <2>2, ChangeType DEF Locking, UpdateCase, CloseCase, ReopenCase, ArchiveCase,
         UpdateTask, CompleteTask, CaseOps, TaskOps, Mutable
  <2>4. QED
    BY <2>1, <2>3, LockRowType
<1>5. ASSUME NEW r \in Requests, WriteCase(r) \/ WriteTask(r) PROVE TypeOK'
  <2>1. rows' \in [Ids -> Row]
    BY <1>5 DEF WriteCase, WriteTask, UpdateRow, TypeOK
  <2>2. trail' \subseteq Requests \X Ops
    BY <1>5 DEF WriteCase, WriteTask, Record, LockedOp, TypeOK, Ops
  <2>3. pc' \in [Requests -> Pcs] /\ answer' \in [Requests -> Codes]
    BY <1>5 DEF WriteCase, WriteTask, TypeOK, Return, Goto, Pcs, Codes
  <2>4. QED
    BY <1>5, <2>1, <2>2, <2>3 DEF WriteCase, WriteTask, TypeOK, Pcs, Codes
<1>6. ASSUME NEW r \in Requests, NEW c \in Cases, NEW x \in Texts, CreateTask(r, c, x)
      PROVE  TypeOK'
  <2>1. rows' \in [Ids -> Row]
    BY <1>6, NewRowType DEF CreateTask, TypeOK, Ids
  <2>2. cmd' \in [Requests -> Cmd] /\ trail' \subseteq Requests \X Ops
    BY <1>6 DEF CreateTask, Begin, Record, TypeOK, Cmd, Ops, ChildOps, Ids
  <2>3. QED
    BY <1>6, <2>1, <2>2 DEF CreateTask, Begin, TypeOK, Cmd, Return, Goto, Ids
<1>7. ASSUME NEW r \in Requests, NEW c \in Cases, CreateComment(r, c) \/ CreateDecision(r, c)
      PROVE  TypeOK'
  <2>1. PICK kind \in {"comment", "decision"} : InsertNote(r, c, kind)
    BY <1>7 DEF CreateComment, CreateDecision
  <2>2. cmd' \in [Requests -> Cmd] /\ trail' \subseteq Requests \X Ops
    BY <2>1 DEF InsertNote, Begin, Record, TypeOK, Cmd, Ops, ChildOps, Ids
  <2>3. notes' \subseteq Requests \X Cases \X {"comment", "decision"}
    BY <2>1 DEF InsertNote, TypeOK
  <2>4. QED
    BY <2>1, <2>2, <2>3 DEF InsertNote, Begin, TypeOK, Cmd, Return, Goto, Ids
<1>8. ASSUME NEW r \in Requests, NEW c \in Cases, NEW d \in Documents,
             AddDocument(r, c, d) \/ RemoveDocument(r, c, d)
      PROVE  TypeOK'
  <2>1. PICK op \in {"add_document", "remove_document"} :
          Begin(r, c, op, d) /\ (Record(r, op) \/ UNCHANGED trail)
    BY <1>8 DEF AddDocument, RemoveDocument
  <2>2. cmd' \in [Requests -> Cmd] /\ over' \in [Requests -> Row]
    BY <2>1 DEF Begin, TypeOK, Cmd, Ops, ChildOps, Ids
  <2>3. trail' \subseteq Requests \X Ops
    BY <2>1 DEF Record, TypeOK, Ops, ChildOps
  <2>4. members' \subseteq Cases \X Existing
    BY <1>8 DEF AddDocument, RemoveDocument, TypeOK
  <2>5. pc' \in [Requests -> Pcs] /\ answer' \in [Requests -> Codes]
    BY <1>8 DEF AddDocument, RemoveDocument, TypeOK, Return, Goto, Pcs, Codes
  <2>6. QED
    BY <1>8, <2>2, <2>3, <2>4, <2>5
       DEF AddDocument, RemoveDocument, TypeOK, Cmd, Pcs, Codes
<1>9. ASSUME NEW r \in Requests, LookUp(r) PROVE TypeOK'
  <2>1. trail' \subseteq Requests \X Ops
    BY <1>9 DEF LookUp, Record, TypeOK, Ops, ChildOps
  <2>2. pc' \in [Requests -> Pcs] /\ answer' \in [Requests -> Codes]
    BY <1>9 DEF LookUp, TypeOK, Return, Goto, Pcs, Codes
  <2>3. QED
    BY <1>9, <2>1, <2>2 DEF LookUp, TypeOK, Pcs, Codes
<1>10. ASSUME NEW r \in Requests, Crash(r) PROVE TypeOK'
  BY <1>10 DEF Crash, TypeOK, Goto
<1>11. CASE UNCHANGED vars
  BY <1>11 DEF vars, TypeOK
<1>12. ASSUME NEW r \in Requests, NEW t \in Requests, NEW op \in TaskOps,
              TaskNotFound(r, t, op)
       PROVE  TypeOK'
  <2>1. cmd' \in [Requests -> Cmd]
    BY <1>12 DEF TaskNotFound, TypeOK, Cmd, Ops, Ids
  <2>2. QED
    BY <1>12, <2>1 DEF TaskNotFound, TypeOK, Cmd, Return, Goto
<1>13. QED
  BY <1>1, <1>2, <1>3, <1>4, <1>5, <1>6, <1>7, <1>8, <1>9, <1>10, <1>11, <1>12
     DEF Next, Locking

-----------------------------------------------------------------------------
(* The inductive invariant.                                                *)

DatesOK(row) ==
    /\ row.status \in {"absent", "open"} => ~row.done
    /\ row.status \in {"closed", "completed"} => row.done
    /\ row.archived <=> row.status = "archived"

(* Every row's dates agree with its status, 0 is the version of no row,    *)
(* and tasks are not archived.                                             *)
RowsSound ==
    \A i \in Ids :
        /\ DatesOK(rows[i])
        /\ i \notin Cases => rows[i].status # "archived"
        /\ rows[i].status = "absent" <=> rows[i].lock = 0

(* How far a request has come.                                             *)
Stage ==
    \A r \in Requests :
        /\ pc[r] \in {"idle", "lookup"} => ~Based(r) /\ answer[r] = "none"
        /\ pc[r] = "idle" => rows[r].lock = 0
        /\ pc[r] = "lookup" => cmd[r].op = "add_document"
        /\ pc[r] \in {"read", "locked"} => Based(r) /\ answer[r] = "none"
        /\ Based(r) => cmd[r].row \in Ids
        /\ answer[r] # "none" => pc[r] = "done"
        /\ Accepted(r) => Based(r)

(* What a client has read is a former version of the row, and it is the    *)
(* row itself when the versions are the same.                              *)
Knows ==
    \A r \in Requests : Based(r) =>
        /\ seen[r].lock <= rows[cmd[r].row].lock
        /\ seen[r].lock = rows[cmd[r].row].lock => seen[r] = rows[cmd[r].row]

(* The row to be written is the next version of row.                       *)
NextVersion(i, row, new) ==
    /\ new.lock = row.lock + 1
    /\ new.status # "absent"
    /\ DatesOK(new)
    /\ i \in Cases /\ row.status = "archived"
          => new.status = "archived" /\ new.text = row.text
    /\ i \notin Cases => new.status # "archived"

(* A request that holds the lock of a row holds it alone, the row is still *)
(* what its client has read, and its work is the next version of it.       *)
Holds ==
    \A r \in Requests : pc[r] = "locked" =>
        /\ Free(r, cmd[r].row)
        /\ over[r] = rows[cmd[r].row]
        /\ over[r] = seen[r]
        /\ NextVersion(cmd[r].row, over[r], work[r])

CasesInv ==
    /\ TypeOK
    /\ LockedOp
    /\ RowsSound
    /\ Stage
    /\ Knows
    /\ Holds
    /\ OverwritesWhatWasRead
    /\ NoLostUpdate

(* Every case and every request that has read a row is of its type.        *)
LEMMA Types ==
    ASSUME TypeOK
    PROVE  /\ \A i \in Ids : rows[i] \in Row /\ rows[i].lock \in Nat
           /\ \A r \in Requests : /\ seen[r] \in Row /\ seen[r].lock \in Nat
                                  /\ work[r] \in Row /\ work[r].lock \in Nat
                                  /\ over[r] \in Row
                                  /\ r \in Ids
BY DEF TypeOK, Row, Ids

(* Steps of a request that touch no row another request has read: rows are *)
(* inserted or left alone, and the request ends, crashes or looks up.      *)
Aside(r) ==
    /\ pc[r] # "done"
    /\ \E l \in {"done", "crashed", "lookup"} : pc' = [pc EXCEPT ![r] = l]
    /\ seen' = seen /\ work' = work
    /\ \A q \in Requests \ {r} : /\ cmd'[q] = cmd[q]
                                 /\ over'[q] = over[q]
                                 /\ answer'[q] = answer[q]
    /\ pc'[r] # "done" => answer'[r] = "none"
    /\ Based(r) => pc'[r] = "crashed" /\ cmd'[r] = cmd[r]
    /\ pc'[r] = "lookup" => cmd'[r].op = "add_document"
    /\ answer'[r] = "ok" => cmd'[r].op \notin CaseOps \cup TaskOps
    /\ \/ rows' = rows
       \/ \E i \in Ids, c \in Cases, x \in Texts :
             /\ i \in Cases \/ (i = r /\ pc'[r] = "done")
             /\ rows[i].lock = 0
             /\ rows' = [rows EXCEPT ![i] = NewRow(c, x)]

(* Such a step changes no row of version 1 or later.                       *)
LEMMA AsideRows ==
    ASSUME CasesInv, NEW r \in Requests, Aside(r)
    PROVE  /\ \A i \in Ids : rows[i].lock # 0 => rows'[i] = rows[i]
           /\ \A q \in Requests : pc'[q] = "idle" => rows'[q] = rows[q]
           /\ RowsSound'
<1>1. CASE rows' = rows
  BY <1>1 DEF CasesInv, RowsSound
<1>2. ASSUME NEW i \in Ids, NEW c \in Cases, NEW x \in Texts,
             i \in Cases \/ (i = r /\ pc'[r] = "done"),
             rows[i].lock = 0, rows' = [rows EXCEPT ![i] = NewRow(c, x)]
      PROVE  /\ \A j \in Ids : rows[j].lock # 0 => rows'[j] = rows[j]
             /\ \A q \in Requests : pc'[q] = "idle" => rows'[q] = rows[q]
             /\ RowsSound'
  <2>1. rows \in [Ids -> Row]
    BY DEF CasesInv, TypeOK
  <2>2. \A j \in Ids \ {i} : rows'[j] = rows[j]
    BY <1>2, <2>1
  <2>3. rows'[i] = NewRow(c, x)
    BY <1>2, <2>1
  <2>4. \A q \in Requests : pc'[q] = "idle" => q # i /\ q \in Ids
    BY <1>2, CasesAssumption DEF Ids
  <2>5. RowsSound'
    BY <2>2, <2>3 DEF CasesInv, RowsSound, DatesOK, NewRow
  <2>6. QED
    BY <1>2, <2>2, <2>4, <2>5
<1>3. QED
  BY <1>1, <1>2 DEF Aside

(* It keeps the invariant.                                                 *)
LEMMA AsideStep ==
    ASSUME CasesInv, TypeOK', NEW r \in Requests, Aside(r)
    PROVE  CasesInv'
<1>1. pc \in [Requests -> Pcs] /\ pc' \in [Requests -> Pcs]
  BY DEF CasesInv, TypeOK, Pcs
<1>2. PICK l \in {"done", "crashed", "lookup"} : pc' = [pc EXCEPT ![r] = l]
  BY DEF Aside
<1>3. pc'[r] = l /\ \A q \in Requests \ {r} : pc'[q] = pc[q]
  BY <1>1, <1>2
<1>4. \A q \in Requests : Based(q)' <=> Based(q)
  BY DEF Aside, Based
<1>5. ASSUME NEW q \in Requests, Based(q)
      PROVE  /\ cmd'[q] = cmd[q] /\ cmd[q].row \in Ids
             /\ rows[cmd[q].row].lock # 0 /\ rows'[cmd[q].row] = rows[cmd[q].row]
  <2>1. cmd[q].row \in Ids /\ seen[q].lock <= rows[cmd[q].row].lock
    BY <1>5 DEF CasesInv, Stage, Knows
  <2>2. seen[q].lock \in Nat \ {0} /\ rows[cmd[q].row].lock \in Nat
    BY <1>5, <2>1, Types DEF CasesInv, Based
  <2>3. rows[cmd[q].row].lock # 0
    BY <2>1, <2>2
  <2>4. cmd'[q] = cmd[q]
    BY <1>5 DEF Aside
  <2>5. QED
    BY <2>1, <2>3, <2>4, AsideRows
<1>6. LockedOp'
  BY <1>3 DEF CasesInv, LockedOp, Aside
<1>7. Stage'
  <2> SUFFICES ASSUME NEW q \in Requests
      PROVE  /\ pc'[q] \in {"idle", "lookup"} => ~Based(q) /\ answer'[q] = "none"
             /\ pc'[q] = "idle" => rows'[q].lock = 0
             /\ pc'[q] = "lookup" => cmd'[q].op = "add_document"
             /\ pc'[q] \in {"read", "locked"} => Based(q) /\ answer'[q] = "none"
             /\ Based(q) => cmd'[q].row \in Ids
             /\ answer'[q] # "none" => pc'[q] = "done"
             /\ Accepted(q)' => Based(q)
    BY <1>4 DEF Stage
  <2>1. CASE q = r
    BY <1>3, <1>5, <2>1 DEF Aside, Accepted
  <2>2. CASE q # r
    <3>1. pc'[q] = pc[q]
      BY <1>3, <2>2
    <3>2. cmd'[q] = cmd[q] /\ answer'[q] = answer[q]
      BY <2>2 DEF Aside
    <3>3. pc'[q] = "idle" => rows'[q] = rows[q]
      BY AsideRows
    <3>4. /\ pc[q] \in {"idle", "lookup"} => ~Based(q) /\ answer[q] = "none"
          /\ pc[q] = "idle" => rows[q].lock = 0
          /\ pc[q] = "lookup" => cmd[q].op = "add_document"
          /\ pc[q] \in {"read", "locked"} => Based(q) /\ answer[q] = "none"
          /\ Based(q) => cmd[q].row \in Ids
          /\ answer[q] # "none" => pc[q] = "done"
          /\ Accepted(q) => Based(q)
      BY DEF CasesInv, Stage
    <3>5. QED
      BY <3>1, <3>2, <3>3, <3>4 DEF Accepted
  <2>3. QED
    BY <2>1, <2>2
<1>8. Knows'
  BY <1>4, <1>5 DEF CasesInv, Knows, Aside
<1>9. Holds'
  BY <1>3, <1>5 DEF CasesInv, Stage, Holds, Free, Aside
<1>10. \A q \in Requests : Accepted(q)' => Accepted(q) /\ Based(q) /\ q # r
  BY <1>7, <1>4 DEF Aside, Stage, CasesInv, Accepted
<1>11. OverwritesWhatWasRead'
  BY <1>10 DEF CasesInv, OverwritesWhatWasRead, Aside
<1>12. NoLostUpdate'
  BY <1>5, <1>10 DEF CasesInv, NoLostUpdate, Aside
<1>13. QED
  BY <1>6, <1>7, <1>8, <1>9, <1>11, <1>12, AsideRows DEF CasesInv

(* The operations on children, the insertions, the lookup and a crash.     *)
AsideAction(r) ==
    \/ \E c \in Cases, x \in Texts : CreateCase(r, c, x)
    \/ \E c \in Cases, op \in CaseOps \cup ChildOps : CaseNotFound(r, c, op)
    \/ \E t \in Requests, op \in TaskOps : TaskNotFound(r, t, op)
    \/ \E c \in Cases, x \in Texts : CreateTask(r, c, x)
    \/ \E c \in Cases : CreateComment(r, c)
    \/ \E c \in Cases : CreateDecision(r, c)
    \/ \E c \in Cases, d \in Documents : AddDocument(r, c, d)
    \/ \E c \in Cases, d \in Documents : RemoveDocument(r, c, d)
    \/ LookUp(r)
    \/ Crash(r)

(* They are such steps.                                                    *)
LEMMA AsideActions ==
    ASSUME CasesInv, NEW r \in Requests, AsideAction(r)
    PROVE  Aside(r)
<1> USE DEF CaseOps, TaskOps, ChildOps
<1>1. /\ pc \in [Requests -> Pcs] /\ answer \in [Requests -> Codes]
      /\ cmd \in [Requests -> Cmd] /\ over \in [Requests -> Row]
      /\ Cases \subseteq Ids /\ r \in Ids
  BY DEF CasesInv, TypeOK, Pcs, Codes, Cmd, Ids
<1>2. /\ pc[r] = "idle" => ~Based(r) /\ rows[r].lock = 0 /\ answer[r] = "none"
      /\ pc[r] = "lookup" => ~Based(r) /\ answer[r] = "none"
      /\ pc[r] \in {"read", "locked"} => answer[r] = "none"
      /\ \A c \in Cases : ~Exists(c) => rows[c].lock = 0
  BY <1>1 DEF CasesInv, Stage, RowsSound, Exists
<1>3. ASSUME NEW c \in Cases, NEW x \in Texts, CreateCase(r, c, x) PROVE Aside(r)
  <2>1. cmd'[r].op = "create_case" /\ pc'[r] = "done"
    BY <1>1, <1>3 DEF CreateCase, Return, Goto, Cmd
  <2>2. QED
    BY <1>1, <1>2, <1>3, <2>1 DEF CreateCase, Return, Goto, Aside
<1>4. ASSUME NEW c \in Cases, NEW op \in CaseOps \cup ChildOps, CaseNotFound(r, c, op)
      PROVE  Aside(r)
  BY <1>1, <1>2, <1>4 DEF CaseNotFound, Return, Goto, Aside
<1>5. ASSUME NEW c \in Cases, NEW x \in Texts, CreateTask(r, c, x) PROVE Aside(r)
  <2>1. cmd'[r].op = "create_task" /\ pc'[r] = "done"
    BY <1>1, <1>5 DEF CreateTask, Begin, Return, Goto
  <2>2. QED
    BY <1>1, <1>2, <1>5, <2>1 DEF CreateTask, Begin, Return, Goto, Aside
<1>6. ASSUME NEW c \in Cases, NEW kind \in {"comment", "decision"}, InsertNote(r, c, kind)
      PROVE  Aside(r)
  <2>1. cmd'[r].op = kind /\ pc'[r] = "done"
    BY <1>1, <1>6 DEF InsertNote, Begin, Return, Goto
  <2>2. QED
    BY <1>1, <1>2, <1>6, <2>1 DEF InsertNote, Begin, Return, Goto, Aside
<1>7. ASSUME NEW c \in Cases, NEW d \in Documents, AddDocument(r, c, d) PROVE Aside(r)
  <2>1. cmd'[r].op = "add_document" /\ pc[r] = "idle"
    BY <1>1, <1>7 DEF AddDocument, Begin
  <2>2. QED
    BY <1>1, <1>2, <1>7, <2>1 DEF AddDocument, Begin, Return, Goto, Aside
<1>8. ASSUME NEW c \in Cases, NEW d \in Documents, RemoveDocument(r, c, d) PROVE Aside(r)
  <2>1. cmd'[r].op = "remove_document" /\ pc'[r] = "done"
    BY <1>1, <1>8 DEF RemoveDocument, Begin, Return, Goto
  <2>2. QED
    BY <1>1, <1>2, <1>8, <2>1 DEF RemoveDocument, Begin, Return, Goto, Aside
<1>9. ASSUME LookUp(r) PROVE Aside(r)
  <2>1. cmd[r].op \notin CaseOps \cup TaskOps
    BY <1>9 DEF LookUp, CasesInv, Stage
  <2>2. QED
    BY <1>1, <1>2, <1>9, <2>1 DEF LookUp, Return, Goto, Aside
<1>10. ASSUME Crash(r) PROVE Aside(r)
  BY <1>1, <1>2, <1>10 DEF Crash, Goto, Aside
<1>11. ASSUME NEW t \in Requests, NEW op \in TaskOps, TaskNotFound(r, t, op)
       PROVE  Aside(r)
  BY <1>1, <1>2, <1>11 DEF TaskNotFound, Return, Goto, Aside
<1>12. QED
  BY <1>3, <1>4, <1>5, <1>6, <1>7, <1>8, <1>9, <1>10, <1>11
     DEF AsideAction, CreateComment, CreateDecision

(* A client that reads a row knows it.                                     *)
LEMMA ReadStep ==
    ASSUME CasesInv, TypeOK', NEW r \in Requests, NEW i \in Ids, Read(r, i)
    PROVE  CasesInv'
<1>1. /\ pc \in [Requests -> Pcs] /\ cmd \in [Requests -> Cmd]
      /\ seen \in [Requests -> Row] /\ rows[i] \in Row /\ rows[i].lock \in Nat
  BY Types DEF CasesInv, TypeOK, Pcs, Cmd
<1>2. /\ pc'[r] = "read" /\ seen'[r] = rows[i] /\ cmd'[r].row = i
      /\ cmd'[r].op = cmd[r].op
  BY <1>1 DEF Read, Goto, Cmd
<1>3. \A q \in Requests \ {r} : pc'[q] = pc[q] /\ seen'[q] = seen[q] /\ cmd'[q] = cmd[q]
  BY <1>1 DEF Read, Goto
<1>4. /\ pc[r] = "idle" /\ answer[r] = "none" /\ rows[i].lock # 0
      /\ rows' = rows /\ over' = over /\ work' = work /\ answer' = answer
  BY DEF Read, CasesInv, Stage, RowsSound, Exists
<1>5. Based(r)' /\ \A q \in Requests \ {r} : Based(q)' <=> Based(q)
  BY <1>2, <1>3, <1>4 DEF Based
<1>6. LockedOp' /\ RowsSound'
  BY <1>2, <1>3, <1>4 DEF CasesInv, LockedOp, RowsSound
<1>7. \A q \in Requests : Accepted(q)' => Accepted(q) /\ q # r
  BY <1>3, <1>4 DEF Accepted
<1>8. Stage'
  BY <1>2, <1>3, <1>4, <1>5, <1>7 DEF CasesInv, Stage
<1>9. Knows'
  BY <1>1, <1>2, <1>3, <1>4, <1>5 DEF CasesInv, Knows
<1>10. Holds'
  BY <1>2, <1>3, <1>4 DEF CasesInv, Holds, Free
<1>11. OverwritesWhatWasRead' /\ NoLostUpdate'
  BY <1>3, <1>4, <1>7 DEF CasesInv, OverwritesWhatWasRead, NoLostUpdate
<1>12. QED
  BY <1>6, <1>8, <1>9, <1>10, <1>11 DEF CasesInv

(* Taking the lock of a row for an operation that returns its next version *)
(* or refuses.                                                             *)
LEMMA LockStep ==
    ASSUME CasesInv, TypeOK', NEW r \in Requests, NEW op \in CaseOps \cup TaskOps,
           NEW accepts \in BOOLEAN, NEW new \in Row,
           cmd[r].row \in Ids,
           accepts => NextVersion(cmd[r].row, rows[cmd[r].row], new),
           LockRow(r, op, accepts, new)
    PROVE  CasesInv'
<1>1. /\ pc \in [Requests -> Pcs] /\ cmd \in [Requests -> Cmd]
      /\ over \in [Requests -> Row] /\ work \in [Requests -> Row]
      /\ answer \in [Requests -> Codes]
  BY DEF CasesInv, TypeOK, Pcs, Cmd, Codes
<1>2. /\ cmd'[r].row = cmd[r].row /\ cmd'[r].op = op
      /\ over'[r] = rows[cmd[r].row]
  BY <1>1 DEF LockRow, Cmd
<1>3. \A q \in Requests \ {r} : /\ cmd'[q] = cmd[q] /\ over'[q] = over[q]
                                /\ pc'[q] = pc[q] /\ work'[q] = work[q]
                                /\ answer'[q] = answer[q]
  BY <1>1 DEF LockRow, Return, Goto
<1>4. /\ pc[r] = "read" /\ Free(r, cmd[r].row)
      /\ rows' = rows /\ seen' = seen
      /\ Based(r) /\ answer[r] = "none"
  BY DEF LockRow, CasesInv, Stage
<1>5. \/ /\ pc'[r] = "locked" /\ answer'[r] = "none" /\ work'[r] = new
         /\ NextVersion(cmd[r].row, rows[cmd[r].row], new)
         /\ rows[cmd[r].row].lock = seen[r].lock
      \/ pc'[r] = "done" /\ answer'[r] \in {"conflict", "error"}
  BY <1>1, <1>4 DEF LockRow, Return, Goto
<1>6. \A q \in Requests : /\ Based(q)' <=> Based(q)
                          /\ cmd'[q].row = cmd[q].row
  BY <1>2, <1>3, <1>4 DEF Based
<1>7. LockedOp' /\ RowsSound'
  BY <1>2, <1>3, <1>4 DEF CasesInv, LockedOp, RowsSound
<1>8. \A q \in Requests : Accepted(q)' => Accepted(q) /\ q # r
  BY <1>3, <1>5 DEF Accepted
<1>9. Stage'
  BY <1>3, <1>4, <1>5, <1>6, <1>8 DEF CasesInv, Stage
<1>10. Knows'
  BY <1>4, <1>6 DEF CasesInv, Knows
<1>11. Holds'
  <2>1. ASSUME NEW q \in Requests \ {r}, pc'[q] = "locked"
        PROVE  Free(q, cmd[q].row)' /\ cmd[q].row # cmd[r].row
    BY <1>3, <1>4, <1>6, <2>1 DEF CasesInv, Holds, Free
  <2>2. ASSUME pc'[r] = "locked"
        PROVE  /\ Free(r, cmd[r].row)'
               /\ over'[r] = rows[cmd[r].row] /\ over'[r] = seen[r]
               /\ NextVersion(cmd[r].row, over'[r], work'[r])
    BY <1>2, <1>3, <1>4, <1>5, <1>6, <2>2 DEF CasesInv, Knows, Free
  <2>3. QED
    BY <1>3, <1>4, <1>6, <2>1, <2>2 DEF CasesInv, Holds, NextVersion
<1>12. OverwritesWhatWasRead' /\ NoLostUpdate'
  BY <1>3, <1>4, <1>6, <1>8 DEF CasesInv, OverwritesWhatWasRead, NoLostUpdate
<1>13. QED
  BY <1>7, <1>9, <1>10, <1>11, <1>12 DEF CasesInv

(* Each operation of the aggregates returns the next version.              *)
LEMMA LockingStep ==
    ASSUME CasesInv, TypeOK', NEW r \in Requests, Locking(r)
    PROVE  CasesInv'
<1>1. cmd[r].row \in Ids
  BY DEF Locking, UpdateCase, CloseCase, ReopenCase, ArchiveCase, UpdateTask,
         CompleteTask, Ids
<1>2. DEFINE row == rows[cmd[r].row]
<1>3. /\ row \in Row /\ DatesOK(row) /\ row.lock \in Nat
      /\ cmd[r].row \notin Cases => row.status # "archived"
  BY <1>1, Types DEF CasesInv, RowsSound
<1>4. row.status # "absent"
  <2>1. pc[r] = "read"
    BY DEF Locking, UpdateCase, CloseCase, ReopenCase, ArchiveCase, UpdateTask,
           CompleteTask, LockRow
  <2>2. seen[r].lock # 0 /\ seen[r].lock <= row.lock /\ seen[r].lock \in Nat
    BY <2>1, Types DEF CasesInv, Stage, Knows, Based
  <2>3. QED
    BY <1>1, <1>3, <2>2 DEF CasesInv, RowsSound
<1>5. cmd[r].row \in Requests => cmd[r].row \notin Cases
  BY CasesAssumption
<1>6. PICK op \in CaseOps \cup TaskOps, accepts \in BOOLEAN, new \in Row :
        /\ LockRow(r, op, accepts, new)
        /\ accepts => NextVersion(cmd[r].row, row, new)
  <2> USE DEF CaseOps, TaskOps
  <2>1. ASSUME NEW x \in Texts, UpdateCase(r, x)
        PROVE  /\ LockRow(r, "update", Mutable(row), CaseUpdate(row, x))
               /\ Mutable(row) => NextVersion(cmd[r].row, row, CaseUpdate(row, x))
    BY <1>3, <1>4, <2>1 DEF UpdateCase, Mutable, NextVersion, CaseUpdate, DatesOK, Row
  <2>2. ASSUME CloseCase(r)
        PROVE  /\ LockRow(r, "close", Mutable(row), CaseClose(row))
               /\ Mutable(row) => NextVersion(cmd[r].row, row, CaseClose(row))
    BY <1>3, <1>4, <2>2 DEF CloseCase, Mutable, NextVersion, CaseClose, DatesOK, Row
  <2>3. ASSUME ReopenCase(r)
        PROVE  /\ LockRow(r, "reopen", Mutable(row), CaseReopen(row))
               /\ Mutable(row) => NextVersion(cmd[r].row, row, CaseReopen(row))
    BY <1>3, <1>4, <2>3 DEF ReopenCase, Mutable, NextVersion, CaseReopen, DatesOK, Row
  <2>4. ASSUME ArchiveCase(r)
        PROVE  /\ LockRow(r, "archive", TRUE, CaseArchive(row))
               /\ NextVersion(cmd[r].row, row, CaseArchive(row))
    BY <1>3, <1>4, <2>4 DEF ArchiveCase, NextVersion, CaseArchive, DatesOK, Row
  <2>5. ASSUME NEW x \in Texts, UpdateTask(r, x)
        PROVE  /\ LockRow(r, "update", TRUE, TaskUpdate(row, x))
               /\ NextVersion(cmd[r].row, row, TaskUpdate(row, x))
    BY <1>3, <1>4, <1>5, <2>5 DEF UpdateTask, NextVersion, TaskUpdate, DatesOK, Row
  <2>6. ASSUME CompleteTask(r)
        PROVE  /\ LockRow(r, "complete", TRUE, TaskComplete(row))
               /\ NextVersion(cmd[r].row, row, TaskComplete(row))
    BY <1>3, <1>4, <1>5, <2>6 DEF CompleteTask, NextVersion, TaskComplete, DatesOK, Row
  <2>7. Mutable(row) \in BOOLEAN
    BY DEF Mutable
  <2>8. QED
    BY <1>3, <2>1, <2>2, <2>3, <2>4, <2>5, <2>6, <2>7, ChangeType DEF Locking
<1>7. QED
  BY <1>1, <1>6, LockStep

(* The UPDATE and the commit of a request that holds the lock of its row.  *)
LEMMA WriteStep ==
    ASSUME CasesInv, TypeOK', NEW r \in Requests, WriteCase(r) \/ WriteTask(r)
    PROVE  CasesInv'
<1>1. /\ pc \in [Requests -> Pcs] /\ answer \in [Requests -> Codes]
      /\ rows \in [Ids -> Row]
  BY DEF CasesInv, TypeOK, Pcs, Codes
<1>2. DEFINE i == cmd[r].row
<1>3. /\ pc[r] = "locked" /\ i \in Ids
      /\ cmd' = cmd /\ seen' = seen /\ over' = over /\ work' = work
      /\ UpdateRow(i, work[r])
  BY DEF WriteCase, WriteTask, Ids
<1>4. /\ Free(r, i) /\ over[r] = rows[i] /\ over[r] = seen[r]
      /\ NextVersion(i, rows[i], work[r]) /\ Based(r)
  BY <1>3 DEF CasesInv, Holds, Stage
<1>5. work[r].lock = rows[i].lock + 1 /\ rows[i].lock \in Nat /\ work[r].lock \in Nat
  BY <1>3, <1>4, Types DEF CasesInv, NextVersion
<1>6. rows' = [rows EXCEPT ![i] = work[r]]
  BY <1>3, <1>5 DEF UpdateRow
<1>7. rows'[i] = work[r] /\ \A j \in Ids \ {i} : rows'[j] = rows[j]
  BY <1>1, <1>3, <1>6
<1>8. /\ pc'[r] = "done" /\ answer'[r] = "ok"
      /\ \A q \in Requests \ {r} : pc'[q] = pc[q] /\ answer'[q] = answer[q]
  BY <1>1 DEF WriteCase, WriteTask, Return, Goto
<1>9. \A q \in Requests : Based(q)' <=> Based(q)
  BY <1>3 DEF Based
<1>10. LockedOp'
  BY <1>3, <1>8 DEF CasesInv, LockedOp
<1>11. RowsSound'
  <2>1. rows'[i].lock # 0 /\ rows'[i].status # "absent"
    BY <1>4, <1>5, <1>7 DEF NextVersion
  <2>2. DatesOK(rows'[i]) /\ (i \notin Cases => rows'[i].status # "archived")
    BY <1>4, <1>7 DEF NextVersion
  <2>3. QED
    BY <1>7, <2>1, <2>2 DEF CasesInv, RowsSound
<1>12. Stage'
  <2>1. \A q \in Requests : pc'[q] = "idle" => q # i /\ q \in Ids
    <3>1. rows[i].lock # 0
      BY <1>4 DEF Based
    <3>2. QED
      BY <1>8, <3>1 DEF CasesInv, Stage, Ids
  <2>2. \A q \in Requests : pc'[q] = "idle" => rows'[q].lock = 0
    BY <1>7, <1>8, <2>1 DEF CasesInv, Stage
  <2>3. \A q \in Requests : Accepted(q)' => Based(q)
    BY <1>3, <1>4, <1>8 DEF CasesInv, Stage, Accepted
  <2>4. QED
    BY <1>3, <1>8, <1>9, <2>2, <2>3 DEF CasesInv, Stage
<1>13. Knows'
  <2> SUFFICES ASSUME NEW q \in Requests, Based(q)
      PROVE  /\ seen[q].lock <= rows'[cmd[q].row].lock
             /\ seen[q].lock = rows'[cmd[q].row].lock => seen[q] = rows'[cmd[q].row]
    BY <1>3, <1>9 DEF Knows
  <2>1. CASE cmd[q].row = i
    <3>1. seen[q].lock <= rows[i].lock /\ seen[q].lock \in Nat
      BY <2>1, Types DEF CasesInv, Knows
    <3>2. QED
      BY <1>5, <1>7, <2>1, <3>1
  <2>2. CASE cmd[q].row # i
    BY <1>7, <2>2 DEF CasesInv, Stage, Knows
  <2>3. QED
    BY <2>1, <2>2
<1>14. Holds'
  <2> SUFFICES ASSUME NEW q \in Requests, pc'[q] = "locked"
      PROVE  /\ Free(q, cmd[q].row)'
             /\ over[q] = rows'[cmd[q].row] /\ over[q] = seen[q]
             /\ NextVersion(cmd[q].row, over[q], work[q])
    BY <1>3 DEF Holds
  <2>1. q # r /\ pc[q] = "locked" /\ cmd[q].row # i /\ cmd[q].row \in Ids
    BY <1>4, <1>8 DEF Free, CasesInv, Stage
  <2>2. rows'[cmd[q].row] = rows[cmd[q].row]
    BY <1>7, <2>1
  <2>3. Free(q, cmd[q].row)'
    BY <1>3, <1>8, <2>1 DEF CasesInv, Holds, Free
  <2>4. QED
    BY <2>1, <2>2, <2>3 DEF CasesInv, Holds
<1>15. OverwritesWhatWasRead'
  BY <1>3, <1>4, <1>8 DEF CasesInv, OverwritesWhatWasRead, Accepted
<1>16. NoLostUpdate'
  <2>1. \A q \in Requests \ {r} : Accepted(q)' <=> Accepted(q)
    BY <1>3, <1>8 DEF Accepted
  <2>2. ASSUME NEW q \in Requests \ {r}, Accepted(q)
        PROVE  /\ work[q].lock <= rows'[cmd[q].row].lock
               /\ cmd[q].row = i => work[q].lock # work[r].lock
    <3>1. /\ work[q].lock <= rows[cmd[q].row].lock /\ cmd[q].row \in Ids
          /\ work[q].lock \in Nat
      BY <2>2, Types DEF CasesInv, NoLostUpdate, Stage
    <3>2. CASE cmd[q].row = i
      BY <1>5, <1>7, <3>1, <3>2
    <3>3. CASE cmd[q].row # i
      BY <1>7, <3>1, <3>3
    <3>4. QED
      BY <3>2, <3>3
  <2>3. work[r].lock <= rows'[i].lock
    BY <1>5, <1>7
  <2>4. QED
    BY <1>3, <2>1, <2>2, <2>3 DEF CasesInv, NoLostUpdate
<1>17. QED
  BY <1>10, <1>11, <1>12, <1>13, <1>14, <1>15, <1>16 DEF CasesInv

(* The tables are empty at first.                                          *)
LEMMA CasesInit == Init => CasesInv
<1> SUFFICES ASSUME Init PROVE CasesInv
  OBVIOUS
<1> USE DEF Init, NoRow
<1>1. TypeOK
  BY DEF TypeOK, Row, Ids
<1>2. LockedOp /\ RowsSound /\ Stage /\ Knows /\ Holds
  BY DEF LockedOp, RowsSound, DatesOK, Stage, Knows, Holds, Based, Accepted, Ids
<1>3. OverwritesWhatWasRead /\ NoLostUpdate
  BY DEF OverwritesWhatWasRead, NoLostUpdate, Accepted
<1>4. QED
  BY <1>1, <1>2, <1>3 DEF CasesInv

(* A step is aside, a read, the taking of a lock or a write.               *)
LEMMA StepKinds ==
    ASSUME CasesInv, Next
    PROVE  \E r \in Requests :
              \/ Aside(r)
              \/ \E i \in Ids : Read(r, i)
              \/ Locking(r)
              \/ WriteCase(r)
              \/ WriteTask(r)
<1>1. PICK r \in Requests :
        \/ AsideAction(r)
        \/ \E i \in Ids : Read(r, i)
        \/ Locking(r)
        \/ WriteCase(r)
        \/ WriteTask(r)
  BY DEF Next, Locking, AsideAction
<1>2. AsideAction(r) => Aside(r)
  BY AsideActions
<1>3. QED
  BY <1>1, <1>2

(* The invariant is inductive.                                             *)
LEMMA CasesStep == CasesInv /\ [Next]_vars => CasesInv'
<1> SUFFICES ASSUME CasesInv, [Next]_vars PROVE CasesInv'
  OBVIOUS
<1>1. TypeOK'
  BY TypeStep DEF CasesInv
<1>2. CASE Next
  BY <1>1, <1>2, StepKinds, AsideStep, ReadStep, LockingStep, WriteStep
<1>3. CASE UNCHANGED vars
  <2>1. TypeOK' /\ LockedOp' /\ RowsSound' /\ Knows' /\ Stage'
    BY <1>1, <1>3 DEF vars, CasesInv, LockedOp, RowsSound, Knows, Stage, Based, Accepted
  <2>2. Holds' /\ OverwritesWhatWasRead' /\ NoLostUpdate'
    BY <1>3 DEF vars, CasesInv, Holds, Free, OverwritesWhatWasRead, NoLostUpdate, Accepted
  <2>3. QED
    BY <2>1, <2>2 DEF CasesInv
<1>4. QED
  BY <1>2, <1>3

(* CasesInv holds in every reachable state.                                *)
LEMMA CasesInvariant == Spec => []CasesInv
BY CasesInit, CasesStep, PTL DEF Spec

(* Every table and every request of the case service holds values of its   *)
(* own kind.                                                               *)
THEOREM TypeCorrect == Spec => []TypeOK
BY CasesInvariant, PTL DEF CasesInv

(* No accepted change of a case or task is lost, although update ignores   *)
(* how many rows it has written.                                           *)
THEOREM NoUpdateIsLost == Spec => []NoLostUpdate
BY CasesInvariant, PTL DEF CasesInv

(* No accepted change overwrites what its client has not read.             *)
THEOREM NothingUnseenIsOverwritten == Spec => []OverwritesWhatWasRead
BY CasesInvariant, PTL DEF CasesInv

(* The dates of cases and tasks agree with their status.                   *)
THEOREM DatesAlwaysAgree == Spec => []DatesAgreeWithStatus
<1>1. CasesInv => DatesAgreeWithStatus
  BY DEF CasesInv, RowsSound, DatesOK, DatesAgreeWithStatus
<1>2. QED
  BY <1>1, CasesInvariant, PTL

(* An archived case stays archived with the contents it had.               *)
THEOREM ArchivedCasesStay == Spec => ArchivedForever
<1>1. ASSUME CasesInv, [Next]_vars, NEW c \in Cases, rows[c].status = "archived"
      PROVE  rows'[c].status = "archived" /\ rows'[c].text = rows[c].text
  <2>1. c \in Ids /\ rows[c].lock # 0 /\ rows \in [Ids -> Row]
    BY <1>1 DEF CasesInv, RowsSound, Ids, TypeOK
  <2>2. ASSUME NEW r \in Requests, WriteCase(r) \/ WriteTask(r), rows'[c] # rows[c]
        PROVE  rows'[c].status = "archived" /\ rows'[c].text = rows[c].text
    <3>1. pc[r] = "locked" /\ cmd[r].row = c /\ rows'[c] = work[r]
      BY <2>1, <2>2 DEF WriteCase, WriteTask, UpdateRow
    <3>2. QED
      BY <1>1, <3>1 DEF CasesInv, Holds, NextVersion
  <2>3. ASSUME NEW r \in Requests, Aside(r) PROVE rows'[c] = rows[c]
    BY <1>1, <2>1, <2>3, AsideRows
  <2>4. ASSUME NEW r \in Requests, Locking(r) \/ \E i \in Ids : Read(r, i)
        PROVE  rows' = rows
    BY <2>4 DEF Locking, Read, LockRow, UpdateCase, CloseCase, ReopenCase, ArchiveCase,
                UpdateTask, CompleteTask
  <2>5. CASE Next
    BY <1>1, <2>2, <2>3, <2>4, <2>5, StepKinds
  <2>6. CASE UNCHANGED vars
    BY <1>1, <2>6 DEF vars
  <2>7. QED
    BY <1>1, <2>5, <2>6
<1>2. CasesInv /\ [Next]_vars => [\A c \in Cases : rows[c].status = "archived" =>
          /\ rows'[c].status = "archived"
          /\ rows'[c].text = rows[c].text]_vars
  BY <1>1
<1>3. QED
  BY <1>2, CasesInvariant, PTL DEF Spec, ArchivedForever

-----------------------------------------------------------------------------
(* The audit trail.  The events about row i:                               *)
Events(i) == {e \in trail : About(e, i)}

(* Who is not done has recorded nothing, and events are as many as         *)
(* versions.                                                               *)
Counted(i) == IsFiniteSet(Events(i)) /\ Cardinality(Events(i)) = rows[i].lock

TrailFacts ==
    /\ \A r \in Requests : pc[r] # "done" => \A e \in trail : e[1] # r
    /\ \A i \in Ids : Counted(i)

(* The events whose number is the version of a row.                        *)
Versioning == CaseOps \cup TaskOps \cup {"create_case"}

(* A step of r, which may end with an event of its own.                    *)
StepOf(r) ==
    /\ pc[r] # "done"
    /\ \A q \in Requests \ {r} : cmd'[q] = cmd[q] /\ pc'[q] = pc[q]

(* What the recorded events are about does not change.                     *)
LEMMA SameMeaning ==
    ASSUME TypeOK, TrailFacts, NEW r \in Requests, StepOf(r), NEW e \in trail, NEW i
    PROVE  About(e, i)' <=> About(e, i)
<1>1. e[1] \in Requests \ {r}
  BY DEF TypeOK, TrailFacts, StepOf
<1>2. cmd'[e[1]] = cmd[e[1]]
  BY <1>1 DEF StepOf
<1> QED BY <1>2 DEF About

(* A step that changes no version and records no event of a version.       *)
LEMMA UncountedStep ==
    ASSUME TypeOK, TrailFacts, NEW r \in Requests, StepOf(r),
           \A i \in Ids : rows'[i].lock = rows[i].lock,
           \/ trail' = trail
           \/ /\ pc'[r] = "done"
              /\ \E event \in Ops \ (Versioning \cup {"create_task"}) :
                    trail' = trail \cup {<<r, event>>}
    PROVE  TrailFacts'
<1>1. ASSUME NEW i \in Ids, NEW e \in trail', About(e, i)' PROVE e \in trail
  BY <1>1 DEF About, Versioning
<1>2. ASSUME NEW i \in Ids PROVE Events(i)' = Events(i)
  <2>1. \A e \in trail : About(e, i)' <=> About(e, i)
    BY SameMeaning
  <2>2. trail \subseteq trail'
    OBVIOUS
  <2> QED BY <1>1, <2>1, <2>2 DEF Events
<1>3. ASSUME NEW i \in Ids PROVE Counted(i)'
  <2>1. Counted(i) /\ Events(i)' = Events(i)
    BY <1>2 DEF TrailFacts
  <2> QED BY <2>1 DEF Counted
<1>4. ASSUME NEW q \in Requests, pc'[q] # "done", NEW e \in trail' PROVE e[1] # q
  <2>1. CASE e \in trail
    BY <1>4, <2>1 DEF TrailFacts, StepOf
  <2>2. CASE e \notin trail
    BY <1>4, <2>2
  <2> QED BY <2>1, <2>2
<1> QED BY <1>3, <1>4 DEF TrailFacts

(* A step that gives row i its next version and records it.                *)
LEMMA CountedStep ==
    ASSUME TypeOK, TrailFacts, NEW r \in Requests, NEW i \in Ids, NEW event, StepOf(r),
           pc'[r] = "done", trail' = trail \cup {<<r, event>>},
           About(<<r, event>>, i)', \A j \in Ids \ {i} : ~About(<<r, event>>, j)',
           rows'[i].lock = rows[i].lock + 1,
           \A j \in Ids \ {i} : rows'[j].lock = rows[j].lock
    PROVE  TrailFacts'
<1> DEFINE x == <<r, event>>
<1>1. x \notin trail /\ x[1] = r
  BY DEF TrailFacts, StepOf
<1>2. trail' = trail \cup {x} /\ About(x, i)' /\ \A j \in Ids \ {i} : ~About(x, j)'
  OBVIOUS
<1> HIDE DEF x
<1>3. Events(i)' = Events(i) \cup {x} /\ x \notin Events(i)
  <2>1. \A e \in trail : About(e, i)' <=> About(e, i)
    BY SameMeaning
  <2> QED BY <1>1, <1>2, <2>1 DEF Events
<1>4. ASSUME NEW j \in Ids PROVE Counted(j)'
  <2>1. CASE j = i
    <3>1. IsFiniteSet(Events(i)) /\ Cardinality(Events(i)) = rows[i].lock
      BY DEF TrailFacts, Counted
    <3>2. IsFiniteSet(Events(i) \cup {x}) /\ Cardinality(Events(i) \cup {x}) = rows[i].lock + 1
      BY <1>3, <3>1, FS_AddElement
    <3> QED BY <1>3, <2>1, <3>2 DEF Counted
  <2>2. CASE j # i
    <3>1. \A e \in trail : About(e, j)' <=> About(e, j)
      BY SameMeaning
    <3>2. Events(j)' = Events(j)
      BY <1>2, <2>2, <3>1 DEF Events
    <3>3. Counted(j) /\ rows'[j].lock = rows[j].lock
      BY <2>2 DEF TrailFacts
    <3> QED BY <3>2, <3>3 DEF Counted
  <2> QED BY <2>1, <2>2
<1>5. ASSUME NEW q \in Requests, pc'[q] # "done", NEW e \in trail' PROVE e[1] # q
  BY <1>1, <1>2, <1>5 DEF TrailFacts, StepOf
<1> QED BY <1>4, <1>5 DEF TrailFacts

LEMMA AsideTrail ==
    ASSUME CasesInv, TrailFacts, NEW r \in Requests, AsideAction(r) PROVE TrailFacts'
<1> USE DEF CaseOps, TaskOps, ChildOps
<1>1. /\ TypeOK /\ pc \in [Requests -> Pcs] /\ cmd \in [Requests -> Cmd]
      /\ rows \in [Ids -> Row] /\ Cases \subseteq Ids /\ r \in Ids
  BY DEF CasesInv, TypeOK, Pcs, Cmd, Ids
<1>2. StepOf(r)
  <2>1. Aside(r)
    BY AsideActions
  <2> QED BY <1>1, <2>1 DEF Aside, StepOf
<1>3. ASSUME NEW c \in Cases, NEW x \in Texts, CreateCase(r, c, x) PROVE TrailFacts'
  <2>1. /\ pc'[r] = "done" /\ trail' = trail \cup {<<r, "create_case">>}
        /\ cmd'[r].row = c /\ c \in Ids /\ rows[c].lock = 0
    BY <1>1, <1>3 DEF CreateCase, Return, Goto, Record, Exists, CasesInv, RowsSound
  <2>2. rows'[c].lock = 1 /\ \A j \in Ids \ {c} : rows'[j].lock = rows[j].lock
    BY <1>1, <1>3 DEF CreateCase, NewRow
  <2>3. \A j \in Ids : About(<<r, "create_case">>, j)' <=> j = c
    BY <2>1 DEF About
  <2> QED BY <1>1, <1>2, <2>1, <2>2, <2>3, CountedStep
<1>4. ASSUME NEW c \in Cases, NEW x \in Texts, CreateTask(r, c, x) PROVE TrailFacts'
  <2>1. /\ pc'[r] = "done" /\ trail' = trail \cup {<<r, "create_task">>}
        /\ r \in Ids /\ rows[r].lock = 0
    BY <1>1, <1>4 DEF CreateTask, Begin, Return, Goto, Record, CasesInv, Stage
  <2>2. rows'[r].lock = 1 /\ \A j \in Ids \ {r} : rows'[j].lock = rows[j].lock
    BY <1>1, <1>4 DEF CreateTask, NewRow
  <2>3. \A j \in Ids : About(<<r, "create_task">>, j)' <=> j = r
    BY DEF About
  <2> QED BY <1>1, <1>2, <2>1, <2>2, <2>3, CountedStep
<1>5. ASSUME \/ \E c \in Cases, op \in CaseOps \cup ChildOps : CaseNotFound(r, c, op)
             \/ \E t \in Requests, op \in TaskOps : TaskNotFound(r, t, op)
             \/ Crash(r)
      PROVE  TrailFacts'
  <2>1. trail' = trail /\ rows' = rows
    BY <1>5 DEF CaseNotFound, TaskNotFound, Crash
  <2> QED BY <1>1, <1>2, <2>1, UncountedStep
<1>6. ASSUME \/ \E c \in Cases : CreateComment(r, c) \/ CreateDecision(r, c)
             \/ \E c \in Cases, d \in Documents : AddDocument(r, c, d) \/ RemoveDocument(r, c, d)
             \/ LookUp(r)
      PROVE  TrailFacts'
  <2>1. /\ rows' = rows
        /\ \/ trail' = trail
           \/ /\ pc'[r] = "done"
              /\ \E event \in {"comment", "decision", "add_document", "remove_document"} :
                    trail' = trail \cup {<<r, event>>}
    BY <1>1, <1>6 DEF CreateComment, CreateDecision, InsertNote, AddDocument, RemoveDocument,
                      LookUp, Record, Return, Goto
  <2>2. {"comment", "decision", "add_document", "remove_document"}
           \subseteq Ops \ (Versioning \cup {"create_task"})
    BY DEF Ops, Versioning
  <2> QED BY <1>1, <1>2, <2>1, <2>2, UncountedStep
<1> QED BY <1>3, <1>4, <1>5, <1>6 DEF AsideAction

LEMMA WriteTrail ==
    ASSUME CasesInv, TrailFacts, NEW r \in Requests, NEW i \in Ids, i = cmd[r].row,
           WriteCase(r) \/ WriteTask(r)
    PROVE  TrailFacts'
<1>1. /\ TypeOK /\ pc \in [Requests -> Pcs] /\ rows \in [Ids -> Row]
  BY DEF CasesInv, TypeOK, Pcs
<1>2. /\ pc[r] = "locked" /\ cmd' = cmd /\ UpdateRow(i, work[r])
      /\ trail' = trail \cup {<<r, cmd[r].op>>} /\ cmd[r].op \in CaseOps \cup TaskOps
  BY DEF WriteCase, WriteTask, Record, CasesInv, LockedOp
<1>3. work[r].lock = rows[i].lock + 1 /\ rows[i].lock \in Nat
  BY <1>2, Types DEF CasesInv, Holds, NextVersion
<1>4. rows'[i].lock = rows[i].lock + 1 /\ \A j \in Ids \ {i} : rows'[j].lock = rows[j].lock
  <2>1. rows' = [rows EXCEPT ![i] = work[r]]
    BY <1>2, <1>3 DEF UpdateRow
  <2> QED BY <1>1, <1>3, <2>1
<1>5. pc'[r] = "done" /\ StepOf(r)
  BY <1>1, <1>2 DEF WriteCase, WriteTask, Return, Goto, StepOf
<1>6. PICK event : event = cmd[r].op
  OBVIOUS
<1>7. \A j \in Ids : About(<<r, event>>, j)' <=> j = i
  BY <1>2, <1>6 DEF About, CaseOps, TaskOps
<1>8. trail' = trail \cup {<<r, event>>}
  BY <1>2, <1>6
<1> QED BY <1>1, <1>4, <1>5, <1>7, <1>8, CountedStep

LEMMA TrailStep == CasesInv /\ TrailFacts /\ [Next]_vars => TrailFacts'
<1> SUFFICES ASSUME CasesInv, TrailFacts, [Next]_vars PROVE TrailFacts'
  OBVIOUS
<1>1. CASE UNCHANGED vars
  <2>1. \A i \in Ids : Events(i)' = Events(i)
    BY <1>1 DEF vars, Events, About
  <2>2. ASSUME NEW i \in Ids PROVE Counted(i)'
    <3>1. Counted(i) /\ Events(i)' = Events(i) /\ rows' = rows
      BY <1>1, <2>1 DEF vars, TrailFacts
    <3> QED BY <3>1 DEF Counted
  <2> QED BY <1>1, <2>2 DEF vars, TrailFacts
<1>2. ASSUME NEW r \in Requests, NEW i \in Ids, Read(r, i) PROVE TrailFacts'
  <2>1. TypeOK /\ StepOf(r) /\ trail' = trail /\ rows' = rows
    BY <1>2 DEF Read, Goto, StepOf, CasesInv, TypeOK
  <2> QED BY <2>1, UncountedStep
<1>3. ASSUME NEW r \in Requests, Locking(r) PROVE TrailFacts'
  <2>1. PICK op, accepts, new : LockRow(r, op, accepts, new)
    BY <1>3 DEF Locking, UpdateCase, CloseCase, ReopenCase, ArchiveCase, UpdateTask,
                CompleteTask
  <2>2. TypeOK /\ StepOf(r) /\ trail' = trail /\ rows' = rows
    BY <2>1 DEF LockRow, Return, Goto, StepOf, CasesInv, TypeOK
  <2> QED BY <2>2, UncountedStep
<1>4. ASSUME NEW r \in Requests, WriteCase(r) \/ WriteTask(r) PROVE TrailFacts'
  <2>1. PICK i \in Ids : i = cmd[r].row
    BY <1>4 DEF WriteCase, WriteTask, Ids
  <2> QED BY <1>4, <2>1, WriteTrail
<1>5. Next => \E r \in Requests :
                 \/ AsideAction(r)
                 \/ \E i \in Ids : Read(r, i)
                 \/ Locking(r)
                 \/ WriteCase(r)
                 \/ WriteTask(r)
  BY DEF Next, Locking, AsideAction
<1> QED BY <1>1, <1>2, <1>3, <1>4, <1>5, AsideTrail

(* The audit trail of every case and task has as many events about it as   *)
(* the row has versions, for any number of requests, crashes and refused   *)
(* changes (_record before commit).                                        *)
THEOREM TrailCountsVersions == Spec => []TrailExplainsVersion
<1>1. Init => TrailFacts
  <2> SUFFICES ASSUME Init PROVE TrailFacts
    OBVIOUS
  <2>1. \A i \in Ids : Events(i) = {} /\ rows[i].lock = 0
    BY DEF Init, Events, NoRow
  <2> QED BY <2>1, FS_EmptySet DEF Init, TrailFacts, Counted
<1>2. CasesInv /\ TrailFacts /\ [Next]_vars => TrailFacts'
  BY TrailStep
<1>3. TrailFacts => TrailExplainsVersion
  BY DEF TrailFacts, Counted, Events, TrailExplainsVersion
<1> QED BY <1>1, <1>2, <1>3, CasesInvariant, PTL DEF Spec

-----------------------------------------------------------------------------
(* The tables implement OptimisticRows.                                    *)

(* The empty tables map to the empty table.                                *)
LEMMA AbstractInit == Init => Abstract!Init
BY DEF Init, NoRow, Abstract!Init, Versions, Basis, Verdict, Based

(* A step aside inserts a row or is not visible.                           *)
LEMMA AsideRefines ==
    ASSUME CasesInv, NEW r \in Requests, Aside(r)
    PROVE  \/ UNCHANGED <<Versions, Basis, Verdict>>
           \/ \E i \in Ids : Abstract!Insert(i)
<1>1. \A q \in Requests : Based(q)' <=> Based(q)
  BY DEF Aside, Based
<1>2. Basis' = Basis
  BY <1>1 DEF Aside, Basis
<1>3. \A q \in Requests : Based(q) => answer'[q] = answer[q]
  BY DEF Aside, CasesInv, Stage
<1>4. Verdict' = Verdict
  BY <1>1, <1>3 DEF Verdict
<1>5. CASE rows' = rows
  BY <1>2, <1>4, <1>5 DEF Versions
<1>6. ASSUME NEW i \in Ids, NEW c \in Cases, NEW x \in Texts, rows[i].lock = 0,
             rows' = [rows EXCEPT ![i] = NewRow(c, x)]
      PROVE  Abstract!Insert(i)
  <2>1. Versions[i] = 0
    BY <1>6 DEF Versions
  <2>2. Versions' = [Versions EXCEPT ![i] = 1]
    BY <1>6 DEF Versions, NewRow, CasesInv, TypeOK
  <2>3. QED
    BY <1>2, <1>4, <2>1, <2>2 DEF Abstract!Insert
<1>7. QED
  BY <1>5, <1>6 DEF Aside

(* A client's read is a read.                                              *)
LEMMA ReadRefines ==
    ASSUME CasesInv, NEW r \in Requests, NEW i \in Ids, Read(r, i)
    PROVE  Abstract!Read(r, i)
<1>1. /\ cmd \in [Requests -> Cmd] /\ seen \in [Requests -> Row]
      /\ rows[i].lock \in Nat /\ rows[i].lock # 0
      /\ ~Based(r) /\ answer[r] = "none" /\ rows' = rows /\ answer' = answer
  BY Types DEF CasesInv, TypeOK, Cmd, Read, Stage, RowsSound, Exists
<1>2. cmd'[r].row = i /\ seen'[r] = rows[i] /\ Based(r)'
  BY <1>1 DEF Read, Cmd, Based
<1>3. \A q \in Requests \ {r} : cmd'[q] = cmd[q] /\ seen'[q] = seen[q] /\ (Based(q)' <=> Based(q))
  BY <1>1 DEF Read, Based
<1>4. Basis[r].row = None /\ Versions[i] > 0 /\ Versions' = Versions
  BY <1>1 DEF Basis, Versions
<1>5. Basis' = [Basis EXCEPT ![r] = [row |-> i, version |-> Versions[i]]]
  BY <1>2, <1>3 DEF Basis, Versions
<1>6. Verdict' = Verdict
  BY <1>1, <1>2, <1>3 DEF Verdict
<1>7. QED
  BY <1>4, <1>5, <1>6 DEF Abstract!Read

(* Taking a lock is not visible, unless it ends in a conflict.             *)
LEMMA LockRefines ==
    ASSUME CasesInv, NEW r \in Requests, NEW op, NEW accepts \in BOOLEAN, NEW new,
           LockRow(r, op, accepts, new)
    PROVE  UNCHANGED <<Versions, Basis, Verdict>> \/ Abstract!Conflict(r)
<1>1. /\ pc[r] = "read" /\ Based(r) /\ answer[r] = "none" /\ cmd[r].row \in Ids
      /\ rows' = rows /\ seen' = seen
      /\ cmd \in [Requests -> Cmd] /\ answer \in [Requests -> Codes]
  BY DEF CasesInv, TypeOK, Cmd, Codes, Stage, LockRow
<1>2. \A q \in Requests : cmd'[q].row = cmd[q].row /\ (Based(q)' <=> Based(q))
  BY <1>1 DEF LockRow, Cmd, Based
<1>3. Versions' = Versions /\ Basis' = Basis
  BY <1>1, <1>2 DEF Versions, Basis
<1>4. CASE rows[cmd[r].row].lock # seen[r].lock
  <2>1. answer' = [answer EXCEPT ![r] = "conflict"]
    BY <1>4 DEF LockRow, Return
  <2>2. Verdict' = [Verdict EXCEPT ![r] = "conflict"]
    BY <1>1, <1>2, <2>1 DEF Verdict
  <2>3. /\ Verdict[r] = "none" /\ Basis[r].row = cmd[r].row
        /\ Basis[r].version = seen[r].lock
        /\ Versions[cmd[r].row] = rows[cmd[r].row].lock
    BY <1>1 DEF Verdict, Basis, Versions
  <2>4. QED
    BY <1>1, <1>3, <1>4, <2>2, <2>3 DEF Abstract!Conflict
<1>5. CASE rows[cmd[r].row].lock = seen[r].lock
  <2>1. answer' = answer \/ answer' = [answer EXCEPT ![r] = "error"]
    BY <1>5 DEF LockRow, Return
  <2>2. Verdict' = Verdict
    BY <1>1, <1>2, <2>1 DEF Verdict
  <2>3. QED
    BY <1>3, <2>2
<1>6. QED
  BY <1>4, <1>5

(* The write is the step in which the change is accepted.                  *)
LEMMA WriteRefines ==
    ASSUME CasesInv, NEW r \in Requests, WriteCase(r) \/ WriteTask(r)
    PROVE  Abstract!Accept(r)
<1>1. /\ pc[r] = "locked" /\ cmd[r].row \in Ids /\ cmd' = cmd /\ seen' = seen
      /\ UpdateRow(cmd[r].row, work[r])
      /\ answer' = [answer EXCEPT ![r] = "ok"]
  BY DEF WriteCase, WriteTask, Return, Ids
<1>2. /\ Based(r) /\ answer[r] = "none" /\ seen[r].lock = rows[cmd[r].row].lock
      /\ work[r].lock = rows[cmd[r].row].lock + 1 /\ rows[cmd[r].row].lock \in Nat
      /\ rows \in [Ids -> Row] /\ answer \in [Requests -> Codes]
  BY <1>1, Types DEF CasesInv, TypeOK, Codes, Stage, Holds, NextVersion
<1>3. rows' = [rows EXCEPT ![cmd[r].row] = work[r]]
  BY <1>1, <1>2 DEF UpdateRow
<1>4. \A q \in Requests : Based(q)' <=> Based(q)
  BY <1>1 DEF Based
<1>5. Basis' = Basis
  BY <1>1, <1>4 DEF Basis
<1>6. Versions' = [Versions EXCEPT ![cmd[r].row] = @ + 1]
  BY <1>1, <1>2, <1>3 DEF Versions
<1>7. Verdict' = [Verdict EXCEPT ![r] = "accepted"]
  BY <1>1, <1>2, <1>4 DEF Verdict
<1>8. /\ Verdict[r] = "none" /\ Basis[r].row = cmd[r].row
      /\ Basis[r].version = seen[r].lock
      /\ Versions[cmd[r].row] = rows[cmd[r].row].lock
  BY <1>1, <1>2 DEF Verdict, Basis, Versions
<1>9. QED
  BY <1>1, <1>2, <1>5, <1>6, <1>7, <1>8 DEF Abstract!Accept

(* Cases and tasks implement OptimisticRows: the row lock, the comparison  *)
(* of versions, the unchecked UPDATE and the commit together are one       *)
(* compare-and-swap of the row.                                            *)
THEOREM CasesAreOptimisticRows == Spec => ImplementsOptimisticRows
<1>1. CasesInv /\ [Next]_vars => [Abstract!Next]_(Abstract!rowVars)
  <2> SUFFICES ASSUME CasesInv, [Next]_vars
      PROVE  Abstract!Next \/ UNCHANGED <<Versions, Basis, Verdict>>
    BY DEF Abstract!rowVars
  <2>1. ASSUME NEW r \in Requests, Aside(r)
        PROVE  Abstract!Next \/ UNCHANGED <<Versions, Basis, Verdict>>
    BY <2>1, AsideRefines DEF Abstract!Next
  <2>2. ASSUME NEW r \in Requests, NEW i \in Ids, Read(r, i) PROVE Abstract!Next
    BY <2>2, ReadRefines DEF Abstract!Next
  <2>3. ASSUME NEW r \in Requests, Locking(r)
        PROVE  Abstract!Next \/ UNCHANGED <<Versions, Basis, Verdict>>
    <3>1. \E op, new : \E accepts \in BOOLEAN : LockRow(r, op, accepts, new)
      BY <2>3 DEF Locking, UpdateCase, CloseCase, ReopenCase, ArchiveCase, UpdateTask,
                  CompleteTask, Mutable
    <3>2. QED
      BY <3>1, LockRefines DEF Abstract!Next
  <2>4. ASSUME NEW r \in Requests, WriteCase(r) \/ WriteTask(r) PROVE Abstract!Next
    BY <2>4, WriteRefines DEF Abstract!Next
  <2>5. CASE Next
    BY <2>1, <2>2, <2>3, <2>4, <2>5, StepKinds
  <2>6. CASE UNCHANGED vars
    BY <2>6 DEF vars, Versions, Basis, Verdict, Based
  <2>7. QED
    BY <2>5, <2>6
<1>2. QED
  BY <1>1, AbstractInit, CasesInvariant, PTL
     DEF Spec, ImplementsOptimisticRows, Abstract!Spec
=============================================================================
