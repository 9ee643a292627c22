--------------------------- MODULE BatchesProofs ---------------------------
(***************************************************************************)
(* Proofs about batches, for any number of requests, batches, documents    *)
(* and texts: the memberships that were answered are accounted for by the  *)
(* table and the events of removals, and the table keeps the promise of    *)
(* OptimisticRows.                                                         *)
(*                                                                         *)
(* They rest on what a request has read and written where it is (Stage),   *)
(* on the statements that exclude each other (Apart), on events and        *)
(* memberships that only requests that have ended have left (Recorded,     *)
(* Answered), and on the member being one that was answered (Known).       *)
(***************************************************************************)
EXTENDS Batches, FiniteSetTheorems, TLAPS

-----------------------------------------------------------------------------
Places == {"idle", "created", "read", "locked", "inserted", "lookup", "found",
           "deleted", "done", "crashed"}

Answers == [code : {"none", "ok", "conflict", "error", "not_found"},
            id   : Requests \cup {None}]

Commands == [row : BatchIds \cup {None}, op : Ops \cup {"none"}, doc : Documents \cup {None}]

(* What a request has read, written and been answered where it is.         *)
Writing(r) ==
    LET b == cmd[r].row IN
    /\ pc[r] \in {"created", "read", "locked"} => b \in BatchIds /\ link[r] = None
    /\ pc[r] = "created" =>
        cmd[r].op = "create" /\ batches[b].lock = 0 /\ work[r].lock = 1
    /\ pc[r] \in {"read", "locked"} => seen[r].lock # 0
    /\ pc[r] = "locked" =>
        /\ cmd[r].op \in {"update", "archive"}
        /\ work[r].status # "absent"
        /\ seen[r].lock = batches[b].lock /\ work[r].lock = batches[b].lock + 1
    /\ pc[r] = "created" => work[r].status # "absent"

Linking(r) ==
    /\ pc[r] \in {"inserted", "lookup", "found", "deleted"} =>
        Pair(r) \in BatchIds \X Documents
    /\ pc[r] \in {"inserted", "lookup", "found"} => cmd[r].op = "add_document"
    /\ pc[r] = "deleted" => cmd[r].op = "remove_document"
    /\ pc[r] = "inserted" => link[r] = r /\ members[Pair(r)] = None
    /\ pc[r] = "found" => link[r] \in Told(Pair(r))
    /\ pc[r] = "deleted" /\ link[r] # None => members[Pair(r)] = link[r]

Waiting(r) ==
    /\ pc[r] = "idle" => link[r] = None
    /\ pc[r] \notin {"read", "locked", "done", "crashed"} => seen[r].lock = 0
    /\ pc[r] # "done" => answer[r].code = "none" /\ answer[r].id = None

Stage(r) == Writing(r) /\ Linking(r) /\ Waiting(r)

(* A membership that was answered is named for a request that has ended.   *)
Answered(r) == answer[r].id # None => pc[answer[r].id] = "done"

(* No membership was answered to r.                                        *)
Silent(r) == answer[r].code # "ok" /\ answer[r].id = None

(* What the statements of two requests may not write at the same time.     *)
Clash(q, r) ==
    \/ pc[q] \in {"created", "locked"} /\ pc[r] = pc[q] /\ cmd[q].row = cmd[r].row
    \/ pc[q] = "inserted" /\ pc[r] = "inserted" /\ Pair(q) = Pair(r)
    \/ /\ pc[q] = "deleted" /\ pc[r] = "deleted" /\ Pair(q) = Pair(r)
       /\ link[q] # None /\ link[r] # None

Apart == \A q, r \in Requests : q # r => ~Clash(q, r)

(* A batch has a version exactly when it exists.                           *)
Versioned == \A b \in BatchIds : batches[b].status = "absent" <=> batches[b].lock = 0

(* An event was left by a request that has ended.                          *)
Recorded == IsFiniteSet(trail) /\ \A e \in trail : pc[e.id] = "done"

(* The member of a pair is one that some add was answered with.            *)
Known ==
    \A p \in BatchIds \X Documents : members[p] # None => members[p] \in Told(p)

BatchesInv ==
    /\ TypeOK
    /\ Versioned
    /\ Recorded
    /\ Apart
    /\ \A r \in Requests : Stage(r) /\ Answered(r)
    /\ Known
    /\ MembershipsAccounted

-----------------------------------------------------------------------------
(* No request but r has moved.                                             *)
Others(r) ==
    \A q \in Requests \ {r} :
        /\ pc'[q] = pc[q] /\ cmd'[q] = cmd[q] /\ seen'[q] = seen[q]
        /\ work'[q] = work[q] /\ link'[q] = link[q] /\ answer'[q] = answer[q]

LEMMA Types ==
    TypeOK <=>
        /\ batches \in [BatchIds -> Row]
        /\ members \in [BatchIds \X Documents -> Requests \cup {None}]
        /\ trail \subseteq Event
        /\ pc \in [Requests -> Places] /\ cmd \in [Requests -> Commands]
        /\ seen \in [Requests -> Row] /\ work \in [Requests -> Row]
        /\ link \in [Requests -> Requests \cup {None}]
        /\ answer \in [Requests -> Answers]
  BY DEF TypeOK, Places, Commands, Answers

LEMMA TypesNext ==
    ASSUME batches' \in [BatchIds -> Row],
           members' \in [BatchIds \X Documents -> Requests \cup {None}],
           trail' \subseteq Event,
           pc' \in [Requests -> Places], cmd' \in [Requests -> Commands],
           seen' \in [Requests -> Row], work' \in [Requests -> Row],
           link' \in [Requests -> Requests \cup {None}],
           answer' \in [Requests -> Answers]
    PROVE  TypeOK'
  BY DEF TypeOK, Places, Commands, Answers

LEMMA RowTypes ==
    /\ NoRow \in Row /\ NoRow.lock = 0
    /\ \A row \in Row : row.lock \in Nat
    /\ \A x \in Texts : NewBatch(x) \in Row /\ NewBatch(x).lock = 1
                                            /\ NewBatch(x).status = "open"
  BY DEF NoRow, Row, NewBatch

LEMMA Changes ==
    ASSUME NEW row \in Row
    PROVE  /\ \A x \in Texts : /\ BatchUpdate(row, x) \in Row
                               /\ BatchUpdate(row, x).lock = row.lock + 1
                               /\ BatchUpdate(row, x).status = row.status
           /\ BatchArchive(row) \in Row /\ BatchArchive(row).lock = row.lock + 1
           /\ BatchArchive(row).status = "archived"
<1>1. row.lock + 1 \in Nat
  BY RowTypes
<1>2. ASSUME NEW x \in Texts
      PROVE  /\ BatchUpdate(row, x) \in Row /\ BatchUpdate(row, x).lock = row.lock + 1
             /\ BatchUpdate(row, x).status = row.status
  BY <1>1 DEF Row, BatchUpdate
<1>3. /\ BatchArchive(row) \in Row /\ BatchArchive(row).lock = row.lock + 1
      /\ BatchArchive(row).status = "archived"
  BY <1>1 DEF Row, BatchArchive
<1> QED BY <1>2, <1>3

LEMMA InitHolds == Init => BatchesInv
<1> SUFFICES ASSUME Init PROVE BatchesInv
  OBVIOUS
<1> USE DEF Init
<1>1. TypeOK
  BY RowTypes, Types DEF Commands, Answers, Places
<1>2. Versioned /\ Recorded /\ Apart
  BY FS_EmptySet DEF NoRow, Versioned, Recorded, Apart, Clash
<1>3. \A r \in Requests : Stage(r) /\ Answered(r)
  BY RowTypes DEF Stage, Writing, Linking, Waiting, Answered
<1>4. Known
  BY DEF Known
<1>5. ASSUME NEW p \in BatchIds \X Documents
      PROVE  Cardinality(Told(p)) =
               Cardinality(Removals(p)) + (IF members[p] = None THEN 0 ELSE 1)
  <2>1. Told(p) = {} /\ Removals(p) = {} /\ members[p] = None
    BY DEF Told, Removals
  <2> QED BY <2>1, FS_EmptySet
<1>6. MembershipsAccounted
  BY <1>5 DEF MembershipsAccounted
<1> QED BY <1>1, <1>2, <1>3, <1>4, <1>6 DEF BatchesInv

(* Only an accepted add changes what was told.                             *)
LEMMA ToldSame ==
    ASSUME BatchesInv, NEW r \in Requests, Others(r), pc[r] # "done",
           answer'[r].code # "ok" \/ cmd'[r].op # "add_document",
           NEW p
    PROVE  Told(p)' = Told(p)
<1>1. answer[r].code # "ok"
  BY DEF BatchesInv, Stage, Waiting
<1>2. ASSUME NEW q \in Requests, NEW m
      PROVE  (/\ cmd[q].op = "add_document" /\ Pair(q) = p
              /\ answer[q].code = "ok" /\ answer[q].id = m)'
             <=> (/\ cmd[q].op = "add_document" /\ Pair(q) = p
                  /\ answer[q].code = "ok" /\ answer[q].id = m)
  <2>1. CASE q = r
    BY <1>1, <2>1
  <2>2. CASE q # r
    BY <2>2 DEF Others, Pair
  <2> QED BY <2>1, <2>2
<1> QED BY <1>2 DEF Told

(* A step of r that commits nothing.                                       *)
LEMMA LocalStep ==
    ASSUME BatchesInv, NEW r \in Requests, pc[r] # "done", TypeOK',
           UNCHANGED <<batches, members, trail>>, Others(r),
           Stage(r)', Silent(r)',
           \A q \in Requests \ {r} : ~Clash(q, r)' /\ ~Clash(r, q)'
    PROVE  BatchesInv'
<1> USE DEF BatchesInv
<1>1. Versioned'
  BY DEF Versioned
<1>2. Recorded'
  <2> SUFFICES ASSUME NEW e \in trail PROVE pc'[e.id] = "done"
    BY DEF Recorded
  <2>1. pc[e.id] = "done" /\ e.id \in Requests
    BY Types DEF Recorded, Event
  <2> QED BY <2>1 DEF Others
<1>3. Apart'
  <2> SUFFICES ASSUME NEW p \in Requests \ {r}, NEW q \in Requests \ {r}, p # q
               PROVE  ~Clash(p, q)'
    BY DEF Apart
  <2>1. ~Clash(p, q)
    BY DEF Apart
  <2> QED BY <2>1 DEF Clash, Others, Pair
<1>4. \A p \in BatchIds \X Documents : Told(p)' = Told(p) /\ Removals(p)' = Removals(p)
  BY ToldSame DEF Removals, Silent
<1>5. ASSUME NEW q \in Requests \ {r} PROVE Stage(q)' /\ Answered(q)'
  <2>1. Stage(q) /\ Answered(q)
    OBVIOUS
  <2>2. Writing(q)'
    BY <2>1 DEF Stage, Writing, Others
  <2>3. Linking(q)'
    BY <1>4, <2>1 DEF Stage, Linking, Others, Pair
  <2>4. Waiting(q)'
    BY <2>1 DEF Stage, Waiting, Others
  <2>5. Answered(q)'
    <3>1. answer[q].id \in Requests \cup {None}
      BY Types DEF Answers
    <3> QED BY <2>1, <3>1 DEF Answered, Others
  <2> QED BY <2>2, <2>3, <2>4, <2>5 DEF Stage
<1>6. Known'
  BY <1>4 DEF Known
<1>7. MembershipsAccounted'
  BY <1>4 DEF MembershipsAccounted
<1>8. Answered(r)'
  BY DEF Answered, Silent
<1> QED BY <1>1, <1>2, <1>3, <1>5, <1>6, <1>7, <1>8

(* r returns an answer and commits nothing.                                *)
LEMMA Returned ==
    ASSUME TypeOK, NEW r \in Requests, NEW id \in Requests \cup {None},
           NEW code \in {"ok", "conflict", "error", "not_found"}, Return(r, code, id)
    PROVE  /\ pc' \in [Requests -> Places] /\ pc'[r] = "done"
           /\ answer' \in [Requests -> Answers] /\ answer'[r].code = code
           /\ answer'[r].id = id
           /\ \A q \in Requests \ {r} : pc'[q] = pc[q] /\ answer'[q] = answer[q]
  BY Types DEF Return, Goto, Places, Answers

LEMMA Gone ==
    ASSUME NEW r \in Requests, Others(r), pc'[r] = "done"
    PROVE  Writing(r)' /\ Linking(r)' /\ Waiting(r)'
             /\ \A q \in Requests \ {r} : ~Clash(q, r)' /\ ~Clash(r, q)'
  BY DEF Others, Writing, Linking, Waiting, Clash

LEMMA Moved ==
    ASSUME TypeOK, NEW r \in Requests, NEW l \in Places, Goto(r, l)
    PROVE  /\ pc' \in [Requests -> Places] /\ pc'[r] = l
           /\ \A q \in Requests \ {r} : pc'[q] = pc[q]
  BY Types DEF Goto

-----------------------------------------------------------------------------
LEMMA CreateBatchStep ==
    ASSUME BatchesInv, NEW r \in Requests, NEW b \in BatchIds, NEW x \in Texts,
           CreateBatch(r, b, x)
    PROVE  BatchesInv'
<1>1. /\ pc[r] = "idle" /\ ~Exists(b) /\ TypeOK /\ Stage(r) /\ Versioned /\ link[r] = None
      /\ UNCHANGED <<batches, members, trail, seen, link, answer>>
  BY DEF CreateBatch, BatchesInv, Stage, Waiting
<1>2. /\ cmd' = [cmd EXCEPT ![r] = [row |-> b, op |-> "create", doc |-> None]]
      /\ work' = [work EXCEPT ![r] = NewBatch(x)]
      /\ pc' = [pc EXCEPT ![r] = "created"]
      /\ \A q \in Requests : cmd[q].op = "create" /\ cmd[q].row = b => pc[q] = "crashed"
  BY DEF CreateBatch, Goto
<1>3. TypeOK'
  BY <1>1, <1>2, Types, TypesNext, RowTypes DEF Places, Commands, Ops
<1>4. Others(r)
  BY <1>1, <1>2, Types DEF Others
<1>5. cmd'[r] = [row |-> b, op |-> "create", doc |-> None] /\ pc'[r] = "created" /\ work'[r] = NewBatch(x)
  BY <1>1, <1>2, Types
<1>6. Writing(r)'
  BY <1>1, <1>5, RowTypes DEF Writing, Versioned, Exists
<1>7. Linking(r)' /\ Waiting(r)' /\ Silent(r)'
  BY <1>1, <1>5 DEF Linking, Waiting, Silent, Stage
<1>8. ASSUME NEW q \in Requests \ {r} PROVE ~Clash(q, r)' /\ ~Clash(r, q)'
  <2>1. Writing(q)
    BY DEF BatchesInv, Stage
  <2>2. ~(pc[q] = "created" /\ cmd[q].row = b)
    BY <1>2, <2>1 DEF Writing
  <2> QED BY <1>4, <1>5, <2>2 DEF Clash, Others
<1> QED BY <1>1, <1>3, <1>4, <1>6, <1>7, <1>8, LocalStep DEF Stage

LEMMA BatchNotFoundStep ==
    ASSUME BatchesInv, NEW r \in Requests, NEW b \in BatchIds, NEW op \in Ops,
           BatchNotFound(r, b, op)
    PROVE  BatchesInv'
<1>1. /\ pc[r] = "idle" /\ TypeOK /\ Stage(r) /\ link[r] = None
      /\ UNCHANGED <<batches, members, trail, seen, work, link>>
      /\ Return(r, "not_found", None)
      /\ cmd' = [cmd EXCEPT ![r] = [row |-> b, op |-> op, doc |-> None]]
  BY DEF BatchNotFound, BatchesInv, Stage, Waiting
<1>2. TypeOK'
  BY <1>1, Types, TypesNext, Returned DEF Commands
<1>3. Others(r)
  BY <1>1, Types, Returned DEF Others
<1>4. Silent(r)' /\ pc'[r] = "done"
  BY <1>1, Returned DEF Silent
<1> QED BY <1>1, <1>2, <1>3, <1>4, Gone, LocalStep DEF Stage

LEMMA ReadStep ==
    ASSUME BatchesInv, NEW r \in Requests, NEW b \in BatchIds, Read(r, b)
    PROVE  BatchesInv'
<1>1. /\ pc[r] = "idle" /\ Exists(b) /\ TypeOK /\ Stage(r) /\ Versioned /\ link[r] = None
      /\ UNCHANGED <<batches, members, trail, work, link, answer>>
  BY DEF Read, BatchesInv, Stage, Waiting
<1>2. /\ cmd' = [cmd EXCEPT ![r].row = b] /\ seen' = [seen EXCEPT ![r] = batches[b]]
      /\ pc' = [pc EXCEPT ![r] = "read"]
  BY DEF Read, Goto
<1>3. cmd' \in [Requests -> Commands] /\ cmd'[r].row = b
  BY <1>1, <1>2, Types DEF Commands
<1>4. TypeOK'
  BY <1>1, <1>2, <1>3, Types, TypesNext DEF Places
<1>5. Others(r)
  BY <1>1, <1>2, Types DEF Others
<1>6. pc'[r] = "read" /\ seen'[r] = batches[b]
  BY <1>1, <1>2, Types
<1>7. Writing(r)'
  BY <1>1, <1>3, <1>6 DEF Writing, Versioned, Exists
<1>8. Linking(r)' /\ Waiting(r)' /\ Silent(r)'
  BY <1>1, <1>6 DEF Linking, Waiting, Silent, Stage
<1>9. \A q \in Requests \ {r} : ~Clash(q, r)' /\ ~Clash(r, q)'
  BY <1>6 DEF Clash
<1> QED BY <1>1, <1>4, <1>5, <1>7, <1>8, <1>9, LocalStep DEF Stage

LEMMA LockBatchStep ==
    ASSUME BatchesInv, NEW r \in Requests, NEW op \in {"update", "archive"}, NEW new \in Row,
           new.lock = batches[cmd[r].row].lock + 1,
           Exists(cmd[r].row) => new.status # "absent", LockBatch(r, op, new)
    PROVE  BatchesInv'
<1> DEFINE b == cmd[r].row
<1>1. /\ pc[r] = "read" /\ TypeOK /\ Stage(r) /\ link[r] = None /\ NotReferred(r, b)
      /\ b \in BatchIds /\ seen[r].lock # 0 /\ answer[r].code = "none" /\ answer[r].id = None
      /\ UNCHANGED <<batches, members, trail, seen, link>>
      /\ cmd' = [cmd EXCEPT ![r].op = op]
  BY DEF LockBatch, BatchesInv, Stage, Waiting, Writing
<1>2. cmd' \in [Requests -> Commands] /\ cmd'[r].row = b /\ cmd'[r].op = op
  BY <1>1, Types DEF Commands, Ops
<1>3. ASSUME NEW code \in {"conflict", "error"}, Return(r, code, None), UNCHANGED work
      PROVE  BatchesInv'
  <2>1. TypeOK'
    BY <1>1, <1>2, <1>3, Types, TypesNext, Returned
  <2>2. Others(r)
    BY <1>1, <1>3, Types, Returned DEF Others
  <2>3. Silent(r)' /\ pc'[r] = "done"
    BY <1>1, <1>3, Returned DEF Silent
  <2> QED BY <1>1, <2>1, <2>2, <2>3, Gone, LocalStep DEF Stage
<1>4. ASSUME batches[b].lock = seen[r].lock, work' = [work EXCEPT ![r] = new],
             Goto(r, "locked"), UNCHANGED answer
      PROVE  BatchesInv'
  <2>1. TypeOK'
    BY <1>1, <1>2, <1>4, Types, TypesNext, Moved DEF Places
  <2>2. Others(r)
    BY <1>1, <1>4, Types, Moved DEF Others, Places
  <2>3. pc'[r] = "locked" /\ work'[r] = new
    BY <1>1, <1>4, Types, Moved DEF Places
  <2>4. Exists(b)
    BY <1>1, <1>4 DEF BatchesInv, Versioned, Exists
  <2>5. Writing(r)'
    BY <1>1, <1>2, <1>4, <2>3, <2>4 DEF Writing
  <2>6. Linking(r)' /\ Waiting(r)' /\ Silent(r)'
    BY <1>1, <1>4, <2>3 DEF Linking, Waiting, Silent
  <2>7. \A q \in Requests \ {r} : ~Clash(q, r)' /\ ~Clash(r, q)'
    BY <1>1, <1>2, <2>2, <2>3 DEF Clash, NotReferred, Others
  <2> QED BY <1>1, <2>1, <2>2, <2>5, <2>6, <2>7, LocalStep DEF Stage
<1> QED BY <1>3, <1>4 DEF LockBatch

LEMMA LockingStep ==
    ASSUME BatchesInv, NEW r \in Requests,
           (\E x \in Texts : UpdateBatch(r, x)) \/ ArchiveBatch(r)
    PROVE  BatchesInv'
<1>1. pc[r] = "read" /\ cmd[r].row \in BatchIds /\ batches[cmd[r].row] \in Row
  BY Types DEF BatchesInv, Stage, Writing, UpdateBatch, ArchiveBatch, LockBatch
<1>2. ASSUME NEW x \in Texts, UpdateBatch(r, x) PROVE BatchesInv'
  BY <1>1, <1>2, Changes, LockBatchStep DEF UpdateBatch, Exists
<1>3. ASSUME ArchiveBatch(r) PROVE BatchesInv'
  <2> DEFINE new == BatchArchive(batches[cmd[r].row])
  <2>1. /\ new \in Row /\ new.lock = batches[cmd[r].row].lock + 1
        /\ new.status # "absent"
    BY <1>1, Changes
  <2>2. LockBatch(r, "archive", new)
    BY <1>3 DEF ArchiveBatch
  <2> HIDE DEF new
  <2> QED BY <2>1, <2>2, LockBatchStep
<1> QED BY <1>2, <1>3

LEMMA AddDocumentStep ==
    ASSUME BatchesInv, NEW r \in Requests, NEW b \in BatchIds, NEW d \in Documents,
           AddDocument(r, b, d)
    PROVE  BatchesInv'
<1>1. /\ pc[r] = "idle" /\ TypeOK /\ Stage(r) /\ link[r] = None /\ NotWritten(r, <<b, d>>)
      /\ cmd' = [cmd EXCEPT ![r] = [row |-> b, op |-> "add_document", doc |-> d]]
      /\ UNCHANGED <<batches, members, trail, seen, work, answer>>
  BY DEF AddDocument, BatchesInv, Stage, Waiting
<1>2. /\ cmd' \in [Requests -> Commands] /\ Pair(r)' = <<b, d>> /\ cmd'[r].op = "add_document"
      /\ \A q \in Requests \ {r} : cmd'[q] = cmd[q]
  BY <1>1, Types DEF Commands, Ops, Pair
<1>3. CASE members[<<b, d>>] = None /\ Goto(r, "inserted") /\ link' = [link EXCEPT ![r] = r]
  <2>1. pc' \in [Requests -> Places] /\ pc'[r] = "inserted" /\ link'[r] = r
        /\ \A q \in Requests \ {r} : pc'[q] = pc[q] /\ link'[q] = link[q]
    BY <1>1, <1>3, Types, Moved DEF Places
  <2>2. TypeOK'
    BY <1>1, <1>2, <1>3, <2>1, Types, TypesNext
  <2>3. Others(r)
    BY <1>1, <1>2, <2>1 DEF Others
  <2>4. Writing(r)' /\ Waiting(r)' /\ Silent(r)'
    BY <1>1, <1>2, <2>1 DEF Writing, Waiting, Silent, Stage
  <2>5. Linking(r)'
    BY <1>1, <1>2, <1>3, <2>1 DEF Linking
  <2>6. ASSUME NEW q \in Requests \ {r} PROVE ~Clash(q, r)' /\ ~Clash(r, q)'
    <3>1. pc'[q] = "inserted" => Pair(q)' # <<b, d>>
      BY <1>1, <2>3 DEF NotWritten, Others, Pair
    <3> QED BY <1>2, <2>1, <3>1 DEF Clash
  <2> QED BY <1>1, <2>2, <2>3, <2>4, <2>5, <2>6, LocalStep DEF Stage
<1>4. CASE Goto(r, "lookup") /\ UNCHANGED link
  <2>1. pc' \in [Requests -> Places] /\ pc'[r] = "lookup"
        /\ \A q \in Requests \ {r} : pc'[q] = pc[q]
    BY <1>1, <1>4, Moved DEF Places
  <2>2. TypeOK'
    BY <1>1, <1>2, <1>4, <2>1, Types, TypesNext
  <2>3. Others(r)
    BY <1>1, <1>2, <1>4, <2>1 DEF Others
  <2>4. Writing(r)' /\ Waiting(r)' /\ Silent(r)' /\ Linking(r)'
    BY <1>1, <1>2, <1>4, <2>1 DEF Writing, Waiting, Silent, Linking, Stage
  <2>5. \A q \in Requests \ {r} : ~Clash(q, r)' /\ ~Clash(r, q)'
    BY <2>1 DEF Clash
  <2> QED BY <1>1, <2>2, <2>3, <2>4, <2>5, LocalStep DEF Stage
<1> QED BY <1>3, <1>4 DEF AddDocument

(* Whoever a membership is named for was answered with it, and has ended.  *)
LEMMA ToldEnded ==
    ASSUME BatchesInv, NEW p, NEW m \in Told(p)
    PROVE  m \in Requests /\ pc[m] = "done"
<1>1. PICK q \in Requests : answer[q].id = m
  BY DEF Told
<1>2. m \in Requests /\ m # None
  BY BatchesAssumption DEF Told
<1> QED BY <1>1, <1>2 DEF BatchesInv, Answered

LEMMA LookUpStep ==
    ASSUME BatchesInv, NEW r \in Requests, LookUp(r)
    PROVE  BatchesInv'
<1>1. /\ pc[r] = "lookup" /\ TypeOK /\ Writing(r) /\ Linking(r) /\ Waiting(r)
      /\ Pair(r) \in BatchIds \X Documents /\ cmd[r].op = "add_document"
      /\ UNCHANGED <<batches, members, trail, cmd, seen, work>>
  BY DEF LookUp, BatchesInv, Stage, Linking
<1>2. Pair(r)' = Pair(r) /\ members[Pair(r)] \in Requests \cup {None}
  BY <1>1, Types DEF Pair
<1>3. CASE /\ members[Pair(r)] # None /\ link' = [link EXCEPT ![r] = members[Pair(r)]]
           /\ Goto(r, "found") /\ UNCHANGED answer
  <2>1. pc' \in [Requests -> Places] /\ pc'[r] = "found" /\ link'[r] = members[Pair(r)]
        /\ \A q \in Requests \ {r} : pc'[q] = pc[q] /\ link'[q] = link[q]
    BY <1>1, <1>3, Types, Moved DEF Places
  <2>2. TypeOK'
    BY <1>1, <1>2, <1>3, <2>1, Types, TypesNext
  <2>3. Others(r)
    BY <1>1, <1>3, <2>1 DEF Others
  <2>4. members[Pair(r)] \in Told(Pair(r))
    BY <1>1, <1>3 DEF BatchesInv, Known
  <2>5. Writing(r)' /\ Waiting(r)' /\ Silent(r)'
    BY <1>1, <1>3, <2>1 DEF Writing, Waiting, Silent
  <2>6. Told(Pair(r))' = Told(Pair(r))
    BY <1>1, <1>2, <2>3, <2>5, ToldSame DEF Silent
  <2>7. Linking(r)'
    BY <1>1, <1>2, <2>1, <2>4, <2>6 DEF Linking
  <2>8. \A q \in Requests \ {r} : ~Clash(q, r)' /\ ~Clash(r, q)'
    BY <2>1 DEF Clash
  <2> QED BY <1>1, <2>2, <2>3, <2>5, <2>7, <2>8, LocalStep DEF Stage
<1>4. CASE Return(r, "not_found", None) /\ UNCHANGED link
  <2>1. TypeOK'
    BY <1>1, <1>4, Types, TypesNext, Returned
  <2>2. Others(r)
    BY <1>1, <1>4, Types, Returned DEF Others
  <2>3. pc'[r] = "done" /\ Silent(r)'
    BY <1>1, <1>4, Returned DEF Silent
  <2> QED BY <1>1, <2>1, <2>2, <2>3, Gone, LocalStep DEF Stage
<1> QED BY <1>3, <1>4 DEF LookUp

LEMMA RemoveDocumentStep ==
    ASSUME BatchesInv, NEW r \in Requests, NEW b \in BatchIds, NEW d \in Documents,
           RemoveDocument(r, b, d)
    PROVE  BatchesInv'
<1>1. /\ pc[r] = "idle" /\ TypeOK /\ Stage(r) /\ NotDeleted(r, <<b, d>>)
      /\ cmd' = [cmd EXCEPT ![r] = [row |-> b, op |-> "remove_document", doc |-> d]]
      /\ link' = [link EXCEPT ![r] = members[<<b, d>>]]
      /\ pc' = [pc EXCEPT ![r] = "deleted"]
      /\ UNCHANGED <<batches, members, trail, seen, work, answer>>
  BY DEF RemoveDocument, BatchesInv, Goto
<1>2. /\ cmd' \in [Requests -> Commands] /\ Pair(r)' = <<b, d>>
      /\ cmd'[r].op = "remove_document" /\ pc'[r] = "deleted" /\ link'[r] = members[<<b, d>>]
      /\ members[<<b, d>>] \in Requests \cup {None}
  BY <1>1, Types DEF Commands, Ops, Pair
<1>3. TypeOK'
  BY <1>1, <1>2, Types, TypesNext DEF Places
<1>4. Others(r)
  BY <1>1, Types DEF Others
<1>5. Writing(r)' /\ Waiting(r)' /\ Silent(r)'
  BY <1>1, <1>2 DEF Writing, Waiting, Stage, Silent
<1>6. Linking(r)'
  BY <1>1, <1>2 DEF Linking
<1>7. ASSUME NEW q \in Requests \ {r} PROVE ~Clash(q, r)' /\ ~Clash(r, q)'
  <2>1. pc'[q] = "deleted" /\ link'[q] # None => Pair(q)' # <<b, d>>
    BY <1>1, <1>4 DEF NotDeleted, Others, Pair
  <2> QED BY <1>2, <2>1 DEF Clash
<1> QED BY <1>1, <1>3, <1>4, <1>5, <1>6, <1>7, LocalStep DEF Stage

LEMMA CrashStep ==
    ASSUME BatchesInv, NEW r \in Requests, Crash(r)
    PROVE  BatchesInv'
<1>1. /\ pc[r] # "done" /\ TypeOK /\ Stage(r) /\ Goto(r, "crashed")
      /\ UNCHANGED <<batches, members, trail, cmd, seen, work, link, answer>>
  BY DEF Crash, BatchesInv
<1>2. pc' \in [Requests -> Places] /\ pc'[r] = "crashed"
      /\ \A q \in Requests \ {r} : pc'[q] = pc[q]
  BY <1>1, Moved DEF Places
<1>3. TypeOK' /\ Others(r)
  BY <1>1, <1>2, Types, TypesNext DEF Others
<1>4. Writing(r)' /\ Linking(r)' /\ Waiting(r)'
  BY <1>1, <1>2 DEF Writing, Linking, Waiting, Stage
<1>5. Silent(r)'
  BY <1>1 DEF Stage, Waiting, Silent
<1>6. \A q \in Requests \ {r} : ~Clash(q, r)' /\ ~Clash(r, q)'
  BY <1>2 DEF Clash
<1> QED BY <1>1, <1>3, <1>4, <1>5, <1>6, LocalStep DEF Stage

-----------------------------------------------------------------------------
(* The event that the commit of r leaves.                                  *)
EventOf(r) ==
    [id |-> r, type |-> cmd[r].op, target |-> cmd[r].row, doc |-> cmd[r].doc,
     removed |-> pc[r] = "deleted" /\ link[r] # None]

(* A commit: r ends, leaves one event and is answered with a membership    *)
(* of its own, with one that was answered before, or with none.            *)
Ends(r, id) ==
    /\ Record(r)
    /\ Return(r, "ok", id)
    /\ UNCHANGED <<cmd, seen, work, link>>

LEMMA Ended ==
    ASSUME BatchesInv, NEW r \in Requests, pc[r] \notin {"idle", "done"},
           cmd[r].op \in Ops, cmd[r].row \in BatchIds, NEW id \in Requests \cup {None},
           id = None \/ id = r \/ pc[id] = "done", Ends(r, id)
    PROVE  /\ Others(r) /\ pc'[r] = "done" /\ Recorded' /\ Apart'
           /\ trail' = trail \cup {EventOf(r)} /\ trail' \subseteq Event
           /\ EventOf(r) \notin trail
           /\ answer'[r].code = "ok" /\ answer'[r].id = id
           /\ pc' \in [Requests -> Places] /\ answer' \in [Requests -> Answers]
           /\ \A q \in Requests : Answered(q)'
           /\ \A q \in Requests : Waiting(q)'
<1>1. TypeOK /\ UNCHANGED <<cmd, seen, work, link>> /\ trail' = trail \cup {EventOf(r)}
  BY DEF BatchesInv, Ends, Record, EventOf
<1>2. Return(r, "ok", id)
  BY DEF Ends
<1>3. /\ pc' \in [Requests -> Places] /\ pc'[r] = "done" /\ answer' \in [Requests -> Answers]
      /\ answer'[r].code = "ok" /\ answer'[r].id = id
      /\ \A q \in Requests \ {r} : pc'[q] = pc[q] /\ answer'[q] = answer[q]
  BY <1>1, <1>2, Returned
<1>4. Others(r)
  BY <1>1, <1>3 DEF Others
<1>5. EventOf(r) \in Event /\ EventOf(r).id = r
  BY <1>1, Types DEF EventOf, Event, Commands
<1>6. trail' \subseteq Event /\ EventOf(r) \notin trail
  BY <1>1, <1>5, Types DEF BatchesInv, Recorded
<1>7. Recorded'
  <2>1. IsFiniteSet(trail')
    BY <1>1, FS_AddElement DEF BatchesInv, Recorded
  <2>2. ASSUME NEW e \in trail' PROVE pc'[e.id] = "done"
    <3>1. CASE e = EventOf(r)
      BY <1>3, <1>5, <3>1
    <3>2. CASE e \in trail
      <4>1. pc[e.id] = "done" /\ e.id \in Requests
        BY <1>1, <3>2, Types DEF BatchesInv, Recorded, Event
      <4> QED BY <1>3, <4>1
    <3> QED BY <1>1, <3>1, <3>2
  <2> QED BY <2>1, <2>2 DEF Recorded
<1>8. Apart'
  <2> SUFFICES ASSUME NEW p \in Requests, NEW q \in Requests, p # q PROVE ~Clash(p, q)'
    BY DEF Apart
  <2>1. ~Clash(p, q)
    BY DEF BatchesInv, Apart
  <2> QED BY <1>1, <1>3, <2>1 DEF Clash, Pair
<1>9. ASSUME NEW q \in Requests PROVE Answered(q)'
  <2>1. CASE q = r
    BY <1>3, <2>1 DEF Answered
  <2>2. CASE q # r
    <3>1. Answered(q) /\ answer[q].id \in Requests \cup {None}
      BY <1>1, Types DEF BatchesInv, Answers
    <3> QED BY <1>3, <2>2, <3>1 DEF Answered
  <2> QED BY <2>1, <2>2
<1>10. ASSUME NEW q \in Requests PROVE Waiting(q)'
  <2>1. Waiting(q)
    BY DEF BatchesInv, Stage
  <2> QED BY <1>1, <1>3, <2>1 DEF Waiting
<1> QED BY <1>1, <1>3, <1>4, <1>6, <1>7, <1>8, <1>9, <1>10

(* What a commit writes to a batch.                                        *)
LEMMA CommitsBatch ==
    ASSUME BatchesInv, NEW r \in Requests, CommitBatch(r)
    PROVE  /\ cmd[r].row \in BatchIds /\ link[r] = None
           /\ cmd[r].op \in {"create", "update", "archive"}
           /\ batches' = [batches EXCEPT ![cmd[r].row] = work[r]]
           /\ work[r].lock = batches[cmd[r].row].lock + 1
           /\ batches[cmd[r].row].lock \in Nat
           /\ work[r] \in Row /\ work[r].status # "absent"
<1>1. TypeOK /\ Writing(r) /\ pc[r] \in {"created", "locked"}
  BY DEF BatchesInv, Stage, CommitBatch
<1>2. /\ cmd[r].row \in BatchIds /\ link[r] = None
      /\ cmd[r].op \in {"create", "update", "archive"} /\ work[r].status # "absent"
      /\ work[r].lock = batches[cmd[r].row].lock + 1
  BY <1>1 DEF Writing
<1>3. batches[cmd[r].row].lock \in Nat /\ work[r] \in Row
  BY <1>1, <1>2, Types, RowTypes
<1>4. batches[cmd[r].row].lock = work[r].lock - 1
  BY <1>2, <1>3
<1> QED BY <1>2, <1>3, <1>4 DEF CommitBatch

LEMMA CommitBatchStep ==
    ASSUME BatchesInv, NEW r \in Requests, CommitBatch(r)
    PROVE  BatchesInv'
<1> DEFINE b == cmd[r].row
<1>1. /\ pc[r] \in {"created", "locked"} /\ TypeOK /\ cmd[r].op \in Ops
      /\ UNCHANGED <<members, cmd, seen, work, link>>
      /\ cmd[r].op # "add_document" /\ cmd[r].op # "remove_document" /\ Ends(r, None)
  BY CommitsBatch DEF CommitBatch, BatchesInv, Ends, Ops
<1>2. /\ b \in BatchIds /\ batches' = [batches EXCEPT ![b] = work[r]]
      /\ work[r].lock = batches[b].lock + 1 /\ batches[b].lock \in Nat
      /\ work[r] \in Row /\ work[r].status # "absent"
  BY CommitsBatch
<1>3. /\ Others(r) /\ pc'[r] = "done" /\ Recorded' /\ Apart'
      /\ trail' = trail \cup {EventOf(r)} /\ trail' \subseteq Event
      /\ pc' \in [Requests -> Places] /\ answer' \in [Requests -> Answers]
      /\ \A q \in Requests : Answered(q)' /\ Waiting(q)'
  BY <1>1, <1>2, Ended
<1> HIDE DEF b
<1>4. TypeOK'
  <2>1. batches' \in [BatchIds -> Row]
    BY <1>1, <1>2, Types
  <2> QED BY <1>1, <1>3, <2>1, Types, TypesNext
<1>5. /\ \A c \in BatchIds \ {b} : batches'[c] = batches[c]
      /\ batches'[b] = work[r]
  BY <1>1, <1>2, Types
<1>6. Versioned'
  <2>1. work[r].lock # 0
    BY <1>2
  <2> QED BY <1>2, <1>5, <2>1 DEF BatchesInv, Versioned
<1>7. ASSUME NEW p \in BatchIds \X Documents
      PROVE  Told(p)' = Told(p) /\ Removals(p)' = Removals(p)
  <2>1. Told(p)' = Told(p)
    BY <1>1, <1>3, ToldSame
  <2>2. EventOf(r).type # "remove_document"
    BY <1>1 DEF EventOf
  <2> QED BY <1>3, <2>1, <2>2 DEF Removals
<1>8. ASSUME NEW q \in Requests PROVE Writing(q)' /\ Linking(q)'
  <2>1. Writing(q) /\ Linking(q)
    BY DEF BatchesInv, Stage
  <2>2. CASE q = r
    BY <1>3, <2>2 DEF Writing, Linking
  <2>3. CASE q # r
    <3>1. pc[q] \in {"created", "locked"} => cmd[q].row # b
      <4>1. ~Clash(q, r) /\ Writing(r)
        BY <2>3 DEF BatchesInv, Apart, Stage
      <4>2. pc[q] = pc[r] => cmd[q].row # b
        BY <1>1, <4>1 DEF Clash, b
      <4>3. pc[q] = "created" /\ pc[r] = "locked" => cmd[q].row # b
        BY <2>1, <4>1 DEF Writing, b
      <4>4. pc[q] = "locked" /\ pc[r] = "created" => cmd[q].row # b
        BY <2>1, <4>1 DEF Writing, b
      <4> QED BY <1>1, <4>2, <4>3, <4>4
    <3>2. Writing(q)'
      <4>1. pc[q] \in {"created", "locked"} => batches'[cmd[q].row] = batches[cmd[q].row]
        BY <1>5, <2>1, <3>1 DEF Writing
      <4> QED BY <1>1, <1>3, <2>1, <2>3, <4>1 DEF Writing, Others
    <3>3. Linking(q)'
      BY <1>1, <1>3, <1>7, <2>1, <2>3 DEF Linking, Others, Pair
    <3> QED BY <3>2, <3>3
  <2> QED BY <2>2, <2>3
<1>9. Known' /\ MembershipsAccounted'
  BY <1>1, <1>7 DEF BatchesInv, Known, MembershipsAccounted
<1> QED BY <1>3, <1>4, <1>6, <1>8, <1>9 DEF BatchesInv, Stage

(* What a commit does to the memberships that were told.                   *)
LEMMA ToldMore ==
    ASSUME BatchesInv, NEW r \in Requests, Others(r), pc[r] # "done", cmd' = cmd,
           cmd[r].op = "add_document", answer'[r].code = "ok", answer'[r].id \in Requests,
           NEW p
    PROVE  Told(p)' = IF Pair(r) = p THEN Told(p) \cup {answer'[r].id} ELSE Told(p)
<1>1. answer[r].code # "ok"
  BY DEF BatchesInv, Stage, Waiting
<1>2. \A q \in Requests \ {r} : answer'[q] = answer[q]
  BY DEF Others
<1> QED BY <1>1, <1>2 DEF Told, Pair

(* What it does to the events of removals.                                 *)
LEMMA RemovalsMore ==
    ASSUME NEW r \in Requests, trail' = trail \cup {EventOf(r)}, NEW p
    PROVE  Removals(p)' =
             IF /\ cmd[r].op = "remove_document" /\ Pair(r) = p
                /\ pc[r] = "deleted" /\ link[r] # None
             THEN Removals(p) \cup {EventOf(r)} ELSE Removals(p)
<1>1. /\ EventOf(r).type = cmd[r].op /\ <<EventOf(r).target, EventOf(r).doc>> = Pair(r)
      /\ EventOf(r).removed <=> (pc[r] = "deleted" /\ link[r] # None)
  BY DEF EventOf, Pair
<1> QED BY <1>1 DEF Removals

(* There are finitely many of both.                                        *)
LEMMA Finite ==
    ASSUME BatchesInv, NEW p
    PROVE  /\ IsFiniteSet(Told(p)) /\ IsFiniteSet(Removals(p))
           /\ Cardinality(Told(p)) \in Nat /\ Cardinality(Removals(p)) \in Nat
<1>1. Told(p) \in SUBSET Requests /\ Removals(p) \in SUBSET trail /\ IsFiniteSet(trail)
  BY DEF Told, Removals, BatchesInv, Recorded
<1>2. IsFiniteSet(Told(p)) /\ IsFiniteSet(Removals(p))
  BY <1>1, BatchesAssumption, FS_Subset
<1> QED BY <1>2, FS_CardinalityType

(* A commit of r leaves the other requests where they were: those that     *)
(* have written to the same pair as r were excluded, and nothing that was  *)
(* told is forgotten.                                                      *)
LEMMA OtherLinks ==
    ASSUME BatchesInv, NEW r \in Requests, NEW q \in Requests, Others(r), pc'[r] = "done",
           batches' = batches, cmd' = cmd, link' = link, Pair(r) \in BatchIds \X Documents,
           \A o \in BatchIds \X Documents : Told(o) \subseteq Told(o)',
           \/ pc[r] = "inserted" /\ members' = [members EXCEPT ![Pair(r)] = r]
           \/ /\ pc[r] = "deleted" /\ link[r] # None
              /\ members' = [members EXCEPT ![Pair(r)] = None]
           \/ members' = members
    PROVE  Writing(q)' /\ Linking(q)'
<1> DEFINE p == Pair(r)
<1>1. Writing(q) /\ Linking(q) /\ Linking(r)
  BY DEF BatchesInv, Stage
<1>2. CASE q = r
  BY <1>2 DEF Writing, Linking
<1>3. CASE q # r
  <2>1. Writing(q)'
    BY <1>1, <1>3 DEF Writing, Others
  <2>2. members \in [BatchIds \X Documents -> Requests \cup {None}] /\ ~Clash(q, r)
    BY <1>3, Types DEF BatchesInv, Apart
  <2>3. pc[q] \in {"inserted", "deleted", "found"} => Pair(q) \in BatchIds \X Documents
    BY <1>1 DEF Linking
  <2>4. /\ pc[q] = "inserted" => members'[Pair(q)] = None
        /\ pc[q] = "deleted" /\ link[q] # None => members'[Pair(q)] = link[q]
    <3>1. CASE pc[r] = "inserted" /\ members' = [members EXCEPT ![p] = r]
      <4>1. members[p] = None
        BY <1>1, <3>1 DEF Linking
      <4>2. pc[q] = "inserted" => Pair(q) # p
        BY <2>2, <3>1 DEF Clash
      <4> QED BY <1>1, <2>2, <2>3, <3>1, <4>1, <4>2 DEF Linking
    <3>2. CASE pc[r] = "deleted" /\ link[r] # None /\ members' = [members EXCEPT ![p] = None]
      <4>1. members[p] = link[r]
        BY <1>1, <3>2 DEF Linking
      <4>2. pc[q] = "deleted" /\ link[q] # None => Pair(q) # p
        BY <2>2, <3>2 DEF Clash
      <4> QED BY <1>1, <2>2, <2>3, <3>2, <4>1, <4>2 DEF Linking
    <3>3. CASE members' = members
      BY <1>1, <3>3 DEF Linking
    <3> QED BY <3>1, <3>2, <3>3
  <2>5. Linking(q)'
    <3>1. pc[q] = "found" => link[q] \in Told(Pair(q))'
      <4>1. Pair(q)' = Pair(q)
        BY DEF Pair
      <4> QED BY <1>1, <2>3, <4>1 DEF Linking
    <3> QED BY <1>1, <1>3, <2>4, <3>1 DEF Linking, Others, Pair
  <2> QED BY <2>1, <2>5
<1> QED BY <1>2, <1>3

LEMMA CommitMembershipStep ==
    ASSUME BatchesInv, NEW r \in Requests, CommitMembership(r)
    PROVE  BatchesInv'
<1> DEFINE p == Pair(r)
           id == IF pc[r] = "deleted" THEN None ELSE link[r]
<1>1. /\ pc[r] \in {"inserted", "found", "deleted"} /\ TypeOK /\ Linking(r)
      /\ UNCHANGED <<batches, cmd, seen, work, link>>
      /\ Ends(r, id)
  BY DEF CommitMembership, BatchesInv, Stage, Ends
<1>2. /\ cmd[r].op \in Ops /\ p \in BatchIds \X Documents /\ cmd[r].row \in BatchIds
      /\ link[r] \in Requests \cup {None}
  BY <1>1, Types DEF Linking, Ops, Pair
<1>3. id \in Requests \cup {None} /\ (id = None \/ id = r \/ pc[id] = "done")
  <2>1. CASE pc[r] = "found"
    BY <1>1, <1>2, <2>1, ToldEnded DEF Linking
  <2>2. CASE pc[r] # "found"
    BY <1>1, <1>2, <2>2 DEF Linking
  <2> QED BY <2>1, <2>2
<1>4. /\ Others(r) /\ pc'[r] = "done" /\ Recorded' /\ Apart'
      /\ trail' = trail \cup {EventOf(r)} /\ trail' \subseteq Event /\ EventOf(r) \notin trail
      /\ answer'[r].code = "ok" /\ answer'[r].id = id
      /\ pc' \in [Requests -> Places] /\ answer' \in [Requests -> Answers]
      /\ \A q \in Requests : Answered(q)' /\ Waiting(q)'
  <2> HIDE DEF id
  <2> QED BY <1>1, <1>2, <1>3, Ended
<1>5. members' = CASE pc[r] = "inserted" -> [members EXCEPT ![p] = r]
                   [] pc[r] = "deleted" /\ link[r] # None -> [members EXCEPT ![p] = None]
                   [] OTHER -> members
  BY DEF CommitMembership
<1>6. members \in [BatchIds \X Documents -> Requests \cup {None}]
  BY <1>1, Types
<1>7. TypeOK'
  <2>1. members' \in [BatchIds \X Documents -> Requests \cup {None}]
    BY <1>1, <1>5, <1>6
  <2> QED BY <1>1, <1>4, <2>1, Types, TypesNext
<1>8. Versioned'
  BY <1>1 DEF BatchesInv, Versioned
<1>9. CASE pc[r] = "inserted"
  <2>1. /\ members[p] = None /\ members' = [members EXCEPT ![p] = r] /\ id = r
        /\ cmd[r].op = "add_document"
    BY <1>1, <1>5, <1>9 DEF Linking
  <2>2. \A o : r \notin Told(o)
    BY <1>9, ToldEnded
  <2>3. \A o \in BatchIds \X Documents :
          /\ Told(o)' = IF o = p THEN Told(o) \cup {r} ELSE Told(o)
          /\ Removals(o)' = Removals(o)
    BY <1>1, <1>4, <1>9, <2>1, ToldMore, RemovalsMore
  <2> HIDE DEF p
  <2>4. ASSUME NEW q \in Requests PROVE Writing(q)' /\ Linking(q)'
    BY <1>1, <1>2, <1>4, <1>6, <1>9, <2>1, <2>3, OtherLinks DEF p
  <2>5. Known'
    BY <1>2, <1>6, <2>1, <2>3 DEF BatchesInv, Known
  <2>6. ASSUME NEW o \in BatchIds \X Documents
        PROVE  Cardinality(Told(o)') =
                 Cardinality(Removals(o)') + (IF members'[o] = None THEN 0 ELSE 1)
    <3>1. Cardinality(Told(o)) =
            Cardinality(Removals(o)) + (IF members[o] = None THEN 0 ELSE 1)
      BY DEF BatchesInv, MembershipsAccounted
    <3>2. CASE o = p
      <4>1. Cardinality(Told(o)') = Cardinality(Told(o)) + 1
        BY <2>2, <2>3, <3>2, Finite, FS_AddElement
      <4>2. members'[o] # None /\ Removals(o)' = Removals(o)
        BY <1>6, <2>1, <2>3, <3>2, BatchesAssumption
      <4> QED BY <2>1, <3>1, <3>2, <4>1, <4>2, Finite
    <3>3. CASE o # p
      BY <1>6, <2>1, <2>3, <3>1, <3>3
    <3> QED BY <3>2, <3>3
  <2>7. MembershipsAccounted'
    BY <2>6 DEF MembershipsAccounted
  <2> QED BY <1>4, <1>7, <1>8, <2>4, <2>5, <2>7 DEF BatchesInv, Stage
<1>10. CASE pc[r] = "deleted" /\ link[r] # None
  <2>1. /\ members[p] = link[r] /\ members' = [members EXCEPT ![p] = None]
        /\ cmd[r].op = "remove_document"
    BY <1>1, <1>5, <1>10 DEF Linking
  <2>2. \A o \in BatchIds \X Documents :
          /\ Told(o)' = Told(o)
          /\ Removals(o)' = IF o = p THEN Removals(o) \cup {EventOf(r)} ELSE Removals(o)
    BY <1>1, <1>4, <1>10, <2>1, ToldSame, RemovalsMore
  <2> HIDE DEF p
  <2>3. ASSUME NEW q \in Requests PROVE Writing(q)' /\ Linking(q)'
    BY <1>1, <1>2, <1>4, <1>6, <1>10, <2>1, <2>2, OtherLinks DEF p
  <2>4. Known'
    BY <1>2, <1>6, <2>1, <2>2 DEF BatchesInv, Known
  <2>5. ASSUME NEW o \in BatchIds \X Documents
        PROVE  Cardinality(Told(o)') =
                 Cardinality(Removals(o)') + (IF members'[o] = None THEN 0 ELSE 1)
    <3>1. Cardinality(Told(o)) =
            Cardinality(Removals(o)) + (IF members[o] = None THEN 0 ELSE 1)
      BY DEF BatchesInv, MembershipsAccounted
    <3>2. CASE o = p
      <4>1. EventOf(r) \notin Removals(o)
        BY <1>4 DEF Removals
      <4>2. Cardinality(Removals(o)') = Cardinality(Removals(o)) + 1
        BY <2>2, <3>2, <4>1, Finite, FS_AddElement
      <4>3. members'[o] = None /\ members[o] # None /\ Told(o)' = Told(o)
        BY <1>6, <1>10, <2>1, <2>2, <3>2
      <4> QED BY <3>1, <4>2, <4>3, Finite
    <3>3. CASE o # p
      BY <1>6, <2>1, <2>2, <3>1, <3>3
    <3> QED BY <3>2, <3>3
  <2>6. MembershipsAccounted'
    BY <2>5 DEF MembershipsAccounted
  <2> QED BY <1>4, <1>7, <1>8, <2>3, <2>4, <2>6 DEF BatchesInv, Stage
<1>11. CASE pc[r] = "found" \/ (pc[r] = "deleted" /\ link[r] = None)
  <2>1. members' = members
    BY <1>5, <1>11
  <2>2. \A o \in BatchIds \X Documents : Told(o)' = Told(o) /\ Removals(o)' = Removals(o)
    <3>1. CASE pc[r] = "found"
      <4>1. id \in Told(p) /\ id \in Requests /\ cmd[r].op = "add_document"
        BY <1>1, <3>1, ToldEnded DEF Linking
      <4>2. \A o \in BatchIds \X Documents :
              Told(o)' = IF p = o THEN Told(o) \cup {id} ELSE Told(o)
        BY <1>1, <1>4, <3>1, <4>1, ToldMore
      <4>3. \A o \in BatchIds \X Documents : Removals(o)' = Removals(o)
        BY <1>4, <3>1, RemovalsMore
      <4> HIDE DEF id, p
      <4>4. Told(p) \cup {id} = Told(p)
        BY <4>1
      <4> QED BY <4>2, <4>3, <4>4
    <3>2. CASE pc[r] = "deleted" /\ link[r] = None
      BY <1>1, <1>4, <3>2, ToldSame, RemovalsMore DEF Linking
    <3> QED BY <1>11, <3>1, <3>2
  <2>3. ASSUME NEW q \in Requests PROVE Writing(q)' /\ Linking(q)'
    BY <1>1, <1>2, <1>4, <1>6, <1>11, <2>1, <2>2, OtherLinks
  <2>4. Known' /\ MembershipsAccounted'
    BY <2>1, <2>2 DEF BatchesInv, Known, MembershipsAccounted
  <2> QED BY <1>4, <1>7, <1>8, <2>3, <2>4 DEF BatchesInv, Stage
<1> QED BY <1>1, <1>9, <1>10, <1>11

LEMMA NextStep == BatchesInv /\ [Next]_vars => BatchesInv'
<1> SUFFICES ASSUME BatchesInv, [Next]_vars PROVE BatchesInv'
  OBVIOUS
<1>1. CASE UNCHANGED vars
  <2>1. TypeOK' /\ Versioned' /\ Recorded'
    BY <1>1 DEF vars, BatchesInv, TypeOK, Versioned, Recorded
  <2>2. Apart'
    BY <1>1 DEF vars, BatchesInv, Apart, Clash, Pair
  <2>3. \A p \in BatchIds \X Documents : Told(p)' = Told(p) /\ Removals(p)' = Removals(p)
    BY <1>1 DEF vars, Told, Removals, Pair
  <2>4. Known' /\ MembershipsAccounted'
    BY <1>1, <2>3 DEF vars, BatchesInv, Known, MembershipsAccounted
  <2>5. ASSUME NEW r \in Requests PROVE Stage(r)' /\ Answered(r)'
    <3>1. Stage(r) /\ Answered(r)
      BY DEF BatchesInv
    <3>2. Writing(r)' /\ Waiting(r)' /\ Answered(r)'
      BY <1>1, <3>1 DEF vars, Stage, Writing, Waiting, Answered
    <3>3. Linking(r)'
      BY <1>1, <2>3, <3>1 DEF vars, Stage, Linking, Pair
    <3> QED BY <3>2, <3>3 DEF Stage
  <2> QED BY <2>1, <2>2, <2>4, <2>5 DEF BatchesInv
<1>2. CASE Next
  BY <1>2, CreateBatchStep, BatchNotFoundStep, ReadStep, LockingStep, AddDocumentStep,
     LookUpStep, RemoveDocumentStep, CommitBatchStep, CommitMembershipStep, CrashStep DEF Next
<1> QED BY <1>1, <1>2

(* The inductive invariant: what requests have read, locked, inserted and  *)
(* deleted agrees with the tables and the trail wherever they are          *)
(* interrupted (BatchService and SqlAlchemyBatchRepository).               *)
THEOREM BatchesHold == Spec => []BatchesInv
<1>1. Init => BatchesInv
  BY InitHolds
<1>2. BatchesInv /\ [Next]_vars => BatchesInv'
  BY NextStep
<1> QED BY <1>1, <1>2, PTL DEF Spec

(* Tables and requests are well typed, whatever the number of batches.     *)
THEOREM BatchesTypeCorrect == Spec => []TypeOK
<1>1. BatchesInv => TypeOK
  BY DEF BatchesInv
<1> QED BY <1>1, BatchesHold, PTL

(* Every membership that add_document was answered with is in the table or *)
(* was reported removed by exactly one event of remove_document, and no    *)
(* event reports another: the row count of a DELETE counts each row once,  *)
(* however adds and removals interleave, crash and find what others wrote. *)
THEOREM MembershipsAreAccounted == Spec => []MembershipsAccounted
<1>1. BatchesInv => MembershipsAccounted
  BY DEF BatchesInv
<1> QED BY <1>1, BatchesHold, PTL

-----------------------------------------------------------------------------
(* The table implements OptimisticRows.                                    *)

Visible == <<Versions, Basis, Verdict>>

LEMMA AbstractInit == Init => Abstract!Init
  BY DEF Init, NoRow, Abstract!Init, Versions, Basis, Verdict, Based

(* A step that concerns no version is not visible.                         *)
LEMMA Invisible ==
    ASSUME batches' = batches, seen' = seen,
           \A q \in Requests : Based(q) => cmd'[q].row = cmd[q].row
                                             /\ answer'[q].code = answer[q].code
    PROVE  UNCHANGED Visible
<1>1. \A q \in Requests : Based(q)' <=> Based(q)
  BY DEF Based
<1>2. Versions' = Versions
  BY DEF Versions
<1>3. Basis' = Basis
  BY <1>1 DEF Basis
<1>4. Verdict' = Verdict
  BY <1>1 DEF Verdict
<1> QED BY <1>2, <1>3, <1>4 DEF Visible

(* All steps of requests that have read no version.                        *)
LEMMA AsideRefines ==
    ASSUME BatchesInv, NEW r \in Requests,
           \/ \E b \in BatchIds, x \in Texts : CreateBatch(r, b, x)
           \/ \E b \in BatchIds, op \in Ops \ {"create"} : BatchNotFound(r, b, op)
           \/ \E b \in BatchIds, d \in Documents : AddDocument(r, b, d)
           \/ LookUp(r)
           \/ \E b \in BatchIds, d \in Documents : RemoveDocument(r, b, d)
           \/ CommitMembership(r)
    PROVE  UNCHANGED Visible
<1>1. /\ pc[r] \notin {"read", "locked", "done", "crashed"}
      /\ batches' = batches /\ seen' = seen
  BY DEF CreateBatch, BatchNotFound, AddDocument, LookUp, RemoveDocument, CommitMembership
<1>2. ~Based(r) /\ TypeOK
  BY <1>1 DEF BatchesInv, Stage, Waiting, Based
<1>3. cmd' = cmd \/ \E c : cmd' = [cmd EXCEPT ![r] = c]
  BY DEF CreateBatch, BatchNotFound, AddDocument, LookUp, RemoveDocument, CommitMembership
<1>4. answer' = answer \/ \E a : answer' = [answer EXCEPT ![r] = a]
  BY DEF CreateBatch, BatchNotFound, AddDocument, LookUp, RemoveDocument, CommitMembership,
         Return
<1>5. \A q \in Requests \ {r} : cmd'[q] = cmd[q] /\ answer'[q] = answer[q]
  BY <1>2, <1>3, <1>4, Types
<1> QED BY <1>1, <1>2, <1>5, Invisible

LEMMA CrashRefines ==
    ASSUME NEW r \in Requests, Crash(r) PROVE UNCHANGED Visible
  BY Invisible DEF Crash

(* A client's read is a read.                                              *)
LEMMA ReadRefines ==
    ASSUME BatchesInv, NEW r \in Requests, NEW b \in BatchIds, Read(r, b)
    PROVE  Abstract!Read(r, b)
<1>1. /\ TypeOK /\ cmd \in [Requests -> Commands] /\ seen \in [Requests -> Row]
      /\ batches[b].lock \in Nat /\ batches[b].lock # 0
      /\ ~Based(r) /\ answer[r].code = "none" /\ batches' = batches /\ answer' = answer
  BY Types, RowTypes DEF BatchesInv, Read, Stage, Waiting, Versioned, Exists, Based
<1>2. cmd'[r].row = b /\ seen'[r] = batches[b] /\ Based(r)'
  BY <1>1 DEF Read, Commands, Based
<1>3. \A q \in Requests \ {r} : cmd'[q] = cmd[q] /\ seen'[q] = seen[q]
                                  /\ (Based(q)' <=> Based(q))
  BY <1>1 DEF Read, Based
<1>4. Basis[r].row = None /\ Versions[b] > 0 /\ Versions' = Versions
  BY <1>1 DEF Basis, Versions
<1>5. Basis' = [Basis EXCEPT ![r] = [row |-> b, version |-> Versions[b]]]
  BY <1>2, <1>3 DEF Basis, Versions
<1>6. Verdict' = Verdict
  BY <1>1, <1>2, <1>3 DEF Verdict
<1> QED BY <1>4, <1>5, <1>6 DEF Abstract!Read

(* Taking the lock is not visible, unless it ends in a conflict.           *)
LEMMA LockRefines ==
    ASSUME BatchesInv, NEW r \in Requests, NEW op, NEW new, LockBatch(r, op, new)
    PROVE  UNCHANGED Visible \/ Abstract!Conflict(r)
<1>1. /\ pc[r] = "read" /\ Based(r) /\ answer[r].code = "none" /\ cmd[r].row \in BatchIds
      /\ batches' = batches /\ seen' = seen /\ TypeOK
      /\ cmd \in [Requests -> Commands] /\ answer \in [Requests -> Answers]
  BY Types DEF BatchesInv, Stage, Waiting, Writing, LockBatch, Based
<1>2. \A q \in Requests : cmd'[q].row = cmd[q].row /\ (Based(q)' <=> Based(q))
  BY <1>1 DEF LockBatch, Commands, Based
<1>3. Versions' = Versions /\ Basis' = Basis
  BY <1>1, <1>2 DEF Versions, Basis
<1>4. CASE batches[cmd[r].row].lock # seen[r].lock
  <2>1. answer' = [answer EXCEPT ![r] = [code |-> "conflict", id |-> None]]
    BY <1>4 DEF LockBatch, Return
  <2>2. /\ answer'[r].code = "conflict"
        /\ \A q \in Requests \ {r} : answer'[q] = answer[q]
    BY <1>1, <2>1
  <2>3. Verdict' = [Verdict EXCEPT ![r] = "conflict"]
    BY <1>1, <1>2, <2>2 DEF Verdict
  <2>4. /\ Verdict[r] = "none" /\ Basis[r].row = cmd[r].row
        /\ Basis[r].version = seen[r].lock
        /\ Versions[cmd[r].row] = batches[cmd[r].row].lock
    BY <1>1 DEF Verdict, Basis, Versions
  <2> QED BY <1>1, <1>3, <1>4, <2>3, <2>4 DEF Abstract!Conflict
<1>5. CASE batches[cmd[r].row].lock = seen[r].lock
  <2>1. answer' = answer \/ answer' = [answer EXCEPT ![r] = [code |-> "error", id |-> None]]
    BY <1>5 DEF LockBatch, Return
  <2>2. /\ answer'[r].code \in {"none", "error"}
        /\ \A q \in Requests \ {r} : answer'[q] = answer[q]
    BY <1>1, <2>1
  <2>3. Verdict' = Verdict
    BY <1>1, <1>2, <2>2 DEF Verdict
  <2> QED BY <1>3, <2>3 DEF Visible
<1> QED BY <1>4, <1>5

(* The commit inserts the row, or is the step in which the change is       *)
(* accepted.                                                               *)
LEMMA CommitRefines ==
    ASSUME BatchesInv, NEW r \in Requests, CommitBatch(r)
    PROVE  Abstract!Insert(cmd[r].row) \/ Abstract!Accept(r)
<1> DEFINE b == cmd[r].row
<1>1. /\ pc[r] \in {"created", "locked"} /\ cmd' = cmd /\ seen' = seen
      /\ TypeOK /\ Writing(r) /\ Waiting(r) /\ answer \in [Requests -> Answers]
      /\ answer' = [answer EXCEPT ![r] = [code |-> "ok", id |-> None]]
      /\ batches \in [BatchIds -> Row]
  BY Types DEF CommitBatch, BatchesInv, Stage, Return
<1>2. /\ b \in BatchIds /\ batches' = [batches EXCEPT ![b] = work[r]]
      /\ work[r].lock = batches[b].lock + 1 /\ batches[b].lock \in Nat
  BY CommitsBatch
<1>3. Basis' = Basis /\ \A q \in Requests : Based(q)' <=> Based(q)
  BY <1>1 DEF Basis, Based
<1>4. Versions' = [Versions EXCEPT ![b] = @ + 1] /\ Versions[b] = batches[b].lock
  BY <1>1, <1>2 DEF Versions
<1>5. answer'[r].code = "ok" /\ \A q \in Requests \ {r} : answer'[q] = answer[q]
  BY <1>1
<1>6. CASE pc[r] = "created"
  <2>1. batches[b].lock = 0 /\ ~Based(r)
    BY <1>1, <1>6 DEF Writing, Waiting, Based
  <2>2. Verdict' = Verdict
    BY <1>3, <1>5, <2>1 DEF Verdict
  <2>3. Versions' = [Versions EXCEPT ![b] = 1]
    <3>1. work[r].lock = 1
      BY <1>2, <2>1
    <3> QED BY <1>1, <1>2, <3>1 DEF Versions
  <2> QED BY <1>3, <1>4, <2>1, <2>2, <2>3 DEF Abstract!Insert
<1>7. CASE pc[r] = "locked"
  <2>1. Based(r) /\ answer[r].code = "none" /\ seen[r].lock = batches[b].lock
    BY <1>1, <1>7 DEF Writing, Waiting, Based
  <2>2. Verdict' = [Verdict EXCEPT ![r] = "accepted"]
    BY <1>3, <1>5, <2>1 DEF Verdict
  <2>3. /\ Verdict[r] = "none" /\ Basis[r].row = b /\ Basis[r].version = seen[r].lock
    BY <2>1 DEF Verdict, Basis
  <2> QED BY <1>2, <1>3, <1>4, <2>1, <2>2, <2>3 DEF Abstract!Accept
<1> QED BY <1>1, <1>6, <1>7

(* Batches implement OptimisticRows: FOR UPDATE, the comparison of         *)
(* versions, the UPDATE whose row count nobody looks at and the commit     *)
(* together are one compare-and-swap (BatchService.update, archive).       *)
THEOREM BatchesAreOptimisticRows == Spec => ImplementsOptimisticRows
<1>1. BatchesInv /\ [Next]_vars => [Abstract!Next]_(Abstract!rowVars)
  <2> SUFFICES ASSUME BatchesInv, [Next]_vars
      PROVE  Abstract!Next \/ UNCHANGED Visible
    BY DEF Abstract!rowVars, Visible
  <2>1. ASSUME NEW r \in Requests, NEW b \in BatchIds, Read(r, b) PROVE Abstract!Next
    BY <2>1, ReadRefines DEF Abstract!Next
  <2>2. ASSUME NEW r \in Requests, (\E x \in Texts : UpdateBatch(r, x)) \/ ArchiveBatch(r)
        PROVE  Abstract!Next \/ UNCHANGED Visible
    BY <2>2, LockRefines DEF Abstract!Next, UpdateBatch, ArchiveBatch
  <2>3. ASSUME NEW r \in Requests, CommitBatch(r) PROVE Abstract!Next
    <3>1. cmd[r].row \in BatchIds
      BY <2>3, CommitsBatch
    <3> QED BY <2>3, <3>1, CommitRefines DEF Abstract!Next
  <2>4. CASE Next
    BY <2>1, <2>2, <2>3, <2>4, AsideRefines, CrashRefines DEF Next
  <2>5. CASE UNCHANGED vars
    BY <2>5 DEF vars, Visible, Versions, Basis, Verdict, Based
  <2> QED BY <2>4, <2>5
<1>2. Init => Abstract!Init
  BY AbstractInit
<1> QED BY <1>1, <1>2, BatchesHold, PTL DEF Spec, ImplementsOptimisticRows, Abstract!Spec
=============================================================================
