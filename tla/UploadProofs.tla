---------------------------- MODULE UploadProofs ----------------------------
(* Proofs about Upload, for every set of requests, keys, payloads and      *)
(* hashes, with and without serialized clients.                            *)
EXTENDS Upload, TLAPS

(* The columns of a row that a request's session writes are of their type. *)
LEMMA FlushType ==
    ASSUME NEW row \in Row, NEW old \in Row, NEW new \in Row
    PROVE  Flush(row, old, new) \in Row
BY DEF Flush, Row

(* What a request carries is of its type.                                  *)
LEMMA CmdType ==
    ASSUME TypeOK, NEW r \in Requests
    PROVE  Key(r) \in Keys /\ Payload(r) \in Payloads /\ Hash(r) \in Hashes
BY UploadAssumption DEF TypeOK, Key, Payload, Hash

(* The rows the repository methods build from a selected copy.             *)
LEMMA RowType ==
    ASSUME TypeOK, NEW r \in Requests
    PROVE  seen[r] \in Row /\ keys[Key(r)] \in Row /\ NoRow \in Row
BY CmdType DEF TypeOK, Row, NoRow

(* An UPDATE of the idempotency row keeps the tables well typed.            *)
LEMMA WriteRowType ==
    ASSUME TypeOK, NEW r \in Requests, NEW old \in Row, NEW new \in Row,
           WriteRow(r, old, new)
    PROVE  keys' \in [Keys -> Row] /\ seen' \in [Requests -> Row]
<1>1. Flush(keys[Key(r)], old, new) \in Row
  BY FlushType, RowType
<1>2. QED
  BY <1>1, RowType DEF TypeOK, WriteRow

(* idempotency.fail, for a request with or without a fingerprint.          *)
LEMMA FailRowType ==
    ASSUME TypeOK, NEW r \in Requests, NEW old \in Row,
           NEW fp \in Payloads \cup {None}, NEW retryable \in BOOLEAN,
           FailRow(r, old, fp, retryable)
    PROVE  keys' \in [Keys -> Row] /\ seen' \in [Requests -> Row]
<1>1. [old EXCEPT !.status = "failed", !.fp = fp,
                  !.outcome = "none", !.retryable = retryable] \in Row
  BY DEF Row
<1>2. QED
  BY <1>1, WriteRowType DEF FailRow

(* idempotency.complete.                                                    *)
LEMMA CompleteRowType ==
    ASSUME TypeOK, NEW r \in Requests, NEW outcome \in {"created", "duplicate"},
           CompleteRow(r, outcome)
    PROVE  keys' \in [Keys -> Row] /\ seen' \in [Requests -> Row]
<1>1. [seen[r] EXCEPT !.status = "completed", !.fp = Payload(r),
                      !.doc = Hash(r), !.outcome = outcome,
                      !.retryable = FALSE] \in Row
  BY RowType, CmdType DEF Row
<1>2. QED
  BY <1>1, RowType, WriteRowType DEF CompleteRow

(* The audit events a commit keeps and those recorded after it.            *)
LEMMA RecordType ==
    ASSUME TypeOK, NEW r \in Requests, NEW events \in SUBSET Events,
           CommitAndRecord(r, events)
    PROVE  audit' \in [Requests -> [flushed : SUBSET Events, trail : SUBSET Events]]
<1>1. [flushed |-> events, trail |-> audit[r].trail \cup audit[r].flushed]
        \in [flushed : SUBSET Events, trail : SUBSET Events]
  BY DEF TypeOK
<1>2. QED
  BY <1>1 DEF TypeOK, CommitAndRecord

(* One step of any request, archive or cleanup.                            *)
LEMMA TypeStep ==
    ASSUME TypeOK, [Next]_vars PROVE TypeOK'
<1>1. ASSUME NEW r \in Requests, Start(r) PROVE TypeOK'
  BY <1>1, CmdType DEF Start, TypeOK, Goto
<1>2. ASSUME NEW r \in Requests, Reserve(r) PROVE TypeOK'
  <2>1. [keys[Key(r)] EXCEPT !.status = "in_progress"] \in Row
    BY RowType DEF Row
  <2>2. audit' \in [Requests -> [flushed : SUBSET Events, trail : SUBSET Events]]
    BY <1>2, RecordType DEF Reserve, Events
  <2>3. QED
    BY <1>2, <2>2, <2>1, CmdType DEF Reserve, TypeOK, Goto
<1>3. ASSUME NEW r \in Requests, AnswerInProgress(r) PROVE TypeOK'
  BY <1>3 DEF AnswerInProgress, TypeOK, Return, Goto
<1>4. ASSUME NEW r \in Requests, AnswerCompleted(r) PROVE TypeOK'
  <2>1. seen[r].doc \in Hashes \cup {None}
    BY DEF TypeOK, Row
  <2>2. PICK code \in {"replay", "conflict"}, d \in Hashes \cup {None} :
          Return(r, code, d)
    BY <1>4, <2>1 DEF AnswerCompleted
  <2>3. answer' = [answer EXCEPT ![r] = [code |-> code, doc |-> d]]
    BY <2>2 DEF Return
  <2>4. QED
    BY <1>4, <2>2, <2>3 DEF AnswerCompleted, TypeOK, Return, Goto
<1>5. ASSUME NEW r \in Requests, AnswerFailed(r) PROVE TypeOK'
  <2>1. PICK code \in {"invalid", "conflict"} : Return(r, code, None)
    BY <1>5 DEF AnswerFailed
  <2>2. drained' \subseteq Requests
    BY <1>5 DEF AnswerFailed, TypeOK
  <2>3. QED
    BY <1>5, <2>1, <2>2 DEF AnswerFailed, TypeOK, Return, Goto
<1>6. ASSUME NEW r \in Requests, CheckRetry(r) PROVE TypeOK'
  <2>1. seen' \in [Requests -> Row]
    BY <1>6, RowType DEF CheckRetry, TypeOK
  <2>2. pc' \in [Requests -> {"idle", "reserve", "existing", "claim", "prepare",
                            "prepared", "lookup", "insert", "discard",
                            "duplicate", "promote", "copied", "finish",
                            "compensate", "done", "crashed"}]
    BY <1>6 DEF CheckRetry, TypeOK, Return, Goto
  <2>3. answer' = answer \/ answer' = [answer EXCEPT ![r] = [code |-> "conflict", doc |-> None]]
    BY <1>6 DEF CheckRetry, Return
  <2>4. answer' \in [Requests ->
                       [code : {"none", "in_progress", "replay", "conflict", "invalid",
                                "unavailable", "duplicate", "created", "error"},
                        doc  : Hashes \cup {None}]]
    BY <2>3 DEF TypeOK
  <2>5. drained' \subseteq Requests
    BY <1>6 DEF CheckRetry, TypeOK
  <2>6. QED
    BY <1>6, <2>1, <2>2, <2>4, <2>5 DEF CheckRetry, TypeOK
<1>7. ASSUME NEW r \in Requests, Claim(r) PROVE TypeOK'
  <2>1. [seen[r] EXCEPT !.status = "in_progress", !.outcome = "none",
                        !.retryable = FALSE] \in Row
    BY RowType DEF Row
  <2>2. keys' \in [Keys -> Row] /\ seen' \in [Requests -> Row]
    BY <1>7, <2>1, RowType, WriteRowType DEF Claim
  <2>3. audit' \in [Requests -> [flushed : SUBSET Events, trail : SUBSET Events]]
    BY <1>7, RecordType DEF Claim, Events
  <2>4. QED
    BY <1>7, <2>3, <2>2 DEF Claim, TypeOK, Goto
<1>8. ASSUME NEW r \in Requests, RejectUpload(r) PROVE TypeOK'
  <2>1. keys' \in [Keys -> Row] /\ seen' \in [Requests -> Row]
    BY <1>8, FailRowType, RowType DEF RejectUpload
  <2>2. audit' \in [Requests -> [flushed : SUBSET Events, trail : SUBSET Events]]
    BY <1>8, RecordType DEF RejectUpload, Events
  <2>3. QED
    BY <1>8, <2>2, <2>1 DEF RejectUpload, TypeOK, Return, Goto
<1>9. ASSUME NEW r \in Requests, PutTemp(r) PROVE TypeOK'
  BY <1>9 DEF PutTemp, TypeOK, Goto
<1>10. ASSUME NEW r \in Requests, PutTempFails(r) PROVE TypeOK'
  <2>1. keys' \in [Keys -> Row] /\ seen' \in [Requests -> Row]
    BY <1>10, FailRowType, RowType, CmdType DEF PutTempFails
  <2>2. audit' \in [Requests -> [flushed : SUBSET Events, trail : SUBSET Events]]
    BY <1>10, RecordType DEF PutTempFails, Events
  <2>3. QED
    BY <1>10, <2>2, <2>1 DEF PutTempFails, TypeOK, Return, Goto
<1>11. ASSUME NEW r \in Requests, CommitFingerprint(r) PROVE TypeOK'
  <2>1. [seen[r] EXCEPT !.fp = Payload(r)] \in Row
    BY RowType, CmdType DEF Row
  <2>2. keys' \in [Keys -> Row] /\ seen' \in [Requests -> Row]
    BY <1>11, <2>1, RowType, WriteRowType DEF CommitFingerprint
  <2>3. audit' \in [Requests -> [flushed : SUBSET Events, trail : SUBSET Events]]
    BY <1>11, RecordType DEF CommitFingerprint, Events
  <2>4. QED
    BY <1>11, <2>3, <2>2 DEF CommitFingerprint, TypeOK, Goto
<1>12. ASSUME NEW r \in Requests, FindDuplicate(r) PROVE TypeOK'
  BY <1>12 DEF FindDuplicate, TypeOK, Goto
<1>13. ASSUME NEW r \in Requests, AddDocument(r) PROVE TypeOK'
  <2>1. docs' \in [Hashes -> Doc]
    <3>1. [status |-> "registered", storage |-> "pending", lock |-> 1] \in Doc
      BY DEF Doc
    <3>2. docs \in [Hashes -> Doc] /\ Hash(r) \in Hashes
      BY CmdType DEF TypeOK
    <3>3. QED
      BY <1>13, <3>1, <3>2 DEF AddDocument
  <2>2. PICK l \in {"promote", "discard"} : pc' = [pc EXCEPT ![r] = l]
    BY <1>13 DEF AddDocument, Goto
  <2>3. pc' \in [Requests -> {"idle", "reserve", "existing", "claim", "prepare",
                             "prepared", "lookup", "insert", "discard",
                             "duplicate", "promote", "copied", "finish",
                             "compensate", "done", "crashed"}]
    BY <2>2 DEF TypeOK
  <2>4. QED
    BY <1>13, <2>1, <2>3 DEF AddDocument, TypeOK
<1>14. ASSUME NEW r \in Requests, DiscardTemp(r) PROVE TypeOK'
  BY <1>14 DEF DiscardTemp, TypeOK, Goto
<1>15. ASSUME NEW r \in Requests, CompleteDuplicate(r) PROVE TypeOK'
  <2>1. keys' \in [Keys -> Row] /\ seen' \in [Requests -> Row]
    BY <1>15, CompleteRowType DEF CompleteDuplicate
  <2>2. audit' \in [Requests -> [flushed : SUBSET Events, trail : SUBSET Events]]
    BY <1>15, RecordType DEF CompleteDuplicate, Events
  <2>3. QED
    BY <1>15, <2>2, <2>1, CmdType DEF CompleteDuplicate, TypeOK, Return, Goto
<1>16. ASSUME NEW r \in Requests, CopyToFinal(r) PROVE TypeOK'
  BY <1>16, CmdType DEF CopyToFinal, TypeOK, Goto
<1>17. ASSUME NEW r \in Requests, DeleteTemp(r) PROVE TypeOK'
  BY <1>17 DEF DeleteTemp, TypeOK, Goto
<1>18. ASSUME NEW r \in Requests, PromoteFails(r) PROVE TypeOK'
  BY <1>18 DEF PromoteFails, TypeOK, Goto
<1>19. ASSUME NEW r \in Requests, Finish(r) PROVE TypeOK'
  <2>1. keys' \in [Keys -> Row] /\ seen' \in [Requests -> Row]
    BY <1>19, CompleteRowType DEF Finish
  <2>2. docs' \in [Hashes -> Doc]
    BY <1>19, CmdType DEF Finish, SettleDocument, TypeOK, Doc
  <2>3. audit' \in [Requests -> [flushed : SUBSET Events, trail : SUBSET Events]]
    BY <1>19, RecordType DEF Finish, Events
  <2>4. QED
    BY <1>19, <2>3, <2>1, <2>2, CmdType DEF Finish, TypeOK, Return, Goto
<1>20. ASSUME NEW r \in Requests, MarkUploadStorageFailed(r) PROVE TypeOK'
  <2>1. keys' \in [Keys -> Row] /\ seen' \in [Requests -> Row]
    BY <1>20, FailRowType, RowType, CmdType DEF MarkUploadStorageFailed
  <2>2. docs' \in [Hashes -> Doc]
    BY <1>20, CmdType DEF MarkUploadStorageFailed, SettleDocument, TypeOK, Doc
  <2>3. audit' \in [Requests -> [flushed : SUBSET Events, trail : SUBSET Events]]
    BY <1>20, RecordType DEF MarkUploadStorageFailed, Events
  <2>4. QED
    BY <1>20, <2>3, <2>1, <2>2 DEF MarkUploadStorageFailed, TypeOK, Return, Goto
<1>21. ASSUME NEW r \in Requests, Crash(r) PROVE TypeOK'
  BY <1>21 DEF Crash, TypeOK, Goto
<1>22. ASSUME NEW h \in Hashes, ArchiveDocument(h) PROVE TypeOK'
  <2>1. docs' \in [Hashes -> Doc]
    BY <1>22 DEF ArchiveDocument, TypeOK, Doc
  <2>2. QED
    BY <1>22, <2>1 DEF ArchiveDocument, TypeOK
<1>23. ASSUME NEW k \in Keys, CleanupKey(k) PROVE TypeOK'
  <2>1. NoRow \in Row
    BY DEF NoRow, Row
  <2>2. QED
    BY <1>23, <2>1 DEF CleanupKey, TypeOK
<1>24. ASSUME NEW r \in Requests, LoadRow(r) PROVE TypeOK'
  BY <1>24, RowType DEF LoadRow, TypeOK
<1>25. ASSUME NEW r \in Requests, ClaimRefused(r) PROVE TypeOK'
  BY <1>25 DEF ClaimRefused, TypeOK, Return, Goto
<1>26. CASE UNCHANGED vars
  BY <1>26 DEF vars, TypeOK
<1>27. QED
  BY <1>1, <1>2, <1>3, <1>4, <1>5, <1>6, <1>7, <1>8, <1>9, <1>10, <1>11, <1>12,
     <1>13, <1>14, <1>15, <1>16, <1>17, <1>18, <1>19, <1>20, <1>21, <1>22, <1>23,
     <1>24, <1>25, <1>26 DEF Next, Step

(* Upload's variables keep their types: no transaction, failure or crash   *)
(* of any request leaves a table or a request in a shape the code does not *)
(* know.                                                                   *)
THEOREM UploadTypeCorrect == Spec => []TypeOK
<1>1. Init => TypeOK
  BY UploadAssumption DEF Init, TypeOK, Row, NoRow, Doc, NoDoc
<1>2. TypeOK /\ [Next]_vars => TypeOK'
  BY TypeStep
<1>3. QED
  BY <1>1, <1>2, PTL DEF Spec

-----------------------------------------------------------------------------
(* The safety argument.  A document row is created by exactly one request, *)
(* which alone may promote its bytes and settle it: as long as it runs,    *)
(* the version is pending.  What a lock_version of 1 means, and that bytes *)
(* precede the "stored" mark, then make the properties inductive.          *)
DocumentRows ==
    \A h \in Hashes :
        /\ docs[h].status = "absent" <=> docs[h].storage = "none"
        /\ docs[h].status # "absent" => docs[h].lock >= 1
        /\ docs[h].lock = 1 <=> docs[h].status = "registered"
        /\ docs[h].storage = "pending" => docs[h].status \in {"registered", "archived"}

OwnerProgress ==
    \A r \in Requests :
        /\ pc[r] = "promote" => Hash(r) \notin finals
        /\ pc[r] \in {"copied", "finish"} => Hash(r) \in finals
        /\ pc[r] = "finish" => r \notin temps
        /\ answer[r].code = "created" => pc[r] = "done"

UploadInv ==
    /\ TypeOK
    /\ DocumentRows
    /\ OwnerProgress
    /\ StoredHasBytes
    /\ FinalHasDocument
    /\ OnePromoter
    /\ DocumentAgreesWithVersion
    /\ CreatedIsStored

(* A step that leaves the document and final-object tables alone, and does *)
(* not make its request an owner, keeps the invariant.                     *)
LEMMA QuietStep ==
    ASSUME UploadInv, TypeOK', NEW r \in Requests, NEW l,
           pc[r] # "done", l \notin Owning, pc' = [pc EXCEPT ![r] = l],
           UNCHANGED <<docs, finals, cmd>>,
           temps' \subseteq temps \cup {r},
           \/ answer' = answer
           \/ \E code, d : /\ code # "created"
                           /\ answer' = [answer EXCEPT ![r] = [code |-> code, doc |-> d]]
    PROVE  UploadInv'
<1>1. \A q \in Requests : Hash(q)' = Hash(q)
  BY DEF Hash
<1>2. \A q \in Requests : pc'[q] \in Owning => q # r /\ pc[q] = pc'[q]
  BY DEF UploadInv, TypeOK
<1>3. \A q \in Requests : answer'[q].code = "created" =>
          q # r /\ answer'[q] = answer[q] /\ pc'[q] = pc[q]
  BY DEF UploadInv, TypeOK, OwnerProgress
<1>4. DocumentRows' /\ StoredHasBytes' /\ FinalHasDocument' /\ DocumentAgreesWithVersion'
  BY DEF UploadInv, DocumentRows, StoredHasBytes, FinalHasDocument,
         DocumentAgreesWithVersion
<1>5. OnePromoter'
  BY <1>1, <1>2 DEF UploadInv, OnePromoter
<1>6. OwnerProgress'
  BY <1>1, <1>2, <1>3 DEF UploadInv, OwnerProgress, Owning, TypeOK
<1>7. CreatedIsStored'
  BY <1>1, <1>3 DEF UploadInv, CreatedIsStored
<1>8. QED
  BY <1>4, <1>5, <1>6, <1>7 DEF UploadInv

(* SettleDocument, on the pending document its request owns.               *)
LEMMA SettleStep ==
    ASSUME UploadInv, TypeOK', NEW r \in Requests, NEW state \in {"stored", "failed"},
           pc[r] \in Owning, pc' = [pc EXCEPT ![r] = "done"],
           SettleDocument(Hash(r), state),
           state = "stored" => pc[r] = "finish",
           UNCHANGED <<finals, temps, cmd>>, NEW code, NEW d,
           answer' = [answer EXCEPT ![r] = [code |-> code, doc |-> d]],
           code = "created" => state = "stored" /\ d = Hash(r)
    PROVE  UploadInv'
<1> DEFINE h == Hash(r)
<1>1. h \in Hashes /\ docs[h] \in Doc /\ docs \in [Hashes -> Doc]
  BY CmdType DEF UploadInv, TypeOK
<1>2. \A q \in Requests : Hash(q)' = Hash(q)
  BY DEF Hash
<1>3. docs[h].storage = "pending"
  BY DEF UploadInv, OnePromoter
<1>4. docs'[h] = [status  |-> IF docs[h].lock = 1 THEN state ELSE docs[h].status,
                  storage |-> state,
                  lock    |-> IF docs[h].lock = 1 THEN 2 ELSE docs[h].lock]
  BY <1>1 DEF SettleDocument
<1>5. \A g \in Hashes : g # h => docs'[g] = docs[g]
  BY <1>1 DEF SettleDocument
<1>6. docs[h].status \in {"registered", "archived"}
      /\ (docs[h].lock = 1 <=> docs[h].status = "registered") /\ docs[h].lock >= 1
  BY <1>1, <1>3 DEF UploadInv, DocumentRows
<1>7. \A q \in Requests : pc'[q] \in Owning =>
          q # r /\ pc[q] = pc'[q] /\ Hash(q) # h
  BY DEF UploadInv, TypeOK, OnePromoter, Owning
<1> HIDE DEF h
<1>20. /\ docs'[h].status \in {"stored", "failed", "archived"}
       /\ docs'[h].storage = state
       /\ docs'[h].lock >= 2
       /\ docs'[h].status # "archived" => docs'[h].status = state
  <2>1. docs[h].lock \in Nat
    BY <1>1 DEF Doc
  <2>2. CASE docs[h].lock = 1
    BY <1>4, <2>2
  <2>3. CASE docs[h].lock # 1
    BY <1>4, <1>6, <2>1, <2>3
  <2>4. QED
    BY <2>2, <2>3
<1>8. DocumentRows'
  <2>1. docs'[h].lock # 1 /\ docs'[h].lock >= 1
    <3>1. docs'[h].lock \in Nat
      BY <1>1 DEF TypeOK, Doc
    <3>2. QED
      BY <1>20, <3>1
  <2>2. /\ docs'[h].status = "absent" <=> docs'[h].storage = "none"
        /\ docs'[h].status # "absent" => docs'[h].lock >= 1
        /\ docs'[h].lock = 1 <=> docs'[h].status = "registered"
        /\ docs'[h].storage = "pending" => docs'[h].status \in {"registered", "archived"}
    BY <1>20, <2>1
  <2>3. ASSUME NEW g \in Hashes, g # h
        PROVE  /\ docs'[g].status = "absent" <=> docs'[g].storage = "none"
               /\ docs'[g].status # "absent" => docs'[g].lock >= 1
               /\ docs'[g].lock = 1 <=> docs'[g].status = "registered"
               /\ docs'[g].storage = "pending" => docs'[g].status \in {"registered", "archived"}
    BY <1>5, <2>3 DEF UploadInv, DocumentRows
  <2>4. QED
    BY <2>2, <2>3 DEF DocumentRows
<1>9. DocumentAgreesWithVersion'
  BY <1>5, <1>20 DEF UploadInv, DocumentAgreesWithVersion
<1>10. StoredHasBytes'
  <2>1. state = "stored" => h \in finals
    BY DEF UploadInv, OwnerProgress, h
  <2>2. QED
    BY <1>5, <1>20, <2>1 DEF UploadInv, StoredHasBytes
<1>11. FinalHasDocument'
  BY <1>5, <1>20 DEF UploadInv, FinalHasDocument, TypeOK
<1>12. OnePromoter'
  <2>1. \A q \in Requests : Hash(q) \in Hashes
    BY CmdType DEF UploadInv
  <2>2. QED
    BY <1>2, <1>5, <1>7, <2>1 DEF UploadInv, OnePromoter
<1>13. \A q \in Requests \ {r} : answer'[q] = answer[q] /\ pc'[q] = pc[q]
  BY DEF UploadInv, TypeOK
<1>14. answer'[r].code = "created" => state = "stored" /\ answer'[r].doc = h
  <2>1. answer'[r] = [code |-> code, doc |-> d]
    BY DEF UploadInv, TypeOK
  <2>2. QED
    BY <2>1 DEF h
<1>15. pc'[r] = "done"
  BY DEF UploadInv, TypeOK
<1>16. OwnerProgress'
  BY <1>2, <1>13, <1>15 DEF UploadInv, OwnerProgress
<1>17. CreatedIsStored'
  <2>1. ASSUME NEW q \in Requests, q # r, answer'[q].code = "created"
        PROVE  /\ answer'[q].doc = Hash(q)
               /\ docs'[Hash(q)].storage = "stored"
               /\ Hash(q) \in finals
               /\ q \notin temps
    <3>1. /\ answer[q].doc = Hash(q)
          /\ docs[Hash(q)].storage = "stored"
          /\ Hash(q) \in finals
          /\ q \notin temps
      BY <1>13, <2>1 DEF UploadInv, CreatedIsStored
    <3>2. Hash(q) \in Hashes /\ Hash(q) # h
      BY <1>3, <3>1, CmdType DEF UploadInv
    <3>3. QED
      BY <1>5, <1>13, <2>1, <3>1, <3>2
  <2>2. answer'[r].code = "created" =>
               /\ answer'[r].doc = Hash(r)
               /\ docs'[Hash(r)].storage = "stored"
               /\ Hash(r) \in finals
               /\ r \notin temps
    BY <1>14, <1>20 DEF UploadInv, OwnerProgress, h
  <2>3. QED
    BY <1>2, <2>1, <2>2 DEF CreatedIsStored
<1>18. QED
  BY <1>8, <1>9, <1>10, <1>11, <1>12, <1>16, <1>17 DEF UploadInv

(* The document row is inserted: its request becomes the one owner.        *)
LEMMA AddStep ==
    ASSUME UploadInv, TypeOK', NEW r \in Requests, AddDocument(r),
           docs[Hash(r)].status = "absent"
    PROVE  UploadInv'
<1> DEFINE h == Hash(r)
<1>1. h \in Hashes /\ docs \in [Hashes -> Doc]
  BY CmdType DEF UploadInv, TypeOK
<1>2. /\ docs' = [docs EXCEPT ![h] =
               [status |-> "registered", storage |-> "pending", lock |-> 1]]
      /\ pc' = [pc EXCEPT ![r] = "promote"] /\ pc[r] = "insert"
      /\ UNCHANGED <<temps, finals, cmd, answer>>
  BY DEF AddDocument, Goto
<1>3. \A q \in Requests : Hash(q)' = Hash(q) /\ Hash(q) \in Hashes
  BY <1>2, CmdType DEF Hash, UploadInv
<1>4. docs'[h] = [status |-> "registered", storage |-> "pending", lock |-> 1]
      /\ \A g \in Hashes : g # h => docs'[g] = docs[g]
  BY <1>1, <1>2
<1>5. docs[h].storage = "none" /\ docs[h].status = "absent"
  BY <1>1 DEF UploadInv, DocumentRows
<1>6. pc'[r] = "promote" /\ \A q \in Requests \ {r} : pc'[q] = pc[q]
  BY <1>2 DEF UploadInv, TypeOK
<1> HIDE DEF h
<1>7. DocumentRows' /\ DocumentAgreesWithVersion'
  BY <1>4 DEF UploadInv, DocumentRows, DocumentAgreesWithVersion
<1>8. StoredHasBytes' /\ FinalHasDocument'
  BY <1>2, <1>4 DEF UploadInv, StoredHasBytes, FinalHasDocument, TypeOK
<1>9. \A q \in Requests : pc[q] \in Owning => Hash(q) # h
  BY <1>5 DEF UploadInv, OnePromoter
<1>10. OnePromoter'
  BY <1>3, <1>4, <1>6, <1>9 DEF UploadInv, OnePromoter, h
<1>11. OwnerProgress'
  <2>1. h \notin finals
    BY <1>5 DEF UploadInv, FinalHasDocument
  <2>2. QED
    BY <1>2, <1>3, <1>6, <2>1 DEF UploadInv, OwnerProgress, h
<1>12. CreatedIsStored'
  BY <1>2, <1>3, <1>4, <1>5 DEF UploadInv, CreatedIsStored
<1>13. QED
  BY <1>7, <1>8, <1>10, <1>11, <1>12 DEF UploadInv

(* The owner moves through the promotion; finals only grows, by its hash.  *)
LEMMA PromoteStep ==
    ASSUME UploadInv, TypeOK', NEW r \in Requests, NEW l \in Owning,
           pc[r] \in {"promote", "copied"}, pc' = [pc EXCEPT ![r] = l],
           UNCHANGED <<docs, cmd, answer>>, l # "promote",
           temps' \subseteq temps, finals \subseteq finals',
           finals' \subseteq finals \cup {Hash(r)},
           l \in {"copied", "finish"} => Hash(r) \in finals',
           l = "finish" => r \notin temps'
    PROVE  UploadInv'
<1>1. \A q \in Requests : Hash(q)' = Hash(q) /\ Hash(q) \in Hashes
  BY CmdType DEF Hash, UploadInv
<1>2. pc'[r] = l /\ \A q \in Requests \ {r} : pc'[q] = pc[q]
  BY DEF UploadInv, TypeOK
<1>3. pc[r] \in Owning
  BY DEF Owning
<1>4. DocumentRows' /\ DocumentAgreesWithVersion' /\ StoredHasBytes'
  BY DEF UploadInv, DocumentRows, DocumentAgreesWithVersion, StoredHasBytes
<1>5. FinalHasDocument'
  <2>1. docs[Hash(r)].status # "absent"
    BY <1>1, <1>3 DEF UploadInv, OnePromoter, DocumentRows
  <2>2. QED
    BY <2>1 DEF UploadInv, FinalHasDocument
<1>6. OnePromoter'
  BY <1>1, <1>2, <1>3 DEF UploadInv, OnePromoter
<1>7. OwnerProgress'
  <2>1. \A q \in Requests \ {r} : pc[q] = "promote" => Hash(q) # Hash(r)
    BY <1>3 DEF UploadInv, OnePromoter, Owning
  <2>2. QED
    BY <1>1, <1>2, <2>1 DEF UploadInv, OwnerProgress
<1>8. CreatedIsStored'
  BY <1>1 DEF UploadInv, CreatedIsStored
<1>9. QED
  BY <1>4, <1>5, <1>6, <1>7, <1>8 DEF UploadInv

(* Archiving changes the status and the lock_version of one document.      *)
LEMMA ArchiveStep ==
    ASSUME UploadInv, TypeOK', NEW h \in Hashes, ArchiveDocument(h)
    PROVE  UploadInv'
<1>1. docs \in [Hashes -> Doc] /\ docs[h].lock \in Nat /\ docs[h].lock >= 1
  BY DEF UploadInv, TypeOK, Doc, DocumentRows, ArchiveDocument
<1>2. docs'[h] = [docs[h] EXCEPT !.status = "archived", !.lock = @ + 1]
      /\ \A g \in Hashes : g # h => docs'[g] = docs[g]
  BY <1>1 DEF ArchiveDocument
<1>3. /\ docs'[h].status = "archived" /\ docs'[h].storage = docs[h].storage
      /\ docs'[h].lock >= 1 /\ docs'[h].lock # 1
  <2>1. docs'[h].lock = docs[h].lock + 1
    BY <1>1, <1>2 DEF Doc
  <2>2. docs'[h].status = "archived" /\ docs'[h].storage = docs[h].storage
    BY <1>1, <1>2 DEF Doc
  <2>3. QED
    BY <1>1, <2>1, <2>2
<1>4. \A q \in Requests : Hash(q)' = Hash(q) /\ Hash(q) \in Hashes
  BY CmdType DEF Hash, UploadInv, ArchiveDocument
<1>5. \A g \in Hashes : docs'[g].storage = docs[g].storage
  BY <1>2, <1>3
<1>6. UNCHANGED <<temps, finals, pc, answer>>
  BY DEF ArchiveDocument
<1>7. docs[h].status # "absent" /\ docs[h].storage # "none"
  BY DEF ArchiveDocument, UploadInv, DocumentRows
<1>8. DocumentRows' /\ DocumentAgreesWithVersion'
  <2>1. DocumentAgreesWithVersion'
    BY <1>2, <1>3, ZenonT(30) DEF UploadInv, DocumentAgreesWithVersion
  <2>2. ASSUME NEW g \in Hashes
        PROVE  /\ docs'[g].status = "absent" <=> docs'[g].storage = "none"
               /\ docs'[g].status # "absent" => docs'[g].lock >= 1
               /\ docs'[g].lock = 1 <=> docs'[g].status = "registered"
               /\ docs'[g].storage = "pending"
                     => docs'[g].status \in {"registered", "archived"}
    <3>1. CASE g = h
      BY <1>3, <1>7, <3>1
    <3>2. CASE g # h
      BY <1>2, <3>2 DEF UploadInv, DocumentRows
    <3>3. QED
      BY <3>1, <3>2
  <2>3. QED
    BY <2>1, <2>2 DEF DocumentRows
<1>9. StoredHasBytes' /\ FinalHasDocument'
  BY <1>2, <1>3, <1>5, <1>6 DEF UploadInv, StoredHasBytes, FinalHasDocument, TypeOK
<1>10. OnePromoter' /\ OwnerProgress' /\ CreatedIsStored'
  BY <1>4, <1>5, <1>6 DEF UploadInv, OnePromoter, OwnerProgress, CreatedIsStored
<1>11. QED
  BY <1>8, <1>9, <1>10 DEF UploadInv

(* Every step keeps the invariant.                                         *)
LEMMA UploadStep ==
    ASSUME UploadInv, [Next]_vars PROVE UploadInv'
<1> USE DEF Goto
<1>0. TypeOK'
  BY TypeStep DEF UploadInv
<1>1. ASSUME NEW r \in Requests, Start(r) PROVE UploadInv'
  BY <1>0, <1>1, QuietStep DEF Start, Owning
<1>2. ASSUME NEW r \in Requests, Reserve(r) PROVE UploadInv'
  BY <1>0, <1>2, QuietStep DEF Reserve, Owning
<1>3. ASSUME NEW r \in Requests, AnswerInProgress(r) PROVE UploadInv'
  BY <1>0, <1>3, QuietStep DEF AnswerInProgress, Return, Owning
<1>4. ASSUME NEW r \in Requests, AnswerCompleted(r) PROVE UploadInv'
  BY <1>0, <1>4, QuietStep DEF AnswerCompleted, Return, Owning
<1>5. ASSUME NEW r \in Requests, AnswerFailed(r) PROVE UploadInv'
  BY <1>0, <1>5, QuietStep DEF AnswerFailed, Return, Owning
<1>6. ASSUME NEW r \in Requests, CheckRetry(r) PROVE UploadInv'
  BY <1>0, <1>6, QuietStep DEF CheckRetry, Return, Owning
<1>7. ASSUME NEW r \in Requests, Claim(r) PROVE UploadInv'
  BY <1>0, <1>7, QuietStep DEF Claim, Owning
<1>8. ASSUME NEW r \in Requests, RejectUpload(r) PROVE UploadInv'
  BY <1>0, <1>8, QuietStep DEF RejectUpload, Return, Owning
<1>9. ASSUME NEW r \in Requests, PutTemp(r) PROVE UploadInv'
  BY <1>0, <1>9, QuietStep DEF PutTemp, Owning
<1>10. ASSUME NEW r \in Requests, PutTempFails(r) PROVE UploadInv'
  BY <1>0, <1>10, QuietStep DEF PutTempFails, Return, Owning
<1>11. ASSUME NEW r \in Requests, CommitFingerprint(r) PROVE UploadInv'
  BY <1>0, <1>11, QuietStep DEF CommitFingerprint, Owning
<1>12. ASSUME NEW r \in Requests, FindDuplicate(r) PROVE UploadInv'
  BY <1>0, <1>12, QuietStep DEF FindDuplicate, Owning
<1>13. ASSUME NEW r \in Requests, AddDocument(r) PROVE UploadInv'
  <2>1. CASE docs[Hash(r)].status = "absent"
    BY <1>0, <1>13, <2>1, AddStep
  <2>2. CASE docs[Hash(r)].status # "absent"
    BY <1>0, <1>13, <2>2, QuietStep DEF AddDocument, Owning
  <2>3. QED
    BY <2>1, <2>2
<1>14. ASSUME NEW r \in Requests, DiscardTemp(r) PROVE UploadInv'
  BY <1>0, <1>14, QuietStep DEF DiscardTemp, Owning
<1>15. ASSUME NEW r \in Requests, CompleteDuplicate(r) PROVE UploadInv'
  BY <1>0, <1>15, QuietStep DEF CompleteDuplicate, Return, Owning
<1>16. ASSUME NEW r \in Requests, CopyToFinal(r) PROVE UploadInv'
  BY <1>0, <1>16, PromoteStep DEF CopyToFinal, Owning, UploadInv, OwnerProgress
<1>17. ASSUME NEW r \in Requests, DeleteTemp(r) PROVE UploadInv'
  BY <1>0, <1>17, PromoteStep DEF DeleteTemp, Owning, UploadInv, OwnerProgress
<1>18. ASSUME NEW r \in Requests, PromoteFails(r) PROVE UploadInv'
  BY <1>0, <1>18, PromoteStep DEF PromoteFails, Owning
<1>19. ASSUME NEW r \in Requests, Finish(r) PROVE UploadInv'
  BY <1>0, <1>19, SettleStep DEF Finish, Return, Owning
<1>20. ASSUME NEW r \in Requests, MarkUploadStorageFailed(r) PROVE UploadInv'
  BY <1>0, <1>20, SettleStep DEF MarkUploadStorageFailed, Return, Owning
<1>21. ASSUME NEW r \in Requests, Crash(r) PROVE UploadInv'
  BY <1>0, <1>21, QuietStep DEF Crash, Live, Ended, Owning
<1>22. ASSUME NEW h \in Hashes, ArchiveDocument(h) PROVE UploadInv'
  BY <1>0, <1>22, ArchiveStep
<1>23. CASE UNCHANGED <<docs, temps, finals, cmd, pc, answer>>
  BY <1>0, <1>23 DEF UploadInv, DocumentRows, OwnerProgress, StoredHasBytes,
     FinalHasDocument, OnePromoter, DocumentAgreesWithVersion, CreatedIsStored, Hash
<1>24. ASSUME NEW r \in Requests, ClaimRefused(r) PROVE UploadInv'
  BY <1>0, <1>24, QuietStep DEF ClaimRefused, Return, Owning
<1>25. QED
  BY <1>1, <1>2, <1>3, <1>4, <1>5, <1>6, <1>7, <1>8, <1>9, <1>10, <1>11, <1>12,
     <1>13, <1>14, <1>15, <1>16, <1>17, <1>18, <1>19, <1>20, <1>21, <1>22, <1>23,
     <1>24 DEF Next, Step, LoadRow, CleanupKey, vars

(* The inductive invariant holds in every reachable state.                  *)
LEMMA UploadInvariant == Spec => []UploadInv
<1>1. Init => UploadInv
  <2>1. Init => TypeOK
    BY UploadAssumption DEF Init, TypeOK, Row, NoRow, Doc, NoDoc
  <2>2. QED
    BY <2>1 DEF Init, UploadInv, DocumentRows, OwnerProgress, StoredHasBytes,
       FinalHasDocument, OnePromoter, DocumentAgreesWithVersion, CreatedIsStored,
       NoDoc, Owning
<1>2. UploadInv /\ [Next]_vars => UploadInv'
  BY UploadStep
<1>3. QED
  BY <1>1, <1>2, PTL DEF Spec

(* PostgreSQL and the object store never disagree, for any number of       *)
(* requests, keys and contents and after any crash: a version is marked    *)
(* stored only over its bytes, and final bytes always have their document. *)
THEOREM StorageConsistent == Spec => [](StoredHasBytes /\ FinalHasDocument)
<1>1. UploadInv => StoredHasBytes /\ FinalHasDocument
  BY DEF UploadInv
<1>2. QED
  BY <1>1, UploadInvariant, PTL

(* A document is promoted and settled by the one request that inserted it. *)
THEOREM SingleOwner == Spec => []OnePromoter
<1>1. UploadInv => OnePromoter
  BY DEF UploadInv
<1>2. QED
  BY <1>1, UploadInvariant, PTL

(* The document row never contradicts its version row.                     *)
THEOREM RowsAgree == Spec => []DocumentAgreesWithVersion
<1>1. UploadInv => DocumentAgreesWithVersion
  BY DEF UploadInv
<1>2. QED
  BY <1>1, UploadInvariant, PTL

(* What a 201 answer promises stays true.                                  *)
THEOREM CreatedForever == Spec => []CreatedIsStored
<1>1. UploadInv => CreatedIsStored
  BY DEF UploadInv
<1>2. QED
  BY <1>1, UploadInvariant, PTL

(* No step of an upload brings an archived document back: only a document  *)
(* still at lock_version 1, hence never archived, takes the new status.    *)
THEOREM ArchiveIsFinal == Spec => ArchivedForever
<1> DEFINE Kept == \A h \in Hashes : docs[h].status = "archived"
                                       => docs'[h].status = "archived"
<1>1. UploadInv /\ [Next]_vars => [Kept]_vars
  <2> SUFFICES ASSUME UploadInv, Next PROVE Kept
    BY DEF vars
  <2>1. ASSUME NEW r \in Requests, NEW state, SettleDocument(Hash(r), state) PROVE Kept
    BY <2>1, CmdType DEF SettleDocument, UploadInv, TypeOK, DocumentRows
  <2>2. ASSUME NEW r \in Requests, AddDocument(r) PROVE Kept
    BY <2>2, CmdType DEF AddDocument, UploadInv, TypeOK
  <2>3. ASSUME NEW h \in Hashes, ArchiveDocument(h) PROVE Kept
    BY <2>3 DEF ArchiveDocument, UploadInv, TypeOK
  <2>4. CASE UNCHANGED docs
    BY <2>4
  <2>5. QED
    BY <2>1, <2>2, <2>3, <2>4 DEF Next, Step, Start, Reserve, AnswerInProgress,
       AnswerCompleted, AnswerFailed, CheckRetry, LoadRow, Claim, ClaimRefused, RejectUpload, PutTemp,
       PutTempFails, CommitFingerprint, FindDuplicate, DiscardTemp,
       CompleteDuplicate, CopyToFinal, DeleteTemp, PromoteFails, Finish,
       MarkUploadStorageFailed, Crash, CleanupKey
<1>2. QED
  BY <1>1, UploadInvariant, PTL DEF Spec, ArchivedForever

-----------------------------------------------------------------------------
(* The idempotency row, when no client sends a key while a request with it *)
(* runs.  The row of a key then belongs to the one request that runs with  *)
(* it, and the copy that a method has selected is the row itself.          *)
Uploading == {"prepare", "prepared", "lookup", "insert", "discard", "duplicate"} \cup Owning

Serial == \A q, r \in Requests : q # r /\ Live(q) /\ Live(r) => Key(q) # Key(r)

(* What the row of its key is to a request.                                *)
Owns(r) ==
    /\ Live(r) /\ Selected(r) => seen[r] = keys[Key(r)]
    /\ pc[r] = "prepared" => Selected(r)
    /\ pc[r] = "reserve" => keys[Key(r)].status = "absent"
    /\ pc[r] \in Uploading => keys[Key(r)].status = "in_progress"
    /\ pc[r] \in Uploading \ {"prepare"} => Payload(r) \in Valid

(* What CompletedRowIsHonest says of one key.                              *)
HonestRow(k) ==
    keys[k].status = "completed" => keys[k].fp \in Valid /\ keys[k].doc = HashOf[keys[k].fp]

(* What ReplayServesOwnContent says of one request.                        *)
OwnContent(r) == answer[r].code = "replay" => answer[r].doc = Hash(r)

KeysInv ==
    /\ Serial
    /\ \A r \in Requests : Owns(r) /\ OwnContent(r)
    /\ \A k \in Keys : HonestRow(k)

(* The commands never change.                                              *)
LEMMA SameCommands ==
    ASSUME cmd' = cmd
    PROVE  \A r : Key(r)' = Key(r) /\ Payload(r)' = Payload(r) /\ Hash(r)' = Hash(r)
BY DEF Key, Payload, Hash

(* A step of r, which changes no row but that of its key, and that only    *)
(* when it runs.                                                           *)
StepOf(r) ==
    /\ cmd' = cmd
    /\ \A q \in Requests \ {r} : pc'[q] = pc[q] /\ seen'[q] = seen[q] /\ answer'[q] = answer[q]
    /\ \A k \in Keys \ {Key(r)} : keys'[k] = keys[k]
    /\ Live(r) \/ keys' = keys

LEMMA OneRequest ==
    ASSUME TypeOK, KeysInv, NEW r \in Requests, StepOf(r), Live(r) \/ Serial',
           Owns(r)', OwnContent(r)', HonestRow(Key(r))'
    PROVE  KeysInv'
<1>1. \A q : Key(q)' = Key(q) /\ Payload(q)' = Payload(q) /\ Hash(q)' = Hash(q)
  BY SameCommands DEF StepOf
<1>2. \A q \in Requests \ {r} : Live(q)' <=> Live(q)
  BY DEF StepOf, Live
<1>3. Serial'
  BY <1>1, <1>2 DEF KeysInv, Serial
<1>4. ASSUME NEW q \in Requests \ {r} PROVE Owns(q)' /\ OwnContent(q)'
  <2>1. /\ pc'[q] = pc[q] /\ seen'[q] = seen[q] /\ answer'[q] = answer[q]
        /\ Owns(q) /\ OwnContent(q) /\ Key(q) \in Keys
    BY CmdType DEF StepOf, KeysInv
  <2>2. Live(q) => keys'[Key(q)] = keys[Key(q)]
    BY <2>1 DEF KeysInv, Serial, StepOf
  <2>3. pc[q] \in Uploading \cup {"reserve"} => Live(q)
    BY DEF Live, Ended, Uploading, Owning
  <2>4. Owns(q)'
    BY <1>1, <1>2, <2>1, <2>2, <2>3 DEF Owns, Selected
  <2> QED BY <1>1, <2>1, <2>4 DEF OwnContent
<1>5. ASSUME NEW k \in Keys PROVE HonestRow(k)'
  <2>1. CASE k = Key(r)
    BY <1>1, <2>1
  <2>2. CASE k # Key(r)
    BY <2>2 DEF StepOf, KeysInv, HonestRow
  <2> QED BY <2>1, <2>2
<1> QED BY <1>3, <1>4, <1>5 DEF KeysInv

(* A step that only moves an upload on, or ends the request.               *)
LEMMA MovesOn ==
    ASSUME TypeOK, KeysInv, NEW r \in Requests, Live(r), UNCHANGED <<keys, cmd, seen, answer>>,
           NEW l, pc' = [pc EXCEPT ![r] = l],
           \/ l \in Ended
           \/ pc[r] \in Uploading \ {"prepare"} /\ l \in Uploading \ {"prepare", "prepared"}
    PROVE  KeysInv'
<1>1. \A q : Key(q)' = Key(q) /\ Payload(q)' = Payload(q) /\ Hash(q)' = Hash(q)
  BY SameCommands
<1>2. pc'[r] = l /\ \A q \in Requests \ {r} : pc'[q] = pc[q]
  BY DEF TypeOK
<1>3. StepOf(r)
  BY <1>2 DEF StepOf
<1>4. Owns(r)'
  BY <1>1, <1>2 DEF KeysInv, Owns, Live, Ended, Selected, Uploading, Owning
<1>5. OwnContent(r)' /\ HonestRow(Key(r))'
  BY <1>1, CmdType DEF KeysInv, OwnContent, HonestRow
<1> QED BY <1>3, <1>4, <1>5, OneRequest

(* A step that ends with an answer, which is no replay, and leaves the row *)
(* alone.                                                                  *)
LEMMA Answers ==
    ASSUME TypeOK, KeysInv, NEW r \in Requests, Live(r), UNCHANGED <<keys, cmd, seen>>,
           NEW code, NEW d, Return(r, code, d), code = "replay" => d = Hash(r)
    PROVE  KeysInv'
<1>1. \A q : Key(q)' = Key(q) /\ Payload(q)' = Payload(q) /\ Hash(q)' = Hash(q)
  BY SameCommands
<1>2. /\ pc'[r] = "done" /\ answer'[r].code = code /\ answer'[r].doc = d
      /\ \A q \in Requests \ {r} : pc'[q] = pc[q] /\ answer'[q] = answer[q]
  BY DEF TypeOK, Return, Goto
<1>3. StepOf(r)
  BY <1>2 DEF StepOf
<1>4. Owns(r)'
  BY <1>2 DEF Owns, Live, Ended, Uploading, Owning
<1>5. OwnContent(r)' /\ HonestRow(Key(r))'
  BY <1>1, <1>2, CmdType DEF KeysInv, OwnContent, HonestRow
<1> QED BY <1>3, <1>4, <1>5, OneRequest

(* The UPDATE of a method whose copy is the row writes what the method     *)
(* means.                                                                  *)
LEMMA OwnFlush ==
    ASSUME NEW row, NEW new
    PROVE  /\ Flush(row, row, new).status = new.status
           /\ Flush(row, row, new).fp = new.fp
           /\ Flush(row, row, new).doc = new.doc
BY DEF Flush

LEMMA Written ==
    ASSUME TypeOK, NEW r \in Requests, NEW old, NEW new, old = keys[Key(r)], WriteRow(r, old, new)
    PROVE  /\ keys'[Key(r)].status = new.status
           /\ keys'[Key(r)].fp = new.fp
           /\ keys'[Key(r)].doc = new.doc
           /\ \A k \in Keys \ {Key(r)} : keys'[k] = keys[k]
           /\ seen'[r].status = "absent"
           /\ \A q \in Requests \ {r} : seen'[q] = seen[q]
<1>1. /\ keys' = [keys EXCEPT ![Key(r)] = Flush(keys[Key(r)], old, new)]
      /\ seen' = [seen EXCEPT ![r] = NoRow]
  BY DEF WriteRow
<1>2. keys'[Key(r)] = Flush(keys[Key(r)], keys[Key(r)], new)
  BY <1>1, CmdType DEF TypeOK
<1>3. seen'[r].status = "absent" /\ \A q \in Requests \ {r} : seen'[q] = seen[q]
  BY <1>1 DEF TypeOK, NoRow
<1>4. \A k \in Keys \ {Key(r)} : keys'[k] = keys[k]
  BY <1>1, CmdType DEF TypeOK
<1> QED BY <1>2, <1>3, <1>4, OwnFlush

(* A request that is done has written its row: completed with its own      *)
(* content, or failed.                                                     *)
LEMMA Settles ==
    ASSUME TypeOK, KeysInv, NEW r \in Requests, Live(r), cmd' = cmd, NEW old, NEW new,
           old = keys[Key(r)], WriteRow(r, old, new), NEW code, NEW d, Return(r, code, d),
           code # "replay",
           \/ new.status = "failed"
           \/ new.status = "completed" /\ new.fp \in Valid /\ new.doc = HashOf[new.fp]
    PROVE  KeysInv'
<1>1. \A q : Key(q)' = Key(q) /\ Payload(q)' = Payload(q) /\ Hash(q)' = Hash(q)
  BY SameCommands
<1>2. /\ pc'[r] = "done" /\ answer'[r].code = code
      /\ \A q \in Requests \ {r} : pc'[q] = pc[q] /\ answer'[q] = answer[q]
  BY DEF TypeOK, Return, Goto
<1>3. /\ keys'[Key(r)].status = new.status /\ keys'[Key(r)].fp = new.fp
      /\ keys'[Key(r)].doc = new.doc
      /\ \A k \in Keys \ {Key(r)} : keys'[k] = keys[k]
      /\ \A q \in Requests \ {r} : seen'[q] = seen[q]
  BY Written
<1>4. StepOf(r)
  BY <1>2, <1>3 DEF StepOf
<1>5. Owns(r)' /\ OwnContent(r)'
  BY <1>2 DEF Owns, OwnContent, Live, Ended, Uploading, Owning
<1>6. HonestRow(Key(r))'
  BY <1>1, <1>3 DEF HonestRow
<1> QED BY <1>4, <1>5, <1>6, OneRequest

(* A request goes on with its row in progress.                             *)
LEMMA GoesOn ==
    ASSUME TypeOK, KeysInv, NEW r \in Requests, Live(r), cmd' = cmd, answer' = answer,
           NEW l \in {"prepare", "lookup"}, pc' = [pc EXCEPT ![r] = l],
           keys'[Key(r)].status = "in_progress",
           \A k \in Keys \ {Key(r)} : keys'[k] = keys[k],
           seen'[r].status = "absent", \A q \in Requests \ {r} : seen'[q] = seen[q],
           l = "lookup" => Payload(r) \in Valid
    PROVE  KeysInv'
<1>1. \A q : Key(q)' = Key(q) /\ Payload(q)' = Payload(q) /\ Hash(q)' = Hash(q)
  BY SameCommands
<1>2. pc'[r] = l /\ \A q \in Requests \ {r} : pc'[q] = pc[q]
  BY DEF TypeOK
<1>3. StepOf(r)
  BY <1>2 DEF StepOf
<1>4. Owns(r)'
  BY <1>1, <1>2 DEF Owns, Selected, Uploading
<1>5. OwnContent(r)' /\ HonestRow(Key(r))'
  BY <1>1 DEF KeysInv, OwnContent, HonestRow
<1> QED BY <1>3, <1>4, <1>5, OneRequest

(* The row is read: at the start, or by a method that will change it.      *)
LEMMA StartKeys ==
    ASSUME SerialKeys, TypeOK, KeysInv, NEW r \in Requests, Start(r) PROVE KeysInv'
<1>1. \A q : Key(q)' = Key(q) /\ Payload(q)' = Payload(q) /\ Hash(q)' = Hash(q)
  BY SameCommands DEF Start
<1>2. /\ pc'[r] = IF keys[Key(r)].status = "absent" THEN "reserve" ELSE "existing"
      /\ seen'[r] = keys[Key(r)] /\ keys' = keys /\ answer' = answer /\ cmd' = cmd
      /\ \A q \in Requests \ {r} : pc'[q] = pc[q] /\ seen'[q] = seen[q]
  BY DEF Start, Goto, TypeOK
<1>3. StepOf(r)
  BY <1>2 DEF StepOf
<1>4. Serial'
  <2>1. \A q \in Requests \ {r} : Live(q)' => Live(q) /\ Key(q) # Key(r)
    BY <1>2 DEF Start, Live
  <2> QED BY <1>1, <2>1 DEF KeysInv, Serial
<1>5. Owns(r)'
  BY <1>1, <1>2 DEF Owns, Uploading, Owning
<1>6. OwnContent(r)' /\ HonestRow(Key(r))'
  BY <1>1, <1>2, CmdType DEF KeysInv, OwnContent, HonestRow
<1> QED BY <1>3, <1>4, <1>5, <1>6, OneRequest

LEMMA LoadRowKeys ==
    ASSUME TypeOK, KeysInv, NEW r \in Requests, LoadRow(r) PROVE KeysInv'
<1>1. \A q : Key(q)' = Key(q) /\ Payload(q)' = Payload(q) /\ Hash(q)' = Hash(q)
  BY SameCommands DEF LoadRow
<1>2. /\ seen'[r] = keys[Key(r)] /\ UNCHANGED <<keys, pc, answer, cmd>>
      /\ \A q \in Requests \ {r} : seen'[q] = seen[q]
      /\ pc[r] # "prepared" /\ Live(r)
  BY DEF LoadRow, TypeOK, Live, Ended
<1>3. StepOf(r)
  BY <1>2 DEF StepOf
<1>4. Owns(r)'
  BY <1>1, <1>2 DEF KeysInv, Owns, Selected
<1>5. OwnContent(r)' /\ HonestRow(Key(r))'
  BY <1>1, <1>2, CmdType DEF KeysInv, OwnContent, HonestRow
<1> QED BY <1>2, <1>3, <1>4, <1>5, OneRequest

LEMMA CheckRetryKeys ==
    ASSUME TypeOK, KeysInv, NEW r \in Requests, CheckRetry(r) PROVE KeysInv'
<1>1. Live(r) /\ UNCHANGED <<keys, cmd>>
  BY DEF CheckRetry, Live, Ended
<1>2. ASSUME Return(r, "conflict", None), UNCHANGED seen PROVE KeysInv'
  BY <1>1, <1>2, Answers
<1>3. ASSUME Goto(r, "claim"), seen' = [seen EXCEPT ![r] = NoRow], UNCHANGED answer
      PROVE  KeysInv'
  <2>1. \A q : Key(q)' = Key(q) /\ Payload(q)' = Payload(q) /\ Hash(q)' = Hash(q)
    BY <1>1, SameCommands
  <2>2. /\ pc'[r] = "claim" /\ seen'[r].status = "absent"
        /\ \A q \in Requests \ {r} : pc'[q] = pc[q] /\ seen'[q] = seen[q]
    BY <1>3 DEF Goto, TypeOK, NoRow
  <2>3. StepOf(r)
    BY <1>1, <1>3, <2>2 DEF StepOf
  <2>4. Owns(r)'
    BY <2>2 DEF Owns, Selected, Uploading, Owning
  <2>5. OwnContent(r)' /\ HonestRow(Key(r))'
    BY <1>1, <1>3, <2>1, CmdType DEF KeysInv, OwnContent, HonestRow
  <2> QED BY <1>1, <2>3, <2>4, <2>5, OneRequest
<1> QED BY <1>2, <1>3 DEF CheckRetry

LEMMA PutTempKeys ==
    ASSUME TypeOK, KeysInv, NEW r \in Requests, PutTemp(r) PROVE KeysInv'
<1>1. \A q : Key(q)' = Key(q) /\ Payload(q)' = Payload(q) /\ Hash(q)' = Hash(q)
  BY SameCommands DEF PutTemp
<1>2. /\ pc[r] = "prepare" /\ Selected(r) /\ Payload(r) \in Valid /\ Live(r)
      /\ UNCHANGED <<keys, seen, answer, cmd>> /\ pc'[r] = "prepared"
      /\ \A q \in Requests \ {r} : pc'[q] = pc[q]
  BY DEF PutTemp, Goto, TypeOK, Live, Ended
<1>3. StepOf(r)
  BY <1>2 DEF StepOf
<1>4. Owns(r)'
  BY <1>1, <1>2 DEF KeysInv, Owns, Selected, Uploading
<1>5. OwnContent(r)' /\ HonestRow(Key(r))'
  BY <1>1, <1>2, CmdType DEF KeysInv, OwnContent, HonestRow
<1> QED BY <1>2, <1>3, <1>4, <1>5, OneRequest

LEMMA ReserveKeys ==
    ASSUME TypeOK, KeysInv, NEW r \in Requests, Reserve(r) PROVE KeysInv'
<1>1. /\ pc[r] = "reserve" /\ Live(r) /\ Owns(r) /\ Key(r) \in Keys
      /\ UNCHANGED <<cmd, answer, seen>> /\ pc' = [pc EXCEPT ![r] = "prepare"]
  BY CmdType DEF Reserve, Goto, Live, Ended, KeysInv
<1>2. keys[Key(r)].status = "absent" /\ keys[Key(r)] \in Row
  BY <1>1 DEF Owns, TypeOK
<1>3. keys' = [keys EXCEPT ![Key(r)].status = "in_progress"]
  BY <1>2 DEF Reserve
<1>4. /\ keys'[Key(r)].status = "in_progress"
      /\ \A k \in Keys \ {Key(r)} : keys'[k] = keys[k]
  BY <1>1, <1>2, <1>3 DEF TypeOK, Row
<1>5. seen[r].status = "absent"
  BY <1>1, <1>2 DEF Owns, Selected
<1> QED BY <1>1, <1>4, <1>5, GoesOn

LEMMA ClaimKeys ==
    ASSUME TypeOK, KeysInv, NEW r \in Requests, Claim(r) PROVE KeysInv'
<1> DEFINE new == [seen[r] EXCEPT !.status = "in_progress", !.outcome = "none",
                                  !.retryable = FALSE]
<1>1. /\ Live(r) /\ seen[r] = keys[Key(r)] /\ seen[r] \in Row
      /\ UNCHANGED <<cmd, answer>> /\ pc' = [pc EXCEPT ![r] = "prepare"]
      /\ WriteRow(r, seen[r], new)
  BY DEF Claim, Goto, Live, Ended, KeysInv, Owns, TypeOK
<1>2. new.status = "in_progress"
  BY <1>1 DEF Row
<1> HIDE DEF new
<1>3. /\ keys'[Key(r)].status = "in_progress"
      /\ \A k \in Keys \ {Key(r)} : keys'[k] = keys[k]
      /\ seen'[r].status = "absent" /\ \A q \in Requests \ {r} : seen'[q] = seen[q]
  BY <1>1, <1>2, Written
<1> QED BY <1>1, <1>3, GoesOn

LEMMA CommitFingerprintKeys ==
    ASSUME TypeOK, KeysInv, NEW r \in Requests, CommitFingerprint(r) PROVE KeysInv'
<1> DEFINE new == [seen[r] EXCEPT !.fp = Payload(r)]
<1>1. /\ pc[r] = "prepared" /\ Live(r) /\ seen[r] \in Row
      /\ UNCHANGED <<cmd, answer>> /\ pc' = [pc EXCEPT ![r] = "lookup"]
      /\ WriteRow(r, seen[r], new)
  BY DEF CommitFingerprint, Goto, Live, Ended, TypeOK
<1>2. /\ seen[r] = keys[Key(r)] /\ keys[Key(r)].status = "in_progress"
      /\ Payload(r) \in Valid
  BY <1>1 DEF KeysInv, Owns, Uploading
<1>3. new.status = "in_progress"
  BY <1>1, <1>2 DEF Row
<1> HIDE DEF new
<1>4. /\ keys'[Key(r)].status = "in_progress"
      /\ \A k \in Keys \ {Key(r)} : keys'[k] = keys[k]
      /\ seen'[r].status = "absent" /\ \A q \in Requests \ {r} : seen'[q] = seen[q]
  BY <1>1, <1>2, <1>3, Written
<1> QED BY <1>1, <1>2, <1>4, GoesOn

(* idempotency.fail and idempotency.complete, by a request that answers.   *)
LEMMA FailsKeys ==
    ASSUME TypeOK, KeysInv, NEW r \in Requests, Live(r), cmd' = cmd, NEW old \in Row,
           old = keys[Key(r)], NEW fp \in Payloads \cup {None}, NEW retryable \in BOOLEAN,
           FailRow(r, old, fp, retryable), NEW code \in {"invalid", "unavailable"},
           Return(r, code, None)
    PROVE  KeysInv'
<1> DEFINE new == [old EXCEPT !.status = "failed", !.fp = fp,
                              !.outcome = "none", !.retryable = retryable]
<1>1. WriteRow(r, old, new)
  BY DEF FailRow
<1>2. new.status = "failed"
  BY DEF Row
<1> HIDE DEF new
<1> QED BY <1>1, <1>2, Settles

LEMMA CompletesKeys ==
    ASSUME TypeOK, KeysInv, NEW r \in Requests, Live(r), cmd' = cmd, seen[r] = keys[Key(r)],
           Payload(r) \in Valid, NEW outcome \in {"created", "duplicate"},
           CompleteRow(r, outcome), Return(r, outcome, Hash(r))
    PROVE  KeysInv'
<1> DEFINE new == [seen[r] EXCEPT !.status = "completed", !.fp = Payload(r), !.doc = Hash(r),
                                  !.outcome = outcome, !.retryable = FALSE]
<1>1. WriteRow(r, seen[r], new)
  BY DEF CompleteRow
<1>2. new.status = "completed" /\ new.fp = Payload(r) /\ new.doc = Hash(r)
  BY RowType DEF Row
<1> HIDE DEF new
<1>3. new.fp \in Valid /\ new.doc = HashOf[new.fp]
  BY <1>2 DEF Hash, Payload
<1>4. PICK d : d = Hash(r)
  OBVIOUS
<1>5. PICK old : old = seen[r]
  OBVIOUS
<1> QED BY <1>1, <1>2, <1>3, <1>4, <1>5, Settles

LEMMA KeysStep == ASSUME SerialKeys, TypeOK, KeysInv, [Next]_vars PROVE KeysInv'
<1>1. ASSUME NEW r \in Requests, AnswerInProgress(r) \/ AnswerFailed(r) \/ ClaimRefused(r)
      PROVE  KeysInv'
  <2>1. /\ Live(r) /\ UNCHANGED <<keys, cmd, seen>>
        /\ \E code \in {"in_progress", "invalid", "conflict", "error"} : Return(r, code, None)
    BY <1>1 DEF AnswerInProgress, AnswerFailed, ClaimRefused, Live, Ended
  <2> QED BY <2>1, Answers
<1>2. ASSUME NEW r \in Requests, AnswerCompleted(r) PROVE KeysInv'
  <2>1. Live(r) /\ UNCHANGED <<keys, cmd, seen>> /\ seen[r].status = "completed"
    BY <1>2 DEF AnswerCompleted, Live, Ended
  <2>2. CASE Return(r, "conflict", None)
    BY <2>1, <2>2, Answers
  <2>3. CASE SameRequest(r, seen[r]) /\ Return(r, "replay", seen[r].doc)
    <3>1. seen[r] = keys[Key(r)] /\ HonestRow(Key(r))
      BY <2>1, CmdType DEF KeysInv, Owns, Selected
    <3>2. seen[r].doc = Hash(r)
      BY <2>1, <2>3, <3>1 DEF HonestRow, SameRequest, Hash, Payload
    <3> QED BY <2>1, <2>3, <3>2, Answers
  <2> QED BY <1>2, <2>2, <2>3 DEF AnswerCompleted
<1>3. ASSUME NEW r \in Requests,
             \/ FindDuplicate(r) \/ AddDocument(r) \/ DiscardTemp(r) \/ CopyToFinal(r)
             \/ DeleteTemp(r) \/ PromoteFails(r) \/ Crash(r)
      PROVE  KeysInv'
  <2>1. Live(r) /\ UNCHANGED <<keys, cmd, seen, answer>>
    BY <1>3 DEF FindDuplicate, AddDocument, DiscardTemp, CopyToFinal, DeleteTemp, PromoteFails,
                Crash, Live, Ended
  <2>2. PICK l \in {"insert", "discard", "promote", "duplicate", "copied", "finish",
                   "compensate", "crashed"} :
          /\ pc' = [pc EXCEPT ![r] = l]
          /\ l = "crashed" \/ pc[r] \in Uploading \ {"prepare"}
    BY <1>3 DEF FindDuplicate, AddDocument, DiscardTemp, CopyToFinal, DeleteTemp, PromoteFails,
                Crash, Goto, Uploading, Owning
  <2>3. \/ l \in Ended
        \/ pc[r] \in Uploading \ {"prepare"} /\ l \in Uploading \ {"prepare", "prepared"}
    <3>1. l \in Ended \/ l \in Uploading \ {"prepare", "prepared"}
      BY DEF Uploading, Owning, Ended
    <3>2. l = "crashed" => l \in Ended
      BY DEF Ended
    <3> QED BY <2>2, <3>1, <3>2
  <2> QED BY <2>1, <2>2, <2>3, MovesOn
<1>4. ASSUME NEW r \in Requests, RejectUpload(r) \/ MarkUploadStorageFailed(r) PROVE KeysInv'
  <2>1. /\ Live(r) /\ Selected(r) /\ cmd' = cmd /\ seen[r] \in Row
        /\ Payload(r) \in Payloads \cup {None}
    BY <1>4, CmdType DEF RejectUpload, MarkUploadStorageFailed, Live, Ended, TypeOK
  <2>2. PICK old \in Row : old = seen[r]
    BY <2>1
  <2>3. old = keys[Key(r)]
    BY <2>1, <2>2 DEF KeysInv, Owns
  <2>4. PICK fp \in Payloads \cup {None}, retryable \in BOOLEAN,
             code \in {"invalid", "unavailable"} :
          FailRow(r, old, fp, retryable) /\ Return(r, code, None)
    BY <1>4, <2>1, <2>2 DEF RejectUpload, MarkUploadStorageFailed
  <2> QED BY <2>1, <2>3, <2>4, FailsKeys
<1>5. ASSUME NEW r \in Requests, PutTempFails(r) PROVE KeysInv'
  <2>1. /\ Live(r) /\ cmd' = cmd /\ keys[Key(r)] \in Row /\ Payload(r) \in Payloads \cup {None}
    BY <1>5, CmdType, RowType DEF PutTempFails, Live, Ended
  <2>2. PICK old \in Row : old = keys[Key(r)]
    BY <2>1
  <2>3. FailRow(r, old, Payload(r), TRUE) /\ Return(r, "unavailable", None)
    BY <1>5, <2>2 DEF PutTempFails
  <2>4. PICK fp \in Payloads \cup {None} : fp = Payload(r)
    BY <2>1
  <2> QED BY <2>1, <2>2, <2>3, <2>4, FailsKeys
<1>6. ASSUME NEW r \in Requests, CompleteDuplicate(r) \/ Finish(r) PROVE KeysInv'
  <2>1. PICK outcome \in {"created", "duplicate"} :
          /\ Live(r) /\ Selected(r) /\ cmd' = cmd /\ pc[r] \in Uploading \ {"prepare"}
          /\ CompleteRow(r, outcome) /\ Return(r, outcome, Hash(r))
    BY <1>6 DEF CompleteDuplicate, Finish, Live, Ended, Uploading, Owning
  <2>2. seen[r] = keys[Key(r)] /\ Payload(r) \in Valid
    BY <2>1 DEF KeysInv, Owns
  <2> QED BY <2>1, <2>2, CompletesKeys
<1>7. ASSUME NEW k \in Keys, CleanupKey(k) PROVE KeysInv'
  <2>1. UNCHANGED <<cmd, pc, seen, answer>> /\ \A r \in Requests : Key(r) = k => ~Live(r)
    BY <1>7 DEF CleanupKey
  <2>2. keys'[k].status = "absent" /\ \A i \in Keys \ {k} : keys'[i] = keys[i]
    BY <1>7 DEF CleanupKey, TypeOK, NoRow
  <2>3. \A q : Key(q)' = Key(q) /\ Payload(q)' = Payload(q) /\ Hash(q)' = Hash(q)
    BY <2>1, SameCommands
  <2>4. ASSUME NEW r \in Requests PROVE Owns(r)' /\ OwnContent(r)'
    <3>1. Owns(r) /\ OwnContent(r) /\ Key(r) \in Keys
      BY CmdType DEF KeysInv
    <3>2. Live(r) => keys'[Key(r)] = keys[Key(r)]
      BY <2>1, <2>2, <3>1
    <3>3. pc[r] \in Uploading \cup {"reserve"} => Live(r)
      BY DEF Live, Ended, Uploading, Owning
    <3> QED BY <2>1, <2>3, <3>1, <3>2, <3>3 DEF Owns, OwnContent, Live, Selected
  <2>5. Serial' /\ \A i \in Keys : HonestRow(i)'
    BY <2>1, <2>2, <2>3 DEF KeysInv, Serial, Live, HonestRow
  <2> QED BY <2>4, <2>5 DEF KeysInv
<1>8. CASE UNCHANGED <<keys, cmd, pc, seen, answer>>
  BY <1>8 DEF KeysInv, Serial, Owns, OwnContent, HonestRow, Live, Selected, Key, Payload, Hash
<1>9. ASSUME NEW h \in Hashes, ArchiveDocument(h) PROVE KeysInv'
  BY <1>8, <1>9 DEF ArchiveDocument
<1>10. CASE UNCHANGED vars
  BY <1>8, <1>10 DEF vars
<1> QED BY <1>1, <1>2, <1>3, <1>4, <1>5, <1>6, <1>7, <1>9, <1>10, StartKeys, ReserveKeys,
           CheckRetryKeys, LoadRowKeys, ClaimKeys, PutTempKeys, CommitFingerprintKeys
        DEF Next, Step

LEMMA KeysInit == ASSUME Init PROVE KeysInv
<1>1. \A r \in Requests : pc[r] = "idle" /\ answer[r].code = "none"
  BY DEF Init
<1>2. \A k \in Keys : keys[k].status = "absent"
  BY DEF Init, NoRow
<1> QED BY <1>1, <1>2 DEF KeysInv, Serial, Owns, OwnContent, HonestRow, Live, Ended,
                          Uploading, Owning

(* While no client sends a key twice at a time, a completed row names the  *)
(* document with the bytes of the request it fingerprints, for any number  *)
(* of retries and crashes (finalize_fingerprint, complete).                *)
THEOREM CompletedRowsAreHonest == SerialKeys => (Spec => []CompletedRowIsHonest)
<1> SUFFICES ASSUME SerialKeys PROVE Spec => []CompletedRowIsHonest
  OBVIOUS
<1>1. Init => KeysInv
  BY KeysInit
<1>2. TypeOK /\ KeysInv /\ [Next]_vars => KeysInv'
  BY KeysStep
<1>3. KeysInv => CompletedRowIsHonest
  BY DEF KeysInv, HonestRow, CompletedRowIsHonest
<1> QED BY <1>1, <1>2, <1>3, UploadTypeCorrect, PTL DEF Spec

(* A replayed response then names the document with the very bytes that    *)
(* were sent (_assert_replay_fingerprint, _replay_completed).              *)
THEOREM ReplaysServeOwnContent == SerialKeys => (Spec => []ReplayServesOwnContent)
<1> SUFFICES ASSUME SerialKeys PROVE Spec => []ReplayServesOwnContent
  OBVIOUS
<1>1. Init => KeysInv
  BY KeysInit
<1>2. TypeOK /\ KeysInv /\ [Next]_vars => KeysInv'
  BY KeysStep
<1>3. KeysInv => ReplayServesOwnContent
  BY DEF KeysInv, OwnContent, ReplayServesOwnContent
<1> QED BY <1>1, <1>2, <1>3, UploadTypeCorrect, PTL DEF Spec

-----------------------------------------------------------------------------
(* Why every request ends.  The steps a request has before it at most, by  *)
(* where it is: a step is one transaction or storage call.                 *)
Distance(l) ==
    CASE l = "idle" -> 10
      [] l \in {"reserve", "existing"} -> 9
      [] l = "claim" -> 8
      [] l = "prepare" -> 7
      [] l = "prepared" -> 6
      [] l = "lookup" -> 5
      [] l = "insert" -> 4
      [] l \in {"discard", "promote"} -> 3
      [] l \in {"duplicate", "copied"} -> 2
      [] l \in {"finish", "compensate"} -> 1
      [] OTHER -> 0

(* A method that changes the row takes two: the SELECT and the rest.       *)
Rest(r) == 2 * Distance(pc[r]) + (IF Selected(r) THEN 0 ELSE 1)

(* No step is ever undone or repeated, by whichever request.               *)
WindsDown ==
    \A r \in Requests :
        /\ Rest(r)' <= Rest(r)
        /\ Start(r) \/ Step(r) \/ Crash(r) => Rest(r)' < Rest(r)

(* The row of a running request is there for _required_record to find, and *)
(* one that was found at the start has a status to answer with.            *)
RowKept ==
    \A r \in Requests :
        /\ Live(r) /\ pc[r] # "reserve" => keys[Key(r)].status # "absent"
        /\ pc[r] = "existing" => Selected(r)

LEMMA DistanceFalls ==
    ASSUME TypeOK, NEW r \in Requests, NEW l, pc' = [pc EXCEPT ![r] = l],
           Distance(l) \in Nat, Distance(pc[r]) \in Nat, Distance(l) < Distance(pc[r])
    PROVE  Rest(r)' < Rest(r) /\ pc'[r] = l /\ \A q \in Requests \ {r} : pc'[q] = pc[q]
<1>1. pc'[r] = l /\ \A q \in Requests \ {r} : pc'[q] = pc[q]
  BY DEF TypeOK
<1>2. Rest(r)' = 2 * Distance(l) + (IF Selected(r)' THEN 0 ELSE 1)
  BY <1>1 DEF Rest, Distance
<1>3. 2 * Distance(l) + 2 <= 2 * Distance(pc[r])
  OBVIOUS
<1> QED BY <1>1, <1>2, <1>3 DEF Rest

(* What an UPDATE leaves of a row that is there.                           *)
LEMMA WrittenIsThere ==
    ASSUME TypeOK, NEW r \in Requests, NEW old, NEW new, WriteRow(r, old, new),
           new.status # "absent", keys[Key(r)].status # "absent"
    PROVE  /\ \A k \in Keys : keys[k].status # "absent" => keys'[k].status # "absent"
           /\ \A q \in Requests \ {r} : seen'[q] = seen[q]
<1>1. /\ keys' = [keys EXCEPT ![Key(r)] = Flush(keys[Key(r)], old, new)]
      /\ \A q \in Requests \ {r} : seen'[q] = seen[q]
  BY DEF WriteRow, TypeOK
<1>2. Flush(keys[Key(r)], old, new).status # "absent"
  BY DEF Flush
<1> QED BY <1>1, <1>2, CmdType DEF TypeOK

(* One step of r: it comes nearer to its end, the others and the rows they *)
(* need stay.                                                              *)
Nearer(r) ==
    /\ Rest(r)' < Rest(r)
    /\ \A q \in Requests \ {r} : pc'[q] = pc[q] /\ seen'[q] = seen[q]
    /\ cmd' = cmd
    /\ \A k \in Keys : keys[k].status # "absent" => keys'[k].status # "absent"
    /\ Live(r)' /\ pc'[r] # "reserve" => keys'[Key(r)].status # "absent"
    /\ pc'[r] = "existing" => Selected(r)'

LEMMA StartsNearer == ASSUME TypeOK, RowKept, NEW r \in Requests, Start(r) PROVE Nearer(r)
<1>1. PICK l \in {"reserve", "existing"} : pc' = [pc EXCEPT ![r] = l]
  BY DEF Start, Goto
<1>2. /\ Distance(l) \in Nat /\ Distance(pc[r]) \in Nat /\ Distance(l) < Distance(pc[r])
  BY DEF Distance, Start
<1>3. Rest(r)' < Rest(r) /\ pc'[r] = l /\ \A q \in Requests \ {r} : pc'[q] = pc[q]
  BY <1>1, <1>2, DistanceFalls
<1>4. /\ seen'[r] = keys[Key(r)] /\ \A q \in Requests \ {r} : seen'[q] = seen[q]
      /\ keys' = keys /\ cmd' = cmd
      /\ l = "existing" => keys[Key(r)].status # "absent"
  BY <1>1, <1>3 DEF Start, Goto, TypeOK
<1> QED BY <1>3, <1>4 DEF Nearer, Selected

(* Steps that leave the rows alone.                                        *)
LEMMA ReadsNearer ==
    ASSUME TypeOK, RowKept, NEW r \in Requests, Live(r), pc[r] # "reserve", UNCHANGED <<keys, cmd>>,
           NEW l, pc' = [pc EXCEPT ![r] = l], l # "existing",
           \A q \in Requests \ {r} : seen'[q] = seen[q],
           Distance(l) \in Nat, Distance(pc[r]) \in Nat, Distance(l) < Distance(pc[r])
    PROVE  Nearer(r)
<1>1. Rest(r)' < Rest(r) /\ pc'[r] = l /\ \A q \in Requests \ {r} : pc'[q] = pc[q]
  BY DistanceFalls
<1> QED BY <1>1 DEF Nearer, RowKept

LEMMA AsideNearer ==
    ASSUME TypeOK, RowKept, NEW r \in Requests,
           \/ AnswerInProgress(r) \/ AnswerCompleted(r) \/ AnswerFailed(r) \/ CheckRetry(r)
           \/ ClaimRefused(r) \/ PutTemp(r) \/ FindDuplicate(r) \/ AddDocument(r)
           \/ DiscardTemp(r) \/ CopyToFinal(r) \/ DeleteTemp(r) \/ PromoteFails(r)
    PROVE  Nearer(r)
<1> USE DEF AnswerInProgress, AnswerCompleted, AnswerFailed, CheckRetry, ClaimRefused, PutTemp,
            FindDuplicate, AddDocument, DiscardTemp, CopyToFinal, DeleteTemp, PromoteFails
<1>1. UNCHANGED <<keys, cmd>>
  OBVIOUS
<1>2. \A q \in Requests \ {r} : seen'[q] = seen[q]
  BY DEF TypeOK
<1>3. PICK l : /\ pc' = [pc EXCEPT ![r] = l]
               /\ \/ pc[r] = "existing" /\ l \in {"done", "claim"}
                  \/ pc[r] = "claim" /\ l = "done"
                  \/ pc[r] = "prepare" /\ l = "prepared"
                  \/ pc[r] = "lookup" /\ l \in {"insert", "discard"}
                  \/ pc[r] = "insert" /\ l \in {"promote", "discard"}
                  \/ pc[r] = "discard" /\ l = "duplicate"
                  \/ pc[r] = "promote" /\ l \in {"copied", "finish", "compensate"}
                  \/ pc[r] = "copied" /\ l \in {"finish", "compensate"}
  BY DEF Return, Goto
<1> HIDE DEF AnswerInProgress, AnswerCompleted, AnswerFailed, CheckRetry, ClaimRefused, PutTemp,
            FindDuplicate, AddDocument, DiscardTemp, CopyToFinal, DeleteTemp, PromoteFails
<1>4. /\ Distance(l) \in Nat /\ Distance(pc[r]) \in Nat /\ Distance(l) < Distance(pc[r])
      /\ l # "existing" /\ Live(r) /\ pc[r] # "reserve"
  BY <1>3 DEF Distance, Live, Ended
<1> QED BY <1>1, <1>2, <1>3, <1>4, ReadsNearer

LEMMA CrashNearer == ASSUME TypeOK, RowKept, NEW r \in Requests, Crash(r) PROVE Nearer(r)
<1>1. pc' = [pc EXCEPT ![r] = "crashed"] /\ UNCHANGED <<keys, cmd, seen>> /\ Live(r)
  BY DEF Crash, Goto
<1>2. /\ Distance("crashed") \in Nat /\ Distance(pc[r]) \in Nat /\ Distance("crashed") < Distance(pc[r])
  BY <1>1 DEF Distance, Live, Ended, TypeOK
<1>3. Rest(r)' < Rest(r) /\ pc'[r] = "crashed" /\ \A q \in Requests \ {r} : pc'[q] = pc[q]
  BY <1>1, <1>2, DistanceFalls
<1> QED BY <1>1, <1>3 DEF Nearer, Live, Ended

LEMMA ReserveNearer == ASSUME TypeOK, RowKept, NEW r \in Requests, Reserve(r) PROVE Nearer(r)
<1>1. pc' = [pc EXCEPT ![r] = "prepare"] /\ UNCHANGED <<cmd, seen>> /\ pc[r] = "reserve"
  BY DEF Reserve, Goto
<1>2. /\ Distance("prepare") \in Nat /\ Distance(pc[r]) \in Nat /\ Distance("prepare") < Distance(pc[r])
  BY <1>1 DEF Distance
<1>3. Rest(r)' < Rest(r) /\ pc'[r] = "prepare" /\ \A q \in Requests \ {r} : pc'[q] = pc[q]
  BY <1>1, <1>2, DistanceFalls
<1>4. /\ \A k \in Keys : keys[k].status # "absent" => keys'[k].status # "absent"
      /\ keys'[Key(r)].status # "absent"
  BY CmdType DEF Reserve, TypeOK, Row
<1> QED BY <1>1, <1>3, <1>4 DEF Nearer

(* The SELECT of a method that will change the row finds it.               *)
LEMMA LoadRowNearer == ASSUME TypeOK, RowKept, NEW r \in Requests, LoadRow(r) PROVE Nearer(r)
<1>1. /\ pc[r] \in {"claim", "prepare", "duplicate", "finish", "compensate"} /\ ~Selected(r)
      /\ seen'[r] = keys[Key(r)] /\ \A q \in Requests \ {r} : seen'[q] = seen[q]
      /\ UNCHANGED <<keys, cmd, pc>>
  BY DEF LoadRow, TypeOK
<1>2. keys[Key(r)].status # "absent"
  BY <1>1 DEF RowKept, Live, Ended
<1>3. Selected(r)'
  BY <1>1, <1>2 DEF Selected
<1>4. Distance(pc[r]) \in Nat
  BY <1>1 DEF Distance
<1>5. Distance(pc'[r]) = Distance(pc[r])
  BY <1>1
<1>6. Rest(r)' = 2 * Distance(pc[r]) /\ Rest(r) = 2 * Distance(pc[r]) + 1
  BY <1>1, <1>3, <1>4, <1>5 DEF Rest, Selected
<1>7. Rest(r)' < Rest(r)
  BY <1>4, <1>6
<1> QED BY <1>1, <1>2, <1>7 DEF Nearer

(* Steps that write the row.                                               *)
LEMMA WritesNearer ==
    ASSUME TypeOK, RowKept, NEW r \in Requests,
           \/ Claim(r) \/ RejectUpload(r) \/ PutTempFails(r) \/ CommitFingerprint(r)
           \/ CompleteDuplicate(r) \/ Finish(r) \/ MarkUploadStorageFailed(r)
    PROVE  Nearer(r)
<1> USE DEF Claim, RejectUpload, PutTempFails, CommitFingerprint, CompleteDuplicate, Finish,
            MarkUploadStorageFailed
<1>1. cmd' = cmd
  OBVIOUS
<1>2. PICK l : /\ pc' = [pc EXCEPT ![r] = l]
               /\ \/ pc[r] = "claim" /\ l = "prepare"
                  \/ pc[r] \in {"prepare", "duplicate", "finish", "compensate"} /\ l = "done"
                  \/ pc[r] = "prepared" /\ l = "lookup"
  BY DEF Return, Goto
<1>3. keys[Key(r)].status # "absent"
  BY <1>2 DEF RowKept, Live, Ended
<1>4. /\ Distance(l) \in Nat /\ Distance(pc[r]) \in Nat /\ Distance(l) < Distance(pc[r])
      /\ l # "existing"
  BY <1>2 DEF Distance
<1>5. Rest(r)' < Rest(r) /\ pc'[r] = l /\ \A q \in Requests \ {r} : pc'[q] = pc[q]
  BY <1>2, <1>4, DistanceFalls
<1>6. /\ \A k \in Keys : keys[k].status # "absent" => keys'[k].status # "absent"
      /\ \A q \in Requests \ {r} : seen'[q] = seen[q]
  <2>1. seen[r] \in Row /\ keys[Key(r)] \in Row
    BY RowType
  <2>2. CASE pc[r] = "prepared"
    <3>1. WriteRow(r, seen[r], [seen[r] EXCEPT !.fp = Payload(r)])
      BY <2>2
    <3>2. [seen[r] EXCEPT !.fp = Payload(r)].status = seen[r].status
      BY <2>1 DEF Row
    <3>3. /\ keys' = [keys EXCEPT ![Key(r)] = Flush(keys[Key(r)], seen[r],
                                                   [seen[r] EXCEPT !.fp = Payload(r)])]
          /\ \A q \in Requests \ {r} : seen'[q] = seen[q]
      BY <3>1 DEF WriteRow, TypeOK
    <3>4. Flush(keys[Key(r)], seen[r], [seen[r] EXCEPT !.fp = Payload(r)]).status # "absent"
      BY <1>3, <3>2 DEF Flush
    <3> QED BY <3>3, <3>4, CmdType DEF TypeOK
  <2>3. CASE pc[r] # "prepared"
    <3>1. PICK old, new : WriteRow(r, old, new) /\ new.status # "absent"
      <4>1. ASSUME NEW old \in Row, NEW fp, NEW retryable, FailRow(r, old, fp, retryable)
            PROVE  \E o, n : WriteRow(r, o, n) /\ n.status # "absent"
        <5> DEFINE new == [old EXCEPT !.status = "failed", !.fp = fp,
                                      !.outcome = "none", !.retryable = retryable]
        <5>1. WriteRow(r, old, new)
          BY <4>1 DEF FailRow
        <5>2. new.status = "failed"
          BY DEF Row
        <5> HIDE DEF new
        <5> QED BY <5>1, <5>2
      <4>2. ASSUME NEW outcome, CompleteRow(r, outcome)
            PROVE  \E o, n : WriteRow(r, o, n) /\ n.status # "absent"
        <5> DEFINE new == [seen[r] EXCEPT !.status = "completed", !.fp = Payload(r),
                             !.doc = Hash(r), !.outcome = outcome, !.retryable = FALSE]
        <5>1. WriteRow(r, seen[r], new)
          BY <4>2 DEF CompleteRow
        <5>2. new.status = "completed"
          BY <2>1 DEF Row
        <5> HIDE DEF new
        <5> QED BY <5>1, <5>2
      <4>3. ASSUME Claim(r) PROVE \E o, n : WriteRow(r, o, n) /\ n.status # "absent"
        <5> DEFINE new == [seen[r] EXCEPT !.status = "in_progress", !.outcome = "none",
                                          !.retryable = FALSE]
        <5>1. WriteRow(r, seen[r], new)
          BY <4>3
        <5>2. new.status = "in_progress"
          BY <2>1 DEF Row
        <5> HIDE DEF new
        <5> QED BY <5>1, <5>2
      <4>4. \/ Claim(r)
            \/ \E old \in Row : \E fp, retryable : FailRow(r, old, fp, retryable)
            \/ \E outcome : CompleteRow(r, outcome)
        BY <2>1, <2>3
      <4> QED BY <4>1, <4>2, <4>3, <4>4
    <3> QED BY <1>3, <3>1, WrittenIsThere
  <2> QED BY <2>2, <2>3
<1>7. keys'[Key(r)].status # "absent" /\ pc'[r] # "existing"
  BY <1>3, <1>4, <1>5, <1>6, CmdType
<1> QED BY <1>1, <1>5, <1>6, <1>7 DEF Nearer

LEMMA ComesNearer ==
    ASSUME TypeOK, RowKept, NEW r \in Requests, Start(r) \/ Step(r) \/ Crash(r)
    PROVE  Nearer(r)
BY StartsNearer, AsideNearer, CrashNearer, ReserveNearer, LoadRowNearer, WritesNearer DEF Step

LEMMA KeptStep == ASSUME TypeOK, RowKept, [Next]_vars PROVE RowKept' /\ (WindsDown \/ UNCHANGED vars)
<1>1. \A r \in Requests : Rest(r) \in Nat /\ Rest(r)' \in Nat
  <2>1. \A l : Distance(l) \in Nat
    BY DEF Distance
  <2> QED BY <2>1 DEF Rest
<1>2. ASSUME NEW r \in Requests, Nearer(r)
      PROVE  RowKept' /\ \A q \in Requests : Rest(q)' <= Rest(q)
  <2>1. \A q \in Requests : Key(q)' = Key(q) /\ Key(q) \in Keys
    BY <1>2, CmdType DEF Nearer, Key
  <2>2. ASSUME NEW q \in Requests \ {r}
        PROVE  /\ Rest(q)' = Rest(q) /\ (Live(q)' <=> Live(q)) /\ (Selected(q)' <=> Selected(q))
               /\ pc'[q] = pc[q]
    BY <1>2, <2>2 DEF Nearer, Rest, Distance, Selected, Live
  <2>3. RowKept'
    BY <1>2, <2>1, <2>2 DEF RowKept, Nearer
  <2> QED BY <1>1, <1>2, <2>2, <2>3 DEF Nearer
<1>3. ASSUME UNCHANGED <<pc, seen, cmd>>,
             \A q \in Requests : Live(q) => keys'[Key(q)] = keys[Key(q)]
      PROVE  RowKept' /\ \A q \in Requests : Rest(q)' <= Rest(q)
  <2>1. \A q \in Requests : /\ Rest(q)' = Rest(q) /\ (Live(q)' <=> Live(q))
                            /\ (Selected(q)' <=> Selected(q)) /\ Key(q)' = Key(q)
    BY <1>3 DEF Rest, Distance, Selected, Live, Key
  <2> QED BY <1>1, <1>3, <2>1 DEF RowKept
<1>4. CASE Next
  <2>1. RowKept' /\ \A q \in Requests : Rest(q)' <= Rest(q)
    <3>1. ASSUME NEW k \in Keys, CleanupKey(k)
          PROVE  \A q \in Requests : Live(q) => keys'[Key(q)] = keys[Key(q)]
      BY <3>1, CmdType DEF CleanupKey, TypeOK
    <3> QED BY <1>2, <1>3, <1>4, <3>1, ComesNearer DEF Next, ArchiveDocument, CleanupKey
  <2> QED BY <2>1, ComesNearer DEF WindsDown, Nearer
<1>5. CASE UNCHANGED vars
  BY <1>3, <1>5 DEF vars
<1> QED BY <1>4, <1>5

(* Every request is over after at most 21 steps of its own, however many   *)
(* run beside it: each of its steps, and no step of another, brings it     *)
(* nearer to its end, and as long as it runs its row is there to be found  *)
(* and updated (UploadDocument, _required_record,                          *)
(* cleanup_expired_idempotency).                                           *)
THEOREM RequestsWindDown == Spec => []RowKept /\ [][WindsDown]_vars
<1>1. Init => RowKept
  BY DEF Init, RowKept, Live, Ended
<1>2. TypeOK /\ RowKept /\ [Next]_vars => RowKept' /\ [WindsDown]_vars
  BY KeptStep
<1> QED BY <1>1, <1>2, UploadTypeCorrect, PTL DEF Spec

-----------------------------------------------------------------------------
(* Uploads as a ContentStore.  A row, or the copy of one, names only a     *)
(* registered document, and a completed row names one; the copy that a     *)
(* request works on may be old, but the document it saw is not taken back. *)
Registered(row) ==
    /\ row.status = "completed" => row.doc # None
    /\ row.doc # None => docs[row.doc].storage # "none"

Names(r) ==
    /\ Registered(seen[r])
    /\ Live(r) /\ seen[r].doc # None => keys[Key(r)].doc # None
    /\ pc[r] \in {"discard", "duplicate"} => docs[Hash(r)].storage # "none"
    /\ answer[r].code # "none" => pc[r] = "done"

NamesInv ==
    /\ \A k \in Keys : Registered(keys[k])
    /\ \A r \in Requests : Names(r)

(* A step of r, which takes no document and no name of one away.           *)
Keeps(r) ==
    /\ cmd' = cmd
    /\ \A h \in Hashes : docs[h].storage # "none" => docs'[h].storage # "none"
    /\ \A q \in Requests \ {r} : pc'[q] = pc[q] /\ seen'[q] = seen[q] /\ answer'[q] = answer[q]
    /\ \A k \in Keys \ {Key(r)} : keys'[k] = keys[k]
    /\ keys[Key(r)].doc # None => keys'[Key(r)].doc # None

LEMMA StillRegistered ==
    ASSUME NEW row \in Row, Registered(row),
           \A h \in Hashes : docs[h].storage # "none" => docs'[h].storage # "none"
    PROVE  /\ row.status = "completed" => row.doc # None
           /\ row.doc # None => docs'[row.doc].storage # "none"
BY DEF Registered, Row

LEMMA NamesKept ==
    ASSUME TypeOK, NamesInv, NEW r \in Requests, Keeps(r), Names(r)',
           Registered(keys[Key(r)])'
    PROVE  NamesInv'
<1>1. \A q : Key(q)' = Key(q) /\ Payload(q)' = Payload(q) /\ Hash(q)' = Hash(q)
  BY SameCommands DEF Keeps
<1>2. ASSUME NEW k \in Keys PROVE Registered(keys[k])'
  <2>1. CASE k = Key(r)
    BY <1>1, <2>1
  <2>2. CASE k # Key(r)
    <3>1. keys'[k] = keys[k] /\ keys[k] \in Row /\ Registered(keys[k])
      BY <2>2 DEF Keeps, TypeOK, NamesInv
    <3> QED BY <3>1, StillRegistered DEF Keeps, Registered
  <2> QED BY <2>1, <2>2
<1>3. ASSUME NEW q \in Requests PROVE Names(q)'
  <2>1. CASE q = r
    BY <2>1
  <2>2. CASE q # r
    <3>1. /\ pc'[q] = pc[q] /\ seen'[q] = seen[q] /\ answer'[q] = answer[q] /\ seen[q] \in Row
          /\ Names(q) /\ Key(q) \in Keys /\ Hash(q) \in Hashes
      BY <2>2, CmdType DEF Keeps, TypeOK, NamesInv
    <3>2. Registered(seen[q])'
      BY <3>1, StillRegistered DEF Keeps, Registered, Names
    <3>3. keys[Key(q)].doc # None => keys'[Key(q)].doc # None
      BY <3>1 DEF Keeps
    <3> QED BY <1>1, <3>1, <3>2, <3>3 DEF Names, Live, Keeps
  <2> QED BY <2>1, <2>2
<1> QED BY <1>2, <1>3 DEF NamesInv

(* What ContentStore sees of a step: one of its own or nothing.            *)
Mapped == NamesInv' /\ (Store!Next \/ UNCHANGED <<Sent, Content, Storing, answer>>)

LEMMA SameSent == ASSUME cmd' = cmd PROVE Sent' = Sent
BY DEF Sent, Hash

LEMMA SameContent == ASSUME docs' = docs PROVE Content' = Content
BY DEF Content

LEMMA SameStoring ==
    ASSUME TypeOK, NEW r \in Requests, NEW l, pc' = [pc EXCEPT ![r] = l]
    PROVE  /\ pc[r] \notin Owning /\ l \notin Owning => Storing' = Storing /\ r \notin Storing
           /\ pc[r] \in Owning /\ l \in Owning => Storing' = Storing
           /\ pc[r] \in Owning /\ l \notin Owning => Storing' = Storing \ {r} /\ r \in Storing
           /\ pc[r] \notin Owning /\ l \in Owning
                => Storing' = Storing \cup {r} /\ r \notin Storing
<1>1. pc'[r] = l /\ \A q \in Requests \ {r} : pc'[q] = pc[q]
  BY DEF TypeOK
<1> QED BY <1>1 DEF Storing

(* An answer is a request's first and only one.                            *)
LEMMA Tells ==
    ASSUME TypeOK, NamesInv, NEW r \in Requests, pc[r] # "done", NEW code, NEW d,
           Return(r, code, d), cmd' = cmd
    PROVE  Store!Tell(r, code, d)
<1>1. answer[r].code = "none"
  BY DEF NamesInv, Names
<1>2. UNCHANGED Sent
  BY SameSent
<1> QED BY <1>1, <1>2 DEF Return, Store!Tell

LEMMA Replies ==
    ASSUME TypeOK, NamesInv, NEW r \in Requests, pc[r] # "done", pc[r] \notin Owning,
           NEW code, NEW d, Return(r, code, d), UNCHANGED <<cmd, docs>>
    PROVE  Store!Answer(r, code, d)
<1>1. Store!Tell(r, code, d)
  BY Tells
<1>2. PICK l \in {"done"} : pc' = [pc EXCEPT ![r] = l]
  BY DEF Return, Goto
<1>3. Storing' = Storing /\ r \notin Storing
  BY <1>2, SameStoring DEF Owning
<1> QED BY <1>1, <1>3, SameContent DEF Store!Answer

(* A refusal.                                                              *)
LEMMA Refuses ==
    ASSUME TypeOK, NamesInv, NEW r \in Requests, pc[r] # "done", pc[r] \notin Owning,
           NEW code \in {"in_progress", "conflict", "invalid", "unavailable", "error"},
           Return(r, code, None), UNCHANGED <<cmd, docs>>
    PROVE  Store!Next
<1>1. Store!Refuse(r, code)
  BY Replies DEF Store!Refuse
<1> QED BY <1>1 DEF Store!Next

(* A step that writes no table: its request may read its row, go on, or    *)
(* end.                                                                    *)
LEMMA NoWrite ==
    ASSUME TypeOK, NamesInv, NEW r \in Requests, UNCHANGED <<cmd, docs, keys>>,
           NEW l, pc' = [pc EXCEPT ![r] = l], pc[r] # "done",
           NEW s, seen' = [seen EXCEPT ![r] = s],
           s \in {keys[Key(r)], NoRow} \/ (s = seen[r] /\ Live(r)),
           l \in {"discard", "duplicate"} => docs[Hash(r)].storage # "none",
           \/ answer' = answer
           \/ l = "done" /\ \E code, d : answer' = [answer EXCEPT ![r] = [code |-> code, doc |-> d]]
    PROVE  NamesInv'
<1>1. \A q : Key(q)' = Key(q) /\ Payload(q)' = Payload(q) /\ Hash(q)' = Hash(q)
  BY SameCommands
<1>2. pc'[r] = l /\ seen'[r] = s /\ Key(r) \in Keys
  BY CmdType DEF TypeOK
<1>3. Keeps(r)
  BY DEF Keeps, TypeOK
<1>4. Registered(s) /\ (s.doc # None => keys[Key(r)].doc # None)
  BY <1>2 DEF NamesInv, Names, Registered, NoRow
<1>5. answer[r].code = "none"
  BY DEF NamesInv, Names
<1>6. Names(r)'
  BY <1>1, <1>2, <1>4, <1>5 DEF Names, Registered, Live
<1>7. Registered(keys[Key(r)])'
  BY <1>1, <1>2 DEF NamesInv, Registered
<1> QED BY <1>3, <1>6, <1>7, NamesKept

(* An UPDATE of the row: it leaves the document the row names, or puts a   *)
(* registered one in its place.                                            *)
LEMMA Writes ==
    ASSUME TypeOK, NamesInv, NEW r \in Requests, pc[r] # "done", cmd' = cmd,
           \A h \in Hashes : docs[h].storage # "none" => docs'[h].storage # "none",
           NEW old, NEW new, WriteRow(r, old, new),
           \/ new.doc = old.doc /\ (new.status = "completed" => new.status = old.status)
           \/ /\ new.doc \in Hashes /\ docs'[new.doc].storage # "none"
              /\ old.doc # None => keys[Key(r)].doc # None,
           NEW l, pc' = [pc EXCEPT ![r] = l], l \notin {"discard", "duplicate"},
           \/ answer' = answer
           \/ l = "done" /\ \E code, d : answer' = [answer EXCEPT ![r] = [code |-> code, doc |-> d]]
    PROVE  NamesInv'
<1> DEFINE row == keys[Key(r)]
           put == Flush(row, old, new)
<1>1. \A q : Key(q)' = Key(q) /\ Payload(q)' = Payload(q) /\ Hash(q)' = Hash(q)
  BY SameCommands
<1>2. /\ pc'[r] = l /\ Key(r) \in Keys /\ row \in Row /\ Registered(row)
      /\ answer[r].code = "none" /\ None \notin Hashes
  BY CmdType, UploadAssumption DEF TypeOK, NamesInv, Names
<1>3. keys' = [keys EXCEPT ![Key(r)] = put] /\ seen' = [seen EXCEPT ![r] = NoRow]
  BY DEF WriteRow
<1>4. /\ row.status = "completed" => row.doc # None
      /\ row.doc # None => docs'[row.doc].storage # "none"
  BY <1>2, StillRegistered
<1>5. /\ put.status = IF new.status = old.status THEN row.status ELSE new.status
      /\ put.doc = IF new.doc = old.doc THEN row.doc ELSE new.doc
  BY DEF Flush
<1> HIDE DEF put, row
<1>6. /\ put.status = "completed" => put.doc # None
      /\ put.doc # None => docs'[put.doc].storage # "none"
      /\ row.doc # None => put.doc # None
  BY <1>2, <1>4, <1>5 DEF row
<1>7. keys'[Key(r)] = put /\ seen'[r] = NoRow
  BY <1>2, <1>3 DEF TypeOK
<1>8. Keeps(r)
  BY <1>3, <1>6, <1>7 DEF Keeps, TypeOK, row
<1>9. Registered(keys[Key(r)])'
  BY <1>1, <1>6, <1>7 DEF Registered
<1>10. Names(r)'
  BY <1>2, <1>7 DEF Names, Registered, NoRow
<1> QED BY <1>8, <1>9, <1>10, NamesKept

(* A request that reads or goes on, without an answer.                     *)
LEMMA SilentMaps ==
    ASSUME UploadInv, NamesInv, NEW r \in Requests,
           \/ Start(r) \/ LoadRow(r) \/ PutTemp(r) \/ FindDuplicate(r) \/ DiscardTemp(r)
           \/ CopyToFinal(r) \/ DeleteTemp(r) \/ PromoteFails(r) \/ Crash(r)
    PROVE  Mapped
<1>1. TypeOK /\ Hash(r) \in Hashes
  BY CmdType DEF UploadInv
<1>2. UNCHANGED <<cmd, docs, keys, answer>>
  BY DEF Start, LoadRow, PutTemp, FindDuplicate, DiscardTemp, CopyToFinal, DeleteTemp,
     PromoteFails, Crash
<1>3. UNCHANGED <<Sent, Content, answer>>
  BY <1>2, SameSent, SameContent
<1>4. seen = [seen EXCEPT ![r] = seen[r]] /\ pc = [pc EXCEPT ![r] = pc[r]]
  BY <1>1 DEF TypeOK
<1>5. docs[Hash(r)].status # "absent" => docs[Hash(r)].storage # "none"
  BY <1>1 DEF UploadInv, DocumentRows
<1>6. ASSUME Start(r) PROVE NamesInv' /\ Storing' = Storing
  <2>1. PICK l \in {"reserve", "existing"} : pc' = [pc EXCEPT ![r] = l]
    BY <1>6 DEF Start, Goto
  <2>2. seen' = [seen EXCEPT ![r] = keys[Key(r)]] /\ pc[r] # "done"
    BY <1>6 DEF Start
  <2>3. Storing' = Storing
    BY <1>1, <1>6, <2>1, SameStoring DEF Start, Owning
  <2> QED BY <1>1, <1>2, <2>1, <2>2, <2>3, NoWrite
<1>7. ASSUME LoadRow(r) PROVE NamesInv' /\ Storing' = Storing
  <2>1. pc[r] \notin {"done", "idle", "crashed"} /\ pc' = [pc EXCEPT ![r] = pc[r]]
    BY <1>4, <1>7 DEF LoadRow
  <2>2. pc[r] \in {"discard", "duplicate"} => docs[Hash(r)].storage # "none"
    BY DEF NamesInv, Names
  <2>3. Storing' = Storing
    BY <1>7 DEF LoadRow, Storing
  <2> QED BY <1>1, <1>2, <1>7, <2>1, <2>2, <2>3, NoWrite DEF LoadRow, Live, Ended
<1>8. ASSUME PutTemp(r) \/ CopyToFinal(r) \/ DeleteTemp(r) \/ PromoteFails(r)
      PROVE  NamesInv' /\ Storing' = Storing
  <2>1. PICK l \in {"prepared", "finish", "copied", "compensate"} :
            pc' = [pc EXCEPT ![r] = l] /\ (pc[r] \in Owning <=> l \in Owning)
    BY <1>8 DEF PutTemp, CopyToFinal, DeleteTemp, PromoteFails, Goto, Owning
  <2>2. seen' = [seen EXCEPT ![r] = seen[r]] /\ pc[r] # "done" /\ Live(r)
    BY <1>4, <1>8 DEF PutTemp, CopyToFinal, DeleteTemp, PromoteFails, Live, Ended
  <2>3. Storing' = Storing
    BY <1>1, <2>1, SameStoring
  <2> QED BY <1>1, <1>2, <2>1, <2>2, <2>3, NoWrite
<1>9. ASSUME FindDuplicate(r) \/ DiscardTemp(r) PROVE NamesInv' /\ Storing' = Storing
  <2>1. PICK l \in {"insert", "discard", "duplicate"} :
            pc' = [pc EXCEPT ![r] = l] /\ (l # "insert" => docs[Hash(r)].storage # "none")
    BY <1>5, <1>9 DEF FindDuplicate, DiscardTemp, Goto, NamesInv, Names
  <2>2. seen' = [seen EXCEPT ![r] = seen[r]] /\ pc[r] # "done" /\ Live(r)
    BY <1>4, <1>9 DEF FindDuplicate, DiscardTemp, Live, Ended
  <2>3. Storing' = Storing
    BY <1>1, <1>9, <2>1, SameStoring DEF FindDuplicate, DiscardTemp, Owning
  <2> QED BY <1>1, <1>2, <2>1, <2>2, <2>3, NoWrite
<1>10. ASSUME Crash(r) PROVE Mapped
  <2>1. PICK l \in {"crashed"} : pc' = [pc EXCEPT ![r] = l]
    BY <1>10 DEF Crash, Goto
  <2>2. seen' = [seen EXCEPT ![r] = seen[r]] /\ pc[r] # "done" /\ Live(r)
    BY <1>4, <1>10 DEF Crash, Live, Ended
  <2>3. NamesInv'
    BY <1>1, <1>2, <2>1, <2>2, NoWrite
  <2>4. l \notin Owning
    BY DEF Owning
  <2>5. Storing' = Storing \/ (r \in Storing /\ Storing' = Storing \ {r})
    BY <1>1, <2>1, <2>4, SameStoring
  <2>6. r \in Storing /\ Storing' = Storing \ {r} => Store!Abandon(r)
    BY <1>3 DEF Store!Abandon
  <2> QED BY <1>3, <2>3, <2>5, <2>6 DEF Mapped, Store!Next
<1> QED BY <1>3, <1>6, <1>7, <1>8, <1>9, <1>10 DEF Mapped

(* An answer from the row read at the start, or a retry allowed by it.     *)
LEMMA ExistingMaps ==
    ASSUME UploadInv, NamesInv, NEW r \in Requests,
           \/ AnswerInProgress(r) \/ AnswerCompleted(r) \/ AnswerFailed(r)
           \/ CheckRetry(r) \/ ClaimRefused(r)
    PROVE  Mapped
<1>1. /\ TypeOK /\ UNCHANGED <<cmd, docs, keys>> /\ pc[r] # "done" /\ Live(r)
      /\ seen[r] \in Row /\ Registered(seen[r]) /\ pc[r] \notin Owning
  BY DEF AnswerInProgress, AnswerCompleted, AnswerFailed, CheckRetry, ClaimRefused, Live,
     Ended, Owning, UploadInv, TypeOK, NamesInv, Names
<1>2. seen = [seen EXCEPT ![r] = seen[r]]
  BY <1>1 DEF TypeOK
<1>3. ASSUME NEW code, NEW d, Return(r, code, d), seen' = seen PROVE NamesInv'
  <2>1. PICK l \in {"done"} : pc' = [pc EXCEPT ![r] = l]
    BY <1>3 DEF Return, Goto
  <2>2. /\ seen' = [seen EXCEPT ![r] = seen[r]]
        /\ answer' = [answer EXCEPT ![r] = [code |-> code, doc |-> d]]
    BY <1>2, <1>3 DEF Return
  <2> QED BY <1>1, <2>1, <2>2, NoWrite
<1>4. ASSUME NEW code \in {"in_progress", "conflict", "invalid", "error"},
             Return(r, code, None), seen' = seen
      PROVE  Mapped
  <2>1. Store!Next
    BY <1>1, <1>4, Refuses
  <2> QED BY <1>3, <1>4, <2>1 DEF Mapped
<1>5. ASSUME seen[r].status = "completed", Return(r, "replay", seen[r].doc), seen' = seen
      PROVE  Mapped
  <2>1. seen[r].doc \in Hashes /\ docs[seen[r].doc].storage # "none"
    BY <1>1, <1>5 DEF Registered, Row
  <2>2. Store!Answer(r, "replay", seen[r].doc)
    BY <1>1, <1>5, Replies
  <2>3. Store!Replay(r, seen[r].doc)
    BY <2>1, <2>2 DEF Store!Replay, Content
  <2>4. Store!Next
    BY <2>1, <2>3 DEF Store!Next
  <2> QED BY <1>3, <1>5, <2>4 DEF Mapped
<1>6. ASSUME CheckRetry(r), pc' = [pc EXCEPT ![r] = "claim"],
             seen' = [seen EXCEPT ![r] = NoRow], answer' = answer
      PROVE  Mapped
  <2>1. PICK l \in {"claim"} : pc' = [pc EXCEPT ![r] = l]
    BY <1>6
  <2>2. NamesInv'
    BY <1>1, <1>6, <2>1, NoWrite
  <2>3. Storing' = Storing
    BY <1>1, <2>1, SameStoring DEF Owning
  <2> QED BY <1>1, <1>6, <2>2, <2>3, SameSent, SameContent DEF Mapped
<1>7. ASSUME AnswerCompleted(r) PROVE Mapped
  <2>1. seen[r].status = "completed" /\ seen' = seen
        /\ (Return(r, "replay", seen[r].doc) \/ Return(r, "conflict", None))
    BY <1>7 DEF AnswerCompleted
  <2> QED BY <1>4, <1>5, <2>1
<1> QED BY <1>4, <1>6, <1>7 DEF AnswerInProgress, AnswerFailed, CheckRetry, ClaimRefused, Goto

(* A row is reserved, claimed or fingerprinted.                            *)
LEMMA RowMaps ==
    ASSUME UploadInv, NamesInv, NEW r \in Requests,
           Reserve(r) \/ Claim(r) \/ CommitFingerprint(r)
    PROVE  Mapped
<1>1. /\ TypeOK /\ UNCHANGED <<cmd, docs, answer>> /\ pc[r] # "done" /\ Live(r)
      /\ seen[r] \in Row
  BY DEF Reserve, Claim, CommitFingerprint, Live, Ended, UploadInv, TypeOK
<1>2. UNCHANGED <<Sent, Content, Storing, answer>>
  <2>1. PICK l \in {"prepare", "lookup"} :
            pc' = [pc EXCEPT ![r] = l] /\ pc[r] \notin Owning /\ l \notin Owning
    BY DEF Reserve, Claim, CommitFingerprint, Goto, Owning
  <2> QED BY <1>1, <2>1, SameStoring, SameSent, SameContent
<1>3. ASSUME Claim(r) \/ CommitFingerprint(r) PROVE NamesInv'
  <2>1. PICK l \in {"prepare", "lookup"} : pc' = [pc EXCEPT ![r] = l]
    BY <1>3 DEF Claim, CommitFingerprint, Goto
  <2> DEFINE claimed == [seen[r] EXCEPT !.status = "in_progress", !.outcome = "none",
                                        !.retryable = FALSE]
             marked  == [seen[r] EXCEPT !.fp = Payload(r)]
  <2>2. /\ claimed.doc = seen[r].doc /\ claimed.status = "in_progress"
        /\ marked.doc = seen[r].doc /\ marked.status = seen[r].status
    BY <1>1 DEF Row
  <2>3. WriteRow(r, seen[r], claimed) \/ WriteRow(r, seen[r], marked)
    BY <1>3 DEF Claim, CommitFingerprint
  <2> HIDE DEF claimed, marked
  <2> QED BY <1>1, <2>1, <2>2, <2>3, Writes
<1>4. ASSUME Reserve(r) PROVE NamesInv'
  <2>1. /\ pc'[r] = "prepare" /\ seen' = seen /\ Key(r) \in Keys /\ keys[Key(r)] \in Row
        /\ \A q \in Requests \ {r} : pc'[q] = pc[q]
    BY <1>1, <1>4, CmdType DEF Reserve, Goto, TypeOK
  <2>2. /\ keys'[Key(r)].doc = keys[Key(r)].doc
        /\ keys'[Key(r)].status \in {"in_progress", keys[Key(r)].status}
        /\ \A k \in Keys \ {Key(r)} : keys'[k] = keys[k]
    BY <1>1, <1>4, <2>1 DEF Reserve, TypeOK, Row
  <2>3. Keeps(r)
    BY <1>1, <2>1, <2>2 DEF Keeps
  <2>4. \A q : Key(q)' = Key(q) /\ Payload(q)' = Payload(q) /\ Hash(q)' = Hash(q)
    BY <1>1, SameCommands
  <2>5. Registered(keys[Key(r)])'
    BY <1>1, <2>1, <2>2, <2>4 DEF NamesInv, Registered
  <2>6. Names(r)'
    BY <1>1, <2>1, <2>2, <2>4 DEF NamesInv, Names, Registered
  <2> QED BY <1>1, <2>3, <2>5, <2>6, NamesKept
<1> QED BY <1>2, <1>3, <1>4 DEF Mapped

(* idempotency.fail leaves the document a row names.                       *)
LEMMA FailsNames ==
    ASSUME TypeOK, NamesInv, NEW r \in Requests, pc[r] # "done", cmd' = cmd,
           \A h \in Hashes : docs[h].storage # "none" => docs'[h].storage # "none",
           NEW old \in Row, NEW fp, NEW retryable, FailRow(r, old, fp, retryable),
           NEW code, NEW d, Return(r, code, d)
    PROVE  NamesInv'
<1> DEFINE new == [old EXCEPT !.status = "failed", !.fp = fp,
                              !.outcome = "none", !.retryable = retryable]
<1>1. WriteRow(r, old, new) /\ new.doc = old.doc /\ new.status = "failed"
  BY DEF FailRow, Row
<1> HIDE DEF new
<1>2. PICK l \in {"done"} : pc' = [pc EXCEPT ![r] = l]
  BY DEF Return, Goto
<1>3. answer' = [answer EXCEPT ![r] = [code |-> code, doc |-> d]]
  BY DEF Return
<1> QED BY <1>1, <1>2, <1>3, Writes

(* idempotency.complete names the document of the upload.                  *)
LEMMA CompletesNames ==
    ASSUME TypeOK, NamesInv, NEW r \in Requests, Live(r), cmd' = cmd,
           \A h \in Hashes : docs[h].storage # "none" => docs'[h].storage # "none",
           docs'[Hash(r)].storage # "none",
           NEW outcome, CompleteRow(r, outcome), NEW code, NEW d, Return(r, code, d)
    PROVE  NamesInv'
<1> DEFINE new == [seen[r] EXCEPT !.status = "completed", !.fp = Payload(r), !.doc = Hash(r),
                                  !.outcome = outcome, !.retryable = FALSE]
<1>1. WriteRow(r, seen[r], new) /\ new.doc = Hash(r)
  BY RowType DEF CompleteRow, Row
<1> HIDE DEF new
<1>2. PICK l \in {"done"} : pc' = [pc EXCEPT ![r] = l]
  BY DEF Return, Goto
<1>3. answer' = [answer EXCEPT ![r] = [code |-> code, doc |-> d]]
  BY DEF Return
<1>4. /\ new.doc \in Hashes /\ docs'[new.doc].storage # "none" /\ pc[r] # "done"
      /\ seen[r].doc # None => keys[Key(r)].doc # None
  BY <1>1, CmdType DEF NamesInv, Names, Live, Ended
<1> QED BY <1>1, <1>2, <1>3, <1>4, Writes

(* An upload is refused, and its row fails.                                *)
LEMMA FailsMaps ==
    ASSUME UploadInv, NamesInv, NEW r \in Requests, RejectUpload(r) \/ PutTempFails(r)
    PROVE  Mapped
<1>1. TypeOK /\ UNCHANGED <<cmd, docs>> /\ pc[r] # "done" /\ pc[r] \notin Owning
  BY DEF RejectUpload, PutTempFails, UploadInv, Owning
<1>2. PICK old \in Row : \E fp, retryable : FailRow(r, old, fp, retryable)
  BY <1>1, RowType DEF RejectUpload, PutTempFails
<1>3. PICK code \in {"invalid", "unavailable"} : Return(r, code, None)
  BY DEF RejectUpload, PutTempFails
<1>4. NamesInv'
  BY <1>1, <1>2, <1>3, FailsNames
<1>5. Store!Next
  BY <1>1, <1>3, Refuses
<1> QED BY <1>4, <1>5 DEF Mapped

(* The duplicate answer names the registered document.                     *)
LEMMA DuplicateMaps ==
    ASSUME UploadInv, NamesInv, NEW r \in Requests, CompleteDuplicate(r) PROVE Mapped
<1>1. /\ TypeOK /\ UNCHANGED <<cmd, docs>> /\ Live(r) /\ pc[r] # "done" /\ Hash(r) \in Hashes
      /\ CompleteRow(r, "duplicate") /\ Return(r, "duplicate", Hash(r))
      /\ docs[Hash(r)].storage # "none" /\ pc[r] \notin Owning
  BY CmdType DEF CompleteDuplicate, UploadInv, Live, Ended, NamesInv, Names, Owning
<1>2. NamesInv'
  BY <1>1, CompletesNames
<1>3. Store!Answer(r, "duplicate", Hash(r))
  BY <1>1, Replies
<1>4. Store!Duplicate(r)
  BY <1>1, <1>3 DEF Store!Duplicate, Content, Sent
<1> QED BY <1>2, <1>4 DEF Mapped, Store!Next

(* The insert of a document row registers its content.                     *)
LEMMA AddMaps ==
    ASSUME UploadInv, NamesInv, NEW r \in Requests, AddDocument(r) PROVE Mapped
<1>1. /\ TypeOK /\ UNCHANGED <<cmd, keys, seen, answer>> /\ Live(r) /\ pc[r] # "done"
      /\ Hash(r) \in Hashes /\ docs \in [Hashes -> Doc]
      /\ docs[Hash(r)].status = "absent" <=> docs[Hash(r)].storage = "none"
  BY CmdType DEF AddDocument, UploadInv, TypeOK, Live, Ended, DocumentRows
<1>2. seen = [seen EXCEPT ![r] = seen[r]]
  BY <1>1 DEF TypeOK
<1>3. CASE docs[Hash(r)].status # "absent"
  <2>1. docs' = docs
    BY <1>3 DEF AddDocument
  <2>2. PICK l \in {"discard"} : pc' = [pc EXCEPT ![r] = l]
    BY <1>3 DEF AddDocument, Goto
  <2>3. NamesInv'
    BY <1>1, <1>2, <1>3, <2>1, <2>2, NoWrite
  <2>4. Storing' = Storing
    BY <1>1, <2>2, SameStoring DEF AddDocument, Owning
  <2> QED BY <1>1, <2>1, <2>3, <2>4, SameSent, SameContent DEF Mapped
<1>4. CASE docs[Hash(r)].status = "absent"
  <2>1. /\ docs' = [docs EXCEPT ![Hash(r)] =
                 [status |-> "registered", storage |-> "pending", lock |-> 1]]
        /\ pc' = [pc EXCEPT ![r] = "promote"]
    BY <1>4 DEF AddDocument, Goto
  <2>2. \A h \in Hashes : docs'[h].storage = IF h = Hash(r) THEN "pending" ELSE docs[h].storage
    BY <1>1, <2>1
  <2>3. Keeps(r) /\ pc'[r] = "promote"
    BY <1>1, <2>1, <2>2 DEF Keeps, TypeOK
  <2>4. \A q : Key(q)' = Key(q) /\ Payload(q)' = Payload(q) /\ Hash(q)' = Hash(q)
    BY <1>1, SameCommands
  <2>5. ASSUME NEW row \in Row, Registered(row)
        PROVE  /\ row.status = "completed" => row.doc # None
               /\ row.doc # None => docs'[row.doc].storage # "none"
    BY <2>3, <2>5, StillRegistered DEF Keeps
  <2>6. keys[Key(r)] \in Row /\ seen[r] \in Row /\ Key(r) \in Keys /\ Names(r)
    BY <1>1, CmdType DEF TypeOK, NamesInv
  <2>7. Registered(keys[Key(r)])'
    BY <1>1, <2>4, <2>5, <2>6 DEF NamesInv, Registered
  <2>8. Registered(seen[r])'
    BY <1>1, <2>5, <2>6 DEF Names, Registered
  <2>9. Names(r)'
    BY <1>1, <2>3, <2>4, <2>6, <2>8 DEF Names
  <2>10. NamesInv'
    BY <1>1, <2>3, <2>7, <2>9, NamesKept
  <2>11. Content' = [Content EXCEPT ![Sent[r]] = "pending"]
    BY <1>1, <2>2 DEF Content, Sent
  <2>12. answer[r].code = "none" /\ Content[Sent[r]] = "none"
    BY <1>1, <1>4, <2>6 DEF Names, Content, Sent
  <2>13. Storing' = Storing \cup {r} /\ r \notin Storing
    <3>1. pc[r] \notin Owning /\ "promote" \in Owning
      BY DEF AddDocument, Owning
    <3> QED BY <1>1, <2>1, <3>1, SameStoring
  <2>14. Store!Register(r)
    BY <1>1, <2>11, <2>12, <2>13, SameSent DEF Store!Register
  <2> QED BY <2>10, <2>14 DEF Mapped, Store!Next
<1> QED BY <1>3, <1>4

(* The owner of a pending document settles it, and answers.                *)
LEMMA SettleContent ==
    ASSUME UploadInv, NEW r \in Requests, pc[r] \in Owning,
           NEW state \in {"stored", "failed"}, SettleDocument(Hash(r), state), cmd' = cmd,
           pc' = [pc EXCEPT ![r] = "done"]
    PROVE  /\ Store!Settle(r, state)
           /\ \A h \in Hashes : docs[h].storage # "none" => docs'[h].storage # "none"
           /\ docs'[Hash(r)].storage # "none"
<1>1. TypeOK /\ Hash(r) \in Hashes /\ docs[Hash(r)].storage = "pending"
  BY CmdType DEF UploadInv, OnePromoter
<1>2. \A h \in Hashes : docs'[h].storage = IF h = Hash(r) THEN state ELSE docs[h].storage
  BY <1>1 DEF SettleDocument, TypeOK
<1>3. Content' = [Content EXCEPT ![Sent[r]] = state] /\ Content[Sent[r]] = "pending"
  BY <1>1, <1>2 DEF Content, Sent
<1>4. r \in Storing /\ Storing' = Storing \ {r}
  <2>1. "done" \notin Owning
    BY DEF Owning
  <2> QED BY <1>1, <2>1, SameStoring
<1> QED BY <1>1, <1>2, <1>3, <1>4 DEF Store!Settle

LEMMA SettleMaps ==
    ASSUME UploadInv, NamesInv, NEW r \in Requests, Finish(r) \/ MarkUploadStorageFailed(r)
    PROVE  Mapped
<1>1. /\ TypeOK /\ cmd' = cmd /\ pc[r] \in Owning /\ pc[r] # "done" /\ Live(r)
      /\ seen[r] \in Row /\ Sent[r] = Hash(r)
  BY DEF Finish, MarkUploadStorageFailed, UploadInv, TypeOK, Owning, Live, Ended, Sent
<1>2. ASSUME Finish(r) PROVE Mapped
  <2>1. /\ SettleDocument(Hash(r), "stored") /\ CompleteRow(r, "created")
        /\ Return(r, "created", Hash(r))
    BY <1>2 DEF Finish
  <2>2. /\ Store!Settle(r, "stored")
        /\ \A h \in Hashes : docs[h].storage # "none" => docs'[h].storage # "none"
        /\ docs'[Hash(r)].storage # "none"
    BY <1>1, <2>1, SettleContent DEF Return, Goto
  <2>3. NamesInv'
    BY <1>1, <2>1, <2>2, CompletesNames
  <2>4. Store!Tell(r, "created", Hash(r))
    BY <1>1, <2>1, Tells
  <2>5. Store!Create(r)
    BY <1>1, <2>2, <2>4 DEF Store!Create
  <2> QED BY <2>3, <2>5 DEF Mapped, Store!Next
<1>3. ASSUME MarkUploadStorageFailed(r) PROVE Mapped
  <2>1. /\ SettleDocument(Hash(r), "failed") /\ FailRow(r, seen[r], Payload(r), TRUE)
        /\ Return(r, "unavailable", None)
    BY <1>3 DEF MarkUploadStorageFailed
  <2>2. /\ Store!Settle(r, "failed")
        /\ \A h \in Hashes : docs[h].storage # "none" => docs'[h].storage # "none"
    BY <1>1, <2>1, SettleContent DEF Return, Goto
  <2>3. NamesInv'
    BY <1>1, <2>1, <2>2, FailsNames
  <2>4. Store!Tell(r, "unavailable", None)
    BY <1>1, <2>1, Tells
  <2>5. Store!Lose(r)
    BY <1>1, <2>2, <2>4 DEF Store!Lose
  <2> QED BY <2>3, <2>5 DEF Mapped, Store!Next
<1> QED BY <1>2, <1>3

(* Archives and the cleanup of keys no running request uses are no step of *)
(* the store.                                                              *)
LEMMA AsideMaps ==
    ASSUME UploadInv, NamesInv,
           \/ \E h \in Hashes : ArchiveDocument(h)
           \/ \E k \in Keys : CleanupKey(k)
           \/ UNCHANGED vars
    PROVE  Mapped
<1>1. TypeOK /\ UNCHANGED <<cmd, pc, seen, answer>>
  BY DEF UploadInv, ArchiveDocument, CleanupKey, vars
<1>2. \A h \in Hashes : docs'[h].storage = docs[h].storage
  <2>1. ASSUME NEW h \in Hashes, ArchiveDocument(h), NEW g \in Hashes
        PROVE  docs'[g].storage = docs[g].storage
    <3>1. docs[h] \in Doc /\ docs \in [Hashes -> Doc]
      BY <1>1, <2>1 DEF TypeOK
    <3>2. docs' = [docs EXCEPT ![h] = [docs[h] EXCEPT !.status = "archived",
                                                       !.lock = docs[h].lock + 1]]
      BY <2>1, <3>1 DEF ArchiveDocument, Doc
    <3> QED BY <3>1, <3>2 DEF Doc
  <2> QED BY <2>1 DEF CleanupKey, vars
<1>3. \A k \in Keys : \/ keys'[k] = keys[k]
                      \/ keys'[k] = NoRow /\ \A r \in Requests : Key(r) = k => ~Live(r)
  BY <1>1 DEF ArchiveDocument, CleanupKey, vars, TypeOK
<1>4. \A q : Key(q)' = Key(q) /\ Payload(q)' = Payload(q) /\ Hash(q)' = Hash(q)
  BY <1>1, SameCommands
<1>5. ASSUME NEW row \in Row, Registered(row)
      PROVE  /\ row.status = "completed" => row.doc # None
             /\ row.doc # None => docs'[row.doc].storage # "none"
  BY <1>2, <1>5 DEF Registered, Row
<1>6. ASSUME NEW k \in Keys PROVE Registered(keys[k])'
  <2>1. keys[k] \in Row /\ Registered(keys[k])
    BY <1>1 DEF TypeOK, NamesInv
  <2> QED BY <1>3, <1>5, <2>1 DEF Registered, NoRow
<1>7. ASSUME NEW r \in Requests PROVE Names(r)'
  <2>1. seen[r] \in Row /\ Names(r) /\ Key(r) \in Keys /\ Hash(r) \in Hashes
    BY <1>1, CmdType DEF TypeOK, NamesInv
  <2>2. Registered(seen[r])'
    BY <1>1, <1>5, <2>1 DEF Names, Registered
  <2>3. Live(r) => keys'[Key(r)] = keys[Key(r)]
    BY <1>3, <2>1
  <2> QED BY <1>1, <1>2, <1>4, <2>1, <2>2, <2>3 DEF Names, Live
<1>8. Content' = Content /\ Sent' = Sent /\ Storing' = Storing
  BY <1>1, <1>2, SameSent DEF Content, Storing
<1> QED BY <1>1, <1>6, <1>7, <1>8 DEF Mapped, NamesInv

(* Uploads are what ContentStore promises, for any number of requests,     *)
(* keys and contents, with concurrent requests of one key and after any    *)
(* crash: a content is registered once and settled at most once, by the    *)
(* one request that registered it, and no answer names a content that is   *)
(* not registered (UploadDocument over its repositories).                  *)
THEOREM UploadsAreAContentStore == Spec => ImplementsContentStore
<1>1. Init => NamesInv /\ Store!Init
  <2> SUFFICES ASSUME Init PROVE NamesInv /\ Store!Init
    OBVIOUS
  <2>1. NamesInv
    BY DEF Init, NamesInv, Names, Registered, NoRow, Live, Ended
  <2>2. Sent \in [Requests -> Hashes]
    BY UploadAssumption DEF Init, Sent, Hash
  <2>3. Storing = {}
    BY DEF Init, Storing, Owning
  <2> QED BY <2>1, <2>2, <2>3 DEF Init, Store!Init, Content, NoDoc
<1>2. UploadInv /\ NamesInv /\ [Next]_vars
        => NamesInv' /\ [Store!Next]_(Store!storeVars)
  <2> SUFFICES ASSUME UploadInv, NamesInv, [Next]_vars PROVE Mapped
    BY DEF Mapped, Store!storeVars
  <2>1. ASSUME NEW r \in Requests, Start(r) \/ Step(r) \/ Crash(r) PROVE Mapped
    BY <2>1, SilentMaps, ExistingMaps, RowMaps, FailsMaps, DuplicateMaps, AddMaps,
       SettleMaps DEF Step
  <2> QED BY <2>1, AsideMaps DEF Next
<1> QED BY <1>1, <1>2, UploadInvariant, PTL DEF Spec, ImplementsContentStore, Store!Spec
=============================================================================
