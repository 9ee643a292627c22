------------------------------- MODULE Upload -------------------------------
(***************************************************************************)
(* The document upload pipeline (application/documents/service.py,         *)
(* UploadDocument) of one tenant, with the PostgreSQL tables it writes     *)
(* (upload_idempotency, documents, document_versions) and the object store *)
(* it writes beside them.  Every request is a process.  One action is one  *)
(* database transaction or one object-storage call, so every interleaving  *)
(* of requests, every storage failure and every crash between two durable  *)
(* effects is a behaviour.                                                 *)
(*                                                                         *)
(* A repository method SELECTs the row it changes and later UPDATEs the    *)
(* columns whose value differs from the copy it selected: LoadRow, Flush.  *)
(* SQLAlchemy's identity map is weak, so no copy outlives its method.      *)
(***************************************************************************)
EXTENDS Naturals, FiniteSets

CONSTANTS
    Requests,    \* HTTP upload requests; a client retry is another request
    Keys,        \* Idempotency-Key header values
    Payloads,    \* uploads as sent: bytes, normalized filename, media type
    Valid,       \* the payloads upload validation accepts
    Hashes,      \* SHA-256 content hashes
    HashOf,      \* the content hash of a payload
    SerialKeys,  \* TRUE: no client sends a key while a request with it runs
    None

ASSUME UploadAssumption ==
    /\ Valid \subseteq Payloads
    /\ HashOf \in [Payloads -> Hashes]
    /\ SerialKeys \in BOOLEAN
    /\ None \notin Payloads \cup Hashes

VARIABLES
    keys,     \* upload_idempotency, by idempotency key
    docs,     \* documents joined with their version 1, by content hash
    temps,    \* requests whose object tmp/{org}/{upload_id} exists
    finals,   \* hashes whose object documents/{org}/sha256/... exists
    cmd,      \* the key and the payload a request carries
    pc,       \* where a request is
    seen,     \* the copy of its idempotency row a request works on
    drained,  \* requests whose input stream has been read to its end
    answer,   \* what a request returned
    audit     \* security_audit_events of a request: written, and committed

vars == <<keys, docs, temps, finals, cmd, pc, seen, drained, answer, audit>>

-----------------------------------------------------------------------------
(* The tables.                                                             *)

(* UploadIdempotencyRecord; "absent" is a missing row, and as a copy one   *)
(* that has not been selected.                                             *)
Row == [status    : {"absent", "in_progress", "completed", "failed"},
        fp        : Payloads \cup {None},
        doc       : Hashes \cup {None},
        outcome   : {"none", "created", "duplicate"},
        retryable : BOOLEAN]

NoRow == [status |-> "absent", fp |-> None, doc |-> None,
          outcome |-> "none", retryable |-> FALSE]

Doc == [status  : {"absent", "registered", "stored", "failed", "archived"},
        storage : {"none", "pending", "stored", "failed"},
        lock    : Nat]

NoDoc == [status |-> "absent", storage |-> "none", lock |-> 0]

(* The row an UPDATE leaves: the session writes the columns in which the   *)
(* object (new) differs from the copy that was selected (old).             *)
Flush(row, old, new) ==
    [status    |-> IF new.status = old.status THEN row.status ELSE new.status,
     fp        |-> IF new.fp = old.fp THEN row.fp ELSE new.fp,
     doc       |-> IF new.doc = old.doc THEN row.doc ELSE new.doc,
     outcome   |-> IF new.outcome = old.outcome THEN row.outcome ELSE new.outcome,
     retryable |-> IF new.retryable = old.retryable THEN row.retryable
                   ELSE new.retryable]

Key(r)     == cmd[r].key
Payload(r) == cmd[r].payload
Hash(r)    == HashOf[cmd[r].payload]

Selected(r) == seen[r].status # "absent"

(* The UPDATE of the idempotency row by the method that selected copy old, *)
(* committed.                                                              *)
WriteRow(r, old, new) ==
    /\ keys' = [keys EXCEPT ![Key(r)] = Flush(@, old, new)]
    /\ seen' = [seen EXCEPT ![r] = NoRow]

Goto(r, l) == pc' = [pc EXCEPT ![r] = l]

Return(r, code, d) ==
    /\ Goto(r, "done")
    /\ answer' = [answer EXCEPT ![r] = [code |-> code, doc |-> d]]

Events == {"upload_started", "upload_failed", "duplicate_detected", "storage_succeeded"}

(* A commit keeps the audit events flushed before it; the events recorded  *)
(* after it are flushed into the session's next transaction, which the end *)
(* of the request rolls back.                                              *)
CommitAndRecord(r, events) ==
    audit' = [audit EXCEPT ![r] = [flushed |-> events, trail |-> @.trail \cup @.flushed]]

Ended  == {"idle", "done", "crashed"}
Live(r) == pc[r] \notin Ended

-----------------------------------------------------------------------------
Init ==
    /\ keys = [k \in Keys |-> NoRow]
    /\ docs = [h \in Hashes |-> NoDoc]
    /\ temps = {}
    /\ finals = {}
    /\ cmd \in [Requests -> [key : Keys, payload : Payloads]]
    /\ pc = [r \in Requests |-> "idle"]
    /\ seen = [r \in Requests |-> NoRow]
    /\ drained = {}
    /\ answer = [r \in Requests |-> [code |-> "none", doc |-> None]]
    /\ audit = [r \in Requests |-> [flushed |-> {}, trail |-> {}]]

(* The request arrives and reads the row of its key.                       *)
Start(r) ==
    /\ pc[r] = "idle"
    /\ SerialKeys => \A q \in Requests \ {r} : Key(q) = Key(r) => ~Live(q)
    /\ seen' = [seen EXCEPT ![r] = keys[Key(r)]]
    /\ Goto(r, IF keys[Key(r)].status = "absent" THEN "reserve" ELSE "existing")
    /\ UNCHANGED <<keys, docs, temps, finals, cmd, drained, answer, audit>>

(* idempotency.reserve and commit.  When another request has inserted the  *)
(* row since, reserve rolls back and returns that row, and the caller goes *)
(* on as if it had reserved the key.                                       *)
Reserve(r) ==
    /\ pc[r] = "reserve"
    /\ keys' = IF keys[Key(r)].status = "absent"
               THEN [keys EXCEPT ![Key(r)].status = "in_progress"]
               ELSE keys
    /\ Goto(r, "prepare")
    /\ CommitAndRecord(r, {"upload_started"})
    /\ UNCHANGED <<docs, temps, finals, cmd, seen, drained, answer>>

(* _required_record: a repository method that will change the row selects  *)
(* it.  Anything may happen before the method's UPDATE commits.            *)
LoadRow(r) ==
    /\ pc[r] \in {"claim", "prepare", "duplicate", "finish", "compensate"}
    /\ ~Selected(r)
    /\ seen' = [seen EXCEPT ![r] = keys[Key(r)]]
    /\ UNCHANGED <<keys, docs, temps, finals, cmd, pc, drained, answer, audit>>

(* Fault: any valid upload passes for the recorded one.                    *)
Fault_SameRequestAny(r, row) == r \notin drained /\ Payload(r) \in Valid

(* _assert_replay_fingerprint: the upload as it can still be read from the *)
(* stream has the recorded fingerprint.                                    *)
SameRequest(r, row) ==
    r \notin drained /\ Payload(r) \in Valid /\ row.fp = Payload(r)

(* _handle_existing_record, answered from the row read at Start.           *)
AnswerInProgress(r) ==
    /\ pc[r] = "existing"
    /\ seen[r].status = "in_progress"
    /\ Return(r, "in_progress", None)
    /\ UNCHANGED <<keys, docs, temps, finals, cmd, seen, drained, audit>>

AnswerCompleted(r) ==
    /\ pc[r] = "existing"
    /\ seen[r].status = "completed"
    /\ drained' = drained \cup {r}
    /\ IF SameRequest(r, seen[r])
       THEN Return(r, "replay", seen[r].doc)
       ELSE Return(r, "conflict", None)
    /\ UNCHANGED <<keys, docs, temps, finals, cmd, seen, audit>>

AnswerFailed(r) ==
    /\ pc[r] = "existing"
    /\ seen[r].status = "failed"
    /\ ~seen[r].retryable
    /\ drained' = IF seen[r].fp = None THEN drained ELSE drained \cup {r}
    /\ IF seen[r].fp = None \/ SameRequest(r, seen[r])
       THEN Return(r, "invalid", None)
       ELSE Return(r, "conflict", None)
    /\ UNCHANGED <<keys, docs, temps, finals, cmd, seen, audit>>

(* A retryable failure: the fingerprint check reads the whole stream.      *)
CheckRetry(r) ==
    /\ pc[r] = "existing"
    /\ seen[r].status = "failed"
    /\ seen[r].retryable
    /\ drained' = IF seen[r].fp = None THEN drained ELSE drained \cup {r}
    /\ IF seen[r].fp = None \/ SameRequest(r, seen[r])
       THEN /\ Goto(r, "claim")
            /\ seen' = [seen EXCEPT ![r] = NoRow]
            /\ UNCHANGED answer
       ELSE Return(r, "conflict", None) /\ UNCHANGED seen
    /\ UNCHANGED <<keys, docs, temps, finals, cmd, audit>>

Retryable(row) == row.status = "failed" /\ row.retryable

(* idempotency.mark_in_progress and commit: the status it selected is      *)
(* checked again, and a ValueError becomes a 500.                          *)
Claim(r) ==
    /\ pc[r] = "claim" /\ Selected(r)
    /\ Retryable(seen[r])
    /\ WriteRow(r, seen[r], [seen[r] EXCEPT !.status = "in_progress",
                                            !.outcome = "none",
                                            !.retryable = FALSE])
    /\ Goto(r, "prepare")
    /\ CommitAndRecord(r, {"upload_started"})
    /\ UNCHANGED <<docs, temps, finals, cmd, drained, answer>>

ClaimRefused(r) ==
    /\ pc[r] = "claim" /\ Selected(r)
    /\ ~Retryable(seen[r])
    /\ Return(r, "error", None)
    /\ UNCHANGED <<keys, docs, temps, finals, cmd, seen, drained, audit>>

(* idempotency.fail                                                        *)
FailRow(r, old, fp, retryable) ==
    WriteRow(r, old, [old EXCEPT !.status = "failed", !.fp = fp,
                                 !.outcome = "none", !.retryable = retryable])

(* Fault: the document is not recorded.                                    *)
Fault_CompleteRowNoDoc(r, outcome) ==
    WriteRow(r, seen[r], [seen[r] EXCEPT !.status = "completed",
                                         !.fp = Payload(r),
                                         !.outcome = outcome,
                                         !.retryable = FALSE])

(* idempotency.complete                                                    *)
CompleteRow(r, outcome) ==
    WriteRow(r, seen[r], [seen[r] EXCEPT !.status = "completed",
                                         !.fp = Payload(r), !.doc = Hash(r),
                                         !.outcome = outcome,
                                         !.retryable = FALSE])

(* _prepare_upload raises UploadValidationError: the upload is not valid,  *)
(* or the stream has been drained and reads as an empty file.              *)
RejectUpload(r) ==
    /\ pc[r] = "prepare" /\ Selected(r)
    /\ r \in drained \/ Payload(r) \notin Valid
    /\ drained' = drained \cup {r}
    /\ FailRow(r, seen[r], None, FALSE)
    /\ Return(r, "invalid", None)
    /\ CommitAndRecord(r, {"upload_failed"})
    /\ UNCHANGED <<docs, temps, finals, cmd>>

(* _prepare_upload and put_temp_stream succeed; finalize_fingerprint has   *)
(* selected the row before.                                                *)
PutTemp(r) ==
    /\ pc[r] = "prepare" /\ Selected(r)
    /\ r \notin drained /\ Payload(r) \in Valid
    /\ drained' = drained \cup {r}
    /\ temps' = temps \cup {r}
    /\ Goto(r, "prepared")
    /\ UNCHANGED <<keys, docs, finals, cmd, seen, answer, audit>>

(* put_temp_stream fails, before or after the object was written; the      *)
(* object is deleted when the store allows it, and the key may be retried. *)
(* finalize_fingerprint has already locked the row, so that fail selects   *)
(* it as it stands.                                                        *)
PutTempFails(r) ==
    /\ pc[r] = "prepare" /\ Selected(r)
    /\ r \notin drained /\ Payload(r) \in Valid
    /\ drained' = drained \cup {r}
    /\ temps' \in {temps, temps \cup {r}}
    /\ FailRow(r, keys[Key(r)], Payload(r), TRUE)
    /\ Return(r, "unavailable", None)
    /\ CommitAndRecord(r, {"upload_failed"})
    /\ UNCHANGED <<docs, finals, cmd>>

(* The commit of finalize_fingerprint.  Its UPDATE is issued before the    *)
(* temporary object is written and holds the row lock until this commit,   *)
(* so its effect is that of the commit.                                    *)
CommitFingerprint(r) ==
    /\ pc[r] = "prepared"
    /\ WriteRow(r, seen[r], [seen[r] EXCEPT !.fp = Payload(r)])
    /\ Goto(r, "lookup")
    /\ CommitAndRecord(r, {})
    /\ UNCHANGED <<docs, temps, finals, cmd, drained, answer>>

(* find_document_by_tenant_content_hash                                    *)
FindDuplicate(r) ==
    /\ pc[r] = "lookup"
    /\ Goto(r, IF docs[Hash(r)].status = "absent" THEN "insert" ELSE "discard")
    /\ UNCHANGED <<keys, docs, temps, finals, cmd, seen, drained, answer, audit>>

(* Fault: the table has no unique (organization_id, content_hash).         *)
Fault_AddDocumentTwice(r) ==
    /\ pc[r] = "insert"
    /\ docs' = [docs EXCEPT ![Hash(r)] =
                  [status |-> "registered", storage |-> "pending", lock |-> 1]]
    /\ Goto(r, "promote")
    /\ UNCHANGED <<keys, temps, finals, cmd, seen, drained, answer, audit>>

(* add_document and commit.  On a unique violation the session is rolled   *)
(* back and the duplicate is looked up again.                              *)
AddDocument(r) ==
    /\ pc[r] = "insert"
    /\ IF docs[Hash(r)].status = "absent"
       THEN /\ docs' = [docs EXCEPT ![Hash(r)] =
                 [status |-> "registered", storage |-> "pending", lock |-> 1]]
            /\ Goto(r, "promote")
       ELSE /\ Goto(r, "discard")
            /\ UNCHANGED docs
    /\ UNCHANGED <<keys, temps, finals, cmd, seen, drained, answer, audit>>

(* _delete_temp_best_effort on the duplicate path.                         *)
DiscardTemp(r) ==
    /\ pc[r] = "discard"
    /\ temps' \in {temps, temps \ {r}}
    /\ Goto(r, "duplicate")
    /\ UNCHANGED <<keys, docs, finals, cmd, seen, drained, answer, audit>>

(* The rest of _complete_duplicate; the state of the document it answers   *)
(* with is not looked at.                                                  *)
CompleteDuplicate(r) ==
    /\ pc[r] = "duplicate" /\ Selected(r)
    /\ CompleteRow(r, "duplicate")
    /\ Return(r, "duplicate", Hash(r))
    /\ CommitAndRecord(r, {"duplicate_detected"})
    /\ UNCHANGED <<docs, temps, finals, cmd, drained>>

(* When the content-addressed final object is not there yet,               *)
(* promote_temp_object copies the temporary one to it, ...                 *)
CopyToFinal(r) ==
    /\ pc[r] = "promote"
    /\ IF Hash(r) \in finals
       THEN temps' \in {temps, temps \ {r}} /\ Goto(r, "finish")
       ELSE Goto(r, "copied") /\ UNCHANGED temps
    /\ finals' = finals \cup {Hash(r)}
    /\ UNCHANGED <<keys, docs, cmd, seen, drained, answer, audit>>

(* Fault: the temporary object is kept.                                    *)
Fault_DeleteTempKeeps(r) ==
    /\ pc[r] = "copied"
    /\ Goto(r, "finish")
    /\ UNCHANGED <<keys, docs, temps, finals, cmd, seen, drained, answer, audit>>

(* ... then deletes the temporary object.                                  *)
DeleteTemp(r) ==
    /\ pc[r] = "copied"
    /\ temps' = temps \ {r}
    /\ Goto(r, "finish")
    /\ UNCHANGED <<keys, docs, finals, cmd, seen, drained, answer, audit>>

(* Fault: the storage error is swallowed.                                  *)
Fault_PromoteErrorIgnored(r) ==
    /\ pc[r] \in {"promote", "copied"}
    /\ Goto(r, "finish")
    /\ UNCHANGED <<keys, docs, temps, finals, cmd, seen, drained, answer, audit>>

(* head, copy, delete or the closing head of a promotion fails.            *)
PromoteFails(r) ==
    /\ pc[r] \in {"promote", "copied"}
    /\ \/ UNCHANGED temps
       \/ pc[r] = "copied" /\ temps' = temps \ {r}
    /\ Goto(r, "compensate")
    /\ UNCHANGED <<keys, docs, finals, cmd, seen, drained, answer, audit>>

(* Fault: the document is marked stored when only its version has failed.  *)
Fault_SettleAlwaysStored(h, state) ==
    docs' = [docs EXCEPT ![h] =
               [status  |-> IF @.lock = 1 THEN "stored" ELSE @.status,
                storage |-> state,
                lock    |-> IF @.lock = 1 THEN 2 ELSE @.lock]]

(* mark_version_stored / mark_version_failed and _persist_document_state:  *)
(* the version row is updated by its id, the document row only while its   *)
(* lock_version is the 1 it was inserted with.  The row count is ignored.  *)
SettleDocument(h, state) ==
    docs' = [docs EXCEPT ![h] =
               [status  |-> IF @.lock = 1 THEN state ELSE @.status,
                storage |-> state,
                lock    |-> IF @.lock = 1 THEN 2 ELSE @.lock]]

(* The transaction that ends a successful upload.                          *)
Finish(r) ==
    /\ pc[r] = "finish" /\ Selected(r)
    /\ SettleDocument(Hash(r), "stored")
    /\ CompleteRow(r, "created")
    /\ Return(r, "created", Hash(r))
    /\ CommitAndRecord(r, {"storage_succeeded"})
    /\ UNCHANGED <<temps, finals, cmd, drained>>

(* Fault: a failed promotion is tried again, without a limit.              *)
Fault_PromotionRetried(r) ==
    /\ pc[r] = "compensate" /\ Selected(r)
    /\ Goto(r, "promote")
    /\ UNCHANGED <<keys, docs, temps, finals, cmd, seen, drained, answer, audit>>

(* _mark_upload_storage_failed                                             *)
MarkUploadStorageFailed(r) ==
    /\ pc[r] = "compensate" /\ Selected(r)
    /\ SettleDocument(Hash(r), "failed")
    /\ FailRow(r, seen[r], Payload(r), TRUE)
    /\ Return(r, "unavailable", None)
    /\ CommitAndRecord(r, {"upload_failed"})
    /\ UNCHANGED <<temps, finals, cmd, drained>>

(* The process dies, or a database call fails: nothing of the transaction  *)
(* in progress is kept and nothing compensates.                            *)
Crash(r) ==
    /\ Live(r)
    /\ Goto(r, "crashed")
    /\ UNCHANGED <<keys, docs, temps, finals, cmd, seen, drained, answer, audit>>

(* DocumentService.archive_document_with_lock with the current lock        *)
(* version; any other one is refused.                                      *)
ArchiveDocument(h) ==
    /\ docs[h].status \notin {"absent", "archived"}
    /\ docs' = [docs EXCEPT ![h].status = "archived", ![h].lock = @ + 1]
    /\ UNCHANGED <<keys, temps, finals, cmd, pc, seen, drained, answer, audit>>

(* Fault: only rows with a result are cleaned up.                          *)
Fault_CleanupSettledOnly(k) ==
    /\ keys[k].status \notin {"absent", "in_progress"}
    /\ \A r \in Requests : Key(r) = k => ~Live(r)
    /\ keys' = [keys EXCEPT ![k] = NoRow]
    /\ UNCHANGED <<docs, temps, finals, cmd, pc, seen, drained, answer, audit>>

(* documents.cleanup_expired_idempotency deletes a row of any status once  *)
(* it has expired.  The time to live is a day, so no request that uses the *)
(* row is still running.                                                   *)
CleanupKey(k) ==
    /\ keys[k].status # "absent"
    /\ \A r \in Requests : Key(r) = k => ~Live(r)
    /\ keys' = [keys EXCEPT ![k] = NoRow]
    /\ UNCHANGED <<docs, temps, finals, cmd, pc, seen, drained, answer, audit>>

(* What a live request does next when its process is not lost.             *)
Step(r) ==
    \/ Reserve(r)
    \/ AnswerInProgress(r)
    \/ AnswerCompleted(r)
    \/ AnswerFailed(r)
    \/ CheckRetry(r)
    \/ LoadRow(r)
    \/ Claim(r)
    \/ ClaimRefused(r)
    \/ RejectUpload(r)
    \/ PutTemp(r)
    \/ PutTempFails(r)
    \/ CommitFingerprint(r)
    \/ FindDuplicate(r)
    \/ AddDocument(r)
    \/ DiscardTemp(r)
    \/ CompleteDuplicate(r)
    \/ CopyToFinal(r)
    \/ DeleteTemp(r)
    \/ PromoteFails(r)
    \/ Finish(r)
    \/ MarkUploadStorageFailed(r)

Next ==
    \/ \E r \in Requests : Start(r) \/ Step(r) \/ Crash(r)
    \/ \E h \in Hashes : ArchiveDocument(h)
    \/ \E k \in Keys : CleanupKey(k)

Spec == Init /\ [][Next]_vars

(* A running request keeps running until it answers or crashes, and Celery *)
(* Beat keeps scheduling the cleanup task.                                 *)
Fairness ==
    /\ \A r \in Requests : WF_vars(Step(r))
    /\ \A k \in Keys : WF_vars(CleanupKey(k))

FairSpec == Spec /\ Fairness

-----------------------------------------------------------------------------
(* Properties.                                                             *)

(* Every table, object store and request holds values of its own kind.     *)
TypeOK ==
    /\ keys \in [Keys -> Row]
    /\ docs \in [Hashes -> Doc]
    /\ temps \subseteq Requests
    /\ finals \subseteq Hashes
    /\ cmd \in [Requests -> [key : Keys, payload : Payloads]]
    /\ pc \in [Requests -> {"idle", "reserve", "existing", "claim", "prepare",
                            "prepared", "lookup", "insert", "discard",
                            "duplicate", "promote", "copied", "finish",
                            "compensate", "done", "crashed"}]
    /\ seen \in [Requests -> Row]
    /\ drained \subseteq Requests
    /\ answer \in [Requests ->
                     [code : {"none", "in_progress", "replay", "conflict", "invalid",
                              "unavailable", "duplicate", "created", "error"},
                      doc  : Hashes \cup {None}]]
    /\ audit \in [Requests -> [flushed : SUBSET Events, trail : SUBSET Events]]

Owning == {"promote", "copied", "finish", "compensate"}

(* PostgreSQL and the object store share no transaction, yet a version row *)
(* says "stored" only once its bytes are at the final key, whatever        *)
(* crashes, fails or races in between (_promote_new_document).             *)
StoredHasBytes ==
    \A h \in Hashes : docs[h].storage = "stored" => h \in finals

(* No final object is ever left without a document row that names it: the  *)
(* row is committed before the promotion starts (add_document, then        *)
(* _promote_new_document).                                                 *)
FinalHasDocument ==
    \A h \in finals : docs[h].status # "absent"

(* Two uploads of the same bytes never both promote or settle the document *)
(* (DuplicateDocumentContentError sends the second to the duplicate path), *)
(* and only the owner's document is still pending.                         *)
OnePromoter ==
    \A r \in Requests : pc[r] \in Owning =>
        /\ docs[Hash(r)].storage = "pending"
        /\ \A q \in Requests \ {r} : pc[q] \in Owning => Hash(q) # Hash(r)

(* The document row and its version row, updated by two statements of      *)
(* which only one is guarded by lock_version, never contradict each other. *)
DocumentAgreesWithVersion ==
    \A h \in Hashes :
        /\ docs[h].status = "registered" => docs[h].storage = "pending"
        /\ docs[h].status \in {"stored", "failed"}
              => docs[h].storage = docs[h].status

(* A 201 answer is kept for ever: the document it names stays stored, with *)
(* its bytes, and the upload has left no temporary object (Finish).        *)
CreatedIsStored ==
    \A r \in Requests : answer[r].code = "created" =>
        /\ answer[r].doc = Hash(r)
        /\ docs[Hash(r)].storage = "stored"
        /\ Hash(r) \in finals
        /\ r \notin temps

(* An archived document is never brought back, in particular not by an     *)
(* upload that registered it, was archived over and then settles it        *)
(* (_persist_document_state's lock_version test).                          *)
ArchivedForever ==
    [][\A h \in Hashes : docs[h].status = "archived"
                            => docs'[h].status = "archived"]_vars

(* A completed row names the document that holds the bytes of the request  *)
(* it fingerprints (finalize_fingerprint, complete).                       *)
CompletedRowIsHonest ==
    \A k \in Keys : keys[k].status = "completed" =>
        /\ keys[k].fp \in Valid
        /\ keys[k].doc = HashOf[keys[k].fp]

(* A replayed response names the document with the very bytes the client   *)
(* sent (_assert_replay_fingerprint, _replay_completed).                   *)
ReplayServesOwnContent ==
    \A r \in Requests : answer[r].code = "replay" => answer[r].doc = Hash(r)

(* A valid upload is never answered as a validation failure.               *)
ValidUploadNotRejected ==
    \A r \in Requests : answer[r].code = "invalid" => Payload(r) \notin Valid

(* Every request ends, with an answer or with its process.                 *)
RequestEnds == \A r \in Requests : Live(r) ~> ~Live(r)

(* A key left in progress by a crash does not stay so for ever: the        *)
(* cleanup task deletes rows of any status.                                *)
KeyIsReleased ==
    \A k \in Keys : keys[k].status = "in_progress"
                       ~> keys[k].status # "in_progress"

(* The tables as clients see them: see ContentStore.                       *)
Sent == [r \in Requests |-> Hash(r)]

Content == [h \in Hashes |-> docs[h].storage]

Storing == {r \in Requests : pc[r] \in Owning}

Store == INSTANCE ContentStore
            WITH Contents <- Hashes, sent <- Sent, content <- Content,
                 storing <- Storing, verdict <- answer

(* Uploads keep what ContentStore promises: of all requests that race for  *)
(* a content one registers it, and only that one settles it and is         *)
(* answered 201 or 503; every document another one is answered with is     *)
(* registered (find_document_by_tenant_content_hash, add_document,         *)
(* _promote_new_document, _complete_duplicate, _replay_completed).         *)
ImplementsContentStore == Store!Spec
=============================================================================
