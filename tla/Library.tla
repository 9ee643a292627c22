------------------------------- MODULE Library -------------------------------
(***************************************************************************)
(* The documents of several tenants with their versions and artifacts      *)
(* (application/documents/service.py, domain/documents.py,                 *)
(* infrastructure/documents): registration, new versions, archiving,       *)
(* artifacts and reads, together with what an upload does to the same rows *)
(* (Upload models the rest of the upload).                                 *)
(*                                                                         *)
(* The statements of a request and its commit are separate steps.  What    *)
(* was written is visible from the commit on; until then a row selected    *)
(* FOR UPDATE, and a unique value that was inserted, make others wait.     *)
(* The id of a document, a version or an artifact is the request that      *)
(* inserted it.  Authorization is in Tenancy.                              *)
(***************************************************************************)
EXTENDS Naturals, FiniteSets

CONSTANTS
    Requests,   \* calls of the document service
    Tenants,    \* organizations
    Contents,   \* contents, told apart by their SHA-256
    Keys,       \* storage keys of artifacts
    None

ASSUME LibraryAssumption ==
    /\ IsFiniteSet(Requests)
    /\ None \notin Requests \cup Tenants \cup Contents \cup Keys

VARIABLES
    docs,       \* the documents table
    versions,   \* the document_versions table
    artifacts,  \* the document_artifacts table
    trail,      \* committed audit events: event, request and document
    pc,         \* where a request is
    cmd,        \* operation, tenant, document, version, content, expected lock
    work,       \* the rows to be written by a request
    answer      \* what a request returned

vars == <<docs, versions, artifacts, trail, pc, cmd, work, answer>>

-----------------------------------------------------------------------------
(* DocumentRecord and DocumentVersionRecord, DocumentArtifactRecord.       *)
Ids == Requests \cup {None}

Orgs == Tenants \cup {None}

Doc == [org     : Orgs,
        status  : {"absent", "registered", "stored", "failed", "archived"},
        current : Ids,
        lock    : Nat]

NoDoc == [org |-> None, status |-> "absent", current |-> None, lock |-> 0]

Version == [org     : Orgs,
            doc     : Ids,
            number  : Nat,
            content : Contents \cup {None},
            storage : {"none", "pending", "stored", "failed"}]

NoVersion ==
    [org |-> None, doc |-> None, number |-> 0, content |-> None, storage |-> "none"]

Artifact == [org : Orgs, doc : Ids, version : Ids, key : Keys \cup {None}]

NoArtifact == [org |-> None, doc |-> None, version |-> None, key |-> None]

Work == [doc : Doc, version : Version, artifact : Artifact]

NoWork == [doc |-> NoDoc, version |-> NoVersion, artifact |-> NoArtifact]

Command == [op : {"none", "register", "upload", "version", "archive", "artifact",
                  "versions", "artifacts", "download", "download_artifact", "documents"},
            org      : Orgs,
            doc      : Ids,
            version  : Ids,
            content  : Contents \cup {None},
            expected : Nat]

NoCommand == [op |-> "none", org |-> None, doc |-> None, version |-> None,
              content |-> None, expected |-> 0]

(* DocumentVersion.create                                                  *)
NewVersion(org, d, n, c, storage) ==
    [org |-> org, doc |-> d, number |-> n, content |-> c, storage |-> storage]

(* Document.register                                                       *)
NewDocument(org, v) ==
    [org |-> org, status |-> "registered", current |-> v, lock |-> 1]

(* Fault: an archived document can be changed.                             *)
Fault_AlwaysMutable(row) == TRUE

(* Document._ensure_mutable                                                *)
Mutable(row) == row.status # "archived"

(* Fault: the status stays that of the version before.                     *)
Fault_StatusKept(row, v, storage) == [row EXCEPT !.current = v, !.lock = @ + 1]

(* Document.set_current_version to the version with id v                   *)
SetCurrentVersion(row, v, storage) ==
    [row EXCEPT !.current = v,
                !.status = IF storage = "stored" THEN "stored" ELSE "registered",
                !.lock = @ + 1]

(* Document.archive                                                        *)
Archived(row) == [row EXCEPT !.status = "archived", !.lock = @ + 1]

-----------------------------------------------------------------------------
(* What the queries of SqlAlchemyDocumentRepository find.                  *)

(* get_document                                                            *)
Found(org, d) == docs[d].org = org

(* Fault: the organization is not part of the query.                       *)
Fault_FindInAnyTenant(org, c) ==
    {d \in Requests : docs[d].current # None /\ versions[docs[d].current].content = c}

(* find_document_by_tenant_content_hash joins the current version only.    *)
FindByContent(org, c) ==
    {d \in Requests :
        /\ Found(org, d)
        /\ versions[docs[d].current].org = org
        /\ versions[docs[d].current].content = c}

(* get_version                                                             *)
FoundVersion(org, d, v) == versions[v].org = org /\ versions[v].doc = d

(* list_versions, list_artifacts and list_documents                        *)
ListVersions(org, d) == {v \in Requests : FoundVersion(org, d, v)}

ListArtifacts(org, d) ==
    {a \in Requests : artifacts[a].org = org /\ artifacts[a].doc = d}

ListDocuments(org, archived) ==
    {d \in Requests :
        /\ Found(org, d)
        /\ versions[docs[d].current].org = org
        /\ archived = (docs[d].status = "archived")}

(* Fault: the unique constraint on the content does not name the tenant.   *)
Fault_ContentUniqueForAll(v, w) ==
    \/ v.content = w.content
    \/ v.doc = w.doc /\ v.number = w.number

(* The unique constraints of document_versions; the storage key follows    *)
(* from the tenant and the content (StorageObjectKey.for_document_content).*)
SameVersion(v, w) ==
    \/ v.org = w.org /\ v.content = w.content
    \/ v.doc = w.doc /\ v.number = w.number

(* An INSERT of a version waits for a rival that is not committed.         *)
NoRival(r, v) ==
    \A q \in Requests \ {r} :
        pc[q] \in {"doc_inserted", "version_inserted"} => ~SameVersion(v, work[q].version)

Unique(v) == \A w \in Requests : versions[w].org # None => ~SameVersion(v, versions[w])

(* Fault: the document is read without FOR UPDATE.                         *)
Fault_NoRowLock(r, d) == TRUE

(* get_document_for_update, and an UPDATE, wait for the row.               *)
NotLocked(r, d) ==
    \A q \in Requests \ {r} :
        pc[q] \in {"version", "version_inserted", "archive"} => cmd[q].doc # d

(* _persist_document_state: an UPDATE whose row count nobody looks at.     *)
PersistDocumentState(d, row) ==
    IF docs[d].lock = row.lock - 1 THEN [docs EXCEPT ![d] = row] ELSE docs

Goto(r, l) == pc' = [pc EXCEPT ![r] = l]

Return(r, code, ids) ==
    /\ Goto(r, "done")
    /\ answer' = [answer EXCEPT ![r] = [code |-> code, ids |-> ids]]

(* The command of r, and the rest of its fields as in NoCommand.           *)
Receive(r, op, org, d, c) ==
    /\ pc[r] = "idle"
    /\ cmd' = [cmd EXCEPT ![r] = [NoCommand EXCEPT !.op = op, !.org = org,
                                                   !.doc = d, !.content = c]]

(* _record_document_event, committed with the change it tells of.          *)
Record(r, event, d) == trail' = trail \cup {<<event, r, d>>}

-----------------------------------------------------------------------------
Init ==
    /\ docs = [r \in Requests |-> NoDoc]
    /\ versions = [r \in Requests |-> NoVersion]
    /\ artifacts = [r \in Requests |-> NoArtifact]
    /\ trail = {}
    /\ pc = [r \in Requests |-> "idle"]
    /\ cmd = [r \in Requests |-> NoCommand]
    /\ work = [r \in Requests |-> NoWork]
    /\ answer = [r \in Requests |-> [code |-> "none", ids |-> {}]]

(* register_document, or an upload whose bytes were accepted: the content  *)
(* is looked up, and an owner that is found is the answer.                 *)
FindContent(r, op, org, c) ==
    LET owners == FindByContent(org, c) IN
    /\ Receive(r, op, org, r, c)
    /\ IF owners # {}
       THEN Return(r, "ok", owners) /\ UNCHANGED work
       ELSE /\ Goto(r, "register")
            /\ work' = [work EXCEPT ![r] =
                 [NoWork EXCEPT !.doc = NewDocument(org, r),
                                !.version = NewVersion(org, r, 1, c, "pending")]]
            /\ UNCHANGED answer
    /\ UNCHANGED <<docs, versions, artifacts, trail>>

(* add_document; an IntegrityError rolls back.                             *)
AddDocument(r) ==
    /\ pc[r] = "register" /\ NoRival(r, work[r].version)
    /\ Goto(r, IF Unique(work[r].version) THEN "doc_inserted" ELSE "find_again")
    /\ UNCHANGED <<docs, versions, artifacts, trail, cmd, work, answer>>

(* After DuplicateDocumentContentError the content is looked up again, and *)
(* the error is raised when no current version has it.                     *)
FindAgain(r) ==
    LET owners == FindByContent(cmd[r].org, cmd[r].content) IN
    /\ pc[r] = "find_again"
    /\ IF owners # {} THEN Return(r, "ok", owners) ELSE Return(r, "duplicate", {})
    /\ UNCHANGED <<docs, versions, artifacts, trail, cmd, work>>

(* The commit of both rows; an upload goes on to promote its object.       *)
CommitDocument(r) ==
    /\ pc[r] = "doc_inserted"
    /\ docs' = [docs EXCEPT ![r] = work[r].doc]
    /\ versions' = [versions EXCEPT ![r] = work[r].version]
    /\ IF cmd[r].op = "upload"
       THEN Goto(r, "promote") /\ UNCHANGED <<trail, answer>>
       ELSE Return(r, "ok", {r}) /\ Record(r, "registered", r)
    /\ UNCHANGED <<artifacts, cmd, work>>

(* _promote_new_document or _mark_upload_storage_failed: the version is    *)
(* updated by its id, the document by the lock_version it was inserted     *)
(* with (mark_stored, mark_failed), in one transaction.                    *)
SettleUpload(r, storage) ==
    /\ pc[r] = "promote" /\ NotLocked(r, r)
    /\ versions' = [versions EXCEPT ![r].storage = storage]
    /\ docs' = PersistDocumentState(r, [work[r].doc EXCEPT !.status = storage,
                                                           !.lock = @ + 1])
    /\ IF storage = "stored" THEN Return(r, "ok", {r}) ELSE Return(r, "unavailable", {})
    /\ UNCHANGED <<artifacts, trail, cmd, work>>

(* create_version: the document is selected FOR UPDATE, its versions are   *)
(* counted, and the aggregate refuses when it is archived.                 *)
CreateVersion(r, org, d, c, storage) ==
    /\ Receive(r, "version", org, d, c)
    /\ Found(org, d) => NotLocked(r, d)
    /\ IF ~Found(org, d)
       THEN Return(r, "not_found", {}) /\ UNCHANGED work
       ELSE IF ~Mutable(docs[d])
       THEN Return(r, "error", {}) /\ UNCHANGED work
       ELSE LET n == Cardinality(ListVersions(org, d)) + 1 IN
            /\ work' = [work EXCEPT ![r] =
                 [NoWork EXCEPT !.doc = SetCurrentVersion(docs[d], r, storage),
                                !.version = NewVersion(org, d, n, c, storage)]]
            /\ Goto(r, "version")
            /\ UNCHANGED answer
    /\ UNCHANGED <<docs, versions, artifacts, trail>>

(* add_version; any IntegrityError is taken for a duplicate content.       *)
AddVersion(r) ==
    /\ pc[r] = "version" /\ NoRival(r, work[r].version)
    /\ IF Unique(work[r].version)
       THEN Goto(r, "version_inserted") /\ UNCHANGED answer
       ELSE Return(r, "duplicate", {})
    /\ UNCHANGED <<docs, versions, artifacts, trail, cmd, work>>

(* set_current_version, the event and the commit.                          *)
CommitVersion(r) ==
    /\ pc[r] = "version_inserted"
    /\ versions' = [versions EXCEPT ![r] = work[r].version]
    /\ docs' = PersistDocumentState(cmd[r].doc, work[r].doc)
    /\ Record(r, "version_created", cmd[r].doc)
    /\ Return(r, "ok", {r})
    /\ UNCHANGED <<artifacts, cmd, work>>

(* The document whose lock_version the archive command carries is read, by *)
(* the client or by DocumentService.archive_document.                      *)
ReadLockVersion(r, org, d) ==
    /\ pc[r] = "idle"
    /\ cmd' = [cmd EXCEPT ![r] = [NoCommand EXCEPT !.op = "archive", !.org = org,
                                                   !.doc = d,
                                                   !.expected = docs[d].lock]]
    /\ IF Found(org, d) THEN Goto(r, "lock") /\ UNCHANGED answer
                        ELSE Return(r, "not_found", {})
    /\ UNCHANGED <<docs, versions, artifacts, trail, work>>

(* archive_document_with_lock up to the UPDATE                             *)
LockToArchive(r) ==
    LET d == cmd[r].doc IN
    /\ pc[r] = "lock" /\ NotLocked(r, d)
    /\ IF docs[d].lock # cmd[r].expected
       THEN Return(r, "conflict", {}) /\ UNCHANGED work
       ELSE IF ~Mutable(docs[d])
       THEN Return(r, "error", {}) /\ UNCHANGED work
       ELSE /\ work' = [work EXCEPT ![r] = [NoWork EXCEPT !.doc = Archived(docs[d])]]
            /\ Goto(r, "archive")
            /\ UNCHANGED answer
    /\ UNCHANGED <<docs, versions, artifacts, trail, cmd>>

CommitArchive(r) ==
    /\ pc[r] = "archive"
    /\ docs' = PersistDocumentState(cmd[r].doc, work[r].doc)
    /\ Record(r, "archived", cmd[r].doc)
    /\ Return(r, "ok", {cmd[r].doc})
    /\ UNCHANGED <<versions, artifacts, cmd, work>>

(* register_artifact up to its INSERT: the document, and the version when  *)
(* one is named, are read without a lock and whatever the status is        *)
(* (assert_artifact_consistent).  Neither row can be deleted meanwhile.    *)
RegisterArtifact(r, org, d, v, k) ==
    /\ pc[r] = "idle"
    /\ cmd' = [cmd EXCEPT ![r] = [NoCommand EXCEPT !.op = "artifact", !.org = org,
                                                   !.doc = d, !.version = v]]
    /\ IF Found(org, d) /\ (v # None => FoundVersion(org, d, v))
       THEN /\ work' = [work EXCEPT ![r] = [NoWork EXCEPT !.artifact =
                          [org |-> org, doc |-> d, version |-> v, key |-> k]]]
            /\ Goto(r, "artifact")
            /\ UNCHANGED answer
       ELSE Return(r, "not_found", {}) /\ UNCHANGED work
    /\ UNCHANGED <<docs, versions, artifacts, trail>>

(* The key names the tenant and the document (_ensure_key_is_tenant_safe). *)
SameArtifact(a, b) == a.org = b.org /\ a.doc = b.doc /\ a.key = b.key

(* add_artifact; an IntegrityError becomes a 500.                          *)
AddArtifact(r) ==
    LET a == work[r].artifact IN
    /\ pc[r] = "artifact"
    /\ \A q \in Requests : pc[q] = "artifact_inserted" => ~SameArtifact(a, work[q].artifact)
    /\ IF \A b \in Requests : ~SameArtifact(a, artifacts[b])
       THEN Goto(r, "artifact_inserted") /\ UNCHANGED answer
       ELSE Return(r, "error", {})
    /\ UNCHANGED <<docs, versions, artifacts, trail, cmd, work>>

CommitArtifact(r) ==
    /\ pc[r] = "artifact_inserted"
    /\ artifacts' = [artifacts EXCEPT ![r] = work[r].artifact]
    /\ Record(r, "artifact_registered", cmd[r].doc)
    /\ Return(r, "ok", {r})
    /\ UNCHANGED <<docs, versions, cmd, work>>

(* The first statement of create_download_url, get_artifact, list_versions *)
(* and list_artifacts, and of the route of a document: get_document.       *)
(* Without a version in the command the current one is downloaded.         *)
OpenDocument(r, op, org, d, v) ==
    /\ pc[r] = "idle"
    /\ cmd' = [cmd EXCEPT ![r] = [NoCommand EXCEPT
                 !.op = op, !.org = org, !.doc = d,
                 !.version = IF op = "download" /\ v = None THEN docs[d].current ELSE v]]
    /\ IF Found(org, d) THEN Goto(r, "opened") /\ UNCHANGED answer
                        ELSE Return(r, "not_found", {})
    /\ UNCHANGED <<docs, versions, artifacts, trail, work>>

(* Their second statement.  The event of a download is flushed and never   *)
(* committed (async_session_scope).                                        *)
ReadOpened(r) ==
    LET org == cmd[r].org  d == cmd[r].doc  v == cmd[r].version IN
    /\ pc[r] = "opened"
    /\ CASE cmd[r].op = "versions"  -> Return(r, "ok", ListVersions(org, d))
         [] cmd[r].op = "artifacts" -> Return(r, "ok", ListArtifacts(org, d))
         [] cmd[r].op = "download"  ->
              IF FoundVersion(org, d, v) THEN Return(r, "ok", {v})
                                         ELSE Return(r, "not_found", {})
         [] cmd[r].op = "download_artifact" ->
              IF v \in ListArtifacts(org, d) THEN Return(r, "ok", {v})
                                             ELSE Return(r, "not_found", {})
    /\ UNCHANGED <<docs, versions, artifacts, trail, cmd, work>>

(* list_documents                                                          *)
ReadDocuments(r, org, archived) ==
    /\ Receive(r, "documents", org, None, None)
    /\ Return(r, "ok", ListDocuments(org, archived))
    /\ UNCHANGED <<docs, versions, artifacts, trail, work>>

(* The process or its connection is lost: the transaction is rolled back.  *)
Crash(r) ==
    /\ pc[r] \notin {"idle", "done", "crashed"}
    /\ Goto(r, "crashed")
    /\ UNCHANGED <<docs, versions, artifacts, trail, cmd, work, answer>>

Receiving(r, org) ==
    \/ \E op \in {"register", "upload"}, c \in Contents : FindContent(r, op, org, c)
    \/ \E d \in Requests :
        \/ \E c \in Contents, s \in {"pending", "stored", "failed"} :
              CreateVersion(r, org, d, c, s)
        \/ ReadLockVersion(r, org, d)
        \/ \E v \in Ids, k \in Keys : RegisterArtifact(r, org, d, v, k)
        \/ \E op \in {"versions", "artifacts"} : OpenDocument(r, op, org, d, None)
        \/ \E v \in Ids : OpenDocument(r, "download", org, d, v)
        \/ \E v \in Requests : OpenDocument(r, "download_artifact", org, d, v)
    \/ \E archived \in BOOLEAN : ReadDocuments(r, org, archived)

Next ==
    \E r \in Requests :
        \/ \E org \in Tenants : Receiving(r, org)
        \/ AddDocument(r) \/ FindAgain(r) \/ CommitDocument(r)
        \/ \E s \in {"stored", "failed"} : SettleUpload(r, s)
        \/ AddVersion(r) \/ CommitVersion(r)
        \/ LockToArchive(r) \/ CommitArchive(r)
        \/ AddArtifact(r) \/ CommitArtifact(r)
        \/ ReadOpened(r)
        \/ Crash(r)

Spec == Init /\ [][Next]_vars

-----------------------------------------------------------------------------
(* Properties.                                                             *)

Places == {"idle", "register", "doc_inserted", "find_again", "promote", "version",
           "version_inserted", "lock", "archive", "artifact", "artifact_inserted",
           "opened", "done", "crashed"}

Codes == {"none", "ok", "not_found", "conflict", "duplicate", "unavailable", "error"}

(* Every table and every request holds values of its own kind.             *)
TypeOK ==
    /\ docs \in [Requests -> Doc]
    /\ versions \in [Requests -> Version]
    /\ artifacts \in [Requests -> Artifact]
    /\ trail \subseteq {"registered", "version_created", "archived",
                        "artifact_registered"} \X Requests \X Requests
    /\ pc \in [Requests -> Places]
    /\ cmd \in [Requests -> Command]
    /\ work \in [Requests -> Work]
    /\ answer \in [Requests -> [code : Codes, ids : SUBSET Requests]]

Existing == {d \in Requests : docs[d].status # "absent"}

(* No accepted change is lost, although an UPDATE that finds no row goes   *)
(* unnoticed and the number of a version is a count taken before its       *)
(* INSERT: versions are numbered from one, the newest is current, each     *)
(* change has its event and each event its change, and besides them only   *)
(* the settling of an upload has raised the lock_version (create_version,  *)
(* archive_document_with_lock, _persist_document_state).                   *)
TrailExplainsDocument ==
    \A d \in Existing :
        LET own      == {v \in Requests : versions[v].doc = d}
            created  == {e \in trail : e[1] = "version_created" /\ e[3] = d}
            archived == {e \in trail : e[1] = "archived" /\ e[3] = d}
            told     == 1 + Cardinality(created) + Cardinality(archived)
        IN  /\ {versions[v].number : v \in own} = 1 .. 1 + Cardinality(created)
            /\ Cardinality(own) = 1 + Cardinality(created)
            /\ docs[d].current \in own
            /\ versions[docs[d].current].number = Cardinality(own)
            /\ docs[d].status = "archived" <=> archived # {}
            /\ docs[d].lock \in {told, told + (IF cmd[d].op = "upload" THEN 1 ELSE 0)}

(* Who is told that a content is a duplicate does have it in the tenant,   *)
(* although every IntegrityError is reported this way (add_version,        *)
(* add_document).                                                          *)
DuplicateIsHonest ==
    \A r \in Requests : answer[r].code = "duplicate" =>
        \E v \in Requests \ {r} : /\ versions[v].org = cmd[r].org
                                  /\ versions[v].content = cmd[r].content

(* Every answer is of the tenant and the document that were asked for: a   *)
(* registration or an upload, whether it inserted, found, or lost a race,  *)
(* names one document, a version of which is the content, and reads and    *)
(* artifacts stay within their document (register_document, get_version,   *)
(* get_artifact, assert_artifact_consistent).                              *)
AnswersAreScoped ==
    /\ \A r \in Requests : answer[r].code = "ok" =>
        LET c == cmd[r] IN
        CASE c.op \in {"register", "upload"} ->
                \E d \in Existing, v \in Requests :
                    /\ answer[r].ids = {d} /\ docs[d].org = c.org
                    /\ versions[v].doc = d /\ versions[v].content = c.content
          [] c.op \in {"version", "versions", "download"} ->
                \A v \in answer[r].ids : versions[v].org = c.org /\ versions[v].doc = c.doc
          [] c.op \in {"artifact", "artifacts", "download_artifact"} ->
                \A a \in answer[r].ids : artifacts[a].org = c.org /\ artifacts[a].doc = c.doc
          [] OTHER -> \A d \in answer[r].ids : docs[d].org = c.org
    /\ \A a \in Requests : artifacts[a].version # None =>
        LET v == versions[artifacts[a].version] IN
        v.org = artifacts[a].org /\ v.doc = artifacts[a].doc

(* A document says "stored" exactly when its current version is, also when *)
(* the upload of its first version is settled after a second version was   *)
(* made current (SettleUpload against CreateVersion).                      *)
StatusTellsCurrentVersion ==
    \A d \in Existing : docs[d].status # "archived" =>
        LET storage == versions[docs[d].current].storage IN
        /\ docs[d].status = "stored" <=> storage = "stored"
        /\ docs[d].status = "failed" => storage = "failed"

(* An archived document keeps its row and gets no version, whoever was on  *)
(* the way when it was archived (_ensure_mutable under the row lock).      *)
ArchivedIsFrozen ==
    [][\A d \in Requests : docs[d].status = "archived" =>
          /\ docs'[d] = docs[d]
          /\ \A v \in Requests : versions'[v].doc = d => versions[v].doc = d]_vars
=============================================================================
