# A verification project for WorkflowForge

This directory specifies and verifies the parts of WorkflowForge whose
correctness depends on an order of events that no test controls: concurrent
HTTP requests over PostgreSQL, uploads that write to PostgreSQL and to an
object store without a common transaction, refresh-token rotation, periodic
cleanup, logins against a rate limiter in Redis, the bootstrap of the first
owner, the resolution of a tenant while roles change, and the single-page
application's session with answers that arrive in any order.  The specifications
are written in TLA+, checked by TLC on small instances, and every safety property
is proved with TLAPS for every value of the constants.

`PROJECT.json` lists the components, the runs, the mutants (a plausible bug in
the code for every property, which TLC must find), the source lines every
definition models, the findings, the hazards and the theorems.

Contents: 1 the system, 2 the modules, 3 the runs, 4 fairness, 5 the proofs,
6 divergences, 7 what is not modelled, 8 plan, 9 how to run.

## 1. The system

WorkflowForge is a multi-tenant document and case management service: a FastAPI
application (`apps/api`) over an application layer (`packages/application`),
domain entities (`packages/domain`) and SQLAlchemy repositories
(`packages/infrastructure`); a Celery worker and scheduler; an S3 object store;
Redis for the rate limiter; and a React application (`apps/web`).

| Component | State it keeps | Operations | What makes it correct |
|---|---|---|---|
| Document upload | `upload_idempotency`, `documents`, `document_versions`, temporary and final objects | upload, replay, retry, archive, cleanup of keys | a stored version has its bytes; one promoter per content; a 201 stays true; a replay serves the bytes it was sent; keys are released |
| Sessions | `auth_sessions`, `refresh_tokens` | login, refresh with rotation, replay detection, logout, logout-all | a token is exchanged once; a rotation chain never forks; a revocation that was answered holds |
| Session cleanup | the same rows | three bounded deletes in one transaction | nothing of an active session is deleted; expired rows go in the end |
| Cases and tasks | `cases`, `case_tasks`, `case_documents`, comments, decisions, audit events | create, update, close, reopen, archive, task update and completion, children | no lost update; dates agree with status; an archived case stays so; the trail explains the version |
| Batches | `batches`, `batch_documents`, audit events | create, update, archive, add and remove a document | every membership answered is in the table or was reported removed, once; add is idempotent |
| Web session | access token, generation, refresh promise, React state | restore, sign in, select an organization, sign out, page requests with a retry after 401 | one refresh per generation; late answers are ignored; permissions belong to the selection |
| Document library | `documents`, `document_versions`, `document_artifacts`, audit events | register, create a version, archive, register an artifact, list, download | versions are numbered without gaps and the newest is current; no accepted change is lost; an archived document is frozen; answers stay in the tenant and document asked for |
| Login and rate limiter | `users`, `password_credentials`, Redis counters, audit events | login, refresh, count, clear, expire | who is blocked is not looked at; a failure is counted and recorded; a lockout ends |
| Tenancy | `users`, `organizations`, `memberships`, the advisory lock | bootstrap, invite, activate, suspend, reactivate, remove, change a role, resolve a tenant, require a permission | one first owner; an organization keeps an active owner; an answer was true while the request ran |

**How they interact.**  A request opens one database session
(`database/session.py`) that is rolled back unless the service commits; a
service calls repositories, the audit recorder and, for uploads, the object
store.  Services share nothing but the database and the store.  Uploads of
different requests meet in the unique keys of `upload_idempotency` and of the
content hash, and an upload meets the archive of its document.  Refresh, logout
and logout-all meet in the rows of a session and its tokens; the cleanup task
deletes them.  Cases, batches and documents meet in `lock_version` and in row
locks; an upload settles the document that `DocumentService` may have changed.
Every route resolves its tenant and permission from rows that administration
changes meanwhile.  Logins of one client or email meet in counters that are read
and written by separate Redis commands.  In the browser every page shares one
access token and one refresh promise.

**What is hard.**  Durable effects in two places without a transaction
(uploads); statements of concurrent READ COMMITTED transactions, whose WHERE
clause is tested on what is committed when they start and tested again on a
locked row only (sessions, batches, library); foreign keys between rows that are deleted
in batches (cleanup); an UPDATE whose row count nobody looks at (cases,
batches, library); facts read in several statements or commands and acted on
together (login, tenancy); crashes between any two durable steps; continuations that run after
an `await` on state that has moved on (web).  Every such place is a hazard in
`PROJECT.json`, at its line, with the properties that would catch it.

## 2. The modules

| Module | Models | Kind |
|---|---|---|
| `Upload` | `application/documents/service.py` (`UploadDocument`, archive), the document and idempotency repositories, the storage adapter, the idempotency cleanup task | component |
| `Sessions` | `application/identity/session_lifecycle.py`, the session repository, the refresh and logout routes | component |
| `SessionCleanup` | `application/security/cleanup.py`, `infrastructure/security/repository.py`, the Celery task | component |
| `Cases` | `application/cases.py`, `domain/cases.py`, `infrastructure/cases.py` and their routes | component |
| `Batches` | `application/batches.py`, `domain/batches.py`, `infrastructure/batches.py` and their routes | component |
| `OptimisticRows` | what a `lock_version` promises a client | abstract specification, of `Cases` and `Batches` |
| `RotatingTokens` | what the holder of a refresh token is promised | abstract specification, of `Sessions` |
| `ContentStore` | what a client that uploads is promised | abstract specification, of `Upload` |
| `WebSession` | `auth-context.tsx`, `api-client.ts` | component |
| `Library` | `application/documents/service.py` (`DocumentService`), `domain/documents.py`, the document repository and its routes | component |
| `Tenancy` | `application/security/bootstrap.py`, `domain/identity`, `application/authorization`, the request dependencies of the API | component |
| `Login` | the login and refresh routes, `infrastructure/security/rate_limit.py`, `AuthenticateUser`, the independent audit recorder | component |
| `UploadProofs`, `LibraryProofs`, `SessionsProofs`, `CasesProofs`, `BatchesProofs`, `TenancyProofs`, `LoginProofs`, `WebSessionProofs` | theorems about the nine components (those about `SessionCleanup` are in `SessionsProofs`) | proofs |
| `MC*` | instances for TLC: model values and symmetry | model checking |

`Fault_*` definitions in the components are mutated forms of the definition
below them, for the mutants of `PROJECT.json`; no specification uses them.

**Upload.**  Every request is a process with a program counter; an action is one
database transaction or one call of the object store, so every interleaving,
every storage failure and every crash between two durable effects is a
behaviour.  `keys`, `docs`, `temps` and `finals` are the durable state; a
document is identified by its content hash, which the unique constraint
justifies.  A payload is a model value: `Valid` stands for the verdict of
`upload_validation.py` and `HashOf` for SHA-256.  `LoadRow` and `Flush` model
how SQLAlchemy writes a row: a method selects it and later updates only the
columns that differ from the copy it selected.  `CommitAndRecord` models the
audit trail: what is flushed before a commit is kept, what is recorded after the
last commit is rolled back with the request.  `drained` is the request's input
stream, which can be read once.  Client retries are further requests with the
same key.  `SerialKeys` is the only assumption on clients: when it is TRUE no
client sends a key while a request with that key is running.

**Sessions.**  One action is one SQL statement, or one row of an UPDATE, with
PostgreSQL's READ COMMITTED rules written out: `Free` is the row lock, the WHERE
clause is tested when the statement starts and again on a row it had to wait
for, an INSERT into a unique key waits for an uncommitted one, and a deadlock
aborts one of its transactions.  A token is named by its session and generation,
as the unique constraint allows.  The generations are bounded by `MaxGen`, in
the guard of `RefreshCurrent`.

**SessionCleanup.**  The rows that logins, rotations and revocations leave, with
the ranks of `expires_at` and `revoked_at` instead of clock values, and token
ids that say nothing of age, as random UUIDs do.  `TokenBatch`, `ExpiredBatch`
and `RevokedBatch` are the three `ORDER BY ... LIMIT` queries; `Referenced` is
the foreign key `replaced_by_token_id`, which has no ON DELETE action.

**Cases** and **Batches.**  A client reads a row and later asks for a change of
the version it read.  The service locks the row, tests status and version, and
writes the whole row back.  In `Batches` a statement and its commit are separate
steps because two statements of different requests can meet on a membership.
Tasks are identified by the request that creates them.  An event of a batch names
the batch and the document and, for a removal, whether a row was removed, as in the
code; memberships, which have ids of their own, appear in answers only.  An answer is
what the service returned after its commit.

**OptimisticRows.**  Three variables (`version`, `basis`, `verdict`) and one
atomic step per verdict.  `Cases!ImplementsOptimisticRows` and
`Batches!ImplementsOptimisticRows` instantiate it with a refinement mapping:
`version` is the row's `lock_version`, `basis` what the client has read,
`verdict` the answer.

**RotatingTokens.**  Five variables and one atomic step for each thing a request
can be told.  A session has one token that may be exchanged, and an exchange
replaces it; a spent token that is presented again ends its session; a token is
refused only when it is spent or its session is over; who is told that all
sessions are logged out had all those that had begun when it arrived ended.
`Sessions!ImplementsRotatingTokens` maps the rows to it: `live` is the issued
tokens that are not used, `over` the sessions that are revoked or expired, `at`
what a request that is not answered found when it arrived, `verdict` its answer,
in which the three codes of a refusal are one.  That a request which arrived
before its session ended may still be answered with new tokens is part of the
promise, because it is what the code does; `DeadSessionNotRefreshed` says the rest.

**ContentStore.**  A content is registered once, by one request, and only that
request settles it, as stored with a 201 or as failed with a 503; a request whose
process is lost leaves it pending.  A duplicate or a replay names a content that
is registered, in whatever state it is.  `Upload!ImplementsContentStore` maps
`content` to the storage state of the version row, `storing` to the requests
between the insertion of the document and their answer, `verdict` to the answers.

**WebSession.**  JavaScript runs to completion, so an answer or a user action
starts only when no continuation is ready (`Quiet`).  The API is external and
may answer any call with success, 401 or failure, in any order.  Each callback
of `AuthProvider` and each page request is a task; `req` holds its requests,
each with the retry after a 401 that `requestWithAuthRetry` makes.

**Library.**  `DocumentService` called by several tenants.  `Upload` identifies a
document by its content and has one version of it; here ids, tenants, version
numbers and unique constraints are explicit, and of an upload only what it does
to the shared rows remains (`FindContent`, `AddDocument`, `CommitDocument`,
`SettleUpload`).  A row selected FOR UPDATE makes others wait (`NotLocked`), an
uncommitted unique value too (`NoRival`).  `PersistDocumentState` is the UPDATE
whose row count nobody looks at.  Reads take two statements, as in the code.

**Tenancy.**  Three parts over the same rows.  The bootstrap command: the
transaction-scoped advisory lock, two counts, five INSERTs, one commit.
Administration: the transitions of `Membership` under `MembershipPolicy` and
`MembershipAdministrationPolicy`; no route of the commit has these use cases, so
they are external, check and write in one step, and are bounded by `MaxChanges`.
Requests: the principal, the organization, the membership and the permission,
read one after the other, with the denials recorded in transactions of their
own.  `RolesWith` keeps one permission of each class that the role table tells
apart.  A list of organizations is cut to `MaxResults`, at an unspecified place because names
and their order are abstracted; no use case gives a user a second organization, so
the cut shortens no list in the run.  `moments` records what was true while a request
ran.

**Login.**  One action is one Redis command or script, one SELECT or one commit.
`hits` holds the attempts a counter has counted, `expiring` the keys with a TTL.
Redis may fail at every command, under both failure policies, before it executes
the command or after it, when the reply is lost (`executed`); the audit store may
fail at every event.  `blocked`, `truths`, `counted` (the keys on which the request
was told that it is counted) and `outages` are histories for the properties.  What `RefreshSession` does is in `Sessions`; its outcome is an
input here.

## 3. The runs

| Run | Instance | Distinct states | What it shows |
|---|---|---|---|
| `upload_race` | 3 requests, 2 keys, 2 payloads, keys reused at will | 1.84 M | `StoredHasBytes`, `DocumentAgreesWithVersion`, `CreatedIsStored`, `ImplementsContentStore`: whatever fails, crashes or races, rows and objects agree as far as the code intends, and clients see a content-addressed store |
| `upload_serial` | 2 requests, 2 keys, 2 valid and 1 invalid payload, serial clients, fair | 97 k | `CompletedRowIsHonest`, `ReplayServesOwnContent`; liveness `RequestEnds`, `KeyIsReleased` |
| `upload_retry` | 2 requests, 1 key, 1 payload | violation | `ValidUploadNotRejected`: see Divergences |
| `library_race` | 3 calls, 2 tenants, 3 contents, 1 artifact key | 210 k | `TrailExplainsDocument`, `DuplicateIsHonest`, `AnswersAreScoped`, `StatusTellsCurrentVersion`, `ArchivedIsFrozen` |
| `sessions_race` | 3 requests, 2 sessions, 3 generations | 1.46 M | `SingleUse`, `DeadSessionNotRefreshed`, `AnsweredRevocationHolds`, `DeadlockNeedsLogoutAll`, `ImplementsRotatingTokens`: every interleaving of statements, locks, crashes and deadlocks looks like one atomic step per answer |
| `cleanup_whole` | 2 sessions, 4 tokens, batches of 3, fair | 71 k | `ActiveSessionIsWhole`; liveness `ExpiredTokensGo`, `RetiredSessionsGo` |
| `cleanup_stuck` | 1 session, 2 tokens, batches of 1, fair | violation | `ExpiredTokensDeleted`: see Divergences |
| `cases_race` | 5 requests, 1 case, 2 documents (1 existing), 2 texts | 514 k | `NoLostUpdate`, `OverwritesWhatWasRead`, `DatesAgreeWithStatus`, `TrailExplainsVersion`, `ImplementsOptimisticRows` |
| `batches_race` | 5 requests, 1 batch, 2 documents (1 existing), 2 texts | 52 k | `MembershipsAccounted`, `ImplementsOptimisticRows` |
| `tenancy_race` | 2 bootstraps, 3 users, 2 organizations, 5 changes, 1 request | 1.35 M | `MembershipLifecycle`, `BootstrapOnce`, `OwnerRemains`, `AnswerWasTrue` |
| `login_race` | 2 requests, 1 email, 1 client, 1 change of the user, both policies, fair | 865 k | `BlockedNotAdmitted`, `FailureLeavesTraces`, `LoginWasTrue`; liveness `LockoutEnds` |
| `web_race` | restoration and 2 more callbacks, 2 organizations, 3 promises | 324 k | `PermissionsOfSelection`, `SharedRefresh`, `WaitersAreServed`, `LateRefreshIgnored` |

Every component also has a type invariant `TypeOK`; it is a theorem in all but
`SessionCleanup`, and in `Login`, where the proof has types of its own
(`LoginTypes`).  The runs are spent on what could be wrong.

**Why the bounds are enough to be interesting.**  Every race in the upload
pipeline is between two requests that share a key or a content hash; the third
request observes the outcome, or replays it.  The longest chain in the session
code is two refreshes with one token and a logout; three generations let a
session be rotated twice, so that a replay can name a token that is neither the
first nor the current one.  Two sessions make logout-all lock more than one
row.  The cleanup instance has chains of up to four tokens, backlogs larger
and smaller than a batch, and both deletions of a revoked session.  Five requests
on one case or batch are enough to create it, change it from two copies, archive
it and still have one request left; two documents include one that is not the
tenant's.  In the browser three callbacks include every pair of restoration,
sign in, sign out, selection and page request under way at once.  In the library
three calls are a registration or an upload and two operations that race on its
document, or three that race on one content, and two tenants hold the same
content.  In `Tenancy` five changes create a second user, invite, activate and
promote them, and turn the first owner out; the roles `operator` and `reviewer`,
which administration treats as it does `auditor`, are left out of the instance,
and the requests need no permission or the owner's.  In `Login` the thresholds are one
and two, so that one failure blocks a key while the other stays open.

**Symmetry** is used for sets of model values that the specification does not
tell apart, in runs without liveness properties only.  **Deadlock** checking is
off everywhere: in every instance a finite set of requests is served and the
system may then stop.

## 4. Fairness

* `Upload`: weak fairness of every step of a running request (an asyncio task
  that is ready is run; storage and database calls return or fail) and of
  `CleanupKey` (Celery Beat keeps scheduling `documents.cleanup_expired_idempotency`).
  `Start`, `Crash` and `ArchiveDocument` are not fair.
* `SessionCleanup`: weak fairness of the task and of the passing of time.
* `Login`: weak fairness of the expiry of a key that has a TTL, and of nothing
  else: `LockoutEnds` needs no request to make progress.

Beat registers the cleanup tasks only when `settings.cleanup.schedule_enabled`
is set (`schedules.py:32`), and its default is off (`config/settings.py:173`).
The liveness results about keys and expired rows hold for deployments that set it.

## 5. The proofs

The theorems hold for every value of the constants allowed by the modules'
assumptions, which TLC evaluates on the runs:

| Assumption | Says |
|---|---|
| `UploadAssumption` | valid payloads are payloads, every payload has a hash, `None` is neither |
| `LibraryAssumption` | there are finitely many calls, so that versions can be counted; `None` is none of the other values |
| `SessionsAssumption` | `MaxGen` is a natural number, there is a session, and no session is a token (they are rows of two tables) |
| `CasesAssumption` | existing documents are documents, ids of cases and tasks differ, `None` is none of them |
| `BatchesAssumption` | there are finitely many requests, so that memberships and events can be counted; existing documents are documents, `None` is none of the other values |
| `TenancyAssumption` | roles and permissions are those of the table, `MaxChanges` is a natural number and `MaxResults` a positive one, `None` is no user and no organization |
| `LoginAssumption` | thresholds are at least one, `MaxChanges` is a natural number, `None` is no password |
| `WebSessionAssumption` | the mount is a task, there is a promise, `None` is no organization and no promise |

| Module | Inductive invariant | Theorems (`Spec => []` of the property, unless said otherwise) |
|---|---|---|
| `UploadProofs` | `UploadInv`, `NamesInv`, `KeysInv` | `UploadTypeCorrect` (`TypeOK`), `StorageConsistent` (`StoredHasBytes`, `FinalHasDocument`), `SingleOwner` (`OnePromoter`), `RowsAgree` (`DocumentAgreesWithVersion`), `CreatedForever` (`CreatedIsStored`), `ArchiveIsFinal` (`Spec => ArchivedForever`), `UploadsAreAContentStore` (`Spec => ImplementsContentStore`), `RequestsWindDown` (`Spec => []RowKept /\ [][WindsDown]_vars`); under `SerialKeys`: `CompletedRowsAreHonest` (`CompletedRowIsHonest`), `ReplaysServeOwnContent` (`ReplayServesOwnContent`) |
| `LibraryProofs` | `LibraryInv`, `LibraryFacts` | `LibraryTypeCorrect` (`TypeOK`), `StatusIsTrue` (`StatusTellsCurrentVersion`), `ArchiveFreezes` (`Spec => ArchivedIsFrozen`), `TrailIsComplete` (`TrailExplainsDocument`), `DuplicatesAreHonest` (`DuplicateIsHonest`), `AnswersStayScoped` (`AnswersAreScoped`) |
| `SessionsProofs` | `SessionsInv`, `AnswersInv` | `SessionsTypeCorrect` (`TypeOK`), `HistoryIsAChain` (`Lineage`), `ExchangedOnce` (`SingleUse`), `DeadStayDead` (`DeadSessionNotRefreshed`), `RevocationHolds` (`AnsweredRevocationHolds`), `OnlyLogoutAllDeadlocks` (`DeadlockNeedsLogoutAll`), `SessionsAreRotatingTokens` (`Spec => ImplementsRotatingTokens`); of `SessionCleanup`, from `CleanupInv`: `ActiveSessionsAreSpared` (`ActiveSessionIsWhole`), `CleanupMakesProgress` (`Spec => [][Progress]_vars`) |
| `CasesProofs` | `CasesInv`, `TrailFacts` | `TypeCorrect` (`TypeOK`), `NoUpdateIsLost` (`NoLostUpdate`), `NothingUnseenIsOverwritten` (`OverwritesWhatWasRead`), `DatesAlwaysAgree` (`DatesAgreeWithStatus`), `ArchivedCasesStay` (`Spec => ArchivedForever`), `TrailCountsVersions` (`TrailExplainsVersion`), `CasesAreOptimisticRows` (`Spec => ImplementsOptimisticRows`) |
| `BatchesProofs` | `BatchesInv` | `BatchesTypeCorrect` (`TypeOK`), `MembershipsAreAccounted` (`MembershipsAccounted`), `BatchesAreOptimisticRows` (`Spec => ImplementsOptimisticRows`) |
| `TenancyProofs` | `TenancyInv` | `TenancyTypeCorrect` (`TypeOK`), `LifecyclesAreValid` (`MembershipLifecycle`), `OneBootstrap` (`BootstrapOnce`), `NoOwnerlessOrganization` (`OwnerRemains`), `AnswersWereTrue` (`AnswerWasTrue`) |
| `LoginProofs` | `LoginInv` | `BlockedAreRefused` (`BlockedNotAdmitted`), `FailuresAreTraced` (`FailureLeavesTraces`), `LoginsWereTrue` (`LoginWasTrue`), `EveryCounterExpires` (`CountersExpire`) |
| `WebSessionProofs` | `WebInv` | `TypeCorrect` (`TypeOK`), `PermissionsMatch` (`PermissionsOfSelection`), `RefreshShared` (`SharedRefresh`), `WaitersServed` (`WaitersAreServed`), `LateRefresh` (`Spec => LateRefreshIgnored`) |

Every proof has the same outline: the initial states satisfy the invariant, one
lemma for each action shows that a step keeps it, and the properties follow from
it.  What has to be found is the invariant.

*Upload.*  None of the properties is inductive alone: that a stored version has
its bytes rests on its promoter being the only one, on where the promoter is,
and on what the document row can look like meanwhile.  `UploadInv` adds two
parts to the properties.  `DocumentRows` says which combinations of status,
storage state and `lock_version` occur (a `lock_version` of 1 is exactly a
registered document: this is what makes the guarded update of a settled upload
spare an archived document).  `OwnerProgress` ties the program counter of an
owner to the objects it has written.  `QuietStep` discharges the many steps
that touch neither table.

`CompletedRowIsHonest` and `ReplayServesOwnContent` are about the other table.  A
method writes back the columns that differ from the copy it selected, so a copy
that is stale writes a row that is partly another request's; with two requests of
one key at once this happens (see Divergences), and the theorems are therefore
stated for `SerialKeys`.  `KeysInv` says that live requests then have different
keys (`Serial`), that what a request holds of its row is the row itself (`Owns`),
and that this row's fingerprint is that of the request's payload once it is final.

`UploadsAreAContentStore` has no such hypothesis: whatever a stale copy does to a
row, what the answers name is registered.  `NamesInv` says why.  A row, and every
copy of one, names a registered document or none, and a completed row names one;
a write leaves the document a row names or puts a registered one in its place; and
a document that a running request saw in its row is not taken back, since cleanup
waits for it.  The commit of `AddDocument` is the registration, `Finish` and
`MarkUploadStorageFailed` settle, a crash of a request in between abandons, and
every other step is an answer or nothing.  That the settled content is still
pending is `OnePromoter`, part of `UploadInv`.

`RequestsWindDown` is what liveness of a request rests on.  `Rest` counts the steps
a request has left at most (`Distance` of its program counter, twice, less the
SELECT it has made); each of its own steps lowers it and no step of another request,
archive or cleanup raises it.  `RowKept` says that the row it will select is there.
Only that a request which can move does move is left to fairness.

*Cases.*  `CasesInv` adds what a request knows: `Knows` (what a client has read
is a former version of its row, and the row itself when the versions are equal),
`Holds` (a request that holds a lock has seen the committed row, and is about to
write its next version), `Stage` (what each program counter implies) and
`RowsSound`.  `NoLostUpdate` follows because an accepted request quoted a version
that is smaller by one than the version it wrote, and locks exclude each other.
The refinement proof maps `WriteCase` and `WriteTask` to `Accept`, a version
mismatch to `Conflict`, insertions to `Insert`, `Read` to `Read`, and everything
else, crashes included, to a stutter.  `TrailExplainsVersion` counts.  A set of
events that grows by one that was not in it has one element more
(`FiniteSetTheorems`); that the event is new holds because a request records at
the commit that ends it, and who has not ended has recorded nothing (`TrailFacts`).

*Batches.*  `MembershipsAccounted` counts: for each pair of batch and document, the
memberships that adds were answered with (`Told`) are as many as the events that
report a removal, and one more when the table has a row.  A membership is told,
and a removal reported, only at the commit that ends its request.  `Recorded` and
`Answered` say that events and answers name requests that have ended, so that what
a commit adds is new and the cardinality grows by one (`FiniteSetTheorems`);
`Known` says that the row in the table was told, so that an add which found it tells
nothing new.  Two requests meet on a membership between statement and commit;
`Apart` lists the statements that exclude each other (two writes of one batch row,
two INSERTs of one pair, two DELETEs that found the same row), and `Stage` says
that an INSERT under way has no row beside it, that a DELETE which found a row
still has it, and that a row a request has looked up was told.  The refinement of
`OptimisticRows` needs in addition that a request that waits has been answered
nothing and that one that holds the lock quotes the row's version.

*Sessions.*  A transaction is a set of rows it has written and locked, and other
requests see them only at its commit.  `Stage` says what these sets are where the
request is: `Wrote`, `Left` (what its statement has still to visit), `Knows` (what
it read of its session) and `Answered`.  `Apart` says that no row is locked and no
token inserted by two transactions, and `Chain` that all tokens of a session but
the last are used.  Together they make a rotation append to the chain: the token
it consumes is current and locked, and its successor is nobody else's.
`DeadlockNeedsLogoutAll` follows from `Stage`: all but logout-all wait for an
inserted token or a token row while they hold no lock, and for a session row while
they hold token rows only; so no chain of them is longer than three, and a set of
transactions that all wait for one another contains a logout-all.

`SessionsAreRotatingTokens` maps every statement to a stutter but the arrival, the
answers given without a commit and the commits; a login begins a session, and the
commit of a rotation is the exchange.  Each answer must be justified at that moment,
by rows that were read earlier and may have changed: what was true when it was read
and cannot become false (a used token stays used, a revoked session revoked), or is
kept by a lock until the commit.  `AnswersInv` adds to `SessionsInv` what this takes:
a request presents a token that was issued, the transactions of a replay and of a
logout revoke only their own session, and a token is revoked only with its session,
so that a refusal because of a revoked token is a refusal because of an ended session.

*SessionCleanup.*  `ActiveSessionIsWhole` needs `CleanupInv`: that logins are of
different sessions, so that a later login does not move the rank of an earlier
one (`Ranked`), and that rows and ids are of sessions that have begun (`Begun`).
What the batches leave out because of their limit does not matter to it: each
selects among rows that are expired or revoked.  `SessionsProofs` instantiates the
module as `Cleaning`, over constants and variables of its own; where a theorem needs
the assumption on the constants it is a hypothesis (`CleanupConstants`).
`CleanupMakesProgress` is the step that the liveness of cleanup repeats: a run that
finds no more expired tokens than its batch holds is not refused by the foreign key
and leaves none of them, because a token and the one that replaced it expire together
and so are deleted together (`WholeBatch`); and a run that is not refused takes the
session that has been expired longest, once it is past its retention (`OldestGoes`).

*Tenancy.*  `BootstrapOnce` rests on the advisory lock: one installer holds it
(`BootLocked`), and after it has counted no users nobody else has created an owner
(`BootAlone`), since every user comes from a bootstrap or from an administrator.
`OwnerRemains` is kept by each change of a membership, because the policy refuses
the one that would leave no other active owner.  `AnswerWasTrue` needs `Witness`:
where a request is, some moment it has lived through shows what it has read.

*Login.*  For each request, `Limited` says that a key it has passed was not
blocked all the time, `Traced` which keys it has counted and what it has recorded
so far, and `Truthful` that what it read of user and credential was so at some
moment.  The keys left to a request are a sequence of at most two; the lemmas on
it spell out the cases.  `CountersExpire` (a counter with a failure has a TTL)
is the safety half of `LockoutEnds`, and leaves to fairness only that time passes.

*Library.*  The UPDATE of a document names the `lock_version` it was read with,
and nobody looks at how many rows it changed; so both theorems have to show when
it changes one.  `LibraryInv` adds `RowsSound` (documents and versions refer to
each other within a tenant, and a `lock_version` of 1 is exactly a document as it
was inserted), `Exclusive` (two calls never hold the lock of one document),
`Fresh` (a call that has committed nothing owns no row) and `Stage` (what each
program counter implies: a call that holds the lock found the document mutable,
and its new row is the next one; an upload that waits to be settled finds its
document archived, given another version, or untouched).  `RequestStep` discharges
the steps that commit no row; the four that do each have a lemma.

`LibraryFacts` is proved over it, for the trail and the answers.  `Explained` ties
the number of versions and the `lock_version` to the counted events; `Distinct` is
the unique constraints, committed and pending, and `Fits` that an artifact belongs
to its version.  For each call, `Silent` says that it has recorded nothing before
its commit, `Asked` what it holds where it is, and `Honest` and `Scoped` what its
answer named, which no later step takes away.

*WebSession.*  `SharedRefresh` is not inductive: that a new generation starts
with no refresh under way needs to know that no refresh is ahead of the
generation, and that a promise that is kept is under way.  `Past` says so, and
that a late refresh is of an earlier generation, from which `LateRefreshIgnored`
follows.

**Theorems that no run states.**  The type invariants, `Upload!ArchivedForever`,
`Cases!ArchivedForever`, `Upload!OnePromoter` and `Sessions!Lineage` are proved for
all instances; the last two are what the refinements of their runs rest on, and runs
of their own would add nothing.  `WindsDown`, `RowKept` and `Progress` are defined
with their proofs.

**Only model-checked.**  Liveness (`RequestEnds`, `KeyIsReleased`,
`ExpiredTokensGo`, `RetiredSessionsGo`, `LockoutEnds`) is outside what the
prover's temporal backend supports, and so is `ENABLED`.  All but `KeyIsReleased`
have a safety half that is a theorem (`RequestsWindDown`, `CleanupMakesProgress`,
`EveryCounterExpires`); `KeyIsReleased` follows from `RequestEnds` and one fair
action, which is enabled once no request runs with the key.  Every safety
property of a passing run is a theorem, two of them under `SerialKeys`; the two
properties of the runs that expect a violation are not theorems.

## 6. Divergences

What a run shows to be violated, with the line of the repository it contradicts:

* **A retry of a failed upload is rejected** (`upload_retry`).
  `docs/architecture.md:392-394` says that retryable storage failures may be
  claimed again.  The fingerprint check of the claim reads the input stream to
  its end (`service.py:871`); the upload then finds it empty, answers 422 and
  makes the key non-retryable.
* **Session cleanup stops for ever** (`cleanup_stuck`).  A batch that ends inside
  a rotation chain deletes a token that a remaining row names in
  `replaced_by_token_id`; the foreign key refuses the DELETE, the transaction is
  rolled back, and the next run selects the same batch
  (`security/repository.py:57`).  `ExpiredTokensGo` shows that only a backlog
  larger than a batch can do so.

Met while modelling, visible in the models' behaviours, and not run separately:

* An upload is accepted without its bytes.  The duplicate search returns "the
  tenant document that owns exact bytes" (`documents/repository.py:111`), but finds
  any row with the hash, also one whose promotion failed or was lost;
  `_complete_duplicate` (`service.py:1000`) discards the new bytes and answers 200
  (`Upload`: a `Crash` after `AddDocument`, then a second upload).
* Registration is said to be idempotent by content hash (`service.py:193`).  The
  search joins the current version only (`documents/repository.py:105`) while the
  unique constraint covers all versions: content of an older version is neither
  found nor insertable, and `DuplicateDocumentContentError` is raised (`Library`:
  `FindAgain` with no owner).
* The event of a download is flushed and never committed: the session of the request
  is rolled back when it is closed (`service.py:528`, `Library!ReadOpened`).
* A sign out is undone by an earlier selection.  `auth-context.tsx:307` says that a
  local logout is authoritative; `selectOrganization` does not compare the generation
  after its request (`auth-context.tsx:286`) and shows an authenticated session again
  (`WebSession`: `Selected` after `LoggedOut`).
* Under the closed policy a failed login that Redis could not count is answered 429
  and only the outage is recorded, although `docs/audit.md:65` says that login
  failures are committed independently (`Login!CountKeyFails`).
* A user that is disabled keeps acting with the access token and session it has: the
  principal is taken from the token and its session, and the user row is not read
  (`dependencies.py:354`).  Only the next login is refused (`LoginWasTrue`).
* The policy that keeps the last owner reads a count that no lock protects
  (`domain/identity/policies.py:24`).  `OwnerRemains` holds for callers that check and
  write in one step; two owners who turn each other out at once would both pass.
* Two requests with one new key at the same time are both processed, because
  `reserve` treats the loser's unique violation as a row it may go on with; a later
  replay may then name the other request's content
  (`service.py:674`, `repository.py:400`, against `docs/architecture.md:389-392`).
  `SerialKeys` excludes this, and `upload_serial` says so.
* Audit events of an upload's outcome are recorded after its last commit and
  rolled back with the request (`service.py:823`, against
  `docs/architecture.md:404-406`).  Only `document.upload_started` is durable.
* A logout whose UPDATE waits for a rotation does not see the token the
  rotation inserted; that token keeps `revoked_at` empty
  (`identity/repository.py:223`, `:299`).  The session is revoked, so the token
  cannot be used (`DeadSessionNotRefreshed`).
* An archived case still takes tasks, comments, decisions and documents, and can be
  archived again (`domain/cases.py:217`, `application/cases.py:259`).
* Adding a document to a batch is answered "not found" when the membership that
  made the insert fail is removed before it is looked up
  (`application/batches.py:251`, `infrastructure/batches.py:202`).
* The audit trail alone does not tell the members of a batch.  An event names the
  batch and the document, not the membership (`application/batches.py:271`, `:300`).
  An add that finds a membership holds no lock on it: a removal may commit first, and
  the add then records `BATCH_DOCUMENT_ADDED` after the removal's event although the
  document is not a member (`Batches`: `AddDocument`, `LookUp`, the removal, then
  `CommitMembership` of the add).  What the events do
  account for is `MembershipsAccounted`.
* `restoreSession` does not compare the generation: a slow restoration whose refresh
  was outdated by a faster sign in clears the new session
  (`auth-context.tsx:212`).

## 7. What is not modelled, and why

* **External systems**: PostgreSQL, S3, Redis, Celery and the browser are modelled
  as the code uses them, with the failures it handles.
* **Conversions and checks of one value**: upload validation's byte and name checks,
  password hashing, token formats, CSRF tokens, cookies, schemas and formatting.
  Their verdicts are inputs (`Valid`, `HashOf`, the answers of the API).
* **Reads** of cases, batches and lists in the browser, health checks: they change
  nothing and answer from one statement.
* **Use cases of membership administration**: the commit has entities, policies and
  repositories but no caller; `Tenancy` takes the weakest caller that could be right
  and says so.
* **Temporary upload cleanup and storage reconciliation**: at this commit the
  tasks only count.
* **Constraint violations that cannot occur**: the document repository reports every
  `IntegrityError` of a new version as a duplicate.  `Library!AddVersion` has those of
  the unique constraints; the foreign keys hold because the document row is locked and
  no use case deletes one, the CHECKs because the entities validate the same conditions before
  the INSERT.
* **Migrations, configuration, logging, contracts**: declarations and layout; the
  constraints and thresholds they declare are in the models.
* **Several tabs**: `WebSession` is one tab.  Cookies and the refresh token, which
  tabs share, belong to the planned composition with `Sessions`.
* Expiry of a session and of its refresh tokens is one event in `Sessions` and
  `SessionCleanup`: both lifetimes have the same default.

## 8. Plan

The modules were written in the order of what can be lost: documents
(`Upload`), sessions (`Sessions`, `SessionCleanup`), shared rows
(`OptimisticRows`, `Cases`, `Batches`), the browser (`WebSession`), who may act
(`Tenancy`, `Login`) and the rest of the documents (`Library`).  What is left:

1. `BrowserSessions`: `WebSession` composed with `RotatingTokens`, which `Sessions`
   is shown to implement; a refresh started after
   `selectOrganization` dropped the shared promise, and a second tab.
2. `WebPages`: the version and the idempotency key that pages quote, to replace the
   assumption `SerialKeys` by what `DocumentsPage.tsx` does.

## 9. How to run

    tlc -workers 2 -config MCUpload_race.cfg MCUpload
    tlapm UploadProofs.tla

Every `MC*_*.cfg` names its run; each finishes within three minutes on two cores,
and each proof module within five.
