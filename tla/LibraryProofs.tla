---------------------------- MODULE LibraryProofs ----------------------------
(***************************************************************************)
(* Proofs about the document library, for any number of calls, tenants and *)
(* contents.                                                               *)
(*                                                                         *)
(* An archived document is frozen, and the status of a document is that of *)
(* its current version (LibraryInv): both rest on what a call that holds   *)
(* the row lock knows (Stage), on the locks excluding each other           *)
(* (Exclusive), and on a lock_version of 1 being exactly a document as it  *)
(* was inserted (RowsSound): that is why the UPDATE with which an upload   *)
(* settles spares a document that was archived, or given another version,  *)
(* meanwhile.                                                              *)
(*                                                                         *)
(* Above it (LibraryFacts) the trail counts the versions of a document and *)
(* the changes of its row, a duplicate that was reported is there, and no  *)
(* answer leaves its tenant or document: these rest on the unique          *)
(* constraints holding of what is inserted and not committed, too          *)
(* (Distinct), and on the versions a call has counted staying the same     *)
(* while it holds the lock (Asked).                                        *)
(***************************************************************************)
EXTENDS Library, FiniteSetTheorems, TLAPS

-----------------------------------------------------------------------------
(* The tables refer to each other, within one tenant.                      *)
SoundDoc(d) ==
    IF docs[d].status = "absent" THEN docs[d] = NoDoc
    ELSE /\ docs[d].org \in Tenants
         /\ docs[d].current \in Requests
         /\ versions[docs[d].current].doc = d
         /\ versions[docs[d].current].org = docs[d].org
         /\ docs[d].lock > 0
         /\ docs[d].lock = 1 => docs[d] = NewDocument(docs[d].org, d)

SoundVersion(v) ==
    IF versions[v].org = None THEN versions[v] = NoVersion
    ELSE /\ versions[v].doc \in Existing
         /\ docs[versions[v].doc].org = versions[v].org

RowsSound == \A i \in Requests : SoundDoc(i) /\ SoundVersion(i)

(* A call that has not committed rows has none.                            *)
Fresh ==
    \A r \in Requests : pc[r] \notin {"promote", "done", "crashed"} =>
        docs[r] = NoDoc /\ versions[r] = NoVersion

Holding == {"version", "version_inserted", "archive"}

(* No two calls hold the lock of one document.                             *)
Exclusive ==
    \A q, r \in Requests :
        q # r /\ pc[q] \in Holding /\ pc[r] \in Holding => cmd[q].doc # cmd[r].doc

(* What a call knows where it is.                                          *)
Stage(r) ==
    LET d == cmd[r].doc IN
    /\ pc[r] \in {"register", "doc_inserted"} =>
        /\ d = r /\ cmd[r].org \in Tenants
        /\ work[r].doc = NewDocument(cmd[r].org, r)
        /\ work[r].version = NewVersion(cmd[r].org, r, 1, cmd[r].content, "pending")
    /\ pc[r] = "promote" =>
        /\ r \in Existing
        /\ versions[r].doc = r
        /\ work[r].doc = NewDocument(docs[r].org, r)
        /\ docs[r].status = "archived" \/ docs[r].current # r \/ docs[r].lock = 1
    /\ pc[r] \in Holding =>
        d \in Existing /\ Mutable(docs[d]) /\ docs[d].org = cmd[r].org
    /\ pc[r] \in {"version", "version_inserted"} =>
        /\ work[r].doc = SetCurrentVersion(docs[d], r, work[r].version.storage)
        /\ work[r].version.doc = d /\ work[r].version.org = cmd[r].org
    /\ pc[r] = "archive" => work[r].doc = Archived(docs[d])
    /\ pc[r] = "lock" => d \in Existing /\ docs[d].org = cmd[r].org
    /\ pc[r] = "opened" =>
        /\ cmd[r].op \in {"versions", "artifacts", "download", "download_artifact"}
        /\ cmd[r].op = "download" => cmd[r].version \in Requests
    /\ pc[r] \in {"artifact", "artifact_inserted"} => d \in Requests

LibraryInv ==
    /\ TypeOK
    /\ RowsSound
    /\ Fresh
    /\ Exclusive
    /\ \A r \in Requests : Stage(r)
    /\ StatusTellsCurrentVersion

-----------------------------------------------------------------------------
(* Counting the versions of a document gives a number.                     *)
LEMMA VersionsCounted ==
    ASSUME NEW org, NEW d
    PROVE  Cardinality(ListVersions(org, d)) \in Nat
<1>1. ListVersions(org, d) \subseteq Requests
  BY DEF ListVersions
<1>2. IsFiniteSet(ListVersions(org, d))
  BY <1>1, FS_Subset, LibraryAssumption
<1> QED BY <1>2, FS_CardinalityType

(* What the transitions of the aggregate make of a row.                    *)
LEMMA Transitions ==
    ASSUME NEW row \in Doc, NEW v \in Requests, NEW s
    PROVE  /\ SetCurrentVersion(row, v, s) \in Doc
           /\ SetCurrentVersion(row, v, s).org = row.org
           /\ SetCurrentVersion(row, v, s).current = v
           /\ SetCurrentVersion(row, v, s).status =
                (IF s = "stored" THEN "stored" ELSE "registered")
           /\ SetCurrentVersion(row, v, s).lock = row.lock + 1
           /\ Archived(row) \in Doc
           /\ Archived(row).org = row.org
           /\ Archived(row).current = row.current
           /\ Archived(row).status = "archived"
           /\ Archived(row).lock = row.lock + 1
<1>1. row.lock + 1 \in Nat
  BY DEF Doc
<1>2. \A l \in Nat, t \in {"stored", "registered"} :
        LET new == [row EXCEPT !.current = v, !.status = t, !.lock = l] IN
        /\ new \in Doc /\ new.org = row.org /\ new.current = v
        /\ new.status = t /\ new.lock = l
  BY DEF Doc, Ids
<1>3. \A l \in Nat :
        LET new == [row EXCEPT !.status = "archived", !.lock = l] IN
        /\ new \in Doc /\ new.org = row.org /\ new.current = row.current
        /\ new.status = "archived" /\ new.lock = l
  BY DEF Doc, Ids
<1>4. (IF s = "stored" THEN "stored" ELSE "registered") \in {"stored", "registered"}
  OBVIOUS
<1>5. LET new == SetCurrentVersion(row, v, s) IN
      /\ new \in Doc /\ new.org = row.org /\ new.current = v
      /\ new.status = (IF s = "stored" THEN "stored" ELSE "registered")
      /\ new.lock = row.lock + 1
  BY <1>1, <1>2, <1>4, Zenon DEF SetCurrentVersion
<1>6. LET new == Archived(row) IN
      /\ new \in Doc /\ new.org = row.org /\ new.current = row.current
      /\ new.status = "archived" /\ new.lock = row.lock + 1
  BY <1>1, <1>3, Zenon DEF Archived
<1> QED BY <1>5, <1>6

LEMMA NewRows ==
    ASSUME NEW org \in Tenants, NEW d \in Requests, NEW n \in Nat,
           NEW c \in Contents, NEW s \in {"pending", "stored", "failed"}
    PROVE  NewDocument(org, d) \in Doc /\ NewVersion(org, d, n, c, s) \in Version
  BY DEF NewDocument, NewVersion, Doc, Version, Ids, Orgs

LEMMA NoRows == NoDoc \in Doc /\ NoVersion \in Version /\ NoArtifact \in Artifact
  BY DEF NoDoc, NoVersion, NoArtifact, Doc, Version, Artifact, Ids, Orgs

LEMMA NewWork ==
    /\ \A row \in Doc, version \in Version :
        /\ [NoWork EXCEPT !.doc = row, !.version = version] \in Work
        /\ [NoWork EXCEPT !.doc = row] \in Work
    /\ \A a \in Artifact : [NoWork EXCEPT !.artifact = a] \in Work
  BY NoRows DEF Work, NoWork

AnswersTyped == answer \in [Requests -> [code : Codes, ids : SUBSET Requests]]

LEMMA Returned ==
    ASSUME TypeOK, NEW r \in Requests, NEW code \in Codes, NEW ids \in SUBSET Requests,
           Return(r, code, ids)
    PROVE  pc' \in [Requests -> Places] /\ pc'[r] = "done" /\ AnswersTyped'
  BY DEF TypeOK, Return, Goto, AnswersTyped, Places

LEMMA Gone ==
    ASSUME TypeOK, NEW r \in Requests, NEW l \in Places, Goto(r, l)
    PROVE  pc' \in [Requests -> Places] /\ pc'[r] = l
  BY DEF TypeOK, Goto

(* No call but r has moved, and the two tables have not.                   *)
Moved(r) ==
    /\ UNCHANGED <<docs, versions>>
    /\ \A q \in Requests \ {r} : pc'[q] = pc[q] /\ cmd'[q] = cmd[q] /\ work'[q] = work[q]

Committed == {"promote", "done", "crashed"}

(* A step of one call that commits no row.                                 *)
LEMMA RequestStep ==
    ASSUME NEW r \in Requests, LibraryInv, TypeOK', Moved(r), Stage(r)',
           pc[r] \in Committed => pc'[r] \in Committed,
           pc'[r] \in Holding =>
             \A q \in Requests \ {r} : pc[q] \in Holding => cmd[q].doc # cmd'[r].doc
    PROVE  LibraryInv'
<1>1. RowsSound' /\ StatusTellsCurrentVersion'
  BY DEF LibraryInv, Moved, RowsSound, SoundDoc, SoundVersion, StatusTellsCurrentVersion, Existing
<1>2. Fresh'
  BY DEF LibraryInv, Moved, Fresh, Committed
<1>3. Exclusive'
  BY DEF LibraryInv, Moved, Exclusive
<1>4. \A q \in Requests \ {r} : Stage(q)'
  BY DEF LibraryInv, Moved, Stage, Existing
<1> QED BY <1>1, <1>2, <1>3, <1>4 DEF LibraryInv

(* A call that is over, or has nothing to remember.                        *)
LEMMA IdleStep ==
    ASSUME NEW r \in Requests, LibraryInv, TypeOK', Moved(r),
           pc[r] \in Committed => pc'[r] \in Committed,
           pc'[r] \in {"done", "crashed", "find_again"}
    PROVE  LibraryInv'
<1>1. Stage(r)' /\ pc'[r] \notin Holding
  BY DEF Stage, Holding
<1> QED BY <1>1, RequestStep

-----------------------------------------------------------------------------
LEMMA InitHolds == Init => LibraryInv
<1> SUFFICES ASSUME Init PROVE LibraryInv
  OBVIOUS
<1> USE DEF Init
<1>1. TypeOK
  <2>1. NoWork \in Work /\ NoCommand \in Command
    BY NoRows DEF NoWork, Work, NoCommand, Command, Ids, Orgs
  <2> QED BY <2>1, NoRows DEF TypeOK, Places, Codes
<1>2. RowsSound /\ Fresh /\ StatusTellsCurrentVersion
  BY DEF RowsSound, SoundDoc, SoundVersion, Fresh, StatusTellsCurrentVersion, Existing, NoDoc, NoVersion
<1>3. Exclusive /\ \A r \in Requests : Stage(r)
  BY DEF Exclusive, Stage, Holding
<1> QED BY <1>1, <1>2, <1>3 DEF LibraryInv

LEMMA FindContentStep ==
    ASSUME LibraryInv, NEW r \in Requests, NEW op \in {"register", "upload"},
           NEW org \in Tenants, NEW c \in Contents, FindContent(r, op, org, c)
    PROVE  LibraryInv'
<1> USE DEF LibraryInv
<1>1. Moved(r) /\ pc[r] = "idle"
  BY DEF FindContent, Receive, Goto, Return, Moved, TypeOK
<1>2. TypeOK'
  <2>1. cmd' \in [Requests -> Command]
    BY DEF FindContent, Receive, TypeOK, Command, NoCommand, Ids, Orgs
  <2>2. work' \in [Requests -> Work]
    <3>1. NewDocument(org, r) \in Doc /\ NewVersion(org, r, 1, c, "pending") \in Version
      BY NewRows
    <3>2. [NoWork EXCEPT !.doc = NewDocument(org, r),
                         !.version = NewVersion(org, r, 1, c, "pending")] \in Work
      BY <3>1, NewWork
    <3> QED BY <3>2 DEF FindContent, Return, TypeOK
  <2>3. /\ pc' \in [Requests -> Places]
        /\ AnswersTyped'
    <3>1. FindByContent(org, c) \subseteq Requests
      BY DEF FindByContent
    <3> QED BY <3>1, Returned, Gone DEF FindContent, TypeOK, Places, Codes, AnswersTyped
  <2> QED BY <2>1, <2>2, <2>3 DEF FindContent, TypeOK, AnswersTyped
<1>3. CASE pc'[r] = "done"
  BY <1>1, <1>2, <1>3, IdleStep DEF Committed
<1>4. CASE pc'[r] = "register"
  <2>1. Stage(r)'
    <3>1. /\ cmd'[r] = [NoCommand EXCEPT !.op = op, !.org = org, !.doc = r, !.content = c]
          /\ work'[r] = [NoWork EXCEPT !.doc = NewDocument(org, r),
                                       !.version = NewVersion(org, r, 1, c, "pending")]
      BY <1>4 DEF FindContent, Receive, Goto, Return, TypeOK
    <3>2. /\ cmd'[r].org = org /\ cmd'[r].doc = r /\ cmd'[r].content = c
          /\ work'[r].doc = NewDocument(org, r)
          /\ work'[r].version = NewVersion(org, r, 1, c, "pending")
      BY <3>1 DEF NoCommand, NoWork
    <3> QED BY <1>4, <3>2 DEF Stage, Holding
  <2> QED BY <1>1, <1>2, <1>4, <2>1, RequestStep DEF Committed, Holding
<1>5. pc'[r] \in {"done", "register"}
  BY DEF FindContent, Goto, Return, TypeOK
<1> QED BY <1>3, <1>4, <1>5

LEMMA CreateVersionStep ==
    ASSUME LibraryInv, NEW r \in Requests, NEW org \in Tenants, NEW d \in Requests,
           NEW c \in Contents, NEW s \in {"pending", "stored", "failed"},
           CreateVersion(r, org, d, c, s)
    PROVE  LibraryInv'
<1> DEFINE n == Cardinality(ListVersions(org, d)) + 1
           row == SetCurrentVersion(docs[d], r, s)
           version == NewVersion(org, d, n, c, s)
<1> USE DEF LibraryInv
<1>1. Moved(r) /\ pc[r] = "idle" /\ UNCHANGED <<artifacts, trail>>
  BY DEF CreateVersion, Receive, Goto, Return, Moved, TypeOK
<1>2. /\ cmd' \in [Requests -> Command]
      /\ cmd'[r].doc = d /\ cmd'[r].org = org
  BY DEF CreateVersion, Receive, TypeOK, Command, NoCommand, Ids, Orgs
<1>3. CASE ~Found(org, d) \/ ~Mutable(docs[d])
  <2>1. /\ pc' \in [Requests -> Places] /\ pc'[r] = "done" /\ UNCHANGED work
        /\ AnswersTyped'
    BY <1>3, Returned DEF CreateVersion, Codes
  <2>2. TypeOK'
    BY <1>1, <1>2, <2>1 DEF TypeOK, Moved, AnswersTyped
  <2> QED BY <1>1, <2>1, <2>2, IdleStep DEF Committed
<1>4. CASE Found(org, d) /\ Mutable(docs[d])
  <2>1. /\ work' = [work EXCEPT ![r] = [NoWork EXCEPT !.doc = row, !.version = version]]
        /\ pc' = [pc EXCEPT ![r] = "version"]
        /\ UNCHANGED answer
        /\ NotLocked(r, d)
    BY <1>4 DEF CreateVersion, Goto
  <2>2. row \in Doc /\ version \in Version
    <3>1. n \in Nat /\ docs[d] \in Doc
      BY VersionsCounted DEF TypeOK
    <3> QED BY <3>1, NewRows, Transitions
  <2>3. work' \in [Requests -> Work] /\ work'[r].doc = row /\ work'[r].version = version
    <3>1. [NoWork EXCEPT !.doc = row, !.version = version] \in Work
      BY <2>2, NewWork
    <3> HIDE DEF row, version
    <3> QED BY <2>1, <3>1 DEF TypeOK, NoWork
  <2>4. TypeOK'
    BY <1>1, <1>2, <2>1, <2>3 DEF TypeOK, Moved, Places
  <2>5. d \in Existing
    BY <1>4, LibraryAssumption DEF Found, Existing, RowsSound, SoundDoc, NoDoc
  <2>6. Stage(r)'
    <3>1. /\ pc'[r] = "version" /\ docs' = docs
          /\ version.doc = d /\ version.org = org /\ version.storage = s
      BY <1>1, <2>1 DEF TypeOK, Moved, NewVersion
    <3> HIDE DEF version
    <3> QED BY <1>2, <1>4, <2>3, <2>5, <3>1 DEF Stage, Holding, Found, Existing, Mutable
  <2>7. \A q \in Requests \ {r} : pc[q] \in Holding => cmd[q].doc # cmd'[r].doc
    BY <1>2, <2>1 DEF NotLocked, Holding
  <2> QED BY <1>1, <2>4, <2>6, <2>7, RequestStep DEF Committed
<1> QED BY <1>3, <1>4

(* Steps that write no row and remember nothing.                           *)
LEMMA AddDocumentStep ==
    ASSUME LibraryInv, NEW r \in Requests, AddDocument(r)
    PROVE  LibraryInv'
<1> USE DEF LibraryInv
<1>1. Moved(r) /\ pc[r] = "register" /\ UNCHANGED <<artifacts, trail, cmd, work, answer>>
  BY DEF AddDocument, Goto, Moved, TypeOK
<1>2. pc' \in [Requests -> Places] /\ pc'[r] \in {"doc_inserted", "find_again"}
  BY DEF AddDocument, Goto, TypeOK, Places
<1>3. TypeOK'
  BY <1>1, <1>2 DEF TypeOK, Moved, AnswersTyped
<1>4. Stage(r)' /\ pc'[r] \notin Holding
  BY <1>1, <1>2 DEF Stage, Holding
<1> QED BY <1>1, <1>3, <1>4, RequestStep DEF Committed

LEMMA AddVersionStep ==
    ASSUME LibraryInv, NEW r \in Requests, AddVersion(r)
    PROVE  LibraryInv'
<1> USE DEF LibraryInv
<1>1. Moved(r) /\ pc[r] = "version" /\ UNCHANGED <<artifacts, trail, cmd, work>>
  BY DEF AddVersion, Goto, Return, Moved, TypeOK
<1>2. /\ pc' \in [Requests -> Places] /\ pc'[r] \in {"version_inserted", "done"}
      /\ AnswersTyped'
  BY Returned, Gone DEF AddVersion, Codes, Places, TypeOK, AnswersTyped
<1>3. TypeOK'
  BY <1>1, <1>2 DEF TypeOK, Moved, AnswersTyped
<1>4. Stage(r)'
  BY <1>1, <1>2 DEF Stage, Holding, Moved, Existing
<1>5. \A q \in Requests \ {r} : pc[q] \in Holding => cmd[q].doc # cmd'[r].doc
  BY <1>1 DEF Exclusive, Holding
<1> QED BY <1>1, <1>3, <1>4, <1>5, RequestStep DEF Committed

LEMMA ReadLockVersionStep ==
    ASSUME LibraryInv, NEW r \in Requests, NEW org \in Tenants, NEW d \in Requests,
           ReadLockVersion(r, org, d)
    PROVE  LibraryInv'
<1> USE DEF LibraryInv
<1>1. Moved(r) /\ pc[r] = "idle" /\ UNCHANGED <<artifacts, trail, work>>
  BY DEF ReadLockVersion, Goto, Return, Moved, TypeOK
<1>2. /\ cmd' \in [Requests -> Command]
      /\ cmd'[r].doc = d /\ cmd'[r].org = org
  <2>1. docs[d].lock \in Nat
    BY DEF TypeOK, Doc
  <2>2. [NoCommand EXCEPT !.op = "archive", !.org = org, !.doc = d,
                          !.expected = docs[d].lock] \in Command
    BY <2>1 DEF NoCommand, Command, Ids, Orgs
  <2> QED BY <2>2 DEF ReadLockVersion, TypeOK, NoCommand
<1>3. /\ pc' \in [Requests -> Places] /\ pc'[r] \in {"lock", "done"}
      /\ pc'[r] = "lock" => Found(org, d)
      /\ AnswersTyped'
  BY Returned, Gone DEF ReadLockVersion, Codes, Places, TypeOK, AnswersTyped
<1>4. TypeOK'
  BY <1>1, <1>2, <1>3 DEF TypeOK, Moved, AnswersTyped
<1>5. Found(org, d) => d \in Existing
  BY LibraryAssumption DEF Found, Existing, RowsSound, SoundDoc, NoDoc
<1>6. Stage(r)' /\ pc'[r] \notin Holding
  BY <1>1, <1>2, <1>3, <1>5 DEF Stage, Holding, Moved, Existing, Found
<1> QED BY <1>1, <1>4, <1>6, RequestStep DEF Committed

LEMMA LockToArchiveStep ==
    ASSUME LibraryInv, NEW r \in Requests, LockToArchive(r)
    PROVE  LibraryInv'
<1> DEFINE d == cmd[r].doc
<1> USE DEF LibraryInv
<1>1. Moved(r) /\ pc[r] = "lock" /\ UNCHANGED <<artifacts, trail, cmd>>
  BY DEF LockToArchive, Goto, Return, Moved, TypeOK
<1>2. d \in Existing /\ docs[d].org = cmd[r].org /\ d \in Requests /\ docs[d] \in Doc
  BY <1>1 DEF Stage, Existing, TypeOK
<1>3. CASE docs[d].lock # cmd[r].expected \/ ~Mutable(docs[d])
  <2>1. /\ pc' \in [Requests -> Places] /\ pc'[r] = "done" /\ UNCHANGED work
        /\ AnswersTyped'
    BY <1>3, Returned DEF LockToArchive, Codes
  <2>2. TypeOK'
    BY <1>1, <2>1 DEF TypeOK, Moved, AnswersTyped
  <2> QED BY <1>1, <2>1, <2>2, IdleStep DEF Committed
<1>4. CASE docs[d].lock = cmd[r].expected /\ Mutable(docs[d])
  <2>1. /\ work' = [work EXCEPT ![r] = [NoWork EXCEPT !.doc = Archived(docs[d])]]
        /\ pc' = [pc EXCEPT ![r] = "archive"]
        /\ UNCHANGED answer
        /\ NotLocked(r, d)
    BY <1>4 DEF LockToArchive, Goto
  <2>2. Archived(docs[d]) \in Doc
    BY <1>2, Transitions
  <2>3. work' \in [Requests -> Work] /\ work'[r].doc = Archived(docs[d])
    <3>1. [NoWork EXCEPT !.doc = Archived(docs[d])] \in Work
      BY <2>2, NewWork, NoRows
    <3> QED BY <2>1, <3>1 DEF TypeOK, NoWork
  <2>4. TypeOK'
    BY <1>1, <2>1, <2>3 DEF TypeOK, Moved, Places
  <2>5. Stage(r)'
    <3>1. pc'[r] = "archive" /\ docs' = docs /\ cmd' = cmd
      BY <1>1, <2>1 DEF TypeOK, Moved
    <3> QED BY <1>2, <1>4, <2>3, <3>1 DEF Stage, Holding, Existing, Mutable
  <2>6. \A q \in Requests \ {r} : pc[q] \in Holding => cmd[q].doc # cmd'[r].doc
    BY <1>1, <2>1 DEF NotLocked, Holding
  <2> QED BY <1>1, <2>4, <2>5, <2>6, RequestStep DEF Committed
<1> QED BY <1>3, <1>4

LEMMA FindAgainStep ==
    ASSUME LibraryInv, NEW r \in Requests, FindAgain(r)
    PROVE  LibraryInv'
<1> USE DEF LibraryInv
<1>1. Moved(r) /\ pc[r] = "find_again" /\ UNCHANGED <<artifacts, trail, cmd, work>>
  BY DEF FindAgain, Goto, Return, Moved, TypeOK
<1>2. pc' \in [Requests -> Places] /\ pc'[r] = "done" /\ AnswersTyped'
  <2>1. FindByContent(cmd[r].org, cmd[r].content) \in SUBSET Requests
    BY DEF FindByContent
  <2> QED BY <2>1, Returned DEF FindAgain, Codes
<1>3. TypeOK'
  BY <1>1, <1>2 DEF TypeOK, Moved, AnswersTyped
<1> QED BY <1>1, <1>2, <1>3, IdleStep DEF Committed

LEMMA RegisterArtifactStep ==
    ASSUME LibraryInv, NEW r \in Requests, NEW org \in Tenants, NEW d \in Requests,
           NEW v \in Ids, NEW k \in Keys, RegisterArtifact(r, org, d, v, k)
    PROVE  LibraryInv'
<1> DEFINE a == [org |-> org, doc |-> d, version |-> v, key |-> k]
<1> USE DEF LibraryInv
<1>1. Moved(r) /\ pc[r] = "idle" /\ UNCHANGED <<artifacts, trail>>
  BY DEF RegisterArtifact, Goto, Return, Moved, TypeOK
<1>2. cmd' \in [Requests -> Command] /\ cmd'[r].doc = d
  BY DEF RegisterArtifact, TypeOK, Command, NoCommand, Ids, Orgs
<1>3. work' \in [Requests -> Work]
  <2>1. a \in Artifact
    BY DEF Artifact, Ids, Orgs
  <2>2. [NoWork EXCEPT !.artifact = a] \in Work
    BY <2>1, NewWork
  <2> QED BY <2>2 DEF RegisterArtifact, TypeOK
<1>4. /\ pc' \in [Requests -> Places] /\ pc'[r] \in {"artifact", "done"} /\ AnswersTyped'
  BY Returned, Gone DEF RegisterArtifact, Codes, Places, TypeOK, AnswersTyped
<1>5. TypeOK'
  BY <1>1, <1>2, <1>3, <1>4 DEF TypeOK, Moved, AnswersTyped
<1>6. Stage(r)' /\ pc'[r] \notin Holding
  BY <1>2, <1>4 DEF Stage, Holding
<1> QED BY <1>1, <1>5, <1>6, RequestStep DEF Committed

LEMMA AddArtifactStep ==
    ASSUME LibraryInv, NEW r \in Requests, AddArtifact(r)
    PROVE  LibraryInv'
<1> USE DEF LibraryInv
<1>1. Moved(r) /\ pc[r] = "artifact" /\ UNCHANGED <<artifacts, trail, cmd, work>>
  BY DEF AddArtifact, Goto, Return, Moved, TypeOK
<1>2. pc' \in [Requests -> Places] /\ pc'[r] \in {"artifact_inserted", "done"} /\ AnswersTyped'
  BY Returned, Gone DEF AddArtifact, Codes, Places, TypeOK, AnswersTyped
<1>3. TypeOK'
  BY <1>1, <1>2 DEF TypeOK, Moved, AnswersTyped
<1>4. Stage(r)' /\ pc'[r] \notin Holding
  BY <1>1, <1>2 DEF Stage, Holding
<1> QED BY <1>1, <1>3, <1>4, RequestStep DEF Committed

LEMMA CommitArtifactStep ==
    ASSUME LibraryInv, NEW r \in Requests, CommitArtifact(r)
    PROVE  LibraryInv'
<1> USE DEF LibraryInv
<1>1. Moved(r) /\ cmd[r].doc \in Requests /\ pc[r] = "artifact_inserted" /\ UNCHANGED <<cmd, work>>
  BY DEF CommitArtifact, Goto, Return, Moved, TypeOK, Stage
<1>2. pc' \in [Requests -> Places] /\ pc'[r] = "done" /\ AnswersTyped'
  BY Returned DEF CommitArtifact, Codes
<1>3. artifacts' \in [Requests -> Artifact]
  BY DEF CommitArtifact, TypeOK, Work
<1>4. trail' \subseteq {"registered", "version_created", "archived",
                        "artifact_registered"} \X Requests \X Requests
  BY <1>1 DEF CommitArtifact, Record, TypeOK
<1>5. TypeOK'
  BY <1>1, <1>2, <1>3, <1>4 DEF TypeOK, Moved, AnswersTyped
<1> QED BY <1>1, <1>2, <1>5, IdleStep DEF Committed

LEMMA OpenDocumentStep ==
    ASSUME LibraryInv, NEW r \in Requests, NEW org \in Tenants, NEW d \in Requests,
           NEW op \in {"versions", "artifacts", "download", "download_artifact"},
           NEW v \in Ids, OpenDocument(r, op, org, d, v)
    PROVE  LibraryInv'
<1> DEFINE c == [NoCommand EXCEPT
                   !.op = op, !.org = org, !.doc = d,
                   !.version = IF op = "download" /\ v = None THEN docs[d].current ELSE v]
<1> USE DEF LibraryInv
<1>1. Moved(r) /\ pc[r] = "idle" /\ UNCHANGED <<artifacts, trail, work>>
  BY DEF OpenDocument, Goto, Return, Moved, TypeOK
<1>2. /\ c \in Command /\ c.op = op
      /\ Found(org, d) /\ op = "download" => c.version \in Requests
  <2>1. docs[d].current \in Ids
    BY DEF TypeOK, Doc
  <2>2. Found(org, d) => docs[d].current \in Requests
    BY LibraryAssumption DEF Found, RowsSound, SoundDoc, NoDoc
  <2> QED BY <2>1, <2>2 DEF NoCommand, Command, Ids, Orgs
<1>3. cmd' = [cmd EXCEPT ![r] = c]
  BY DEF OpenDocument
<1> HIDE DEF c
<1>4. /\ pc' \in [Requests -> Places] /\ pc'[r] \in {"opened", "done"} /\ AnswersTyped'
      /\ pc'[r] = "opened" => Found(org, d)
  BY Returned, Gone DEF OpenDocument, Codes, Places, TypeOK, AnswersTyped
<1>5. TypeOK'
  BY <1>1, <1>2, <1>3, <1>4 DEF TypeOK, Moved, AnswersTyped
<1>6. Stage(r)' /\ pc'[r] \notin Holding
  BY <1>2, <1>3, <1>4 DEF Stage, Holding, TypeOK
<1> QED BY <1>1, <1>5, <1>6, RequestStep DEF Committed

LEMMA ReadOpenedStep ==
    ASSUME LibraryInv, NEW r \in Requests, ReadOpened(r)
    PROVE  LibraryInv'
<1> USE DEF LibraryInv
<1>1. /\ Moved(r) /\ pc[r] = "opened" /\ UNCHANGED <<artifacts, trail, cmd, work>>
      /\ cmd[r].op \in {"versions", "artifacts", "download", "download_artifact"}
      /\ cmd[r].op = "download" => cmd[r].version \in Requests
  <2>1. /\ cmd[r].op \in {"versions", "artifacts", "download", "download_artifact"}
        /\ cmd[r].op = "download" => cmd[r].version \in Requests
    BY DEF ReadOpened, Stage
  <2> QED BY <2>1 DEF ReadOpened, Goto, Return, Moved, TypeOK
<1>2. pc' \in [Requests -> Places] /\ pc'[r] = "done" /\ AnswersTyped'
  <2>1. PICK code \in Codes, ids \in SUBSET Requests : Return(r, code, ids)
    <3>1. /\ ListVersions(cmd[r].org, cmd[r].doc) \in SUBSET Requests
          /\ ListArtifacts(cmd[r].org, cmd[r].doc) \in SUBSET Requests
      BY DEF ListVersions, ListArtifacts
    <3>2. {"ok", "not_found"} \subseteq Codes
      BY DEF Codes
    <3>3. CASE cmd[r].op = "versions"
      BY <3>1, <3>2, <3>3 DEF ReadOpened
    <3>4. CASE cmd[r].op = "artifacts"
      BY <3>1, <3>2, <3>4 DEF ReadOpened
    <3>5. CASE cmd[r].op = "download"
      BY <1>1, <3>2, <3>5 DEF ReadOpened
    <3>6. CASE cmd[r].op = "download_artifact"
      BY <3>1, <3>2, <3>6 DEF ReadOpened
    <3> QED BY <1>1, <3>3, <3>4, <3>5, <3>6
  <2> QED BY <2>1, Returned
<1>3. TypeOK'
  BY <1>1, <1>2 DEF TypeOK, Moved, AnswersTyped
<1> QED BY <1>1, <1>2, <1>3, IdleStep DEF Committed

LEMMA ReadDocumentsStep ==
    ASSUME LibraryInv, NEW r \in Requests, NEW org \in Tenants, NEW archived \in BOOLEAN,
           ReadDocuments(r, org, archived)
    PROVE  LibraryInv'
<1> USE DEF LibraryInv
<1>1. Moved(r) /\ pc[r] = "idle" /\ UNCHANGED <<artifacts, trail, work>>
  BY DEF ReadDocuments, Receive, Goto, Return, Moved, TypeOK
<1>2. cmd' \in [Requests -> Command]
  BY DEF ReadDocuments, Receive, TypeOK, Command, NoCommand, Ids, Orgs
<1>3. pc' \in [Requests -> Places] /\ pc'[r] = "done" /\ AnswersTyped'
  <2>1. ListDocuments(org, archived) \in SUBSET Requests
    BY DEF ListDocuments
  <2> QED BY <2>1, Returned DEF ReadDocuments, Codes
<1>4. TypeOK'
  BY <1>1, <1>2, <1>3 DEF TypeOK, Moved, AnswersTyped
<1> QED BY <1>1, <1>3, <1>4, IdleStep DEF Committed

LEMMA CrashStep ==
    ASSUME LibraryInv, NEW r \in Requests, Crash(r)
    PROVE  LibraryInv'
<1> USE DEF LibraryInv
<1>1. Moved(r) /\ UNCHANGED <<artifacts, trail, cmd, work, answer>>
  BY DEF Crash, Goto, Moved, TypeOK
<1>2. pc' \in [Requests -> Places] /\ pc'[r] = "crashed"
  BY Gone DEF Crash, Places
<1>3. TypeOK'
  BY <1>1, <1>2 DEF TypeOK, Moved
<1> QED BY <1>1, <1>2, <1>3, IdleStep DEF Committed

-----------------------------------------------------------------------------
(* Steps that commit rows.                                                 *)
LEMMA CommitDocumentStep ==
    ASSUME LibraryInv, NEW r \in Requests, CommitDocument(r)
    PROVE  LibraryInv'
<1> DEFINE row == NewDocument(cmd[r].org, r)
           version == NewVersion(cmd[r].org, r, 1, cmd[r].content, "pending")
<1> USE DEF LibraryInv
<1>1. /\ pc[r] = "doc_inserted" /\ cmd[r].org \in Tenants
      /\ work[r].doc = row /\ work[r].version = version
      /\ docs[r] = NoDoc /\ versions[r] = NoVersion
  BY DEF CommitDocument, Stage, Fresh
<1>2. /\ docs' = [docs EXCEPT ![r] = row] /\ versions' = [versions EXCEPT ![r] = version]
      /\ UNCHANGED <<artifacts, cmd, work>>
      /\ row \in Doc /\ version \in Version
  BY <1>1 DEF CommitDocument, TypeOK, Work
<1>3. /\ row.org = cmd[r].org /\ row.status = "registered" /\ row.current = r /\ row.lock = 1
      /\ version.org = cmd[r].org /\ version.doc = r /\ version.storage = "pending"
  BY DEF NewDocument, NewVersion
<1>4. /\ pc' \in [Requests -> Places] /\ pc'[r] \in {"promote", "done"} /\ AnswersTyped'
      /\ trail' \subseteq {"registered", "version_created", "archived",
                           "artifact_registered"} \X Requests \X Requests
      /\ \A q \in Requests \ {r} : pc'[q] = pc[q]
  <2>1. CASE cmd[r].op = "upload"
    BY <2>1, Gone DEF CommitDocument, TypeOK, Places, AnswersTyped, Goto
  <2>2. CASE cmd[r].op # "upload"
    BY <2>2, Returned, SMTT(30) DEF CommitDocument, TypeOK, Codes, Record, Return, Goto
  <2> QED BY <2>1, <2>2
<1> HIDE DEF row, version
<1>5. TypeOK'
  BY <1>2, <1>4 DEF TypeOK, AnswersTyped
<1>6. docs'[r] = row /\ versions'[r] = version
  BY <1>2 DEF TypeOK
<1>7. \A q \in Requests \ {r} : docs'[q] = docs[q] /\ versions'[q] = versions[q]
  BY <1>2 DEF TypeOK
<1>8. \A d \in Existing : d # r /\ docs[d].current # r /\ docs[d].current \in Requests
  BY <1>1, LibraryAssumption DEF Existing, NoDoc, NoVersion, RowsSound, SoundDoc
<1>9. \A d \in Requests \ {r} : d \in Existing' <=> d \in Existing
  BY <1>7 DEF Existing
<1>10. r \in Existing'
  BY <1>3, <1>6 DEF Existing
<1>11. RowsSound'
  <2>1. SoundDoc(r)' /\ SoundVersion(r)'
    <3>1. row = NewDocument(row.org, r)
      BY <1>3 DEF row
    <3> QED BY <1>1, <1>3, <1>6, <1>10, <3>1, LibraryAssumption DEF SoundDoc, SoundVersion
  <2>2. ASSUME NEW i \in Requests \ {r} PROVE SoundDoc(i)' /\ SoundVersion(i)'
    <3>1. SoundDoc(i)'
      BY <1>7, <1>8 DEF RowsSound, SoundDoc, Existing
    <3>2. versions[i].org # None => versions[i].doc \in Existing
      BY DEF RowsSound, SoundVersion
    <3>3. SoundVersion(i)'
      BY <1>7, <1>8, <1>9, <3>2 DEF RowsSound, SoundVersion, Existing
    <3> QED BY <3>1, <3>3
  <2> QED BY <2>1, <2>2 DEF RowsSound
<1>12. Fresh' /\ Exclusive'
  BY <1>2, <1>4, <1>7 DEF Fresh, Exclusive, Holding
<1>13. \A q \in Requests : Stage(q)'
  <2>1. Stage(r)'
    BY <1>2, <1>3, <1>4, <1>6, <1>10, <1>1 DEF Stage, Holding, row
  <2>2. ASSUME NEW q \in Requests \ {r} PROVE Stage(q)'
    <3>1. pc'[q] = pc[q] /\ cmd' = cmd /\ work' = work /\ Stage(q)
      BY <1>2, <1>4
    <3>2. cmd[q].doc \in Existing => cmd[q].doc \in Existing' /\ docs'[cmd[q].doc] = docs[cmd[q].doc]
      BY <1>7, <1>8, <1>9 DEF Existing
    <3> QED BY <3>1, <3>2, <1>7, <1>9 DEF Stage, Holding
  <2> QED BY <2>1, <2>2
<1>14. StatusTellsCurrentVersion'
  <2>1. SUFFICES ASSUME NEW d \in Existing', docs'[d].status # "archived"
                 PROVE  LET storage == versions'[docs'[d].current].storage IN
                        /\ docs'[d].status = "stored" <=> storage = "stored"
                        /\ docs'[d].status = "failed" => storage = "failed"
    BY DEF StatusTellsCurrentVersion
  <2>2. CASE d = r
    BY <2>2, <1>3, <1>6
  <2>3. CASE d # r
    <3>1. d \in Existing /\ d \in Requests
      BY <1>9, <2>3 DEF Existing
    <3> QED BY <1>7, <1>8, <2>1, <2>3, <3>1 DEF StatusTellsCurrentVersion
  <2> QED BY <2>2, <2>3
<1> QED BY <1>5, <1>11, <1>12, <1>13, <1>14

LEMMA CommitVersionStep ==
    ASSUME LibraryInv, NEW r \in Requests, CommitVersion(r)
    PROVE  LibraryInv'
<1> DEFINE d == cmd[r].doc
           row == work[r].doc
           version == work[r].version
<1> USE DEF LibraryInv
<1>1. /\ pc[r] = "version_inserted" /\ d \in Existing /\ d \in Requests /\ d # r
      /\ docs[d] \in Doc /\ Mutable(docs[d])
      /\ row = SetCurrentVersion(docs[d], r, version.storage)
      /\ version.doc = d /\ version.org = docs[d].org
      /\ versions[r] = NoVersion
  BY DEF CommitVersion, Stage, Fresh, Holding, Existing, TypeOK, NoDoc
<1>2. /\ row.org = docs[d].org /\ row.current = r /\ row.lock = docs[d].lock + 1
      /\ row.status = (IF version.storage = "stored" THEN "stored" ELSE "registered")
      /\ row \in Doc /\ version \in Version
      /\ docs[d].lock \in Nat /\ docs[d].lock > 0 /\ docs[d].org \in Tenants
  <2>1. /\ docs[d].lock \in Nat /\ docs[d].lock > 0 /\ docs[d].org \in Tenants
        /\ version \in Version
    BY <1>1 DEF RowsSound, SoundDoc, Existing, TypeOK, Doc, Work
  <2> QED BY <1>1, <2>1, Transitions
<1>3. /\ docs' = [docs EXCEPT ![d] = row] /\ versions' = [versions EXCEPT ![r] = version]
      /\ UNCHANGED <<artifacts, cmd, work>>
  BY <1>2 DEF CommitVersion, PersistDocumentState
<1>4. /\ pc' \in [Requests -> Places] /\ pc'[r] = "done" /\ AnswersTyped'
      /\ trail' \subseteq {"registered", "version_created", "archived",
                           "artifact_registered"} \X Requests \X Requests
      /\ \A q \in Requests \ {r} : pc'[q] = pc[q]
  <2>1. Return(r, "ok", {r}) /\ {r} \in SUBSET Requests /\ "ok" \in Codes
    BY DEF CommitVersion, Codes
  <2>2. pc' \in [Requests -> Places] /\ pc'[r] = "done" /\ AnswersTyped'
    BY <2>1, Returned
  <2>3. trail' = trail \cup {<<"version_created", r, d>>}
    BY DEF CommitVersion, Record
  <2>4. \A q \in Requests \ {r} : pc'[q] = pc[q]
    BY <2>1 DEF Return, Goto, TypeOK
  <2> QED BY <1>1, <2>2, <2>3, <2>4 DEF TypeOK
<1> HIDE DEF row, version
<1>5. TypeOK'
  BY <1>2, <1>3, <1>4 DEF TypeOK, AnswersTyped
<1>6. /\ docs'[d] = row /\ \A i \in Requests \ {d} : docs'[i] = docs[i]
      /\ versions'[r] = version /\ \A i \in Requests \ {r} : versions'[i] = versions[i]
  BY <1>1, <1>3 DEF TypeOK
<1>7. \A i \in Existing : docs[i].current # r /\ docs[i].current \in Requests
  BY <1>1, LibraryAssumption DEF Existing, NoVersion, RowsSound, SoundDoc
<1>8. Existing' = Existing
  BY <1>1, <1>2, <1>6 DEF Existing
<1>9. RowsSound'
  <2>1. ASSUME NEW i \in Requests PROVE SoundDoc(i)'
    <3>1. CASE i = d
      BY <3>1, <1>1, <1>2, <1>6 DEF SoundDoc
    <3>2. CASE i # d
      BY <3>2, <1>6, <1>7 DEF RowsSound, SoundDoc, Existing
    <3> QED BY <3>1, <3>2
  <2>2. ASSUME NEW i \in Requests PROVE SoundVersion(i)'
    <3>1. CASE i = r
      BY <3>1, <1>1, <1>2, <1>6, <1>8, LibraryAssumption DEF SoundVersion
    <3>2. CASE i # r
      <4>1. versions'[i] = versions[i] /\ SoundVersion(i)
        BY <3>2, <1>6 DEF RowsSound
      <4>2. \A k \in Requests : docs'[k].org = docs[k].org
        BY <1>2, <1>6
      <4>3. versions[i].org # None => versions[i].doc \in Requests
        BY <4>1 DEF SoundVersion, Existing
      <4> QED BY <1>8, <4>1, <4>2, <4>3 DEF SoundVersion
    <3> QED BY <3>1, <3>2
  <2> QED BY <2>1, <2>2 DEF RowsSound
<1>10. Fresh' /\ Exclusive'
  <2>1. Fresh'
    <3>1. ASSUME NEW q \in Requests, pc'[q] \notin Committed
          PROVE  docs'[q] = NoDoc /\ versions'[q] = NoVersion
      <4>1. q # r /\ pc'[q] = pc[q] /\ docs[q] = NoDoc /\ versions[q] = NoVersion
        BY <1>4, <3>1 DEF Fresh, Committed
      <4>2. q # d
        BY <1>1, <4>1 DEF Existing, NoDoc
      <4> QED BY <1>6, <4>1, <4>2
    <3> QED BY <3>1 DEF Fresh, Committed
  <2>2. Exclusive'
    BY <1>3, <1>4 DEF Exclusive, Holding
  <2> QED BY <2>1, <2>2
<1>11. \A q \in Requests : Stage(q)'
  <2>1. Stage(r)'
    BY <1>4 DEF Stage, Holding
  <2>2. ASSUME NEW q \in Requests \ {r} PROVE Stage(q)'
    <3>1. /\ pc'[q] = pc[q] /\ cmd' = cmd /\ work' = work /\ Stage(q)
          /\ versions'[q] = versions[q]
      BY <1>3, <1>4, <1>6
    <3>2. pc[q] \in Holding => cmd[q].doc # d /\ docs'[cmd[q].doc] = docs[cmd[q].doc]
      BY <1>1, <1>6, <3>1 DEF Exclusive, Holding, Stage, Existing
    <3>3. pc[q] = "lock" => docs'[cmd[q].doc].org = docs[cmd[q].doc].org
      BY <1>2, <1>6, <3>1 DEF Stage, Existing
    <3>4. pc[q] = "promote" =>
            /\ docs'[q].org = docs[q].org
            /\ docs'[q].status = "archived" \/ docs'[q].current # q \/ docs'[q].lock = 1
      BY <1>2, <1>6, <3>1 DEF Stage
    <3> QED BY <1>8, <3>1, <3>2, <3>3, <3>4 DEF Stage, Holding
  <2> QED BY <2>1, <2>2
<1>12. StatusTellsCurrentVersion'
  <2>1. SUFFICES ASSUME NEW i \in Existing', docs'[i].status # "archived"
                 PROVE  LET storage == versions'[docs'[i].current].storage IN
                        /\ docs'[i].status = "stored" <=> storage = "stored"
                        /\ docs'[i].status = "failed" => storage = "failed"
    BY DEF StatusTellsCurrentVersion
  <2>2. CASE i = d
    BY <2>2, <1>2, <1>6
  <2>3. CASE i # d
    <3>1. i \in Existing /\ i \in Requests
      BY <1>8 DEF Existing
    <3> QED BY <1>6, <1>7, <2>1, <2>3, <3>1 DEF StatusTellsCurrentVersion
  <2> QED BY <2>2, <2>3
<1> QED BY <1>5, <1>9, <1>10, <1>11, <1>12

LEMMA CommitArchiveStep ==
    ASSUME LibraryInv, NEW r \in Requests, CommitArchive(r)
    PROVE  LibraryInv'
<1> DEFINE d == cmd[r].doc
           row == work[r].doc
<1> USE DEF LibraryInv
<1>1. /\ pc[r] = "archive" /\ d \in Existing /\ d \in Requests
      /\ docs[d] \in Doc /\ row = Archived(docs[d])
      /\ docs[d].lock \in Nat /\ docs[d].lock > 0 /\ docs[d].org \in Tenants
  <2>1. pc[r] = "archive" /\ d \in Existing /\ d \in Requests /\ row = Archived(docs[d])
    BY DEF CommitArchive, Stage, Holding, Existing
  <2> QED BY <2>1 DEF RowsSound, SoundDoc, Existing, TypeOK, Doc
<1>2. /\ row.org = docs[d].org /\ row.current = docs[d].current
      /\ row.lock = docs[d].lock + 1 /\ row.status = "archived" /\ row \in Doc
  BY <1>1, Transitions
<1>3. /\ docs' = [docs EXCEPT ![d] = row] /\ UNCHANGED <<versions, artifacts, cmd, work>>
  BY <1>1, <1>2 DEF CommitArchive, PersistDocumentState
<1>4. /\ pc' \in [Requests -> Places] /\ pc'[r] = "done" /\ AnswersTyped'
      /\ trail' \subseteq {"registered", "version_created", "archived",
                           "artifact_registered"} \X Requests \X Requests
      /\ \A q \in Requests \ {r} : pc'[q] = pc[q]
  <2>1. Return(r, "ok", {d}) /\ {d} \in SUBSET Requests /\ "ok" \in Codes
    BY <1>1 DEF CommitArchive, Codes
  <2>2. pc' \in [Requests -> Places] /\ pc'[r] = "done" /\ AnswersTyped'
    BY <2>1, Returned
  <2>3. trail' = trail \cup {<<"archived", r, d>>}
    BY DEF CommitArchive, Record
  <2>4. \A q \in Requests \ {r} : pc'[q] = pc[q]
    BY <2>1 DEF Return, Goto, TypeOK
  <2> QED BY <1>1, <2>2, <2>3, <2>4 DEF TypeOK
<1> HIDE DEF row
<1>5. TypeOK'
  BY <1>2, <1>3, <1>4 DEF TypeOK, AnswersTyped
<1>6. docs'[d] = row /\ \A i \in Requests \ {d} : docs'[i] = docs[i]
  BY <1>1, <1>3 DEF TypeOK
<1>7. Existing' = Existing
  BY <1>1, <1>2, <1>6 DEF Existing
<1>8. RowsSound'
  <2>1. ASSUME NEW i \in Requests PROVE SoundDoc(i)'
    <3>1. CASE i = d
      BY <3>1, <1>1, <1>2, <1>3, <1>6 DEF RowsSound, SoundDoc, Existing
    <3>2. CASE i # d
      BY <3>2, <1>3, <1>6 DEF RowsSound, SoundDoc
    <3> QED BY <3>1, <3>2
  <2>2. ASSUME NEW i \in Requests PROVE SoundVersion(i)'
    <3>1. SoundVersion(i) /\ versions' = versions
      BY <1>3 DEF RowsSound
    <3>2. \A k \in Requests : docs'[k].org = docs[k].org
      BY <1>2, <1>6
    <3>3. versions[i].org # None => versions[i].doc \in Requests
      BY <3>1 DEF SoundVersion, Existing
    <3> QED BY <1>7, <3>1, <3>2, <3>3 DEF SoundVersion
  <2> QED BY <2>1, <2>2 DEF RowsSound
<1>9. Fresh' /\ Exclusive'
  <2>1. Fresh'
    <3>1. ASSUME NEW q \in Requests, pc'[q] \notin Committed
          PROVE  docs'[q] = NoDoc /\ versions'[q] = NoVersion
      <4>1. q # r /\ pc'[q] = pc[q] /\ docs[q] = NoDoc /\ versions[q] = NoVersion
        BY <1>4, <3>1 DEF Fresh, Committed
      <4>2. q # d
        BY <1>1, <4>1 DEF Existing, NoDoc
      <4> QED BY <1>3, <1>6, <4>1, <4>2
    <3> QED BY <3>1 DEF Fresh, Committed
  <2>2. Exclusive'
    BY <1>3, <1>4 DEF Exclusive, Holding
  <2> QED BY <2>1, <2>2
<1>10. \A q \in Requests : Stage(q)'
  <2>1. Stage(r)'
    BY <1>4 DEF Stage, Holding
  <2>2. ASSUME NEW q \in Requests \ {r} PROVE Stage(q)'
    <3>1. pc'[q] = pc[q] /\ cmd' = cmd /\ work' = work /\ Stage(q) /\ versions' = versions
      BY <1>3, <1>4
    <3>2. pc[q] \in Holding => cmd[q].doc # d /\ docs'[cmd[q].doc] = docs[cmd[q].doc]
      BY <1>1, <1>6, <3>1 DEF Exclusive, Holding, Stage, Existing
    <3>3. pc[q] = "lock" => docs'[cmd[q].doc].org = docs[cmd[q].doc].org
      BY <1>2, <1>6, <3>1 DEF Stage, Existing
    <3>4. pc[q] = "promote" =>
            /\ docs'[q].org = docs[q].org
            /\ docs'[q].status = "archived" \/ docs'[q].current # q \/ docs'[q].lock = 1
      BY <1>2, <1>6, <3>1 DEF Stage
    <3> QED BY <1>7, <3>1, <3>2, <3>3, <3>4 DEF Stage, Holding
  <2> QED BY <2>1, <2>2
<1>11. StatusTellsCurrentVersion'
  BY <1>1, <1>2, <1>3, <1>6, <1>7 DEF StatusTellsCurrentVersion, Existing
<1> QED BY <1>5, <1>8, <1>9, <1>10, <1>11

(* The row an upload was inserted with, when it is settled.                *)
LEMMA SettledRow ==
    ASSUME NEW row \in Doc, row.lock = 1, NEW s \in {"stored", "failed"}
    PROVE  LET new == [row EXCEPT !.status = s, !.lock = @ + 1] IN
           /\ new \in Doc /\ new.org = row.org /\ new.current = row.current
           /\ new.status = s /\ new.lock = 2
<1>1. \A l \in Nat :
        LET new == [row EXCEPT !.status = s, !.lock = l] IN
        /\ new \in Doc /\ new.org = row.org /\ new.current = row.current
        /\ new.status = s /\ new.lock = l
  BY DEF Doc
<1>2. row.lock + 1 \in Nat /\ row.lock + 1 = 2
  OBVIOUS
<1> QED BY <1>1, <1>2, Zenon

LEMMA SettleUploadStep ==
    ASSUME LibraryInv, NEW r \in Requests, NEW s \in {"stored", "failed"},
           SettleUpload(r, s)
    PROVE  LibraryInv'
<1> DEFINE row == [work[r].doc EXCEPT !.status = s, !.lock = @ + 1]
<1> USE DEF LibraryInv
<1>1. /\ pc[r] = "promote" /\ NotLocked(r, r) /\ r \in Existing /\ versions[r].doc = r
      /\ work[r].doc = NewDocument(docs[r].org, r)
      /\ docs[r].status = "archived" \/ docs[r].current # r \/ docs[r].lock = 1
      /\ docs[r] \in Doc /\ versions[r] \in Version
  BY DEF SettleUpload, Stage, TypeOK
<1>2. /\ row \in Doc /\ row.org = docs[r].org /\ row.status = s /\ row.current = r
      /\ row.lock = 2
  <2>1. /\ work[r].doc \in Doc /\ work[r].doc.lock = 1
        /\ work[r].doc.org = docs[r].org /\ work[r].doc.current = r
    BY <1>1 DEF TypeOK, Work, NewDocument
  <2> QED BY <2>1, SettledRow
<1>3. /\ docs' = IF docs[r].lock = 1 THEN [docs EXCEPT ![r] = row] ELSE docs
      /\ versions' = [versions EXCEPT ![r].storage = s]
      /\ UNCHANGED <<artifacts, trail, cmd, work>>
  <2>1. docs' = PersistDocumentState(r, row)
    BY DEF SettleUpload
  <2>2. versions' = [versions EXCEPT ![r].storage = s] /\ UNCHANGED <<artifacts, trail, cmd, work>>
    BY DEF SettleUpload
  <2> HIDE DEF row
  <2> QED BY <1>2, <2>1, <2>2 DEF PersistDocumentState
<1>4. /\ pc' \in [Requests -> Places] /\ pc'[r] = "done" /\ AnswersTyped'
      /\ \A q \in Requests \ {r} : pc'[q] = pc[q]
  <2>1. PICK code \in Codes, ids \in SUBSET Requests : Return(r, code, ids)
    <3>1. /\ "ok" \in Codes /\ "unavailable" \in Codes
          /\ {r} \in SUBSET Requests /\ {} \in SUBSET Requests
      BY DEF Codes
    <3> QED BY <3>1 DEF SettleUpload
  <2>2. pc' \in [Requests -> Places] /\ pc'[r] = "done" /\ AnswersTyped'
    BY <2>1, Returned
  <2>3. \A q \in Requests \ {r} : pc'[q] = pc[q]
    BY <2>1 DEF Return, Goto, TypeOK
  <2> QED BY <2>2, <2>3
<1> HIDE DEF row
<1>5. /\ versions' \in [Requests -> Version]
      /\ versions'[r].storage = s
      /\ \A i \in Requests : versions'[i].org = versions[i].org /\ versions'[i].doc = versions[i].doc
      /\ \A i \in Requests \ {r} : versions'[i] = versions[i]
  BY <1>1, <1>3 DEF TypeOK, Version
<1>6. /\ docs'[r] = IF docs[r].lock = 1 THEN row ELSE docs[r]
      /\ \A i \in Requests \ {r} : docs'[i] = docs[i]
      /\ docs' \in [Requests -> Doc]
  BY <1>3, <1>2 DEF TypeOK
<1>7. TypeOK'
  BY <1>3, <1>4, <1>5, <1>6 DEF TypeOK, AnswersTyped
<1>8. /\ Existing' = Existing
      /\ \A i \in Requests : docs'[i].org = docs[i].org
  BY <1>1, <1>2, <1>6 DEF Existing
<1>9. docs[r].lock = 1 => docs[r].org \in Tenants
  BY <1>1 DEF RowsSound, SoundDoc, Existing
<1>10. RowsSound'
  <2>1. ASSUME NEW i \in Requests PROVE SoundDoc(i)'
    <3>1. CASE i = r /\ docs[r].lock = 1
      <4>1. /\ docs'[i] = row /\ versions'[r].doc = r
            /\ versions'[r].org = docs[r].org
        BY <1>1, <1>5, <1>6, <3>1 DEF RowsSound, SoundDoc, Existing, NewDocument
      <4> QED BY <3>1, <4>1, <1>2, <1>9 DEF SoundDoc
    <3>2. CASE i # r \/ docs[r].lock # 1
      <4>1. docs'[i] = docs[i] /\ SoundDoc(i)
        BY <3>2, <1>6 DEF RowsSound
      <4> QED BY <4>1, <1>5 DEF SoundDoc
    <3> QED BY <3>1, <3>2
  <2>2. ASSUME NEW i \in Requests PROVE SoundVersion(i)'
    <3>1. SoundVersion(i)
      BY DEF RowsSound
    <3>2. CASE versions[i].org = None
      <4>1. i # r
        BY <3>1, <3>2, <1>1, LibraryAssumption DEF SoundVersion, NoVersion
      <4> QED BY <3>1, <3>2, <4>1, <1>5 DEF SoundVersion
    <3>3. CASE versions[i].org # None
      <4>1. versions[i].doc \in Existing /\ versions[i].doc \in Requests
        BY <3>1, <3>3 DEF SoundVersion, Existing
      <4> QED BY <3>1, <3>3, <4>1, <1>5, <1>8 DEF SoundVersion
    <3> QED BY <3>2, <3>3
  <2> QED BY <2>1, <2>2 DEF RowsSound
<1>11. Fresh' /\ Exclusive'
  BY <1>3, <1>4, <1>5, <1>6 DEF Fresh, Exclusive, Holding
<1>12. \A q \in Requests : Stage(q)'
  <2>1. Stage(r)'
    BY <1>4 DEF Stage, Holding
  <2>2. ASSUME NEW q \in Requests \ {r} PROVE Stage(q)'
    <3>1. /\ pc'[q] = pc[q] /\ cmd' = cmd /\ work' = work /\ Stage(q)
          /\ versions'[q] = versions[q] /\ docs'[q] = docs[q]
      BY <1>3, <1>4, <1>5, <1>6
    <3>2. pc[q] \in Holding => docs'[cmd[q].doc] = docs[cmd[q].doc]
      BY <1>1, <1>6, <3>1 DEF NotLocked, Holding, Stage, Existing
    <3>3. pc[q] = "lock" => docs'[cmd[q].doc].org = docs[cmd[q].doc].org
      BY <1>8, <3>1 DEF Stage, Existing
    <3> QED BY <1>8, <3>1, <3>2, <3>3 DEF Stage, Holding
  <2> QED BY <2>1, <2>2
<1>13. StatusTellsCurrentVersion'
  <2>1. SUFFICES ASSUME NEW i \in Existing', docs'[i].status # "archived"
                 PROVE  LET storage == versions'[docs'[i].current].storage IN
                        /\ docs'[i].status = "stored" <=> storage = "stored"
                        /\ docs'[i].status = "failed" => storage = "failed"
    BY DEF StatusTellsCurrentVersion
  <2>2. i \in Existing /\ i \in Requests
    BY <1>8 DEF Existing
  <2>3. CASE i = r /\ docs[r].lock = 1
    BY <2>3, <1>2, <1>5, <1>6
  <2>4. CASE i # r \/ docs[r].lock # 1
    <3>1. docs'[i] = docs[i]
      BY <2>4, <2>2, <1>6
    <3>2. docs[i].current \in Requests /\ versions[docs[i].current].doc = i
      BY <2>2 DEF RowsSound, SoundDoc, Existing
    <3>3. docs[i].current # r
      BY <1>1, <2>1, <2>4, <3>1, <3>2
    <3> QED BY <1>5, <2>1, <2>2, <3>1, <3>2, <3>3 DEF StatusTellsCurrentVersion
  <2> QED BY <2>3, <2>4
<1> QED BY <1>7, <1>10, <1>11, <1>12, <1>13

LEMMA NextStep == LibraryInv /\ [Next]_vars => LibraryInv'
<1> SUFFICES ASSUME LibraryInv, [Next]_vars PROVE LibraryInv'
  OBVIOUS
<1>1. CASE UNCHANGED vars
  BY <1>1 DEF vars, LibraryInv, TypeOK, RowsSound, SoundDoc, SoundVersion, Fresh,
              Exclusive, Stage, StatusTellsCurrentVersion, Existing
<1>2. CASE Next
  <2>1. PICK r \in Requests :
          \/ \E org \in Tenants : Receiving(r, org)
          \/ AddDocument(r) \/ FindAgain(r) \/ CommitDocument(r)
          \/ \E s \in {"stored", "failed"} : SettleUpload(r, s)
          \/ AddVersion(r) \/ CommitVersion(r)
          \/ LockToArchive(r) \/ CommitArchive(r)
          \/ AddArtifact(r) \/ CommitArtifact(r)
          \/ ReadOpened(r)
          \/ Crash(r)
    BY <1>2 DEF Next
  <2>2. ASSUME NEW org \in Tenants, Receiving(r, org) PROVE LibraryInv'
    <3>1. ASSUME NEW op \in {"register", "upload"}, NEW c \in Contents,
                 FindContent(r, op, org, c)
          PROVE  LibraryInv'
      BY <3>1, FindContentStep
    <3>2. ASSUME NEW d \in Requests, NEW c \in Contents,
                 NEW s \in {"pending", "stored", "failed"}, CreateVersion(r, org, d, c, s)
          PROVE  LibraryInv'
      BY <3>2, CreateVersionStep
    <3>3. ASSUME NEW d \in Requests, ReadLockVersion(r, org, d) PROVE LibraryInv'
      BY <3>3, ReadLockVersionStep
    <3>4. ASSUME NEW d \in Requests, NEW v \in Ids, NEW k \in Keys,
                 RegisterArtifact(r, org, d, v, k)
          PROVE  LibraryInv'
      BY <3>4, RegisterArtifactStep
    <3>5. ASSUME NEW d \in Requests, NEW v \in Ids,
                 NEW op \in {"versions", "artifacts", "download", "download_artifact"},
                 OpenDocument(r, op, org, d, v)
          PROVE  LibraryInv'
      BY <3>5, OpenDocumentStep
    <3>6. ASSUME NEW archived \in BOOLEAN, ReadDocuments(r, org, archived) PROVE LibraryInv'
      BY <3>6, ReadDocumentsStep
    <3>7. None \in Ids /\ Requests \subseteq Ids
      BY DEF Ids
    <3> QED BY <2>2, <3>1, <3>2, <3>3, <3>4, <3>5, <3>6, <3>7 DEF Receiving
  <2>3. ASSUME NEW s \in {"stored", "failed"}, SettleUpload(r, s) PROVE LibraryInv'
    BY <2>3, SettleUploadStep
  <2> QED BY <2>1, <2>2, <2>3, AddDocumentStep, FindAgainStep, CommitDocumentStep,
             AddVersionStep, CommitVersionStep, LockToArchiveStep, CommitArchiveStep,
             AddArtifactStep, CommitArtifactStep, ReadOpenedStep, CrashStep
<1> QED BY <1>1, <1>2

(* The inductive invariant of the document service: rows, locks and calls  *)
(* agree in every state, also after crashes (get_document_for_update,      *)
(* _persist_document_state).                                               *)
THEOREM LibraryHolds == Spec => []LibraryInv
<1>1. Init => LibraryInv
  BY InitHolds
<1>2. LibraryInv /\ [Next]_vars => LibraryInv'
  BY NextStep
<1> QED BY <1>1, <1>2, PTL DEF Spec

(* The tables and the calls keep to their types for any number of calls,   *)
(* whichever of them race or crash (the records of documents/models.py).   *)
THEOREM LibraryTypeCorrect == Spec => []TypeOK
<1>1. LibraryInv => TypeOK
  BY DEF LibraryInv
<1> QED BY <1>1, LibraryHolds, PTL

(* A document says "stored" exactly when its current version is, however   *)
(* many versions and uploads race: what an upload wrote to the row of its  *)
(* document is what create_version and archive_document found there, or    *)
(* the UPDATE of _persist_document_state finds no row.                     *)
THEOREM StatusIsTrue == Spec => []StatusTellsCurrentVersion
<1>1. LibraryInv => StatusTellsCurrentVersion
  BY DEF LibraryInv
<1> QED BY <1>1, LibraryHolds, PTL

-----------------------------------------------------------------------------
(* What a step may do to the row and the versions of an archived document. *)
Frozen ==
    \A d \in Requests : docs[d].status = "archived" =>
        /\ docs'[d] = docs[d]
        /\ \A v \in Requests : versions'[v].doc = d => versions[v].doc = d

LEMMA FrozenStep == LibraryInv /\ [Next]_vars => Frozen
<1> SUFFICES ASSUME LibraryInv, [Next]_vars PROVE Frozen
  OBVIOUS
<1> USE DEF LibraryInv
<1>1. CASE UNCHANGED <<docs, versions>>
  BY <1>1 DEF Frozen
<1>2. ASSUME NEW r \in Requests, CommitDocument(r) PROVE Frozen
  <2>1. docs[r] = NoDoc /\ work[r].version.doc = r
    <3>1. work[r].version = NewVersion(cmd[r].org, r, 1, cmd[r].content, "pending")
      BY <1>2 DEF CommitDocument, Stage
    <3> QED BY <1>2, <3>1 DEF CommitDocument, Fresh, NewVersion
  <2>2. /\ \A d \in Requests \ {r} : docs'[d] = docs[d] /\ versions'[d] = versions[d]
        /\ versions'[r].doc = r
    BY <1>2, <2>1 DEF CommitDocument, TypeOK
  <2> QED BY <2>1, <2>2 DEF Frozen, NoDoc
<1>3. ASSUME NEW r \in Requests, CommitVersion(r) PROVE Frozen
  <2>1. cmd[r].doc \in Requests /\ Mutable(docs[cmd[r].doc]) /\ work[r].version.doc = cmd[r].doc
    BY <1>3 DEF CommitVersion, Stage, Holding, Existing
  <2>2. /\ \A d \in Requests : d # cmd[r].doc => docs'[d] = docs[d]
        /\ \A v \in Requests : v # r => versions'[v] = versions[v]
        /\ versions'[r].doc = cmd[r].doc
    BY <1>3, <2>1 DEF CommitVersion, PersistDocumentState, TypeOK
  <2> QED BY <2>1, <2>2 DEF Frozen, Mutable
<1>4. ASSUME NEW r \in Requests, CommitArchive(r) PROVE Frozen
  <2>1. cmd[r].doc \in Requests /\ Mutable(docs[cmd[r].doc])
    BY <1>4 DEF CommitArchive, Stage, Holding, Existing
  <2>2. /\ \A d \in Requests : d # cmd[r].doc => docs'[d] = docs[d]
        /\ versions' = versions
    BY <1>4, <2>1 DEF CommitArchive, PersistDocumentState, TypeOK
  <2> QED BY <2>1, <2>2 DEF Frozen, Mutable
<1>5. ASSUME NEW r \in Requests, NEW s \in {"stored", "failed"}, SettleUpload(r, s)
      PROVE  Frozen
  <2>1. r \in Existing /\ work[r].doc \in Doc /\ work[r].doc.lock = 1
    <3>1. r \in Existing /\ work[r].doc = NewDocument(docs[r].org, r)
      BY <1>5 DEF SettleUpload, Stage
    <3> QED BY <3>1 DEF TypeOK, Work, NewDocument
  <2>2. docs[r].lock = 1 => docs[r].status # "archived"
    <3>1. docs[r].lock = 1 => docs[r] = NewDocument(docs[r].org, r)
      BY <2>1 DEF Existing, RowsSound, SoundDoc
    <3>2. NewDocument(docs[r].org, r).status = "registered"
      BY DEF NewDocument
    <3> QED BY <3>1, <3>2
  <2>3. docs' = PersistDocumentState(r, [work[r].doc EXCEPT !.status = s, !.lock = @ + 1])
    BY <1>5 DEF SettleUpload
  <2>4. PICK row : docs' = PersistDocumentState(r, row) /\ row.lock = 2
    <3>1. [work[r].doc EXCEPT !.status = s, !.lock = @ + 1].lock = 2
      BY <2>1, SettledRow
    <3> QED BY <2>3, <3>1, Zenon
  <2>5. docs[r].status = "archived" => docs' = docs
    BY <2>2, <2>4 DEF PersistDocumentState
  <2>6. \A d \in Requests : d # r => docs'[d] = docs[d]
    BY <2>4 DEF PersistDocumentState, TypeOK
  <2>7. \A v \in Requests : versions'[v].doc = versions[v].doc
    BY <1>5 DEF SettleUpload, TypeOK, Version
  <2> QED BY <2>5, <2>6, <2>7 DEF Frozen
<1>6. \/ UNCHANGED <<docs, versions>>
      \/ \E r \in Requests :
            \/ CommitDocument(r) \/ CommitVersion(r) \/ CommitArchive(r)
            \/ \E s \in {"stored", "failed"} : SettleUpload(r, s)
  <2>1. ASSUME NEW r \in Requests, NEW org \in Tenants, Receiving(r, org)
        PROVE  UNCHANGED <<docs, versions>>
    BY <2>1 DEF Receiving, FindContent, CreateVersion, ReadLockVersion, RegisterArtifact,
                OpenDocument, ReadDocuments
  <2>2. ASSUME NEW r \in Requests,
               \/ AddDocument(r) \/ FindAgain(r) \/ AddVersion(r) \/ LockToArchive(r)
               \/ AddArtifact(r) \/ CommitArtifact(r) \/ ReadOpened(r) \/ Crash(r)
        PROVE  UNCHANGED <<docs, versions>>
    BY <2>2 DEF AddDocument, FindAgain, AddVersion, LockToArchive, AddArtifact,
                CommitArtifact, ReadOpened, Crash
  <2>3. UNCHANGED vars => UNCHANGED <<docs, versions>>
    BY DEF vars
  <2> QED BY <2>1, <2>2, <2>3 DEF Next
<1> QED BY <1>1, <1>2, <1>3, <1>4, <1>5, <1>6

(* An archived document keeps its row and gets no version: whoever holds   *)
(* its row lock found it mutable, and an upload that settles late finds    *)
(* another lock_version (_ensure_mutable, _persist_document_state).        *)
THEOREM ArchiveFreezes == Spec => ArchivedIsFrozen
<1>1. LibraryInv /\ [Next]_vars => [Frozen]_vars
  BY FrozenStep
<1> QED BY <1>1, LibraryHolds, PTL DEF Spec, ArchivedIsFrozen, Frozen

-----------------------------------------------------------------------------
(* The second layer: what the versions of a document, the trail and the    *)
(* answers say.  LibraryInv is known to hold.                              *)
Own(d) == {v \in Requests : versions[v].doc = d}

Events(kind, d) == {e \in trail : e[1] = kind /\ e[3] = d}

(* What TrailExplainsDocument says of one document.                        *)
Explained(d) ==
    LET n    == 1 + Cardinality(Events("version_created", d))
        told == n + Cardinality(Events("archived", d))
    IN  /\ {versions[v].number : v \in Own(d)} = 1 .. n
        /\ Cardinality(Own(d)) = n
        /\ docs[d].current \in Own(d)
        /\ versions[docs[d].current].number = n
        /\ docs[d].status = "archived" <=> Events("archived", d) # {}
        /\ docs[d].lock \in {told, told + (IF cmd[d].op = "upload" THEN 1 ELSE 0)}

Present(v) == versions[v].org # None

Inserting(r) == pc[r] \in {"doc_inserted", "version_inserted"}

(* The unique constraints hold of what is committed and what is inserted.  *)
Distinct ==
    /\ \A v, w \in Requests : v # w /\ Present(v) /\ Present(w) =>
          ~SameVersion(versions[v], versions[w])
    /\ \A r, w \in Requests : Inserting(r) /\ Present(w) =>
          ~SameVersion(work[r].version, versions[w])
    /\ \A q, r \in Requests : q # r /\ Inserting(q) /\ Inserting(r) =>
          ~SameVersion(work[q].version, work[r].version)

(* A version that an artifact names is of its tenant and document.         *)
Fits(a) ==
    a.version # None =>
        /\ a.org \in Tenants /\ a.version \in Requests
        /\ versions[a.version].org = a.org /\ versions[a.version].doc = a.doc

(* A call that is not over has told nothing.                               *)
Silent(r) ==
    pc[r] # "done" =>
        /\ answer[r].code = "none" /\ artifacts[r] = NoArtifact
        /\ \A e \in trail : e[2] # r

(* What a call has been asked, where it is.                                *)
Asked(r) ==
    LET c == cmd[r]  w == work[r] IN
    /\ pc[r] # "idle" => c.org \in Tenants
    /\ pc[r] \in {"register", "doc_inserted", "find_again", "promote"} =>
         c.op \in {"register", "upload"}
    /\ pc[r] = "promote" =>
         /\ c.op = "upload" /\ docs[r].org = c.org
         /\ versions[r].org = c.org /\ versions[r].content = c.content
    /\ pc[r] \in {"version", "version_inserted"} =>
         /\ c.op = "version" /\ w.version.content = c.content
         /\ w.version.number = Cardinality(Own(c.doc)) + 1
    /\ pc[r] \in {"lock", "archive"} => c.op = "archive"
    /\ pc[r] \in {"artifact", "artifact_inserted"} =>
         /\ c.op = "artifact" /\ Fits(w.artifact) /\ c.doc \in Existing
         /\ w.artifact.org = c.org /\ w.artifact.doc = c.doc

(* There is another version with the content of r.                         *)
Another(r) ==
    \E v \in Requests \ {r} : versions[v].org = cmd[r].org /\ versions[v].content = cmd[r].content

Honest(r) == pc[r] = "find_again" \/ answer[r].code = "duplicate" => Another(r)

(* What AnswersAreScoped says of one call.                                 *)
InScope(r) ==
    LET c == cmd[r] IN
    CASE c.op \in {"register", "upload"} ->
            \E d \in Existing, v \in Requests :
                /\ answer[r].ids = {d} /\ docs[d].org = c.org
                /\ versions[v].doc = d /\ versions[v].content = c.content
      [] c.op \in {"version", "versions", "download"} ->
            \A v \in answer[r].ids : versions[v].org = c.org /\ versions[v].doc = c.doc
      [] c.op \in {"artifact", "artifacts", "download_artifact"} ->
            \A a \in answer[r].ids : artifacts[a].org = c.org /\ artifacts[a].doc = c.doc
      [] OTHER -> \A d \in answer[r].ids : docs[d].org = c.org

Scoped(r) == answer[r].code = "ok" => InScope(r)

LibraryFacts ==
    /\ \A d \in Existing : Explained(d)
    /\ Distinct
    /\ \A a \in Requests : Fits(artifacts[a])
    /\ \A e \in trail : e[3] \in Existing
    /\ \A r \in Requests : Silent(r) /\ Asked(r) /\ Honest(r) /\ Scoped(r)

-----------------------------------------------------------------------------
LEMMA SameIsSymmetric ==
    ASSUME NEW v, NEW w PROVE SameVersion(v, w) <=> SameVersion(w, v)
  BY DEF SameVersion

(* Versions and events can be counted.                                     *)
LEMMA Countable ==
    ASSUME TypeOK, NEW kind, NEW d
    PROVE  /\ IsFiniteSet(Own(d)) /\ Cardinality(Own(d)) \in Nat
           /\ IsFiniteSet(Events(kind, d)) /\ Cardinality(Events(kind, d)) \in Nat
<1>1. IsFiniteSet(Own(d))
  <2>1. Own(d) \subseteq Requests
    BY DEF Own
  <2> QED BY <2>1, FS_Subset, LibraryAssumption
<1>2. IsFiniteSet(Events(kind, d))
  <2> DEFINE f == [e \in Events(kind, d) |-> e[2]]
  <2>1. \A e \in Events(kind, d) : e[1] = kind /\ e[3] = d /\ e[2] \in Requests
                                   /\ e = <<e[1], e[2], e[3]>>
    BY DEF Events, TypeOK
  <2>2. f \in Injection(Events(kind, d), Requests)
    <3>1. f \in [Events(kind, d) -> Requests]
      BY <2>1
    <3>2. ASSUME NEW a \in Events(kind, d), NEW b \in Events(kind, d), f[a] = f[b] PROVE a = b
      BY <2>1, <3>2
    <3> QED BY <3>1, <3>2 DEF Injection, IsInjective
  <2> HIDE DEF f
  <2> QED BY <2>2, FS_Injection, LibraryAssumption
<1> QED BY <1>1, <1>2, FS_CardinalityType

(* One more event of a call that has told nothing yet.                     *)
LEMMA EventAdded ==
    ASSUME TypeOK, NEW r, NEW kind, NEW d, \A e \in trail : e[2] # r,
           trail' = trail \cup {<<kind, r, d>>}
    PROVE  /\ Cardinality(Events(kind, d)') = Cardinality(Events(kind, d)) + 1
           /\ <<kind, r, d>> \in Events(kind, d)'
           /\ \A k, i : k # kind \/ i # d => Events(k, i)' = Events(k, i)
<1> DEFINE x == <<kind, r, d>>
<1>1. x[1] = kind /\ x[2] = r /\ x[3] = d
  OBVIOUS
<1>2. trail' = trail \cup {x} /\ x \notin trail
  BY <1>1
<1> HIDE DEF x
<1>3. Events(kind, d)' = Events(kind, d) \cup {x} /\ x \notin Events(kind, d)
  BY <1>1, <1>2 DEF Events
<1>4. \A k, i : k # kind \/ i # d => Events(k, i)' = Events(k, i)
  BY <1>1, <1>2 DEF Events
<1>5. Cardinality(Events(kind, d) \cup {x}) = Cardinality(Events(kind, d)) + 1
  BY <1>3, Countable, FS_AddElement
<1>6. x \in Events(kind, d)' /\ Cardinality(Events(kind, d)') = Cardinality(Events(kind, d)) + 1
  BY <1>3, <1>5
<1> QED BY <1>4, <1>6 DEF x

-----------------------------------------------------------------------------
(* What no step undoes.                                                    *)
Kept ==
    /\ \A v \in Requests : Present(v) =>
         /\ versions'[v].org = versions[v].org /\ versions'[v].doc = versions[v].doc
         /\ versions'[v].number = versions[v].number /\ versions'[v].content = versions[v].content
    /\ \A d \in Existing : d \in Existing' /\ docs'[d].org = docs[d].org
    /\ \A a \in Requests : artifacts[a].org # None => artifacts'[a] = artifacts[a]
    /\ \A r \in Requests : pc[r] # "idle" => cmd'[r] = cmd[r]

(* So what was in scope stays so, and a duplicate stays one.               *)
LEMMA ScopeKept ==
    ASSUME LibraryInv, Kept, NEW r \in Requests, cmd[r].org \in Tenants, answer'[r] = answer[r],
           cmd'[r] = cmd[r], InScope(r)
    PROVE  InScope(r)'
<1> DEFINE c == cmd[r]
           ids == answer[r].ids
<1>1. ids \subseteq Requests /\ c.org # None
  BY LibraryAssumption DEF LibraryInv, TypeOK
<1>2. CASE c.op \in {"register", "upload"}
  <2>1. PICK d \in Existing, v \in Requests :
          /\ ids = {d} /\ docs[d].org = c.org
          /\ versions[v].doc = d /\ versions[v].content = c.content
    BY <1>2 DEF InScope
  <2>2. Present(v)
    BY <2>1, LibraryAssumption DEF LibraryInv, RowsSound, SoundVersion, NoVersion, Present, Existing
  <2>3. /\ d \in Existing' /\ docs'[d].org = c.org
        /\ versions'[v].doc = d /\ versions'[v].content = c.content
    BY <2>1, <2>2 DEF Kept
  <2> QED BY <1>2, <2>1, <2>3 DEF InScope
<1>3. CASE c.op \in {"version", "versions", "download"}
  <2>1. \A v \in ids : versions[v].org = c.org /\ versions[v].doc = c.doc
    BY <1>3 DEF InScope
  <2>2. \A v \in ids : versions'[v].org = c.org /\ versions'[v].doc = c.doc
    BY <1>1, <2>1 DEF Kept, Present
  <2> QED BY <1>3, <2>2 DEF InScope
<1>4. CASE c.op \in {"artifact", "artifacts", "download_artifact"}
  <2>1. \A a \in ids : artifacts[a].org = c.org /\ artifacts[a].doc = c.doc
    BY <1>4 DEF InScope
  <2>2. \A a \in ids : artifacts'[a].org = c.org /\ artifacts'[a].doc = c.doc
    BY <1>1, <2>1 DEF Kept
  <2> QED BY <1>4, <2>2 DEF InScope
<1>5. CASE c.op \notin {"register", "upload", "version", "versions", "download", "artifact",
                        "artifacts", "download_artifact"}
  <2>1. \A d \in ids : docs[d].org = c.org
    BY <1>5 DEF InScope
  <2>2. \A d \in ids : d \in Existing
    BY <1>1, <2>1 DEF LibraryInv, RowsSound, SoundDoc, NoDoc, Existing
  <2>3. \A d \in ids : docs'[d].org = c.org
    BY <2>1, <2>2 DEF Kept
  <2> QED BY <1>5, <2>3 DEF InScope
<1> QED BY <1>2, <1>3, <1>4, <1>5

LEMMA AnotherKept ==
    ASSUME LibraryInv, Kept, NEW r \in Requests, cmd[r].org \in Tenants, cmd'[r] = cmd[r], Another(r)
    PROVE  Another(r)'
<1>1. PICK v \in Requests \ {r} :
        versions[v].org = cmd[r].org /\ versions[v].content = cmd[r].content
  BY DEF Another
<1>2. Present(v)
  BY <1>1, LibraryAssumption DEF Present
<1>3. versions'[v].org = cmd'[r].org /\ versions'[v].content = cmd'[r].content
  BY <1>1, <1>2 DEF Kept
<1> QED BY <1>3 DEF Another

LEMMA FitsKept ==
    ASSUME Kept, NEW a, Fits(a)
    PROVE  a.version # None =>
              /\ a.org \in Tenants /\ a.version \in Requests
              /\ versions'[a.version].org = a.org /\ versions'[a.version].doc = a.doc
<1> SUFFICES ASSUME a.version # None
             PROVE  /\ a.org \in Tenants /\ a.version \in Requests
                    /\ versions'[a.version].org = a.org /\ versions'[a.version].doc = a.doc
  OBVIOUS
<1>1. a.org \in Tenants /\ a.version \in Requests /\ versions[a.version].org = a.org
      /\ versions[a.version].doc = a.doc
  BY DEF Fits
<1>2. Present(a.version)
  BY <1>1, LibraryAssumption DEF Present
<1> QED BY <1>1, <1>2 DEF Kept

(* A step of r leaves the other calls as they are.                         *)
Others(r) ==
    \A q \in Requests \ {r} :
        /\ pc'[q] = pc[q] /\ cmd'[q] = cmd[q] /\ work'[q] = work[q] /\ answer'[q] = answer[q]
        /\ artifacts'[q] = artifacts[q]

(* Nothing is committed to a document whose versions a call has counted.   *)
Undisturbed(r) ==
    \A q \in Requests \ {r} : pc[q] \in {"version", "version_inserted"} =>
        Own(cmd[q].doc)' = Own(cmd[q].doc)

LEMMA OthersStay ==
    ASSUME LibraryInv, LibraryFacts, Kept, NEW r \in Requests, Others(r), Undisturbed(r),
           \A e \in trail' : e \in trail \/ e[2] = r, NEW q \in Requests \ {r}
    PROVE  (Silent(q) /\ Asked(q) /\ Honest(q) /\ Scoped(q))'
<1>1. Silent(q) /\ Asked(q) /\ Honest(q) /\ Scoped(q)
  BY DEF LibraryFacts
<1>2. /\ pc'[q] = pc[q] /\ cmd'[q] = cmd[q] /\ work'[q] = work[q] /\ answer'[q] = answer[q]
      /\ artifacts'[q] = artifacts[q]
  BY DEF Others
<1>3. Silent(q)'
  BY <1>1, <1>2 DEF Silent
<1>4. Asked(q)'
  <2>1. pc[q] = "promote" =>
          /\ docs'[q].org = cmd[q].org
          /\ versions'[q].org = cmd[q].org /\ versions'[q].content = cmd[q].content
    <3> SUFFICES ASSUME pc[q] = "promote"
                 PROVE  /\ docs'[q].org = cmd[q].org
                        /\ versions'[q].org = cmd[q].org /\ versions'[q].content = cmd[q].content
      OBVIOUS
    <3>1. q \in Existing /\ cmd[q].org \in Tenants
      BY <1>1 DEF LibraryInv, Stage, Asked
    <3>2. docs[q].org = cmd[q].org /\ versions[q].org = cmd[q].org
          /\ versions[q].content = cmd[q].content
      BY <1>1 DEF Asked
    <3>3. Present(q)
      BY <3>1, <3>2, LibraryAssumption DEF Present
    <3> QED BY <3>1, <3>2, <3>3 DEF Kept
  <2>2. pc[q] \in {"version", "version_inserted"} =>
          work[q].version.number = Cardinality(Own(cmd[q].doc)') + 1
    BY <1>1 DEF Asked, Undisturbed
  <2>3. pc[q] \in {"artifact", "artifact_inserted"} => Fits(work[q].artifact)'
    <3> DEFINE a == work[q].artifact
    <3>1. pc[q] \in {"artifact", "artifact_inserted"} => Fits(a)
      BY <1>1 DEF Asked
    <3> HIDE DEF a
    <3>2. pc[q] \in {"artifact", "artifact_inserted"} /\ a.version # None =>
              /\ a.org \in Tenants /\ a.version \in Requests
              /\ versions'[a.version].org = a.org /\ versions'[a.version].doc = a.doc
      BY <3>1, FitsKept
    <3> QED BY <1>2, <3>2 DEF Fits, a
  <2>4. pc[q] \in {"artifact", "artifact_inserted"} => cmd[q].doc \in Existing'
    BY <1>1 DEF Asked, Kept
  <2> QED BY <1>1, <1>2, <2>1, <2>2, <2>3, <2>4 DEF Asked, Own, Fits
<1>5. Honest(q)'
  <2>1. pc[q] = "find_again" \/ answer[q].code = "duplicate" => cmd[q].org \in Tenants
    BY <1>1 DEF Asked, Silent
  <2> QED BY <1>1, <1>2, <2>1, AnotherKept DEF Honest
<1>6. Scoped(q)'
  <2>1. answer[q].code = "ok" => cmd[q].org \in Tenants
    BY <1>1 DEF Asked, Silent
  <2> QED BY <1>1, <1>2, <2>1, ScopeKept DEF Scoped
<1> QED BY <1>3, <1>4, <1>5, <1>6

(* A step of r that commits nothing.                                       *)
Quiet(r) ==
    /\ UNCHANGED <<docs, versions, artifacts, trail>>
    /\ Others(r)
    /\ pc[r] # "idle" => cmd'[r] = cmd[r]

(* What is so of r itself, to be shown after each of its steps.            *)
Told(r) == Silent(r) /\ Asked(r) /\ Honest(r) /\ Scoped(r)

LEMMA SameCounts ==
    /\ versions' = versions => \A d : Own(d)' = Own(d)
    /\ trail' = trail => \A k, d : Events(k, d)' = Events(k, d)
  BY DEF Own, Events

LEMMA QuietStep ==
    ASSUME LibraryInv, LibraryFacts, NEW r \in Requests, Quiet(r), Told(r)',
           Inserting(r)' => \/ Inserting(r) /\ work'[r] = work[r]
                            \/ NoRival(r, work'[r].version) /\ Unique(work'[r].version)
    PROVE  LibraryFacts'
<1>1. Kept /\ Undisturbed(r)
  <2>1. \A d : Own(d)' = Own(d)
    BY SameCounts DEF Quiet
  <2>2. \A q \in Requests \ {r} : cmd'[q] = cmd[q]
    BY DEF Quiet, Others
  <2>3. Undisturbed(r)
    BY <2>2 DEF Undisturbed, Own, Quiet
  <2> QED BY <2>2, <2>3 DEF Kept, Quiet, Existing
<1>2. \A q \in Requests : Told(q)'
  BY <1>1, OthersStay DEF Quiet, Told
<1>3. ASSUME NEW d \in Existing' PROVE Explained(d)'
  <2>1. d \in Existing /\ Explained(d) /\ docs' = docs /\ versions' = versions
    BY <1>3 DEF Quiet, Existing, LibraryFacts
  <2>2. cmd'[d] = cmd[d]
    <3>1. d = r => pc[r] # "idle"
      BY <2>1 DEF LibraryInv, Fresh, Existing, NoDoc
    <3> QED BY <2>1, <3>1 DEF Quiet, Others, Existing
  <2>3. /\ Own(d)' = Own(d) /\ Events("version_created", d)' = Events("version_created", d)
        /\ Events("archived", d)' = Events("archived", d)
    BY SameCounts DEF Quiet
  <2> QED BY <2>1, <2>2, <2>3 DEF Explained
<1>4. Distinct'
  <2>1. \A v : Present(v)' <=> Present(v)
    BY DEF Quiet, Present
  <2>2. \A q \in Requests \ {r} : (Inserting(q)' <=> Inserting(q)) /\ work'[q] = work[q]
    BY DEF Quiet, Others, Inserting
  <2>3. versions' = versions /\ Distinct
    BY DEF Quiet, LibraryFacts
  <2>4. CASE ~Inserting(r)'
    BY <2>1, <2>2, <2>3, <2>4 DEF Distinct, SameVersion
  <2>5. CASE Inserting(r)' /\ Inserting(r) /\ work'[r] = work[r]
    BY <2>1, <2>2, <2>3, <2>5 DEF Distinct, SameVersion
  <2>6. CASE Inserting(r)' /\ NoRival(r, work'[r].version) /\ Unique(work'[r].version)
    <3>1. \A w \in Requests : Present(w) => ~SameVersion(work'[r].version, versions[w])
      BY <2>6 DEF Unique, Present
    <3>2. \A q \in Requests \ {r} : Inserting(q) => ~SameVersion(work'[r].version, work[q].version)
      BY <2>6 DEF NoRival, Inserting
    <3>3. \A q \in Requests \ {r} : Inserting(q) => ~SameVersion(work[q].version, work'[r].version)
      BY <3>2, SameIsSymmetric
    <3>4. \A v, w \in Requests : v # w /\ Present(v) /\ Present(w) =>
              ~SameVersion(versions[v], versions[w])
      BY <2>3 DEF Distinct
    <3>5. \A q \in Requests, w \in Requests : Inserting(q) /\ Present(w) =>
              ~SameVersion(work[q].version, versions[w])
      BY <2>3 DEF Distinct
    <3>6. \A p, q \in Requests : p # q /\ Inserting(p) /\ Inserting(q) =>
              ~SameVersion(work[p].version, work[q].version)
      BY <2>3 DEF Distinct
    <3>7. \A q, w \in Requests : Inserting(q)' /\ Present(w) =>
              ~SameVersion(work'[q].version, versions[w])
      BY <2>2, <3>1, <3>5
    <3>8. \A p, q \in Requests : p # q /\ Inserting(p)' /\ Inserting(q)' =>
              ~SameVersion(work'[p].version, work'[q].version)
      BY <2>2, <3>2, <3>3, <3>6
    <3> QED BY <2>1, <2>3, <3>4, <3>7, <3>8 DEF Distinct, SameVersion
  <2> QED BY <2>4, <2>5, <2>6
<1>5. (\A a \in Requests : Fits(artifacts[a]))' /\ (\A e \in trail : e[3] \in Existing)'
  BY DEF Quiet, LibraryFacts, Fits, Existing
<1> QED BY <1>2, <1>3, <1>4, <1>5 DEF LibraryFacts, Told

(* The usual quiet step: r is over, and promises nothing.                  *)
LEMMA Refused ==
    ASSUME LibraryInv, LibraryFacts, NEW r \in Requests, Quiet(r), cmd'[r].org \in Tenants,
           pc'[r] = "done", answer'[r].code \notin {"ok", "duplicate"}
    PROVE  LibraryFacts'
<1>1. Told(r)' /\ ~Inserting(r)'
  BY DEF Told, Silent, Asked, Honest, Scoped, Inserting
<1> QED BY <1>1, QuietStep

(* ... or its answer is in scope.                                          *)
LEMMA Answered ==
    ASSUME LibraryInv, LibraryFacts, NEW r \in Requests, Quiet(r), cmd'[r].org \in Tenants,
           pc'[r] = "done", answer'[r].code = "ok", InScope(r)'
    PROVE  LibraryFacts'
<1>1. Told(r)' /\ ~Inserting(r)'
  BY DEF Told, Silent, Asked, Honest, Scoped, Inserting
<1> QED BY <1>1, QuietStep

(* ... or it goes on, having told nothing.                                 *)
LEMMA GoesOn ==
    ASSUME LibraryInv, LibraryFacts, NEW r \in Requests, Quiet(r), pc'[r] # "done",
           pc[r] # "done", answer'[r] = answer[r], Asked(r)',
           pc'[r] = "find_again" => Another(r)',
           Inserting(r)' => \/ Inserting(r) /\ work'[r] = work[r]
                            \/ NoRival(r, work'[r].version) /\ Unique(work'[r].version)
    PROVE  LibraryFacts'
<1>1. Silent(r)
  BY DEF LibraryFacts
<1>2. Silent(r)' /\ answer'[r].code = "none"
  BY <1>1 DEF Silent, Quiet
<1>3. Told(r)'
  BY <1>2 DEF Told, Honest, Scoped
<1> QED BY <1>3, QuietStep

LEMMA Returning ==
    ASSUME TypeOK, NEW r \in Requests, NEW code, NEW ids, Return(r, code, ids)
    PROVE  /\ pc'[r] = "done" /\ answer'[r].code = code /\ answer'[r].ids = ids
           /\ \A q \in Requests \ {r} : pc'[q] = pc[q] /\ answer'[q] = answer[q]
<1>1. pc' = [pc EXCEPT ![r] = "done"] /\ answer' = [answer EXCEPT ![r] = [code |-> code, ids |-> ids]]
  BY DEF Return, Goto
<1>2. answer'[r] = [code |-> code, ids |-> ids]
  BY <1>1 DEF TypeOK
<1> QED BY <1>1, <1>2 DEF TypeOK

(* ... or it is told of a duplicate, which there is.                       *)
LEMMA ToldDuplicate ==
    ASSUME LibraryInv, LibraryFacts, NEW r \in Requests, Quiet(r), cmd'[r].org \in Tenants,
           pc'[r] = "done", answer'[r].code = "duplicate", Another(r)'
    PROVE  LibraryFacts'
<1>1. Told(r)' /\ ~Inserting(r)'
  BY DEF Told, Silent, Asked, Honest, Scoped, Inserting
<1> QED BY <1>1, QuietStep

-----------------------------------------------------------------------------
(* The unique constraint makes the search by content find one document.    *)
LEMMA OneOwner ==
    ASSUME LibraryInv, LibraryFacts, NEW org \in Tenants, NEW c, NEW d \in FindByContent(org, c)
    PROVE  /\ FindByContent(org, c) = {d} /\ d \in Existing /\ docs[d].org = org
           /\ docs[d].current \in Requests /\ versions[docs[d].current].doc = d
           /\ versions[docs[d].current].content = c
<1>1. ASSUME NEW i \in FindByContent(org, c)
      PROVE  /\ i \in Existing /\ docs[i].org = org /\ docs[i].current \in Requests
             /\ versions[docs[i].current].doc = i /\ versions[docs[i].current].content = c
             /\ versions[docs[i].current].org = org
  <2>1. i \in Requests /\ docs[i].org = org /\ versions[docs[i].current].org = org
        /\ versions[docs[i].current].content = c
    BY DEF FindByContent, Found
  <2>2. i \in Existing
    BY <2>1, LibraryAssumption DEF LibraryInv, RowsSound, SoundDoc, Existing, NoDoc
  <2> QED BY <2>1, <2>2 DEF LibraryInv, RowsSound, SoundDoc, Existing
<1>2. ASSUME NEW i \in FindByContent(org, c) PROVE i = d
  <2> DEFINE v == docs[i].current
             w == docs[d].current
  <2>1. v \in Requests /\ versions[v].doc = i /\ versions[v].content = c /\ versions[v].org = org
    BY <1>1
  <2>2. w \in Requests /\ versions[w].doc = d /\ versions[w].content = c /\ versions[w].org = org
    BY <1>1
  <2> HIDE DEF v, w
  <2>3. Present(v) /\ Present(w) /\ SameVersion(versions[v], versions[w])
    BY <2>1, <2>2, LibraryAssumption DEF Present, SameVersion
  <2>4. v = w
    BY <2>1, <2>2, <2>3 DEF LibraryFacts, Distinct
  <2> QED BY <2>1, <2>2, <2>4
<1> QED BY <1>1, <1>2

(* The versions that are counted are those of the document.                *)
LEMMA OwnIsListed ==
    ASSUME LibraryInv, NEW d \in Requests, NEW org, docs[d].org = org
    PROVE  ListVersions(org, d) = Own(d)
<1>1. \A v \in Requests : versions[v].doc = d => versions[v].org = org
  BY LibraryAssumption DEF LibraryInv, RowsSound, SoundVersion, NoVersion
<1> QED BY <1>1 DEF ListVersions, FoundVersion, Own

LEMMA FindContentFacts ==
    ASSUME LibraryInv, LibraryFacts, NEW r \in Requests, NEW op \in {"register", "upload"},
           NEW org \in Tenants, NEW c \in Contents, FindContent(r, op, org, c)
    PROVE  LibraryFacts'
<1> DEFINE owners == FindByContent(org, c)
<1>1. TypeOK /\ pc[r] = "idle" /\ UNCHANGED <<docs, versions, artifacts, trail>>
  BY DEF FindContent, Receive, LibraryInv
<1>2. /\ cmd'[r].op = op /\ cmd'[r].org = org /\ cmd'[r].doc = r /\ cmd'[r].content = c
      /\ \A q \in Requests \ {r} : cmd'[q] = cmd[q]
  <2>1. /\ cmd'[r] = [NoCommand EXCEPT !.op = op, !.org = org, !.doc = r, !.content = c]
        /\ \A q \in Requests \ {r} : cmd'[q] = cmd[q]
    BY <1>1 DEF FindContent, Receive, TypeOK
  <2> QED BY <2>1 DEF NoCommand
<1>3. CASE owners # {}
  <2>1. Return(r, "ok", owners) /\ UNCHANGED work
    BY <1>3 DEF FindContent
  <2>2. /\ pc'[r] = "done" /\ answer'[r].code = "ok" /\ answer'[r].ids = owners
        /\ \A q \in Requests \ {r} : pc'[q] = pc[q] /\ answer'[q] = answer[q]
    BY <1>1, <2>1, Returning
  <2>3. Quiet(r)
    BY <1>1, <1>2, <2>1, <2>2 DEF Quiet, Others
  <2>4. PICK d \in owners : TRUE
    BY <1>3
  <2>5. /\ owners = {d} /\ d \in Existing /\ docs[d].org = org
        /\ docs[d].current \in Requests /\ versions[docs[d].current].doc = d
        /\ versions[docs[d].current].content = c
    BY <2>4, OneOwner
  <2>6. InScope(r)'
    <3> HIDE DEF owners
    <3>1. d \in Existing' /\ docs'[d].org = org
      BY <1>1, <2>5 DEF Existing
    <3>2. \E x \in Existing', v \in Requests :
            /\ answer'[r].ids = {x} /\ docs'[x].org = org
            /\ versions'[v].doc = x /\ versions'[v].content = c
      BY <1>1, <2>2, <2>5, <3>1
    <3> QED BY <1>2, <3>2 DEF InScope
  <2> QED BY <1>2, <2>2, <2>3, <2>6, Answered
<1>4. CASE owners = {}
  <2>1. /\ pc' = [pc EXCEPT ![r] = "register"] /\ UNCHANGED answer
        /\ \A q \in Requests \ {r} : work'[q] = work[q]
    BY <1>1, <1>4 DEF FindContent, Goto, TypeOK
  <2>2. /\ pc'[r] = "register" /\ \A q \in Requests \ {r} : pc'[q] = pc[q]
    BY <1>1, <2>1 DEF TypeOK
  <2>3. Quiet(r)
    BY <1>1, <1>2, <2>1, <2>2 DEF Quiet, Others
  <2>4. Asked(r)'
    BY <1>2, <2>2 DEF Asked
  <2> QED BY <1>1, <2>1, <2>2, <2>3, <2>4, GoesOn DEF Inserting
<1> QED BY <1>3, <1>4

LEMMA CreateVersionFacts ==
    ASSUME LibraryInv, LibraryFacts, NEW r \in Requests, NEW org \in Tenants, NEW d \in Requests,
           NEW c \in Contents, NEW s \in {"pending", "stored", "failed"},
           CreateVersion(r, org, d, c, s)
    PROVE  LibraryFacts'
<1> DEFINE n == Cardinality(ListVersions(org, d)) + 1
           version == NewVersion(org, d, n, c, s)
           row == SetCurrentVersion(docs[d], r, s)
<1>1. TypeOK /\ pc[r] = "idle" /\ UNCHANGED <<docs, versions, artifacts, trail>>
  BY DEF CreateVersion, Receive, LibraryInv
<1>2. /\ cmd'[r].op = "version" /\ cmd'[r].org = org /\ cmd'[r].doc = d /\ cmd'[r].content = c
      /\ \A q \in Requests \ {r} : cmd'[q] = cmd[q]
  <2>1. /\ cmd'[r] = [NoCommand EXCEPT !.op = "version", !.org = org, !.doc = d, !.content = c]
        /\ \A q \in Requests \ {r} : cmd'[q] = cmd[q]
    BY <1>1 DEF CreateVersion, Receive, TypeOK
  <2> QED BY <2>1 DEF NoCommand
<1>3. ASSUME NEW code \in {"not_found", "error"}, Return(r, code, {}), UNCHANGED work
      PROVE  LibraryFacts'
  <2>1. /\ pc'[r] = "done" /\ answer'[r].code = code
        /\ \A q \in Requests \ {r} : pc'[q] = pc[q] /\ answer'[q] = answer[q]
    BY <1>1, <1>3, Returning
  <2>2. Quiet(r)
    BY <1>1, <1>2, <1>3, <2>1 DEF Quiet, Others
  <2> QED BY <1>2, <2>1, <2>2, Refused
<1>4. CASE Found(org, d) /\ Mutable(docs[d])
  <2>1. /\ work' = [work EXCEPT ![r] = [NoWork EXCEPT !.doc = row, !.version = version]]
        /\ pc' = [pc EXCEPT ![r] = "version"] /\ UNCHANGED answer
    BY <1>4 DEF CreateVersion, Goto
  <2>2. /\ pc'[r] = "version" /\ work'[r].version = version
        /\ \A q \in Requests \ {r} : pc'[q] = pc[q] /\ work'[q] = work[q]
    <3> HIDE DEF row, version
    <3> QED BY <1>1, <2>1 DEF TypeOK, NoWork
  <2>3. Quiet(r)
    BY <1>1, <1>2, <2>1, <2>2 DEF Quiet, Others
  <2>4. version.content = c /\ version.number = n
    BY DEF NewVersion
  <2>5. ListVersions(org, d) = Own(d)
    BY <1>4, OwnIsListed DEF Found
  <2>6. Own(cmd[r].doc)' = Own(d)
    BY <1>1, <1>2 DEF Own
  <2>7. work'[r].version.content = c /\ work'[r].version.number = Cardinality(Own(cmd[r].doc)') + 1
    BY <2>2, <2>4, <2>5, <2>6
  <2>8. Asked(r)'
    BY <1>2, <2>2, <2>7 DEF Asked
  <2> QED BY <1>1, <2>1, <2>2, <2>3, <2>8, GoesOn DEF Inserting
<1> QED BY <1>3, <1>4 DEF CreateVersion

LEMMA ReadLockVersionFacts ==
    ASSUME LibraryInv, LibraryFacts, NEW r \in Requests, NEW org \in Tenants, NEW d \in Requests,
           ReadLockVersion(r, org, d)
    PROVE  LibraryFacts'
<1>1. TypeOK /\ pc[r] = "idle" /\ UNCHANGED <<docs, versions, artifacts, trail, work>>
  BY DEF ReadLockVersion, LibraryInv
<1>2. /\ cmd'[r].op = "archive" /\ cmd'[r].org = org
      /\ \A q \in Requests \ {r} : cmd'[q] = cmd[q]
  <2>1. /\ cmd'[r] = [NoCommand EXCEPT !.op = "archive", !.org = org, !.doc = d,
                                     !.expected = docs[d].lock]
        /\ \A q \in Requests \ {r} : cmd'[q] = cmd[q]
    BY <1>1 DEF ReadLockVersion, TypeOK
  <2> QED BY <2>1 DEF NoCommand
<1>3. CASE Goto(r, "lock") /\ UNCHANGED answer
  <2>1. /\ pc'[r] = "lock" /\ \A q \in Requests \ {r} : pc'[q] = pc[q]
    BY <1>1, <1>3 DEF Goto, TypeOK
  <2>2. Quiet(r) /\ Asked(r)'
    BY <1>1, <1>2, <1>3, <2>1 DEF Quiet, Others, Asked
  <2> QED BY <1>1, <1>3, <2>1, <2>2, GoesOn DEF Inserting
<1>4. CASE Return(r, "not_found", {})
  <2>1. /\ pc'[r] = "done" /\ answer'[r].code = "not_found"
        /\ \A q \in Requests \ {r} : pc'[q] = pc[q] /\ answer'[q] = answer[q]
    BY <1>1, <1>4, Returning
  <2>2. Quiet(r)
    BY <1>1, <1>2, <2>1 DEF Quiet, Others
  <2> QED BY <1>2, <2>1, <2>2, Refused
<1> QED BY <1>3, <1>4 DEF ReadLockVersion

LEMMA RegisterArtifactFacts ==
    ASSUME LibraryInv, LibraryFacts, NEW r \in Requests, NEW org \in Tenants, NEW d \in Requests,
           NEW v \in Ids, NEW k \in Keys, RegisterArtifact(r, org, d, v, k)
    PROVE  LibraryFacts'
<1> DEFINE a == [org |-> org, doc |-> d, version |-> v, key |-> k]
<1>1. TypeOK /\ pc[r] = "idle" /\ UNCHANGED <<docs, versions, artifacts, trail>>
  BY DEF RegisterArtifact, LibraryInv
<1>2. /\ cmd'[r].op = "artifact" /\ cmd'[r].org = org /\ cmd'[r].doc = d
      /\ \A q \in Requests \ {r} : cmd'[q] = cmd[q]
  <2>1. /\ cmd'[r] = [NoCommand EXCEPT !.op = "artifact", !.org = org, !.doc = d, !.version = v]
        /\ \A q \in Requests \ {r} : cmd'[q] = cmd[q]
    BY <1>1 DEF RegisterArtifact, TypeOK
  <2> QED BY <2>1 DEF NoCommand
<1>3. CASE /\ Found(org, d) /\ (v # None => FoundVersion(org, d, v))
           /\ work' = [work EXCEPT ![r] = [NoWork EXCEPT !.artifact = a]]
           /\ Goto(r, "artifact") /\ UNCHANGED answer
  <2>1. /\ pc'[r] = "artifact" /\ work'[r].artifact = a
        /\ \A q \in Requests \ {r} : pc'[q] = pc[q] /\ work'[q] = work[q]
    <3> HIDE DEF a
    <3> QED BY <1>1, <1>3 DEF TypeOK, NoWork, Goto
  <2>2. Quiet(r)
    BY <1>1, <1>2, <1>3, <2>1 DEF Quiet, Others
  <2>3. /\ a.org = org /\ a.doc = d /\ a.version = v
    OBVIOUS
  <2>4. v # None => v \in Requests /\ versions'[v].org = org /\ versions'[v].doc = d
    BY <1>1, <1>3 DEF FoundVersion, Ids
  <2>5. d \in Existing'
    BY <1>1, <1>3, LibraryAssumption DEF Found, LibraryInv, RowsSound, SoundDoc, NoDoc, Existing
  <2>6. Asked(r)'
    <3> HIDE DEF a
    <3> QED BY <1>2, <2>1, <2>3, <2>4, <2>5 DEF Asked, Fits
  <2> QED BY <1>1, <1>3, <2>1, <2>2, <2>6, GoesOn DEF Inserting
<1>4. CASE Return(r, "not_found", {}) /\ UNCHANGED work
  <2>1. /\ pc'[r] = "done" /\ answer'[r].code = "not_found"
        /\ \A q \in Requests \ {r} : pc'[q] = pc[q] /\ answer'[q] = answer[q]
    BY <1>1, <1>4, Returning
  <2>2. Quiet(r)
    BY <1>1, <1>2, <1>4, <2>1 DEF Quiet, Others
  <2> QED BY <1>2, <2>1, <2>2, Refused
<1> QED BY <1>3, <1>4 DEF RegisterArtifact

LEMMA OpenDocumentFacts ==
    ASSUME LibraryInv, LibraryFacts, NEW r \in Requests, NEW org \in Tenants, NEW d \in Requests,
           NEW v \in Ids, NEW op \in {"versions", "artifacts", "download", "download_artifact"},
           OpenDocument(r, op, org, d, v)
    PROVE  LibraryFacts'
<1>1. TypeOK /\ pc[r] = "idle" /\ UNCHANGED <<docs, versions, artifacts, trail, work>>
  BY DEF OpenDocument, LibraryInv
<1>2. /\ cmd'[r].org = org /\ \A q \in Requests \ {r} : cmd'[q] = cmd[q]
  <2> DEFINE w == IF op = "download" /\ v = None THEN docs[d].current ELSE v
  <2>1. /\ cmd'[r] = [NoCommand EXCEPT !.op = op, !.org = org, !.doc = d, !.version = w]
        /\ \A q \in Requests \ {r} : cmd'[q] = cmd[q]
    BY <1>1 DEF OpenDocument, TypeOK
  <2> QED BY <2>1 DEF NoCommand
<1>3. CASE Goto(r, "opened") /\ UNCHANGED answer
  <2>1. /\ pc'[r] = "opened" /\ \A q \in Requests \ {r} : pc'[q] = pc[q]
    BY <1>1, <1>3 DEF Goto, TypeOK
  <2>2. Quiet(r) /\ Asked(r)'
    BY <1>1, <1>2, <1>3, <2>1 DEF Quiet, Others, Asked
  <2> QED BY <1>1, <1>3, <2>1, <2>2, GoesOn DEF Inserting
<1>4. CASE Return(r, "not_found", {})
  <2>1. /\ pc'[r] = "done" /\ answer'[r].code = "not_found"
        /\ \A q \in Requests \ {r} : pc'[q] = pc[q] /\ answer'[q] = answer[q]
    BY <1>1, <1>4, Returning
  <2>2. Quiet(r)
    BY <1>1, <1>2, <2>1 DEF Quiet, Others
  <2> QED BY <1>2, <2>1, <2>2, Refused
<1> QED BY <1>3, <1>4 DEF OpenDocument

LEMMA ReadDocumentsFacts ==
    ASSUME LibraryInv, LibraryFacts, NEW r \in Requests, NEW org \in Tenants,
           NEW archived \in BOOLEAN, ReadDocuments(r, org, archived)
    PROVE  LibraryFacts'
<1>1. TypeOK /\ pc[r] = "idle" /\ UNCHANGED <<docs, versions, artifacts, trail, work>>
  BY DEF ReadDocuments, Receive, LibraryInv
<1>2. /\ cmd'[r].op = "documents" /\ cmd'[r].org = org
      /\ \A q \in Requests \ {r} : cmd'[q] = cmd[q]
  <2>1. /\ cmd'[r] = [NoCommand EXCEPT !.op = "documents", !.org = org, !.doc = None, !.content = None]
        /\ \A q \in Requests \ {r} : cmd'[q] = cmd[q]
    BY <1>1 DEF ReadDocuments, Receive, TypeOK
  <2> QED BY <2>1 DEF NoCommand
<1>3. /\ pc'[r] = "done" /\ answer'[r].code = "ok" /\ answer'[r].ids = ListDocuments(org, archived)
      /\ \A q \in Requests \ {r} : pc'[q] = pc[q] /\ answer'[q] = answer[q]
  <2>1. Return(r, "ok", ListDocuments(org, archived))
    BY DEF ReadDocuments
  <2> QED BY <1>1, <2>1, Returning
<1>4. Quiet(r)
  BY <1>1, <1>2, <1>3 DEF Quiet, Others
<1>5. \A d \in answer'[r].ids : docs'[d].org = org
  BY <1>1, <1>3 DEF ListDocuments, Found
<1>6. InScope(r)'
  BY <1>2, <1>5 DEF InScope
<1> QED BY <1>2, <1>3, <1>4, <1>6, Answered

-----------------------------------------------------------------------------
(* A call that goes on has its command.                                    *)
LEMMA Known ==
    ASSUME LibraryInv, LibraryFacts, NEW r \in Requests
    PROVE  /\ TypeOK /\ RowsSound /\ Fresh /\ Exclusive /\ Stage(r)
           /\ Silent(r) /\ Asked(r) /\ Honest(r) /\ Scoped(r) /\ Distinct
           /\ pc[r] # "idle" => cmd[r].org \in Tenants
           /\ \A d \in Existing : Explained(d)
  BY DEF LibraryInv, LibraryFacts, Asked

(* No version is of a document that is not there.                          *)
LEMMA NotYet ==
    ASSUME LibraryInv, NEW r \in Requests, pc[r] \notin Committed
    PROVE  /\ ~Present(r) /\ r \notin Existing /\ \A v \in Requests : versions[v].doc # r
<1>1. docs[r] = NoDoc /\ versions[r] = NoVersion
  BY DEF LibraryInv, Fresh, Committed
<1>2. ~Present(r) /\ r \notin Existing
  BY <1>1 DEF Present, Existing, NoDoc, NoVersion
<1>3. ASSUME NEW v \in Requests PROVE versions[v].doc # r
  BY <1>2, LibraryAssumption DEF LibraryInv, RowsSound, SoundVersion, NoVersion
<1> QED BY <1>2, <1>3

LEMMA AddDocumentFacts ==
    ASSUME LibraryInv, LibraryFacts, NEW r \in Requests, AddDocument(r)
    PROVE  LibraryFacts'
<1>1. /\ TypeOK /\ pc[r] = "register" /\ NoRival(r, work[r].version)
      /\ UNCHANGED <<docs, versions, artifacts, trail, cmd, work, answer>>
      /\ Goto(r, IF Unique(work[r].version) THEN "doc_inserted" ELSE "find_again")
  BY DEF AddDocument, LibraryInv
<1>2. /\ pc'[r] = (IF Unique(work[r].version) THEN "doc_inserted" ELSE "find_again")
      /\ \A q \in Requests \ {r} : pc'[q] = pc[q]
  BY <1>1 DEF Goto, TypeOK
<1>3. Quiet(r)
  BY <1>1, <1>2 DEF Quiet, Others
<1>4. Asked(r)'
  BY <1>1, <1>2, Known DEF Asked
<1>5. CASE Unique(work[r].version)
  <2>1. pc'[r] = "doc_inserted" /\ NoRival(r, work'[r].version) /\ Unique(work'[r].version)
    BY <1>1, <1>2, <1>5
  <2> QED BY <1>1, <1>3, <1>4, <2>1, GoesOn
<1>6. CASE ~Unique(work[r].version)
  <2>1. PICK w \in Requests : Present(w) /\ SameVersion(work[r].version, versions[w])
    BY <1>6 DEF Unique, Present
  <2>2. /\ work[r].version.org = cmd[r].org /\ work[r].version.doc = r
        /\ work[r].version.content = cmd[r].content
    <3>1. work[r].version = NewVersion(cmd[r].org, r, 1, cmd[r].content, "pending")
      BY <1>1, Known DEF Stage
    <3> QED BY <3>1 DEF NewVersion
  <2>3. w # r /\ versions[w].doc # r
    BY <1>1, <2>1, NotYet DEF Committed
  <2>4. versions[w].org = cmd[r].org /\ versions[w].content = cmd[r].content
    BY <2>1, <2>2, <2>3 DEF SameVersion
  <2>5. Another(r)'
    BY <1>1, <2>3, <2>4 DEF Another
  <2>6. pc'[r] = "find_again"
    BY <1>2, <1>6
  <2> QED BY <1>1, <1>3, <1>4, <2>5, <2>6, GoesOn DEF Inserting
<1> QED BY <1>5, <1>6

LEMMA FindAgainFacts ==
    ASSUME LibraryInv, LibraryFacts, NEW r \in Requests, FindAgain(r)
    PROVE  LibraryFacts'
<1> DEFINE owners == FindByContent(cmd[r].org, cmd[r].content)
<1>1. /\ TypeOK /\ pc[r] = "find_again" /\ UNCHANGED <<docs, versions, artifacts, trail, cmd, work>>
      /\ cmd[r].org \in Tenants /\ cmd[r].op \in {"register", "upload"} /\ Another(r)
  BY Known DEF FindAgain, Asked, Honest
<1>2. CASE owners # {}
  <2>1. Return(r, "ok", owners)
    BY <1>2 DEF FindAgain
  <2>2. /\ pc'[r] = "done" /\ answer'[r].code = "ok" /\ answer'[r].ids = owners
        /\ \A q \in Requests \ {r} : pc'[q] = pc[q] /\ answer'[q] = answer[q]
    BY <1>1, <2>1, Returning
  <2>3. Quiet(r)
    BY <1>1, <2>2 DEF Quiet, Others
  <2>4. PICK d \in owners : TRUE
    BY <1>2
  <2>5. /\ owners = {d} /\ d \in Existing /\ docs[d].org = cmd[r].org
        /\ docs[d].current \in Requests /\ versions[docs[d].current].doc = d
        /\ versions[docs[d].current].content = cmd[r].content
    BY <1>1, <2>4, OneOwner
  <2>6. InScope(r)'
    <3> HIDE DEF owners
    <3>1. d \in Existing' /\ docs'[d].org = cmd'[r].org
      BY <1>1, <2>5 DEF Existing
    <3>2. \E x \in Existing', v \in Requests :
            /\ answer'[r].ids = {x} /\ docs'[x].org = cmd'[r].org
            /\ versions'[v].doc = x /\ versions'[v].content = cmd'[r].content
      BY <1>1, <2>2, <2>5, <3>1
    <3> QED BY <1>1, <3>2 DEF InScope
  <2> QED BY <1>1, <2>2, <2>3, <2>6, Answered
<1>3. CASE owners = {}
  <2>1. Return(r, "duplicate", {})
    BY <1>3 DEF FindAgain
  <2>2. /\ pc'[r] = "done" /\ answer'[r].code = "duplicate"
        /\ \A q \in Requests \ {r} : pc'[q] = pc[q] /\ answer'[q] = answer[q]
    BY <1>1, <2>1, Returning
  <2>3. Quiet(r) /\ Another(r)'
    BY <1>1, <2>2 DEF Quiet, Others, Another
  <2> QED BY <1>1, <2>2, <2>3, ToldDuplicate
<1> QED BY <1>2, <1>3

LEMMA AddVersionFacts ==
    ASSUME LibraryInv, LibraryFacts, NEW r \in Requests, AddVersion(r)
    PROVE  LibraryFacts'
<1> DEFINE d == cmd[r].doc
           version == work[r].version
<1>1. /\ TypeOK /\ pc[r] = "version" /\ NoRival(r, version) /\ cmd[r].org \in Tenants
      /\ UNCHANGED <<docs, versions, artifacts, trail, cmd, work>>
  BY Known DEF AddVersion
<1>2. CASE Unique(version)
  <2>1. Goto(r, "version_inserted") /\ UNCHANGED answer
    BY <1>2 DEF AddVersion
  <2>2. pc'[r] = "version_inserted" /\ \A q \in Requests \ {r} : pc'[q] = pc[q]
    BY <1>1, <2>1 DEF Goto, TypeOK
  <2>3. Quiet(r)
    BY <1>1, <2>1, <2>2 DEF Quiet, Others
  <2>4. Asked(r)'
    BY <1>1, <2>2, Known DEF Asked, Own
  <2> QED BY <1>1, <1>2, <2>1, <2>2, <2>3, <2>4, GoesOn
<1>3. CASE ~Unique(version)
  <2>1. Return(r, "duplicate", {})
    BY <1>3 DEF AddVersion
  <2>2. /\ pc'[r] = "done" /\ answer'[r].code = "duplicate"
        /\ \A q \in Requests \ {r} : pc'[q] = pc[q] /\ answer'[q] = answer[q]
    BY <1>1, <2>1, Returning
  <2>3. Quiet(r)
    BY <1>1, <2>2 DEF Quiet, Others
  <2>4. PICK w \in Requests : Present(w) /\ SameVersion(version, versions[w])
    BY <1>3 DEF Unique, Present
  <2>5. /\ version.org = cmd[r].org /\ version.doc = d /\ version.content = cmd[r].content
        /\ version.number = Cardinality(Own(d)) + 1 /\ d \in Existing
    BY <1>1, Known DEF Stage, Asked, Holding
  <2>6. versions[w].doc = d => versions[w].number # version.number
    <3>1. versions[w].doc = d => versions[w].number \in {versions[v].number : v \in Own(d)}
      BY DEF Own
    <3>2. \A i \in {versions[v].number : v \in Own(d)} : i \in Nat /\ i <= Cardinality(Own(d))
      <4>1. Explained(d)
        BY <2>5, Known
      <4> DEFINE n == Cardinality(Own(d))
      <4>2. {versions[v].number : v \in Own(d)} = 1 .. n /\ n \in Nat
        BY <1>1, <4>1, Countable DEF Explained
      <4> QED BY <4>2
    <3>3. Cardinality(Own(d)) \in Nat
      BY <1>1, Countable
    <3> QED BY <2>5, <3>1, <3>2, <3>3
  <2>7. w # r
    BY <1>1, <2>4, NotYet DEF Committed
  <2>8. versions[w].org = cmd[r].org /\ versions[w].content = cmd[r].content
    BY <2>4, <2>5, <2>6 DEF SameVersion
  <2>9. Another(r)'
    BY <1>1, <2>7, <2>8 DEF Another
  <2> QED BY <1>1, <2>2, <2>3, <2>9, ToldDuplicate
<1> QED BY <1>2, <1>3

LEMMA LockToArchiveFacts ==
    ASSUME LibraryInv, LibraryFacts, NEW r \in Requests, LockToArchive(r)
    PROVE  LibraryFacts'
<1>1. /\ TypeOK /\ pc[r] = "lock" /\ cmd[r].org \in Tenants
      /\ UNCHANGED <<docs, versions, artifacts, trail, cmd>>
  BY Known DEF LockToArchive
<1>2. ASSUME NEW code \in {"conflict", "error"}, Return(r, code, {}), UNCHANGED work
      PROVE  LibraryFacts'
  <2>1. /\ pc'[r] = "done" /\ answer'[r].code = code
        /\ \A q \in Requests \ {r} : pc'[q] = pc[q] /\ answer'[q] = answer[q]
    BY <1>1, <1>2, Returning
  <2>2. Quiet(r)
    BY <1>1, <1>2, <2>1 DEF Quiet, Others
  <2> QED BY <1>1, <2>1, <2>2, Refused
<1>3. ASSUME NEW x, work' = [work EXCEPT ![r] = x], Goto(r, "archive"), UNCHANGED answer
      PROVE  LibraryFacts'
  <2>1. /\ pc'[r] = "archive"
        /\ \A q \in Requests \ {r} : pc'[q] = pc[q] /\ work'[q] = work[q]
    BY <1>1, <1>3 DEF Goto, TypeOK
  <2>2. Quiet(r)
    BY <1>1, <1>3, <2>1 DEF Quiet, Others
  <2>3. Asked(r)'
    BY <1>1, <2>1, Known DEF Asked
  <2> QED BY <1>1, <1>3, <2>1, <2>2, <2>3, GoesOn DEF Inserting
<1> QED BY <1>2, <1>3 DEF LockToArchive

LEMMA AddArtifactFacts ==
    ASSUME LibraryInv, LibraryFacts, NEW r \in Requests, AddArtifact(r)
    PROVE  LibraryFacts'
<1>1. /\ TypeOK /\ pc[r] = "artifact" /\ cmd[r].org \in Tenants
      /\ UNCHANGED <<docs, versions, artifacts, trail, cmd, work>>
  BY Known DEF AddArtifact
<1>2. CASE Return(r, "error", {})
  <2>1. /\ pc'[r] = "done" /\ answer'[r].code = "error"
        /\ \A q \in Requests \ {r} : pc'[q] = pc[q] /\ answer'[q] = answer[q]
    BY <1>1, <1>2, Returning
  <2>2. Quiet(r)
    BY <1>1, <1>2, <2>1 DEF Quiet, Others
  <2> QED BY <1>1, <2>1, <2>2, Refused
<1>3. CASE Goto(r, "artifact_inserted") /\ UNCHANGED answer
  <2>1. /\ pc'[r] = "artifact_inserted" /\ \A q \in Requests \ {r} : pc'[q] = pc[q]
    BY <1>1, <1>3 DEF Goto, TypeOK
  <2>2. Quiet(r)
    BY <1>1, <1>3, <2>1 DEF Quiet, Others
  <2>3. Asked(r)'
    BY <1>1, <2>1, Known DEF Asked, Fits, Existing
  <2> QED BY <1>1, <1>3, <2>1, <2>2, <2>3, GoesOn DEF Inserting
<1> QED BY <1>2, <1>3 DEF AddArtifact

LEMMA ReadOpenedFacts ==
    ASSUME LibraryInv, LibraryFacts, NEW r \in Requests, ReadOpened(r)
    PROVE  LibraryFacts'
<1> DEFINE org == cmd[r].org
           d == cmd[r].doc
           v == cmd[r].version
<1>1. /\ TypeOK /\ pc[r] = "opened" /\ cmd[r].org \in Tenants
      /\ UNCHANGED <<docs, versions, artifacts, trail, cmd, work>>
      /\ cmd[r].op \in {"versions", "artifacts", "download", "download_artifact"}
  BY Known DEF ReadOpened, Stage
<1>2. ASSUME NEW ids, Return(r, "ok", ids),
             \/ /\ cmd[r].op \in {"versions", "download"}
                /\ \A x \in ids : versions[x].org = org /\ versions[x].doc = d
             \/ /\ cmd[r].op \in {"artifacts", "download_artifact"}
                /\ \A x \in ids : artifacts[x].org = org /\ artifacts[x].doc = d
      PROVE  LibraryFacts'
  <2>1. /\ pc'[r] = "done" /\ answer'[r].code = "ok" /\ answer'[r].ids = ids
        /\ \A q \in Requests \ {r} : pc'[q] = pc[q] /\ answer'[q] = answer[q]
    BY <1>1, <1>2, Returning
  <2>2. Quiet(r)
    BY <1>1, <1>2, <2>1 DEF Quiet, Others
  <2>3. InScope(r)'
    BY <1>1, <1>2, <2>1 DEF InScope
  <2> QED BY <1>1, <2>1, <2>2, <2>3, Answered
<1>3. ASSUME Return(r, "not_found", {}) PROVE LibraryFacts'
  <2>1. /\ pc'[r] = "done" /\ answer'[r].code = "not_found"
        /\ \A q \in Requests \ {r} : pc'[q] = pc[q] /\ answer'[q] = answer[q]
    BY <1>1, <1>3, Returning
  <2>2. Quiet(r)
    BY <1>1, <1>3, <2>1 DEF Quiet, Others
  <2> QED BY <1>1, <2>1, <2>2, Refused
<1>4. CASE cmd[r].op = "versions"
  <2>1. Return(r, "ok", ListVersions(org, d))
    BY <1>4 DEF ReadOpened
  <2> QED BY <1>2, <1>4, <2>1 DEF ListVersions, FoundVersion
<1>5. CASE cmd[r].op = "artifacts"
  <2>1. Return(r, "ok", ListArtifacts(org, d))
    BY <1>5 DEF ReadOpened
  <2> QED BY <1>2, <1>5, <2>1 DEF ListArtifacts
<1>6. CASE cmd[r].op = "download"
  <2>1. IF FoundVersion(org, d, v) THEN Return(r, "ok", {v}) ELSE Return(r, "not_found", {})
    BY <1>6 DEF ReadOpened
  <2> QED BY <1>2, <1>3, <1>6, <2>1 DEF FoundVersion
<1>7. CASE cmd[r].op = "download_artifact"
  <2>1. IF v \in ListArtifacts(org, d) THEN Return(r, "ok", {v}) ELSE Return(r, "not_found", {})
    BY <1>7 DEF ReadOpened
  <2> QED BY <1>2, <1>3, <1>7, <2>1 DEF ListArtifacts
<1> QED BY <1>1, <1>4, <1>5, <1>6, <1>7

LEMMA CrashFacts ==
    ASSUME LibraryInv, LibraryFacts, NEW r \in Requests, Crash(r)
    PROVE  LibraryFacts'
<1>1. /\ TypeOK /\ pc[r] \notin {"idle", "done"} /\ cmd[r].org \in Tenants
      /\ UNCHANGED <<docs, versions, artifacts, trail, cmd, work, answer>>
  BY Known DEF Crash
<1>2. pc'[r] = "crashed" /\ \A q \in Requests \ {r} : pc'[q] = pc[q]
  BY <1>1 DEF Crash, Goto, TypeOK
<1>3. Quiet(r) /\ Asked(r)'
  BY <1>1, <1>2 DEF Quiet, Others, Asked
<1> QED BY <1>1, <1>2, <1>3, GoesOn DEF Inserting

-----------------------------------------------------------------------------
(* A step of r that commits.                                               *)
LEMMA TableStep ==
    ASSUME LibraryInv, LibraryFacts, NEW r \in Requests, Kept, Others(r), Undisturbed(r),
           Told(r)', Distinct', \A d \in Existing' : Explained(d)', Fits(artifacts[r])',
           \A e \in trail' : e \in trail \/ (e[2] = r /\ e[3] \in Existing')
    PROVE  LibraryFacts'
<1>1. \A q \in Requests \ {r} : Told(q)'
  BY OthersStay DEF Told
<1>2. ASSUME NEW a \in Requests \ {r} PROVE Fits(artifacts[a])'
  <2> DEFINE x == artifacts[a]
  <2>1. Fits(x) /\ artifacts'[a] = x
    BY DEF LibraryFacts, Others
  <2> HIDE DEF x
  <2>2. x.version # None =>
           /\ x.org \in Tenants /\ x.version \in Requests
           /\ versions'[x.version].org = x.org /\ versions'[x.version].doc = x.doc
    BY <2>1, FitsKept
  <2> QED BY <2>1, <2>2 DEF Fits
<1>3. \A e \in trail' : e[3] \in Existing'
  BY DEF LibraryFacts, Kept
<1> QED BY <1>1, <1>2, <1>3 DEF LibraryFacts, Told

(* A document of which nothing has changed.                                *)
LEMMA ExplainedStays ==
    ASSUME NEW d, Explained(d), Own(d)' = Own(d), docs'[d] = docs[d], cmd'[d] = cmd[d],
           \A v \in Own(d) : versions'[v].number = versions[v].number,
           Events("version_created", d)' = Events("version_created", d),
           Events("archived", d)' = Events("archived", d)
    PROVE  Explained(d)'
<1>1. {versions'[v].number : v \in Own(d)} = {versions[v].number : v \in Own(d)}
  OBVIOUS
<1>2. docs[d].current \in Own(d)
  BY DEF Explained
<1>3. versions'[docs[d].current].number = versions[docs[d].current].number
  BY <1>2
<1> QED BY <1>1, <1>2, <1>3 DEF Explained

LEMMA DistinctStays ==
    ASSUME LibraryInv, LibraryFacts, Kept, work' = work,
           \A v \in Requests : Present(v)' <=> Present(v),
           \A q \in Requests : Inserting(q)' => Inserting(q)
    PROVE  Distinct'
<1>1. Distinct
  BY DEF LibraryFacts
<1>2. \A v, w \in Requests : v # w /\ Present(v)' /\ Present(w)' =>
          ~SameVersion(versions'[v], versions'[w])
  BY <1>1 DEF Distinct, SameVersion, Kept
<1>3. \A q, w \in Requests : Inserting(q)' /\ Present(w)' =>
          ~SameVersion(work'[q].version, versions'[w])
  BY <1>1 DEF Distinct, SameVersion, Kept
<1>4. \A p, q \in Requests : p # q /\ Inserting(p)' /\ Inserting(q)' =>
          ~SameVersion(work'[p].version, work'[q].version)
  BY <1>1 DEF Distinct
<1> QED BY <1>2, <1>3, <1>4 DEF Distinct, SameVersion

(* The INSERT that was waited for is committed.                            *)
LEMMA DistinctCommit ==
    ASSUME LibraryInv, LibraryFacts, NEW r \in Requests, work' = work, Inserting(r), ~Inserting(r)',
           versions'[r] = work[r].version,
           \A v \in Requests \ {r} : versions'[v] = versions[v],
           \A q \in Requests \ {r} : Inserting(q)' => Inserting(q)
    PROVE  Distinct'
<1>1. Distinct
  BY DEF LibraryFacts
<1>2. \A v \in Requests \ {r} : (Present(v)' <=> Present(v))
  BY DEF Present
<1>3. \A v \in Requests \ {r} : Present(v) =>
          /\ ~SameVersion(versions'[r], versions[v]) /\ ~SameVersion(versions[v], versions'[r])
  BY <1>1, SameIsSymmetric DEF Distinct
<1>4. \A v, w \in Requests : v # w /\ Present(v)' /\ Present(w)' =>
          ~SameVersion(versions'[v], versions'[w])
  BY <1>1, <1>2, <1>3 DEF Distinct
<1>5. \A q \in Requests, w \in Requests : Inserting(q)' /\ Present(w)' =>
          ~SameVersion(work'[q].version, versions'[w])
  BY <1>1, <1>2 DEF Distinct
<1>6. \A p, q \in Requests : p # q /\ Inserting(p)' /\ Inserting(q)' =>
          ~SameVersion(work'[p].version, work'[q].version)
  BY <1>1 DEF Distinct
<1> QED BY <1>4, <1>5, <1>6 DEF Distinct, SameVersion

LEMMA CommitDocumentFacts ==
    ASSUME LibraryInv, LibraryFacts, NEW r \in Requests, CommitDocument(r)
    PROVE  LibraryFacts'
<1> DEFINE c == cmd[r]
<1>1. /\ TypeOK /\ pc[r] = "doc_inserted" /\ c.org \in Tenants /\ c.op \in {"register", "upload"}
      /\ UNCHANGED <<artifacts, cmd, work>>
      /\ docs' = [docs EXCEPT ![r] = work[r].doc]
      /\ versions' = [versions EXCEPT ![r] = work[r].version]
      /\ work[r].doc = NewDocument(c.org, r)
      /\ work[r].version = NewVersion(c.org, r, 1, c.content, "pending")
  BY Known DEF CommitDocument, Asked, Stage
<1>2. /\ docs'[r] = work[r].doc /\ versions'[r] = work[r].version
      /\ \A i \in Requests \ {r} : docs'[i] = docs[i] /\ versions'[i] = versions[i]
  BY <1>1 DEF TypeOK
<1>3. /\ docs'[r].org = c.org /\ docs'[r].status = "registered" /\ docs'[r].current = r
      /\ docs'[r].lock = 1 /\ versions'[r].org = c.org /\ versions'[r].doc = r
      /\ versions'[r].number = 1 /\ versions'[r].content = c.content
  BY <1>1, <1>2 DEF NewDocument, NewVersion
<1>4. ~Present(r) /\ r \notin Existing /\ \A v \in Requests : versions[v].doc # r
  BY <1>1, NotYet DEF Committed
<1>5. /\ r \in Existing' /\ \A d \in Requests \ {r} : d \in Existing' <=> d \in Existing
  BY <1>2, <1>3 DEF Existing
<1>6. Kept
  <2>1. \A v \in Requests : Present(v) => versions'[v] = versions[v]
    BY <1>2, <1>4
  <2>2. \A d \in Existing : d \in Existing' /\ docs'[d] = docs[d]
    BY <1>2, <1>4, <1>5 DEF Existing
  <2> QED BY <1>1, <2>1, <2>2 DEF Kept
<1>7. \/ /\ Goto(r, "promote") /\ UNCHANGED <<trail, answer>> /\ c.op = "upload"
      \/ Return(r, "ok", {r}) /\ trail' = trail \cup {<<"registered", r, r>>}
  BY DEF CommitDocument, Record
<1>8. /\ \A q \in Requests \ {r} : pc'[q] = pc[q] /\ answer'[q] = answer[q]
      /\ \/ pc'[r] = "promote" /\ UNCHANGED <<trail, answer>> /\ c.op = "upload"
         \/ /\ pc'[r] = "done" /\ answer'[r].code = "ok" /\ answer'[r].ids = {r}
            /\ trail' = trail \cup {<<"registered", r, r>>}
  <2>1. CASE Goto(r, "promote") /\ UNCHANGED <<trail, answer>> /\ c.op = "upload"
    BY <1>1, <2>1 DEF Goto, TypeOK
  <2>2. CASE Return(r, "ok", {r}) /\ trail' = trail \cup {<<"registered", r, r>>}
    BY <1>1, <2>2, Returning
  <2> QED BY <1>7, <2>1, <2>2
<1>9. Others(r)
  BY <1>1, <1>8 DEF Others
<1>10. Own(r)' = {r} /\ \A d \in Requests \ {r} : Own(d)' = Own(d)
  <2>1. Own(r)' = {r}
    BY <1>2, <1>3, <1>4 DEF Own
  <2>2. ASSUME NEW d \in Requests \ {r} PROVE Own(d)' = Own(d)
    <3>1. versions[r].doc # d
      BY <1>1, Known, LibraryAssumption DEF Fresh, NoVersion
    <3> QED BY <1>2, <1>3, <2>2, <3>1 DEF Own
  <2> QED BY <2>1, <2>2
<1>11. Undisturbed(r)
  <2> SUFFICES ASSUME NEW q \in Requests \ {r}, pc[q] \in {"version", "version_inserted"}
               PROVE  Own(cmd[q].doc)' = Own(cmd[q].doc)
    BY DEF Undisturbed
  <2>1. cmd[q].doc \in Requests \ {r} /\ cmd'[q] = cmd[q]
    BY <1>1, <1>4, Known DEF Stage, Holding, Existing
  <2>2. \A d \in Requests \ {r} : {v \in Requests : versions'[v].doc = d} = Own(d)
    BY <1>10 DEF Own
  <2> QED BY <2>1, <2>2 DEF Own
<1>12. /\ Events("version_created", r) = {} /\ Events("archived", r) = {}
       /\ \A d : \A k \in {"version_created", "archived"} : Events(k, d)' = Events(k, d)
  <2>1. \A e \in trail : e[3] # r
    BY <1>4 DEF LibraryFacts
  <2>2. \A e \in trail' : e \in trail \/ e[1] = "registered"
    BY <1>8
  <2>3. trail \subseteq trail'
    BY <1>8
  <2> QED BY <2>1, <2>2, <2>3 DEF Events
<1>13. ASSUME NEW d \in Existing' PROVE Explained(d)'
  <2>1. CASE d = r
    <3>1. Cardinality(Own(r)') = 1 /\ Cardinality({}) = 0
      BY <1>10, FS_Singleton, FS_EmptySet
    <3>2. Events("version_created", r)' = {} /\ Events("archived", r)' = {}
      BY <1>12
    <3>3. {versions'[v].number : v \in Own(r)'} = 1 .. 1
      BY <1>3, <1>10
    <3> QED BY <1>3, <1>10, <2>1, <3>1, <3>2, <3>3 DEF Explained
  <2>2. CASE d # r
    <3>1. d \in Existing /\ d \in Requests /\ Explained(d)
      BY <1>5, <2>2, Known DEF Existing
    <3>2. r \notin Own(d)
      BY <1>1, <3>1, Known, LibraryAssumption DEF Own, Fresh, NoVersion
    <3>3. \A v \in Own(d) : versions'[v].number = versions[v].number
      BY <1>2, <3>2 DEF Own
    <3> QED BY <1>1, <1>2, <1>10, <1>12, <2>2, <3>1, <3>3, ExplainedStays
  <2> QED BY <2>1, <2>2
<1>14. Distinct'
  <2>1. Inserting(r) /\ ~Inserting(r)' /\ \A q \in Requests \ {r} : Inserting(q)' => Inserting(q)
    BY <1>1, <1>8 DEF Inserting
  <2> QED BY <1>1, <1>2, <2>1, DistinctCommit
<1>15. Told(r)'
  <2>1. CASE pc'[r] = "promote" /\ UNCHANGED <<trail, answer>> /\ c.op = "upload"
    <3>1. Silent(r)' /\ answer'[r].code = "none"
      BY <1>1, <2>1, Known DEF Silent
    <3>2. Asked(r)'
      BY <1>1, <1>3, <2>1 DEF Asked
    <3> QED BY <2>1, <3>1, <3>2 DEF Told, Honest, Scoped
  <2>2. CASE pc'[r] = "done" /\ answer'[r].code = "ok" /\ answer'[r].ids = {r}
    <3>1. \E x \in Existing', v \in Requests :
            /\ answer'[r].ids = {x} /\ docs'[x].org = c.org
            /\ versions'[v].doc = x /\ versions'[v].content = c.content
      BY <1>3, <1>5, <2>2
    <3>2. InScope(r)'
      BY <1>1, <3>1 DEF InScope
    <3> QED BY <1>1, <2>2, <3>2 DEF Told, Silent, Asked, Honest, Scoped
  <2> QED BY <1>8, <2>1, <2>2
<1>16. Fits(artifacts[r])'
  <2>1. artifacts'[r] = NoArtifact
    BY <1>1, Known DEF Silent
  <2> QED BY <2>1 DEF Fits, NoArtifact
<1>17. \A e \in trail' : e \in trail \/ (e[2] = r /\ e[3] \in Existing')
  BY <1>5, <1>8
<1> QED BY <1>6, <1>9, <1>11, <1>13, <1>14, <1>15, <1>16, <1>17, TableStep

LEMMA CommitArtifactFacts ==
    ASSUME LibraryInv, LibraryFacts, NEW r \in Requests, CommitArtifact(r)
    PROVE  LibraryFacts'
<1> DEFINE c == cmd[r]
           a == work[r].artifact
<1>1. /\ TypeOK /\ pc[r] = "artifact_inserted" /\ c.org \in Tenants /\ c.op = "artifact"
      /\ UNCHANGED <<docs, versions, cmd, work>>
      /\ artifacts' = [artifacts EXCEPT ![r] = a]
      /\ Fits(a) /\ a.org = c.org /\ a.doc = c.doc
      /\ trail' = trail \cup {<<"artifact_registered", r, c.doc>>}
  BY Known DEF CommitArtifact, Asked, Record
<1>2. artifacts'[r] = a /\ \A q \in Requests \ {r} : artifacts'[q] = artifacts[q]
  BY <1>1 DEF TypeOK
<1>3. artifacts[r] = NoArtifact
  BY <1>1, Known DEF Silent
<1>4. /\ pc'[r] = "done" /\ answer'[r].code = "ok" /\ answer'[r].ids = {r}
      /\ \A q \in Requests \ {r} : pc'[q] = pc[q] /\ answer'[q] = answer[q]
  <2>1. Return(r, "ok", {r})
    BY DEF CommitArtifact
  <2> QED BY <1>1, <2>1, Returning
<1>5. Kept /\ Others(r)
  BY <1>1, <1>2, <1>3, <1>4 DEF Kept, Others, NoArtifact, Existing
<1>6. Undisturbed(r)
  BY <1>1 DEF Undisturbed, Own
<1>7. \A d : \A k \in {"version_created", "archived"} : Events(k, d)' = Events(k, d)
  BY <1>1 DEF Events
<1>8. ASSUME NEW d \in Existing' PROVE Explained(d)'
  <2>1. d \in Existing /\ Explained(d) /\ Own(d)' = Own(d)
    BY <1>1, Known DEF Existing, Own
  <2> QED BY <1>1, <1>7, <2>1, ExplainedStays
<1>9. Distinct'
  <2>1. \A v \in Requests : Present(v)' <=> Present(v)
    BY <1>1 DEF Present
  <2>2. \A q \in Requests : Inserting(q)' => Inserting(q)
    BY <1>4 DEF Inserting
  <2> QED BY <1>1, <1>5, <2>1, <2>2, DistinctStays
<1>10. Told(r)'
  <2>1. \A x \in answer'[r].ids : artifacts'[x].org = c.org /\ artifacts'[x].doc = c.doc
    BY <1>1, <1>2, <1>4
  <2>2. InScope(r)'
    BY <1>1, <2>1 DEF InScope
  <2> QED BY <1>1, <1>4, <2>2 DEF Told, Silent, Asked, Honest, Scoped
<1>11. Fits(artifacts[r])'
  BY <1>1, <1>2 DEF Fits
<1>12. c.doc \in Existing'
  BY <1>1, Known DEF Asked, Existing
<1>13. \A e \in trail' : e \in trail \/ (e[2] = r /\ e[3] \in Existing')
  BY <1>1, <1>12
<1> QED BY <1>5, <1>6, <1>8, <1>9, <1>10, <1>11, <1>13, TableStep

(* One more number, and one more event.                                    *)
LEMMA OneMore ==
    ASSUME NEW n \in Nat PROVE (1 .. n) \cup {n + 1} = 1 .. n + 1
  OBVIOUS

LEMMA CommitVersionOf ==
    ASSUME LibraryInv, LibraryFacts, NEW r \in Requests, NEW d \in Requests, d = cmd[r].doc,
           CommitVersion(r)
    PROVE  LibraryFacts'
<1> DEFINE c == cmd[r]
           n == Cardinality(Own(d))
           made == Cardinality(Events("version_created", d))
           gone == Cardinality(Events("archived", d))
<1>1. /\ TypeOK /\ pc[r] = "version_inserted" /\ c.org \in Tenants /\ c.op = "version"
      /\ UNCHANGED <<artifacts, cmd, work>>
      /\ versions' = [versions EXCEPT ![r] = work[r].version]
      /\ trail' = trail \cup {<<"version_created", r, d>>}
      /\ d \in Existing /\ d \in Requests /\ docs[d].org = c.org /\ Mutable(docs[d])
      /\ work[r].version.doc = d /\ work[r].version.org = c.org
      /\ work[r].version.content = c.content /\ work[r].version.number = n + 1
      /\ docs[d] \in Doc
  <2>1. pc[r] = "version_inserted" /\ TypeOK
    BY Known DEF CommitVersion
  <2>2. d \in Existing /\ docs[d].org = c.org /\ Mutable(docs[d])
        /\ work[r].version.doc = d /\ work[r].version.org = c.org
    BY <2>1, Known DEF Stage, Holding
  <2>3. c.org \in Tenants /\ c.op = "version" /\ work[r].version.content = c.content
        /\ work[r].version.number = n + 1
    BY <2>1, Known DEF Asked
  <2>4. d \in Requests /\ docs[d] \in Doc
    BY <2>1, <2>2 DEF Existing, TypeOK
  <2> QED BY <2>1, <2>2, <2>3, <2>4 DEF CommitVersion, Record
<1>2. /\ docs'[d].org = docs[d].org /\ docs'[d].current = r
      /\ docs'[d].status \in {"stored", "registered"} /\ docs'[d].lock = docs[d].lock + 1
      /\ \A i \in Requests \ {d} : docs'[i] = docs[i]
  <2> DEFINE row == work[r].doc
  <2>1. row = SetCurrentVersion(docs[d], r, work[r].version.storage)
    BY <1>1, Known DEF Stage
  <2>2. /\ row.org = docs[d].org /\ row.current = r /\ row.status \in {"stored", "registered"}
        /\ row.lock = docs[d].lock + 1
    BY <1>1, <2>1, Transitions
  <2>3. docs' = PersistDocumentState(d, row)
    BY DEF CommitVersion
  <2> HIDE DEF row
  <2>4. docs[d].lock = row.lock - 1
    BY <1>1, <2>2 DEF Doc
  <2>5. docs' = [docs EXCEPT ![d] = row]
    BY <2>3, <2>4 DEF PersistDocumentState
  <2> QED BY <1>1, <2>2, <2>5 DEF TypeOK
<1>3. versions'[r] = work[r].version /\ \A i \in Requests \ {r} : versions'[i] = versions[i]
  BY <1>1 DEF TypeOK
<1>4. /\ pc'[r] = "done" /\ answer'[r].code = "ok" /\ answer'[r].ids = {r}
      /\ \A q \in Requests \ {r} : pc'[q] = pc[q] /\ answer'[q] = answer[q]
  <2>1. Return(r, "ok", {r})
    BY DEF CommitVersion
  <2> QED BY <1>1, <2>1, Returning
<1>5. ~Present(r) /\ versions[r] = NoVersion /\ r \notin Existing
  BY <1>1, NotYet, Known DEF Committed, Fresh
<1>6. \A i \in Requests : i \in Existing' <=> i \in Existing
  BY <1>1, <1>2 DEF Existing
<1>7. Kept
  <2>1. \A v \in Requests : Present(v) => versions'[v] = versions[v]
    BY <1>3, <1>5
  <2>2. \A i \in Existing : i \in Existing' /\ docs'[i].org = docs[i].org
    BY <1>2, <1>6 DEF Existing
  <2> QED BY <1>1, <2>1, <2>2 DEF Kept
<1>8. Others(r)
  BY <1>1, <1>4 DEF Others
<1>9. /\ Own(d)' = Own(d) \cup {r} /\ r \notin Own(d)
      /\ \A i \in Requests \ {d} : Own(i)' = Own(i)
  <2>1. versions[r].doc \notin Requests
    BY <1>5, LibraryAssumption DEF NoVersion
  <2> QED BY <1>1, <1>3, <2>1 DEF Own
<1>10. Undisturbed(r)
  <2> SUFFICES ASSUME NEW q \in Requests \ {r}, pc[q] \in {"version", "version_inserted"}
               PROVE  Own(cmd[q].doc)' = Own(cmd[q].doc)
    BY DEF Undisturbed
  <2>1. cmd[q].doc \in Requests \ {d} /\ cmd'[q] = cmd[q]
    BY <1>1, Known DEF Stage, Holding, Existing, Exclusive
  <2>2. \A i \in Requests \ {d} : {v \in Requests : versions'[v].doc = i} = Own(i)
    BY <1>9 DEF Own
  <2> QED BY <2>1, <2>2 DEF Own
<1>11. \A e \in trail : e[2] # r
  BY <1>1, Known DEF Silent
<1>12. /\ Cardinality(Events("version_created", d)') = made + 1
       /\ Events("archived", d)' = Events("archived", d)
       /\ \A k \in {"version_created", "archived"}, i \in Requests \ {d} :
             Events(k, i)' = Events(k, i)
  <2>1. /\ Cardinality(Events("version_created", d)') = made + 1
        /\ <<"version_created", r, d>> \in Events("version_created", d)'
        /\ \A k, i : k # "version_created" \/ i # d => Events(k, i)' = Events(k, i)
    <3>1. TypeOK /\ trail' = trail \cup {<<"version_created", r, d>>}
      BY <1>1
    <3> QED BY <1>11, <3>1, EventAdded
  <2> HIDE DEF made
  <2> QED BY <2>1
<1>13. ASSUME NEW i \in Existing' PROVE Explained(i)'
  <2>1. CASE i # d
    <3>1. i \in Existing /\ i \in Requests \ {d} /\ Explained(i)
      BY <1>6, <2>1, Known DEF Existing
    <3>2. \A v \in Own(i) : versions'[v].number = versions[v].number
      <4>1. r \notin Own(i)
        BY <1>5, <3>1, LibraryAssumption DEF Own, NoVersion
      <4> QED BY <1>3, <4>1 DEF Own
    <3> QED BY <1>1, <1>2, <1>9, <1>12, <3>1, <3>2, ExplainedStays
  <2>2. CASE i = d
    <3>1. /\ made \in Nat /\ gone \in Nat /\ n \in Nat /\ IsFiniteSet(Own(d))
      BY <1>1, Countable
    <3>2. /\ {versions[v].number : v \in Own(d)} = 1 .. n /\ n = 1 + made
          /\ Events("archived", d) = {}
          /\ docs[d].lock \in {n + gone, n + gone + (IF cmd[d].op = "upload" THEN 1 ELSE 0)}
      BY <1>1, Known DEF Explained, Mutable
    <3>3. Cardinality(Own(d)') = n + 1
      <4>1. Cardinality(Own(d) \cup {r}) = n + 1
        BY <1>9, <3>1, FS_AddElement
      <4> QED BY <1>9, <4>1
    <3>4. {versions'[v].number : v \in Own(d)'} = 1 .. n + 1
      <4>1. \A v \in Own(d) : versions'[v].number = versions[v].number
        BY <1>3, <1>9 DEF Own
      <4>2. versions'[r].number = n + 1
        BY <1>1, <1>3
      <4> HIDE DEF n
      <4>3. {versions'[v].number : v \in Own(d)'} = {versions[v].number : v \in Own(d)} \cup {n + 1}
        BY <1>9, <4>1, <4>2
      <4> QED BY <3>1, <3>2, <4>3, OneMore
    <3>5. /\ docs'[d].current \in Own(d)' /\ versions'[docs'[d].current].number = n + 1
          /\ docs'[d].status # "archived" /\ Events("archived", d)' = {}
          /\ Cardinality(Events("archived", d)') = gone
      BY <1>1, <1>2, <1>3, <1>9, <1>12, <3>2
    <3>6. docs'[d].lock \in {n + 1 + gone, n + 1 + gone + (IF cmd'[d].op = "upload" THEN 1 ELSE 0)}
      <4> HIDE DEF n, gone
      <4> QED BY <1>1, <1>2, <3>1, <3>2
    <3>7. 1 + Cardinality(Events("version_created", d)') = n + 1
      BY <1>12, <3>1, <3>2
    <3> HIDE DEF n, gone, made
    <3> QED BY <2>2, <3>3, <3>4, <3>5, <3>6, <3>7 DEF Explained
  <2> QED BY <2>1, <2>2
<1>14. Distinct'
  <2>1. Inserting(r) /\ ~Inserting(r)' /\ \A q \in Requests \ {r} : Inserting(q)' => Inserting(q)
    BY <1>1, <1>4 DEF Inserting
  <2> QED BY <1>1, <1>3, <2>1, DistinctCommit
<1>15. Told(r)'
  <2>1. \A v \in answer'[r].ids : versions'[v].org = c.org /\ versions'[v].doc = c.doc
    BY <1>1, <1>3, <1>4
  <2>2. InScope(r)'
    BY <1>1, <2>1 DEF InScope
  <2> QED BY <1>1, <1>4, <2>2 DEF Told, Silent, Asked, Honest, Scoped
<1>16. Fits(artifacts[r])'
  <2>1. artifacts'[r] = NoArtifact
    BY <1>1, Known DEF Silent
  <2> QED BY <2>1 DEF Fits, NoArtifact
<1>17. \A e \in trail' : e \in trail \/ (e[2] = r /\ e[3] \in Existing')
  BY <1>1, <1>6
<1> QED BY <1>7, <1>8, <1>10, <1>13, <1>14, <1>15, <1>16, <1>17, TableStep

LEMMA CommitArchiveOf ==
    ASSUME LibraryInv, LibraryFacts, NEW r \in Requests, NEW d \in Requests, d = cmd[r].doc,
           CommitArchive(r)
    PROVE  LibraryFacts'
<1> DEFINE c == cmd[r]
           made == Cardinality(Events("version_created", d))
           gone == Cardinality(Events("archived", d))
<1>1. /\ TypeOK /\ pc[r] = "archive" /\ c.org \in Tenants /\ c.op = "archive"
      /\ UNCHANGED <<versions, artifacts, cmd, work>>
      /\ trail' = trail \cup {<<"archived", r, d>>}
      /\ d \in Existing /\ docs[d].org = c.org /\ Mutable(docs[d]) /\ docs[d] \in Doc
  <2>1. pc[r] = "archive" /\ TypeOK
    BY Known DEF CommitArchive
  <2>2. d \in Existing /\ docs[d].org = c.org /\ Mutable(docs[d])
    BY <2>1, Known DEF Stage, Holding
  <2>3. c.org \in Tenants /\ c.op = "archive" /\ docs[d] \in Doc
    BY <2>1, Known DEF Asked, TypeOK
  <2> QED BY <2>1, <2>2, <2>3 DEF CommitArchive, Record
<1>2. /\ docs'[d].org = docs[d].org /\ docs'[d].current = docs[d].current
      /\ docs'[d].status = "archived" /\ docs'[d].lock = docs[d].lock + 1
      /\ \A i \in Requests \ {d} : docs'[i] = docs[i]
  <2> DEFINE row == work[r].doc
  <2>1. row = Archived(docs[d])
    BY <1>1, Known DEF Stage
  <2>2. /\ row.org = docs[d].org /\ row.current = docs[d].current /\ row.status = "archived"
        /\ row.lock = docs[d].lock + 1
    BY <1>1, <2>1, Transitions
  <2>3. docs' = PersistDocumentState(d, row)
    BY DEF CommitArchive
  <2> HIDE DEF row
  <2>4. docs[d].lock = row.lock - 1
    BY <1>1, <2>2 DEF Doc
  <2>5. docs' = [docs EXCEPT ![d] = row]
    BY <2>3, <2>4 DEF PersistDocumentState
  <2> QED BY <1>1, <2>2, <2>5 DEF TypeOK
<1>3. /\ pc'[r] = "done" /\ answer'[r].code = "ok" /\ answer'[r].ids = {d}
      /\ \A q \in Requests \ {r} : pc'[q] = pc[q] /\ answer'[q] = answer[q]
  <2>1. Return(r, "ok", {d})
    BY DEF CommitArchive
  <2> QED BY <1>1, <2>1, Returning
<1>4. \A i \in Requests : (i \in Existing' <=> i \in Existing) /\ docs'[i].org = docs[i].org
  BY <1>1, <1>2 DEF Existing
<1>5. Kept /\ Others(r)
  BY <1>1, <1>3, <1>4 DEF Kept, Others, Existing
<1>6. Undisturbed(r) /\ \A i : Own(i)' = Own(i)
  BY <1>1 DEF Undisturbed, Own
<1>7. \A e \in trail : e[2] # r
  BY <1>1, Known DEF Silent
<1>8. /\ Cardinality(Events("archived", d)') = gone + 1 /\ Events("archived", d)' # {}
      /\ Events("version_created", d)' = Events("version_created", d)
      /\ \A k \in {"version_created", "archived"}, i \in Requests \ {d} :
            Events(k, i)' = Events(k, i)
  <2>1. /\ Cardinality(Events("archived", d)') = gone + 1
        /\ <<"archived", r, d>> \in Events("archived", d)'
        /\ \A k, i : k # "archived" \/ i # d => Events(k, i)' = Events(k, i)
    <3>1. TypeOK /\ trail' = trail \cup {<<"archived", r, d>>}
      BY <1>1
    <3> QED BY <1>7, <3>1, EventAdded
  <2> HIDE DEF gone
  <2> QED BY <2>1
<1>9. ASSUME NEW i \in Existing' PROVE Explained(i)'
  <2>1. CASE i # d
    <3>1. i \in Existing /\ i \in Requests \ {d} /\ Explained(i)
      BY <1>4, <2>1, Known DEF Existing
    <3> QED BY <1>1, <1>2, <1>6, <1>8, <3>1, ExplainedStays
  <2>2. CASE i = d
    <3>1. made \in Nat /\ gone \in Nat
      BY <1>1, Countable
    <3>2. /\ {versions[v].number : v \in Own(d)} = 1 .. 1 + made /\ Cardinality(Own(d)) = 1 + made
          /\ docs[d].current \in Own(d) /\ versions[docs[d].current].number = 1 + made
          /\ docs[d].lock \in {1 + made + gone,
                               1 + made + gone + (IF cmd[d].op = "upload" THEN 1 ELSE 0)}
      BY <1>1, Known DEF Explained
    <3>3. docs'[d].lock \in {1 + made + (gone + 1),
                             1 + made + (gone + 1) + (IF cmd'[d].op = "upload" THEN 1 ELSE 0)}
      <4> HIDE DEF made, gone
      <4> QED BY <1>1, <1>2, <3>1, <3>2
    <3>4. Cardinality(Events("version_created", d)') = made
      BY <1>8
    <3> HIDE DEF made, gone
    <3> QED BY <1>1, <1>2, <1>6, <1>8, <2>2, <3>2, <3>3, <3>4 DEF Explained
  <2> QED BY <2>1, <2>2
<1>10. Distinct'
  <2>1. \A v \in Requests : Present(v)' <=> Present(v)
    BY <1>1 DEF Present
  <2>2. \A q \in Requests : Inserting(q)' => Inserting(q)
    BY <1>3 DEF Inserting
  <2> QED BY <1>1, <1>5, <2>1, <2>2, DistinctStays
<1>11. Told(r)'
  <2>1. \A x \in answer'[r].ids : docs'[x].org = c.org
    BY <1>1, <1>2, <1>3
  <2>2. InScope(r)'
    BY <1>1, <2>1 DEF InScope
  <2> QED BY <1>1, <1>3, <2>2 DEF Told, Silent, Asked, Honest, Scoped
<1>12. Fits(artifacts[r])'
  <2>1. artifacts'[r] = NoArtifact
    BY <1>1, Known DEF Silent
  <2> QED BY <2>1 DEF Fits, NoArtifact
<1>13. \A e \in trail' : e \in trail \/ (e[2] = r /\ e[3] \in Existing')
  BY <1>1, <1>4
<1> QED BY <1>5, <1>6, <1>9, <1>10, <1>11, <1>12, <1>13, TableStep

(* An upload is settled: the row is as it was inserted, and is raised to a *)
(* lock_version of 2, or the UPDATE finds none.                            *)
LEMMA SettleUploadFacts ==
    ASSUME LibraryInv, LibraryFacts, NEW r \in Requests, NEW s \in {"stored", "failed"},
           SettleUpload(r, s)
    PROVE  LibraryFacts'
<1> DEFINE c == cmd[r]
           row == [work[r].doc EXCEPT !.status = s, !.lock = @ + 1]
<1>1. /\ TypeOK /\ pc[r] = "promote" /\ r \in Existing /\ versions[r].doc = r
      /\ work[r].doc = NewDocument(docs[r].org, r) /\ docs[r] \in Doc
      /\ c.op = "upload" /\ c.org \in Tenants /\ docs[r].org = c.org
      /\ versions[r].org = c.org /\ versions[r].content = c.content
      /\ versions[r] \in Version /\ SoundDoc(r)
  <2>1. pc[r] = "promote" /\ TypeOK
    BY Known DEF SettleUpload
  <2> QED BY <2>1, Known DEF Stage, Asked, TypeOK, RowsSound
<1>2. /\ row.org = docs[r].org /\ row.status = s /\ row.current = r /\ row.lock = 2
  <2>1. /\ work[r].doc \in Doc /\ work[r].doc.lock = 1
        /\ work[r].doc.org = docs[r].org /\ work[r].doc.current = r
    BY <1>1 DEF TypeOK, Work, NewDocument
  <2> QED BY <2>1, SettledRow
<1>3. /\ docs' = IF docs[r].lock = 1 THEN [docs EXCEPT ![r] = row] ELSE docs
      /\ versions' = [versions EXCEPT ![r].storage = s]
      /\ UNCHANGED <<artifacts, trail, cmd, work>>
  <2>1. docs' = PersistDocumentState(r, row)
    BY DEF SettleUpload
  <2>2. versions' = [versions EXCEPT ![r].storage = s] /\ UNCHANGED <<artifacts, trail, cmd, work>>
    BY DEF SettleUpload
  <2> HIDE DEF row
  <2> QED BY <1>2, <2>1, <2>2 DEF PersistDocumentState
<1>4. /\ pc'[r] = "done"
      /\ \/ answer'[r].code = "ok" /\ answer'[r].ids = {r}
         \/ answer'[r].code = "unavailable"
      /\ \A q \in Requests \ {r} : pc'[q] = pc[q] /\ answer'[q] = answer[q]
  <2>1. Return(r, "ok", {r}) \/ Return(r, "unavailable", {})
    BY DEF SettleUpload
  <2>2. CASE Return(r, "ok", {r})
    BY <1>1, <2>2, Returning
  <2>3. CASE Return(r, "unavailable", {})
    BY <1>1, <2>3, Returning
  <2> QED BY <2>1, <2>2, <2>3
<1>5. \A i \in Requests :
        /\ versions'[i].org = versions[i].org /\ versions'[i].doc = versions[i].doc
        /\ versions'[i].number = versions[i].number /\ versions'[i].content = versions[i].content
  BY <1>1, <1>3 DEF TypeOK, Version
<1> HIDE DEF row
<1>6. /\ docs'[r] = IF docs[r].lock = 1 THEN row ELSE docs[r]
      /\ \A i \in Requests \ {r} : docs'[i] = docs[i]
  BY <1>1, <1>3 DEF TypeOK
<1>7. \A i \in Requests : (i \in Existing' <=> i \in Existing) /\ docs'[i].org = docs[i].org
  BY <1>1, <1>2, <1>6 DEF Existing
<1>8. Kept /\ Others(r)
  BY <1>3, <1>4, <1>5, <1>7 DEF Kept, Others, Existing
<1>9. /\ \A i : Own(i)' = Own(i)
      /\ \A k, i : Events(k, i)' = Events(k, i)
  BY <1>3, <1>5 DEF Own, Events
<1>10. Undisturbed(r)
  BY <1>3, <1>9 DEF Undisturbed
<1>11. ASSUME NEW i \in Existing' PROVE Explained(i)'
  <2>1. i \in Existing /\ i \in Requests /\ Explained(i)
    BY <1>7, Known DEF Existing
  <2>2. \A v \in Own(i) : versions'[v].number = versions[v].number
    BY <1>5 DEF Own
  <2>3. CASE docs'[i] = docs[i]
    BY <1>3, <1>9, <2>1, <2>2, <2>3, ExplainedStays
  <2>4. CASE docs'[i] # docs[i]
    <3> DEFINE made == Cardinality(Events("version_created", i))
               gone == Cardinality(Events("archived", i))
    <3>1. i = r /\ docs[i].lock = 1 /\ docs'[i] = row
      BY <1>6, <2>1, <2>4
    <3>2. docs[i].status = "registered" /\ docs[i].current = i
      BY <1>1, <3>1 DEF SoundDoc, NewDocument, Existing
    <3>3. made \in Nat /\ gone \in Nat
      BY <1>1, Countable
    <3>4. /\ {versions[v].number : v \in Own(i)} = 1 .. 1 + made /\ Cardinality(Own(i)) = 1 + made
          /\ i \in Own(i) /\ versions[i].number = 1 + made
          /\ Events("archived", i) = {}
          /\ docs[i].lock \in {1 + made + gone,
                               1 + made + gone + (IF cmd[i].op = "upload" THEN 1 ELSE 0)}
      BY <2>1, <3>2 DEF Explained
    <3>5. docs'[i].lock \in {1 + made + gone,
                            1 + made + gone + (IF cmd'[i].op = "upload" THEN 1 ELSE 0)}
      <4> HIDE DEF made, gone
      <4>1. docs'[i].lock = 2 /\ cmd'[i].op = "upload" /\ cmd[i].op = "upload"
        BY <1>1, <1>2, <1>3, <3>1
      <4> QED BY <3>1, <3>3, <3>4, <4>1
    <3>6. docs'[i].current = i /\ docs'[i].status # "archived"
      BY <1>2, <3>1
    <3>7. {versions'[v].number : v \in Own(i)} = {versions[v].number : v \in Own(i)}
      BY <2>2
    <3>8. versions'[i].number = 1 + made
      BY <2>2, <3>4
    <3>9. /\ Own(i)' = Own(i) /\ Events("version_created", i)' = Events("version_created", i)
          /\ Events("archived", i)' = Events("archived", i)
      BY <1>9
    <3> QED BY <3>4, <3>5, <3>6, <3>7, <3>8, <3>9 DEF Explained
  <2> QED BY <2>3, <2>4
<1>12. Distinct'
  <2>1. \A v \in Requests : Present(v)' <=> Present(v)
    BY <1>5 DEF Present
  <2>2. \A q \in Requests : Inserting(q)' => Inserting(q)
    BY <1>4 DEF Inserting
  <2> QED BY <1>3, <1>8, <2>1, <2>2, DistinctStays
<1>13. Told(r)'
  <2>1. answer'[r].code = "ok" => InScope(r)'
    <3>1. /\ r \in Existing' /\ docs'[r].org = c.org
          /\ versions'[r].doc = r /\ versions'[r].content = c.content
      BY <1>1, <1>5, <1>7
    <3> QED BY <1>1, <1>3, <1>4, <3>1 DEF InScope
  <2> QED BY <1>1, <1>3, <1>4, <2>1 DEF Told, Silent, Asked, Honest, Scoped
<1>14. Fits(artifacts[r])'
  <2>1. artifacts'[r] = NoArtifact
    BY <1>1, <1>3, Known DEF Silent
  <2> QED BY <2>1 DEF Fits, NoArtifact
<1>15. \A e \in trail' : e \in trail \/ (e[2] = r /\ e[3] \in Existing')
  BY <1>3
<1> QED BY <1>8, <1>10, <1>11, <1>12, <1>13, <1>14, <1>15, TableStep

-----------------------------------------------------------------------------
LEMMA InitFacts == Init => LibraryFacts
<1> SUFFICES ASSUME Init PROVE LibraryFacts
  OBVIOUS
<1>1. \A r \in Requests :
        /\ docs[r] = NoDoc /\ versions[r] = NoVersion /\ artifacts[r] = NoArtifact
        /\ pc[r] = "idle" /\ answer[r].code = "none"
  BY DEF Init
<1>2. Existing = {}
  BY <1>1 DEF Existing, NoDoc
<1>3. Distinct
  BY <1>1 DEF Distinct, Present, Inserting, NoVersion
<1>4. \A a \in Requests : Fits(artifacts[a])
  BY <1>1 DEF Fits, NoArtifact
<1>5. trail = {}
  BY DEF Init
<1>6. \A r \in Requests : Silent(r) /\ Asked(r) /\ Honest(r) /\ Scoped(r)
  BY <1>1, <1>5 DEF Silent, Asked, Honest, Scoped
<1> QED BY <1>2, <1>3, <1>4, <1>5, <1>6 DEF LibraryFacts

LEMMA CommitVersionFacts ==
    ASSUME LibraryInv, LibraryFacts, NEW r \in Requests, CommitVersion(r)
    PROVE  LibraryFacts'
<1>1. PICK d \in Requests : d = cmd[r].doc
  BY Known DEF CommitVersion, Stage, Holding, Existing
<1> QED BY <1>1, CommitVersionOf

LEMMA CommitArchiveFacts ==
    ASSUME LibraryInv, LibraryFacts, NEW r \in Requests, CommitArchive(r)
    PROVE  LibraryFacts'
<1>1. PICK d \in Requests : d = cmd[r].doc
  BY Known DEF CommitArchive, Stage, Holding, Existing
<1> QED BY <1>1, CommitArchiveOf

LEMMA NextFacts == LibraryInv /\ LibraryFacts /\ [Next]_vars => LibraryFacts'
<1> SUFFICES ASSUME LibraryInv, LibraryFacts, [Next]_vars PROVE LibraryFacts'
  OBVIOUS
<1>1. CASE UNCHANGED vars
  <2>1. /\ UNCHANGED <<docs, versions, artifacts, trail, cmd, work>>
        /\ \A r \in Requests : pc'[r] = pc[r] /\ answer'[r] = answer[r]
    BY <1>1 DEF vars
  <2>2. ASSUME NEW d \in Existing' PROVE Explained(d)'
    <3>1. Explained(d)
      BY <2>1 DEF LibraryFacts, Existing
    <3> QED BY <2>1, <3>1, SameCounts, ExplainedStays
  <2>3. Distinct'
    BY <2>1 DEF LibraryFacts, Distinct, Present, Inserting
  <2>4. /\ \A a \in Requests : Fits(artifacts[a])'
        /\ \A e \in trail' : e[3] \in Existing'
    BY <2>1 DEF LibraryFacts, Fits, Existing
  <2>5. ASSUME NEW r \in Requests PROVE Silent(r)' /\ Asked(r)' /\ Honest(r)' /\ Scoped(r)'
    <3>1. Silent(r) /\ Asked(r) /\ Honest(r) /\ Scoped(r)
      BY DEF LibraryFacts
    <3>2. Silent(r)' /\ Honest(r)'
      BY <2>1, <3>1 DEF Silent, Honest, Another
    <3>3. Asked(r)'
      BY <2>1, <3>1 DEF Asked, Fits, Own, Existing
    <3>4. Scoped(r)'
      BY <2>1, <3>1 DEF Scoped, InScope, Existing
    <3> QED BY <3>2, <3>3, <3>4
  <2> QED BY <2>2, <2>3, <2>4, <2>5 DEF LibraryFacts
<1>2. CASE Next
  <2>1. PICK r \in Requests :
          \/ \E org \in Tenants : Receiving(r, org)
          \/ AddDocument(r) \/ FindAgain(r) \/ CommitDocument(r)
          \/ \E s \in {"stored", "failed"} : SettleUpload(r, s)
          \/ AddVersion(r) \/ CommitVersion(r)
          \/ LockToArchive(r) \/ CommitArchive(r)
          \/ AddArtifact(r) \/ CommitArtifact(r)
          \/ ReadOpened(r)
          \/ Crash(r)
    BY <1>2 DEF Next
  <2>2. ASSUME NEW org \in Tenants, Receiving(r, org) PROVE LibraryFacts'
    <3>1. ASSUME NEW op \in {"register", "upload"}, NEW c \in Contents,
                 FindContent(r, op, org, c)
          PROVE  LibraryFacts'
      BY <3>1, FindContentFacts
    <3>2. ASSUME NEW d \in Requests, NEW c \in Contents,
                 NEW s \in {"pending", "stored", "failed"}, CreateVersion(r, org, d, c, s)
          PROVE  LibraryFacts'
      BY <3>2, CreateVersionFacts
    <3>3. ASSUME NEW d \in Requests, ReadLockVersion(r, org, d) PROVE LibraryFacts'
      BY <3>3, ReadLockVersionFacts
    <3>4. ASSUME NEW d \in Requests, NEW v \in Ids, NEW k \in Keys,
                 RegisterArtifact(r, org, d, v, k)
          PROVE  LibraryFacts'
      BY <3>4, RegisterArtifactFacts
    <3>5. ASSUME NEW d \in Requests, NEW v \in Ids,
                 NEW op \in {"versions", "artifacts", "download", "download_artifact"},
                 OpenDocument(r, op, org, d, v)
          PROVE  LibraryFacts'
      BY <3>5, OpenDocumentFacts
    <3>6. ASSUME NEW archived \in BOOLEAN, ReadDocuments(r, org, archived) PROVE LibraryFacts'
      BY <3>6, ReadDocumentsFacts
    <3>7. None \in Ids /\ Requests \subseteq Ids
      BY DEF Ids
    <3> QED BY <2>2, <3>1, <3>2, <3>3, <3>4, <3>5, <3>6, <3>7 DEF Receiving
  <2>3. ASSUME NEW s \in {"stored", "failed"}, SettleUpload(r, s) PROVE LibraryFacts'
    BY <2>3, SettleUploadFacts
  <2> QED BY <2>1, <2>2, <2>3, AddDocumentFacts, FindAgainFacts, CommitDocumentFacts,
             AddVersionFacts, CommitVersionFacts, LockToArchiveFacts, CommitArchiveFacts,
             AddArtifactFacts, CommitArtifactFacts, ReadOpenedFacts, CrashFacts
<1> QED BY <1>1, <1>2

(* The second inductive invariant, relative to LibraryInv: versions and    *)
(* trail count each other, unique values stay unique while their INSERT is *)
(* not committed, and calls know what they were asked (add_document,       *)
(* add_version, _record_document_event).                                   *)
THEOREM LibraryFactsHold == Spec => []LibraryFacts
<1>1. Init => LibraryFacts
  BY InitFacts
<1>2. LibraryInv /\ LibraryFacts /\ [Next]_vars => LibraryFacts'
  BY NextFacts
<1> QED BY <1>1, <1>2, LibraryHolds, PTL DEF Spec

(* No accepted change of a document is lost, however many calls race: its  *)
(* versions are numbered from one without a gap, the newest is current,    *)
(* and the lock_version counts the events of the trail (create_version,    *)
(* archive_document_with_lock, _persist_document_state).                   *)
THEOREM TrailIsComplete == Spec => []TrailExplainsDocument
<1>1. LibraryInv /\ LibraryFacts => TrailExplainsDocument
  <2> SUFFICES ASSUME LibraryInv, LibraryFacts, NEW d \in Existing
               PROVE  LET own      == {v \in Requests : versions[v].doc = d}
                          created  == {e \in trail : e[1] = "version_created" /\ e[3] = d}
                          archived == {e \in trail : e[1] = "archived" /\ e[3] = d}
                          told     == 1 + Cardinality(created) + Cardinality(archived)
                      IN  /\ {versions[v].number : v \in own} = 1 .. 1 + Cardinality(created)
                          /\ Cardinality(own) = 1 + Cardinality(created)
                          /\ docs[d].current \in own
                          /\ versions[docs[d].current].number = Cardinality(own)
                          /\ docs[d].status = "archived" <=> archived # {}
                          /\ docs[d].lock \in {told, told + (IF cmd[d].op = "upload" THEN 1 ELSE 0)}
    BY DEF TrailExplainsDocument
  <2>1. Explained(d)
    BY DEF LibraryFacts
  <2> QED BY <2>1 DEF Explained, Own, Events
<1> QED BY <1>1, LibraryHolds, LibraryFactsHold, PTL

(* Who is told of a duplicate has one in the tenant, for any number of     *)
(* racing inserts: the number of a new version cannot be taken while the   *)
(* document is locked (add_version, add_document).                         *)
THEOREM DuplicatesAreHonest == Spec => []DuplicateIsHonest
<1>1. LibraryFacts => DuplicateIsHonest
  BY DEF LibraryFacts, Honest, Another, DuplicateIsHonest
<1> QED BY <1>1, LibraryFactsHold, PTL

(* No answer leaves the tenant or the document that was asked for, for any *)
(* number of tenants and calls (register_document, get_version,            *)
(* get_artifact, assert_artifact_consistent).                              *)
THEOREM AnswersStayScoped == Spec => []AnswersAreScoped
<1>1. LibraryFacts => AnswersAreScoped
  <2> SUFFICES ASSUME LibraryFacts PROVE AnswersAreScoped
    OBVIOUS
  <2>1. \A r \in Requests : answer[r].code = "ok" => InScope(r)
    BY DEF LibraryFacts, Scoped
  <2>2. \A a \in Requests : artifacts[a].version # None =>
           LET v == versions[artifacts[a].version] IN
           v.org = artifacts[a].org /\ v.doc = artifacts[a].doc
    BY DEF LibraryFacts, Fits
  <2> QED BY <2>1, <2>2 DEF InScope, AnswersAreScoped
<1> QED BY <1>1, LibraryFactsHold, PTL
=============================================================================
