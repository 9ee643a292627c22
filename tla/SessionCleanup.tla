--------------------------- MODULE SessionCleanup ---------------------------
(***************************************************************************)
(* The Celery task security.sessions.cleanup, which deletes expired        *)
(* refresh tokens and old sessions in batches of a fixed size, over the    *)
(* rows that logins, rotations and revocations leave behind.               *)
(*                                                                         *)
(* Sessions live equally long, so they expire in the order of login; the   *)
(* tokens of a session expire with it (both lifetimes have their default). *)
(* Token ids are random, so the order of ids says nothing of age.          *)
(***************************************************************************)
EXTENDS Naturals, FiniteSets, Sequences, SequencesExt

CONSTANTS
    Sessions,     \* sessions the users may start
    Ids,          \* ids of refresh_tokens rows, ordered as PostgreSQL orders them
    BatchLimit,   \* settings.cleanup.session_batch_limit
    None

ASSUME CleanupAssumption ==
    Ids \subseteq Nat /\ BatchLimit \in Nat \ {0} /\ None \notin Ids

VARIABLES
    logins,     \* sessions in the order of login, hence of expires_at
    logouts,    \* revoked sessions in the order of revoked_at
    expired,    \* how many logins have expired
    retired,    \* how many of those are past their retention
    aged,       \* how many logouts are past theirs
    sessions,   \* auth_sessions rows
    tokens,     \* refresh_tokens rows: session and replaced_by_token_id
    minted,     \* history: every token id, by session
    lastRun     \* how the last run of the task ended

vars == <<logins, logouts, expired, retired, aged, sessions, tokens, minted, lastRun>>

Token == [session : Sessions, next : Ids \cup {None}]

(* expires_at of a session and of its tokens, as a rank.                   *)
ExpiresAt(s) == CHOOSE i \in 1 .. Len(logins) : logins[i] = s
RevokedAt(s) == CHOOSE i \in 1 .. Len(logouts) : logouts[i] = s

Expired(s) == ExpiresAt(s) <= expired
Revoked(s) == s \in Range(logouts)
Active(s)  == s \in Range(logins) /\ ~Expired(s) /\ ~Revoked(s)

-----------------------------------------------------------------------------
Init ==
    /\ logins = <<>> /\ logouts = <<>>
    /\ expired = 0 /\ retired = 0 /\ aged = 0
    /\ sessions = {}
    /\ tokens = [i \in {} |-> None]
    /\ minted = [s \in Sessions |-> {}]
    /\ lastRun = "none"

Fresh(i) == \A s \in Sessions : i \notin minted[s]

(* SqlAlchemySessionRepository.add                                         *)
Login(s, i) ==
    /\ s \notin Range(logins) /\ Fresh(i)
    /\ logins' = Append(logins, s)
    /\ sessions' = sessions \cup {s}
    /\ tokens' = [j \in DOMAIN tokens \cup {i} |->
                    IF j = i THEN [session |-> s, next |-> None] ELSE tokens[j]]
    /\ minted' = [minted EXCEPT ![s] = @ \cup {i}]
    /\ UNCHANGED <<logouts, expired, retired, aged, lastRun>>

(* rotate_refresh_token: token c of an active session is replaced by i.    *)
Rotate(c, i) ==
    /\ c \in DOMAIN tokens /\ tokens[c].next = None
    /\ Active(tokens[c].session) /\ Fresh(i)
    /\ tokens' = [j \in DOMAIN tokens \cup {i} |->
                    IF j = i THEN [tokens[c] EXCEPT !.next = None]
                    ELSE IF j = c THEN [tokens[c] EXCEPT !.next = i]
                    ELSE tokens[j]]
    /\ minted' = [minted EXCEPT ![tokens[c].session] = @ \cup {i}]
    /\ UNCHANGED <<logins, logouts, expired, retired, aged, sessions, lastRun>>

(* repository.revoke, revoke_all_for_user: expired sessions included.      *)
Revoke(s) ==
    /\ s \in sessions /\ ~Revoked(s)
    /\ logouts' = Append(logouts, s)
    /\ UNCHANGED <<logins, expired, retired, aged, sessions, tokens, minted, lastRun>>

(* Time passes an expires_at, or the end of a retention.                   *)
PassExpiry ==
    /\ expired < Len(logins)
    /\ expired' = expired + 1
    /\ UNCHANGED <<logins, logouts, retired, aged, sessions, tokens, minted, lastRun>>

PassExpiredRetention ==
    /\ retired < expired
    /\ retired' = retired + 1
    /\ UNCHANGED <<logins, logouts, expired, aged, sessions, tokens, minted, lastRun>>

PassRevokedRetention ==
    /\ aged < Len(logouts)
    /\ aged' = aged + 1
    /\ UNCHANGED <<logins, logouts, expired, retired, sessions, tokens, minted, lastRun>>

-----------------------------------------------------------------------------
(* The three SELECT ... ORDER BY ... LIMIT of a run.                       *)

(* Fault: used tokens are collected as soon as they are replaced.          *)
Fault_TokenBatchUsed ==
    {i \in DOMAIN tokens : Expired(tokens[i].session) \/ tokens[i].next # None}

(* Fault: used tokens are left for later.                                  *)
Fault_TokenBatchUnused ==
    {i \in DOMAIN tokens : Expired(tokens[i].session) /\ tokens[i].next = None}

(* delete_expired_refresh_tokens, ordered by (expires_at, id).             *)
TokenBatch ==
    LET old == {i \in DOMAIN tokens : Expired(tokens[i].session)}
        before(i, j) == LET e == ExpiresAt(tokens[i].session)
                            f == ExpiresAt(tokens[j].session)
                        IN e < f \/ (e = f /\ i < j)
    IN {i \in old : Cardinality({j \in old : before(j, i)}) < BatchLimit}

(* Fault: revoked sessions are left to the other DELETE.                   *)
Fault_ExpiredBatchUnrevoked == {s \in sessions : ExpiresAt(s) <= retired /\ ~Revoked(s)}

(* delete_expired_sessions, ordered by expires_at.                         *)
ExpiredBatch ==
    LET old == {s \in sessions : ExpiresAt(s) <= retired}
    IN {s \in old : Cardinality({q \in old : ExpiresAt(q) < ExpiresAt(s)}) < BatchLimit}

(* delete_revoked_sessions, ordered by revoked_at.                         *)
RevokedBatch(rows) ==
    LET old == {s \in rows : Revoked(s) /\ RevokedAt(s) <= aged}
    IN {s \in old : Cardinality({q \in old : RevokedAt(q) < RevokedAt(s)}) < BatchLimit}

(* replaced_by_token_id has no ON DELETE: a token may not be deleted while *)
(* a row that stays names it as its replacement.                           *)
Referenced(batch) ==
    \E i \in DOMAIN tokens \ batch : tokens[i].next \in batch

(* CleanupExpiredSessions: one transaction.  Deleting a session cascades   *)
(* to its tokens.                                                          *)
Cleanup ==
    /\ ~Referenced(TokenBatch)
    /\ LET gone == ExpiredBatch \cup RevokedBatch(sessions \ ExpiredBatch)
       IN /\ sessions' = sessions \ gone
          /\ tokens' = [i \in {j \in DOMAIN tokens \ TokenBatch :
                                 tokens[j].session \notin gone} |-> tokens[i]]
    /\ lastRun' = "ok"
    /\ UNCHANGED <<logins, logouts, expired, retired, aged, minted>>

(* The foreign key refuses the first DELETE; everything is rolled back,    *)
(* and the task's three retries fare the same.                             *)
CleanupFails ==
    /\ Referenced(TokenBatch)
    /\ lastRun' = "failed"
    /\ UNCHANGED <<logins, logouts, expired, retired, aged, sessions, tokens, minted>>

Run == Cleanup \/ CleanupFails

Next ==
    \/ \E s \in Sessions, i \in Ids : Login(s, i)
    \/ \E c, i \in Ids : Rotate(c, i)
    \/ \E s \in Sessions : Revoke(s)
    \/ PassExpiry
    \/ PassExpiredRetention
    \/ PassRevokedRetention
    \/ Run

Spec == Init /\ [][Next]_vars

(* Celery Beat keeps scheduling the task, and time passes.                 *)
Fairness ==
    /\ WF_vars(Run)
    /\ WF_vars(PassExpiry)
    /\ WF_vars(PassExpiredRetention)

FairSpec == Spec /\ Fairness

-----------------------------------------------------------------------------
(* Properties.                                                             *)

(* Every row and every clock holds a value of its kind.                    *)
TypeOK ==
    /\ Range(logins) \subseteq Sessions /\ Range(logouts) \subseteq Range(logins)
    /\ expired \in 0 .. Len(logins) /\ retired \in 0 .. expired
    /\ aged \in 0 .. Len(logouts)
    /\ sessions \subseteq Range(logins)
    /\ DOMAIN tokens \subseteq Ids
    /\ \A i \in DOMAIN tokens : tokens[i] \in Token
    /\ minted \in [Sessions -> SUBSET Ids]
    /\ lastRun \in {"none", "ok", "failed"}

(* Cleanup never takes anything from an active session: its row and every  *)
(* token it was ever given are there, the used ones as replay evidence.    *)
ActiveSessionIsWhole ==
    \A s \in Sessions : Active(s) =>
        /\ s \in sessions
        /\ \A i \in minted[s] : i \in DOMAIN tokens /\ tokens[i].session = s

(* Every refresh token of an expired session is deleted in the end.        *)
ExpiredTokensDeleted ==
    \A i \in Ids :
        (i \in DOMAIN tokens /\ Expired(tokens[i].session)) ~> (i \notin DOMAIN tokens)

(* More tokens are expired than one batch holds.                           *)
Crowded == Cardinality({i \in DOMAIN tokens : Expired(tokens[i].session)}) > BatchLimit

(* Only a backlog larger than a batch can keep the task from deleting an   *)
(* expired token, however its session was rotated or revoked               *)
(* (delete_expired_refresh_tokens takes chains whole).                     *)
ExpiredTokensGo ==
    \A i \in Ids :
        (i \in DOMAIN tokens /\ Expired(tokens[i].session))
            ~> (i \notin DOMAIN tokens \/ Crowded)

(* Likewise every session past its retention, revoked or not, is deleted   *)
(* in the end.                                                             *)
RetiredSessionsGo ==
    \A s \in Sessions :
        (s \in sessions /\ ExpiresAt(s) <= retired) ~> (s \notin sessions \/ Crowded)
=============================================================================
