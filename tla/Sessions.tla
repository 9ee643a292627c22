------------------------------ MODULE Sessions ------------------------------
(***************************************************************************)
(* Authentication sessions and refresh-token rotation of one user          *)
(* (application/identity/session_lifecycle.py over the auth_sessions and   *)
(* refresh_tokens tables).  Refresh, logout and logout-all requests run    *)
(* concurrently in PostgreSQL READ COMMITTED transactions: every statement *)
(* sees the rows committed when it starts; an UPDATE of a row another      *)
(* transaction has changed waits for it to end and then tests its WHERE    *)
(* clause again on that row alone; an INSERT that collides with an         *)
(* uncommitted one waits for it.  One action is one statement, or one row  *)
(* of an UPDATE.                                                           *)
(*                                                                         *)
(* Both lifetimes have their default, equal value, so that a session and   *)
(* its tokens expire together.                                             *)
(***************************************************************************)
EXTENDS Naturals

CONSTANTS
    Requests,   \* HTTP requests of the user and of whoever holds a token
    Sessions,   \* sessions the user may start
    MaxGen      \* bound on the generations of a refresh token

ASSUME SessionsAssumption ==
    /\ MaxGen \in Nat
    /\ Sessions # {}
    /\ Sessions \cap (Sessions \X (0 .. MaxGen)) = {}   \* rows of two tables

VARIABLES
    started,    \* auth_sessions rows
    ended,      \* those with revoked_at set
    expired,    \* those whose expires_at has passed
    issued,     \* refresh_tokens rows
    used,       \* those with used_at and replaced_by_token_id set
    revoked,    \* those with revoked_at set
    pc,         \* where a request is
    cmd,        \* its token; for a logout, the session only counts
    txn,        \* its open transaction
    answer,     \* what it returned
    arrival     \* the sessions started, revoked and expired when it arrived

tables == <<started, ended, expired, issued, used, revoked>>
vars == <<started, ended, expired, issued, used, revoked, pc, cmd, txn, answer, arrival>>

-----------------------------------------------------------------------------
(* A token is named by its session and generation: token digests are       *)
(* random and (session_id, generation) is unique.                          *)
Tokens == Sessions \X (0 .. MaxGen)

TokensOf(s) == {t \in Tokens : t[1] = s}

(* Uncommitted writes, locked rows, rows the running UPDATE has still to   *)
(* process, sessions whose tokens are still to be revoked, and whether the *)
(* session row selected by revoke was already revoked.                     *)
Txn == [issued : SUBSET Tokens, used : SUBSET Tokens, revoked : SUBSET Tokens,
        ended  : SUBSET Sessions,
        locks  : SUBSET (Tokens \cup Sessions),
        todo   : SUBSET (Tokens \cup Sessions),
        queue  : SUBSET Sessions,
        copy   : BOOLEAN]

NoTxn == [issued |-> {}, used |-> {}, revoked |-> {}, ended |-> {},
          locks |-> {}, todo |-> {}, queue |-> {}, copy |-> FALSE]

(* A token a committed row says may still be rotated or revoked.           *)
Current(t) == t \in issued /\ t \notin used /\ t \notin revoked

Session(r) == cmd[r][1]

(* RefreshTokenRecord.replacement                                          *)
Successor(t) == <<t[1], t[2] + 1>>

(* Fault: the revocation of the session is not looked at.                  *)
Fault_ActiveUntilExpiry(r) == Session(r) \notin arrival[r].expired

(* The session is not revoked, and was not expired at rotated_at, the time *)
(* RefreshSession reads first.                                             *)
Active(r) == Session(r) \notin ended /\ Session(r) \notin arrival[r].expired

(* No other transaction has the row locked.                                *)
Free(r, row) == \A q \in Requests \ {r} : row \notin txn[q].locks

Goto(r, l) == pc' = [pc EXCEPT ![r] = l]

(* The request ends and nothing of its transaction is kept.                *)
Return(r, code) ==
    /\ Goto(r, "done")
    /\ answer' = [answer EXCEPT ![r] = code]
    /\ txn' = [txn EXCEPT ![r] = NoTxn]

(* A request arrives and names a token, or the session of a token.         *)
Arrive(r, t) ==
    /\ pc[r] = "idle"
    /\ cmd' = [cmd EXCEPT ![r] = t]
    /\ arrival' = [arrival EXCEPT ![r] = [known |-> started, ended |-> ended, expired |-> expired]]

Live(r) == pc[r] \notin {"idle", "done", "crashed"}

-----------------------------------------------------------------------------
Init ==
    /\ started = {} /\ ended = {} /\ expired = {}
    /\ issued = {} /\ used = {} /\ revoked = {}
    /\ pc = [r \in Requests |-> "idle"]
    /\ cmd \in [Requests -> {CHOOSE t \in Tokens : TRUE}]
    /\ txn = [r \in Requests |-> NoTxn]
    /\ answer = [r \in Requests |-> "none"]
    /\ arrival = [r \in Requests |-> [known |-> {}, ended |-> {}, expired |-> {}]]

(* StartUserSession, one transaction on rows nobody else knows of.         *)
Login(s) ==
    /\ s \notin started
    /\ started' = started \cup {s}
    /\ issued' = issued \cup {<<s, 0>>}
    /\ UNCHANGED <<ended, expired, used, revoked, pc, cmd, txn, answer, arrival>>

(* expires_at of the session and of its tokens passes.                     *)
Expire(s) ==
    /\ s \in started /\ s \notin expired
    /\ expired' = expired \cup {s}
    /\ UNCHANGED <<started, ended, issued, used, revoked, pc, cmd, txn, answer, arrival>>

(* RefreshSession selects the row of the token.  A consumed one is a       *)
(* replay, which revokes the session whatever else holds.                  *)
RefreshReplayed(r, t) ==
    /\ Arrive(r, t)
    /\ t \in issued /\ t \in used
    /\ Goto(r, "revoke_replay")
    /\ UNCHANGED <<tables, txn, answer>>

RefreshRefused(r, t) ==
    /\ Arrive(r, t)
    /\ t \in issued /\ t \notin used
    /\ t \in revoked \/ t[1] \in expired
    /\ Return(r, IF t \in revoked THEN "invalid" ELSE "expired")
    /\ UNCHANGED tables

RefreshCurrent(r, t) ==
    /\ Arrive(r, t)
    /\ Current(t) /\ t[1] \notin expired
    /\ t[2] < MaxGen
    /\ Goto(r, "check")
    /\ UNCHANGED <<tables, txn, answer>>

(* get_active_by_id                                                        *)
CheckSession(r) ==
    /\ pc[r] = "check"
    /\ IF Active(r)
       THEN Goto(r, "insert") /\ UNCHANGED <<txn, answer>>
       ELSE Return(r, "invalid")
    /\ UNCHANGED <<tables, cmd, arrival>>

(* rotate_refresh_token inserts the replacement first: the unique          *)
(* constraint makes it wait for, or lose to, another rotation.             *)
InsertReplacement(r) ==
    /\ pc[r] = "insert"
    /\ \A q \in Requests \ {r} : Successor(cmd[r]) \notin txn[q].issued
    /\ IF Successor(cmd[r]) \in issued
       THEN Return(r, "conflict")
       ELSE /\ txn' = [txn EXCEPT ![r] = [@ EXCEPT !.issued = {Successor(cmd[r])}]]
            /\ Goto(r, "consume")
            /\ UNCHANGED answer
    /\ UNCHANGED <<tables, cmd, arrival>>

(* Fault: the session row is locked before the token.                      *)
Fault_BeginConsumeLocksSession(r) ==
    /\ pc[r] = "consume" /\ Free(r, Session(r))
    /\ IF Current(cmd[r]) /\ Active(r)
       THEN /\ txn' = [txn EXCEPT ![r] = [@ EXCEPT !.todo = {cmd[r]},
                                                   !.locks = {Session(r)}]]
            /\ Goto(r, "consuming")
            /\ UNCHANGED answer
       ELSE Return(r, "conflict")
    /\ UNCHANGED <<tables, cmd, arrival>>

(* Its UPDATE of the consumed token starts: token and session are tested   *)
(* as they are committed now.                                              *)
BeginConsume(r) ==
    /\ pc[r] = "consume"
    /\ IF Current(cmd[r]) /\ Active(r)
       THEN /\ txn' = [txn EXCEPT ![r] = [@ EXCEPT !.todo = {cmd[r]}]]
            /\ Goto(r, "consuming")
            /\ UNCHANGED answer
       ELSE Return(r, "conflict")
    /\ UNCHANGED <<tables, cmd, arrival>>

(* Fault: the row count of the UPDATE is ignored.                          *)
Fault_ConsumeUnchecked(r) ==
    /\ pc[r] = "consuming"
    /\ Free(r, cmd[r])
    /\ txn' = [txn EXCEPT ![r] = [@ EXCEPT !.used = IF Current(cmd[r]) THEN {cmd[r]} ELSE {},
                                           !.todo = {},
                                           !.locks = {cmd[r]}]]
    /\ Goto(r, "commit_refresh")
    /\ UNCHANGED <<tables, cmd, answer, arrival>>

(* The row lock is obtained; only the token is tested again.               *)
Consume(r) ==
    /\ pc[r] = "consuming"
    /\ Free(r, cmd[r])
    /\ IF Current(cmd[r])
       THEN /\ txn' = [txn EXCEPT ![r] = [@ EXCEPT !.used = {cmd[r]},
                                                   !.todo = {},
                                                   !.locks = {cmd[r]}]]
            /\ Goto(r, "commit_refresh")
            /\ UNCHANGED answer
       ELSE Return(r, "conflict")
    /\ UNCHANGED <<tables, cmd, arrival>>

(* LogoutSession by an authenticated owner.                                *)
Logout(r, s) ==
    /\ Arrive(r, <<s, 0>>)
    /\ s \in started \ (ended \cup expired)
    /\ Goto(r, "revoke_logout")
    /\ UNCHANGED <<tables, txn, answer>>

(* repository.revoke selects the session row.                              *)
ReadSession(r) ==
    /\ pc[r] \in {"revoke_replay", "revoke_logout"}
    /\ txn' = [txn EXCEPT ![r] = [@ EXCEPT !.copy = Session(r) \in ended,
                                           !.queue = {Session(r)}]]
    /\ Goto(r, IF pc[r] = "revoke_replay" THEN "tokens_replay" ELSE "tokens_logout")
    /\ UNCHANGED <<tables, cmd, answer, arrival>>

(* _revoke_current_refresh_tokens: the UPDATE of one session starts.       *)
BeginRevokeTokens(r, s) ==
    /\ pc[r] \in {"tokens_replay", "tokens_logout", "tokens_all"}
    /\ txn[r].todo = {} /\ s \in txn[r].queue
    /\ txn' = [txn EXCEPT ![r] = [@ EXCEPT !.todo = {t \in TokensOf(s) : Current(t)},
                                           !.queue = txn[r].queue \ {s}]]
    /\ UNCHANGED <<tables, pc, cmd, answer, arrival>>

(* The lock of one of its rows is obtained and its WHERE tested again.     *)
RevokeToken(r, t) ==
    /\ pc[r] \in {"tokens_replay", "tokens_logout", "tokens_all"}
    /\ t \in txn[r].todo
    /\ Free(r, t)
    /\ txn' = [txn EXCEPT ![r] =
         [@ EXCEPT !.todo = txn[r].todo \ {t},
                   !.locks = txn[r].locks \cup {t},
                   !.revoked = txn[r].revoked \cup (IF Current(t) THEN {t} ELSE {})]]
    /\ UNCHANGED <<tables, pc, cmd, answer, arrival>>

TokensDone(r) == txn[r].todo = {} /\ txn[r].queue = {}

(* Fault: a replay revokes the tokens and not the session.                 *)
Fault_EndSessionOnLogout(r) ==
    /\ pc[r] \in {"tokens_replay", "tokens_logout"}
    /\ TokensDone(r)
    /\ IF txn[r].copy \/ pc[r] = "tokens_replay"
       THEN UNCHANGED txn
       ELSE /\ Free(r, Session(r))
            /\ txn' = [txn EXCEPT ![r] = [@ EXCEPT !.ended = {Session(r)},
                                                   !.locks = txn[r].locks \cup {Session(r)}]]
    /\ Goto(r, IF pc[r] = "tokens_replay" THEN "commit_replay" ELSE "commit_logout")
    /\ UNCHANGED <<tables, cmd, answer, arrival>>

(* revoke flushes the session row last, unless it was already revoked.     *)
EndSession(r) ==
    /\ pc[r] \in {"tokens_replay", "tokens_logout"}
    /\ TokensDone(r)
    /\ IF txn[r].copy
       THEN UNCHANGED txn
       ELSE /\ Free(r, Session(r))
            /\ txn' = [txn EXCEPT ![r] = [@ EXCEPT !.ended = {Session(r)},
                                                   !.locks = txn[r].locks \cup {Session(r)}]]
    /\ Goto(r, IF pc[r] = "tokens_replay" THEN "commit_replay" ELSE "commit_logout")
    /\ UNCHANGED <<tables, cmd, answer, arrival>>

(* LogoutAllSessions by an authenticated user.                             *)
LogoutAll(r, s) ==
    /\ Arrive(r, <<s, 0>>)
    /\ s \in started \ (ended \cup expired)
    /\ Goto(r, "revoke_all")
    /\ UNCHANGED <<tables, txn, answer>>

(* revoke_all_for_user: the UPDATE of the active sessions starts, ...      *)
BeginEndSessions(r) ==
    /\ pc[r] = "revoke_all"
    /\ txn' = [txn EXCEPT ![r] = [@ EXCEPT !.todo = started \ ended]]
    /\ Goto(r, "ending")
    /\ UNCHANGED <<tables, cmd, answer, arrival>>

(* ... takes their rows one by one, ...                                    *)
EndOneSession(r, s) ==
    /\ pc[r] = "ending"
    /\ s \in txn[r].todo
    /\ Free(r, s)
    /\ LET active == IF s \in ended THEN {} ELSE {s}
       IN txn' = [txn EXCEPT ![r] = [@ EXCEPT !.todo = txn[r].todo \ {s},
                                              !.locks = txn[r].locks \cup {s},
                                              !.ended = txn[r].ended \cup active,
                                              !.queue = txn[r].queue \cup active]]
    /\ UNCHANGED <<tables, pc, cmd, answer, arrival>>

(* ... and returns the sessions whose tokens are revoked next.             *)
EndedAll(r) ==
    /\ pc[r] = "ending"
    /\ txn[r].todo = {}
    /\ Goto(r, "tokens_all")
    /\ UNCHANGED <<tables, cmd, txn, answer, arrival>>

(* Fault: the use case answers without committing.                         *)
Fault_CommitForgotten(r, code) ==
    /\ Return(r, code)
    /\ UNCHANGED <<tables, cmd, arrival>>

(* TransactionManager.commit, then the answer of the use case.             *)
Commit(r, code) ==
    /\ issued' = issued \cup txn[r].issued
    /\ used' = used \cup txn[r].used
    /\ revoked' = revoked \cup txn[r].revoked
    /\ ended' = ended \cup txn[r].ended
    /\ Return(r, code)
    /\ UNCHANGED <<started, expired, cmd, arrival>>

CommitRefresh(r)   == pc[r] = "commit_refresh" /\ Commit(r, "rotated")
CommitReplay(r)    == pc[r] = "commit_replay" /\ Commit(r, "replay")
CommitLogout(r)    == pc[r] = "commit_logout" /\ Commit(r, "logged_out")
CommitLogoutAll(r) == pc[r] = "tokens_all" /\ TokensDone(r) /\ Commit(r, "logged_out_all")

(* Request r cannot go on before q's transaction ends.                     *)
Waits(r, q) ==
    \/ pc[r] = "insert" /\ Successor(cmd[r]) \in txn[q].issued
    \/ txn[r].todo \cap txn[q].locks # {}
    \/ /\ pc[r] \in {"tokens_replay", "tokens_logout"}
       /\ TokensDone(r) /\ ~txn[r].copy
       /\ Session(r) \in txn[q].locks

(* PostgreSQL's deadlock detector aborts a transaction of a wait cycle,    *)
(* and the use case rolls back.                                            *)
DeadlockVictim(r) ==
    /\ \E S \in SUBSET Requests :
          /\ r \in S
          /\ \A q \in S : \E p \in S \ {q} : Waits(q, p)
          /\ \A p \in S : \E q \in S \ {p} : Waits(q, p)
    /\ Return(r, "error")
    /\ UNCHANGED <<tables, cmd, arrival>>

(* The process or its database connection is lost.                         *)
Crash(r) ==
    /\ Live(r)
    /\ Goto(r, "crashed")
    /\ txn' = [txn EXCEPT ![r] = NoTxn]
    /\ UNCHANGED <<tables, cmd, answer, arrival>>

Step(r) ==
    \/ CheckSession(r)
    \/ InsertReplacement(r)
    \/ BeginConsume(r)
    \/ Consume(r)
    \/ ReadSession(r)
    \/ \E s \in Sessions : BeginRevokeTokens(r, s)
    \/ \E t \in Tokens : RevokeToken(r, t)
    \/ EndSession(r)
    \/ BeginEndSessions(r)
    \/ \E s \in Sessions : EndOneSession(r, s)
    \/ EndedAll(r)
    \/ CommitRefresh(r)
    \/ CommitReplay(r)
    \/ CommitLogout(r)
    \/ CommitLogoutAll(r)
    \/ DeadlockVictim(r)

Arrival(r) ==
    \/ \E t \in Tokens : RefreshReplayed(r, t)
    \/ \E t \in Tokens : RefreshRefused(r, t)
    \/ \E t \in Tokens : RefreshCurrent(r, t)
    \/ \E s \in Sessions : Logout(r, s)
    \/ \E s \in Sessions : LogoutAll(r, s)

Next ==
    \/ \E s \in Sessions : Login(s)
    \/ \E s \in Sessions : Expire(s)
    \/ \E r \in Requests : Arrival(r) \/ Step(r) \/ Crash(r)

Spec == Init /\ [][Next]_vars

-----------------------------------------------------------------------------
(* Properties.                                                             *)

(* Every table and every transaction holds values of its own kind.         *)
TypeOK ==
    /\ started \subseteq Sessions /\ ended \subseteq Sessions /\ expired \subseteq Sessions
    /\ issued \subseteq Tokens /\ used \subseteq Tokens /\ revoked \subseteq Tokens
    /\ pc \in [Requests -> {"idle", "check", "insert", "consume", "consuming",
                            "commit_refresh", "revoke_replay", "revoke_logout",
                            "revoke_all", "ending", "tokens_replay", "tokens_logout",
                            "tokens_all", "commit_replay", "commit_logout", "done", "crashed"}]
    /\ cmd \in [Requests -> Tokens]
    /\ txn \in [Requests -> Txn]
    /\ answer \in [Requests -> {"none", "invalid", "expired", "conflict", "rotated",
                                "replay", "logged_out", "logged_out_all", "error"}]
    /\ arrival \in [Requests -> [known : SUBSET Sessions, ended : SUBSET Sessions,
                                 expired : SUBSET Sessions]]

(* The rotation history of a session is one chain: a token has a successor *)
(* exactly when it has been consumed (rotate_refresh_token's INSERT and    *)
(* UPDATE commit together, and a loser leaves neither).                    *)
Lineage ==
    \A t \in Tokens :
        /\ t \in used => Successor(t) \in issued
        /\ t \in issued /\ t[2] > 0 => <<t[1], t[2] - 1>> \in used

(* A refresh token is exchanged at most once, however many requests        *)
(* present it at the same time.                                            *)
SingleUse ==
    \A r, q \in Requests :
        answer[r] = "rotated" /\ answer[q] = "rotated" /\ cmd[r] = cmd[q] => r = q

(* No refresh that arrives after the session was revoked or expired is     *)
(* answered with new tokens (the session tests of RefreshSession and of    *)
(* rotate_refresh_token).                                                  *)
DeadSessionNotRefreshed ==
    \A r \in Requests : answer[r] = "rotated" =>
        Session(r) \notin arrival[r].ended \cup arrival[r].expired

(* What an answer says of revocation is so for ever: a logout and a        *)
(* detected replay have revoked their session, and logout-all every        *)
(* session the user had when it began.                                     *)
AnsweredRevocationHolds ==
    \A r \in Requests :
        /\ answer[r] \in {"replay", "logged_out"} => Session(r) \in ended
        /\ answer[r] = "logged_out_all" => arrival[r].known \subseteq ended

(* Only logout-all can be part of a deadlock: refreshes, replays and       *)
(* logouts take token rows before the session row, logout-all the other    *)
(* way round, and two of them in any order (revoke, rotate_refresh_token,  *)
(* revoke_all_for_user).                                                   *)
DeadlockNeedsLogoutAll ==
    \A S \in SUBSET Requests :
        S # {} /\ (\A q \in S : \E p \in S \ {q} : Waits(q, p))
            => \E r \in S : pc[r] \in {"ending", "tokens_all"}

(* The rows as the holders of tokens see them: see RotatingTokens.         *)
Unspent == issued \ used

Over == ended \cup expired

Told(code) ==
    CASE code \in {"invalid", "expired", "conflict"} -> "refused"
      [] code = "error" -> "failed"
      [] OTHER -> code

Verdict == [r \in Requests |->
              IF answer[r] = "none" THEN [code |-> "none", token |-> <<>>]
              ELSE [code |-> Told(answer[r]), token |-> cmd[r]]]

(* What had begun and was over when a request arrived that has not been    *)
(* answered.                                                               *)
At == [r \in Requests |->
         IF pc[r] = "idle" \/ answer[r] # "none"
         THEN [here |-> FALSE, begun |-> {}, over |-> {}]
         ELSE [here |-> TRUE, begun |-> arrival[r].known,
               over |-> arrival[r].ended \cup arrival[r].expired]]

Abstract == INSTANCE RotatingTokens
                WITH live <- Unspent, spent <- used, over <- Over, at <- At,
                     verdict <- Verdict

(* Refreshes, replays and logouts take effect in one step each, as         *)
(* RotatingTokens promises, and each answer is justified when it is given: *)
(* a token is replaced once and only by a request that arrived while its   *)
(* session was alive, and it is refused only when it is spent or its       *)
(* session over (RefreshSession, LogoutSession, LogoutAllSessions).        *)
ImplementsRotatingTokens == Abstract!Spec
=============================================================================
