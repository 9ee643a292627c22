-------------------------------- MODULE Login --------------------------------
(***************************************************************************)
(* The login and refresh routes (apps/api routes/auth.py) over the Redis   *)
(* rate limiter (infrastructure/security/rate_limit.py), the password      *)
(* check (application/identity/authentication.py) and the independent      *)
(* audit recorder (apps/api audit.py).                                     *)
(*                                                                         *)
(* A route reads its counters, decides, and counts the failure in later    *)
(* steps, one Redis command or one statement each; requests interleave,    *)
(* Redis and the audit store fail now and then, and counters expire.       *)
(* What RefreshSession does with a refresh token is Sessions' subject.     *)
(***************************************************************************)
EXTENDS Naturals, Sequences, FiniteSets

CONSTANTS
    Requests,       \* login and refresh requests
    Emails,         \* normalized identifiers; those without a row too
    Clients,        \* client hosts; an unknown one is a client too
    Passwords,
    Threshold,      \* the limit of each kind of counter, from the settings
    MaxChanges,     \* bound on changes of users and passwords
    None

ASSUME LoginAssumption ==
    /\ Threshold \in [{"login_id", "login_client", "refresh_client"} -> Nat \ {0}]
    /\ MaxChanges \in Nat
    /\ None \notin Passwords

VARIABLES
    policy,     \* settings.rate_limit.failure_policy
    hits,       \* Redis counters: the failures counted in the open window
    expiring,   \* the keys that have a TTL
    active,     \* users.is_active, by email
    password,   \* the password that verifies, None without a credential
    trail,      \* committed audit events: request and event
    pc,         \* where a request is
    cmd,        \* its route, email, client and password
    todo,       \* the keys it still has to check or to count
    allowed,    \* the decision so far
    enabled,    \* is_active of the user row it has read
    answer,     \* what it returned
    blocked,    \* history: keys at their threshold ever since it arrived
    truths,     \* history: what was so of its user since it arrived
    counted,    \* history: the keys on which it was told it is counted
    outages,    \* history: the stores that have failed it
    changes     \* changes of users and passwords made so far

limiter == <<hits, expiring>>
accounts == <<active, password, changes>>
traces == <<counted, outages>>
vars == <<policy, hits, expiring, active, password, trail, pc, cmd, todo, allowed,
          enabled, answer, blocked, truths, counted, outages, changes>>

-----------------------------------------------------------------------------
(* The limiter's keys.                                                     *)
Keys == ({"login_id"} \X Emails) \cup ({"login_client", "refresh_client"} \X Clients)

KeysOf(c) == IF c.route = "login"
             THEN <<<<"login_id", c.email>>, <<"login_client", c.client>>>>
             ELSE <<<<"refresh_client", c.client>>>>

(* The comparison of _decision.                                            *)
Below(k) == Cardinality(hits[k]) < Threshold[k[1]]

Goto(r, l) == pc' = [pc EXCEPT ![r] = l]

Return(r, code) ==
    /\ Goto(r, "done")
    /\ answer' = [answer EXCEPT ![r].code = code]

(* The event that is recorded before the request is answered with code.    *)
Answer(r, l, code, event) ==
    /\ Goto(r, l)
    /\ answer' = [answer EXCEPT ![r] = [code |-> code, event |-> event]]

RateLimited(r) == IF cmd[r].route = "login" THEN "authentication.login_rate_limited"
                                            ELSE "session.refresh_rate_limited"

Unavailable == "security.rate_limit_backend_unavailable"

-----------------------------------------------------------------------------
Init ==
    /\ policy \in {"open", "closed"}
    /\ hits = [k \in Keys |-> {}] /\ expiring = {}
    /\ active \in [Emails -> {TRUE}]
    /\ password \in [Emails -> Passwords \cup {None}]
    /\ trail = {}
    /\ pc = [r \in Requests |-> "idle"]
    /\ cmd = [r \in Requests |-> [route |-> "none", email |-> None, client |-> None,
                                  password |-> None]]
    /\ todo = [r \in Requests |-> << >>]
    /\ allowed = [r \in Requests |-> TRUE]
    /\ enabled = [r \in Requests |-> FALSE]
    /\ answer = [r \in Requests |-> [code |-> "none", event |-> "none"]]
    /\ blocked = [r \in Requests |-> {}]
    /\ truths = [r \in Requests |-> {}]
    /\ counted = [r \in Requests |-> {}]
    /\ outages = [r \in Requests |-> {}]
    /\ changes = 0

(* User.disable and reactivate, saved by UserRepository.update.            *)
ToggleUser(e) ==
    /\ changes < MaxChanges
    /\ active' = [active EXCEPT ![e] = ~@]
    /\ changes' = changes + 1
    /\ UNCHANGED <<limiter, password, trail, pc, cmd, todo, allowed, enabled, answer, traces>>

(* SetUserPassword with credentials.set_for_user                           *)
SetPassword(e, p) ==
    /\ changes < MaxChanges /\ p # password[e]
    /\ password' = [password EXCEPT ![e] = p]
    /\ changes' = changes + 1
    /\ UNCHANGED <<limiter, active, trail, pc, cmd, todo, allowed, enabled, answer, traces>>

(* Redis drops a key when its TTL has passed.                              *)
Expire(k) ==
    /\ k \in expiring
    /\ hits' = [hits EXCEPT ![k] = {}]
    /\ expiring' = expiring \ {k}
    /\ UNCHANGED <<accounts, trail, pc, cmd, todo, allowed, enabled, answer, traces>>

-----------------------------------------------------------------------------
(* A request, whose Origin, and for refresh whose double-submit token, is  *)
(* tested before anything else.                                            *)
Arrive(r, c, trusted) ==
    /\ pc[r] = "idle"
    /\ cmd' = [cmd EXCEPT ![r] = c]
    /\ IF trusted
       THEN /\ todo' = [todo EXCEPT ![r] = KeysOf(c)]
            /\ Goto(r, "check")
            /\ UNCHANGED answer
       ELSE Return(r, "csrf_failed") /\ UNCHANGED todo
    /\ UNCHANGED <<limiter, accounts, trail, allowed, enabled, traces>>

(* Fault: the decision on the second key replaces that on the first.       *)
Fault_LastDecision(r) ==
    LET k == Head(todo[r])
        ok == Below(k)
        last == Len(todo[r]) = 1 IN
    /\ pc[r] = "check"
    /\ todo' = [todo EXCEPT ![r] = Tail(@)]
    /\ allowed' = [allowed EXCEPT ![r] = ok]
    /\ IF ~last THEN UNCHANGED <<pc, answer>>
       ELSE IF ok THEN Goto(r, "proceed") /\ UNCHANGED answer
       ELSE Answer(r, "record", "rate_limited", RateLimited(r))
    /\ UNCHANGED <<limiter, accounts, trail, cmd, enabled, traces>>

(* check_login_allowed and check_refresh_allowed: one key, GET and TTL.    *)
(* All keys are read, whatever the first one says.                         *)
CheckKey(r) ==
    LET k == Head(todo[r])
        ok == allowed[r] /\ Below(k)
        last == Len(todo[r]) = 1 IN
    /\ pc[r] = "check"
    /\ todo' = [todo EXCEPT ![r] = Tail(@)]
    /\ allowed' = [allowed EXCEPT ![r] = ok]
    /\ IF ~last THEN UNCHANGED <<pc, answer>>
       ELSE IF ok THEN Goto(r, "proceed") /\ UNCHANGED answer
       ELSE Answer(r, "record", "rate_limited", RateLimited(r))
    /\ UNCHANGED <<limiter, accounts, trail, cmd, enabled, traces>>

(* _redis_failure while a key is checked: the key allows the request, or   *)
(* the request is answered 429.                                            *)
CheckKeyFails(r) ==
    LET last == Len(todo[r]) = 1 IN
    /\ pc[r] = "check"
    /\ outages' = [outages EXCEPT ![r] = @ \cup {"redis"}]
    /\ IF policy = "closed"
       THEN Answer(r, "record", "rate_limited", Unavailable) /\ UNCHANGED todo
       ELSE /\ todo' = [todo EXCEPT ![r] = Tail(@)]
            /\ IF ~last THEN UNCHANGED <<pc, answer>>
               ELSE IF allowed[r] THEN Goto(r, "proceed") /\ UNCHANGED answer
               ELSE Answer(r, "record", "rate_limited", RateLimited(r))
    /\ UNCHANGED <<limiter, accounts, trail, cmd, allowed, enabled, counted>>

(* A failed attempt is to be counted on all keys.                          *)
Fail(r, event) ==
    /\ todo' = [todo EXCEPT ![r] = KeysOf(cmd[r])]
    /\ Answer(r, "count", "unauthorized", event)

(* AuthenticateUser reads the user, ...                                    *)
ReadUser(r) ==
    /\ pc[r] = "proceed" /\ cmd[r].route = "login"
    /\ enabled' = [enabled EXCEPT ![r] = active[cmd[r].email]]
    /\ Goto(r, "credential")
    /\ UNCHANGED <<limiter, accounts, trail, cmd, todo, allowed, answer, traces>>

(* Fault: a user that is disabled is let in.                               *)
Fault_DisabledUserPasses(r) ==
    LET c == cmd[r] IN
    /\ pc[r] = "credential"
    /\ IF password[c.email] = c.password
       THEN Goto(r, "start") /\ UNCHANGED <<todo, answer>>
       ELSE Fail(r, "authentication.login_failed")
    /\ UNCHANGED <<limiter, accounts, trail, cmd, allowed, enabled, traces>>

(* ... then the credential; the password is verified before is_active of   *)
(* the row read earlier is looked at.                                      *)
VerifyPassword(r) ==
    LET c == cmd[r] IN
    /\ pc[r] = "credential"
    /\ IF password[c.email] = c.password /\ enabled[r]
       THEN Goto(r, "start") /\ UNCHANGED <<todo, answer>>
       ELSE Fail(r, "authentication.login_failed")
    /\ UNCHANGED <<limiter, accounts, trail, cmd, allowed, enabled, traces>>

(* StartUserSession commits the session with its events, or the route      *)
(* answers 500 (TokenIssuanceError, or the database).                      *)
StartSession(r, issued) ==
    /\ pc[r] = "start"
    /\ IF issued
       THEN /\ trail' = trail \cup {<<r, "authentication.login_succeeded">>}
            /\ Goto(r, "clear")
            /\ UNCHANGED answer
       ELSE Return(r, "internal_error") /\ UNCHANGED trail
    /\ UNCHANGED <<limiter, accounts, cmd, todo, allowed, enabled, traces>>

(* The refresh route after its check: no cookie, or what RefreshSession    *)
(* returns or raises.                                                      *)
Refresh(r, outcome) ==
    /\ pc[r] = "proceed" /\ cmd[r].route = "refresh"
    /\ CASE outcome = "rotated" ->
              /\ trail' = trail \cup {<<r, "session.refreshed">>}
              /\ Goto(r, "clear") /\ UNCHANGED <<todo, answer>>
         [] outcome = "replay" ->
              /\ trail' = trail \cup {<<r, "session.refresh_replay_detected">>}
              /\ Fail(r, "none")
         [] outcome = "invalid" -> Fail(r, "session.refresh_failed") /\ UNCHANGED trail
         [] OTHER -> Return(r, "internal_error") /\ UNCHANGED <<trail, todo>>
    /\ UNCHANGED <<limiter, accounts, cmd, allowed, enabled, traces>>

(* Fault: EXPIRE is sent for no count that occurs.                         *)
Fault_NeverExpiring(keys, k) == keys

(* The script's EXPIRE: only the first failure of a window starts it.      *)
StartWindow(keys, k) == IF hits[k] = {} THEN keys \cup {k} ELSE keys

(* _increment_window: the script INCRs the next key of the request.        *)
Increment(r) ==
    /\ hits' = [hits EXCEPT ![Head(todo[r])] = @ \cup {r}]
    /\ expiring' = StartWindow(expiring, Head(todo[r]))

(* record_login_failure and record_refresh_failure, for one key.           *)
CountKey(r) ==
    /\ pc[r] = "count"
    /\ Increment(r)
    /\ todo' = [todo EXCEPT ![r] = Tail(@)]
    /\ counted' = [counted EXCEPT ![r] = @ \cup {Head(todo[r])}]
    /\ IF Len(todo[r]) = 1 THEN Goto(r, "record") ELSE UNCHANGED pc
    /\ UNCHANGED <<accounts, trail, cmd, allowed, enabled, answer, outages>>

(* Fault: a closed limiter lets the answer pass uncounted.                 *)
Fault_CountKeyLost(r, executed) ==
    /\ pc[r] = "count" /\ ~executed
    /\ todo' = [todo EXCEPT ![r] = Tail(@)]
    /\ IF Len(todo[r]) = 1 THEN Goto(r, "record") ELSE UNCHANGED pc
    /\ outages' = [outages EXCEPT ![r] = @ \cup {"redis"}]
    /\ UNCHANGED <<limiter, accounts, trail, cmd, allowed, enabled, answer, counted>>

(* Redis fails while the attempt is counted, before or after the script is *)
(* executed: an open limiter goes on, a closed one makes the answer a 429  *)
(* and records nothing else.                                               *)
CountKeyFails(r, executed) ==
    /\ pc[r] = "count"
    /\ IF executed THEN Increment(r) ELSE UNCHANGED limiter
    /\ outages' = [outages EXCEPT ![r] = @ \cup {"redis"}]
    /\ IF policy = "closed"
       THEN Answer(r, "record", "rate_limited", Unavailable) /\ UNCHANGED todo
       ELSE /\ todo' = [todo EXCEPT ![r] = Tail(@)]
            /\ IF Len(todo[r]) = 1 THEN Goto(r, "record") ELSE UNCHANGED pc
            /\ UNCHANGED answer
    /\ UNCHANGED <<accounts, trail, cmd, allowed, enabled, counted>>

(* _delete: one DEL of all keys of the request.                            *)
Delete(r) ==
    LET keys == {KeysOf(cmd[r])[i] : i \in 1 .. Len(KeysOf(cmd[r]))} IN
    /\ hits' = [k \in Keys |-> IF k \in keys THEN {} ELSE hits[k]]
    /\ expiring' = expiring \ keys

(* record_login_success and record_refresh_success.                        *)
ClearKeys(r) ==
    /\ pc[r] = "clear"
    /\ Delete(r)
    /\ Return(r, "ok")
    /\ UNCHANGED <<accounts, trail, cmd, todo, allowed, enabled, traces>>

(* Best effort: a failure, before or after the DEL is executed, is         *)
(* recorded when the limiter is closed, and the answer stays.              *)
ClearKeysFails(r, executed) ==
    /\ pc[r] = "clear"
    /\ IF executed THEN Delete(r) ELSE UNCHANGED limiter
    /\ IF policy = "closed" THEN Answer(r, "record", "ok", Unavailable) ELSE Return(r, "ok")
    /\ outages' = [outages EXCEPT ![r] = @ \cup {"redis"}]
    /\ UNCHANGED <<accounts, trail, cmd, todo, allowed, enabled, counted>>

(* record_independent_audit_event, a transaction of its own whose failure  *)
(* is only logged, and then the answer.                                    *)
RecordEvent(r, stored) ==
    /\ pc[r] = "record"
    /\ IF answer[r].event = "none" THEN UNCHANGED <<trail, outages>>
       ELSE IF stored
       THEN trail' = trail \cup {<<r, answer[r].event>>} /\ UNCHANGED outages
       ELSE outages' = [outages EXCEPT ![r] = @ \cup {"audit"}] /\ UNCHANGED trail
    /\ Goto(r, "done")
    /\ UNCHANGED <<limiter, accounts, cmd, todo, allowed, enabled, answer, counted>>

(* The process dies; what it has counted and recorded stays.               *)
Crash(r) ==
    /\ pc[r] \notin {"idle", "done", "crashed"}
    /\ Goto(r, "crashed")
    /\ UNCHANGED <<limiter, accounts, trail, cmd, todo, allowed, enabled, answer, traces>>

Command ==
    [route : {"login"}, email : Emails, client : Clients, password : Passwords] \cup
    [route : {"refresh"}, email : {None}, client : Clients, password : {None}]

Step(r) ==
    \/ \E c \in Command, trusted \in BOOLEAN : Arrive(r, c, trusted)
    \/ CheckKey(r)
    \/ CheckKeyFails(r)
    \/ ReadUser(r)
    \/ VerifyPassword(r)
    \/ \E issued \in BOOLEAN : StartSession(r, issued)
    \/ \E outcome \in {"rotated", "replay", "invalid", "error"} : Refresh(r, outcome)
    \/ CountKey(r)
    \/ \E executed \in BOOLEAN : CountKeyFails(r, executed)
    \/ ClearKeys(r)
    \/ \E executed \in BOOLEAN : ClearKeysFails(r, executed)
    \/ \E stored \in BOOLEAN : RecordEvent(r, stored)
    \/ Crash(r)

-----------------------------------------------------------------------------
(* History: while a request runs, what has been so ever since it arrived,  *)
(* and what has been so at some moment.                                    *)
Observe ==
    /\ blocked' = [r \in Requests |->
         IF pc'[r] = "idle" THEN {}
         ELSE {k \in IF pc[r] = "idle" THEN Keys ELSE blocked[r] : ~Below(k)'}]
    /\ truths' = [r \in Requests |->
         IF cmd'[r].route # "login" \/ pc[r] \in {"done", "crashed"} THEN truths[r]
         ELSE truths[r] \cup {<<active'[cmd'[r].email], password'[cmd'[r].email]>>}]

Next ==
    /\ \/ \E e \in Emails : ToggleUser(e)
       \/ \E e \in Emails, p \in Passwords : SetPassword(e, p)
       \/ \E k \in Keys : Expire(k)
       \/ \E r \in Requests : Step(r)
    /\ UNCHANGED policy
    /\ Observe

Spec == Init /\ [][Next]_vars

(* Time passes, and Redis drops the keys whose TTL has passed.             *)
Fairness == \A k \in Keys : WF_vars(Expire(k) /\ UNCHANGED policy /\ Observe)

FairSpec == Spec /\ Fairness

-----------------------------------------------------------------------------
(* Properties.                                                             *)

Admitted(r) == pc[r] \in {"proceed", "credential", "start", "clear"}

(* No password and no refresh token is looked at for a request that found  *)
(* one of its counters at the threshold for as long as it has been         *)
(* running, unless Redis failed under the open policy: the keys are read   *)
(* one after the other, and other requests count and clear them meanwhile. *)
BlockedNotAdmitted ==
    \A r \in Requests : Admitted(r) /\ "redis" \notin outages[r] =>
        \A i \in 1 .. Len(KeysOf(cmd[r])) : KeysOf(cmd[r])[i] \notin blocked[r]

(* A failure that was answered 401 has been counted on every key of the    *)
(* request, and recorded; under the closed policy Redis may fail at any    *)
(* command, under the open one it may not, and the audit store may not.    *)
FailureLeavesTraces ==
    \A r \in Requests : pc[r] = "done" /\ answer[r].code = "unauthorized" =>
        /\ \/ \A i \in 1 .. Len(KeysOf(cmd[r])) : KeysOf(cmd[r])[i] \in counted[r]
           \/ policy = "open" /\ "redis" \in outages[r]
        /\ \/ "audit" \in outages[r]
           \/ \E event \in {"authentication.login_failed", "session.refresh_failed",
                            "session.refresh_replay_detected"} : <<r, event>> \in trail

(* A session was started only for a user that was active, with a password  *)
(* that was theirs, and a login failed only for one that was disabled or   *)
(* whose password was another, at some moment while the request was        *)
(* running: user and credential are read in two statements.                *)
LoginWasTrue ==
    \A r \in Requests : cmd[r].route = "login" =>
        /\ <<r, "authentication.login_succeeded">> \in trail =>
             /\ \E t \in truths[r] : t[1]
             /\ \E t \in truths[r] : t[2] = cmd[r].password
        /\ answer[r].code = "unauthorized" =>
             \E t \in truths[r] : ~t[1] \/ t[2] # cmd[r].password

(* Nobody is locked out for ever: a counter at its threshold is below it   *)
(* again once its window has passed (INCR and EXPIRE are one script).      *)
LockoutEnds == \A k \in Keys : ~Below(k) ~> Below(k)
=============================================================================
