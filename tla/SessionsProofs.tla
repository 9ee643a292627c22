--------------------------- MODULE SessionsProofs ---------------------------
(***************************************************************************)
(* Proofs about sessions and refresh-token rotation, for any number of     *)
(* requests, sessions and generations: the rotation history is one chain,  *)
(* a token is exchanged once, a revoked session stays revoked and is not   *)
(* refreshed, only logout-all can be part of a deadlock, and all of it     *)
(* implements RotatingTokens.                                              *)
(*                                                                         *)
(* They rest on what a transaction has written and locked where its        *)
(* request is (Stage), on locks and unique values excluding each other     *)
(* (Apart), and on one open token per session (Chain).                     *)
(*                                                                         *)
(* The last section is about the task that deletes the rows they leave:    *)
(* it spares every active session, and a run that finds no more than its   *)
(* batch holds clears it (SessionCleanup).                                 *)
(***************************************************************************)
EXTENDS Sessions, Sequences, FiniteSetTheorems, TLAPS

-----------------------------------------------------------------------------
Quiet == {"idle", "check", "insert", "revoke_replay", "revoke_logout", "revoke_all",
          "done", "crashed"}

Replacing == {"consume", "consuming", "commit_refresh"}

Revoking == {"tokens_replay", "tokens_logout"}

Ended == {"commit_replay", "commit_logout"}

LoggingOutAll == {"ending", "tokens_all"}

(* The tables refer to each other.  Of the tokens of a session all but the *)
(* last are used: this carries Lineage through a rotation, and bounds what *)
(* one revocation has to lock.                                             *)
Chain ==
    /\ used \subseteq issued
    /\ \A t \in issued : t[1] \in started
    /\ \A t, u \in issued : t[1] = u[1] /\ t[2] < u[2] => t \in used

(* What the transaction of r has written and locked where r is.            *)
Wrote(r) ==
    LET x == txn[r] IN
    /\ pc[r] \in Quiet => x = NoTxn
    /\ x.issued = IF pc[r] \in Replacing THEN {Successor(cmd[r])} ELSE {}
    /\ x.used = IF pc[r] = "commit_refresh" THEN {cmd[r]} ELSE {}
    /\ x.used \cup x.revoked \subseteq x.locks
    /\ \A t \in x.used \cup x.revoked : Current(t)
    /\ pc[r] \in Replacing => x.revoked = {} /\ x.ended = {}
    /\ pc[r] \in {"consume", "consuming"} => x.locks = {}
    /\ pc[r] = "commit_refresh" => x.locks = {cmd[r]}

(* What is left to the transaction of r.                                   *)
Left(r) ==
    LET x == txn[r] IN
    /\ pc[r] \in {"consume", "commit_refresh"} \cup Ended => x.todo = {} /\ x.queue = {}
    /\ pc[r] = "consuming" => x.todo = {cmd[r]} /\ x.queue = {}
    /\ pc[r] \in Revoking =>
        /\ x.locks \subseteq Tokens /\ x.queue \subseteq {Session(r)}
        /\ x.ended = {}
        /\ x.todo \subseteq TokensOf(Session(r)) \cap issued
        /\ \A t, u \in x.todo : t = u
        /\ x.queue # {} => x.todo = {}
        /\ x.queue # {} \/ x.todo # {} => x.locks = {}
        /\ x.copy => Session(r) \in ended
    /\ pc[r] = "ending" => x.todo \subseteq Sessions
    /\ pc[r] = "tokens_all" => x.todo \subseteq Tokens

(* What a request knows of its session.                                    *)
Knows(r) ==
    /\ arrival[r].ended \subseteq ended
    /\ pc[r] \in {"check", "insert"} \cup Replacing =>
        /\ cmd[r] \in issued /\ cmd[r][2] < MaxGen
        /\ Session(r) \notin arrival[r].expired
    /\ pc[r] \in {"insert"} \cup Replacing => Session(r) \notin arrival[r].ended
    /\ pc[r] \in Replacing => Successor(cmd[r]) \notin issued
    /\ pc[r] \in Ended => Session(r) \in ended \cup txn[r].ended
    /\ pc[r] = "revoke_all" => arrival[r].known \subseteq started
    /\ pc[r] = "ending" => arrival[r].known \subseteq ended \cup txn[r].ended \cup txn[r].todo
    /\ pc[r] = "tokens_all" => arrival[r].known \subseteq ended \cup txn[r].ended

(* What r was answered.                                                    *)
Answered(r) ==
    /\ answer[r] # "none" => pc[r] = "done"
    /\ answer[r] = "rotated" =>
        /\ cmd[r] \in used
        /\ Session(r) \notin arrival[r].ended \cup arrival[r].expired
    /\ answer[r] \in {"replay", "logged_out"} => Session(r) \in ended
    /\ answer[r] = "logged_out_all" => arrival[r].known \subseteq ended

Stage(r) == Wrote(r) /\ Left(r) /\ Knows(r) /\ Answered(r)

(* No row is locked, and no token inserted, by two transactions.           *)
Apart ==
    \A q, r \in Requests : q # r =>
        /\ txn[q].locks \cap txn[r].locks = {}
        /\ txn[q].issued \cap txn[r].issued = {}

SessionsInv ==
    /\ TypeOK
    /\ Lineage
    /\ Chain
    /\ Apart
    /\ \A r \in Requests : Stage(r)
    /\ SingleUse

-----------------------------------------------------------------------------
Places == {"idle", "check", "insert", "consume", "consuming", "commit_refresh",
           "revoke_replay", "revoke_logout", "revoke_all", "ending", "tokens_replay",
           "tokens_logout", "tokens_all", "commit_replay", "commit_logout", "done", "crashed"}

Refusals == {"none", "invalid", "expired", "conflict", "error"}

Codes == Refusals \cup {"rotated", "replay", "logged_out", "logged_out_all"}

Arrivals == [known : SUBSET Sessions, ended : SUBSET Sessions, expired : SUBSET Sessions]

LEMMA NoTxnType == NoTxn \in Txn
  BY DEF NoTxn, Txn

LEMMA TokenPairs ==
    ASSUME NEW t \in Tokens
    PROVE  /\ t = <<t[1], t[2]>> /\ t[1] \in Sessions /\ t[2] \in Nat /\ t[2] \in 0 .. MaxGen
           /\ t[2] < MaxGen => Successor(t) \in Tokens
           /\ Successor(t)[1] = t[1] /\ Successor(t)[2] = t[2] + 1
           /\ t \notin Sessions
  BY SessionsAssumption DEF Tokens, Successor

LEMMA FirstToken == \A s \in Sessions : <<s, 0>> \in Tokens
  BY SessionsAssumption DEF Tokens

-----------------------------------------------------------------------------
(* No request but r has moved, and nothing was committed.                  *)
Others(r) ==
    \A q \in Requests \ {r} :
        /\ pc'[q] = pc[q] /\ cmd'[q] = cmd[q] /\ txn'[q] = txn[q]
        /\ answer'[q] = answer[q] /\ arrival'[q] = arrival[q]

LEMMA LocalStep ==
    ASSUME SessionsInv, NEW r \in Requests, TypeOK', UNCHANGED tables, Others(r),
           Stage(r)', answer'[r] # "rotated",
           \A q \in Requests \ {r} : /\ txn'[r].locks \cap txn[q].locks = {}
                                     /\ txn'[r].issued \cap txn[q].issued = {}
    PROVE  SessionsInv'
<1> USE DEF SessionsInv
<1>1. Lineage' /\ Chain'
  BY DEF tables, Lineage, Chain
<1>2. Apart'
  BY DEF Apart, Others
<1>3. \A q \in Requests : Stage(q)'
  <2>1. ASSUME NEW q \in Requests \ {r} PROVE Stage(q)'
    <3>1. Stage(q)
      OBVIOUS
    <3>2. Wrote(q)'
      BY <3>1 DEF Stage, Wrote, tables, Others, Current
    <3>3. Left(q)'
      BY <3>1 DEF Stage, Left, tables, Others, Session
    <3>4. Knows(q)'
      BY <3>1 DEF Stage, Knows, tables, Others, Session
    <3>5. Answered(q)'
      BY <3>1 DEF Stage, Answered, tables, Others, Session
    <3> QED BY <3>2, <3>3, <3>4, <3>5 DEF Stage
  <2> QED BY <2>1
<1>4. SingleUse'
  BY DEF SingleUse, Others
<1> QED BY <1>1, <1>2, <1>3, <1>4

(* A request that ends without a change: nothing of it is kept.            *)
LEMMA QuietStep ==
    ASSUME SessionsInv, NEW r \in Requests, TypeOK', UNCHANGED tables, Others(r),
           pc'[r] \in {"done", "crashed", "revoke_replay", "revoke_logout"},
           txn'[r] = NoTxn, answer'[r] \in Refusals,
           answer'[r] # "none" => pc'[r] = "done",
           arrival'[r].ended \subseteq ended
    PROVE  SessionsInv'
<1>1. /\ txn'[r].issued = {} /\ txn'[r].locks = {} /\ txn'[r].used = {} /\ txn'[r].revoked = {}
  BY DEF NoTxn
<1>2. Wrote(r)'
  BY <1>1 DEF Wrote, Quiet, Replacing
<1>3. Left(r)'
  BY DEF Left, Ended, Revoking
<1>4. Knows(r)'
  BY DEF Knows, Replacing, Ended, tables
<1>5. Answered(r)' /\ answer'[r] # "rotated"
  BY DEF Answered, Refusals
<1> QED BY <1>1, <1>2, <1>3, <1>4, <1>5, LocalStep DEF Stage

LEMMA InitHolds == Init => SessionsInv
<1> SUFFICES ASSUME Init PROVE SessionsInv
  OBVIOUS
<1> USE DEF Init
<1>1. TypeOK
  <2>1. (CHOOSE t \in Tokens : TRUE) \in Tokens
    BY FirstToken, SessionsAssumption
  <2> QED BY <2>1, NoTxnType DEF TypeOK
<1>2. Lineage /\ Chain
  BY DEF Lineage, Chain
<1>3. Apart /\ SingleUse
  BY DEF Apart, SingleUse, NoTxn
<1>4. ASSUME NEW r \in Requests PROVE Stage(r)
  BY DEF Stage, Wrote, Left, Knows, Answered, Quiet, Replacing, Revoking, Ended, NoTxn
<1> QED BY <1>1, <1>2, <1>3, <1>4 DEF SessionsInv

-----------------------------------------------------------------------------
LEMMA Returned ==
    ASSUME TypeOK, NEW r \in Requests, NEW code \in Codes, Return(r, code)
    PROVE  /\ pc' \in [Requests -> Places] /\ pc'[r] = "done"
           /\ txn' \in [Requests -> Txn] /\ txn'[r] = NoTxn
           /\ answer' \in [Requests -> Codes]
           /\ answer'[r] = code
           /\ \A q \in Requests \ {r} :
                pc'[q] = pc[q] /\ txn'[q] = txn[q] /\ answer'[q] = answer[q]
  BY NoTxnType DEF Return, Goto, TypeOK, Places, Codes, Refusals

LEMMA Arrived ==
    ASSUME TypeOK, NEW r \in Requests, NEW t \in Tokens, Arrive(r, t)
    PROVE  /\ cmd' \in [Requests -> Tokens] /\ cmd'[r] = t
           /\ arrival' \in [Requests -> Arrivals]
           /\ arrival'[r].known = started /\ arrival'[r].ended = ended
           /\ arrival'[r].expired = expired
           /\ \A q \in Requests \ {r} : cmd'[q] = cmd[q] /\ arrival'[q] = arrival[q]
           /\ pc[r] = "idle"
  BY DEF Arrive, TypeOK, Arrivals

(* A refusal of a request that was under way.                              *)
LEMMA RefusedStep ==
    ASSUME SessionsInv, NEW r \in Requests, NEW code \in Refusals, Return(r, code),
           UNCHANGED tables, UNCHANGED <<cmd, arrival>>
    PROVE  SessionsInv'
<1>1. TypeOK /\ arrival[r].ended \subseteq ended
  BY DEF SessionsInv, Stage, Knows
<1>2. TypeOK'
  BY <1>1, Returned DEF TypeOK, tables, Places, Codes, Refusals
<1> QED BY <1>1, <1>2, Returned, QuietStep DEF Others, Codes

(* A request that goes on writes nothing.                                  *)
LEMMA Unanswered ==
    ASSUME SessionsInv, NEW r \in Requests, pc[r] # "done"
    PROVE  answer[r] = "none"
  BY DEF SessionsInv, Stage, Answered

LEMMA RefreshReplayedStep ==
    ASSUME SessionsInv, NEW r \in Requests, NEW t \in Tokens, RefreshReplayed(r, t)
    PROVE  SessionsInv'
<1>1. TypeOK /\ Arrive(r, t) /\ UNCHANGED <<tables, txn, answer>>
  BY DEF RefreshReplayed, SessionsInv
<1>2. pc[r] = "idle" /\ txn[r] = NoTxn /\ answer[r] = "none"
  BY <1>1, Unanswered DEF SessionsInv, Stage, Wrote, Quiet, Arrive
<1>3. /\ pc' \in [Requests -> Places] /\ pc'[r] = "revoke_replay"
      /\ \A q \in Requests \ {r} : pc'[q] = pc[q]
  BY <1>1 DEF RefreshReplayed, Goto, TypeOK, Places
<1>4. TypeOK'
  BY <1>1, <1>3, Arrived DEF TypeOK, tables, Places, Arrivals
<1> QED BY <1>1, <1>2, <1>3, <1>4, Arrived, QuietStep DEF Others, Refusals

LEMMA LogoutStep ==
    ASSUME SessionsInv, NEW r \in Requests, NEW s \in Sessions, Logout(r, s)
    PROVE  SessionsInv'
<1>1. TypeOK /\ Arrive(r, <<s, 0>>) /\ UNCHANGED <<tables, txn, answer>> /\ <<s, 0>> \in Tokens
  BY FirstToken DEF Logout, SessionsInv
<1>2. pc[r] = "idle" /\ txn[r] = NoTxn /\ answer[r] = "none"
  BY <1>1, Unanswered DEF SessionsInv, Stage, Wrote, Quiet, Arrive
<1>3. /\ pc' \in [Requests -> Places] /\ pc'[r] = "revoke_logout"
      /\ \A q \in Requests \ {r} : pc'[q] = pc[q]
  BY <1>1 DEF Logout, Goto, TypeOK, Places
<1>4. TypeOK'
  BY <1>1, <1>3, Arrived DEF TypeOK, tables, Places, Arrivals
<1> QED BY <1>1, <1>2, <1>3, <1>4, Arrived, QuietStep DEF Others, Refusals

LEMMA RefreshRefusedStep ==
    ASSUME SessionsInv, NEW r \in Requests, NEW t \in Tokens, RefreshRefused(r, t)
    PROVE  SessionsInv'
<1>1. TypeOK /\ Arrive(r, t) /\ UNCHANGED tables
  BY DEF RefreshRefused, SessionsInv
<1>2. PICK code \in Refusals : Return(r, code)
  BY DEF RefreshRefused, Refusals
<1>3. TypeOK'
  BY <1>1, <1>2, Arrived, Returned DEF TypeOK, tables, Places, Arrivals, Codes, Refusals
<1> QED BY <1>1, <1>2, <1>3, Arrived, Returned, QuietStep DEF Others, Codes

LEMMA RefreshCurrentStep ==
    ASSUME SessionsInv, NEW r \in Requests, NEW t \in Tokens, RefreshCurrent(r, t)
    PROVE  SessionsInv'
<1>1. TypeOK /\ Arrive(r, t) /\ UNCHANGED <<tables, txn, answer>>
  BY DEF RefreshCurrent, SessionsInv
<1>2. pc[r] = "idle" /\ txn[r] = NoTxn /\ answer[r] = "none"
  BY <1>1, Unanswered DEF SessionsInv, Stage, Wrote, Quiet, Arrive
<1>3. /\ pc' \in [Requests -> Places] /\ pc'[r] = "check"
      /\ \A q \in Requests \ {r} : pc'[q] = pc[q]
  BY <1>1 DEF RefreshCurrent, Goto, TypeOK, Places
<1>4. TypeOK'
  BY <1>1, <1>3, Arrived DEF TypeOK, tables, Places, Arrivals
<1>5. Stage(r)' /\ txn'[r].locks = {} /\ txn'[r].issued = {}
  <2>1. /\ txn'[r].locks = {} /\ txn'[r].issued = {} /\ txn'[r].used = {}
        /\ txn'[r].revoked = {} /\ txn'[r] = NoTxn
    BY <1>1, <1>2 DEF NoTxn
  <2>2. Wrote(r)' /\ Left(r)' /\ Answered(r)'
    BY <1>1, <1>2, <1>3, <2>1 DEF Wrote, Left, Answered, Replacing, Revoking, Ended
  <2>3. Knows(r)'
    BY <1>1, <1>3, Arrived DEF Knows, RefreshCurrent, Replacing, Ended, Current, Session, tables
  <2> QED BY <2>1, <2>2, <2>3 DEF Stage
<1> QED BY <1>1, <1>2, <1>3, <1>4, <1>5, Arrived, LocalStep DEF Others

LEMMA CrashStep ==
    ASSUME SessionsInv, NEW r \in Requests, Crash(r)
    PROVE  SessionsInv'
<1>1. TypeOK /\ arrival[r].ended \subseteq ended /\ UNCHANGED <<tables, cmd, answer, arrival>>
  BY DEF SessionsInv, Stage, Knows, Crash
<1>2. /\ pc' \in [Requests -> Places] /\ pc'[r] = "crashed"
      /\ txn' \in [Requests -> Txn] /\ txn'[r] = NoTxn
      /\ \A q \in Requests \ {r} : pc'[q] = pc[q] /\ txn'[q] = txn[q]
  BY <1>1, NoTxnType DEF Crash, Goto, TypeOK, Places
<1>3. TypeOK'
  BY <1>1, <1>2 DEF TypeOK, tables, Places
<1>4. answer'[r] = "none"
  BY <1>1, Unanswered DEF Crash, Live
<1> QED BY <1>1, <1>2, <1>3, <1>4, QuietStep DEF Others, Refusals

-----------------------------------------------------------------------------
(* Rotation.                                                               *)

LEMMA Went ==
    ASSUME TypeOK, NEW r \in Requests, NEW l \in Places, Goto(r, l)
    PROVE  /\ pc' \in [Requests -> Places] /\ pc'[r] = l
           /\ \A q \in Requests \ {r} : pc'[q] = pc[q]
  BY DEF Goto, TypeOK, Places

LEMMA TxnSet ==
    ASSUME TypeOK, NEW r \in Requests, NEW x \in Txn, txn' = [txn EXCEPT ![r] = x]
    PROVE  /\ txn' \in [Requests -> Txn] /\ txn'[r] = x
           /\ \A q \in Requests \ {r} : txn'[q] = txn[q]
  BY DEF TypeOK

LEMMA CheckSessionStep ==
    ASSUME SessionsInv, NEW r \in Requests, CheckSession(r)
    PROVE  SessionsInv'
<1>1. TypeOK /\ UNCHANGED <<tables, cmd, arrival>> /\ pc[r] = "check"
  BY DEF SessionsInv, CheckSession
<1>2. CASE ~Active(r)
  BY <1>1, <1>2, RefusedStep DEF CheckSession, Refusals
<1>3. CASE Active(r)
  <2>1. Goto(r, "insert") /\ UNCHANGED <<txn, answer>>
    BY <1>3 DEF CheckSession
  <2>2. /\ pc' \in [Requests -> Places] /\ pc'[r] = "insert"
        /\ \A q \in Requests \ {r} : pc'[q] = pc[q]
    BY <1>1, <2>1, Went DEF Places
  <2>3. TypeOK'
    BY <1>1, <2>1, <2>2 DEF TypeOK, tables, Places
  <2>4. Stage(r) /\ answer[r] = "none" /\ txn[r] = NoTxn
    BY <1>1, Unanswered DEF SessionsInv, Stage, Wrote, Quiet
  <2>5. txn'[r].locks = {} /\ txn'[r].issued = {} /\ txn'[r].used = {} /\ txn'[r].revoked = {}
    BY <2>1, <2>4 DEF NoTxn
  <2>6. Wrote(r)' /\ Left(r)' /\ Answered(r)'
    BY <2>1, <2>2, <2>4, <2>5 DEF Wrote, Left, Answered, Replacing, Revoking, Ended
  <2>7. Knows(r)'
    BY <1>1, <1>3, <2>2, <2>4 DEF Stage, Knows, Active, Replacing, Ended, Session, tables
  <2> QED BY <1>1, <2>1, <2>2, <2>3, <2>4, <2>5, <2>6, <2>7, LocalStep DEF Others, Stage
<1> QED BY <1>2, <1>3

LEMMA InsertReplacementStep ==
    ASSUME SessionsInv, NEW r \in Requests, InsertReplacement(r)
    PROVE  SessionsInv'
<1>1. TypeOK /\ UNCHANGED <<tables, cmd, arrival>> /\ pc[r] = "insert"
  BY DEF SessionsInv, InsertReplacement
<1>2. CASE Successor(cmd[r]) \in issued
  BY <1>1, <1>2, RefusedStep DEF InsertReplacement, Refusals
<1>3. CASE Successor(cmd[r]) \notin issued
  <2>1. /\ Goto(r, "consume") /\ UNCHANGED answer
        /\ txn' = [txn EXCEPT ![r] = [txn[r] EXCEPT !.issued = {Successor(cmd[r])}]]
    BY <1>3 DEF InsertReplacement
  <2>2. /\ pc' \in [Requests -> Places] /\ pc'[r] = "consume"
        /\ \A q \in Requests \ {r} : pc'[q] = pc[q]
    BY <1>1, <2>1, Went DEF Places
  <2>3. Stage(r) /\ answer[r] = "none" /\ txn[r] = NoTxn /\ Successor(cmd[r]) \in Tokens
    BY <1>1, Unanswered, TokenPairs DEF SessionsInv, Stage, Wrote, Quiet, Knows, TypeOK
  <2>4. /\ txn' \in [Requests -> Txn]
        /\ txn'[r].issued = {Successor(cmd[r])}
        /\ txn'[r].used = {} /\ txn'[r].revoked = {} /\ txn'[r].ended = {}
        /\ txn'[r].locks = {} /\ txn'[r].todo = {} /\ txn'[r].queue = {}
        /\ \A q \in Requests \ {r} : txn'[q] = txn[q]
    <3> DEFINE x == [txn[r] EXCEPT !.issued = {Successor(cmd[r])}]
    <3>1. /\ x \in Txn /\ x.issued = {Successor(cmd[r])}
          /\ x.used = txn[r].used /\ x.revoked = txn[r].revoked /\ x.ended = txn[r].ended
          /\ x.locks = txn[r].locks /\ x.todo = txn[r].todo /\ x.queue = txn[r].queue
      BY <1>1, <2>3 DEF TypeOK, Txn
    <3>2. /\ txn[r].used = {} /\ txn[r].revoked = {} /\ txn[r].ended = {}
          /\ txn[r].locks = {} /\ txn[r].todo = {} /\ txn[r].queue = {}
      BY <2>3 DEF NoTxn
    <3> HIDE DEF x
    <3> QED BY <1>1, <2>1, <3>1, <3>2, TxnSet DEF x
  <2>5. TypeOK'
    BY <1>1, <2>1, <2>2, <2>4 DEF TypeOK, tables, Places
  <2>6. Wrote(r)' /\ Left(r)' /\ Answered(r)'
    BY <1>1, <2>1, <2>2, <2>3, <2>4 DEF Wrote, Left, Answered, Replacing, Revoking, Ended, Quiet
  <2>7. Knows(r)'
    BY <1>1, <1>3, <2>2, <2>3 DEF Stage, Knows, Replacing, Ended, Session, tables
  <2>8. \A q \in Requests \ {r} : {Successor(cmd[r])} \cap txn[q].issued = {}
    BY DEF InsertReplacement
  <2> QED BY <1>1, <2>1, <2>2, <2>3, <2>4, <2>5, <2>6, <2>7, <2>8, LocalStep DEF Others, Stage
<1> QED BY <1>2, <1>3

LEMMA BeginConsumeStep ==
    ASSUME SessionsInv, NEW r \in Requests, BeginConsume(r)
    PROVE  SessionsInv'
<1>1. TypeOK /\ UNCHANGED <<tables, cmd, arrival>> /\ pc[r] = "consume"
  BY DEF SessionsInv, BeginConsume
<1>2. CASE ~(Current(cmd[r]) /\ Active(r))
  BY <1>1, <1>2, RefusedStep DEF BeginConsume, Refusals
<1>3. CASE Current(cmd[r]) /\ Active(r)
  <2>1. /\ Goto(r, "consuming") /\ UNCHANGED answer
        /\ txn' = [txn EXCEPT ![r] = [txn[r] EXCEPT !.todo = {cmd[r]}]]
    BY <1>3 DEF BeginConsume
  <2>2. /\ pc' \in [Requests -> Places] /\ pc'[r] = "consuming"
        /\ \A q \in Requests \ {r} : pc'[q] = pc[q]
    BY <1>1, <2>1, Went DEF Places
  <2>3. Stage(r) /\ answer[r] = "none" /\ cmd[r] \in Tokens
    BY <1>1, Unanswered DEF SessionsInv, TypeOK
  <2>4. /\ txn' \in [Requests -> Txn] /\ txn'[r].todo = {cmd[r]}
        /\ txn'[r].issued = txn[r].issued /\ txn'[r].used = txn[r].used
        /\ txn'[r].revoked = txn[r].revoked /\ txn'[r].ended = txn[r].ended
        /\ txn'[r].locks = txn[r].locks /\ txn'[r].queue = txn[r].queue
        /\ \A q \in Requests \ {r} : txn'[q] = txn[q]
    BY <1>1, <2>1, <2>3, ZenonT(30) DEF TypeOK, Txn
  <2>5. TypeOK'
    BY <1>1, <2>1, <2>2, <2>4 DEF TypeOK, tables, Places
  <2>6. Wrote(r)'
    BY <1>1, <2>2, <2>3, <2>4 DEF Stage, Wrote, Replacing, Quiet
  <2>7. Left(r)' /\ Answered(r)'
    BY <1>1, <2>1, <2>2, <2>3, <2>4 DEF Stage, Left, Answered, Replacing, Revoking, Ended
  <2>8. Knows(r)'
    BY <1>1, <2>2, <2>3 DEF Stage, Knows, Replacing, Ended, Session, tables
  <2> QED BY <1>1, <2>1, <2>2, <2>3, <2>4, <2>5, <2>6, <2>7, <2>8, LocalStep
          DEF Others, Stage, SessionsInv, Apart
<1> QED BY <1>2, <1>3

LEMMA ConsumeStep ==
    ASSUME SessionsInv, NEW r \in Requests, Consume(r)
    PROVE  SessionsInv'
<1>1. TypeOK /\ UNCHANGED <<tables, cmd, arrival>> /\ pc[r] = "consuming" /\ Free(r, cmd[r])
  BY DEF SessionsInv, Consume
<1>2. CASE ~Current(cmd[r])
  BY <1>1, <1>2, RefusedStep DEF Consume, Refusals
<1>3. CASE Current(cmd[r])
  <2>1. /\ Goto(r, "commit_refresh") /\ UNCHANGED answer
        /\ txn' = [txn EXCEPT ![r] =
                     [txn[r] EXCEPT !.used = {cmd[r]}, !.todo = {}, !.locks = {cmd[r]}]]
    BY <1>3 DEF Consume
  <2>2. /\ pc' \in [Requests -> Places] /\ pc'[r] = "commit_refresh"
        /\ \A q \in Requests \ {r} : pc'[q] = pc[q]
    BY <1>1, <2>1, Went DEF Places
  <2>3. Stage(r) /\ answer[r] = "none" /\ cmd[r] \in Tokens
    BY <1>1, Unanswered DEF SessionsInv, TypeOK
  <2>4. /\ txn' \in [Requests -> Txn] /\ txn'[r].todo = {}
        /\ txn'[r].issued = txn[r].issued /\ txn'[r].used = {cmd[r]}
        /\ txn'[r].revoked = txn[r].revoked /\ txn'[r].ended = txn[r].ended
        /\ txn'[r].locks = {cmd[r]} /\ txn'[r].queue = txn[r].queue
        /\ \A q \in Requests \ {r} : txn'[q] = txn[q]
    <3> DEFINE x == [txn[r] EXCEPT !.used = {cmd[r]}, !.todo = {}, !.locks = {cmd[r]}]
    <3>1. /\ x \in Txn /\ x.todo = {} /\ x.issued = txn[r].issued /\ x.used = {cmd[r]}
          /\ x.revoked = txn[r].revoked /\ x.ended = txn[r].ended
          /\ x.locks = {cmd[r]} /\ x.queue = txn[r].queue
      BY <1>1, <2>3, ZenonT(30) DEF TypeOK, Txn
    <3> HIDE DEF x
    <3> QED BY <1>1, <2>1, <3>1, TxnSet DEF x
  <2>5. TypeOK'
    BY <1>1, <2>1, <2>2, <2>4 DEF TypeOK, tables, Places
  <2>6. Wrote(r)'
    BY <1>1, <1>3, <2>2, <2>3, <2>4 DEF Stage, Wrote, Replacing, Quiet, Current, tables
  <2>7. Left(r)' /\ Answered(r)'
    BY <1>1, <2>1, <2>2, <2>3, <2>4 DEF Stage, Left, Answered, Replacing, Revoking, Ended
  <2>8. Knows(r)'
    BY <1>1, <2>2, <2>3 DEF Stage, Knows, Replacing, Ended, Session, tables
  <2>9. \A q \in Requests \ {r} : {cmd[r]} \cap txn[q].locks = {}
    BY <1>1 DEF Free
  <2> QED BY <1>1, <2>1, <2>2, <2>3, <2>4, <2>5, <2>6, <2>7, <2>8, <2>9, LocalStep
          DEF Others, Stage, SessionsInv, Apart
<1> QED BY <1>2, <1>3

-----------------------------------------------------------------------------
(* Revocation of one session.                                              *)

LEMMA ReadSessionStep ==
    ASSUME SessionsInv, NEW r \in Requests, ReadSession(r)
    PROVE  SessionsInv'
<1> DEFINE x == [txn[r] EXCEPT !.copy = Session(r) \in ended, !.queue = {Session(r)}]
<1>1. /\ TypeOK /\ UNCHANGED <<tables, cmd, answer, arrival>>
      /\ pc[r] \in {"revoke_replay", "revoke_logout"}
      /\ Stage(r) /\ txn[r] = NoTxn
  BY DEF SessionsInv, ReadSession, Stage, Wrote, Quiet
<1>2. answer[r] = "none" /\ cmd[r] \in Tokens /\ Session(r) \in Sessions
  BY <1>1, Unanswered, TokenPairs DEF TypeOK, Session
<1>3. /\ x \in Txn /\ x.queue = {Session(r)} /\ x.copy = (Session(r) \in ended)
      /\ x.issued = {} /\ x.used = {} /\ x.revoked = {} /\ x.ended = {}
      /\ x.locks = {} /\ x.todo = {}
  <2>1. /\ x \in Txn /\ x.queue = {Session(r)} /\ x.copy = (Session(r) \in ended)
        /\ x.issued = txn[r].issued /\ x.used = txn[r].used /\ x.revoked = txn[r].revoked
        /\ x.ended = txn[r].ended /\ x.locks = txn[r].locks /\ x.todo = txn[r].todo
    <3>1. \A b \in BOOLEAN :
            LET y == [txn[r] EXCEPT !.copy = b, !.queue = {Session(r)}] IN
            /\ y \in Txn /\ y.queue = {Session(r)} /\ y.copy = b
            /\ y.issued = txn[r].issued /\ y.used = txn[r].used /\ y.revoked = txn[r].revoked
            /\ y.ended = txn[r].ended /\ y.locks = txn[r].locks /\ y.todo = txn[r].todo
      BY <1>1, <1>2, ZenonT(30) DEF TypeOK, Txn
    <3>2. (Session(r) \in ended) \in BOOLEAN
      OBVIOUS
    <3> QED BY <3>1, <3>2, Zenon
  <2>2. /\ txn[r].used = {} /\ txn[r].revoked = {} /\ txn[r].ended = {}
        /\ txn[r].locks = {} /\ txn[r].todo = {} /\ txn[r].issued = {}
    BY <1>1 DEF NoTxn
  <2> QED BY <2>1, <2>2
<1>4. txn' = [txn EXCEPT ![r] = x]
  BY DEF ReadSession
<1> HIDE DEF x
<1>5. /\ txn' \in [Requests -> Txn] /\ txn'[r] = x
      /\ \A q \in Requests \ {r} : txn'[q] = txn[q]
  BY <1>1, <1>3, <1>4, TxnSet
<1>6. /\ pc' \in [Requests -> Places] /\ pc'[r] \in {"tokens_replay", "tokens_logout"}
      /\ \A q \in Requests \ {r} : pc'[q] = pc[q]
  BY <1>1 DEF ReadSession, Goto, TypeOK, Places
<1>7. TypeOK'
  BY <1>1, <1>5, <1>6 DEF TypeOK, tables, Places
<1>8. Wrote(r)' /\ Answered(r)'
  BY <1>1, <1>2, <1>3, <1>5, <1>6 DEF Wrote, Answered, Replacing, Quiet
<1>9. Left(r)'
  BY <1>1, <1>3, <1>5, <1>6 DEF Left, Replacing, Revoking, Ended, Session, tables
<1>10. Knows(r)'
  BY <1>1, <1>6 DEF Stage, Knows, Replacing, Ended, Session, tables
<1> QED BY <1>1, <1>2, <1>3, <1>5, <1>6, <1>7, <1>8, <1>9, <1>10, LocalStep DEF Others, Stage

(* A session has one token at most that is current.                        *)
LEMMA OneCurrent ==
    ASSUME TypeOK, Chain, NEW t, NEW u, Current(t), Current(u), t[1] = u[1]
    PROVE  t = u
<1>1. t \in Tokens /\ u \in Tokens /\ t \in issued /\ u \in issued
  BY DEF Current, TypeOK
<1>2. t[2] \in Nat /\ u[2] \in Nat /\ ~(t[2] < u[2]) /\ ~(u[2] < t[2])
  BY <1>1, TokenPairs DEF Chain, Current
<1>3. t[2] = u[2]
  BY <1>2
<1> QED BY <1>1, <1>3, TokenPairs

LEMMA BeginRevokeTokensStep ==
    ASSUME SessionsInv, NEW r \in Requests, NEW s \in Sessions, BeginRevokeTokens(r, s)
    PROVE  SessionsInv'
<1> DEFINE todo == {t \in TokensOf(s) : Current(t)}
           x == [txn[r] EXCEPT !.todo = todo, !.queue = txn[r].queue \ {s}]
<1>1. /\ TypeOK /\ Chain /\ UNCHANGED <<tables, pc, cmd, answer, arrival>>
      /\ pc[r] \in {"tokens_replay", "tokens_logout", "tokens_all"}
      /\ s \in txn[r].queue /\ Stage(r) /\ txn[r].todo = {}
  BY DEF SessionsInv, BeginRevokeTokens
<1>2. todo \subseteq Tokens \cap issued /\ \A t, u \in todo : t = u
  BY <1>1, OneCurrent DEF TokensOf, Current
<1>3. /\ x \in Txn /\ x.todo = todo /\ x.queue = txn[r].queue \ {s} /\ x.copy = txn[r].copy
      /\ x.issued = txn[r].issued /\ x.used = txn[r].used /\ x.revoked = txn[r].revoked
      /\ x.ended = txn[r].ended /\ x.locks = txn[r].locks
  BY <1>1, <1>2, ZenonT(30) DEF TypeOK, Txn
<1>4. txn' = [txn EXCEPT ![r] = x]
  BY DEF BeginRevokeTokens
<1>5. todo \subseteq TokensOf(s)
  OBVIOUS
<1> HIDE DEF x, todo
<1>6. /\ txn' \in [Requests -> Txn] /\ txn'[r] = x
      /\ \A q \in Requests \ {r} : txn'[q] = txn[q]
  BY <1>1, <1>3, <1>4, TxnSet
<1>7. TypeOK'
  BY <1>1, <1>6 DEF TypeOK, tables
<1>8. Wrote(r)' /\ Answered(r)'
  BY <1>1, <1>3, <1>6 DEF Stage, Wrote, Answered, Replacing, Quiet, Current, tables
<1>9. Left(r)'
  BY <1>1, <1>2, <1>3, <1>5, <1>6 DEF Stage, Left, Replacing, Revoking, Ended, Session, tables
<1>10. Knows(r)'
  BY <1>1, <1>3, <1>6 DEF Stage, Knows, Replacing, Ended, Session, tables
<1>11. answer'[r] # "rotated"
  BY <1>1, Unanswered
<1> QED BY <1>1, <1>3, <1>6, <1>7, <1>8, <1>9, <1>10, <1>11, LocalStep
        DEF Others, Stage, SessionsInv, Apart

LEMMA RevokeTokenStep ==
    ASSUME SessionsInv, NEW r \in Requests, NEW t \in Tokens, RevokeToken(r, t)
    PROVE  SessionsInv'
<1> DEFINE new == txn[r].revoked \cup (IF Current(t) THEN {t} ELSE {})
           x == [txn[r] EXCEPT !.todo = txn[r].todo \ {t}, !.locks = txn[r].locks \cup {t},
                               !.revoked = new]
<1>1. /\ TypeOK /\ UNCHANGED <<tables, pc, cmd, answer, arrival>>
      /\ pc[r] \in {"tokens_replay", "tokens_logout", "tokens_all"}
      /\ t \in txn[r].todo /\ Stage(r) /\ Free(r, t)
  BY DEF SessionsInv, RevokeToken
<1>2. /\ x \in Txn /\ x.todo = txn[r].todo \ {t} /\ x.queue = txn[r].queue
      /\ x.copy = txn[r].copy /\ x.issued = txn[r].issued /\ x.used = txn[r].used
      /\ x.revoked = new /\ x.ended = txn[r].ended /\ x.locks = txn[r].locks \cup {t}
  BY <1>1 DEF TypeOK, Txn
<1>3. txn' = [txn EXCEPT ![r] = x]
  BY DEF RevokeToken
<1>4. new \subseteq txn[r].revoked \cup {t} /\ (t \in new => t \in txn[r].revoked \/ Current(t))
  OBVIOUS
<1> HIDE DEF x, new
<1>5. /\ txn' \in [Requests -> Txn] /\ txn'[r] = x
      /\ \A q \in Requests \ {r} : txn'[q] = txn[q]
  BY <1>1, <1>2, <1>3, TxnSet
<1>6. TypeOK'
  BY <1>1, <1>5 DEF TypeOK, tables
<1>7. Wrote(r)' /\ Answered(r)'
  BY <1>1, <1>2, <1>4, <1>5 DEF Stage, Wrote, Answered, Replacing, Quiet, Current, tables
<1>8. Left(r)'
  BY <1>1, <1>2, <1>5 DEF Stage, Left, Replacing, Revoking, Ended, Session, tables
<1>9. Knows(r)'
  BY <1>1, <1>2, <1>5 DEF Stage, Knows, Replacing, Ended, Session, tables
<1>10. answer'[r] # "rotated"
  BY <1>1, Unanswered
<1>11. \A q \in Requests \ {r} : (txn[r].locks \cup {t}) \cap txn[q].locks = {}
  BY <1>1 DEF Free, SessionsInv, Apart
<1> QED BY <1>1, <1>2, <1>5, <1>6, <1>7, <1>8, <1>9, <1>10, <1>11, LocalStep
        DEF Others, Stage, SessionsInv, Apart

LEMMA EndSessionStep ==
    ASSUME SessionsInv, NEW r \in Requests, EndSession(r)
    PROVE  SessionsInv'
<1> DEFINE x == [txn[r] EXCEPT !.ended = {Session(r)}, !.locks = txn[r].locks \cup {Session(r)}]
<1>1. /\ TypeOK /\ UNCHANGED <<tables, cmd, answer, arrival>>
      /\ pc[r] \in {"tokens_replay", "tokens_logout"} /\ TokensDone(r) /\ Stage(r)
  BY DEF SessionsInv, EndSession
<1>2. answer[r] = "none" /\ cmd[r] \in Tokens /\ Session(r) \in Sessions
  BY <1>1, Unanswered, TokenPairs DEF TypeOK, Session
<1>3. /\ pc' \in [Requests -> Places] /\ pc'[r] \in Ended
      /\ \A q \in Requests \ {r} : pc'[q] = pc[q]
  BY <1>1 DEF EndSession, Goto, TypeOK, Places, Ended
<1>4. /\ x \in Txn /\ x.todo = txn[r].todo /\ x.queue = txn[r].queue
      /\ x.copy = txn[r].copy /\ x.issued = txn[r].issued /\ x.used = txn[r].used
      /\ x.revoked = txn[r].revoked /\ x.ended = {Session(r)}
      /\ x.locks = txn[r].locks \cup {Session(r)}
  BY <1>1, <1>2 DEF TypeOK, Txn
<1>5. \/ txn' = txn /\ txn[r].copy
      \/ txn' = [txn EXCEPT ![r] = x] /\ Free(r, Session(r))
  BY DEF EndSession
<1> HIDE DEF x
<1>6. /\ txn' \in [Requests -> Txn]
      /\ \A q \in Requests \ {r} : txn'[q] = txn[q]
      /\ \/ txn'[r] = txn[r] /\ txn[r].copy
         \/ txn'[r] = x /\ Free(r, Session(r))
  <2>1. CASE txn' = txn /\ txn[r].copy
    BY <1>1, <2>1 DEF TypeOK
  <2>2. CASE txn' = [txn EXCEPT ![r] = x] /\ Free(r, Session(r))
    BY <1>1, <1>4, <2>2, TxnSet
  <2> QED BY <1>5, <2>1, <2>2
<1>7. TypeOK'
  BY <1>1, <1>3, <1>6 DEF TypeOK, tables, Places
<1>8. Wrote(r)' /\ Answered(r)'
  BY <1>1, <1>2, <1>3, <1>4, <1>6
     DEF Stage, Wrote, Answered, Replacing, Quiet, Ended, Current, tables
<1>9. Left(r)'
  BY <1>1, <1>3, <1>4, <1>6 DEF Left, Replacing, Revoking, Ended, TokensDone
<1>10. Knows(r)'
  BY <1>1, <1>3, <1>4, <1>6 DEF Stage, Knows, Left, Replacing, Revoking, Ended, Session, tables
<1>11. \A q \in Requests \ {r} : txn'[r].locks \cap txn[q].locks = {}
  BY <1>4, <1>6 DEF Free, SessionsInv, Apart
<1>12. \A q \in Requests \ {r} : txn'[r].issued \cap txn[q].issued = {}
  BY <1>4, <1>6 DEF SessionsInv, Apart
<1> QED BY <1>1, <1>2, <1>3, <1>6, <1>7, <1>8, <1>9, <1>10, <1>11, <1>12, LocalStep
        DEF Others, Stage

-----------------------------------------------------------------------------
(* Logout-all.                                                             *)

LEMMA LogoutAllStep ==
    ASSUME SessionsInv, NEW r \in Requests, NEW s \in Sessions, LogoutAll(r, s)
    PROVE  SessionsInv'
<1>1. /\ TypeOK /\ Arrive(r, <<s, 0>>) /\ UNCHANGED <<tables, txn, answer>>
      /\ <<s, 0>> \in Tokens /\ Goto(r, "revoke_all")
  BY FirstToken DEF LogoutAll, SessionsInv
<1>2. pc[r] = "idle" /\ txn[r] = NoTxn /\ answer[r] = "none"
  BY <1>1, Unanswered DEF SessionsInv, Stage, Wrote, Quiet, Arrive
<1>3. /\ pc' \in [Requests -> Places] /\ pc'[r] = "revoke_all"
      /\ \A q \in Requests \ {r} : pc'[q] = pc[q]
  BY <1>1, Went DEF Places
<1>4. TypeOK'
  BY <1>1, <1>3, Arrived DEF TypeOK, tables, Places, Arrivals
<1>5. /\ txn'[r] = NoTxn /\ txn'[r].locks = {} /\ txn'[r].issued = {}
      /\ txn'[r].used = {} /\ txn'[r].revoked = {}
  BY <1>1, <1>2 DEF NoTxn
<1>6. Wrote(r)' /\ Left(r)' /\ Answered(r)'
  BY <1>1, <1>2, <1>3, <1>5 DEF Wrote, Left, Answered, Replacing, Revoking, Ended
<1>7. Knows(r)'
  BY <1>1, <1>3, Arrived DEF Knows, Replacing, Ended, tables
<1> QED BY <1>1, <1>2, <1>3, <1>4, <1>5, <1>6, <1>7, Arrived, LocalStep DEF Others, Stage

LEMMA BeginEndSessionsStep ==
    ASSUME SessionsInv, NEW r \in Requests, BeginEndSessions(r)
    PROVE  SessionsInv'
<1> DEFINE x == [txn[r] EXCEPT !.todo = started \ ended]
<1>1. /\ TypeOK /\ UNCHANGED <<tables, cmd, answer, arrival>> /\ Goto(r, "ending")
      /\ Stage(r) /\ pc[r] = "revoke_all"
  BY DEF BeginEndSessions, SessionsInv
<1>2. txn[r] = NoTxn /\ answer[r] = "none"
  BY <1>1, Unanswered DEF Stage, Wrote, Quiet
<1>3. /\ x \in Txn /\ x.todo = started \ ended
      /\ x.issued = {} /\ x.used = {} /\ x.revoked = {} /\ x.ended = {}
      /\ x.locks = {} /\ x.queue = {}
  <2>1. /\ x \in Txn /\ x.todo = started \ ended /\ x.queue = txn[r].queue
        /\ x.issued = txn[r].issued /\ x.used = txn[r].used /\ x.revoked = txn[r].revoked
        /\ x.ended = txn[r].ended /\ x.locks = txn[r].locks
    BY <1>1 DEF TypeOK, Txn
  <2>2. /\ txn[r].used = {} /\ txn[r].revoked = {} /\ txn[r].ended = {}
        /\ txn[r].locks = {} /\ txn[r].queue = {} /\ txn[r].issued = {}
    BY <1>2 DEF NoTxn
  <2> QED BY <2>1, <2>2
<1>4. txn' = [txn EXCEPT ![r] = x]
  BY DEF BeginEndSessions
<1> HIDE DEF x
<1>5. /\ txn' \in [Requests -> Txn] /\ txn'[r] = x
      /\ \A q \in Requests \ {r} : txn'[q] = txn[q]
  BY <1>1, <1>3, <1>4, TxnSet
<1>6. /\ pc' \in [Requests -> Places] /\ pc'[r] = "ending"
      /\ \A q \in Requests \ {r} : pc'[q] = pc[q]
  BY <1>1, Went DEF Places
<1>7. TypeOK'
  BY <1>1, <1>5, <1>6 DEF TypeOK, tables, Places
<1>8. Wrote(r)' /\ Answered(r)'
  BY <1>1, <1>2, <1>3, <1>5, <1>6 DEF Wrote, Answered, Replacing, Quiet
<1>9. Left(r)'
  BY <1>1, <1>3, <1>5, <1>6 DEF Left, Replacing, Revoking, Ended, TypeOK
<1>10. Knows(r)'
  BY <1>1, <1>3, <1>5, <1>6 DEF Stage, Knows, Replacing, Ended, Session, tables
<1> QED BY <1>1, <1>2, <1>3, <1>5, <1>6, <1>7, <1>8, <1>9, <1>10, LocalStep
        DEF Others, Stage

LEMMA EndOneSessionStep ==
    ASSUME SessionsInv, NEW r \in Requests, NEW s \in Sessions, EndOneSession(r, s)
    PROVE  SessionsInv'
<1> DEFINE active == IF s \in ended THEN {} ELSE {s}
           x == [txn[r] EXCEPT !.todo = txn[r].todo \ {s}, !.locks = txn[r].locks \cup {s},
                               !.ended = txn[r].ended \cup active,
                               !.queue = txn[r].queue \cup active]
<1>1. /\ TypeOK /\ UNCHANGED <<tables, pc, cmd, answer, arrival>>
      /\ pc[r] = "ending" /\ s \in txn[r].todo /\ Stage(r) /\ Free(r, s)
  BY DEF SessionsInv, EndOneSession
<1>2. active \subseteq {s} /\ (s \in ended \/ s \in active)
  OBVIOUS
<1>3. txn' = [txn EXCEPT ![r] = x]
  BY DEF EndOneSession
<1> HIDE DEF active
<1>4. /\ x \in Txn /\ x.todo = txn[r].todo \ {s} /\ x.locks = txn[r].locks \cup {s}
      /\ x.ended = txn[r].ended \cup active /\ x.queue = txn[r].queue \cup active
      /\ x.copy = txn[r].copy /\ x.issued = txn[r].issued /\ x.used = txn[r].used
      /\ x.revoked = txn[r].revoked
  BY <1>1, <1>2, ZenonT(30) DEF TypeOK, Txn
<1> HIDE DEF x
<1>5. /\ txn' \in [Requests -> Txn] /\ txn'[r] = x
      /\ \A q \in Requests \ {r} : txn'[q] = txn[q]
  BY <1>1, <1>3, <1>4, TxnSet
<1>6. TypeOK'
  BY <1>1, <1>5 DEF TypeOK, tables
<1>7. Wrote(r)' /\ Answered(r)'
  BY <1>1, <1>4, <1>5 DEF Stage, Wrote, Answered, Replacing, Quiet, Current, tables
<1>8. Left(r)'
  BY <1>1, <1>4, <1>5 DEF Stage, Left, Replacing, Revoking, Ended
<1>9. Knows(r)'
  BY <1>1, <1>2, <1>4, <1>5 DEF Stage, Knows, Replacing, Ended, Session, tables
<1>10. answer'[r] # "rotated"
  BY <1>1, Unanswered
<1>11. \A q \in Requests \ {r} : (txn[r].locks \cup {s}) \cap txn[q].locks = {}
  BY <1>1 DEF Free, SessionsInv, Apart
<1> QED BY <1>1, <1>4, <1>5, <1>6, <1>7, <1>8, <1>9, <1>10, <1>11, LocalStep
        DEF Others, Stage, SessionsInv, Apart

LEMMA EndedAllStep ==
    ASSUME SessionsInv, NEW r \in Requests, EndedAll(r)
    PROVE  SessionsInv'
<1>1. /\ TypeOK /\ UNCHANGED <<tables, cmd, txn, answer, arrival>>
      /\ pc[r] = "ending" /\ txn[r].todo = {} /\ Stage(r) /\ Goto(r, "tokens_all")
  BY DEF SessionsInv, EndedAll
<1>2. /\ pc' \in [Requests -> Places] /\ pc'[r] = "tokens_all"
      /\ \A q \in Requests \ {r} : pc'[q] = pc[q]
  BY <1>1, Went DEF Places
<1>3. TypeOK'
  BY <1>1, <1>2 DEF TypeOK, tables, Places
<1>4. Wrote(r)' /\ Answered(r)'
  BY <1>1, <1>2 DEF Stage, Wrote, Answered, Replacing, Quiet, Current, tables
<1>5. Left(r)'
  BY <1>1, <1>2 DEF Stage, Left, Replacing, Revoking, Ended
<1>6. Knows(r)'
  BY <1>1, <1>2 DEF Stage, Knows, Replacing, Ended, Session, tables
<1>7. answer'[r] # "rotated"
  BY <1>1, Unanswered
<1> QED BY <1>1, <1>2, <1>3, <1>4, <1>5, <1>6, <1>7, LocalStep
        DEF Others, Stage, SessionsInv, Apart

-----------------------------------------------------------------------------
(* Commits.                                                                *)

(* What a commit means to the others: their locks have kept it away.       *)
LEMMA CommitOthers ==
    ASSUME SessionsInv, NEW r \in Requests, NEW q \in Requests \ {r}, NEW code \in Codes,
           Commit(r, code)
    PROVE  Stage(q)'
<1>1. /\ pc'[q] = pc[q] /\ txn'[q] = txn[q] /\ answer'[q] = answer[q] /\ cmd' = cmd
      /\ arrival' = arrival /\ started' = started
      /\ issued' = issued \cup txn[r].issued /\ used' = used \cup txn[r].used
      /\ revoked' = revoked \cup txn[r].revoked /\ ended' = ended \cup txn[r].ended
  BY Returned DEF Commit, SessionsInv
<1>2. Stage(q) /\ Stage(r) /\ TypeOK
  BY DEF SessionsInv
<1>3. txn[q].locks \cap txn[r].locks = {} /\ txn[q].issued \cap txn[r].issued = {}
  BY DEF SessionsInv, Apart
<1>4. \A t \in txn[q].used \cup txn[q].revoked : Current(t)'
  <2> SUFFICES ASSUME NEW t \in txn[q].used \cup txn[q].revoked PROVE Current(t)'
    OBVIOUS
  <2>1. Current(t) /\ t \in txn[q].locks
    BY <1>2 DEF Stage, Wrote
  <2>2. t \notin txn[r].used /\ t \notin txn[r].revoked
    BY <1>2, <1>3, <2>1 DEF Stage, Wrote
  <2> QED BY <1>1, <2>1, <2>2 DEF Current
<1>5. Wrote(q)'
  BY <1>1, <1>2, <1>4 DEF Stage, Wrote
<1>6. Left(q)'
  BY <1>1, <1>2 DEF Stage, Left, Session
<1>7. Knows(q)'
  BY <1>1, <1>2, <1>3 DEF Stage, Knows, Wrote, Session
<1>8. Answered(q)'
  BY <1>1, <1>2 DEF Stage, Answered, Session
<1> QED BY <1>5, <1>6, <1>7, <1>8 DEF Stage

LEMMA CommitTyped ==
    ASSUME TypeOK, NEW r \in Requests, NEW code \in Codes, Commit(r, code)
    PROVE  TypeOK'
<1>1. txn[r].issued \subseteq Tokens /\ txn[r].used \subseteq Tokens
      /\ txn[r].revoked \subseteq Tokens /\ txn[r].ended \subseteq Sessions
  BY DEF TypeOK, Txn
<1>2. /\ pc' \in [Requests -> Places] /\ txn' \in [Requests -> Txn]
      /\ answer' \in [Requests -> Codes]
  BY Returned DEF Commit
<1> QED BY <1>1, <1>2 DEF Commit, TypeOK, Places, Codes, Refusals

LEMMA CommitApart ==
    ASSUME SessionsInv, NEW r \in Requests, NEW code \in Codes, Commit(r, code)
    PROVE  Apart'
<1>1. txn'[r] = NoTxn /\ \A q \in Requests \ {r} : txn'[q] = txn[q]
  BY Returned DEF Commit, SessionsInv
<1>2. NoTxn.locks = {} /\ NoTxn.issued = {}
  BY DEF NoTxn
<1> QED BY <1>1, <1>2 DEF SessionsInv, Apart

(* What the one that commits is left with.                                 *)
LEMMA CommitSelf ==
    ASSUME SessionsInv, NEW r \in Requests, NEW code \in Codes, Commit(r, code),
           Answered(r)'
    PROVE  Stage(r)'
<1>1. /\ pc'[r] = "done" /\ txn'[r] = NoTxn /\ arrival' = arrival /\ ended \subseteq ended'
  BY Returned DEF Commit, SessionsInv
<1>2. /\ NoTxn.locks = {} /\ NoTxn.issued = {} /\ NoTxn.used = {} /\ NoTxn.revoked = {}
  BY DEF NoTxn
<1>3. Wrote(r)'
  BY <1>1, <1>2 DEF Wrote, Quiet, Replacing
<1>4. Left(r)' /\ Knows(r)'
  BY <1>1 DEF Left, Knows, Replacing, Revoking, Ended, SessionsInv, Stage
<1> QED BY <1>3, <1>4 DEF Stage

LEMMA CommitRefreshStep ==
    ASSUME SessionsInv, NEW r \in Requests, CommitRefresh(r)
    PROVE  SessionsInv'
<1> DEFINE c == cmd[r]
           n == Successor(c)
<1>1. /\ pc[r] = "commit_refresh" /\ Commit(r, "rotated") /\ "rotated" \in Codes
      /\ Stage(r) /\ TypeOK
  BY DEF CommitRefresh, Codes, SessionsInv
<1>2. /\ txn[r].issued = {n} /\ txn[r].used = {c} /\ txn[r].revoked = {} /\ txn[r].ended = {}
      /\ Current(c) /\ n \notin issued /\ n \in Tokens /\ c \in Tokens
  BY <1>1, TokenPairs DEF Stage, Wrote, Knows, Replacing, TypeOK
<1>3. /\ issued' = issued \cup {n} /\ used' = used \cup {c} /\ cmd' = cmd /\ arrival' = arrival
  BY <1>1, <1>2 DEF Commit
<1>4. TypeOK' /\ Apart'
  BY <1>1, CommitTyped, CommitApart
<1>5. n[1] = c[1] /\ n[2] = c[2] + 1 /\ c = <<c[1], c[2]>> /\ c[2] \in Nat
  BY <1>2, TokenPairs
<1>6. Lineage'
  <2> SUFFICES ASSUME NEW t \in Tokens
               PROVE  /\ t \in used' => Successor(t) \in issued'
                      /\ t \in issued' /\ t[2] > 0 => <<t[1], t[2] - 1>> \in used'
    BY DEF Lineage
  <2>1. t \in used' => Successor(t) \in issued'
    BY <1>3 DEF SessionsInv, Lineage
  <2>2. CASE t = n
    <3>1. <<t[1], t[2] - 1>> = c
      BY <1>5, <2>2
    <3> QED BY <1>3, <2>1, <3>1
  <2>3. CASE t # n
    BY <1>3, <2>1, <2>3 DEF SessionsInv, Lineage
  <2> QED BY <2>2, <2>3
<1>7. Chain'
  <2>1. used' \subseteq issued'
    BY <1>2, <1>3 DEF SessionsInv, Chain, Current
  <2>3. \A t \in issued' : t[1] \in started'
    BY <1>1, <1>2, <1>3, <1>5 DEF SessionsInv, Chain, Current, Commit
  <2>2. ASSUME NEW t \in issued', NEW u \in issued', t[1] = u[1], t[2] < u[2]
        PROVE  t \in used'
    <3>1. t \in Tokens /\ u \in Tokens
      BY <1>2, <1>3 DEF TypeOK, SessionsInv
    <3>2. t[2] \in Nat /\ u[2] \in Nat /\ t = <<t[1], t[2]>>
      BY <3>1, TokenPairs
    <3>3. CASE t \in issued /\ u \in issued
      BY <1>3, <2>2, <3>3 DEF SessionsInv, Chain
    <3>4. CASE u = n /\ t \in issued
      <4>1. t[2] < c[2] \/ t[2] = c[2]
        BY <1>5, <2>2, <3>2, <3>4
      <4>2. t[2] = c[2] => t = c
        BY <1>5, <2>2, <3>2, <3>4
      <4>3. t[2] < c[2] => t \in used
        BY <1>2, <1>5, <2>2, <3>4 DEF SessionsInv, Chain, Current
      <4> QED BY <1>3, <4>1, <4>2, <4>3
    <3>5. CASE t = n /\ u \in issued
      <4>1. c[1] = u[1] /\ c[2] < u[2]
        BY <1>5, <2>2, <3>2, <3>5
      <4>2. c \in used
        BY <1>2, <3>5, <4>1 DEF SessionsInv, Chain, Current
      <4> QED BY <1>2, <4>2 DEF Current
    <3>6. CASE t = n /\ u = n
      BY <2>2, <3>2, <3>6
    <3> QED BY <1>3, <3>3, <3>4, <3>5, <3>6
  <2> QED BY <2>1, <2>2, <2>3 DEF Chain
<1>8. answer'[r] = "rotated" /\ pc'[r] = "done" /\ \A q \in Requests \ {r} : answer'[q] = answer[q]
  BY <1>1, Returned DEF Commit
<1>9. \A q \in Requests : Stage(q)'
  <2>1. Session(r) \notin arrival[r].ended \cup arrival[r].expired
    BY <1>1 DEF Stage, Knows, Replacing
  <2>2. Answered(r)'
    BY <1>3, <1>8, <2>1 DEF Answered, Session
  <2> QED BY <1>1, <2>2, CommitOthers, CommitSelf
<1>10. SingleUse'
  <2>1. \A q \in Requests : answer[q] = "rotated" => cmd[q] # c
    BY <1>2 DEF SessionsInv, Stage, Answered, Current
  <2> QED BY <1>3, <1>8, <2>1 DEF SingleUse, SessionsInv
<1> QED BY <1>4, <1>6, <1>7, <1>9, <1>10 DEF SessionsInv

(* The three commits of a revocation.                                      *)
LEMMA CommitRevocation ==
    ASSUME SessionsInv, NEW r \in Requests, NEW code \in {"replay", "logged_out", "logged_out_all"},
           pc[r] \in Ended \cup {"tokens_all"}, Commit(r, code), Answered(r)'
    PROVE  SessionsInv'
<1>1. code \in Codes /\ Stage(r) /\ TypeOK
  BY DEF Codes, SessionsInv
<1>2. txn[r].issued = {} /\ txn[r].used = {}
  BY <1>1 DEF Stage, Wrote, Ended, Replacing
<1>3. issued' = issued /\ used' = used /\ cmd' = cmd /\ started' = started
  BY <1>2 DEF Commit
<1>4. TypeOK' /\ Apart'
  BY <1>1, CommitTyped, CommitApart
<1>5. Lineage' /\ Chain'
  BY <1>3 DEF SessionsInv, Lineage, Chain
<1>6. \A q \in Requests : Stage(q)'
  BY <1>1, CommitOthers, CommitSelf
<1>7. answer'[r] = code /\ \A q \in Requests \ {r} : answer'[q] = answer[q]
  BY <1>1, Returned DEF Commit
<1>8. SingleUse'
  BY <1>3, <1>7 DEF SingleUse, SessionsInv
<1> QED BY <1>4, <1>5, <1>6, <1>8 DEF SessionsInv

LEMMA CommitRevocations ==
    ASSUME SessionsInv, NEW r \in Requests,
           CommitReplay(r) \/ CommitLogout(r) \/ CommitLogoutAll(r)
    PROVE  SessionsInv'
<1>1. Stage(r) /\ TypeOK
  BY DEF SessionsInv
<1>2. ASSUME NEW code \in {"replay", "logged_out"}, pc[r] \in Ended, Commit(r, code)
      PROVE  SessionsInv'
  <2>1. /\ ended' = ended \cup txn[r].ended /\ cmd' = cmd /\ answer'[r] = code /\ pc'[r] = "done"
    BY <1>1, <1>2, Returned DEF Commit, Codes
  <2>2. Answered(r)'
    BY <1>1, <1>2, <2>1 DEF Answered, Stage, Knows, Session
  <2> QED BY <1>2, <2>2, CommitRevocation
<1>3. ASSUME pc[r] = "tokens_all", Commit(r, "logged_out_all")
      PROVE  SessionsInv'
  <2>1. /\ ended' = ended \cup txn[r].ended /\ arrival' = arrival
        /\ answer'[r] = "logged_out_all" /\ pc'[r] = "done"
    BY <1>1, <1>3, Returned DEF Commit, Codes
  <2>2. Answered(r)'
    BY <1>1, <1>3, <2>1 DEF Answered, Stage, Knows
  <2> QED BY <1>3, <2>2, CommitRevocation
<1> QED BY <1>2, <1>3 DEF CommitReplay, CommitLogout, CommitLogoutAll, Ended

-----------------------------------------------------------------------------
LEMMA LoginStep ==
    ASSUME SessionsInv, NEW s \in Sessions, Login(s)
    PROVE  SessionsInv'
<1> USE DEF SessionsInv
<1>1. /\ s \notin started /\ started' = started \cup {s} /\ issued' = issued \cup {<<s, 0>>}
      /\ UNCHANGED <<ended, expired, used, revoked, pc, cmd, txn, answer, arrival>>
      /\ <<s, 0>> \in Tokens
  BY FirstToken DEF Login
<1>2. TypeOK'
  BY <1>1 DEF TypeOK
<1>3. Lineage'
  <2>1. ASSUME NEW t \in Tokens, t \in issued', t[2] > 0
        PROVE  <<t[1], t[2] - 1>> \in used'
    <3>1. t # <<s, 0>>
      BY <2>1
    <3>2. t \in issued
      BY <1>1, <2>1, <3>1
    <3> QED BY <1>1, <2>1, <3>2 DEF Lineage
  <2>2. \A t \in Tokens : t \in used' => Successor(t) \in issued'
    BY <1>1 DEF Lineage
  <2> QED BY <2>1, <2>2 DEF Lineage
<1>4. Chain'
  <2>1. used' \subseteq issued' /\ \A t \in issued' : t[1] \in started'
    BY <1>1 DEF Chain
  <2>2. ASSUME NEW t \in issued', NEW u \in issued', t[1] = u[1], t[2] < u[2]
        PROVE  t \in used'
    <3>1. t[1] = s => t = <<s, 0>> /\ u = <<s, 0>>
      BY <1>1, <2>2 DEF Chain
    <3>2. t[1] # s
      BY <2>2, <3>1
    <3> QED BY <1>1, <2>2, <3>2 DEF Chain
  <2> QED BY <2>1, <2>2 DEF Chain
<1>5. Apart' /\ SingleUse'
  BY <1>1 DEF Apart, SingleUse
<1>6. ASSUME NEW q \in Requests PROVE Stage(q)'
  <2>1. Stage(q) /\ cmd[q] \in Tokens
    BY DEF TypeOK
  <2>2. Successor(cmd[q]) # <<s, 0>>
    <3>1. Successor(cmd[q])[2] = cmd[q][2] + 1 /\ cmd[q][2] \in Nat
      BY <2>1, TokenPairs
    <3>2. <<s, 0>>[2] = 0 /\ cmd[q][2] + 1 # 0
      BY <3>1
    <3> QED BY <3>1, <3>2
  <2>3. Wrote(q)'
    BY <1>1, <2>1 DEF Stage, Wrote, Current
  <2>4. Left(q)' /\ Answered(q)'
    BY <1>1, <2>1 DEF Stage, Left, Answered, Session
  <2>5. Knows(q)'
    BY <1>1, <2>1, <2>2 DEF Stage, Knows, Session
  <2> QED BY <2>3, <2>4, <2>5 DEF Stage
<1> QED BY <1>2, <1>3, <1>4, <1>5, <1>6

LEMMA ExpireStep ==
    ASSUME SessionsInv, NEW s \in Sessions, Expire(s)
    PROVE  SessionsInv'
<1> USE DEF SessionsInv
<1>1. /\ expired' = expired \cup {s}
      /\ UNCHANGED <<started, ended, issued, used, revoked, pc, cmd, txn, answer, arrival>>
  BY DEF Expire
<1>2. TypeOK'
  BY <1>1 DEF TypeOK
<1>3. Lineage' /\ Chain' /\ Apart' /\ SingleUse'
  BY <1>1 DEF Lineage, Chain, Apart, SingleUse
<1>4. ASSUME NEW q \in Requests PROVE Stage(q)'
  <2>1. Stage(q)
    OBVIOUS
  <2>2. Wrote(q)'
    BY <1>1, <2>1 DEF Stage, Wrote, Current
  <2>3. Left(q)' /\ Answered(q)'
    BY <1>1, <2>1 DEF Stage, Left, Answered, Session
  <2>4. Knows(q)'
    BY <1>1, <2>1 DEF Stage, Knows, Session
  <2> QED BY <2>2, <2>3, <2>4 DEF Stage
<1> QED BY <1>2, <1>3, <1>4

LEMMA NextStep == SessionsInv /\ [Next]_vars => SessionsInv'
<1> SUFFICES ASSUME SessionsInv, [Next]_vars PROVE SessionsInv'
  OBVIOUS
<1>1. CASE UNCHANGED vars
  <2>1. TypeOK'
    BY <1>1 DEF vars, SessionsInv, TypeOK
  <2>2. Lineage' /\ Chain' /\ Apart' /\ SingleUse'
    BY <1>1 DEF vars, SessionsInv, Lineage, Chain, Apart, SingleUse
  <2>3. ASSUME NEW q \in Requests PROVE Stage(q)'
    <3>1. Stage(q)
      BY DEF SessionsInv
    <3>2. Wrote(q)'
      BY <1>1, <3>1 DEF vars, Stage, Wrote, Current
    <3>3. Left(q)' /\ Answered(q)'
      BY <1>1, <3>1 DEF vars, Stage, Left, Answered, Session
    <3>4. Knows(q)'
      BY <1>1, <3>1 DEF vars, Stage, Knows, Session
    <3> QED BY <3>2, <3>3, <3>4 DEF Stage
  <2> QED BY <2>1, <2>2, <2>3 DEF SessionsInv
<1>2. ASSUME NEW r \in Requests, Arrival(r) PROVE SessionsInv'
  BY <1>2, RefreshReplayedStep, RefreshRefusedStep, RefreshCurrentStep, LogoutStep,
     LogoutAllStep DEF Arrival
<1>3. ASSUME NEW r \in Requests, Step(r) PROVE SessionsInv'
  <2>1. ASSUME DeadlockVictim(r) PROVE SessionsInv'
    BY <2>1, RefusedStep DEF DeadlockVictim, Refusals
  <2> QED BY <1>3, <2>1, CheckSessionStep, InsertReplacementStep, BeginConsumeStep,
             ConsumeStep, ReadSessionStep, BeginRevokeTokensStep, RevokeTokenStep,
             EndSessionStep, BeginEndSessionsStep, EndOneSessionStep, EndedAllStep,
             CommitRefreshStep, CommitRevocations DEF Step
<1> QED BY <1>1, <1>2, <1>3, LoginStep, ExpireStep, CrashStep DEF Next

(* The inductive invariant: transactions, locks and tables agree whatever  *)
(* requests race, crash or are aborted (session_lifecycle.py and           *)
(* SqlAlchemySessionRepository).                                           *)
THEOREM SessionsHold == Spec => []SessionsInv
<1>1. Init => SessionsInv
  BY InitHolds
<1>2. SessionsInv /\ [Next]_vars => SessionsInv'
  BY NextStep
<1> QED BY <1>1, <1>2, PTL DEF Spec

(* Every table and every transaction is well typed, for any number of      *)
(* requests, sessions and generations.                                     *)
THEOREM SessionsTypeCorrect == Spec => []TypeOK
<1>1. SessionsInv => TypeOK
  BY DEF SessionsInv
<1> QED BY <1>1, SessionsHold, PTL

(* The rotation history of every session is one chain, however many        *)
(* rotations race: rotate_refresh_token commits a replacement together     *)
(* with the use of the token it replaces.                                  *)
THEOREM HistoryIsAChain == Spec => []Lineage
<1>1. SessionsInv => Lineage
  BY DEF SessionsInv
<1> QED BY <1>1, SessionsHold, PTL

(* A refresh token is exchanged at most once, although it is read, tested  *)
(* and updated in separate statements (RefreshSession).                    *)
THEOREM ExchangedOnce == Spec => []SingleUse
<1>1. SessionsInv => SingleUse
  BY DEF SessionsInv
<1> QED BY <1>1, SessionsHold, PTL

(* A session that was revoked or expired when a refresh arrived gives it   *)
(* no tokens (get_active_by_id and the WHERE clause of the UPDATE).        *)
THEOREM DeadStayDead == Spec => []DeadSessionNotRefreshed
<1>1. SessionsInv => DeadSessionNotRefreshed
  BY DEF SessionsInv, Stage, Answered, DeadSessionNotRefreshed
<1> QED BY <1>1, SessionsHold, PTL

(* A logout, a logout-all and a detected replay that were answered have    *)
(* revoked what they say for ever (revoke, revoke_all_for_user): whoever   *)
(* finds the session revoked already found it committed.                   *)
THEOREM RevocationHolds == Spec => []AnsweredRevocationHolds
<1>1. SessionsInv => AnsweredRevocationHolds
  BY DEF SessionsInv, Stage, Answered, AnsweredRevocationHolds
<1> QED BY <1>1, SessionsHold, PTL

-----------------------------------------------------------------------------
(* Where a request can wait, and what it may hold meanwhile.               *)
LEMMA Waiting ==
    ASSUME SessionsInv, NEW q \in Requests, NEW p \in Requests, Waits(q, p),
           pc[q] \notin LoggingOutAll
    PROVE  \/ pc[q] = "insert" /\ txn[q].issued = {} /\ txn[q].locks = {}
              /\ txn[p].issued # {}
           \/ pc[q] = "consuming" /\ txn[q].locks = {} /\ txn[p].locks \cap Tokens # {}
           \/ pc[q] \in Revoking /\ txn[q].issued = {} /\ txn[q].locks = {}
              /\ txn[p].locks \cap Tokens # {}
           \/ pc[q] \in Revoking /\ txn[q].issued = {} /\ txn[q].locks \subseteq Tokens
              /\ txn[p].locks \cap Sessions # {}
<1>1. Stage(q) /\ TypeOK /\ cmd[q] \in Tokens /\ Session(q) \in Sessions
  BY TokenPairs DEF SessionsInv, TypeOK, Session
<1>2. NoTxn.issued = {} /\ NoTxn.locks = {} /\ NoTxn.todo = {}
  BY DEF NoTxn
<1>3. CASE pc[q] = "insert" /\ Successor(cmd[q]) \in txn[p].issued
  BY <1>1, <1>2, <1>3 DEF Stage, Wrote, Quiet
<1>4. CASE txn[q].todo \cap txn[p].locks # {}
  <2>1. pc[q] \notin Quiet \cup Ended \cup {"consume", "commit_refresh"}
    BY <1>1, <1>2, <1>4 DEF Stage, Wrote, Left
  <2>2. pc[q] \in {"consuming"} \cup Revoking
    BY <1>1, <2>1 DEF TypeOK, Quiet, Ended, Revoking, LoggingOutAll
  <2>3. CASE pc[q] = "consuming"
    BY <1>1, <1>4, <2>3 DEF Stage, Wrote, Left
  <2>4. CASE pc[q] \in Revoking
    BY <1>1, <1>4, <2>4 DEF Stage, Wrote, Left, Revoking, Replacing, TokensOf
  <2> QED BY <2>2, <2>3, <2>4
<1>5. CASE pc[q] \in Revoking /\ Session(q) \in txn[p].locks
  BY <1>1, <1>5 DEF Stage, Wrote, Left, Revoking, Replacing
<1> QED BY <1>3, <1>4, <1>5 DEF Waits, Revoking

(* Refreshes, replays and logouts wait for inserted tokens before token    *)
(* rows and for token rows before the session row, and commit after it: no *)
(* chain of them is longer than three.                                     *)
LEMMA NoCycle == SessionsInv => DeadlockNeedsLogoutAll
<1> SUFFICES ASSUME SessionsInv, NEW S \in SUBSET Requests, S # {},
                    \A q \in S : \E p \in S \ {q} : Waits(q, p),
                    \A q \in S : pc[q] \notin LoggingOutAll
             PROVE  FALSE
  BY DEF DeadlockNeedsLogoutAll, LoggingOutAll
<1>1. \A q \in S : txn[q].locks \cap Sessions = {}
  <2> SUFFICES ASSUME NEW q \in S, txn[q].locks \cap Sessions # {} PROVE FALSE
    OBVIOUS
  <2>1. PICK p \in S : Waits(q, p)
    OBVIOUS
  <2>2. Tokens \cap Sessions = {}
    BY TokenPairs
  <2> QED BY <2>1, <2>2, Waiting
<1>2. \A q \in S : txn[q].locks \cap Tokens = {}
  <2> SUFFICES ASSUME NEW q \in S, txn[q].locks \cap Tokens # {} PROVE FALSE
    OBVIOUS
  <2>1. PICK p \in S : Waits(q, p)
    OBVIOUS
  <2> QED BY <1>1, <2>1, Waiting
<1>3. \A q \in S : txn[q].issued = {}
  <2> SUFFICES ASSUME NEW q \in S, txn[q].issued # {} PROVE FALSE
    OBVIOUS
  <2>1. PICK p \in S : Waits(q, p)
    OBVIOUS
  <2> QED BY <1>1, <1>2, <2>1, Waiting
<1>4. PICK q \in S : TRUE
  OBVIOUS
<1>5. PICK p \in S : Waits(q, p)
  OBVIOUS
<1> QED BY <1>1, <1>2, <1>3, <1>5, Waiting

(* A wait cycle has a logout-all in it, for any number of requests: the    *)
(* other use cases take their rows in one order (revoke,                   *)
(* rotate_refresh_token against revoke_all_for_user).                      *)
THEOREM OnlyLogoutAllDeadlocks == Spec => []DeadlockNeedsLogoutAll
  BY NoCycle, SessionsHold, PTL

-----------------------------------------------------------------------------
(* The tables implement RotatingTokens.                                    *)

(* What the answers of r rest on: the token it presented, and which tokens *)
(* and sessions its transaction may revoke.                                *)
Justified(r) ==
    LET x == txn[r] IN
    /\ pc[r] # "idle" => cmd[r] \in issued
    /\ pc[r] \in {"revoke_replay", "tokens_replay", "commit_replay"} => cmd[r] \in used
    /\ pc[r] \in {"revoke_logout", "tokens_logout", "commit_logout", "revoke_all"}
                    \cup LoggingOutAll =>
        cmd[r] = <<Session(r), 0>>
    /\ pc[r] \in Revoking \cup Ended =>
        x.ended \subseteq {Session(r)} /\ \A t \in x.revoked : t[1] = Session(r)
    /\ pc[r] = "ending" => x.revoked = {}
    /\ pc[r] \in LoggingOutAll => x.queue \subseteq x.ended
    /\ pc[r] = "tokens_all" => \A t \in x.todo \cup x.revoked : t[1] \in x.ended

(* A token is revoked only with its session, and a session has its first   *)
(* token.                                                                  *)
AnswersInv ==
    /\ \A t \in revoked : t[1] \in ended
    /\ \A s \in started : <<s, 0>> \in issued
    /\ \A r \in Requests : Justified(r)

(* A step keeps AnswersInv and is a step of RotatingTokens or a stutter.   *)
Mapped == AnswersInv' /\ (Abstract!Next \/ UNCHANGED <<Unspent, used, Over, At, Verdict>>)

LEMMA AbstractInit == Init => AnswersInv /\ Abstract!Init
<1> SUFFICES ASSUME Init PROVE AnswersInv /\ Abstract!Init
  OBVIOUS
<1>1. AnswersInv
  BY DEF Init, AnswersInv, Justified, LoggingOutAll, Revoking, Ended
<1>2. Unspent = {} /\ Over = {}
  BY DEF Init, Unspent, Over
<1>3. At = [r \in Requests |-> Abstract!Away]
  BY DEF Init, At, Abstract!Away
<1>4. Verdict = [r \in Requests |-> Abstract!NoVerdict]
  BY DEF Init, Verdict, Abstract!NoVerdict
<1> QED BY <1>1, <1>2, <1>3, <1>4 DEF Init, Abstract!Init

LEMMA OthersJustified ==
    ASSUME AnswersInv, NEW r \in Requests, Others(r), issued \subseteq issued', used \subseteq used'
    PROVE  \A q \in Requests \ {r} : Justified(q)'
<1> SUFFICES ASSUME NEW q \in Requests \ {r} PROVE Justified(q)'
  OBVIOUS
<1>1. Justified(q)
  BY DEF AnswersInv
<1> QED BY <1>1 DEF Justified, Others, Session

(* A request goes on, or crashes: its caller sees nothing.                 *)
LEMMA Works ==
    ASSUME SessionsInv, AnswersInv, NEW r \in Requests, UNCHANGED <<tables, cmd, answer, arrival>>,
           \A q \in Requests \ {r} : pc'[q] = pc[q] /\ txn'[q] = txn[q],
           pc[r] # "idle", pc'[r] # "idle", Justified(r)'
    PROVE  Mapped
<1>1. AnswersInv'
  <2>1. Others(r) /\ UNCHANGED <<started, ended, issued, used, revoked>>
    BY DEF Others, tables
  <2> QED BY <2>1, OthersJustified DEF AnswersInv
<1>2. UNCHANGED <<Unspent, used, Over>>
  BY DEF Unspent, Over, tables
<1>3. UNCHANGED At
  <2>1. \A q \in Requests : (pc'[q] = "idle") <=> (pc[q] = "idle")
    OBVIOUS
  <2> QED BY <2>1 DEF At
<1>4. UNCHANGED Verdict
  BY DEF Verdict
<1> QED BY <1>1, <1>2, <1>3, <1>4 DEF Mapped

(* The sessions that have begun, by their tokens.                          *)
LEMMA Begins ==
    ASSUME SessionsInv, AnswersInv
    PROVE  Abstract!Begun = started
<1>1. Unspent \cup used = issued
  BY DEF Unspent, SessionsInv, Chain
<1>2. \A s \in Sessions : s \in started <=> \E t \in issued : t[1] = s
  <2>1. ASSUME NEW s \in started PROVE \E t \in issued : t[1] = s
    <3>1. <<s, 0>> \in issued /\ <<s, 0>>[1] = s
      BY DEF AnswersInv
    <3> QED BY <3>1
  <2> QED BY <2>1 DEF SessionsInv, Chain
<1> QED BY <1>1, <1>2 DEF Abstract!Begun, SessionsInv, TypeOK

(* A request arrives and is not answered at once.                          *)
LEMMA Arrives ==
    ASSUME SessionsInv, AnswersInv, NEW r \in Requests, NEW t \in Tokens, Arrive(r, t),
           UNCHANGED <<tables, answer>>,
           \A q \in Requests \ {r} : pc'[q] = pc[q] /\ txn'[q] = txn[q],
           pc'[r] # "idle", Justified(r)'
    PROVE  Mapped
<1>1. TypeOK /\ pc[r] = "idle" /\ answer[r] = "none"
  BY Unanswered DEF SessionsInv, Arrive
<1>2. AnswersInv'
  <2>1. Others(r) /\ UNCHANGED <<started, ended, issued, used, revoked>>
    BY <1>1, Arrived DEF Others, tables
  <2> QED BY <2>1, OthersJustified DEF AnswersInv
<1>3. UNCHANGED <<Unspent, used, Over>>
  BY DEF Unspent, Over, tables
<1>4. UNCHANGED Verdict
  <2>1. \A q \in Requests : answer[q] # "none" => cmd'[q] = cmd[q]
    BY <1>1, Arrived
  <2> QED BY <2>1 DEF Verdict
<1>5. At' = [At EXCEPT ![r] = [here |-> TRUE, begun |-> started, over |-> Over]]
  <2>1. /\ arrival'[r].known = started /\ arrival'[r].ended = ended
        /\ arrival'[r].expired = expired
        /\ \A q \in Requests \ {r} : arrival'[q] = arrival[q]
    BY <1>1, Arrived
  <2>2. pc'[r] # "idle" /\ answer'[r] = "none" /\ answer' = answer
    BY <1>1
  <2> QED BY <2>1, <2>2 DEF At, Over
<1>6. ~At[r].here /\ Verdict[r] = Abstract!NoVerdict
  BY <1>1 DEF At, Verdict, Abstract!NoVerdict
<1>7. Abstract!Arrive(r)
  BY <1>3, <1>4, <1>5, <1>6, Begins DEF Abstract!Arrive
<1> QED BY <1>2, <1>7 DEF Mapped, Abstract!Next

(* A request is answered: the caller is told of the token it presented.    *)
LEMMA Tells ==
    ASSUME SessionsInv, NEW r \in Requests, NEW code \in Codes \ {"none"}, Return(r, code),
           answer[r] = "none", NEW t, cmd'[r] = t,
           \A q \in Requests \ {r} : cmd'[q] = cmd[q] /\ arrival'[q] = arrival[q]
    PROVE  Abstract!Tell(r, Told(code), t)
<1>1. /\ answer'[r] = code /\ pc'[r] = "done" /\ code # "none"
      /\ \A q \in Requests \ {r} : pc'[q] = pc[q] /\ answer'[q] = answer[q]
  BY Returned DEF SessionsInv
<1>2. Verdict[r] = Abstract!NoVerdict
  BY DEF Verdict, Abstract!NoVerdict
<1>3. Verdict' = [Verdict EXCEPT ![r] = [code |-> Told(code), token |-> t]]
  BY <1>1 DEF Verdict
<1>4. At' = [At EXCEPT ![r] = Abstract!Away]
  BY <1>1 DEF At, Abstract!Away
<1> QED BY <1>2, <1>3, <1>4 DEF Abstract!Tell

(* A refusal, or an aborted transaction.                                   *)
LEMMA Refuses ==
    ASSUME SessionsInv, AnswersInv, NEW r \in Requests,
           NEW code \in {"invalid", "expired", "conflict", "error"}, Return(r, code),
           UNCHANGED tables, answer[r] = "none", NEW t \in issued, cmd'[r] = t,
           \A q \in Requests \ {r} : cmd'[q] = cmd[q] /\ arrival'[q] = arrival[q],
           code # "error" => t \in used \cup revoked \/ t[1] \in Over
    PROVE  Mapped
<1>1. /\ code \in Codes /\ code # "none" /\ TypeOK /\ used \subseteq issued
  BY DEF Codes, Refusals, SessionsInv, Chain
<1>2. Abstract!Tell(r, Told(code), t)
  BY <1>1, Tells
<1>3. UNCHANGED <<Unspent, used, Over>> /\ t \in Unspent \cup used
  BY DEF Unspent, Over, tables
<1>4. AnswersInv'
  <2>1. pc'[r] = "done" /\ txn'[r] = NoTxn
    BY <1>1, Returned
  <2>2. Others(r) /\ UNCHANGED <<started, ended, issued, used, revoked>>
    BY <1>1, Returned DEF Others, tables
  <2>3. Justified(r)'
    BY <2>1, <2>2 DEF Justified, LoggingOutAll, Revoking, Ended
  <2> QED BY <2>2, <2>3, OthersJustified DEF AnswersInv
<1>5. CASE code = "error"
  <2>1. Told(code) = "failed"
    BY <1>5 DEF Told
  <2>2. Abstract!Fail(r, t)
    BY <1>2, <1>3, <2>1 DEF Abstract!Fail
  <2> QED BY <1>3, <1>4, <2>2 DEF Mapped, Abstract!Next
<1>6. CASE code # "error"
  <2>1. Told(code) = "refused"
    BY <1>6 DEF Told
  <2>2. t \in used \/ t[1] \in Over
    BY <1>6 DEF AnswersInv, Over
  <2>3. Abstract!Refuse(r, t)
    BY <1>2, <1>3, <2>1, <2>2 DEF Abstract!Refuse
  <2> QED BY <1>3, <1>4, <2>3 DEF Mapped, Abstract!Next
<1> QED BY <1>5, <1>6

LEMMA ArrivalMaps ==
    ASSUME SessionsInv, AnswersInv, NEW r \in Requests, Arrival(r)
    PROVE  Mapped
<1>1. TypeOK
  BY DEF SessionsInv
<1>2. ASSUME NEW t \in Tokens, NEW l \in {"revoke_replay", "check"}, Arrive(r, t), t \in issued,
             l = "revoke_replay" => t \in used, Goto(r, l), UNCHANGED <<tables, txn, answer>>
      PROVE  Mapped
  <2>1. pc'[r] = l /\ \A q \in Requests \ {r} : pc'[q] = pc[q]
    BY <1>1, <1>2, Went DEF Places
  <2>2. Justified(r)'
    BY <1>1, <1>2, <2>1, Arrived DEF Justified, LoggingOutAll, Revoking, Ended, tables
  <2> QED BY <1>1, <1>2, <2>1, <2>2, Arrives
<1>3. ASSUME NEW t \in Tokens, RefreshRefused(r, t) PROVE Mapped
  <2>1. /\ Arrive(r, t) /\ t \in issued /\ UNCHANGED tables
        /\ t \in revoked \/ t[1] \in Over
    BY <1>3 DEF RefreshRefused, Over
  <2>2. PICK code \in {"invalid", "expired", "conflict", "error"} :
            Return(r, code) /\ code # "error"
    BY <1>3 DEF RefreshRefused
  <2>3. answer[r] = "none" /\ cmd'[r] = t
    BY <1>1, <2>1, Arrived, Unanswered DEF Arrive
  <2> QED BY <1>1, <2>1, <2>2, <2>3, Arrived, Refuses
<1>4. ASSUME NEW s \in Sessions, Logout(r, s) \/ LogoutAll(r, s) PROVE Mapped
  <2>1. /\ Arrive(r, <<s, 0>>) /\ <<s, 0>> \in Tokens /\ <<s, 0>> \in issued
        /\ UNCHANGED <<tables, answer>> /\ txn[r] = NoTxn /\ pc[r] = "idle"
    BY <1>4, FirstToken DEF Logout, LogoutAll, AnswersInv, Arrive, SessionsInv, Stage, Wrote, Quiet
  <2>2. PICK l \in {"revoke_logout", "revoke_all"} : Goto(r, l)
    BY <1>4 DEF Logout, LogoutAll
  <2>3. pc'[r] = l /\ \A q \in Requests \ {r} : pc'[q] = pc[q]
    BY <1>1, <2>2, Went DEF Places
  <2>4. txn' = txn /\ txn[r].revoked = {} /\ txn[r].queue = {}
    BY <1>4, <2>1 DEF Logout, LogoutAll, NoTxn
  <2>5. cmd'[r] = <<s, 0>> /\ cmd'[r][1] = s /\ issued' = issued
    BY <1>1, <2>1, Arrived DEF tables
  <2>6. Justified(r)'
    BY <2>1, <2>3, <2>4, <2>5 DEF Justified, LoggingOutAll, Revoking, Ended, Session
  <2> QED BY <2>1, <2>3, <2>4, <2>6, Arrives
<1> QED BY <1>2, <1>3, <1>4
        DEF Arrival, RefreshReplayed, RefreshCurrent, Current

(* A refresh works or is refused for a reason.                             *)
LEMMA RefreshMaps ==
    ASSUME SessionsInv, AnswersInv, NEW r \in Requests,
           CheckSession(r) \/ InsertReplacement(r) \/ BeginConsume(r) \/ Consume(r)
    PROVE  Mapped
<1>1. /\ TypeOK /\ Stage(r) /\ UNCHANGED <<tables, cmd, arrival>>
      /\ pc[r] \in {"check", "insert", "consume", "consuming"} /\ answer[r] = "none"
  BY Unanswered DEF SessionsInv, CheckSession, InsertReplacement, BeginConsume, Consume
<1>2. cmd[r] \in issued /\ Session(r) \notin arrival[r].expired /\ cmd[r] \in Tokens
  BY <1>1 DEF Stage, Knows, Replacing, TypeOK
<1>3. ASSUME NEW code \in {"invalid", "conflict"}, Return(r, code),
             cmd[r] \in used \cup revoked \/ Session(r) \in ended
      PROVE  Mapped
  BY <1>1, <1>2, <1>3, Refuses DEF Over, Session
<1>4. ASSUME NEW l \in {"insert", "consume", "consuming", "commit_refresh"}, Goto(r, l),
             UNCHANGED answer, NEW x, txn' = [txn EXCEPT ![r] = x]
      PROVE  Mapped
  <2>1. /\ pc'[r] = l /\ \A q \in Requests \ {r} : pc'[q] = pc[q] /\ txn'[q] = txn[q]
    BY <1>1, <1>4, Went DEF Places, TypeOK
  <2>2. Justified(r)'
    BY <1>1, <1>2, <2>1 DEF Justified, LoggingOutAll, Revoking, Ended, tables
  <2> QED BY <1>1, <1>4, <2>1, <2>2, Works
<1>5. txn = [txn EXCEPT ![r] = txn[r]]
  BY <1>1 DEF TypeOK
<1>6. ASSUME CheckSession(r) PROVE Mapped
  BY <1>2, <1>3, <1>4, <1>5, <1>6 DEF CheckSession, Active
<1>7. ASSUME InsertReplacement(r) PROVE Mapped
  <2>1. Successor(cmd[r]) \in issued => cmd[r] \in used
    <3>1. ASSUME Successor(cmd[r]) \in issued PROVE cmd[r] \in used
      <4>1. /\ Successor(cmd[r]) \in Tokens /\ cmd[r] = <<cmd[r][1], cmd[r][2]>>
            /\ cmd[r][2] \in Nat
            /\ Successor(cmd[r])[1] = cmd[r][1] /\ Successor(cmd[r])[2] = cmd[r][2] + 1
        BY <1>1, <1>2, <3>1, TokenPairs DEF TypeOK
      <4> DEFINE n == Successor(cmd[r])
      <4>2. n[2] > 0 /\ <<n[1], n[2] - 1>> = cmd[r]
        BY <4>1
      <4>3. <<n[1], n[2] - 1>> \in used
        BY <3>1, <4>1, <4>2 DEF SessionsInv, Lineage
      <4> QED BY <4>2, <4>3
    <3> QED BY <3>1
  <2> QED BY <1>3, <1>4, <1>7, <2>1 DEF InsertReplacement
<1>8. ASSUME BeginConsume(r) PROVE Mapped
  BY <1>2, <1>3, <1>4, <1>8 DEF BeginConsume, Active, Current
<1>9. ASSUME Consume(r) PROVE Mapped
  BY <1>2, <1>3, <1>4, <1>9 DEF Consume, Current
<1> QED BY <1>6, <1>7, <1>8, <1>9

(* The statements of a revocation.                                         *)
LEMMA RevokeMaps ==
    ASSUME SessionsInv, AnswersInv, NEW r \in Requests,
           \/ ReadSession(r)
           \/ \E s \in Sessions : BeginRevokeTokens(r, s)
           \/ \E t \in Tokens : RevokeToken(r, t)
           \/ EndSession(r)
    PROVE  Mapped
<1>1. /\ TypeOK /\ Stage(r) /\ Justified(r) /\ UNCHANGED <<tables, cmd, answer, arrival>>
  BY DEF SessionsInv, AnswersInv, ReadSession, BeginRevokeTokens, RevokeToken, EndSession
<1>2. txn[r] \in Txn /\ cmd[r] \in Tokens
  BY <1>1 DEF TypeOK
<1>3. ASSUME ReadSession(r) PROVE Mapped
  <2>1. /\ \/ pc[r] = "revoke_replay" /\ pc'[r] = "tokens_replay"
           \/ pc[r] = "revoke_logout" /\ pc'[r] = "tokens_logout"
        /\ \A q \in Requests \ {r} : pc'[q] = pc[q] /\ txn'[q] = txn[q]
    BY <1>1, <1>3 DEF ReadSession, Goto, TypeOK
  <2>2. txn[r] = NoTxn
    BY <1>1, <2>1 DEF Stage, Wrote, Quiet
  <2>3. txn'[r].revoked = txn[r].revoked /\ txn'[r].ended = txn[r].ended
    BY <1>1, <1>2, <1>3 DEF ReadSession, TypeOK, Txn
  <2>4. txn'[r].revoked = {} /\ txn'[r].ended = {}
    BY <2>2, <2>3 DEF NoTxn
  <2>5. Justified(r)'
    BY <1>1, <2>1, <2>4 DEF Justified, LoggingOutAll, Revoking, Ended, Session, tables
  <2> QED BY <1>1, <2>1, <2>5, Works
<1>4. ASSUME NEW s \in Sessions, BeginRevokeTokens(r, s) PROVE Mapped
  <2>1. /\ pc' = pc /\ pc[r] \in {"tokens_replay", "tokens_logout", "tokens_all"}
        /\ s \in txn[r].queue /\ \A q \in Requests \ {r} : txn'[q] = txn[q]
    BY <1>1, <1>4 DEF BeginRevokeTokens, TypeOK
  <2>2. /\ txn'[r].revoked = txn[r].revoked /\ txn'[r].ended = txn[r].ended
        /\ txn'[r].todo \subseteq TokensOf(s) /\ txn'[r].queue \subseteq txn[r].queue
    BY <1>1, <1>2, <1>4 DEF BeginRevokeTokens, TypeOK, Txn
  <2>3. \A t \in txn'[r].todo : t[1] = s
    BY <2>2 DEF TokensOf
  <2>4. Justified(r)'
    BY <1>1, <2>1, <2>2, <2>3 DEF Justified, LoggingOutAll, Revoking, Ended, Session, tables
  <2> QED BY <1>1, <2>1, <2>4, Works
<1>5. ASSUME NEW t \in Tokens, RevokeToken(r, t) PROVE Mapped
  <2>1. /\ pc' = pc /\ pc[r] \in {"tokens_replay", "tokens_logout", "tokens_all"}
        /\ t \in txn[r].todo /\ \A q \in Requests \ {r} : txn'[q] = txn[q]
    BY <1>1, <1>5 DEF RevokeToken, TypeOK
  <2>2. /\ txn'[r].revoked \subseteq txn[r].revoked \cup {t} /\ txn'[r].ended = txn[r].ended
        /\ txn'[r].todo \subseteq txn[r].todo /\ txn'[r].queue = txn[r].queue
    BY <1>1, <1>2, <1>5 DEF RevokeToken, TypeOK, Txn
  <2>3. pc[r] \in Revoking => t[1] = Session(r)
    BY <1>1, <2>1 DEF Stage, Left, TokensOf
  <2>4. Justified(r)'
    BY <1>1, <2>1, <2>2, <2>3 DEF Justified, LoggingOutAll, Revoking, Ended, Session, tables
  <2> QED BY <1>1, <2>1, <2>4, Works
<1>6. ASSUME EndSession(r) PROVE Mapped
  <2>1. /\ \/ pc[r] = "tokens_replay" /\ pc'[r] = "commit_replay"
           \/ pc[r] = "tokens_logout" /\ pc'[r] = "commit_logout"
        /\ \A q \in Requests \ {r} : pc'[q] = pc[q] /\ txn'[q] = txn[q]
    BY <1>1, <1>6 DEF EndSession, Goto, TypeOK
  <2>2. txn'[r].revoked = txn[r].revoked /\ txn'[r].ended \subseteq txn[r].ended \cup {Session(r)}
    <3> DEFINE x == [txn[r] EXCEPT !.ended = {Session(r)},
                                   !.locks = txn[r].locks \cup {Session(r)}]
    <3>1. txn' = txn \/ txn' = [txn EXCEPT ![r] = x]
      BY <1>6 DEF EndSession
    <3>2. x.revoked = txn[r].revoked /\ x.ended = {Session(r)}
      BY <1>2 DEF Txn
    <3> HIDE DEF x
    <3>3. txn'[r] = txn[r] \/ txn'[r] = x
      BY <1>1, <3>1 DEF TypeOK
    <3> QED BY <3>2, <3>3
  <2>3. Justified(r)'
    BY <1>1, <2>1, <2>2 DEF Justified, LoggingOutAll, Revoking, Ended, Session, tables
  <2> QED BY <1>1, <2>1, <2>3, Works
<1> QED BY <1>3, <1>4, <1>5, <1>6

(* The statements of logout-all, and a crash.                              *)
LEMMA LogoutAllMaps ==
    ASSUME SessionsInv, AnswersInv, NEW r \in Requests,
           \/ BeginEndSessions(r)
           \/ \E s \in Sessions : EndOneSession(r, s)
           \/ EndedAll(r)
           \/ Crash(r)
    PROVE  Mapped
<1>1. /\ TypeOK /\ Stage(r) /\ Justified(r) /\ UNCHANGED <<tables, cmd, answer, arrival>>
  BY DEF SessionsInv, AnswersInv, BeginEndSessions, EndOneSession, EndedAll, Crash
<1>2. txn[r] \in Txn
  BY <1>1 DEF TypeOK
<1>3. ASSUME NEW s \in Sessions, EndOneSession(r, s) PROVE Mapped
  <2> DEFINE active == IF s \in ended THEN {} ELSE {s}
  <2>1. /\ pc' = pc /\ pc[r] = "ending" /\ \A q \in Requests \ {r} : txn'[q] = txn[q]
    BY <1>1, <1>3 DEF EndOneSession, TypeOK
  <2>2. txn' = [txn EXCEPT ![r] = [txn[r] EXCEPT !.todo = txn[r].todo \ {s},
                                     !.locks = txn[r].locks \cup {s},
                                     !.ended = txn[r].ended \cup active,
                                     !.queue = txn[r].queue \cup active]]
    BY <1>3 DEF EndOneSession
  <2> HIDE DEF active
  <2>3. /\ txn'[r].revoked = txn[r].revoked /\ txn'[r].ended = txn[r].ended \cup active
        /\ txn'[r].queue = txn[r].queue \cup active
    BY <1>1, <1>2, <2>2 DEF TypeOK, Txn
  <2>4. Justified(r)'
    BY <1>1, <2>1, <2>3 DEF Justified, LoggingOutAll, Revoking, Ended, Session, tables
  <2> QED BY <1>1, <2>1, <2>4, Works
<1>4. ASSUME EndedAll(r) PROVE Mapped
  <2>1. /\ pc[r] = "ending" /\ pc'[r] = "tokens_all" /\ txn' = txn /\ txn[r].todo = {}
        /\ \A q \in Requests \ {r} : pc'[q] = pc[q]
    BY <1>1, <1>4 DEF EndedAll, Goto, TypeOK
  <2>2. Justified(r)'
    BY <1>1, <2>1 DEF Justified, LoggingOutAll, Revoking, Ended, Session, tables
  <2> QED BY <1>1, <2>1, <2>2, Works
<1>5. ASSUME Crash(r) PROVE Mapped
  <2>1. /\ pc[r] # "idle" /\ pc'[r] = "crashed"
        /\ \A q \in Requests \ {r} : pc'[q] = pc[q] /\ txn'[q] = txn[q]
    BY <1>1, <1>5 DEF Crash, Live, Goto, TypeOK
  <2>2. Justified(r)'
    BY <1>1, <2>1 DEF Justified, LoggingOutAll, Revoking, Ended, tables
  <2> QED BY <1>1, <2>1, <2>2, Works
<1>6. ASSUME BeginEndSessions(r) PROVE Mapped
  <2>1. /\ pc[r] = "revoke_all" /\ pc'[r] = "ending"
        /\ \A q \in Requests \ {r} : pc'[q] = pc[q] /\ txn'[q] = txn[q]
    BY <1>1, <1>6 DEF BeginEndSessions, Goto, TypeOK
  <2>2. txn[r].revoked = {} /\ txn[r].queue = {} /\ txn[r].ended = {}
    BY <1>1, <2>1 DEF Stage, Wrote, Quiet, NoTxn
  <2>3. txn'[r].revoked = {} /\ txn'[r].queue = {}
    <3>1. txn' = [txn EXCEPT ![r] = [txn[r] EXCEPT !.todo = started \ ended]]
      BY <1>6 DEF BeginEndSessions
    <3> QED BY <1>1, <1>2, <2>2, <3>1 DEF TypeOK, Txn
  <2>4. Justified(r)'
    BY <1>1, <2>1, <2>3 DEF Justified, LoggingOutAll, Revoking, Ended, Session, tables
  <2> QED BY <1>1, <2>1, <2>4, Works
<1> QED BY <1>3, <1>4, <1>5, <1>6

(* The victim of a deadlock was waiting, so that it is under way.          *)
LEMMA VictimMaps ==
    ASSUME SessionsInv, AnswersInv, NEW r \in Requests, DeadlockVictim(r)
    PROVE  Mapped
<1>1. PICK q \in Requests : Waits(r, q)
  BY DEF DeadlockVictim
<1>2. pc[r] \notin {"idle", "done"}
  <2>1. SUFFICES ASSUME pc[r] \in {"idle", "done"} PROVE FALSE
    OBVIOUS
  <2>2. txn[r] = NoTxn
    BY <2>1 DEF SessionsInv, Stage, Wrote, Quiet
  <2>3. txn[r].todo = {}
    BY <2>2 DEF NoTxn
  <2> QED BY <1>1, <2>1, <2>3 DEF Waits
<1>3. /\ Return(r, "error") /\ UNCHANGED <<tables, cmd, arrival>>
      /\ answer[r] = "none" /\ cmd[r] \in issued
  BY <1>2, Unanswered DEF DeadlockVictim, AnswersInv, Justified
<1> QED BY <1>3, Refuses

-----------------------------------------------------------------------------
(* What a commit leaves, if it has revoked tokens only with their          *)
(* sessions.                                                               *)
LEMMA CommitJustified ==
    ASSUME SessionsInv, AnswersInv, NEW r \in Requests, NEW code \in Codes, Commit(r, code),
           \A t \in txn[r].revoked : t[1] \in ended \cup txn[r].ended, cmd[r] \in issued
    PROVE  AnswersInv'
<1>1. /\ started' = started /\ issued' = issued \cup txn[r].issued
      /\ used' = used \cup txn[r].used /\ revoked' = revoked \cup txn[r].revoked
      /\ ended' = ended \cup txn[r].ended /\ UNCHANGED <<cmd, arrival>> /\ TypeOK
  BY DEF Commit, SessionsInv
<1>2. Others(r) /\ pc'[r] = "done"
  BY <1>1, Returned DEF Commit, Others
<1>3. Justified(r)'
  BY <1>1, <1>2 DEF Justified, LoggingOutAll, Revoking, Ended
<1> QED BY <1>1, <1>2, <1>3, OthersJustified DEF AnswersInv

(* The commit of a rotation is the exchange.                               *)
LEMMA CommitRefreshMaps ==
    ASSUME SessionsInv, AnswersInv, NEW r \in Requests, CommitRefresh(r)
    PROVE  Mapped
<1> DEFINE c == cmd[r]
           n == Successor(c)
<1>1. /\ pc[r] = "commit_refresh" /\ Commit(r, "rotated") /\ "rotated" \in Codes
      /\ Stage(r) /\ TypeOK /\ answer[r] = "none"
  BY Unanswered DEF CommitRefresh, Codes, SessionsInv
<1>2. /\ txn[r].issued = {n} /\ txn[r].used = {c} /\ txn[r].revoked = {} /\ txn[r].ended = {}
      /\ Current(c) /\ n \notin issued /\ c[1] \notin arrival[r].ended \cup arrival[r].expired
  BY <1>1 DEF Stage, Wrote, Knows, Replacing, Session
<1>3. /\ issued' = issued \cup {n} /\ used' = used \cup {c} /\ ended' = ended
      /\ expired' = expired /\ cmd' = cmd /\ arrival' = arrival /\ Return(r, "rotated")
  BY <1>1, <1>2 DEF Commit
<1>4. AnswersInv'
  BY <1>1, <1>2, CommitJustified DEF Current
<1>5. c \in Unspent /\ Unspent' = (Unspent \ {c}) \cup {n} /\ Over' = Over
  <2>1. used \subseteq issued
    BY DEF SessionsInv, Chain
  <2> HIDE DEF n, c
  <2> QED BY <1>2, <1>3, <2>1 DEF Unspent, Current, Over
<1>6. At[r].here /\ c[1] \notin At[r].over
  BY <1>1, <1>2 DEF At
<1>7. Abstract!Tell(r, Told("rotated"), c)
  BY <1>1, <1>3, Tells
<1>8. Told("rotated") = "rotated"
  BY DEF Told
<1>9. Abstract!Exchange(r, c)
  BY <1>3, <1>5, <1>6, <1>7, <1>8 DEF Abstract!Exchange, Successor
<1> QED BY <1>4, <1>5, <1>9 DEF Mapped, Abstract!Next

(* The commit of a revocation ends its sessions.                           *)
LEMMA CommitRevocationMaps ==
    ASSUME SessionsInv, AnswersInv, NEW r \in Requests,
           CommitReplay(r) \/ CommitLogout(r) \/ CommitLogoutAll(r)
    PROVE  Mapped
<1>1. /\ TypeOK /\ Stage(r) /\ Justified(r) /\ pc[r] \in Ended \cup {"tokens_all"}
      /\ answer[r] = "none" /\ cmd[r] \in Tokens /\ Session(r) \in Sessions
  <2>1. pc[r] \in {"commit_replay", "commit_logout", "tokens_all"}
    BY DEF CommitReplay, CommitLogout, CommitLogoutAll
  <2>2. cmd[r] \in Tokens /\ answer[r] = "none"
    BY <2>1, Unanswered DEF SessionsInv, TypeOK
  <2> QED BY <2>1, <2>2, TokenPairs DEF SessionsInv, AnswersInv, Ended, Session
<1>2. PICK code \in {"replay", "logged_out", "logged_out_all"} : Commit(r, code)
  BY DEF CommitReplay, CommitLogout, CommitLogoutAll
<1>3. code \in Codes \ {"none"} /\ Told(code) = code
  BY DEF Codes, Told
<1>4. txn[r].issued = {} /\ txn[r].used = {} /\ cmd[r] \in issued
  BY <1>1 DEF Stage, Wrote, Ended, Replacing, Justified
<1>5. /\ issued' = issued /\ used' = used /\ ended' = ended \cup txn[r].ended
      /\ expired' = expired /\ cmd' = cmd /\ arrival' = arrival /\ Return(r, code)
  BY <1>2, <1>4 DEF Commit
<1>6. \A t \in txn[r].revoked : t[1] \in ended \cup txn[r].ended
  BY <1>1 DEF Stage, Knows, Justified, Ended
<1>7. AnswersInv'
  BY <1>2, <1>3, <1>4, <1>6, CommitJustified
<1>8. UNCHANGED <<Unspent, used>> /\ Over' = Over \cup txn[r].ended
  BY <1>5 DEF Unspent, Over
<1>9. Abstract!Tell(r, code, cmd[r])
  BY <1>1, <1>3, <1>5, Tells
<1>10. pc[r] \in Ended => Over' = Over \cup {Session(r)}
  BY <1>1, <1>8 DEF Stage, Knows, Justified, Over
<1>11. ASSUME CommitReplay(r) PROVE Mapped
  <2>1. code = "replay" /\ pc[r] = "commit_replay"
    <3>1. Commit(r, "replay") /\ pc[r] = "commit_replay" /\ "replay" \in Codes
      BY <1>11 DEF CommitReplay, Codes
    <3>2. answer'[r] = "replay" /\ answer'[r] = code
      BY <1>1, <1>2, <1>3, <3>1, Returned DEF Commit
    <3> QED BY <3>1, <3>2
  <2>2. cmd[r] \in used /\ Over' = Over \cup {Session(r)}
    BY <1>1, <1>10, <2>1 DEF Justified, Ended
  <2>3. Abstract!Replay(r, cmd[r])
    BY <1>8, <1>9, <2>1, <2>2 DEF Abstract!Replay, Session
  <2> QED BY <1>7, <2>2, <2>3 DEF Mapped, Abstract!Next
<1>12. ASSUME CommitLogout(r) PROVE Mapped
  <2>1. code = "logged_out" /\ pc[r] = "commit_logout"
    <3>1. Commit(r, "logged_out") /\ pc[r] = "commit_logout" /\ "logged_out" \in Codes
      BY <1>12 DEF CommitLogout, Codes
    <3>2. answer'[r] = "logged_out" /\ answer'[r] = code
      BY <1>1, <1>2, <1>3, <3>1, Returned DEF Commit
    <3> QED BY <3>1, <3>2
  <2>2. cmd[r] = <<Session(r), 0>> /\ Over' = Over \cup {Session(r)}
    BY <1>1, <1>10, <2>1 DEF Justified, Ended
  <2>3. Abstract!LogOut(r, cmd[r])
    BY <1>8, <1>9, <2>1, <2>2 DEF Abstract!LogOut, Session
  <2> QED BY <1>1, <1>7, <2>2, <2>3 DEF Mapped, Abstract!Next
<1>13. ASSUME CommitLogoutAll(r) PROVE Mapped
  <2>1. code = "logged_out_all" /\ pc[r] = "tokens_all"
    <3>1. Commit(r, "logged_out_all") /\ pc[r] = "tokens_all" /\ "logged_out_all" \in Codes
      BY <1>13 DEF CommitLogoutAll, Codes
    <3>2. answer'[r] = "logged_out_all" /\ answer'[r] = code
      BY <1>1, <1>2, <1>3, <3>1, Returned DEF Commit
    <3> QED BY <3>1, <3>2
  <2>2. cmd[r] = <<Session(r), 0>> /\ txn[r].ended \in SUBSET Sessions
    BY <1>1, <2>1 DEF Justified, LoggingOutAll, TypeOK, Txn
  <2>3. At[r].here /\ At[r].begun \subseteq Over \cup txn[r].ended
    BY <1>1, <2>1 DEF At, Over, Stage, Knows
  <2>4. Abstract!LogOutAll(r, cmd[r], txn[r].ended)
    BY <1>8, <1>9, <2>1, <2>3 DEF Abstract!LogOutAll
  <2> QED BY <1>1, <1>7, <2>2, <2>4 DEF Mapped, Abstract!Next
<1> QED BY <1>11, <1>12, <1>13

(* A login begins a session, and the clock ends one.                       *)
LEMMA SessionMaps ==
    ASSUME SessionsInv, AnswersInv, NEW s \in Sessions, Login(s) \/ Expire(s)
    PROVE  Mapped
<1>1. /\ UNCHANGED <<ended, used, revoked, pc, cmd, txn, answer, arrival>>
      /\ issued \subseteq issued'
  BY DEF Login, Expire
<1>2. \A r \in Requests : Justified(r)'
  <2> SUFFICES ASSUME NEW r \in Requests PROVE Justified(r)'
    OBVIOUS
  <2>1. Justified(r)
    BY DEF AnswersInv
  <2> QED BY <1>1, <2>1 DEF Justified, Session
<1>3. AnswersInv'
  BY <1>1, <1>2 DEF AnswersInv, Login, Expire
<1>4. UNCHANGED <<At, Verdict>>
  BY <1>1 DEF At, Verdict
<1>5. ASSUME Login(s) PROVE Abstract!Begin(s)
  <2>1. s \notin Abstract!Begun
    BY <1>5, Begins DEF Login
  <2>2. <<s, 0>> \notin used
    BY <1>5 DEF Login, SessionsInv, Chain
  <2>3. Unspent' = Unspent \cup {<<s, 0>>} /\ Over' = Over
    BY <1>5, <2>2 DEF Login, Unspent, Over
  <2> QED BY <1>1, <1>4, <2>1, <2>3 DEF Abstract!Begin
<1>6. ASSUME Expire(s) PROVE Abstract!Expire(s)
  <2>1. Unspent' = Unspent /\ Over' = Over \cup {s}
    BY <1>6 DEF Expire, Unspent, Over
  <2> QED BY <1>1, <1>4, <2>1 DEF Abstract!Expire
<1> QED BY <1>3, <1>5, <1>6 DEF Mapped, Abstract!Next

(* Refresh rotation, replay detection and both logouts are what            *)
(* RotatingTokens promises, for any number of requests and sessions: with  *)
(* all their statements, locks, crashes and deadlocks, each takes effect   *)
(* in the one step of its commit, and every answer is justified by the     *)
(* tokens and sessions at that moment (session_lifecycle.py over           *)
(* SqlAlchemySessionRepository).                                           *)
THEOREM SessionsAreRotatingTokens == Spec => ImplementsRotatingTokens
<1>1. SessionsInv /\ AnswersInv /\ [Next]_vars
        => AnswersInv' /\ [Abstract!Next]_(Abstract!tokenVars)
  <2> SUFFICES ASSUME SessionsInv, AnswersInv, [Next]_vars PROVE Mapped
    BY DEF Mapped, Abstract!tokenVars
  <2>1. CASE UNCHANGED vars
    <3>1. ASSUME NEW r \in Requests PROVE Justified(r)'
      <4>1. Justified(r)
        BY DEF AnswersInv
      <4> QED BY <2>1, <4>1 DEF vars, Justified, Session
    <3>2. AnswersInv'
      BY <2>1, <3>1 DEF vars, AnswersInv
    <3> QED BY <2>1, <3>2 DEF vars, Mapped, Unspent, Over, At, Verdict
  <2>2. ASSUME NEW r \in Requests, Step(r) PROVE Mapped
    BY <2>2, RefreshMaps, RevokeMaps, LogoutAllMaps, VictimMaps, CommitRefreshMaps,
       CommitRevocationMaps DEF Step
  <2> QED BY <2>1, <2>2, ArrivalMaps, LogoutAllMaps, SessionMaps DEF Next
<1> QED BY <1>1, AbstractInit, SessionsHold, PTL
        DEF Spec, ImplementsRotatingTokens, Abstract!Spec

-----------------------------------------------------------------------------
(* The cleanup task, over the rows that sessions leave: for any sets of    *)
(* sessions and token ids, any batch limit and any backlog, it takes       *)
(* nothing from a session that is active.  SessionCleanup names its clock  *)
(* as Sessions names its expired rows; here the clock is called lapsed.    *)
CONSTANTS Ids, BatchLimit, None

VARIABLES logins, logouts, lapsed, retired, aged, sessions, tokens, minted, lastRun

Cleaning == INSTANCE SessionCleanup WITH expired <- lapsed

(* Logins are of different sessions, so that the rank of an expires_at     *)
(* does not change when another session begins.                            *)
Ranked ==
    /\ logins \in Seq(Sessions) /\ logouts \in Seq(Sessions)
    /\ \A i, j \in 1 .. Len(logins) : logins[i] = logins[j] => i = j
    /\ lapsed \in Nat /\ retired \in Nat /\ retired <= lapsed

(* Every row and every id handed out is of a session that has begun.       *)
Begun ==
    /\ sessions \subseteq Cleaning!Range(logins)
    /\ \A i \in DOMAIN tokens : tokens[i] \in Cleaning!Token
    /\ minted \in [Sessions -> SUBSET Ids]
    /\ \A s \in Sessions : minted[s] # {} => s \in Cleaning!Range(logins)

CleanupInv == Ranked /\ Begun /\ Cleaning!ActiveSessionIsWhole

LEMMA Rank ==
    ASSUME Ranked, NEW i \in 1 .. Len(logins)
    PROVE  Cleaning!ExpiresAt(logins[i]) = i
<1>1. \A j \in 1 .. Len(logins) : logins[j] = logins[i] => j = i
  BY DEF Ranked
<1> QED BY <1>1 DEF Cleaning!ExpiresAt

LEMMA InitClean == Cleaning!Init => CleanupInv
<1> SUFFICES ASSUME Cleaning!Init PROVE CleanupInv
  OBVIOUS
<1>1. Ranked
  BY DEF Cleaning!Init, Ranked
<1>2. Cleaning!Range(logins) = {}
  BY DEF Cleaning!Init, Cleaning!Range
<1>3. Begun
  BY DEF Cleaning!Init, Begun
<1> QED BY <1>1, <1>2, <1>3 DEF CleanupInv, Cleaning!ActiveSessionIsWhole, Cleaning!Active

(* Who is active after a step that takes nothing back from the clock and   *)
(* the logouts was so before, unless it has just logged in.                *)
LEMMA WasActive ==
    ASSUME Ranked, Ranked', NEW s \in Cleaning!Range(logins), Cleaning!Active(s)',
           logins' = logins \/ \E t \in Sessions : logins' = Append(logins, t),
           logouts' = logouts \/ \E t \in Sessions : logouts' = Append(logouts, t),
           lapsed <= lapsed'
    PROVE  Cleaning!Active(s)
<1>1. PICK i \in 1 .. Len(logins) : logins[i] = s
  BY DEF Cleaning!Range, Ranked
<1>2. i \in 1 .. Len(logins') /\ logins'[i] = s
  BY <1>1 DEF Ranked
<1>3. Cleaning!ExpiresAt(s) = i
  BY <1>1, Rank
<1>4. Cleaning!ExpiresAt(s)' = i
  <2>1. \A j \in 1 .. Len(logins') : logins'[j] = s => j = i
    BY <1>2 DEF Ranked
  <2> QED BY <2>1, <1>2 DEF Cleaning!ExpiresAt
<1>5. ~Cleaning!Expired(s)
  BY <1>3, <1>4 DEF Cleaning!Active, Cleaning!Expired, Ranked
<1>6. ~Cleaning!Revoked(s)
  <2>1. Cleaning!Range(logouts) \subseteq Cleaning!Range(logouts)'
    <3>1. ASSUME NEW j \in DOMAIN logouts
          PROVE  j \in DOMAIN logouts' /\ logouts'[j] = logouts[j]
      BY DEF Ranked
    <3> QED BY <3>1 DEF Cleaning!Range
  <2> QED BY <2>1 DEF Cleaning!Active, Cleaning!Revoked
<1> QED BY <1>5, <1>6 DEF Cleaning!Active

LEMMA LoginClean ==
    ASSUME CleanupInv, NEW s \in Sessions, NEW i \in Ids, Cleaning!Login(s, i)
    PROVE  CleanupInv'
<1>1. Ranked'
  <2>1. logins \in Seq(Sessions) /\ logins' = Append(logins, s)
    BY DEF CleanupInv, Ranked, Cleaning!Login
  <2>2. \A j \in 1 .. Len(logins) : logins[j] # s
    BY <2>1 DEF Cleaning!Login, Cleaning!Range
  <2>3. ASSUME NEW j \in 1 .. Len(logins'), NEW k \in 1 .. Len(logins'), logins'[j] = logins'[k]
        PROVE  j = k
    BY <2>1, <2>2, <2>3 DEF CleanupInv, Ranked
  <2> QED BY <2>1, <2>3 DEF CleanupInv, Ranked, Cleaning!Login
<1>2. Cleaning!Range(logins)' = Cleaning!Range(logins) \cup {s}
  <2>1. logins \in Seq(Sessions) /\ logins' = Append(logins, s)
    BY DEF CleanupInv, Ranked, Cleaning!Login
  <2>2. \A x : x \in Cleaning!Range(logins)' <=> x \in Cleaning!Range(logins) \/ x = s
    BY <2>1 DEF Cleaning!Range
  <2> QED BY <2>2
<1>3. minted[s] = {}
  BY DEF CleanupInv, Begun, Cleaning!Login
<1>4. Begun'
  BY <1>2 DEF CleanupInv, Begun, Cleaning!Login, Cleaning!Token
<1>5. Cleaning!ActiveSessionIsWhole'
  <2> SUFFICES ASSUME NEW q \in Sessions, Cleaning!Active(q)'
               PROVE  /\ q \in sessions'
                      /\ \A j \in minted'[q] : j \in DOMAIN tokens' /\ tokens'[j].session = q
    BY DEF Cleaning!ActiveSessionIsWhole
  <2>1. CASE q = s
    BY <2>1, <1>3 DEF CleanupInv, Begun, Cleaning!Login
  <2>2. CASE q # s
    <3>1. q \in Cleaning!Range(logins)
      BY <2>2, <1>2 DEF Cleaning!Active
    <3>2. Cleaning!Active(q)
      BY <3>1, <1>1, WasActive DEF CleanupInv, Cleaning!Login, Ranked
    <3> QED BY <3>2, <2>2 DEF CleanupInv, Begun, Cleaning!ActiveSessionIsWhole,
                              Cleaning!Login, Cleaning!Fresh
  <2> QED BY <2>1, <2>2
<1> QED BY <1>1, <1>4, <1>5 DEF CleanupInv

LEMMA RotateClean ==
    ASSUME CleanupInv, NEW c \in Ids, NEW i \in Ids, Cleaning!Rotate(c, i)
    PROVE  CleanupInv'
<1> DEFINE s == tokens[c].session
<1>1. s \in Sessions /\ s \in Cleaning!Range(logins) /\ tokens[c] \in Cleaning!Token
  BY DEF CleanupInv, Begun, Cleaning!Rotate, Cleaning!Active, Cleaning!Token
<1>2. Ranked'
  BY DEF CleanupInv, Ranked, Cleaning!Rotate
<1>3. Begun'
  <2>1. \A j \in DOMAIN tokens' : tokens'[j] \in Cleaning!Token
    BY <1>1 DEF CleanupInv, Begun, Cleaning!Rotate, Cleaning!Token
  <2> QED BY <1>1, <2>1 DEF CleanupInv, Begun, Cleaning!Rotate, Cleaning!Range
<1>4. Cleaning!ActiveSessionIsWhole'
  <2> SUFFICES ASSUME NEW q \in Sessions, Cleaning!Active(q)'
               PROVE  /\ q \in sessions'
                      /\ \A j \in minted'[q] : j \in DOMAIN tokens' /\ tokens'[j].session = q
    BY DEF Cleaning!ActiveSessionIsWhole
  <2>1. Cleaning!Active(q)
    BY DEF Cleaning!Active, Cleaning!Expired, Cleaning!ExpiresAt, Cleaning!Revoked,
           Cleaning!Rotate, Cleaning!Range
  <2>2. q \in sessions /\ \A j \in minted[q] : j \in DOMAIN tokens /\ tokens[j].session = q
    BY <2>1 DEF CleanupInv, Cleaning!ActiveSessionIsWhole
  <2>3. \A j \in DOMAIN tokens \ {i} :
          j \in DOMAIN tokens' /\ tokens'[j].session = tokens[j].session
    BY <1>1 DEF Cleaning!Rotate, Cleaning!Token
  <2>4. i \in DOMAIN tokens' /\ tokens'[i].session = s
    BY <1>1 DEF Cleaning!Rotate, Cleaning!Token
  <2>5. minted'[q] = minted[q] \cup (IF q = s THEN {i} ELSE {}) /\ i \notin minted[q]
    BY <1>1 DEF CleanupInv, Begun, Cleaning!Rotate, Cleaning!Fresh
  <2> QED BY <2>2, <2>3, <2>4, <2>5 DEF Cleaning!Rotate
<1> QED BY <1>2, <1>3, <1>4 DEF CleanupInv

LEMMA ClockClean ==
    ASSUME CleanupInv,
           \/ \E s \in Sessions : Cleaning!Revoke(s)
           \/ Cleaning!PassExpiry
           \/ Cleaning!PassExpiredRetention
           \/ Cleaning!PassRevokedRetention
           \/ Cleaning!CleanupFails
           \/ UNCHANGED Cleaning!vars
    PROVE  CleanupInv'
<1> USE DEF Cleaning!Revoke, Cleaning!PassExpiry, Cleaning!PassExpiredRetention,
            Cleaning!PassRevokedRetention, Cleaning!CleanupFails, Cleaning!vars
<1>1. UNCHANGED <<logins, sessions, tokens, minted>>
  OBVIOUS
<1>2. logouts' = logouts \/ \E t \in Sessions : logouts' = Append(logouts, t)
  OBVIOUS
<1>3. Ranked' /\ lapsed <= lapsed'
  <2>1. logouts' \in Seq(Sessions)
    BY <1>2 DEF CleanupInv, Ranked
  <2>2. lapsed' \in Nat /\ retired' \in Nat /\ retired' <= lapsed' /\ lapsed <= lapsed'
    BY DEF CleanupInv, Ranked
  <2> QED BY <2>1, <2>2, <1>1 DEF CleanupInv, Ranked
<1>4. Begun'
  BY <1>1 DEF CleanupInv, Begun, Cleaning!Range, Cleaning!Token
<1>5. ASSUME NEW s \in Sessions, Cleaning!Active(s)' PROVE Cleaning!Active(s)
  <2>1. s \in Cleaning!Range(logins)
    BY <1>1, <1>5 DEF Cleaning!Active, Cleaning!Range
  <2> QED BY <2>1, <1>1, <1>2, <1>3, <1>5, WasActive DEF CleanupInv
<1> QED BY <1>1, <1>3, <1>4, <1>5 DEF CleanupInv, Cleaning!ActiveSessionIsWhole

(* The three DELETEs take from sessions that are not active only.          *)
LEMMA DeleteClean ==
    ASSUME CleanupInv, Cleaning!Cleanup
    PROVE  CleanupInv'
<1> DEFINE gone == Cleaning!ExpiredBatch
                     \cup Cleaning!RevokedBatch(sessions \ Cleaning!ExpiredBatch)
<1>1. UNCHANGED <<logins, logouts, lapsed, retired, minted>> /\ sessions' = sessions \ gone
  BY DEF Cleaning!Cleanup
<1>2. tokens' = [i \in {j \in DOMAIN tokens \ Cleaning!TokenBatch :
                           tokens[j].session \notin gone} |-> tokens[i]]
  BY DEF Cleaning!Cleanup
<1>3. ASSUME NEW s \in Sessions, Cleaning!Active(s) PROVE s \notin gone
  <2>1. PICK i \in 1 .. Len(logins) : logins[i] = s
    BY <1>3 DEF Cleaning!Active, Cleaning!Range, CleanupInv, Ranked
  <2>2. Cleaning!ExpiresAt(s) = i
    BY <2>1, Rank DEF CleanupInv
  <2>3. ~(Cleaning!ExpiresAt(s) <= retired)
    BY <1>3, <2>2 DEF Cleaning!Active, Cleaning!Expired, CleanupInv, Ranked
  <2>4. s \notin Cleaning!ExpiredBatch
    BY <2>3 DEF Cleaning!ExpiredBatch
  <2>5. s \notin Cleaning!RevokedBatch(sessions \ Cleaning!ExpiredBatch)
    BY <1>3 DEF Cleaning!RevokedBatch, Cleaning!Active
  <2> QED BY <2>4, <2>5
<1>4. ASSUME NEW i \in Cleaning!TokenBatch PROVE ~Cleaning!Active(tokens[i].session)
  BY <1>4 DEF Cleaning!TokenBatch, Cleaning!Active
<1>5. Ranked'
  BY <1>1 DEF CleanupInv, Ranked
<1>6. Begun'
  BY <1>1, <1>2 DEF CleanupInv, Begun, Cleaning!Range, Cleaning!Token
<1>7. Cleaning!ActiveSessionIsWhole'
  <2> SUFFICES ASSUME NEW q \in Sessions, Cleaning!Active(q)'
               PROVE  /\ q \in sessions'
                      /\ \A j \in minted'[q] : j \in DOMAIN tokens' /\ tokens'[j].session = q
    BY DEF Cleaning!ActiveSessionIsWhole
  <2>1. Cleaning!Active(q)
    BY <1>1 DEF Cleaning!Active, Cleaning!Expired, Cleaning!ExpiresAt, Cleaning!Revoked,
                Cleaning!Range
  <2>2. q \in sessions /\ \A j \in minted[q] : j \in DOMAIN tokens /\ tokens[j].session = q
    BY <2>1 DEF CleanupInv, Cleaning!ActiveSessionIsWhole
  <2>3. q \notin gone
    BY <2>1, <1>3
  <2>4. ASSUME NEW j \in minted[q] PROVE j \in DOMAIN tokens \ Cleaning!TokenBatch
    BY <2>1, <2>2, <1>4
  <2> HIDE DEF gone
  <2> QED BY <1>1, <1>2, <2>2, <2>3, <2>4
<1> QED BY <1>5, <1>6, <1>7 DEF CleanupInv

(* Cleanup takes nothing from an active session, for any batch limit and   *)
(* any backlog: its row and every token it was ever given stay (the three  *)
(* DELETEs of CleanupExpiredSessions).                                     *)
THEOREM ActiveSessionsAreSpared == Cleaning!Spec => []Cleaning!ActiveSessionIsWhole
<1>1. Cleaning!Init => CleanupInv
  BY InitClean
<1>2. CleanupInv /\ [Cleaning!Next]_(Cleaning!vars) => CleanupInv'
  BY LoginClean, RotateClean, ClockClean, DeleteClean DEF Cleaning!Next, Cleaning!Run
<1>3. CleanupInv => Cleaning!ActiveSessionIsWhole
  BY DEF CleanupInv
<1> QED BY <1>1, <1>2, <1>3, PTL DEF Cleaning!Spec

-----------------------------------------------------------------------------
(* What a run of the task gets done.  The constants are as SessionCleanup  *)
(* assumes them.                                                           *)
CleanupConstants == Ids \subseteq Nat /\ BatchLimit \in Nat \ {0} /\ None \notin Ids

LEMMA SameCardinality == \A S : Cleaning!Cardinality(S) = Cardinality(S)
  BY Zenon DEF Cleaning!Cardinality, Cardinality

(* A token is named by one session, and replaced by one of the same.       *)
Named ==
    /\ DOMAIN tokens \subseteq Ids /\ IsFiniteSet(DOMAIN tokens)
    /\ \A i \in DOMAIN tokens :
        /\ i \in minted[tokens[i].session]
        /\ tokens[i].next = None \/ tokens[i].next \in minted[tokens[i].session]
    /\ \A s, q \in Sessions : s # q => minted[s] \cap minted[q] = {}

LEMMA NamedInit == Cleaning!Init => Named
  BY FS_EmptySet DEF Cleaning!Init, Named

LEMMA NamedStep ==
    ASSUME CleanupInv, Named, [Cleaning!Next]_(Cleaning!vars)
    PROVE  Named'
<1>1. /\ minted \in [Sessions -> SUBSET Ids]
      /\ \A i \in DOMAIN tokens : tokens[i] \in Cleaning!Token /\ tokens[i].session \in Sessions
  BY DEF CleanupInv, Begun, Cleaning!Token
<1>2. ASSUME UNCHANGED <<tokens, minted>> PROVE Named'
  BY <1>2 DEF Named
<1>3. ASSUME NEW s \in Sessions, NEW i \in Ids, Cleaning!Login(s, i) PROVE Named'
  <2>1. /\ DOMAIN tokens' = DOMAIN tokens \cup {i}
        /\ tokens'[i].session = s /\ tokens'[i].next = None
        /\ \A j \in DOMAIN tokens \ {i} : tokens'[j] = tokens[j]
    BY <1>3 DEF Cleaning!Login
  <2>2. minted' = [minted EXCEPT ![s] = @ \cup {i}] /\ \A q \in Sessions : i \notin minted[q]
    BY <1>3 DEF Cleaning!Login, Cleaning!Fresh
  <2>3. IsFiniteSet(DOMAIN tokens')
    BY <2>1, FS_AddElement DEF Named
  <2> QED BY <1>1, <2>1, <2>2, <2>3 DEF Named
<1>4. ASSUME NEW c \in Ids, NEW i \in Ids, Cleaning!Rotate(c, i) PROVE Named'
  <2> DEFINE s == tokens[c].session
  <2>1. c \in DOMAIN tokens /\ tokens[c] \in Cleaning!Token /\ s \in Sessions
    BY <1>1, <1>4 DEF Cleaning!Rotate
  <2>2. minted' = [minted EXCEPT ![s] = @ \cup {i}] /\ \A q \in Sessions : i \notin minted[q]
    BY <1>4 DEF Cleaning!Rotate, Cleaning!Fresh
  <2>3. i # c
    BY <2>1, <2>2 DEF Named
  <2>4. /\ DOMAIN tokens' = DOMAIN tokens \cup {i}
        /\ tokens'[i].session = s /\ tokens'[i].next = None
        /\ tokens'[c].session = s /\ tokens'[c].next = i
        /\ \A j \in DOMAIN tokens \ {i, c} : tokens'[j] = tokens[j]
    BY <1>4, <2>1, <2>3 DEF Cleaning!Rotate, Cleaning!Token
  <2>5. IsFiniteSet(DOMAIN tokens')
    BY <2>4, FS_AddElement DEF Named
  <2> HIDE DEF s
  <2> QED BY <1>1, <2>1, <2>2, <2>4, <2>5 DEF Named, s
<1>5. ASSUME Cleaning!Cleanup PROVE Named'
  <2>1. /\ minted' = minted /\ DOMAIN tokens' \subseteq DOMAIN tokens
        /\ \A i \in DOMAIN tokens' : tokens'[i] = tokens[i]
    BY <1>5 DEF Cleaning!Cleanup
  <2>2. IsFiniteSet(DOMAIN tokens')
    BY <2>1, FS_Subset DEF Named
  <2> QED BY <2>1, <2>2 DEF Named
<1> QED BY <1>2, <1>3, <1>4, <1>5
        DEF Cleaning!Next, Cleaning!Run, Cleaning!CleanupFails, Cleaning!Revoke,
            Cleaning!PassExpiry, Cleaning!PassExpiredRetention,
            Cleaning!PassRevokedRetention, Cleaning!vars

(* No more expired tokens than a batch holds: the batch is all of them.    *)
LEMMA WholeBatch ==
    ASSUME CleanupConstants, CleanupInv, Named, ~Cleaning!Crowded
    PROVE  /\ \A i \in DOMAIN tokens :
                Cleaning!Expired(tokens[i].session) => i \in Cleaning!TokenBatch
           /\ ~Cleaning!Referenced(Cleaning!TokenBatch)
<1> DEFINE old == {i \in DOMAIN tokens : Cleaning!Expired(tokens[i].session)}
           E(i) == Cleaning!ExpiresAt(tokens[i].session)
           ahead(i) == {j \in old : E(j) < E(i) \/ (E(j) = E(i) /\ j < i)}
<1>1. IsFiniteSet(old) /\ Cardinality(old) \in Nat /\ Cardinality(old) <= BatchLimit
  <2>1. IsFiniteSet(old)
    BY FS_Subset DEF Named
  <2>2. Cardinality(old) \in Nat
    BY <2>1, FS_CardinalityType
  <2>3. ~(Cardinality(old) > BatchLimit)
    BY SameCardinality DEF Cleaning!Crowded
  <2> QED BY <2>1, <2>2, <2>3 DEF CleanupConstants
<1>2. ASSUME NEW i \in old PROVE Cardinality(ahead(i)) < BatchLimit
  <2>1. E(i) <= lapsed /\ i \in Nat /\ lapsed \in Nat
    BY DEF Cleaning!Expired, Named, CleanupConstants, CleanupInv, Ranked
  <2>2. i \notin ahead(i)
    <3>1. tokens[i].session \in Cleaning!Range(logins)
      <4>1. tokens[i].session \in Sessions /\ minted[tokens[i].session] # {}
        BY DEF Named, CleanupInv, Begun, Cleaning!Token
      <4> QED BY <4>1 DEF CleanupInv, Begun
    <3>2. E(i) \in Nat
      BY <3>1, Rank DEF CleanupInv, Cleaning!Range, Ranked
    <3> QED BY <2>1, <3>2
  <2>3. ahead(i) \in SUBSET (old \ {i})
    BY <2>2
  <2>4. IsFiniteSet(old \ {i}) /\ Cardinality(old \ {i}) = Cardinality(old) - 1
    BY <1>1, FS_RemoveElement
  <2> HIDE DEF old, ahead
  <2>5. /\ Cardinality(ahead(i)) <= Cardinality(old \ {i})
        /\ Cardinality(ahead(i)) \in Nat
    BY <2>3, <2>4, FS_Subset, FS_CardinalityType
  <2> QED BY <1>1, <2>4, <2>5 DEF CleanupConstants
<1>3. Cleaning!TokenBatch = {i \in old : Cardinality(ahead(i)) < BatchLimit}
  BY SameCardinality DEF Cleaning!TokenBatch
<1>4. Cleaning!TokenBatch = old
  BY <1>2, <1>3
<1>5. ASSUME NEW i \in DOMAIN tokens \ old, tokens[i].next \in old PROVE FALSE
  <2> DEFINE n == tokens[i].next
  <2>1. n \in DOMAIN tokens /\ n \in Ids /\ n # None
    BY <1>5 DEF Named, CleanupConstants
  <2>2. n \in minted[tokens[n].session] /\ n \in minted[tokens[i].session]
    BY <2>1 DEF Named
  <2>3. tokens[n].session \in Sessions /\ tokens[i].session \in Sessions
    BY <2>1 DEF CleanupInv, Begun, Cleaning!Token
  <2>4. tokens[n].session = tokens[i].session
    BY <2>2, <2>3 DEF Named
  <2> QED BY <1>5, <2>4
<1> QED BY <1>4, <1>5 DEF Cleaning!Referenced

(* The session row that has been expired longest, past its retention.      *)
Oldest(s) ==
    /\ s \in sessions /\ Cleaning!ExpiresAt(s) <= retired
    /\ \A q \in sessions : Cleaning!ExpiresAt(s) <= Cleaning!ExpiresAt(q)

LEMMA OldestGoes ==
    ASSUME CleanupConstants, CleanupInv, Cleaning!Cleanup, NEW s \in sessions, Oldest(s)
    PROVE  s \notin sessions'
<1> DEFINE old == {q \in sessions : Cleaning!ExpiresAt(q) <= retired}
<1>1. \A q \in sessions : Cleaning!ExpiresAt(q) \in Nat
  BY Rank DEF CleanupInv, Begun, Cleaning!Range, Ranked
<1>2. {q \in old : Cleaning!ExpiresAt(q) < Cleaning!ExpiresAt(s)} = {}
  BY <1>1 DEF Oldest
<1>3. s \in Cleaning!ExpiredBatch
  BY <1>2, SameCardinality, FS_EmptySet DEF Cleaning!ExpiredBatch, Oldest, CleanupConstants
<1> QED BY <1>3 DEF Cleaning!Cleanup

(* A run of the task that finds no more expired tokens than its batch      *)
(* holds is not refused and leaves none of them; a run that is not refused *)
(* takes the oldest session.                                               *)
Progress ==
    /\ Cleaning!Run /\ ~Cleaning!Crowded =>
        /\ lastRun' = "ok"
        /\ \A i \in DOMAIN tokens' : ~Cleaning!Expired(tokens'[i].session)
    /\ Cleaning!Cleanup => \A s \in sessions : Oldest(s) => s \notin sessions'

LEMMA RunMakesProgress ==
    ASSUME CleanupConstants, CleanupInv, Named
    PROVE  Progress
<1>1. ASSUME Cleaning!Run, ~Cleaning!Crowded
      PROVE  /\ lastRun' = "ok"
             /\ \A i \in DOMAIN tokens' : ~Cleaning!Expired(tokens'[i].session)
  <2>1. Cleaning!Cleanup
    BY <1>1, WholeBatch DEF Cleaning!Run, Cleaning!CleanupFails
  <2>2. \A i \in DOMAIN tokens' :
          i \in DOMAIN tokens \ Cleaning!TokenBatch /\ tokens'[i] = tokens[i]
    BY <2>1 DEF Cleaning!Cleanup
  <2> QED BY <1>1, <2>1, <2>2, WholeBatch DEF Cleaning!Cleanup
<1> QED BY <1>1, OldestGoes DEF Progress

(* What makes the task end its work, for any batch limit: a run that finds *)
(* no more expired tokens than its batch holds is not refused by the       *)
(* foreign key and leaves none of them, however sessions were rotated and  *)
(* revoked; and every run that is not refused deletes the session row that *)
(* has been expired longest, once it is past its retention                 *)
(* (CleanupExpiredSessions, delete_expired_refresh_tokens,                 *)
(* delete_expired_sessions).                                               *)
THEOREM CleanupMakesProgress ==
    CleanupConstants => (Cleaning!Spec => [][Progress]_(Cleaning!vars))
<1> SUFFICES ASSUME CleanupConstants PROVE Cleaning!Spec => [][Progress]_(Cleaning!vars)
  OBVIOUS
<1>1. Cleaning!Init => CleanupInv /\ Named
  BY InitClean, NamedInit
<1>2. CleanupInv /\ Named /\ [Cleaning!Next]_(Cleaning!vars) => CleanupInv' /\ Named'
  BY LoginClean, RotateClean, ClockClean, DeleteClean, NamedStep
     DEF Cleaning!Next, Cleaning!Run
<1>3. CleanupInv /\ Named => Progress
  BY RunMakesProgress
<1> QED BY <1>1, <1>2, <1>3, PTL DEF Cleaning!Spec
=============================================================================
