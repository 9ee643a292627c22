---------------------------- MODULE LoginProofs ----------------------------
(***************************************************************************)
(* Proofs about the login and refresh routes, for any number of requests,  *)
(* emails, clients, passwords and changes and any thresholds: a blocked    *)
(* request is not admitted, a failure leaves its traces, and what a login  *)
(* was answered was true.                                                  *)
(*                                                                         *)
(* They rest on what a request has checked (Limited), counted and recorded *)
(* (Traced), and read of its user (Truthful) where it is.                  *)
(***************************************************************************)
EXTENDS Login, TLAPS

-----------------------------------------------------------------------------
Places == {"idle", "check", "proceed", "credential", "start", "clear", "count", "record",
           "done", "crashed"}

NoCommand == [route |-> "none", email |-> None, client |-> None, password |-> None]

Codes == {"none", "csrf_failed", "rate_limited", "unauthorized", "internal_error", "ok"}

(* What a route records independently.                                     *)
Recordable == {"none", "authentication.login_failed", "session.refresh_failed",
               "authentication.login_rate_limited", "session.refresh_rate_limited",
               Unavailable}

Failures == {"authentication.login_failed", "session.refresh_failed",
             "session.refresh_replay_detected"}

LoginEvents == Recordable \cup Failures
                 \cup {"authentication.login_succeeded", "session.refreshed"}

(* Every table, counter and request holds values of its own kind.          *)
LoginTypes ==
    /\ policy \in {"open", "closed"}
    /\ hits \in [Keys -> SUBSET Requests] /\ expiring \subseteq Keys
    /\ active \in [Emails -> BOOLEAN] /\ password \in [Emails -> Passwords \cup {None}]
    /\ trail \subseteq Requests \X LoginEvents
    /\ pc \in [Requests -> Places]
    /\ cmd \in [Requests -> Command \cup {NoCommand}]
    /\ todo \in [Requests -> Seq(Keys)]
    /\ allowed \in [Requests -> BOOLEAN] /\ enabled \in [Requests -> BOOLEAN]
    /\ answer \in [Requests -> [code : Codes, event : Recordable]]
    /\ counted \in [Requests -> SUBSET Keys]
    /\ outages \in [Requests -> SUBSET {"redis", "audit"}]

-----------------------------------------------------------------------------
IdKey(c) == <<"login_id", c.email>>

ClientKey(c) == <<IF c.route = "login" THEN "login_client" ELSE "refresh_client", c.client>>

KeySet(c) == IF c.route = "login" THEN {IdKey(c), ClientKey(c)} ELSE {ClientKey(c)}

Arrived(r) ==
    /\ pc[r] # "idle" => cmd[r] \in Command
    /\ pc[r] = "idle" => \A e \in LoginEvents : <<r, e>> \notin trail
    /\ pc[r] = "idle" => counted[r] = {} /\ outages[r] = {}
    /\ pc[r] \in {"credential", "start"} => cmd[r].route = "login"

(* What a request has checked: no key it has passed is blocked.            *)
Limited(r) ==
    /\ pc[r] = "check" =>
        \/ todo[r] = KeysOf(cmd[r])
        \/ /\ cmd[r].route = "login" /\ todo[r] = <<ClientKey(cmd[r])>>
           /\ allowed[r] /\ "redis" \notin outages[r] => IdKey(cmd[r]) \notin blocked[r]
    /\ Admitted(r) /\ "redis" \notin outages[r] => KeySet(cmd[r]) \cap blocked[r] = {}

(* Redis has failed the request under the open policy.                     *)
Excused(r) == policy = "open" /\ "redis" \in outages[r]

(* What a failed request has counted and recorded.                         *)
Traced(r) ==
    LET failed == answer[r].code = "unauthorized" IN
    /\ pc[r] \notin {"count", "record", "done", "crashed"} => answer[r].code = "none"
    /\ pc[r] = "count" =>
        /\ failed
        /\ \/ todo[r] = KeysOf(cmd[r])
           \/ /\ cmd[r].route = "login" /\ todo[r] = <<ClientKey(cmd[r])>>
              /\ IdKey(cmd[r]) \in counted[r] \/ Excused(r)
    /\ pc[r] \in {"record", "done"} /\ failed => KeySet(cmd[r]) \subseteq counted[r] \/ Excused(r)
    /\ pc[r] \in {"count", "record"} /\ failed =>
        \/ answer[r].event \in Failures
        \/ answer[r].event = "none" /\ <<r, "session.refresh_replay_detected">> \in trail
    /\ pc[r] = "done" /\ failed =>
        "audit" \in outages[r] \/ \E event \in Failures : <<r, event>> \in trail

(* What it has read of its user.                                           *)
Truthful(r) ==
    LET right == \E t \in truths[r] : t[2] = cmd[r].password
        up    == \E t \in truths[r] : t[1] IN
    /\ pc[r] = "credential" /\ enabled[r] => up
    /\ pc[r] = "credential" /\ ~enabled[r] => \E t \in truths[r] : ~t[1]
    /\ pc[r] = "start" => up /\ right
    /\ <<r, "authentication.login_succeeded">> \in trail => up /\ right
    /\ cmd[r].route = "login" /\ answer[r].code = "unauthorized" =>
        \E t \in truths[r] : ~t[1] \/ t[2] # cmd[r].password

Fine(r) == Arrived(r) /\ Limited(r) /\ Traced(r) /\ Truthful(r)

LoginInv == LoginTypes /\ \A r \in Requests : Fine(r)

-----------------------------------------------------------------------------
(* The keys of a request.                                                  *)
LEMMA CommandFields ==
    ASSUME NEW c \in Command
    PROVE  /\ c.route \in {"login", "refresh"} /\ c.client \in Clients
           /\ c.route = "login" => c.email \in Emails /\ c.password \in Passwords
  BY DEF Command

LEMMA Pieces ==
    ASSUME NEW a, NEW b
    PROVE  /\ Head(<<a, b>>) = a /\ Tail(<<a, b>>) = <<b>> /\ Len(<<a, b>>) = 2
           /\ Head(<<a>>) = a /\ Len(<<a>>) = 1 /\ Tail(<<a>>) = << >>
  OBVIOUS

LEMMA KeyFacts ==
    ASSUME NEW c \in Command
    PROVE  /\ ClientKey(c) \in Keys /\ KeySet(c) \subseteq Keys
           /\ c.route = "login" => IdKey(c) \in Keys
           /\ c.route = "login" => KeysOf(c) = <<IdKey(c), ClientKey(c)>>
           /\ c.route # "login" => KeysOf(c) = <<ClientKey(c)>>
<1>1. ClientKey(c) \in Keys
  BY CommandFields DEF ClientKey, Keys
<1>2. c.route = "login" => IdKey(c) \in Keys
  BY CommandFields DEF IdKey, Keys
<1>3. c.route = "login" => KeysOf(c) = <<IdKey(c), ClientKey(c)>>
  BY DEF KeysOf, IdKey, ClientKey
<1>4. c.route # "login" => KeysOf(c) = <<ClientKey(c)>>
  BY DEF KeysOf, ClientKey
<1> QED BY <1>1, <1>2, <1>3, <1>4 DEF KeySet

LEMMA KeySeqs ==
    ASSUME NEW c \in Command
    PROVE  /\ KeysOf(c) \in Seq(Keys) /\ <<ClientKey(c)>> \in Seq(Keys)
           /\ << >> \in Seq(Keys)
           /\ c.route = "login" => /\ Head(KeysOf(c)) = IdKey(c) /\ Len(KeysOf(c)) = 2
                                   /\ Tail(KeysOf(c)) = <<ClientKey(c)>>
           /\ c.route # "login" => /\ Head(KeysOf(c)) = ClientKey(c) /\ Len(KeysOf(c)) = 1
                                   /\ Tail(KeysOf(c)) = << >>
           /\ Head(<<ClientKey(c)>>) = ClientKey(c) /\ Len(<<ClientKey(c)>>) = 1
           /\ Tail(<<ClientKey(c)>>) = << >>
<1> DEFINE a == IdKey(c)
           b == ClientKey(c)
<1>1. /\ b \in Keys
      /\ c.route = "login" => a \in Keys /\ KeysOf(c) = <<a, b>>
      /\ c.route # "login" => KeysOf(c) = <<b>>
  BY KeyFacts
<1> HIDE DEF a, b
<1>2. <<b>> \in Seq(Keys) /\ (a \in Keys => <<a, b>> \in Seq(Keys)) /\ << >> \in Seq(Keys)
  BY <1>1
<1>3. KeysOf(c) \in Seq(Keys) /\ <<b>> \in Seq(Keys)
  BY <1>1, <1>2, KeyFacts DEF a, b
<1> QED BY <1>2, <1>3, KeyFacts, Pieces DEF a, b

(* All keys of a sequence are the keys of its set.                         *)
LEMMA EachKey ==
    ASSUME NEW c \in Command, NEW S
    PROVE  /\ (\A i \in 1 .. Len(KeysOf(c)) : KeysOf(c)[i] \notin S) <=> KeySet(c) \cap S = {}
           /\ (\A i \in 1 .. Len(KeysOf(c)) : KeysOf(c)[i] \in S) <=> KeySet(c) \subseteq S
<1> DEFINE a == IdKey(c)
           b == ClientKey(c)
<1>1. CASE c.route = "login"
  <2>1. KeysOf(c) = <<a, b>> /\ KeySet(c) = {a, b} /\ Len(KeysOf(c)) = 2
    BY <1>1, KeyFacts, KeySeqs DEF KeySet
  <2> HIDE DEF a, b
  <2>2. 1 .. 2 = {1, 2} /\ <<a, b>>[1] = a /\ <<a, b>>[2] = b
    OBVIOUS
  <2> QED BY <2>1, <2>2
<1>2. CASE c.route # "login"
  <2>1. KeysOf(c) = <<b>> /\ KeySet(c) = {b} /\ Len(KeysOf(c)) = 1
    BY <1>2, KeyFacts, KeySeqs DEF KeySet
  <2> HIDE DEF a, b
  <2>2. 1 .. 1 = {1} /\ <<b>>[1] = b
    OBVIOUS
  <2> QED BY <2>1, <2>2
<1> QED BY <1>1, <1>2

-----------------------------------------------------------------------------
(* The histories: a key that is not blocked for a request any more stays   *)
(* so, and what was true stays seen.                                       *)
LEMMA Histories ==
    ASSUME Observe, NEW q \in Requests
    PROVE  /\ pc'[q] = "idle" => blocked'[q] = {}
           /\ pc'[q] # "idle" /\ pc[q] # "idle" => blocked'[q] \subseteq blocked[q]
           /\ \A k : Below(k)' => k \notin blocked'[q]
           /\ truths[q] \subseteq truths'[q]
           /\ cmd'[q].route = "login" /\ pc[q] \notin {"done", "crashed"} =>
                <<active'[cmd'[q].email], password'[cmd'[q].email]>> \in truths'[q]
<1>1. blocked'[q] = IF pc'[q] = "idle" THEN {}
                    ELSE {k \in IF pc[q] = "idle" THEN Keys ELSE blocked[q] : ~Below(k)'}
  BY DEF Observe
<1>2. truths'[q] = IF cmd'[q].route # "login" \/ pc[q] \in {"done", "crashed"} THEN truths[q]
                   ELSE truths[q] \cup {<<active'[cmd'[q].email], password'[cmd'[q].email]>>}
  BY DEF Observe
<1> QED BY <1>1, <1>2

(* Nothing of q has changed but what others count and what is so.          *)
Still(q) ==
    /\ pc'[q] = pc[q] /\ cmd'[q] = cmd[q] /\ todo'[q] = todo[q] /\ allowed'[q] = allowed[q]
    /\ enabled'[q] = enabled[q] /\ answer'[q] = answer[q]
    /\ counted'[q] = counted[q] /\ outages'[q] = outages[q]
    /\ \A e : <<q, e>> \in trail' <=> <<q, e>> \in trail

LEMMA StaysFine ==
    ASSUME Observe, policy' = policy, NEW q \in Requests, Fine(q), Still(q)
    PROVE  Fine(q)'
<1>1. Arrived(q)'
  BY DEF Fine, Arrived, Still
<1>2. pc[q] # "idle" => blocked'[q] \subseteq blocked[q]
  BY Histories DEF Still
<1>3. Limited(q)'
  <2>1. ASSUME pc[q] = "check", cmd[q].route = "login", todo[q] = <<ClientKey(cmd[q])>>,
               allowed[q] /\ "redis" \notin outages[q] => IdKey(cmd[q]) \notin blocked[q]
        PROVE  allowed[q] /\ "redis" \notin outages[q] => IdKey(cmd[q]) \notin blocked'[q]
    BY <1>2, <2>1
  <2>2. Admitted(q) /\ "redis" \notin outages[q] => KeySet(cmd[q]) \cap blocked'[q] = {}
    BY <1>2 DEF Fine, Limited, Admitted
  <2> QED BY <2>1, <2>2 DEF Fine, Limited, Still, Admitted, KeysOf, KeySet, IdKey, ClientKey
<1>4. Traced(q)'
  BY DEF Fine, Traced, Still, KeysOf, KeySet, IdKey, ClientKey, Excused
<1>5. Truthful(q)'
  <2>1. truths[q] \subseteq truths'[q]
    BY Histories
  <2> QED BY <2>1 DEF Fine, Truthful, Still
<1> QED BY <1>1, <1>3, <1>4, <1>5 DEF Fine

(* A step of r.                                                            *)
LEMMA StepOf ==
    ASSUME LoginInv, Observe, policy' = policy, NEW r \in Requests, LoginTypes',
           \A q \in Requests \ {r} : Still(q), Fine(r)'
    PROVE  LoginInv'
  BY StaysFine DEF LoginInv

LEMMA InitHolds == Init => LoginInv
<1> SUFFICES ASSUME Init PROVE LoginInv
  OBVIOUS
<1> USE DEF Init
<1>1. LoginTypes
  <2>1. hits \in [Keys -> SUBSET Requests] /\ active \in [Emails -> BOOLEAN]
    OBVIOUS
  <2>2. cmd \in [Requests -> Command \cup {NoCommand}]
    BY DEF NoCommand
  <2>3. todo \in [Requests -> Seq(Keys)]
    OBVIOUS
  <2>4. answer \in [Requests -> [code : Codes, event : Recordable]]
    BY DEF Codes, Recordable
  <2> QED BY <2>1, <2>2, <2>3, <2>4 DEF LoginTypes, Places
<1>2. ASSUME NEW r \in Requests PROVE Fine(r)
  BY DEF Fine, Arrived, Limited, Traced, Truthful, Admitted
<1> QED BY <1>1, <1>2 DEF LoginInv

-----------------------------------------------------------------------------
LEMMA Update ==
    ASSUME NEW T, NEW f \in [Requests -> T], NEW r \in Requests, NEW x \in T
    PROVE  /\ [f EXCEPT ![r] = x] \in [Requests -> T] /\ [f EXCEPT ![r] = x][r] = x
           /\ \A q \in Requests \ {r} : [f EXCEPT ![r] = x][q] = f[q]
  OBVIOUS

LEMMA Moved ==
    ASSUME LoginTypes, NEW r \in Requests, NEW l \in Places, Goto(r, l)
    PROVE  /\ pc' \in [Requests -> Places] /\ pc'[r] = l
           /\ \A q \in Requests \ {r} : pc'[q] = pc[q]
  BY DEF LoginTypes, Goto

LEMMA AnswerGiven ==
    ASSUME LoginTypes, NEW r \in Requests, NEW l \in Places, NEW code \in Codes,
           NEW event \in Recordable, Answer(r, l, code, event)
    PROVE  /\ pc' \in [Requests -> Places] /\ pc'[r] = l
           /\ answer' \in [Requests -> [code : Codes, event : Recordable]]
           /\ answer'[r].code = code /\ answer'[r].event = event
           /\ \A q \in Requests \ {r} : pc'[q] = pc[q] /\ answer'[q] = answer[q]
<1>1. answer' = [answer EXCEPT ![r] = [code |-> code, event |-> event]] /\ Goto(r, l)
  BY DEF Answer
<1>2. /\ answer' \in [Requests -> [code : Codes, event : Recordable]]
      /\ answer'[r] = [code |-> code, event |-> event]
      /\ \A q \in Requests \ {r} : answer'[q] = answer[q]
  BY <1>1 DEF LoginTypes
<1> QED BY <1>1, <1>2, Moved

LEMMA Returned ==
    ASSUME LoginTypes, NEW r \in Requests, NEW code \in Codes, Return(r, code)
    PROVE  /\ pc' \in [Requests -> Places] /\ pc'[r] = "done"
           /\ answer' \in [Requests -> [code : Codes, event : Recordable]]
           /\ answer'[r].code = code
           /\ \A q \in Requests \ {r} : pc'[q] = pc[q] /\ answer'[q] = answer[q]
<1>1. answer' = [answer EXCEPT ![r].code = code] /\ Goto(r, "done") /\ "done" \in Places
  BY DEF Return, Places
<1>2. /\ answer' \in [Requests -> [code : Codes, event : Recordable]]
      /\ answer'[r].code = code
      /\ \A q \in Requests \ {r} : answer'[q] = answer[q]
  BY <1>1, ZenonT(30) DEF LoginTypes
<1> QED BY <1>1, <1>2, Moved

(* Steps that touch neither accounts nor limiter nor, but for the event,   *)
(* the trail: what is left to show of their types.                         *)
RequestTypes ==
    /\ pc \in [Requests -> Places]
    /\ cmd \in [Requests -> Command \cup {NoCommand}]
    /\ todo \in [Requests -> Seq(Keys)]
    /\ allowed \in [Requests -> BOOLEAN] /\ enabled \in [Requests -> BOOLEAN]
    /\ answer \in [Requests -> [code : Codes, event : Recordable]]
    /\ counted \in [Requests -> SUBSET Keys]
    /\ outages \in [Requests -> SUBSET {"redis", "audit"}]

StoreTypes ==
    /\ policy \in {"open", "closed"}
    /\ hits \in [Keys -> SUBSET Requests] /\ expiring \subseteq Keys
    /\ active \in [Emails -> BOOLEAN] /\ password \in [Emails -> Passwords \cup {None}]

LEMMA Types == LoginTypes <=> StoreTypes /\ RequestTypes /\ trail \subseteq Requests \X LoginEvents
  BY DEF LoginTypes, StoreTypes, RequestTypes

LEMMA TypesNext ==
    LoginTypes' <=> StoreTypes' /\ RequestTypes' /\ trail' \subseteq Requests \X LoginEvents
  BY DEF LoginTypes, StoreTypes, RequestTypes

LEMMA StoresStay ==
    ASSUME LoginInv, policy' = policy, UNCHANGED limiter, UNCHANGED accounts PROVE StoreTypes'
  BY DEF LoginInv, LoginTypes, StoreTypes, limiter, accounts

(* Users and passwords change, and counters expire.                        *)
LEMMA EnvironmentStep ==
    ASSUME LoginInv, Observe, policy' = policy,
           \/ \E e \in Emails : ToggleUser(e)
           \/ \E e \in Emails, p \in Passwords : SetPassword(e, p)
           \/ \E k \in Keys : Expire(k)
    PROVE  LoginInv'
<1>1. UNCHANGED <<trail, pc, cmd, todo, allowed, enabled, answer, traces>>
  BY DEF ToggleUser, SetPassword, Expire
<1>2. \A q \in Requests : Still(q)
  BY <1>1 DEF Still, traces
<1>3. RequestTypes' /\ trail' \subseteq Requests \X LoginEvents
  BY <1>1, Types DEF LoginInv, RequestTypes, traces
<1>4. StoreTypes
  BY Types DEF LoginInv
<1>5. StoreTypes'
  <2>1. ASSUME NEW e \in Emails, ToggleUser(e) PROVE StoreTypes'
    <3>1. /\ UNCHANGED <<hits, expiring, password>> /\ active' = [active EXCEPT ![e] = ~active[e]]
      BY <2>1 DEF ToggleUser, limiter
    <3>2. active' \in [Emails -> BOOLEAN]
      BY <1>4, <3>1 DEF StoreTypes
    <3> QED BY <1>4, <3>1, <3>2 DEF StoreTypes
  <2>2. ASSUME NEW e \in Emails, NEW p \in Passwords, SetPassword(e, p) PROVE StoreTypes'
    BY <1>4, <2>2 DEF SetPassword, StoreTypes, limiter
  <2>3. ASSUME NEW k \in Keys, Expire(k) PROVE StoreTypes'
    BY <1>4, <2>3 DEF Expire, StoreTypes, accounts
  <2> QED BY <2>1, <2>2, <2>3
<1> QED BY <1>2, <1>3, <1>5, TypesNext, StaysFine DEF LoginInv

(* What holds of r before a step.                                          *)
LEMMA Before ==
    ASSUME LoginInv, NEW r \in Requests
    PROVE  /\ LoginTypes /\ StoreTypes /\ RequestTypes /\ trail \subseteq Requests \X LoginEvents
           /\ Arrived(r) /\ Limited(r) /\ Traced(r) /\ Truthful(r)
           /\ pc[r] # "idle" => cmd[r] \in Command
  BY Types DEF LoginInv, Fine, Arrived

(* A step that moves r and leaves at most one event.                       *)
LEMMA RequestStep ==
    ASSUME LoginInv, Observe, policy' = policy, NEW r \in Requests,
           StoreTypes', RequestTypes',
           trail' = trail \/ \E e \in LoginEvents : trail' = trail \cup {<<r, e>>},
           \A q \in Requests \ {r} :
              /\ pc'[q] = pc[q] /\ cmd'[q] = cmd[q] /\ todo'[q] = todo[q]
              /\ allowed'[q] = allowed[q] /\ enabled'[q] = enabled[q]
              /\ answer'[q] = answer[q] /\ counted'[q] = counted[q] /\ outages'[q] = outages[q],
           Arrived(r)', Limited(r)', Traced(r)', Truthful(r)'
    PROVE  LoginInv'
<1>1. LoginTypes'
  BY Before, TypesNext
<1>2. \A q \in Requests \ {r} : Still(q)
  BY DEF Still
<1> QED BY <1>1, <1>2, StepOf DEF Fine

LEMMA ArriveStep ==
    ASSUME LoginInv, Observe, policy' = policy, NEW r \in Requests, NEW c \in Command,
           NEW trusted \in BOOLEAN, Arrive(r, c, trusted)
    PROVE  LoginInv'
<1>1. /\ pc[r] = "idle" /\ cmd' = [cmd EXCEPT ![r] = c]
      /\ UNCHANGED <<trail, allowed, enabled, counted, outages>> /\ StoreTypes'
  BY StoresStay DEF Arrive, traces
<1>2. /\ cmd' \in [Requests -> Command \cup {NoCommand}] /\ cmd'[r] = c
      /\ \A q \in Requests \ {r} : cmd'[q] = cmd[q]
  BY <1>1, Before DEF RequestTypes
<1>3. /\ answer[r].code = "none" /\ <<r, "authentication.login_succeeded">> \notin trail
  BY <1>1, Before DEF Traced, Arrived, LoginEvents
<1>4. CASE todo' = [todo EXCEPT ![r] = KeysOf(c)] /\ Goto(r, "check") /\ UNCHANGED answer
  <2>1. /\ pc' \in [Requests -> Places] /\ pc'[r] = "check"
        /\ \A q \in Requests \ {r} : pc'[q] = pc[q]
    BY <1>4, Before, Moved DEF Places
  <2>2. /\ todo' \in [Requests -> Seq(Keys)] /\ todo'[r] = KeysOf(c)
        /\ \A q \in Requests \ {r} : todo'[q] = todo[q]
    BY <1>4, KeySeqs, Before DEF RequestTypes
  <2>3. RequestTypes'
    BY <1>1, <1>2, <1>4, <2>1, <2>2, Before DEF RequestTypes
  <2>4. Arrived(r)' /\ Traced(r)'
    BY <1>2, <1>3, <1>4, <2>1 DEF Arrived, Traced
  <2>5. Limited(r)'
    BY <1>2, <2>1, <2>2 DEF Limited, Admitted
  <2>6. Truthful(r)'
    BY <1>1, <1>3, <1>4, <2>1 DEF Truthful
  <2> QED BY <1>1, <1>2, <1>4, <2>1, <2>2, <2>3, <2>4, <2>5, <2>6, RequestStep
<1>5. CASE Return(r, "csrf_failed") /\ UNCHANGED todo
  <2>1. /\ pc' \in [Requests -> Places] /\ pc'[r] = "done" /\ answer'[r].code = "csrf_failed"
        /\ answer' \in [Requests -> [code : Codes, event : Recordable]]
        /\ \A q \in Requests \ {r} : pc'[q] = pc[q] /\ answer'[q] = answer[q]
    BY <1>5, Before, Returned DEF Codes
  <2>2. RequestTypes'
    BY <1>1, <1>2, <1>5, <2>1, Before DEF RequestTypes
  <2>3. Arrived(r)' /\ Traced(r)'
    BY <1>2, <2>1 DEF Arrived, Traced
  <2>4. Limited(r)'
    BY <2>1 DEF Limited, Admitted
  <2>5. Truthful(r)'
    BY <1>1, <1>3, <2>1 DEF Truthful
  <2> QED BY <1>1, <1>2, <1>5, <2>1, <2>2, <2>3, <2>4, <2>5, RequestStep
<1> QED BY <1>4, <1>5 DEF Arrive

(* What was true for r stays so while it is not answered 401.              *)
LEMMA TruthStays ==
    ASSUME LoginInv, Observe, NEW r \in Requests, cmd'[r] = cmd[r],
           <<r, "authentication.login_succeeded">> \in trail'
              => <<r, "authentication.login_succeeded">> \in trail,
           answer'[r].code = "unauthorized" => answer[r].code = "unauthorized",
           pc'[r] \notin {"credential", "start"}
    PROVE  Truthful(r)'
<1>1. Truthful(r) /\ truths[r] \subseteq truths'[r]
  BY Before, Histories
<1> QED BY <1>1 DEF Truthful

(* The key a request is at: its first of two, or its last.                 *)
LEMMA NextKey ==
    ASSUME NEW c \in Command, NEW t,
           t = KeysOf(c) \/ (c.route = "login" /\ t = <<ClientKey(c)>>)
    PROVE  \/ /\ c.route = "login" /\ t = KeysOf(c)
              /\ Head(t) = IdKey(c) /\ Len(t) # 1 /\ Tail(t) = <<ClientKey(c)>>
           \/ /\ c.route # "login" \/ t = <<ClientKey(c)>>
              /\ Head(t) = ClientKey(c) /\ Len(t) = 1 /\ Tail(t) = << >>
              /\ c.route = "login" => t # KeysOf(c)
<1>1. c.route = "login" => <<ClientKey(c)>> # KeysOf(c)
  <2>1. Len(<<ClientKey(c)>>) = 1 /\ (c.route = "login" => Len(KeysOf(c)) = 2)
    BY KeySeqs
  <2> DEFINE s == <<ClientKey(c)>>
  <2> HIDE DEF s
  <2>2. c.route = "login" => s # KeysOf(c)
    BY <2>1 DEF s
  <2> QED BY <2>2 DEF s
<1>2. CASE t = KeysOf(c)
  BY <1>2, KeySeqs, SMTT(30)
<1>3. CASE c.route = "login" /\ t = <<ClientKey(c)>>
  BY <1>1, <1>3, KeySeqs
<1> QED BY <1>2, <1>3

(* The keys left to check or to count are keys, and one less after a step. *)
LEMMA KeysLeft ==
    ASSUME LoginInv, NEW r \in Requests, pc[r] \in {"check", "count"}
    PROVE  /\ cmd[r] \in Command
           /\ \/ todo[r] = KeysOf(cmd[r])
              \/ cmd[r].route = "login" /\ todo[r] = <<ClientKey(cmd[r])>>
           /\ Tail(todo[r]) \in Seq(Keys)
<1>1. /\ cmd[r] \in Command
      /\ \/ todo[r] = KeysOf(cmd[r])
         \/ cmd[r].route = "login" /\ todo[r] = <<ClientKey(cmd[r])>>
  BY Before DEF Limited, Traced
<1>2. Tail(todo[r]) = << >> \/ Tail(todo[r]) = <<ClientKey(cmd[r])>>
  BY <1>1, NextKey
<1>3. << >> \in Seq(Keys) /\ <<ClientKey(cmd[r])>> \in Seq(Keys)
  BY <1>1, KeySeqs
<1> QED BY <1>1, <1>2, <1>3

LEMMA Shortened ==
    ASSUME LoginInv, NEW r \in Requests, pc[r] \in {"check", "count"},
           todo' = [todo EXCEPT ![r] = Tail(todo[r])]
    PROVE  /\ todo' \in [Requests -> Seq(Keys)] /\ todo'[r] = Tail(todo[r])
           /\ \A q \in Requests \ {r} : todo'[q] = todo[q]
<1> DEFINE x == Tail(todo[r])
           T == Seq(Keys)
<1>1. x \in T /\ todo \in [Requests -> T] /\ todo' = [todo EXCEPT ![r] = x]
  BY KeysLeft, Before DEF RequestTypes
<1> HIDE DEF x, T
<1>2. /\ todo' \in [Requests -> T] /\ todo'[r] = x
      /\ \A q \in Requests \ {r} : todo'[q] = todo[q]
  BY <1>1, Update, ZenonT(30)
<1> QED BY <1>2 DEF x, T

LEMMA CheckKeyStep ==
    ASSUME LoginInv, Observe, policy' = policy, NEW r \in Requests, CheckKey(r)
    PROVE  LoginInv'
<1> DEFINE c == cmd[r]
           k == Head(todo[r])
           ok == allowed[r] /\ Below(k)
<1>1. /\ pc[r] = "check" /\ todo' = [todo EXCEPT ![r] = Tail(todo[r])]
      /\ allowed' = [allowed EXCEPT ![r] = ok]
      /\ UNCHANGED <<trail, cmd, enabled, counted, outages, hits>> /\ StoreTypes'
      /\ c \in Command
  BY StoresStay, Before DEF CheckKey, traces, limiter
<1>2. /\ answer[r].code = "none" /\ (\A x : Below(x)' <=> Below(x))
  BY <1>1, Before DEF Traced, Below
<1>3. ok \in BOOLEAN /\ (ok <=> allowed[r] /\ Below(k))
  BY Before DEF RequestTypes, Below
<1>4. allowed' \in [Requests -> BOOLEAN] /\ (allowed'[r] <=> ok)
      /\ \A q \in Requests \ {r} : allowed'[q] = allowed[q]
  <2> HIDE DEF ok
  <2> QED BY <1>1, <1>3, Before, Update DEF RequestTypes
<1>5. blocked'[r] \subseteq blocked[r] \/ pc'[r] = "idle"
  BY <1>1, Histories
<1>6. (ok => k \notin blocked'[r])
  BY <1>2, Histories
<1> HIDE DEF ok
<1>7. CASE c.route = "login" /\ todo[r] = KeysOf(c)
  <2>1. k = IdKey(c) /\ Len(todo[r]) # 1 /\ Tail(todo[r]) = <<ClientKey(c)>>
    <3>1. Head(KeysOf(c)) = IdKey(c) /\ Len(KeysOf(c)) = 2 /\ Tail(KeysOf(c)) = <<ClientKey(c)>>
      BY <1>1, <1>7, KeySeqs
    <3> QED BY <1>7, <3>1
  <2>2. UNCHANGED <<pc, answer>>
    BY <2>1 DEF CheckKey
  <2>3. /\ todo' \in [Requests -> Seq(Keys)] /\ todo'[r] = <<ClientKey(c)>>
        /\ \A q \in Requests \ {r} : todo'[q] = todo[q]
    BY <1>1, <2>1, Shortened
  <2>4. RequestTypes'
    BY <1>1, <1>4, <2>2, <2>3, Before DEF RequestTypes
  <2>5. Arrived(r)' /\ Traced(r)'
    BY <1>1, <2>2, Before DEF Arrived, Traced
  <2>6. Limited(r)'
    BY <1>1, <1>4, <1>6, <1>7, <2>1, <2>2, <2>3 DEF Limited, Admitted, IdKey, ClientKey
  <2>7. Truthful(r)'
    BY <1>1, <2>2, TruthStays
  <2> QED BY <1>1, <1>4, <2>2, <2>3, <2>4, <2>5, <2>6, <2>7, RequestStep
<1>8. CASE ~(c.route = "login" /\ todo[r] = KeysOf(c))
  <2>1. /\ k = ClientKey(c) /\ Len(todo[r]) = 1 /\ Tail(todo[r]) = << >>
        /\ c.route = "login" /\ allowed[r] /\ "redis" \notin outages[r] => IdKey(c) \notin blocked[r]
    BY <1>1, <1>8, KeySeqs, Before DEF Limited
  <2>2. /\ todo' \in [Requests -> Seq(Keys)]
        /\ \A q \in Requests \ {r} : todo'[q] = todo[q]
    BY <1>1, Shortened
  <2>3. CASE ok
    <3>1. Goto(r, "proceed") /\ UNCHANGED answer
      BY <2>1, <2>3 DEF CheckKey, ok
    <3>2. /\ pc' \in [Requests -> Places] /\ pc'[r] = "proceed"
          /\ \A q \in Requests \ {r} : pc'[q] = pc[q]
      BY <3>1, Before, Moved DEF Places
    <3>3. RequestTypes'
      BY <1>1, <1>4, <2>2, <3>1, <3>2, Before DEF RequestTypes
    <3>4. Arrived(r)' /\ Traced(r)'
      BY <1>1, <1>2, <3>1, <3>2 DEF Arrived, Traced
    <3>5. "redis" \notin outages[r] => KeySet(c) \cap blocked'[r] = {}
      BY <1>3, <1>5, <1>6, <2>1, <2>3, <3>2 DEF KeySet
    <3>6. Limited(r)'
      BY <1>1, <3>2, <3>5 DEF Limited, Admitted
    <3>7. Truthful(r)'
      BY <1>1, <3>1, <3>2, TruthStays
    <3> QED BY <1>1, <1>4, <2>2, <3>1, <3>2, <3>3, <3>4, <3>6, <3>7, RequestStep
  <2>4. CASE ~ok
    <3>1. Answer(r, "record", "rate_limited", RateLimited(r)) /\ RateLimited(r) \in Recordable
      BY <2>1, <2>4 DEF CheckKey, ok, RateLimited, Recordable
    <3>2. /\ pc' \in [Requests -> Places] /\ pc'[r] = "record"
          /\ answer' \in [Requests -> [code : Codes, event : Recordable]]
          /\ answer'[r].code = "rate_limited"
          /\ \A q \in Requests \ {r} : pc'[q] = pc[q] /\ answer'[q] = answer[q]
      BY <3>1, Before, AnswerGiven DEF Places, Codes
    <3>3. RequestTypes'
      BY <1>1, <1>4, <2>2, <3>2, Before DEF RequestTypes
    <3>4. Arrived(r)' /\ Traced(r)' /\ Limited(r)'
      BY <1>1, <3>2 DEF Arrived, Traced, Limited, Admitted
    <3>5. Truthful(r)'
      BY <1>1, <3>2, TruthStays
    <3> QED BY <1>1, <1>4, <2>2, <3>2, <3>3, <3>4, <3>5, RequestStep
  <2> QED BY <2>3, <2>4
<1> QED BY <1>7, <1>8

(* A step that answers the request without letting it in.                  *)
LEMMA RefuseStep ==
    ASSUME LoginInv, Observe, policy' = policy, NEW r \in Requests, StoreTypes',
           pc[r] # "idle", NEW code \in Codes \ {"unauthorized"}, NEW event \in Recordable,
           NEW l \in {"record", "done"}, pc' \in [Requests -> Places], pc'[r] = l,
           answer' \in [Requests -> [code : Codes, event : Recordable]],
           answer'[r].code = code,
           \A q \in Requests \ {r} : pc'[q] = pc[q] /\ answer'[q] = answer[q],
           outages' \in [Requests -> SUBSET {"redis", "audit"}],
           \A q \in Requests \ {r} : outages'[q] = outages[q],
           todo' \in [Requests -> Seq(Keys)],
           \A q \in Requests \ {r} : todo'[q] = todo[q],
           UNCHANGED <<trail, cmd, allowed, enabled, counted>>
    PROVE  LoginInv'
<1>1. RequestTypes'
  BY Before DEF RequestTypes
<1>2. Arrived(r)' /\ Traced(r)' /\ Limited(r)'
  BY Before DEF Arrived, Traced, Limited, Admitted
<1>3. Truthful(r)'
  BY TruthStays
<1> QED BY <1>1, <1>2, <1>3, RequestStep

(* A route that returns without a failure of the caller.                   *)
LEMMA ReturnStep ==
    ASSUME LoginInv, Observe, policy' = policy, NEW r \in Requests, StoreTypes',
           pc[r] # "idle", NEW code \in {"internal_error", "ok"}, Return(r, code),
           outages' \in [Requests -> SUBSET {"redis", "audit"}],
           \A q \in Requests \ {r} : outages'[q] = outages[q],
           UNCHANGED <<trail, cmd, todo, allowed, enabled, counted>>
    PROVE  LoginInv'
<1>1. code \in Codes \ {"unauthorized"} /\ "none" \in Recordable
  BY DEF Codes, Recordable
<1>2. /\ pc' \in [Requests -> Places] /\ pc'[r] = "done" /\ answer'[r].code = code
      /\ answer' \in [Requests -> [code : Codes, event : Recordable]]
      /\ \A q \in Requests \ {r} : pc'[q] = pc[q] /\ answer'[q] = answer[q]
  BY <1>1, Before, Returned
<1>3. todo' \in [Requests -> Seq(Keys)]
  BY Before DEF RequestTypes
<1> QED BY <1>1, <1>2, <1>3, RefuseStep

(* An outage is noted.                                                     *)
LEMMA Outage ==
    ASSUME LoginInv, NEW r \in Requests, NEW store \in {"redis", "audit"},
           outages' = [outages EXCEPT ![r] = @ \cup {store}]
    PROVE  /\ outages' \in [Requests -> SUBSET {"redis", "audit"}]
           /\ outages'[r] = outages[r] \cup {store}
           /\ \A q \in Requests \ {r} : outages'[q] = outages[q]
<1>1. outages \in [Requests -> SUBSET {"redis", "audit"}]
  BY Before DEF RequestTypes
<1> QED BY <1>1

LEMMA CheckKeyFailsStep ==
    ASSUME LoginInv, Observe, policy' = policy, NEW r \in Requests, CheckKeyFails(r)
    PROVE  LoginInv'
<1> DEFINE c == cmd[r]
<1>1. /\ pc[r] = "check" /\ outages' = [outages EXCEPT ![r] = @ \cup {"redis"}]
      /\ UNCHANGED <<trail, cmd, allowed, enabled, counted>> /\ StoreTypes'
      /\ c \in Command
  BY StoresStay, Before DEF CheckKeyFails
<1>2. /\ outages' \in [Requests -> SUBSET {"redis", "audit"}] /\ "redis" \in outages'[r]
      /\ \A q \in Requests \ {r} : outages'[q] = outages[q]
  BY <1>1, Outage
<1>3. Unavailable \in Recordable /\ RateLimited(r) \in Recordable
  BY DEF Recordable, RateLimited
<1>4. todo[r] = KeysOf(c) \/ (c.route = "login" /\ todo[r] = <<ClientKey(c)>>)
  BY <1>1, KeysLeft
<1>5. todo' = todo \/ todo' = [todo EXCEPT ![r] = Tail(todo[r])]
  BY DEF CheckKeyFails
<1>7. todo' \in [Requests -> Seq(Keys)] /\ \A q \in Requests \ {r} : todo'[q] = todo[q]
  BY <1>1, <1>5, Shortened, Before DEF RequestTypes
<1>8. ASSUME NEW event \in Recordable, Answer(r, "record", "rate_limited", event)
      PROVE  LoginInv'
  <2>1. /\ pc' \in [Requests -> Places] /\ pc'[r] = "record"
        /\ answer' \in [Requests -> [code : Codes, event : Recordable]]
        /\ answer'[r].code = "rate_limited"
        /\ \A q \in Requests \ {r} : pc'[q] = pc[q] /\ answer'[q] = answer[q]
    BY <1>8, Before, AnswerGiven DEF Places, Codes
  <2>2. "rate_limited" \in Codes \ {"unauthorized"}
    BY DEF Codes
  <2> QED BY <1>1, <1>2, <1>7, <1>8, <2>1, <2>2, RefuseStep
<1>9. CASE /\ UNCHANGED answer /\ todo' = [todo EXCEPT ![r] = Tail(todo[r])]
           /\ \/ Len(todo[r]) # 1 /\ UNCHANGED pc
              \/ Goto(r, "proceed")
  <2>1. /\ pc' \in [Requests -> Places] /\ \A q \in Requests \ {r} : pc'[q] = pc[q]
        /\ \/ pc'[r] = "check" /\ Len(todo[r]) # 1
           \/ pc'[r] = "proceed"
    BY <1>1, <1>9, Before, Moved DEF Places, RequestTypes
  <2>2. RequestTypes'
    BY <1>1, <1>2, <1>7, <1>9, <2>1, Before DEF RequestTypes
  <2>3. Arrived(r)' /\ Traced(r)'
    BY <1>1, <1>9, <2>1, Before DEF Arrived, Traced
  <2>4. todo'[r] = Tail(todo[r])
    BY <1>9, Before DEF RequestTypes
  <2>5. pc'[r] = "check" => c.route = "login" /\ todo'[r] = <<ClientKey(c)>>
    BY <1>1, <1>4, <2>1, <2>4, NextKey
  <2>6. Limited(r)'
    BY <1>1, <1>2, <2>1, <2>5 DEF Limited, ClientKey
  <2>7. Truthful(r)'
    BY <1>1, <1>9, <2>1, TruthStays
  <2> QED BY <1>1, <1>2, <1>7, <1>9, <2>1, <2>2, <2>3, <2>6, <2>7, RequestStep
<1> QED BY <1>3, <1>8, <1>9 DEF CheckKeyFails

-----------------------------------------------------------------------------
(* What r reads of its user is seen.                                       *)
LEMMA Seen ==
    ASSUME LoginInv, Observe, NEW r \in Requests, UNCHANGED accounts, cmd' = cmd,
           cmd[r] \in Command, cmd[r].route = "login", pc[r] \notin {"done", "crashed"}
    PROVE  /\ cmd[r].email \in Emails /\ truths[r] \subseteq truths'[r]
           /\ <<active[cmd[r].email], password[cmd[r].email]>> \in truths'[r]
           /\ active[cmd[r].email] => \E t \in truths'[r] : t[1]
           /\ ~active[cmd[r].email] => \E t \in truths'[r] : ~t[1]
<1> DEFINE a == active[cmd[r].email]
           b == password[cmd[r].email]
<1>1. cmd[r].email \in Emails /\ truths[r] \subseteq truths'[r] /\ <<a, b>> \in truths'[r]
  BY CommandFields, Histories DEF accounts
<1> HIDE DEF a, b
<1>2. <<a, b>>[1] = a
  OBVIOUS
<1>3. a => \E t \in truths'[r] : t[1]
  BY <1>1, <1>2, Zenon
<1>4. ~a => \E t \in truths'[r] : ~t[1]
  BY <1>1, <1>2, Zenon
<1> QED BY <1>1, <1>3, <1>4 DEF a, b

(* An admitted request that goes on is still admitted.                     *)
LEMMA StaysAdmitted ==
    ASSUME LoginInv, Observe, NEW r \in Requests, Admitted(r), Admitted(r)',
           cmd' = cmd, outages' = outages
    PROVE  Limited(r)'
<1>1. blocked'[r] \subseteq blocked[r]
  BY Histories DEF Admitted
<1>2. "redis" \notin outages[r] => KeySet(cmd[r]) \cap blocked[r] = {}
  BY Before DEF Limited
<1>3. "redis" \notin outages[r] => KeySet(cmd[r]) \cap blocked'[r] = {}
  BY <1>1, <1>2
<1>4. pc'[r] # "check"
  BY DEF Admitted
<1> QED BY <1>3, <1>4 DEF Limited, KeySet, IdKey, ClientKey

LEMMA ReadUserStep ==
    ASSUME LoginInv, Observe, policy' = policy, NEW r \in Requests, ReadUser(r)
    PROVE  LoginInv'
<1> DEFINE e == active[cmd[r].email]
<1>1. /\ pc[r] = "proceed" /\ cmd[r].route = "login" /\ cmd[r] \in Command
      /\ enabled' = [enabled EXCEPT ![r] = e] /\ Goto(r, "credential")
      /\ UNCHANGED accounts /\ StoreTypes'
      /\ UNCHANGED <<trail, cmd, todo, allowed, answer, counted, outages>>
  BY StoresStay, Before DEF ReadUser, traces
<1>2. /\ pc' \in [Requests -> Places] /\ pc'[r] = "credential"
      /\ \A q \in Requests \ {r} : pc'[q] = pc[q]
  BY <1>1, Before, Moved DEF Places
<1>3. /\ cmd[r].email \in Emails /\ truths[r] \subseteq truths'[r]
      /\ e => \E t \in truths'[r] : t[1]
      /\ ~e => \E t \in truths'[r] : ~t[1]
  BY <1>1, Seen
<1>4. e \in BOOLEAN /\ enabled \in [Requests -> BOOLEAN]
  BY <1>3, Before DEF StoreTypes, RequestTypes
<1>5. /\ enabled' \in [Requests -> BOOLEAN] /\ (enabled'[r] <=> e)
      /\ \A q \in Requests \ {r} : enabled'[q] = enabled[q]
  <2> HIDE DEF e
  <2> QED BY <1>1, <1>4, Update
<1> HIDE DEF e
<1>6. RequestTypes'
  BY <1>1, <1>2, <1>5, Before DEF RequestTypes
<1>7. Arrived(r)' /\ Traced(r)'
  BY <1>1, <1>2, Before DEF Arrived, Traced
<1>8. Limited(r)'
  BY <1>1, <1>2, StaysAdmitted DEF Admitted
<1>9. Truthful(r)'
  BY <1>1, <1>2, <1>3, <1>5, Before DEF Truthful
<1> QED BY <1>1, <1>2, <1>5, <1>6, <1>7, <1>8, <1>9, RequestStep

(* A failed attempt begins to be counted.                                  *)
LEMMA FailStep ==
    ASSUME LoginInv, Observe, policy' = policy, NEW r \in Requests, StoreTypes',
           pc[r] # "idle", NEW event \in Recordable, Fail(r, event),
           trail' = trail \/ (trail' = trail \cup {<<r, "session.refresh_replay_detected">>}),
           event \in Failures \/
              (event = "none" /\ <<r, "session.refresh_replay_detected">> \in trail'),
           cmd[r].route = "login" => \E t \in truths'[r] : ~t[1] \/ t[2] # cmd[r].password,
           UNCHANGED <<cmd, allowed, enabled, counted, outages>>
    PROVE  LoginInv'
<1>1. todo' = [todo EXCEPT ![r] = KeysOf(cmd[r])] /\ Answer(r, "count", "unauthorized", event)
  BY DEF Fail
<1>2. /\ pc' \in [Requests -> Places] /\ pc'[r] = "count"
      /\ answer' \in [Requests -> [code : Codes, event : Recordable]]
      /\ answer'[r].code = "unauthorized" /\ answer'[r].event = event
      /\ \A q \in Requests \ {r} : pc'[q] = pc[q] /\ answer'[q] = answer[q]
  BY <1>1, Before, AnswerGiven DEF Places, Codes
<1>3. /\ todo' \in [Requests -> Seq(Keys)] /\ todo'[r] = KeysOf(cmd[r])
      /\ \A q \in Requests \ {r} : todo'[q] = todo[q]
  <2> DEFINE x == KeysOf(cmd[r])
             T == Seq(Keys)
  <2>1. x \in T /\ todo \in [Requests -> T] /\ todo' = [todo EXCEPT ![r] = x]
    BY <1>1, KeySeqs, Before DEF RequestTypes
  <2> HIDE DEF x, T
  <2>2. /\ todo' \in [Requests -> T] /\ todo'[r] = x
        /\ \A q \in Requests \ {r} : todo'[q] = todo[q]
    BY <2>1, Update
  <2> QED BY <2>2 DEF x, T
<1>4. RequestTypes'
  BY <1>2, <1>3, Before DEF RequestTypes
<1>5. Arrived(r)' /\ Limited(r)'
  BY <1>2, Before DEF Arrived, Limited, Admitted
<1>6. todo'[r] = KeysOf(cmd'[r])
  BY <1>3
<1>7. Traced(r)'
  BY <1>2, <1>6 DEF Traced
<1>8. truths[r] \subseteq truths'[r]
  BY Histories
<1>9. <<r, "authentication.login_succeeded">> \in trail'
         => <<r, "authentication.login_succeeded">> \in trail
  OBVIOUS
<1>10. Truthful(r)'
  BY <1>2, <1>8, <1>9, Before DEF Truthful
<1>11. trail' = trail \/ \E e \in LoginEvents : trail' = trail \cup {<<r, e>>}
  BY DEF LoginEvents, Failures
<1> QED BY <1>2, <1>3, <1>4, <1>5, <1>7, <1>10, <1>11, RequestStep

LEMMA VerifyPasswordStep ==
    ASSUME LoginInv, Observe, policy' = policy, NEW r \in Requests, VerifyPassword(r)
    PROVE  LoginInv'
<1> DEFINE c == cmd[r]
           b == password[c.email]
<1>1. /\ pc[r] = "credential" /\ c.route = "login" /\ c \in Command
      /\ UNCHANGED accounts /\ StoreTypes'
      /\ UNCHANGED <<trail, cmd, allowed, enabled, counted, outages>>
  BY StoresStay, Before DEF VerifyPassword, traces, Arrived
<1>2. /\ <<active[c.email], b>> \in truths'[r] /\ truths[r] \subseteq truths'[r]
  BY <1>1, Seen
<1>3. \E t \in truths'[r] : t[2] = b
  BY <1>2
<1>4. CASE b = c.password /\ enabled[r]
  <2>1. Goto(r, "start") /\ UNCHANGED <<todo, answer>>
    BY <1>4 DEF VerifyPassword
  <2>2. /\ pc' \in [Requests -> Places] /\ pc'[r] = "start"
        /\ \A q \in Requests \ {r} : pc'[q] = pc[q]
    BY <2>1, Before, Moved DEF Places
  <2>3. RequestTypes'
    BY <1>1, <2>1, <2>2, Before DEF RequestTypes
  <2>4. Arrived(r)' /\ Traced(r)'
    BY <1>1, <2>1, <2>2, Before DEF Arrived, Traced
  <2>5. Limited(r)'
    BY <1>1, <2>2, StaysAdmitted DEF Admitted
  <2>6. (\E t \in truths'[r] : t[1]) /\ (\E t \in truths'[r] : t[2] = c.password)
    BY <1>1, <1>2, <1>3, <1>4, Before DEF Truthful
  <2>7. Truthful(r)'
    BY <1>1, <2>1, <2>2, <2>6, Before DEF Truthful, Traced
  <2> QED BY <1>1, <2>1, <2>2, <2>3, <2>4, <2>5, <2>7, RequestStep
<1>5. CASE ~(b = c.password /\ enabled[r])
  <2>1. Fail(r, "authentication.login_failed")
    BY <1>5 DEF VerifyPassword
  <2>2. \E t \in truths'[r] : ~t[1] \/ t[2] # c.password
    <3>1. CASE b # c.password
      BY <1>3, <3>1
    <3>2. CASE ~enabled[r]
      BY <1>1, <1>2, <3>2, Before DEF Truthful
    <3> QED BY <1>5, <3>1, <3>2
  <2>3. "authentication.login_failed" \in Recordable \cap Failures
    BY DEF Recordable, Failures
  <2> QED BY <1>1, <2>1, <2>2, <2>3, FailStep
<1> QED BY <1>4, <1>5

LEMMA StartSessionStep ==
    ASSUME LoginInv, Observe, policy' = policy, NEW r \in Requests, NEW issued \in BOOLEAN,
           StartSession(r, issued)
    PROVE  LoginInv'
<1>1. /\ pc[r] = "start" /\ cmd[r] \in Command /\ StoreTypes'
      /\ UNCHANGED <<cmd, todo, allowed, enabled, counted, outages>>
  BY StoresStay, Before DEF StartSession, traces
<1>2. CASE /\ trail' = trail \cup {<<r, "authentication.login_succeeded">>}
           /\ Goto(r, "clear") /\ UNCHANGED answer
  <2>1. /\ pc' \in [Requests -> Places] /\ pc'[r] = "clear"
        /\ \A q \in Requests \ {r} : pc'[q] = pc[q]
    BY <1>2, Before, Moved DEF Places
  <2>2. RequestTypes'
    BY <1>1, <1>2, <2>1, Before DEF RequestTypes
  <2>3. Arrived(r)' /\ Traced(r)'
    BY <1>1, <1>2, <2>1, Before DEF Arrived, Traced
  <2>4. Limited(r)'
    BY <1>1, <2>1, StaysAdmitted DEF Admitted
  <2>5. truths[r] \subseteq truths'[r]
    BY Histories
  <2>6. Truthful(r)'
    BY <1>1, <1>2, <2>1, <2>5, Before DEF Truthful
  <2>7. \E e \in LoginEvents : trail' = trail \cup {<<r, e>>}
    BY <1>2 DEF LoginEvents
  <2> QED BY <1>1, <1>2, <2>1, <2>2, <2>3, <2>4, <2>6, <2>7, RequestStep
<1>3. CASE Return(r, "internal_error") /\ UNCHANGED trail
  <2>1. outages' \in [Requests -> SUBSET {"redis", "audit"}]
    BY <1>1, Before DEF RequestTypes
  <2> QED BY <1>1, <1>3, <2>1, ReturnStep
<1> QED BY <1>2, <1>3 DEF StartSession

LEMMA RefreshStep ==
    ASSUME LoginInv, Observe, policy' = policy, NEW r \in Requests,
           NEW outcome \in {"rotated", "replay", "invalid", "error"}, Refresh(r, outcome)
    PROVE  LoginInv'
<1>1. /\ pc[r] = "proceed" /\ cmd[r].route = "refresh" /\ cmd[r] \in Command /\ StoreTypes'
      /\ UNCHANGED <<cmd, allowed, enabled, counted, outages>>
  BY StoresStay, Before DEF Refresh, traces
<1>2. CASE outcome = "rotated"
  <2>1. /\ trail' = trail \cup {<<r, "session.refreshed">>}
        /\ Goto(r, "clear") /\ UNCHANGED <<todo, answer>>
    BY <1>2 DEF Refresh
  <2>2. /\ pc' \in [Requests -> Places] /\ pc'[r] = "clear"
        /\ \A q \in Requests \ {r} : pc'[q] = pc[q]
    BY <2>1, Before, Moved DEF Places
  <2>3. RequestTypes'
    BY <1>1, <2>1, <2>2, Before DEF RequestTypes
  <2>4. Arrived(r)' /\ Traced(r)'
    BY <1>1, <2>1, <2>2, Before DEF Arrived, Traced
  <2>5. Limited(r)'
    BY <1>1, <2>2, StaysAdmitted DEF Admitted
  <2>6. <<r, "authentication.login_succeeded">> \in trail'
           => <<r, "authentication.login_succeeded">> \in trail
    BY <2>1
  <2>7. Truthful(r)'
    BY <1>1, <2>1, <2>2, <2>6, TruthStays
  <2>8. \E e \in LoginEvents : trail' = trail \cup {<<r, e>>}
    BY <2>1 DEF LoginEvents
  <2> QED BY <1>1, <2>1, <2>2, <2>3, <2>4, <2>5, <2>7, <2>8, RequestStep
<1>3. CASE outcome = "replay"
  <2>1. /\ trail' = trail \cup {<<r, "session.refresh_replay_detected">>}
        /\ Fail(r, "none")
    BY <1>3 DEF Refresh
  <2>2. "none" \in Recordable /\ <<r, "session.refresh_replay_detected">> \in trail'
    BY <2>1 DEF Recordable
  <2> QED BY <1>1, <2>1, <2>2, FailStep
<1>4. CASE outcome = "invalid"
  <2>1. Fail(r, "session.refresh_failed") /\ UNCHANGED trail
    BY <1>4 DEF Refresh
  <2>2. "session.refresh_failed" \in Recordable \cap Failures
    BY DEF Recordable, Failures
  <2> QED BY <1>1, <2>1, <2>2, FailStep
<1>5. CASE outcome = "error"
  <2>1. Return(r, "internal_error") /\ UNCHANGED <<trail, todo>>
    BY <1>5 DEF Refresh
  <2>2. outages' \in [Requests -> SUBSET {"redis", "audit"}]
    BY <1>1, Before DEF RequestTypes
  <2> QED BY <1>1, <2>1, <2>2, ReturnStep
<1> QED BY <1>2, <1>3, <1>4, <1>5

-----------------------------------------------------------------------------
(* A request goes on with its next key, or to its event: the key is        *)
(* counted, or Redis has failed under the open policy.                     *)
LEMMA CountingStep ==
    ASSUME LoginInv, Observe, policy' = policy, NEW r \in Requests, pc[r] = "count", StoreTypes',
           todo' = [todo EXCEPT ![r] = Tail(todo[r])],
           IF Len(todo[r]) = 1 THEN Goto(r, "record") ELSE UNCHANGED pc,
           counted' \in [Requests -> SUBSET Keys], counted[r] \subseteq counted'[r],
           outages' \in [Requests -> SUBSET {"redis", "audit"}], outages[r] \subseteq outages'[r],
           \A q \in Requests \ {r} : counted'[q] = counted[q] /\ outages'[q] = outages[q],
           Head(todo[r]) \in counted'[r] \/ (policy = "open" /\ "redis" \in outages'[r]),
           UNCHANGED <<trail, cmd, allowed, enabled, answer>>
    PROVE  LoginInv'
<1> DEFINE c == cmd[r]
<1>1. /\ c \in Command /\ answer[r].code = "unauthorized"
      /\ todo[r] = KeysOf(c) \/ (c.route = "login" /\ todo[r] = <<ClientKey(c)>>)
  BY KeysLeft, Before DEF Traced
<1>2. /\ todo' \in [Requests -> Seq(Keys)] /\ todo'[r] = Tail(todo[r])
      /\ \A q \in Requests \ {r} : todo'[q] = todo[q]
  BY Shortened
<1>3. /\ pc' \in [Requests -> Places]
      /\ IF Len(todo[r]) = 1 THEN pc'[r] = "record" ELSE pc'[r] = "count"
      /\ \A q \in Requests \ {r} : pc'[q] = pc[q]
  <2>1. "record" \in Places /\ pc \in [Requests -> Places] /\ LoginTypes
    BY Before DEF RequestTypes, Places
  <2> QED BY <2>1, Moved
<1>4. RequestTypes'
  BY <1>2, <1>3, Before DEF RequestTypes
<1>5. Arrived(r)' /\ Limited(r)'
  BY <1>1, <1>3 DEF Arrived, Limited, Admitted
<1>6. Excused(r) => Excused(r)'
  BY DEF Excused
<1>7. ASSUME c.route = "login", Head(todo[r]) = IdKey(c), Len(todo[r]) # 1,
             Tail(todo[r]) = <<ClientKey(c)>>
      PROVE  Traced(r)'
  <2>1. pc'[r] = "count" /\ todo'[r] = <<ClientKey(c)>>
    BY <1>2, <1>3, <1>7
  <2>2. IdKey(c) \in counted'[r] \/ Excused(r)'
    BY <1>7 DEF Excused
  <2>3. ClientKey(c)' = ClientKey(c) /\ IdKey(c)' = IdKey(c)
    BY DEF ClientKey, IdKey
  <2> QED BY <1>1, <1>7, <2>1, <2>2, <2>3, Before DEF Traced
<1>8. ASSUME c.route # "login" \/ todo[r] = <<ClientKey(c)>>,
             Head(todo[r]) = ClientKey(c), Len(todo[r]) = 1,
             c.route = "login" => todo[r] # KeysOf(c)
      PROVE  Traced(r)'
  <2>1. pc'[r] = "record"
    BY <1>3, <1>8
  <2>2. c.route = "login" => IdKey(c) \in counted[r] \/ Excused(r)
    BY <1>8, Before DEF Traced
  <2>3. KeySet(c) \subseteq counted'[r] \/ Excused(r)'
    BY <1>6, <1>8, <2>2 DEF KeySet, Excused
  <2>4. KeySet(c)' = KeySet(c)
    BY DEF KeySet, ClientKey, IdKey
  <2> QED BY <1>1, <2>1, <2>3, <2>4, Before DEF Traced
<1>9. Traced(r)'
  BY <1>1, <1>7, <1>8, NextKey
<1>10. Truthful(r)'
  BY <1>3, TruthStays
<1> QED BY <1>2, <1>3, <1>4, <1>5, <1>9, <1>10, RequestStep

(* What is counted next is a key.                                          *)
LEMMA NextIsKey ==
    ASSUME LoginInv, NEW r \in Requests, pc[r] = "count"
    PROVE  Head(todo[r]) \in Keys
<1>1. \/ Head(todo[r]) = ClientKey(cmd[r])
      \/ cmd[r].route = "login" /\ Head(todo[r]) = IdKey(cmd[r])
  BY KeysLeft, NextKey
<1>2. cmd[r] \in Command
  BY KeysLeft
<1> QED BY <1>1, <1>2, KeyFacts

(* Redis executes the script, or the DEL.                                  *)
LEMMA IncrementTyped ==
    ASSUME LoginInv, NEW r \in Requests, pc[r] = "count", Increment(r), UNCHANGED accounts,
           policy' = policy
    PROVE  StoreTypes'
<1> DEFINE k == Head(todo[r])
<1>1. hits' = [hits EXCEPT ![k] = hits[k] \cup {r}] /\ expiring' \subseteq expiring \cup {k}
  BY DEF Increment, StartWindow
<1>2. k \in Keys
  BY NextIsKey
<1> HIDE DEF k
<1> QED BY <1>1, <1>2, Before DEF StoreTypes, accounts

LEMMA DeleteTyped ==
    ASSUME LoginInv, NEW r \in Requests, Delete(r), UNCHANGED accounts, policy' = policy
    PROVE  StoreTypes'
  BY Before DEF Delete, StoreTypes, accounts

LEMMA CountKeyStep ==
    ASSUME LoginInv, Observe, policy' = policy, NEW r \in Requests, CountKey(r)
    PROVE  LoginInv'
<1> DEFINE k == Head(todo[r])
<1>1. /\ pc[r] = "count"
      /\ hits' = [hits EXCEPT ![k] = hits[k] \cup {r}] /\ expiring' \subseteq expiring \cup {k}
      /\ todo' = [todo EXCEPT ![r] = Tail(todo[r])]
      /\ counted' = [counted EXCEPT ![r] = counted[r] \cup {k}]
      /\ IF Len(todo[r]) = 1 THEN Goto(r, "record") ELSE UNCHANGED pc
      /\ UNCHANGED <<accounts, trail, cmd, allowed, enabled, answer, outages>>
  BY DEF CountKey, Increment, StartWindow
<1>2. k \in Keys
  BY <1>1, NextIsKey
<1> HIDE DEF k
<1>3. StoreTypes'
  BY <1>1, <1>2, Before DEF StoreTypes, accounts
<1>4. counted \in [Requests -> SUBSET Keys] /\ outages' \in [Requests -> SUBSET {"redis", "audit"}]
  BY <1>1, Before DEF RequestTypes
<1>5. /\ counted' \in [Requests -> SUBSET Keys] /\ counted'[r] = counted[r] \cup {k}
      /\ \A q \in Requests \ {r} : counted'[q] = counted[q]
  BY <1>1, <1>2, <1>4
<1> QED BY <1>1, <1>3, <1>4, <1>5, CountingStep DEF k

LEMMA CountKeyFailsStep ==
    ASSUME LoginInv, Observe, policy' = policy, NEW r \in Requests,
           NEW executed \in BOOLEAN, CountKeyFails(r, executed)
    PROVE  LoginInv'
<1>1. /\ pc[r] = "count" /\ outages' = [outages EXCEPT ![r] = @ \cup {"redis"}]
      /\ UNCHANGED <<trail, cmd, allowed, enabled, counted>> /\ StoreTypes'
  BY StoresStay, IncrementTyped, Before DEF CountKeyFails
<1>2. /\ outages' \in [Requests -> SUBSET {"redis", "audit"}]
      /\ outages'[r] = outages[r] \cup {"redis"}
      /\ \A q \in Requests \ {r} : outages'[q] = outages[q]
  BY <1>1, Outage
<1>3. CASE policy = "closed"
  <2>1. Answer(r, "record", "rate_limited", Unavailable) /\ UNCHANGED todo
    BY <1>3 DEF CountKeyFails
  <2>2. Unavailable \in Recordable /\ "rate_limited" \in Codes \ {"unauthorized"}
    BY DEF Recordable, Codes
  <2>3. /\ pc' \in [Requests -> Places] /\ pc'[r] = "record"
        /\ answer' \in [Requests -> [code : Codes, event : Recordable]]
        /\ answer'[r].code = "rate_limited"
        /\ \A q \in Requests \ {r} : pc'[q] = pc[q] /\ answer'[q] = answer[q]
    BY <2>1, <2>2, Before, AnswerGiven DEF Places
  <2>4. todo' \in [Requests -> Seq(Keys)]
    BY <2>1, Before DEF RequestTypes
  <2> QED BY <1>1, <1>2, <2>1, <2>2, <2>3, <2>4, RefuseStep
<1>4. CASE policy = "open"
  <2>1. /\ todo' = [todo EXCEPT ![r] = Tail(todo[r])] /\ UNCHANGED answer
        /\ IF Len(todo[r]) = 1 THEN Goto(r, "record") ELSE UNCHANGED pc
    BY <1>4 DEF CountKeyFails
  <2>2. counted' \in [Requests -> SUBSET Keys]
    BY <1>1, Before DEF RequestTypes
  <2> QED BY <1>1, <1>2, <1>4, <2>1, <2>2, CountingStep
<1> QED BY <1>3, <1>4, Before DEF StoreTypes

LEMMA ClearKeysStep ==
    ASSUME LoginInv, Observe, policy' = policy, NEW r \in Requests, ClearKeys(r)
    PROVE  LoginInv'
<1> DEFINE S == {KeysOf(cmd[r])[i] : i \in 1 .. Len(KeysOf(cmd[r]))}
<1>1. /\ pc[r] = "clear" /\ Return(r, "ok")
      /\ hits' = [k \in Keys |-> IF k \in S THEN {} ELSE hits[k]] /\ expiring' = expiring \ S
      /\ UNCHANGED accounts /\ UNCHANGED <<trail, cmd, todo, allowed, enabled, counted, outages>>
  BY DEF ClearKeys, Delete, traces
<1> HIDE DEF S
<1>2. StoreTypes'
  BY <1>1, Before DEF StoreTypes, accounts
<1>3. outages' \in [Requests -> SUBSET {"redis", "audit"}]
  BY <1>1, Before DEF RequestTypes
<1> QED BY <1>1, <1>2, <1>3, ReturnStep

LEMMA ClearKeysFailsStep ==
    ASSUME LoginInv, Observe, policy' = policy, NEW r \in Requests,
           NEW executed \in BOOLEAN, ClearKeysFails(r, executed)
    PROVE  LoginInv'
<1>1. /\ pc[r] = "clear" /\ outages' = [outages EXCEPT ![r] = @ \cup {"redis"}]
      /\ UNCHANGED <<trail, cmd, todo, allowed, enabled, counted>> /\ StoreTypes'
  BY StoresStay, DeleteTyped, Before DEF ClearKeysFails
<1>2. /\ outages' \in [Requests -> SUBSET {"redis", "audit"}]
      /\ \A q \in Requests \ {r} : outages'[q] = outages[q]
  BY <1>1, Outage
<1>3. CASE Answer(r, "record", "ok", Unavailable)
  <2>1. Unavailable \in Recordable /\ "ok" \in Codes \ {"unauthorized"}
    BY DEF Recordable, Codes
  <2>2. /\ pc' \in [Requests -> Places] /\ pc'[r] = "record"
        /\ answer' \in [Requests -> [code : Codes, event : Recordable]]
        /\ answer'[r].code = "ok"
        /\ \A q \in Requests \ {r} : pc'[q] = pc[q] /\ answer'[q] = answer[q]
    BY <1>3, <2>1, Before, AnswerGiven DEF Places
  <2>3. todo' \in [Requests -> Seq(Keys)]
    BY <1>1, Before DEF RequestTypes
  <2> QED BY <1>1, <1>2, <2>1, <2>2, <2>3, RefuseStep
<1>4. CASE Return(r, "ok")
  BY <1>1, <1>2, <1>4, ReturnStep
<1> QED BY <1>3, <1>4 DEF ClearKeysFails

LEMMA RecordEventStep ==
    ASSUME LoginInv, Observe, policy' = policy, NEW r \in Requests, NEW stored \in BOOLEAN,
           RecordEvent(r, stored)
    PROVE  LoginInv'
<1> DEFINE e == answer[r].event
<1>1. /\ pc[r] = "record" /\ Goto(r, "done") /\ cmd[r] \in Command /\ StoreTypes'
      /\ UNCHANGED <<cmd, todo, allowed, enabled, answer, counted>>
  BY StoresStay, Before DEF RecordEvent
<1>2. /\ pc' \in [Requests -> Places] /\ pc'[r] = "done"
      /\ \A q \in Requests \ {r} : pc'[q] = pc[q]
  BY <1>1, Before, Moved DEF Places
<1>3. e \in Recordable /\ e \in LoginEvents /\ e # "authentication.login_succeeded"
  BY Before DEF RequestTypes, Recordable, LoginEvents, Unavailable
<1>4. \/ e = "none" /\ trail' = trail /\ outages' = outages
      \/ trail' = trail \cup {<<r, e>>} /\ outages' = outages
      \/ trail' = trail /\ outages' = [outages EXCEPT ![r] = @ \cup {"audit"}]
  BY DEF RecordEvent
<1>5. /\ outages' \in [Requests -> SUBSET {"redis", "audit"}] /\ outages[r] \subseteq outages'[r]
      /\ \A q \in Requests \ {r} : outages'[q] = outages[q]
      /\ \/ e = "none" /\ trail' = trail
         \/ trail' = trail \cup {<<r, e>>}
         \/ trail' = trail /\ "audit" \in outages'[r]
  <2>1. outages \in [Requests -> SUBSET {"redis", "audit"}]
    BY Before DEF RequestTypes
  <2>2. CASE outages' = outages
    BY <1>4, <2>1, <2>2, Outage
  <2>3. CASE trail' = trail /\ outages' = [outages EXCEPT ![r] = @ \cup {"audit"}]
    BY <2>3, Outage
  <2> QED BY <1>4, <2>2, <2>3
<1> HIDE DEF e
<1>6. RequestTypes'
  BY <1>1, <1>2, <1>5, Before DEF RequestTypes
<1>7. Arrived(r)' /\ Limited(r)'
  BY <1>1, <1>2 DEF Arrived, Limited, Admitted
<1>8. Traced(r)'
  <2>1. answer[r].code = "unauthorized" => KeySet(cmd[r]) \subseteq counted[r] \/ Excused(r)
    BY <1>1, Before DEF Traced
  <2>2. Excused(r) => Excused(r)'
    BY <1>5 DEF Excused
  <2>3. KeySet(cmd[r])' = KeySet(cmd[r])
    BY <1>1 DEF KeySet, IdKey, ClientKey
  <2>4. answer[r].code = "unauthorized" =>
          "audit" \in outages'[r] \/ \E event \in Failures : <<r, event>> \in trail'
    <3>1. answer[r].code = "unauthorized" =>
            e \in Failures \/ (e = "none" /\ <<r, "session.refresh_replay_detected">> \in trail)
      BY <1>1, Before DEF Traced, e
    <3>2. "session.refresh_replay_detected" \in Failures /\ "none" \notin Failures
      BY DEF Failures
    <3> QED BY <1>5, <3>1, <3>2
  <2> QED BY <1>1, <1>2, <2>1, <2>2, <2>3, <2>4 DEF Traced
<1>9. <<r, "authentication.login_succeeded">> \in trail'
         => <<r, "authentication.login_succeeded">> \in trail
  BY <1>3, <1>5
<1>10. Truthful(r)'
  BY <1>1, <1>2, <1>9, TruthStays
<1>11. trail' = trail \/ \E ev \in LoginEvents : trail' = trail \cup {<<r, ev>>}
  BY <1>3, <1>5
<1> QED BY <1>1, <1>2, <1>5, <1>6, <1>7, <1>8, <1>10, <1>11, RequestStep

LEMMA CrashStep ==
    ASSUME LoginInv, Observe, policy' = policy, NEW r \in Requests, Crash(r)
    PROVE  LoginInv'
<1>1. /\ pc[r] # "idle" /\ Goto(r, "crashed") /\ cmd[r] \in Command /\ StoreTypes'
      /\ UNCHANGED <<trail, cmd, todo, allowed, enabled, answer, counted, outages>>
  BY StoresStay, Before DEF Crash, traces
<1>2. /\ pc' \in [Requests -> Places] /\ pc'[r] = "crashed"
      /\ \A q \in Requests \ {r} : pc'[q] = pc[q]
  BY <1>1, Before, Moved DEF Places
<1>3. RequestTypes'
  BY <1>1, <1>2, Before DEF RequestTypes
<1>4. Arrived(r)' /\ Limited(r)' /\ Traced(r)'
  BY <1>1, <1>2 DEF Arrived, Limited, Admitted, Traced
<1>5. Truthful(r)'
  BY <1>1, <1>2, TruthStays
<1> QED BY <1>1, <1>2, <1>3, <1>4, <1>5, RequestStep

-----------------------------------------------------------------------------
LEMMA NextHolds == LoginInv /\ [Next]_vars => LoginInv'
<1> SUFFICES ASSUME LoginInv, [Next]_vars PROVE LoginInv'
  OBVIOUS
<1>1. CASE Next
  <2>1. Observe /\ policy' = policy
    BY <1>1 DEF Next
  <2>2. ASSUME NEW r \in Requests, Step(r) PROVE LoginInv'
    BY <2>1, <2>2, ArriveStep, CheckKeyStep, CheckKeyFailsStep, ReadUserStep,
       VerifyPasswordStep, StartSessionStep, RefreshStep, CountKeyStep, CountKeyFailsStep,
       ClearKeysStep, ClearKeysFailsStep, RecordEventStep, CrashStep DEF Step
  <2> QED BY <1>1, <2>1, <2>2, EnvironmentStep DEF Next
<1>2. CASE UNCHANGED vars
  <2> USE <1>2 DEF vars
  <2>1. LoginTypes'
    BY DEF LoginInv, LoginTypes
  <2>2. ASSUME NEW q \in Requests PROVE Fine(q)'
    <3>1. Fine(q)
      BY DEF LoginInv
    <3>2. Arrived(q)' /\ Limited(q)'
      BY <3>1 DEF Fine, Arrived, Limited, Admitted, KeysOf, KeySet, IdKey, ClientKey
    <3>3. Traced(q)' /\ Truthful(q)'
      BY <3>1 DEF Fine, Traced, Truthful, Excused, KeysOf, KeySet, IdKey, ClientKey
    <3> QED BY <3>2, <3>3 DEF Fine
  <2> QED BY <2>1, <2>2 DEF LoginInv
<1> QED BY <1>1, <1>2

(* What every request has checked, counted, recorded and read, where it    *)
(* is: the inductive invariant of the two routes.                          *)
THEOREM LoginHolds == Spec => []LoginInv
<1>1. Init => LoginInv
  BY InitHolds
<1>2. LoginInv /\ [Next]_vars => LoginInv'
  BY NextHolds
<1> QED BY <1>1, <1>2, PTL DEF Spec

(* The routes look at no password and no refresh token for a request one   *)
(* of whose counters has been at its threshold ever since it arrived,      *)
(* whatever others count, clear and let expire between its two reads.      *)
THEOREM BlockedAreRefused == Spec => []BlockedNotAdmitted
<1>1. LoginInv => BlockedNotAdmitted
  <2> SUFFICES ASSUME LoginInv, NEW r \in Requests, Admitted(r), "redis" \notin outages[r]
               PROVE  \A i \in 1 .. Len(KeysOf(cmd[r])) : KeysOf(cmd[r])[i] \notin blocked[r]
    BY DEF BlockedNotAdmitted
  <2>1. cmd[r] \in Command /\ KeySet(cmd[r]) \cap blocked[r] = {}
    BY Before DEF Limited, Admitted
  <2> QED BY <2>1, EachKey
<1> QED BY <1>1, LoginHolds, PTL

(* A failure answered 401 was counted on all keys of the request and       *)
(* recorded, unless the store that lost it may do so under the policy.     *)
THEOREM FailuresAreTraced == Spec => []FailureLeavesTraces
<1>1. LoginInv => FailureLeavesTraces
  <2> SUFFICES ASSUME LoginInv, NEW r \in Requests, pc[r] = "done",
                      answer[r].code = "unauthorized"
               PROVE  /\ \/ \A i \in 1 .. Len(KeysOf(cmd[r])) : KeysOf(cmd[r])[i] \in counted[r]
                         \/ policy = "open" /\ "redis" \in outages[r]
                      /\ \/ "audit" \in outages[r]
                         \/ \E event \in Failures : <<r, event>> \in trail
    BY DEF FailureLeavesTraces, Failures
  <2>1. cmd[r] \in Command /\ (KeySet(cmd[r]) \subseteq counted[r] \/ Excused(r))
    BY Before DEF Traced
  <2>2. "audit" \in outages[r] \/ \E event \in Failures : <<r, event>> \in trail
    BY Before DEF Traced
  <2> QED BY <2>1, <2>2, EachKey DEF Excused
<1> QED BY <1>1, LoginHolds, PTL

(* A session was started only on what was true of the user at some moment  *)
(* of the request, and so a login failed, though user and credential are   *)
(* read in two statements between which both may change.                   *)
THEOREM LoginsWereTrue == Spec => []LoginWasTrue
<1>1. LoginInv => LoginWasTrue
  BY Before DEF Truthful, LoginWasTrue
<1> QED BY <1>1, LoginHolds, PTL

-----------------------------------------------------------------------------
(* A counter with a failure in it has a TTL: the safety half of            *)
(* LockoutEnds, which leaves to fairness only that time passes.            *)
CountersExpire == \A k \in Keys : hits[k] # {} => k \in expiring

LEMMA CountersNext ==
    ASSUME StoreTypes, CountersExpire, [Next]_vars PROVE CountersExpire'
<1>1. ASSUME UNCHANGED limiter PROVE CountersExpire'
  BY <1>1 DEF limiter, CountersExpire
<1>2. ASSUME NEW j \in Keys, Expire(j) PROVE CountersExpire'
  BY <1>2 DEF Expire, CountersExpire, StoreTypes
<1>3. ASSUME NEW r \in Requests, Increment(r) PROVE CountersExpire'
  <2> DEFINE j == Head(todo[r])
  <2>1. /\ hits' = [hits EXCEPT ![j] = hits[j] \cup {r}]
        /\ expiring' = IF hits[j] = {} THEN expiring \cup {j} ELSE expiring
    BY <1>3 DEF Increment, StartWindow
  <2> HIDE DEF j
  <2>2. ASSUME NEW k \in Keys, hits'[k] # {} PROVE k \in expiring'
    BY <2>1, <2>2 DEF CountersExpire, StoreTypes
  <2> QED BY <2>2 DEF CountersExpire
<1>4. ASSUME NEW r \in Requests, Delete(r) PROVE CountersExpire'
  <2> DEFINE S == {KeysOf(cmd[r])[i] : i \in 1 .. Len(KeysOf(cmd[r]))}
  <2>1. /\ hits' = [k \in Keys |-> IF k \in S THEN {} ELSE hits[k]]
        /\ expiring' = expiring \ S
    BY <1>4 DEF Delete
  <2> HIDE DEF S
  <2> QED BY <2>1 DEF CountersExpire
<1>5. ASSUME NEW r \in Requests, Step(r) PROVE CountersExpire'
  <2>1. UNCHANGED limiter \/ Increment(r) \/ Delete(r)
    BY <1>5 DEF Step, Arrive, CheckKey, CheckKeyFails, ReadUser, VerifyPassword,
       StartSession, Refresh, CountKey, CountKeyFails, ClearKeys, ClearKeysFails,
       RecordEvent, Crash
  <2> QED BY <2>1, <1>1, <1>3, <1>4
<1>6. CASE UNCHANGED vars
  BY <1>1, <1>6 DEF vars, limiter
<1>7. CASE Next
  <2>1. \/ UNCHANGED limiter
        \/ \E k \in Keys : Expire(k)
        \/ \E r \in Requests : Step(r)
    BY <1>7 DEF Next, ToggleUser, SetPassword
  <2> QED BY <2>1, <1>1, <1>2, <1>5
<1> QED BY <1>6, <1>7

(* No counter of the limiter stays for ever: the script that counts a      *)
(* failure sends EXPIRE with the first one of a window, and a counter that *)
(* is dropped or cleared is empty.                                         *)
THEOREM EveryCounterExpires == Spec => []CountersExpire
<1>1. Init => CountersExpire
  BY DEF Init, CountersExpire
<1>2. LoginInv => StoreTypes
  BY Types DEF LoginInv
<1>3. StoreTypes /\ CountersExpire /\ [Next]_vars => CountersExpire'
  BY CountersNext
<1> QED BY <1>1, <1>2, <1>3, LoginHolds, PTL DEF Spec
=============================================================================
