--------------------------- MODULE RotatingTokens ---------------------------
(***************************************************************************)
(* What the holders of refresh tokens are promised, whatever statements,   *)
(* locks and transactions it is made of: a session has one token that may  *)
(* be exchanged, an exchange is one step and replaces it, and every answer *)
(* is justified by the tokens and sessions at the moment it is given.      *)
(*                                                                         *)
(* A request may still exchange a token of a session that has ended since  *)
(* the request arrived, and never one that had ended before.               *)
(***************************************************************************)
EXTENDS Naturals

CONSTANTS
    Requests,   \* refreshes and logouts
    Sessions

VARIABLES
    live,       \* tokens that were never exchanged: session and generation
    spent,      \* tokens that were
    over,       \* sessions that were revoked or have expired
    at,         \* the sessions begun and over when a running request arrived
    verdict     \* what a request was told, and of which token

tokenVars == <<live, spent, over, at, verdict>>

Begun == {s \in Sessions : \E t \in live \cup spent : t[1] = s}

Away == [here |-> FALSE, begun |-> {}, over |-> {}]

NoVerdict == [code |-> "none", token |-> <<>>]

Init ==
    /\ live = {} /\ spent = {} /\ over = {}
    /\ at = [r \in Requests |-> Away]
    /\ verdict = [r \in Requests |-> NoVerdict]

Begin(s) ==
    /\ s \notin Begun
    /\ live' = live \cup {<<s, 0>>}
    /\ UNCHANGED <<spent, over, at, verdict>>

Expire(s) ==
    /\ over' = over \cup {s}
    /\ UNCHANGED <<live, spent, at, verdict>>

Arrive(r) ==
    /\ ~at[r].here /\ verdict[r] = NoVerdict
    /\ at' = [at EXCEPT ![r] = [here |-> TRUE, begun |-> Begun, over |-> over]]
    /\ UNCHANGED <<live, spent, over, verdict>>

Tell(r, code, t) ==
    /\ verdict[r] = NoVerdict
    /\ verdict' = [verdict EXCEPT ![r] = [code |-> code, token |-> t]]
    /\ at' = [at EXCEPT ![r] = Away]

Exchange(r, t) ==
    /\ at[r].here /\ t[1] \notin at[r].over
    /\ t \in live
    /\ live' = (live \ {t}) \cup {<<t[1], t[2] + 1>>}
    /\ spent' = spent \cup {t}
    /\ Tell(r, "rotated", t)
    /\ UNCHANGED over

(* A spent token is presented again: its session ends.                     *)
Replay(r, t) ==
    /\ t \in spent
    /\ over' = over \cup {t[1]}
    /\ Tell(r, "replay", t)
    /\ UNCHANGED <<live, spent>>

Refuse(r, t) ==
    /\ t \in spent \/ t[1] \in over
    /\ Tell(r, "refused", t)
    /\ UNCHANGED <<live, spent, over>>

LogOut(r, t) ==
    /\ over' = over \cup {t[1]}
    /\ Tell(r, "logged_out", t)
    /\ UNCHANGED <<live, spent>>

LogOutAll(r, t, S) ==
    /\ at[r].here /\ at[r].begun \subseteq over \cup S
    /\ over' = over \cup S
    /\ Tell(r, "logged_out_all", t)
    /\ UNCHANGED <<live, spent>>

(* The transaction was aborted.                                            *)
Fail(r, t) ==
    /\ Tell(r, "failed", t)
    /\ UNCHANGED <<live, spent, over>>

Next ==
    \/ \E s \in Sessions : Begin(s) \/ Expire(s)
    \/ \E r \in Requests :
        \/ Arrive(r)
        \/ \E t \in live : Exchange(r, t)
        \/ \E t \in spent : Replay(r, t)
        \/ \E t \in live \cup spent : Refuse(r, t)
        \/ \E s \in Sessions : LogOut(r, <<s, 0>>)
        \/ \E s \in Sessions, S \in SUBSET Sessions : LogOutAll(r, <<s, 0>>, S)
        \/ \E t \in live \cup spent : Fail(r, t)

Spec == Init /\ [][Next]_tokenVars
=============================================================================
