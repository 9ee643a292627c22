---------------------------- MODULE ContentStore ----------------------------
(***************************************************************************)
(* What the clients of a content-addressed store are promised, whatever    *)
(* transactions, copies, retries and crashes it is made of: a content is   *)
(* registered once; only the request that registered it settles it, and    *)
(* says so in its answer; whoever else is answered with a content is       *)
(* answered with a registered one.  Answers are final.                     *)
(*                                                                         *)
(* A content whose request was lost stays pending.  To later uploads it is *)
(* a duplicate like any other, and so is one that could not be stored.     *)
(***************************************************************************)
CONSTANTS
    Requests,
    Contents,
    None

VARIABLES
    sent,       \* the content a request uploads
    content,    \* how a content stands
    storing,    \* requests that have registered a content, and not settled it
    verdict     \* what a request was told, and the content it was given

storeVars == <<sent, content, storing, verdict>>

Init ==
    /\ sent \in [Requests -> Contents]
    /\ content = [c \in Contents |-> "none"]
    /\ storing = {}
    /\ verdict = [r \in Requests |-> [code |-> "none", doc |-> None]]

Tell(r, code, c) ==
    /\ verdict[r].code = "none"
    /\ verdict' = [verdict EXCEPT ![r] = [code |-> code, doc |-> c]]
    /\ UNCHANGED sent

Register(r) ==
    /\ r \notin storing /\ verdict[r].code = "none"
    /\ content[sent[r]] = "none"
    /\ content' = [content EXCEPT ![sent[r]] = "pending"]
    /\ storing' = storing \cup {r}
    /\ UNCHANGED <<sent, verdict>>

Settle(r, state) ==
    /\ r \in storing
    /\ content[sent[r]] = "pending"
    /\ content' = [content EXCEPT ![sent[r]] = state]
    /\ storing' = storing \ {r}

Create(r) == Settle(r, "stored") /\ Tell(r, "created", sent[r])

Lose(r) == Settle(r, "failed") /\ Tell(r, "unavailable", None)

(* The request is lost with its process.                                   *)
Abandon(r) ==
    /\ r \in storing
    /\ storing' = storing \ {r}
    /\ UNCHANGED <<sent, content, verdict>>

(* A request that has registered nothing is answered.                      *)
Answer(r, code, c) ==
    /\ r \notin storing
    /\ Tell(r, code, c)
    /\ UNCHANGED <<content, storing>>

Duplicate(r) == content[sent[r]] # "none" /\ Answer(r, "duplicate", sent[r])

(* An earlier answer is repeated.                                          *)
Replay(r, c) == content[c] # "none" /\ Answer(r, "replay", c)

Refuse(r, code) == Answer(r, code, None)

Next ==
    \E r \in Requests :
        \/ Register(r)
        \/ Create(r)
        \/ Lose(r)
        \/ Abandon(r)
        \/ Duplicate(r)
        \/ \E c \in Contents : Replay(r, c)
        \/ \E code \in {"in_progress", "conflict", "invalid", "unavailable", "error"} :
              Refuse(r, code)

Spec == Init /\ [][Next]_storeVars
=============================================================================
