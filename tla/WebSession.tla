----------------------------- MODULE WebSession -----------------------------
(***************************************************************************)
(* The session of the web application: AuthProvider                        *)
(* (apps/web/src/features/auth/auth-context.tsx) over the API client       *)
(* (apps/web/src/lib/api-client.ts), in one browser tab.                   *)
(*                                                                         *)
(* JavaScript runs to completion: an answer from the network or an action  *)
(* of the user starts only when no continuation is left to run (Quiet).    *)
(* The API is external: it may answer every call with success, 401 or      *)
(* another failure, in any order; the client's own timeout is a failure.   *)
(* Of an access token it only matters whether one is held.  localStorage   *)
(* merely prefers one of the organizations a load may choose, and every    *)
(* choice is taken, so it is left out.                                     *)
(***************************************************************************)
EXTENDS Naturals

CONSTANTS
    Tasks,     \* calls of login, logout, selectOrganization and of pages
    Mount,     \* the task of restoreSession, run once when the tab opens
    Orgs,      \* organizations
    Promises,  \* refresh promises; as many as there are tasks are enough
    None

ASSUME WebSessionAssumption ==
    Mount \in Tasks /\ Promises # {} /\ None \notin Orgs \cup Promises

VARIABLES
    token,        \* accessTokenRef: whether an access token is held
    generation,   \* generationRef
    promise,      \* refreshPromiseRef
    view,         \* the React state: status, selection and tenant context
    refreshes,    \* by promise, whether its refresh is under way, and since
                  \* which generation; late: since before a sign out
    task,         \* the running callbacks of AuthProvider and the pages
    req           \* their requests; loadSession makes two at once

vars == <<token, generation, promise, view, refreshes, task, req>>

Statuses == {"initializing", "anonymous", "authenticated", "authenticating", "error"}
Answers == {"ok", "unauthorized", "failed"}
Slots == {1, 2}

View(status, selected, context) ==
    [status |-> status, selected |-> selected, context |-> context]

anonymousState == View("anonymous", None, None)

(* on: the refresh a request or restoreSession waits for.                  *)
Request == [state : {"none", "sent", "refreshing"} \cup Answers,
            retried : BOOLEAN, on : Promises \cup {None}]
Task == [at : {"idle", "restore", "login", "load", "context", "select",
               "logout", "page", "done"},
         kind : {"none", "restore", "login"}, generation : Nat,
         token : BOOLEAN, org : Orgs \cup {None}, on : Promises \cup {None}]

Unsent == [state |-> "none", retried |-> FALSE, on |-> None]
Sent == [Unsent EXCEPT !.state = "sent"]
Idle == [at |-> "idle", kind |-> "none", generation |-> 0, token |-> FALSE,
         org |-> None, on |-> None]
NoRefresh == [pending |-> FALSE, generation |-> 0, late |-> FALSE]

Settled(t, i) == req[t][i].state \in Answers
Ok(t, i) == req[t][i].state = "ok"
Bad(t) == \E i \in Slots : req[t][i].state \in {"unauthorized", "failed"}

(* What a running callback waits for has arrived.                          *)
Ready(t) ==
    \/ task[t].at = "restore" /\ task[t].on = None
    \/ task[t].at = "load" /\ (Bad(t) \/ \A i \in Slots : Ok(t, i))
    \/ task[t].at \in {"login", "context", "select", "logout", "page"} /\ Settled(t, 1)

Quiet == \A t \in Tasks : ~Ready(t)

(* The callback ends; a request it no longer waits for goes on.            *)
Done(t) ==
    /\ task' = [task EXCEPT ![t] = [Idle EXCEPT !.at = "done"]]
    /\ req' = [req EXCEPT ![t] = [i \in Slots |-> IF Settled(t, i) THEN Unsent ELSE @[i]]]

Send(t, slots) ==
    req' = [req EXCEPT ![t] = [i \in Slots |-> IF i \in slots THEN Sent ELSE @[i]]]

-----------------------------------------------------------------------------
(* refresh                                                                 *)

NewPromise == CHOOSE p \in Promises : ~refreshes[p].pending

Asked == [NoRefresh EXCEPT !.pending = TRUE, !.generation = generation]

(* refresh(): the refresh under way, or a new call, whose promise is kept. *)
Refresh(p) ==
    IF promise # None
    THEN p = promise /\ UNCHANGED <<refreshes, promise>>
    ELSE /\ p = NewPromise /\ ~refreshes[p].pending
         /\ refreshes' = [refreshes EXCEPT ![p] = Asked]
         /\ promise' = p

(* Fault: the generation a refresh was asked for in is not compared.       *)
Fault_CurrentAlways(p) == TRUE

(* Nobody has signed in or out or switched organization since the call.    *)
CurrentRefresh(p) == refreshes[p].generation = generation

(* Fault: a refresh that settles clears whatever promise is kept.          *)
Fault_ForgetAny(p) == promise' = None

(* .finally                                                                *)
Forget(p) == promise' = IF promise = p THEN None ELSE promise

(* Fault: the callers of an outdated refresh are never called back.        *)
Fault_WakeCurrent(p, got) ==
    /\ req' = [t \in Tasks |-> [i \in Slots |->
                 IF req[t][i].on # p \/ ~CurrentRefresh(p) THEN req[t][i]
                 ELSE IF got THEN [Sent EXCEPT !.retried = TRUE]
                 ELSE [Unsent EXCEPT !.state = "unauthorized"]]]
    /\ task' = [t \in Tasks |-> IF task[t].on = p
                                THEN [task[t] EXCEPT !.on = None, !.token = got]
                                ELSE task[t]]

(* The promise resolves with a token or with null: requests that wait for  *)
(* it are sent again or fail with the 401 they were answered before, and   *)
(* restoreSession goes on.                                                 *)
Wake(p, got) ==
    /\ req' = [t \in Tasks |-> [i \in Slots |->
                 IF req[t][i].on # p THEN req[t][i]
                 ELSE IF got THEN [Sent EXCEPT !.retried = TRUE]
                 ELSE [Unsent EXCEPT !.state = "unauthorized"]]]
    /\ task' = [t \in Tasks |-> IF task[t].on = p
                                THEN [task[t] EXCEPT !.on = None, !.token = got]
                                ELSE task[t]]

(* The API answers a refresh with a new access token.                      *)
RefreshSucceeds(p) ==
    /\ Quiet /\ refreshes[p].pending
    /\ refreshes' = [refreshes EXCEPT ![p] = NoRefresh]
    /\ token' = (token \/ CurrentRefresh(p))
    /\ Forget(p)
    /\ Wake(p, CurrentRefresh(p))
    /\ UNCHANGED <<generation, view>>

(* It answers 401 or csrf_failed, or fails otherwise.                      *)
RefreshFails(p) ==
    /\ Quiet /\ refreshes[p].pending
    /\ refreshes' = [refreshes EXCEPT ![p] = NoRefresh]
    /\ IF CurrentRefresh(p)
       THEN token' = FALSE /\ view' \in {anonymousState, [view EXCEPT !.status = "error"]}
       ELSE UNCHANGED <<token, view>>
    /\ Forget(p)
    /\ Wake(p, FALSE)
    /\ UNCHANGED <<generation>>

-----------------------------------------------------------------------------
(* ApiClient.requestWithAuthRetry                                          *)

(* login is not an authenticated call, and the logouts opt out.            *)
Retryable(t, i) == task[t].at \notin {"login", "logout"} /\ ~req[t][i].retried

(* A request is answered.  A first 401 waits for a refresh instead.        *)
Respond(t, i) ==
    /\ Quiet /\ req[t][i].state = "sent"
    /\ \/ /\ \E a \in Answers :
               /\ a = "unauthorized" => ~Retryable(t, i)
               /\ req' = [req EXCEPT ![t][i] = [Unsent EXCEPT !.state = a]]
          /\ UNCHANGED <<refreshes, promise>>
       \/ /\ Retryable(t, i)
          /\ \E p \in Promises :
               /\ Refresh(p)
               /\ req' = [req EXCEPT ![t][i].state = "refreshing", ![t][i].on = p]
    /\ UNCHANGED <<token, generation, view, task>>

-----------------------------------------------------------------------------
(* loadSession                                                             *)

(* getCurrentUser and listUserOrganizations under way.                     *)
BeginLoad(t, gen) ==
    /\ token' = TRUE
    /\ task' = [task EXCEPT ![t].at = "load", ![t].generation = gen]
    /\ Send(t, Slots)

Outdated(t) == task[t].generation # generation

(* Both answers are there.  The organization stored by an earlier          *)
(* selection, or the first of the list, or none when the list is empty.    *)
Loaded(t) ==
    /\ task[t].at = "load" /\ \A i \in Slots : Ok(t, i)
    /\ IF Outdated(t)
       THEN Done(t) /\ UNCHANGED <<token, view>>
       ELSE \E o \in Orgs \cup {None} :
              IF o = None
              THEN /\ token' = TRUE
                   /\ view' = View("authenticated", None, None)
                   /\ Done(t)
              ELSE /\ task' = [task EXCEPT ![t].at = "context", ![t].org = o]
                   /\ Send(t, {1})
                   /\ UNCHANGED <<token, view>>
    /\ UNCHANGED <<generation, promise, refreshes>>

(* The tenant context has arrived, perhaps of another organization.        *)
ContextLoaded(t) ==
    /\ task[t].at = "context" /\ Ok(t, 1)
    /\ Done(t)
    /\ \/ Outdated(t) /\ UNCHANGED <<token, view>>
       \/ /\ ~Outdated(t)
          /\ token' = TRUE
          /\ view' = View("authenticated", task[t].org, task[t].org)
       \/ /\ ~Outdated(t)
          /\ token' = FALSE
          /\ view' = [anonymousState EXCEPT !.status = "error"]
    /\ UNCHANGED <<generation, promise, refreshes>>

(* A request of loadSession has failed: the catch of restoreSession or of  *)
(* login, whatever has happened since.                                     *)
LoadFails(t) ==
    /\ \/ task[t].at = "load" /\ Bad(t)
       \/ task[t].at = "context" /\ Settled(t, 1) /\ ~Ok(t, 1)
    /\ token' = FALSE
    /\ view' = [anonymousState EXCEPT !.status =
                  IF task[t].kind = "restore" /\ \E i \in Slots : req[t][i].state = "failed"
                  THEN "error" ELSE "anonymous"]
    /\ Done(t)
    /\ UNCHANGED <<generation, promise, refreshes>>

-----------------------------------------------------------------------------
(* restoreSession, after its refresh.                                      *)
Restore(t) ==
    /\ task[t].at = "restore" /\ task[t].on = None
    /\ IF task[t].token
       THEN BeginLoad(t, generation) /\ UNCHANGED view
       ELSE token' = FALSE /\ view' = anonymousState /\ Done(t)
    /\ UNCHANGED <<generation, promise, refreshes>>

(* login; the form is shown to whoever is not signed in.                   *)
Login(t) ==
    /\ Quiet /\ task[t].at = "idle"
    /\ view.status \notin {"authenticated", "authenticating"}
    /\ view' = [view EXCEPT !.status = "authenticating"]
    /\ task' = [task EXCEPT ![t].at = "login", ![t].kind = "login"]
    /\ Send(t, {1})
    /\ UNCHANGED <<token, generation, promise, refreshes>>

LoggedIn(t) ==
    /\ task[t].at = "login" /\ Settled(t, 1)
    /\ IF Ok(t, 1)
       THEN /\ generation' = generation + 1
            /\ promise' = None
            /\ BeginLoad(t, generation + 1)
            /\ UNCHANGED view
       ELSE /\ token' = FALSE
            /\ view' = anonymousState
            /\ Done(t)
            /\ UNCHANGED <<generation, promise>>
    /\ UNCHANGED <<refreshes>>

(* selectOrganization                                                      *)
SelectOrganization(t, o) ==
    /\ Quiet /\ task[t].at = "idle" /\ view.status = "authenticated"
    /\ generation' = generation + 1
    /\ promise' = None
    /\ view' = [view EXCEPT !.selected = o, !.context = None]
    /\ task' = [task EXCEPT ![t].at = "select", ![t].org = o]
    /\ Send(t, {1})
    /\ UNCHANGED <<token, refreshes>>

(* Fault: the organization of the tenant context is not compared.          *)
Fault_SelectedAny(t) ==
    /\ task[t].at = "select" /\ Settled(t, 1)
    /\ \/ /\ Ok(t, 1)
          /\ \E o \in Orgs : view' = View("authenticated", task[t].org, o)
       \/ /\ ~Ok(t, 1)
          /\ view' = View(view.status, None, None)
    /\ Done(t)
    /\ UNCHANGED <<token, generation, promise, refreshes>>

(* The tenant context has arrived, or is of another organization, or the   *)
(* request has failed.  The generation is not looked at.                   *)
Selected(t) ==
    /\ task[t].at = "select" /\ Settled(t, 1)
    /\ \/ Ok(t, 1) /\ view' = View("authenticated", task[t].org, task[t].org)
       \/ view' = View(view.status, None, None)
    /\ Done(t)
    /\ UNCHANGED <<token, generation, promise, refreshes>>

(* logout and logoutAll                                                    *)
Logout(t) ==
    /\ Quiet /\ task[t].at = "idle" /\ view.status = "authenticated"
    /\ task' = [task EXCEPT ![t].at = "logout"]
    /\ Send(t, {1})
    /\ UNCHANGED <<token, generation, promise, view, refreshes>>

(* clearSession, whatever the API has answered.                            *)
LoggedOut(t) ==
    /\ task[t].at = "logout" /\ Settled(t, 1)
    /\ generation' = generation + 1
    /\ token' = FALSE /\ promise' = None
    /\ view' = anonymousState
    /\ Done(t)
    /\ refreshes' = [p \in Promises |-> [refreshes[p] EXCEPT !.late = @ \/ refreshes[p].pending]]

(* A page makes an authenticated request, and has its answer.              *)
PageRequest(t) ==
    /\ Quiet /\ task[t].at = "idle" /\ view.status = "authenticated"
    /\ task' = [task EXCEPT ![t].at = "page"]
    /\ Send(t, {1})
    /\ UNCHANGED <<token, generation, promise, view, refreshes>>

PageAnswered(t) ==
    /\ task[t].at = "page" /\ Settled(t, 1)
    /\ Done(t)
    /\ UNCHANGED <<token, generation, promise, view, refreshes>>

-----------------------------------------------------------------------------
(* The tab opens: restoreSession calls refresh.                            *)
Init ==
    /\ token = FALSE /\ generation = 0
    /\ view = [anonymousState EXCEPT !.status = "initializing"]
    /\ promise = (CHOOSE p \in Promises : TRUE)
    /\ refreshes = [p \in Promises |->
                      IF p = promise THEN [NoRefresh EXCEPT !.pending = TRUE] ELSE NoRefresh]
    /\ task = [t \in Tasks |->
                 IF t = Mount
                 THEN [Idle EXCEPT !.at = "restore", !.kind = "restore", !.on = promise]
                 ELSE Idle]
    /\ req = [t \in Tasks |-> [i \in Slots |-> Unsent]]

Continue(t) ==
    \/ Restore(t) \/ LoggedIn(t) \/ Loaded(t) \/ ContextLoaded(t) \/ LoadFails(t)
    \/ Selected(t) \/ LoggedOut(t) \/ PageAnswered(t)

Settle(p) == RefreshSucceeds(p) \/ RefreshFails(p)

Next ==
    \/ \E t \in Tasks : Login(t) \/ Logout(t) \/ PageRequest(t)
    \/ \E t \in Tasks, o \in Orgs : SelectOrganization(t, o)
    \/ \E t \in Tasks : Continue(t)
    \/ \E t \in Tasks, i \in Slots : Respond(t, i)
    \/ \E p \in Promises : Settle(p)

Spec == Init /\ [][Next]_vars

-----------------------------------------------------------------------------
(* Properties.                                                             *)

(* Every reference, the view and every callback hold values of their kind. *)
TypeOK ==
    /\ token \in BOOLEAN
    /\ generation \in Nat
    /\ promise \in Promises \cup {None}
    /\ view \in [status : Statuses, selected : Orgs \cup {None}, context : Orgs \cup {None}]
    /\ refreshes \in [Promises -> [pending : BOOLEAN, generation : Nat, late : BOOLEAN]]
    /\ task \in [Tasks -> Task]
    /\ req \in [Tasks -> [Slots -> Request]]

(* The permissions on the screen are those of the organization shown as    *)
(* selected, however the answers of selections and loads overtake.         *)
PermissionsOfSelection ==
    view.context # None => view.context = view.selected

(* A refresh that was asked for in the current generation is the one every *)
(* later caller joins: no two of them are under way.                       *)
SharedRefresh ==
    \A p \in Promises :
        refreshes[p].pending /\ refreshes[p].generation = generation => promise = p

(* A refresh that was under way when the session was cleared brings no     *)
(* access token back and changes nothing on the screen when it settles.    *)
LateRefreshIgnored ==
    [][\A p \in Promises : refreshes[p].late /\ ~refreshes'[p].late
          => token' = token /\ view' = view]_vars

(* Whoever waits for a refresh waits for one that is under way, so that    *)
(* its end, or the timeout of the client, will call him back.              *)
WaitersAreServed ==
    /\ \A t \in Tasks, i \in Slots : req[t][i].on # None => refreshes[req[t][i].on].pending
    /\ \A t \in Tasks : task[t].on # None => refreshes[task[t].on].pending
=============================================================================
