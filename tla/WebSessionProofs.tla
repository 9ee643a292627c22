-------------------------- MODULE WebSessionProofs --------------------------
(***************************************************************************)
(* What WebSession keeps for any number of tasks, organizations and        *)
(* promises.  SharedRefresh is not inductive: that a new generation has no *)
(* refresh under way needs to know that no refresh is ahead of the         *)
(* generation, and that a kept promise is under way (Past).                *)
(***************************************************************************)
EXTENDS WebSession, TLAPS

USE WebSessionAssumption

(* No refresh comes from a later generation than the current one, one that *)
(* is late is of an earlier one, and the kept promise is under way.        *)
Past ==
    /\ \A p \in Promises :
         /\ refreshes[p].pending => refreshes[p].generation <= generation
         /\ refreshes[p].late => refreshes[p].pending /\ refreshes[p].generation < generation
    /\ promise # None => refreshes[promise].pending

WebInv ==
    TypeOK /\ PermissionsOfSelection /\ SharedRefresh /\ WaitersAreServed /\ Past

-----------------------------------------------------------------------------
(* The records the model is built from have their types.                   *)
LEMMA RecordTypes ==
    /\ Unsent \in Request /\ Sent \in Request
    /\ [Sent EXCEPT !.retried = TRUE] \in Request
    /\ \A a \in Answers : [Unsent EXCEPT !.state = a] \in Request
    /\ Idle \in Task /\ [Idle EXCEPT !.at = "done"] \in Task
    /\ NoRefresh \in [pending : BOOLEAN, generation : Nat, late : BOOLEAN]
BY DEF Unsent, Sent, Request, Answers, Idle, Task, NoRefresh

(* Ending a callback and sending requests leave well-typed tables in which *)
(* nobody waits who did not wait before.                                   *)
LEMMA DoneIsTyped ==
    ASSUME TypeOK, NEW t \in Tasks, Done(t)
    PROVE  /\ task' \in [Tasks -> Task] /\ req' \in [Tasks -> [Slots -> Request]]
           /\ \A u \in Tasks : task'[u].on \in {task[u].on, None}
           /\ \A u \in Tasks, i \in Slots : req'[u][i].on \in {req[u][i].on, None}
<1>1. task' \in [Tasks -> Task]
  BY RecordTypes DEF TypeOK, Done
<1>2. req' \in [Tasks -> [Slots -> Request]]
  BY RecordTypes DEF TypeOK, Done
<1>3. \A u \in Tasks : task'[u].on \in {task[u].on, None}
  BY DEF TypeOK, Done, Idle, Task
<1>4. \A u \in Tasks, i \in Slots : req'[u][i].on \in {req[u][i].on, None}
  BY DEF TypeOK, Done, Unsent, Request
<1> QED BY <1>1, <1>2, <1>3, <1>4

LEMMA SendIsTyped ==
    ASSUME TypeOK, NEW t \in Tasks, NEW S \in SUBSET Slots, Send(t, S)
    PROVE  /\ req' \in [Tasks -> [Slots -> Request]]
           /\ \A u \in Tasks, i \in Slots : req'[u][i].on \in {req[u][i].on, None}
<1>1. req' \in [Tasks -> [Slots -> Request]]
  BY RecordTypes DEF TypeOK, Send
<1>2. \A u \in Tasks, i \in Slots : req'[u][i].on \in {req[u][i].on, None}
  BY DEF TypeOK, Send, Sent, Unsent, Request
<1> QED BY <1>1, <1>2

(* Waking the callers of a promise leaves none of them waiting for it.     *)
LEMMA WakeIsTyped ==
    ASSUME TypeOK, NEW p \in Promises, NEW got \in BOOLEAN, Wake(p, got)
    PROVE  /\ task' \in [Tasks -> Task] /\ req' \in [Tasks -> [Slots -> Request]]
           /\ \A u \in Tasks : task'[u].on \in {task[u].on, None} \ {p}
           /\ \A u \in Tasks, i \in Slots : req'[u][i].on \in {req[u][i].on, None} \ {p}
<1>1. task' \in [Tasks -> Task]
  <2> SUFFICES ASSUME NEW u \in Tasks
               PROVE  (IF task[u].on = p THEN [task[u] EXCEPT !.on = None, !.token = got]
                       ELSE task[u]) \in Task
    BY DEF Wake
  <2> task[u] \in Task
    BY DEF TypeOK
  <2> QED BY DEF Task
<1>2. req' \in [Tasks -> [Slots -> Request]]
  <2>1. "unauthorized" \in Answers
    BY DEF Answers
  <2>2. \A u \in Tasks, i \in Slots : req[u][i] \in Request
    BY DEF TypeOK
  <2> QED BY <2>1, <2>2, RecordTypes DEF Wake
<1>3. \A u \in Tasks : task'[u].on \in {task[u].on, None} \ {p}
  BY DEF TypeOK, Wake, Task
<1>4. \A u \in Tasks, i \in Slots : req'[u][i].on \in {req[u][i].on, None} \ {p}
  BY DEF TypeOK, Wake, Sent, Unsent, Request
<1> QED BY <1>1, <1>2, <1>3, <1>4

(* Asking for a refresh yields one that is under way, and the only one of  *)
(* its generation.                                                         *)
LEMMA RefreshIsShared ==
    ASSUME WebInv, NEW p \in Promises, Refresh(p), generation' = generation
    PROVE  /\ refreshes' \in [Promises -> [pending : BOOLEAN, generation : Nat, late : BOOLEAN]]
           /\ promise' \in Promises \cup {None}
           /\ refreshes'[p].pending
           /\ \A q \in Promises : refreshes[q].pending => refreshes'[q].pending
           /\ SharedRefresh' /\ Past'
<1>1. CASE promise # None
  <2> p = promise /\ refreshes' = refreshes /\ promise' = promise
    BY <1>1 DEF Refresh
  <2> QED BY DEF WebInv, TypeOK, SharedRefresh, Past
<1>2. CASE promise = None
  <2>1. /\ ~refreshes[p].pending
        /\ refreshes' = [refreshes EXCEPT ![p] = Asked]
        /\ promise' = p
    BY <1>2 DEF Refresh
  <2>2. /\ Asked \in [pending : BOOLEAN, generation : Nat, late : BOOLEAN]
        /\ Asked.pending /\ Asked.generation = generation /\ ~Asked.late
    BY DEF WebInv, TypeOK, Asked, NoRefresh
  <2>3. refreshes'[p] = Asked /\ \A q \in Promises \ {p} : refreshes'[q] = refreshes[q]
    BY <2>1 DEF WebInv, TypeOK
  <2>4. \A q \in Promises : refreshes[q].pending => refreshes[q].generation # generation
    BY <1>2 DEF WebInv, SharedRefresh
  <2>5. SharedRefresh'
    BY <2>1, <2>3, <2>4 DEF SharedRefresh
  <2>6. Past'
    BY <2>1, <2>2, <2>3 DEF WebInv, TypeOK, Past
  <2> QED BY <2>1, <2>2, <2>3, <2>5, <2>6 DEF WebInv, TypeOK
<1> QED BY <1>1, <1>2

(* Nobody is left waiting when the refreshes under way stay so and nobody  *)
(* begins to wait.                                                         *)
LEMMA NobodyForgotten ==
    ASSUME WaitersAreServed, TypeOK,
           \A p \in Promises : refreshes[p].pending => refreshes'[p].pending,
           \A u \in Tasks : task'[u].on \in {task[u].on, None},
           \A u \in Tasks, i \in Slots : req'[u][i].on \in {req[u][i].on, None}
    PROVE  WaitersAreServed'
BY DEF WaitersAreServed, TypeOK, Task, Request

(* The promise of a refresh settles.                                       *)
LEMMA SettleKeeps ==
    ASSUME WebInv, NEW p \in Promises, NEW got \in BOOLEAN,
           refreshes[p].pending, refreshes' = [refreshes EXCEPT ![p] = NoRefresh],
           Forget(p), Wake(p, got), generation' = generation
    PROVE  /\ refreshes' \in [Promises -> [pending : BOOLEAN, generation : Nat, late : BOOLEAN]]
           /\ promise' \in Promises \cup {None}
           /\ task' \in [Tasks -> Task] /\ req' \in [Tasks -> [Slots -> Request]]
           /\ SharedRefresh' /\ Past' /\ WaitersAreServed'
<1> TypeOK
  BY DEF WebInv
<1>1. /\ task' \in [Tasks -> Task] /\ req' \in [Tasks -> [Slots -> Request]]
      /\ \A u \in Tasks : task'[u].on \in {task[u].on, None} \ {p}
      /\ \A u \in Tasks, i \in Slots : req'[u][i].on \in {req[u][i].on, None} \ {p}
  BY WakeIsTyped
<1>2. refreshes' \in [Promises -> [pending : BOOLEAN, generation : Nat, late : BOOLEAN]]
  BY RecordTypes DEF TypeOK
<1>3. /\ ~refreshes'[p].pending /\ ~refreshes'[p].late
      /\ \A q \in Promises \ {p} : refreshes'[q] = refreshes[q]
  BY DEF TypeOK, NoRefresh
<1>4. promise' = IF promise = p THEN None ELSE promise
  BY DEF Forget
<1>5. promise' \in Promises \cup {None}
  BY <1>4 DEF TypeOK
<1>6. SharedRefresh'
  BY <1>3, <1>4 DEF WebInv, SharedRefresh
<1>7. Past'
  BY <1>3, <1>4 DEF WebInv, TypeOK, Past
<1>8. WaitersAreServed'
  <2>1. \A u \in Tasks : task'[u].on # None => refreshes'[task'[u].on].pending
    BY <1>1, <1>3 DEF WebInv, TypeOK, WaitersAreServed, Task
  <2>2. \A u \in Tasks, i \in Slots : req'[u][i].on # None => refreshes'[req'[u][i].on].pending
    BY <1>1, <1>3 DEF WebInv, TypeOK, WaitersAreServed, Request
  <2> QED BY <2>1, <2>2 DEF WaitersAreServed
<1> QED BY <1>1, <1>2, <1>5, <1>6, <1>7, <1>8

(* A step that raises the generation and drops the promise leaves every    *)
(* refresh under way in the past.                                          *)
LEMMA NewGeneration ==
    ASSUME WebInv, generation' = generation + 1, promise' = None,
           \A p \in Promises :
              /\ refreshes'[p].pending = refreshes[p].pending
              /\ refreshes'[p].generation = refreshes[p].generation
              /\ refreshes'[p].late => refreshes[p].late \/ refreshes[p].pending
    PROVE  SharedRefresh' /\ Past'
<1>1. \A p \in Promises : refreshes[p].generation \in Nat
  BY DEF WebInv, TypeOK
<1>2. generation \in Nat
  BY DEF WebInv, TypeOK
<1> QED BY <1>1, <1>2 DEF WebInv, SharedRefresh, Past

(* A step that leaves the refreshes alone.                                 *)
LEMMA SameGeneration ==
    ASSUME WebInv, UNCHANGED <<generation, promise, refreshes>>
    PROVE  SharedRefresh' /\ Past'
BY DEF WebInv, SharedRefresh, Past

(* What a view may be.                                                     *)
LEMMA ViewTypes ==
    /\ \A s \in Statuses, o, c \in Orgs \cup {None} :
          /\ View(s, o, c) \in [status : Statuses, selected : Orgs \cup {None}, context : Orgs \cup {None}]
          /\ View(s, o, c).status = s /\ View(s, o, c).selected = o /\ View(s, o, c).context = c
    /\ anonymousState = View("anonymous", None, None)
    /\ \A s \in Statuses : [anonymousState EXCEPT !.status = s] = View(s, None, None)
BY DEF View, anonymousState, Statuses

GoodView(v) ==
    /\ v \in [status : Statuses, selected : Orgs \cup {None}, context : Orgs \cup {None}]
    /\ v.context # None => v.context = v.selected

(* The tables of callbacks and requests are typed and nobody new waits.    *)
GoodTables ==
    /\ task' \in [Tasks -> Task] /\ req' \in [Tasks -> [Slots -> Request]]
    /\ \A u \in Tasks : task'[u].on \in {task[u].on, None}
    /\ \A u \in Tasks, i \in Slots : req'[u][i].on \in {req[u][i].on, None}

(* The views the callbacks show are good ones.                             *)
LEMMA GoodViews ==
    /\ \A s \in Statuses : GoodView(View(s, None, None))
    /\ \A s \in Statuses, o \in Orgs \cup {None} : GoodView(View(s, o, o))
    /\ \A s \in Statuses : GoodView([anonymousState EXCEPT !.status = s])
    /\ GoodView(anonymousState)
    /\ \A s \in Statuses : GoodView(view) => GoodView([view EXCEPT !.status = s])
    /\ \A o \in Orgs : GoodView(view) => GoodView([view EXCEPT !.selected = o, !.context = None])
<1>1. "anonymous" \in Statuses
  BY DEF Statuses
<1>2. \A s \in Statuses : GoodView([anonymousState EXCEPT !.status = s])
  BY ViewTypes DEF GoodView
<1>3. \A s \in Statuses : GoodView(view) => GoodView([view EXCEPT !.status = s])
  BY DEF GoodView
<1>4. \A o \in Orgs : GoodView(view) => GoodView([view EXCEPT !.selected = o, !.context = None])
  BY DEF GoodView
<1>5. /\ \A s \in Statuses : GoodView(View(s, None, None))
      /\ \A s \in Statuses, o \in Orgs \cup {None} : GoodView(View(s, o, o))
  BY ViewTypes DEF GoodView
<1> QED BY <1>1, <1>2, <1>3, <1>4, <1>5, ViewTypes

(* A step of a callback that leaves the refreshes alone.                   *)
LEMMA CallbackKeeps ==
    ASSUME WebInv, UNCHANGED <<generation, promise, refreshes>>,
           token' \in BOOLEAN, GoodView(view'), GoodTables
    PROVE  WebInv'
<1>1. SharedRefresh' /\ Past'
  BY SameGeneration
<1>2. WaitersAreServed'
  BY NobodyForgotten DEF WebInv, GoodTables
<1>3. TypeOK' /\ PermissionsOfSelection'
  BY DEF WebInv, TypeOK, PermissionsOfSelection, GoodView, GoodTables
<1> QED BY <1>1, <1>2, <1>3 DEF WebInv

(* A step of a callback that begins a new generation.                      *)
LEMMA GenerationKeeps ==
    ASSUME WebInv, generation' = generation + 1, promise' = None, UNCHANGED refreshes,
           token' \in BOOLEAN, GoodView(view'), GoodTables
    PROVE  WebInv'
<1>1. SharedRefresh' /\ Past'
  BY NewGeneration
<1>2. WaitersAreServed'
  BY NobodyForgotten DEF WebInv, GoodTables
<1>3. TypeOK' /\ PermissionsOfSelection'
  BY DEF WebInv, TypeOK, PermissionsOfSelection, GoodView, GoodTables
<1> QED BY <1>1, <1>2, <1>3 DEF WebInv

(* The three ways a step changes the tables are good.                      *)
LEMMA TablesOfDone ==
    ASSUME TypeOK, NEW t \in Tasks, Done(t)
    PROVE  GoodTables
BY DoneIsTyped DEF GoodTables

LEMMA TablesOfStart ==
    ASSUME TypeOK, NEW t \in Tasks, NEW at \in {"login", "context", "select", "logout", "page", "load"},
           NEW kind \in {"none", "restore", "login"}, NEW o \in Orgs \cup {None}, NEW gen \in Nat,
           NEW S \in SUBSET Slots, Send(t, S),
           task' = [task EXCEPT ![t] = [task[t] EXCEPT !.at = at, !.kind = kind,
                                           !.org = o, !.generation = gen]]
    PROVE  GoodTables
<1>1. task[t] \in Task
  BY DEF TypeOK
<1>2. [task[t] EXCEPT !.at = at, !.kind = kind, !.org = o, !.generation = gen] \in Task
  BY <1>1 DEF Task
<1>3. task' \in [Tasks -> Task]
  BY <1>2 DEF TypeOK
<1>4. \A u \in Tasks : task'[u].on \in {task[u].on, None}
  BY <1>1 DEF TypeOK, Task
<1> QED BY <1>3, <1>4, SendIsTyped DEF GoodTables

-----------------------------------------------------------------------------
(* Every step keeps WebInv, action by action.                              *)

LEMMA InitStep == Init => WebInv
<1> SUFFICES ASSUME Init PROVE WebInv
  OBVIOUS
<1>1. promise \in Promises
  BY DEF Init
<1>2. TypeOK
  <2>1. /\ [Idle EXCEPT !.at = "restore", !.kind = "restore", !.on = promise] \in Task
        /\ Idle \in Task
    BY <1>1 DEF Idle, Task
  <2>2. [NoRefresh EXCEPT !.pending = TRUE] \in [pending : BOOLEAN, generation : Nat, late : BOOLEAN]
    BY DEF NoRefresh
  <2>3. view \in [status : Statuses, selected : Orgs \cup {None}, context : Orgs \cup {None}]
    BY GoodViews DEF Init, GoodView, Statuses
  <2> QED BY <1>1, <2>1, <2>2, <2>3, RecordTypes DEF Init, TypeOK
<1>3. PermissionsOfSelection
  BY DEF Init, PermissionsOfSelection, anonymousState, View
<1>4. SharedRefresh /\ Past
  <2>1. /\ refreshes[promise].pending /\ refreshes[promise].generation = 0
        /\ \A p \in Promises : ~refreshes[p].late
        /\ \A p \in Promises \ {promise} : ~refreshes[p].pending
    BY <1>1 DEF Init, NoRefresh
  <2>2. generation = 0
    BY DEF Init
  <2> QED BY <1>1, <2>1, <2>2 DEF SharedRefresh, Past
<1>5. WaitersAreServed
  BY <1>1 DEF Init, WaitersAreServed, Unsent, Idle, NoRefresh
<1> QED BY <1>2, <1>3, <1>4, <1>5 DEF WebInv

LEMMA WebInvView ==
    ASSUME WebInv
    PROVE  TypeOK /\ GoodView(view) /\ token \in BOOLEAN /\ generation \in Nat
BY DEF WebInv, TypeOK, PermissionsOfSelection, GoodView

LEMMA RefreshSucceedsStep ==
    ASSUME WebInv, NEW p \in Promises, RefreshSucceeds(p)
    PROVE  WebInv'
<1>1. CurrentRefresh(p) \in BOOLEAN
  BY DEF CurrentRefresh
<1>2. /\ refreshes' \in [Promises -> [pending : BOOLEAN, generation : Nat, late : BOOLEAN]]
      /\ promise' \in Promises \cup {None}
      /\ task' \in [Tasks -> Task] /\ req' \in [Tasks -> [Slots -> Request]]
      /\ SharedRefresh' /\ Past' /\ WaitersAreServed'
  <2> DEFINE got == CurrentRefresh(p)
  <2> got \in BOOLEAN
    BY <1>1
  <2>1. /\ refreshes[p].pending /\ refreshes' = [refreshes EXCEPT ![p] = NoRefresh]
        /\ Forget(p) /\ Wake(p, got) /\ generation' = generation
    BY DEF RefreshSucceeds
  <2> HIDE DEF got
  <2> QED BY <2>1, SettleKeeps
<1>3. /\ token' \in BOOLEAN /\ UNCHANGED <<generation, view>>
  BY DEF RefreshSucceeds
<1> QED BY <1>2, <1>3 DEF WebInv, TypeOK, PermissionsOfSelection

LEMMA RefreshFailsStep ==
    ASSUME WebInv, NEW p \in Promises, RefreshFails(p)
    PROVE  WebInv'
<1>1. /\ refreshes' \in [Promises -> [pending : BOOLEAN, generation : Nat, late : BOOLEAN]]
      /\ promise' \in Promises \cup {None}
      /\ task' \in [Tasks -> Task] /\ req' \in [Tasks -> [Slots -> Request]]
      /\ SharedRefresh' /\ Past' /\ WaitersAreServed'
  BY SettleKeeps DEF RefreshFails
<1>2. UNCHANGED <<generation>>
  BY DEF RefreshFails
<1>3. token' \in BOOLEAN
  BY WebInvView DEF RefreshFails
<1>4. GoodView(view')
  BY WebInvView, GoodViews DEF RefreshFails, Statuses
<1> QED BY <1>1, <1>2, <1>3, <1>4 DEF WebInv, TypeOK, PermissionsOfSelection, GoodView

LEMMA RespondStep ==
    ASSUME WebInv, NEW t \in Tasks, NEW i \in Slots, Respond(t, i)
    PROVE  WebInv'
<1> TypeOK
  BY DEF WebInv
<1>1. UNCHANGED <<token, generation, view, task>>
  BY DEF Respond
<1>2. CASE UNCHANGED <<refreshes, promise>> /\
           \E a \in Answers : req' = [req EXCEPT ![t][i] = [Unsent EXCEPT !.state = a]]
  <2> PICK a \in Answers : req' = [req EXCEPT ![t][i] = [Unsent EXCEPT !.state = a]]
    BY <1>2
  <2>1. req' \in [Tasks -> [Slots -> Request]]
    BY RecordTypes DEF TypeOK
  <2>2. \A u \in Tasks, j \in Slots : req'[u][j].on \in {req[u][j].on, None}
    BY DEF TypeOK, Unsent
  <2>3. GoodTables
    BY <1>1, <2>1, <2>2 DEF GoodTables, TypeOK
  <2> QED BY <1>1, <1>2, <2>3, CallbackKeeps, WebInvView
<1>3. CASE \E p \in Promises : Refresh(p) /\
             req' = [req EXCEPT ![t][i].state = "refreshing", ![t][i].on = p]
  <2> PICK p \in Promises : Refresh(p) /\
             req' = [req EXCEPT ![t][i].state = "refreshing", ![t][i].on = p]
    BY <1>3
  <2>1. /\ refreshes' \in [Promises -> [pending : BOOLEAN, generation : Nat, late : BOOLEAN]]
        /\ promise' \in Promises \cup {None}
        /\ refreshes'[p].pending
        /\ \A q \in Promises : refreshes[q].pending => refreshes'[q].pending
        /\ SharedRefresh' /\ Past'
    BY <1>1, RefreshIsShared
  <2>2. req' \in [Tasks -> [Slots -> Request]]
    <3> DEFINE r == [req[t][i] EXCEPT !.state = "refreshing", !.on = p]
    <3>1. req[t][i] \in Request
      BY DEF TypeOK
    <3>2. r \in Request
      BY <3>1 DEF Request
    <3>3. req' = [req EXCEPT ![t] = [req[t] EXCEPT ![i] = r]]
      BY DEF TypeOK
    <3>4. req[t] \in [Slots -> Request]
      BY DEF TypeOK
    <3> HIDE DEF r
    <3>5. [req[t] EXCEPT ![i] = r] \in [Slots -> Request]
      BY <3>2, <3>4
    <3> QED BY <3>3, <3>5 DEF TypeOK
  <2>3. \A u \in Tasks, j \in Slots : req'[u][j].on \in {req[u][j].on, p}
    BY DEF TypeOK, Request
  <2>4. WaitersAreServed'
    <3>1. \A u \in Tasks, j \in Slots : req'[u][j].on # None => refreshes'[req'[u][j].on].pending
      BY <2>1, <2>3 DEF WebInv, WaitersAreServed, TypeOK, Request
    <3>2. \A u \in Tasks : task'[u].on # None => refreshes'[task'[u].on].pending
      BY <1>1, <2>1 DEF WebInv, WaitersAreServed, TypeOK, Task
    <3> QED BY <3>1, <3>2 DEF WaitersAreServed
  <2> QED BY <1>1, <2>1, <2>2, <2>4 DEF WebInv, TypeOK, PermissionsOfSelection
<1> QED BY <1>2, <1>3 DEF Respond

(* The fields of a running callback.                                       *)
LEMMA TaskFields ==
    ASSUME TypeOK, NEW t \in Tasks
    PROVE  /\ task[t].kind \in {"none", "restore", "login"}
           /\ task[t].org \in Orgs \cup {None} /\ task[t].generation \in Nat
           /\ {1} \in SUBSET Slots
BY DEF TypeOK, Task, Slots

LEMMA LoadedStep ==
    ASSUME WebInv, NEW t \in Tasks, Loaded(t)
    PROVE  WebInv'
<1>1. UNCHANGED <<generation, promise, refreshes>>
  BY DEF Loaded
<1>2. CASE Done(t) /\ token' \in {token, TRUE} /\ view' \in {view, View("authenticated", None, None)}
  BY <1>1, <1>2, TablesOfDone, CallbackKeeps, WebInvView, GoodViews DEF Statuses
<1>3. CASE /\ UNCHANGED <<token, view>> /\ Send(t, {1})
           /\ \E o \in Orgs : task' = [task EXCEPT ![t].at = "context", ![t].org = o]
  <2>0. PICK o \in Orgs : task' = [task EXCEPT ![t].at = "context", ![t].org = o]
    BY <1>3
  <2>1. task[t] \in Task
    BY WebInvView DEF TypeOK
  <2>2. [task[t] EXCEPT !.at = "context", !.org = o]
           = [task[t] EXCEPT !.at = "context", !.kind = task[t].kind, !.org = o,
                             !.generation = task[t].generation]
    BY <2>1 DEF Task
  <2>3. task' = [task EXCEPT ![t] = [task[t] EXCEPT !.at = "context", !.org = o]]
    BY <2>0, WebInvView DEF TypeOK
  <2>4. GoodTables
    <3>1. task' = [task EXCEPT ![t] =
                     [task[t] EXCEPT !.at = "context", !.kind = task[t].kind, !.org = o,
                                     !.generation = task[t].generation]]
      BY <2>2, <2>3
    <3>2. o \in Orgs \cup {None} /\ Send(t, {1})
      BY <1>3
    <3>3. /\ TypeOK /\ task[t].kind \in {"none", "restore", "login"}
          /\ task[t].generation \in Nat /\ {1} \in SUBSET Slots
      BY TaskFields, WebInvView
    <3> QED BY <3>1, <3>2, <3>3, TablesOfStart
  <2> QED BY <1>1, <1>3, <2>4, CallbackKeeps, WebInvView
<1> QED BY <1>2, <1>3 DEF Loaded

LEMMA ContextLoadedStep ==
    ASSUME WebInv, NEW t \in Tasks, ContextLoaded(t)
    PROVE  WebInv'
<1>1. UNCHANGED <<generation, promise, refreshes>> /\ GoodTables
  BY TablesOfDone, WebInvView DEF ContextLoaded
<1>2. token' \in BOOLEAN
  BY WebInvView DEF ContextLoaded
<1>3. task[t].org \in Orgs \cup {None}
  BY WebInvView DEF TypeOK, Task
<1>4. GoodView(view')
  BY <1>3, WebInvView, GoodViews DEF ContextLoaded, Statuses
<1> QED BY <1>1, <1>2, <1>4, CallbackKeeps, WebInvView

LEMMA LoadFailsStep ==
    ASSUME WebInv, NEW t \in Tasks, LoadFails(t)
    PROVE  WebInv'
<1>1. UNCHANGED <<generation, promise, refreshes>> /\ GoodTables /\ token' = FALSE
  BY TablesOfDone, WebInvView DEF LoadFails
<1>2. GoodView(view')
  BY GoodViews DEF LoadFails, Statuses
<1> QED BY <1>1, <1>2, CallbackKeeps, WebInvView

(* Beginning to load sends both requests.                                  *)
LEMMA TablesOfLoad ==
    ASSUME TypeOK, NEW t \in Tasks, NEW gen \in Nat, BeginLoad(t, gen)
    PROVE  GoodTables /\ token' = TRUE
<1>1. task[t] \in Task
  BY DEF TypeOK
<1>2. [task[t] EXCEPT !.at = "load", !.generation = gen]
         = [task[t] EXCEPT !.at = "load", !.kind = task[t].kind, !.org = task[t].org,
                           !.generation = gen]
  BY <1>1 DEF Task
<1>3. task' = [task EXCEPT ![t] = [task[t] EXCEPT !.at = "load", !.generation = gen]]
  BY DEF BeginLoad, TypeOK
<1>4. Send(t, Slots) /\ token' = TRUE
  BY DEF BeginLoad
<1>5. task[t].kind \in {"none", "restore", "login"} /\ task[t].org \in Orgs \cup {None}
  BY <1>1 DEF Task
<1> QED BY <1>2, <1>3, <1>4, <1>5, TablesOfStart

LEMMA RestoreStep ==
    ASSUME WebInv, NEW t \in Tasks, Restore(t)
    PROVE  WebInv'
<1>1. UNCHANGED <<generation, promise, refreshes>>
  BY DEF Restore
<1>2. CASE BeginLoad(t, generation) /\ UNCHANGED view
  BY <1>1, <1>2, TablesOfLoad, CallbackKeeps, WebInvView
<1>3. CASE token' = FALSE /\ view' = anonymousState /\ Done(t)
  BY <1>1, <1>3, TablesOfDone, CallbackKeeps, WebInvView, GoodViews
<1> QED BY <1>2, <1>3 DEF Restore

LEMMA LoginStep ==
    ASSUME WebInv, NEW t \in Tasks, Login(t)
    PROVE  WebInv'
<1>1. UNCHANGED <<token, generation, promise, refreshes>>
  BY DEF Login
<1>2. GoodTables
  <2>1. task[t] \in Task
    BY WebInvView DEF TypeOK
  <2>2. [task[t] EXCEPT !.at = "login", !.kind = "login"]
           = [task[t] EXCEPT !.at = "login", !.kind = "login", !.org = task[t].org,
                             !.generation = task[t].generation]
    BY <2>1 DEF Task
  <2>3. task' = [task EXCEPT ![t] = [task[t] EXCEPT !.at = "login", !.kind = "login"]]
    BY WebInvView DEF Login, TypeOK
  <2>4. task' = [task EXCEPT ![t] =
                   [task[t] EXCEPT !.at = "login", !.kind = "login", !.org = task[t].org,
                                   !.generation = task[t].generation]]
    BY <2>2, <2>3
  <2>5. Send(t, {1})
    BY DEF Login
  <2> QED BY <2>4, <2>5, TaskFields, TablesOfStart, WebInvView
<1>3. GoodView(view')
  BY GoodViews, WebInvView DEF Login, Statuses
<1> QED BY <1>1, <1>2, <1>3, CallbackKeeps, WebInvView

LEMMA LoggedInStep ==
    ASSUME WebInv, NEW t \in Tasks, LoggedIn(t)
    PROVE  WebInv'
<1>1. UNCHANGED <<refreshes>>
  BY DEF LoggedIn
<1>2. CASE /\ generation' = generation + 1 /\ promise' = None
           /\ BeginLoad(t, generation + 1) /\ UNCHANGED view
  <2>1. GoodTables /\ token' = TRUE
    <3>1. generation + 1 \in Nat
      BY WebInvView
    <3> QED BY <1>2, <3>1, TablesOfLoad, WebInvView
  <2> QED BY <1>1, <1>2, <2>1, GenerationKeeps, WebInvView
<1>3. CASE /\ token' = FALSE /\ view' = anonymousState /\ Done(t)
           /\ UNCHANGED <<generation, promise>>
  BY <1>1, <1>3, TablesOfDone, CallbackKeeps, WebInvView, GoodViews
<1> QED BY <1>2, <1>3 DEF LoggedIn

LEMMA SelectOrganizationStep ==
    ASSUME WebInv, NEW t \in Tasks, NEW o \in Orgs, SelectOrganization(t, o)
    PROVE  WebInv'
<1>1. /\ generation' = generation + 1 /\ promise' = None
      /\ UNCHANGED <<token, refreshes>>
  BY DEF SelectOrganization
<1>2. GoodTables
  <2>1. task[t] \in Task
    BY WebInvView DEF TypeOK
  <2>2. [task[t] EXCEPT !.at = "select", !.org = o]
           = [task[t] EXCEPT !.at = "select", !.kind = task[t].kind, !.org = o,
                             !.generation = task[t].generation]
    BY <2>1 DEF Task
  <2>3. task' = [task EXCEPT ![t] = [task[t] EXCEPT !.at = "select", !.org = o]]
    BY WebInvView DEF SelectOrganization, TypeOK
  <2>4. task' = [task EXCEPT ![t] =
                   [task[t] EXCEPT !.at = "select", !.kind = task[t].kind, !.org = o,
                                   !.generation = task[t].generation]]
    BY <2>2, <2>3
  <2>5. Send(t, {1})
    BY DEF SelectOrganization
  <2> QED BY <2>4, <2>5, TaskFields, TablesOfStart, WebInvView
<1>3. GoodView(view')
  BY GoodViews, WebInvView DEF SelectOrganization
<1> QED BY <1>1, <1>2, <1>3, GenerationKeeps, WebInvView

LEMMA SelectedStep ==
    ASSUME WebInv, NEW t \in Tasks, Selected(t)
    PROVE  WebInv'
<1>1. UNCHANGED <<token, generation, promise, refreshes>> /\ GoodTables
  BY TablesOfDone, WebInvView DEF Selected
<1>2. task[t].org \in Orgs \cup {None} /\ view.status \in Statuses
  BY WebInvView DEF TypeOK, Task
<1>3. GoodView(view')
  BY <1>2, GoodViews DEF Selected, Statuses
<1> QED BY <1>1, <1>3, CallbackKeeps, WebInvView

(* Logout and PageRequest differ only in what they wait for.               *)
LEMMA RequestStep ==
    ASSUME WebInv, NEW t \in Tasks, Logout(t) \/ PageRequest(t)
    PROVE  WebInv'
<1>1. UNCHANGED <<token, generation, promise, view, refreshes>> /\ Send(t, {1})
  BY DEF Logout, PageRequest
<1>2. PICK at \in {"logout", "page"} : task' = [task EXCEPT ![t].at = at]
  BY DEF Logout, PageRequest
<1>3. task[t] \in Task
  BY WebInvView DEF TypeOK
<1>4. [task[t] EXCEPT !.at = at]
         = [task[t] EXCEPT !.at = at, !.kind = task[t].kind, !.org = task[t].org,
                           !.generation = task[t].generation]
  BY <1>3 DEF Task
<1>5. task' = [task EXCEPT ![t] = [task[t] EXCEPT !.at = at]]
  BY <1>2, WebInvView DEF TypeOK
<1>6. GoodTables
  <2>1. task' = [task EXCEPT ![t] =
                   [task[t] EXCEPT !.at = at, !.kind = task[t].kind, !.org = task[t].org,
                                   !.generation = task[t].generation]]
    BY <1>4, <1>5
  <2>2. at \in {"login", "context", "select", "logout", "page", "load"}
    BY <1>2
  <2>3. /\ TypeOK /\ task[t].kind \in {"none", "restore", "login"}
        /\ task[t].org \in Orgs \cup {None} /\ task[t].generation \in Nat
        /\ {1} \in SUBSET Slots
    BY TaskFields, WebInvView
  <2> QED BY <1>1, <2>1, <2>2, <2>3, TablesOfStart
<1> QED BY <1>1, <1>6, CallbackKeeps, WebInvView

(* clearSession leaves every refresh under way in the past, and late.      *)
LEMMA LoggedOutStep ==
    ASSUME WebInv, NEW t \in Tasks, LoggedOut(t)
    PROVE  WebInv'
<1>1. /\ generation' = generation + 1 /\ promise' = None /\ token' = FALSE
      /\ view' = anonymousState /\ GoodTables
  BY TablesOfDone, WebInvView DEF LoggedOut
<1>2. /\ refreshes' \in [Promises -> [pending : BOOLEAN, generation : Nat, late : BOOLEAN]]
      /\ \A p \in Promises :
           /\ refreshes'[p].pending = refreshes[p].pending
           /\ refreshes'[p].generation = refreshes[p].generation
           /\ refreshes'[p].late => refreshes[p].late \/ refreshes[p].pending
  BY WebInvView DEF LoggedOut, TypeOK
<1>3. SharedRefresh' /\ Past'
  BY <1>1, <1>2, NewGeneration
<1>4. WaitersAreServed'
  BY <1>1, <1>2, NobodyForgotten DEF WebInv, GoodTables
<1>5. TypeOK' /\ PermissionsOfSelection'
  <2>1. GoodView(view')
    BY <1>1, GoodViews
  <2>2. generation' \in Nat
    BY <1>1, WebInvView
  <2> QED BY <1>1, <1>2, <2>1, <2>2 DEF TypeOK, PermissionsOfSelection, GoodView, GoodTables
<1> QED BY <1>3, <1>4, <1>5 DEF WebInv

LEMMA PageAnsweredStep ==
    ASSUME WebInv, NEW t \in Tasks, PageAnswered(t)
    PROVE  WebInv'
<1>1. UNCHANGED <<token, generation, promise, view, refreshes>> /\ GoodTables
  BY TablesOfDone, WebInvView DEF PageAnswered
<1> QED BY <1>1, CallbackKeeps, WebInvView

LEMMA StutterStep ==
    ASSUME WebInv, UNCHANGED vars
    PROVE  WebInv'
BY DEF WebInv, TypeOK, PermissionsOfSelection, SharedRefresh, WaitersAreServed, Past, vars

LEMMA InductiveStep == WebInv /\ [Next]_vars => WebInv'
<1> SUFFICES ASSUME WebInv, [Next]_vars PROVE WebInv'
  OBVIOUS
<1>1. ASSUME NEW t \in Tasks, Login(t) \/ Logout(t) \/ PageRequest(t) PROVE WebInv'
  BY <1>1, LoginStep, RequestStep
<1>2. ASSUME NEW t \in Tasks, NEW o \in Orgs, SelectOrganization(t, o) PROVE WebInv'
  BY <1>2, SelectOrganizationStep
<1>3. ASSUME NEW t \in Tasks, Continue(t) PROVE WebInv'
  BY <1>3, RestoreStep, LoggedInStep, LoadedStep, ContextLoadedStep, LoadFailsStep,
     SelectedStep, LoggedOutStep, PageAnsweredStep DEF Continue
<1>4. ASSUME NEW t \in Tasks, NEW i \in Slots, Respond(t, i) PROVE WebInv'
  BY <1>4, RespondStep
<1>5. ASSUME NEW p \in Promises, Settle(p) PROVE WebInv'
  BY <1>5, RefreshSucceedsStep, RefreshFailsStep DEF Settle
<1>6. CASE UNCHANGED vars
  BY <1>6, StutterStep
<1> QED BY <1>1, <1>2, <1>3, <1>4, <1>5, <1>6 DEF Next

-----------------------------------------------------------------------------
(* The theorems.                                                           *)

(* AuthProvider and the API client always satisfy WebInv.                  *)
THEOREM Invariance == Spec => []WebInv
BY InitStep, InductiveStep, PTL DEF Spec

(* Every reference and every callback keeps values of its kind.            *)
THEOREM TypeCorrect == Spec => []TypeOK
<1>1. WebInv => TypeOK
  BY DEF WebInv
<1> QED BY <1>1, Invariance, PTL

(* However the answers of loads and selections overtake, the permissions   *)
(* shown are those of the organization shown.                              *)
THEOREM PermissionsMatch == Spec => []PermissionsOfSelection
<1>1. WebInv => PermissionsOfSelection
  BY DEF WebInv
<1> QED BY <1>1, Invariance, PTL

(* All callers of refresh() in one generation share one call of the API,   *)
(* however many there are.                                                 *)
THEOREM RefreshShared == Spec => []SharedRefresh
<1>1. WebInv => SharedRefresh
  BY DEF WebInv
<1> QED BY <1>1, Invariance, PTL

(* Nobody waits for a refresh that has already settled.                    *)
THEOREM WaitersServed == Spec => []WaitersAreServed
<1>1. WebInv => WaitersAreServed
  BY DEF WebInv
<1> QED BY <1>1, Invariance, PTL

(* A refresh answered after the sign out it overlapped changes neither the *)
(* access token nor the screen.                                            *)
THEOREM LateRefresh == Spec => LateRefreshIgnored
<1>1. WebInv /\ [Next]_vars =>
        [\A p \in Promises : refreshes[p].late /\ ~refreshes'[p].late
            => token' = token /\ view' = view]_vars
  <2> SUFFICES ASSUME WebInv, Next, NEW p \in Promises,
                      refreshes[p].late, ~refreshes'[p].late
               PROVE  token' = token /\ view' = view
    OBVIOUS
  <2>1. TypeOK /\ refreshes[p].generation # generation
    BY DEF WebInv, Past, TypeOK
  <2>2. ASSUME UNCHANGED refreshes PROVE FALSE
    BY <2>2
  <2>3. ASSUME NEW t \in Tasks, LoggedOut(t) PROVE FALSE
    BY <2>1, <2>3 DEF LoggedOut, TypeOK
  <2>4. ASSUME NEW t \in Tasks, NEW i \in Slots, Respond(t, i) PROVE token' = token /\ view' = view
    BY <2>4 DEF Respond
  <2>5. ASSUME NEW q \in Promises, Settle(q) PROVE token' = token /\ view' = view
    <3>1. q = p
      BY <2>1, <2>5 DEF Settle, RefreshSucceeds, RefreshFails, TypeOK
    <3>2. ~CurrentRefresh(q)
      BY <2>1, <3>1 DEF CurrentRefresh
    <3>3. token \in BOOLEAN
      BY <2>1 DEF TypeOK
    <3> QED BY <2>5, <3>2, <3>3 DEF Settle, RefreshSucceeds, RefreshFails
  <2>6. ASSUME NEW t \in Tasks, Login(t) \/ Logout(t) \/ PageRequest(t) PROVE FALSE
    BY <2>2, <2>6 DEF Login, Logout, PageRequest
  <2>7. ASSUME NEW t \in Tasks, NEW o \in Orgs, SelectOrganization(t, o) PROVE FALSE
    BY <2>2, <2>7 DEF SelectOrganization
  <2>8. ASSUME NEW t \in Tasks, Continue(t) PROVE FALSE
    BY <2>2, <2>3, <2>8 DEF Continue, Restore, LoggedIn, Loaded, ContextLoaded, LoadFails,
       Selected, PageAnswered
  <2> QED BY <2>4, <2>5, <2>6, <2>7, <2>8 DEF Next
<1> QED BY <1>1, Invariance, PTL DEF Spec, LateRefreshIgnored
=============================================================================
