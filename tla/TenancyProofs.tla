--------------------------- MODULE TenancyProofs ---------------------------
(***************************************************************************)
(* Proofs about bootstrap, memberships and tenant resolution, for any      *)
(* number of users, organizations, installers, requests and changes.       *)
(*                                                                         *)
(* They rest on the advisory lock (BootLocked) and on what it keeps true   *)
(* between the counts and the INSERTs (BootAlone, Drafted), and on what a  *)
(* request has seen where it is (Witness).                                 *)
(***************************************************************************)
EXTENDS Tenancy, TLAPS

-----------------------------------------------------------------------------
(* The transaction-level advisory lock is held by one installer.           *)
BootLocked ==
    \A i, j \in Installers : boot[i] \in Booting /\ boot[j] \in Booting => i = j

(* While an installer holds it and has counted no users, none has created  *)
(* an owner.                                                               *)
BootAlone ==
    \A i, j \in Installers :
        boot[i] \in {"users_counted", "creating", "inserted"} => boot[j] # "created"

Drafted ==
    \A i \in Installers :
        /\ boot[i] \in {"inserted", "created"} => draft[i] \in Pairs
        /\ boot[i] = "created" => draft[i][1] \in users

(* What a request has been told to record.                                 *)
Denials == Events \ {"bootstrap.refused", "bootstrap.owner_created"}

(* What a request names.                                                   *)
Named(r) ==
    /\ pc[r] = "idle" => cmd[r].user = None
    /\ pc[r] \in {"principal", "organization", "context"} =>
        cmd[r].user \in Users /\ cmd[r].org \in Organizations /\ cmd[r].need # "list"
    /\ pc[r] \in {"listing", "memberships"} =>
        cmd[r].user \in Users /\ cmd[r].need = "list"
    /\ pc[r] = "denying" => answer[r].event \in Denials
    /\ pc[r] \notin {"denying", "done"} => answer[r].event = "none"
    /\ pc[r] # "done" => answer[r].code = "none" /\ answer[r].listed = {}
    /\ answer[r].event \in Denials \cup {"none"}

(* What it has seen.                                                       *)
Witness(r) ==
    LET seen == moments[r] IN
    /\ pc[r] \in {"organization", "context"} => \E m \in seen : m.open = "active"
    /\ pc[r] = "context" =>
        \E m \in seen : m.member = "active" /\ m.role = context[r][cmd[r].org]
    /\ pc[r] = "memberships" =>
        \A o \in Organizations : context[r][o] # None =>
            \E m \in seen : m.org = o /\ m.member = "active"

(* What it is answered, for one request.                                   *)
Answered(r) ==
    LET seen == moments[r]
        event == answer[r].event
    IN
    /\ answer[r].code = "ok" /\ cmd[r].need # "list" =>
         /\ \E m \in seen : m.open = "active"
         /\ \E m \in seen :
              m.member = "active" /\ (cmd[r].need = "none" \/ Allows(m.role, cmd[r].need))
    /\ \A l \in answer[r].listed :
         /\ \E m \in seen : m.org = l /\ m.open = "active"
         /\ \E m \in seen : m.org = l /\ m.member = "active"
    /\ event = "tenancy.access_denied" =>
         \E m \in seen : m.open = "absent" \/ m.member = "absent"
    /\ event = "tenancy.inactive_organization" => \E m \in seen : m.open = "inactive"
    /\ event = "tenancy.inactive_membership" =>
         \E m \in seen : m.member \in {"invited", "suspended", "removed"}
    /\ event = "authorization.permission_denied" =>
         \E m \in seen : m.member = "active" /\ ~Allows(m.role, cmd[r].need)

BootInv == BootLocked /\ BootAlone /\ Drafted /\ BootstrapOnce /\ OwnerRemains

RequestInv == \A r \in Requests : Named(r) /\ Witness(r) /\ Answered(r)

TenancyInv ==
    /\ TypeOK
    /\ MembershipLifecycle
    /\ BootInv
    /\ RequestInv

-----------------------------------------------------------------------------
(* The operations of the entity.                                           *)
LEMMA MembershipCreated ==
    ASSUME NEW role \in Roles
    PROVE  /\ NoMembership \in Membership /\ LifecycleState(NoMembership)
           /\ MembershipInvite(role) \in Membership /\ LifecycleState(MembershipInvite(role))
           /\ MembershipActivateDirectly(role) \in Membership
           /\ LifecycleState(MembershipActivateDirectly(role))
           /\ MembershipActivateDirectly(role).status = "active"
           /\ MembershipActivateDirectly(role).role = role
<1>1. NoMembership \in Membership /\ LifecycleState(NoMembership)
  BY DEF NoMembership, Membership, LifecycleState
<1>2. MembershipInvite(role) \in Membership /\ LifecycleState(MembershipInvite(role))
  BY DEF MembershipInvite, Membership, LifecycleState
<1>3. /\ MembershipActivateDirectly(role) \in Membership
      /\ LifecycleState(MembershipActivateDirectly(role))
      /\ MembershipActivateDirectly(role).status = "active"
      /\ MembershipActivateDirectly(role).role = role
  BY DEF MembershipActivateDirectly, Membership, LifecycleState
<1> QED BY <1>1, <1>2, <1>3

LEMMA MembershipChanged ==
    ASSUME NEW m \in Membership, LifecycleState(m)
    PROVE  /\ m.status = "invited" =>
                MembershipActivate(m) \in Membership /\ LifecycleState(MembershipActivate(m))
           /\ m.status = "active" =>
                MembershipSuspend(m) \in Membership /\ LifecycleState(MembershipSuspend(m))
           /\ m.status = "suspended" =>
                MembershipReactivate(m) \in Membership /\ LifecycleState(MembershipReactivate(m))
           /\ MembershipRemove(m) \in Membership /\ LifecycleState(MembershipRemove(m))
           /\ \A role \in Roles : /\ MembershipChangeRole(m, role) \in Membership
                                  /\ LifecycleState(MembershipChangeRole(m, role))
<1>0. /\ m.status \in {"absent", "invited", "active", "suspended", "removed"}
      /\ m.role \in Roles \cup {None}
      /\ m.dates \subseteq {"invited", "joined", "suspended", "removed"}
  BY DEF Membership
<1>1. ASSUME m.status = "invited"
      PROVE  MembershipActivate(m) \in Membership /\ LifecycleState(MembershipActivate(m))
  <2>1. MembershipActivate(m) \in Membership
    BY <1>0 DEF Membership, MembershipActivate
  <2>2. /\ MembershipActivate(m).status = "active"
        /\ MembershipActivate(m).dates = (m.dates \cap {"invited"}) \cup {"joined"}
    BY DEF Membership, MembershipActivate
  <2> QED BY <2>1, <2>2 DEF LifecycleState
<1>2. ASSUME m.status = "active"
      PROVE  MembershipSuspend(m) \in Membership /\ LifecycleState(MembershipSuspend(m))
  <2>1. MembershipSuspend(m) \in Membership
    BY <1>0 DEF Membership, MembershipSuspend
  <2>2. /\ MembershipSuspend(m).status = "suspended"
        /\ MembershipSuspend(m).dates = m.dates \cup {"suspended"}
    BY DEF Membership, MembershipSuspend
  <2>3. "joined" \in m.dates /\ m.dates \subseteq {"invited", "joined"}
    BY <1>2 DEF LifecycleState
  <2> QED BY <2>1, <2>2, <2>3 DEF LifecycleState
<1>3. ASSUME m.status = "suspended"
      PROVE  MembershipReactivate(m) \in Membership /\ LifecycleState(MembershipReactivate(m))
  <2>1. MembershipReactivate(m) \in Membership
    BY <1>0 DEF Membership, MembershipReactivate
  <2>2. /\ MembershipReactivate(m).status = "active"
        /\ MembershipReactivate(m).dates = m.dates \ {"suspended"}
    BY DEF Membership, MembershipReactivate
  <2>3. {"joined", "suspended"} \subseteq m.dates /\ "removed" \notin m.dates
    BY <1>3 DEF LifecycleState
  <2> QED BY <1>0, <2>1, <2>2, <2>3 DEF LifecycleState
<1>4. MembershipRemove(m) \in Membership /\ LifecycleState(MembershipRemove(m))
  <2>1. MembershipRemove(m) \in Membership
    BY <1>0 DEF Membership, MembershipRemove
  <2>2. /\ MembershipRemove(m).status = "removed"
        /\ MembershipRemove(m).dates = m.dates \cup {"removed"}
    BY DEF Membership, MembershipRemove
  <2> QED BY <2>1, <2>2 DEF LifecycleState
<1>5. ASSUME NEW role \in Roles
      PROVE  /\ MembershipChangeRole(m, role) \in Membership
             /\ LifecycleState(MembershipChangeRole(m, role))
  <2>1. MembershipChangeRole(m, role) \in Membership
    BY <1>0 DEF Membership, MembershipChangeRole
  <2>2. /\ MembershipChangeRole(m, role).status = m.status
        /\ MembershipChangeRole(m, role).dates = m.dates
    BY DEF Membership, MembershipChangeRole
  <2> QED BY <2>1, <2>2 DEF LifecycleState
<1> QED BY <1>1, <1>2, <1>3, <1>4, <1>5

-----------------------------------------------------------------------------
BootPlaces == Booting \cup {"idle", "refused", "created", "failed"}
Places == {"idle", "principal", "organization", "context", "listing", "memberships",
           "denying", "done"}
Commands == [user : Users \cup {None}, org : Organizations \cup {None},
             need : Permissions \cup {"none", "list"}]
Answers == [code   : {"none", "ok", "unauthorized", "forbidden"},
            event  : Events \cup {"none"},
            listed : SUBSET Organizations]

(* The two halves of the types.                                            *)
TablesOK ==
    /\ users \subseteq Users /\ credentials \subseteq Users
    /\ organizations \in [Organizations -> {"absent", "active", "inactive"}]
    /\ memberships \in [Pairs -> Membership]
    /\ boot \in [Installers -> BootPlaces]
    /\ draft \in [Installers -> Pairs \cup {<<None, None>>}]

RequestsOK ==
    /\ pc \in [Requests -> Places]
    /\ cmd \in [Requests -> Commands]
    /\ context \in [Requests -> [Organizations -> Roles \cup {None}]]
    /\ answer \in [Requests -> Answers]

TrailOK == trail \subseteq (Installers \cup Requests) \X Events

LEMMA Types == TypeOK <=> TablesOK /\ RequestsOK /\ TrailOK
  BY DEF TypeOK, TablesOK, RequestsOK, TrailOK, BootPlaces, Places, Commands, Answers

LEMMA TypesNext == TypeOK' <=> TablesOK' /\ RequestsOK' /\ TrailOK'
  BY DEF TypeOK, TablesOK, RequestsOK, TrailOK, BootPlaces, Places, Commands, Answers

LEMMA InitHolds == Init => TenancyInv
<1> SUFFICES ASSUME Init PROVE TenancyInv
  OBVIOUS
<1> USE DEF Init
<1>1. NoMembership \in Membership /\ LifecycleState(NoMembership)
  BY DEF NoMembership, Membership, LifecycleState
<1>2. TablesOK /\ TrailOK
  BY <1>1 DEF TablesOK, TrailOK, BootPlaces
<1>3. RequestsOK
  BY DEF RequestsOK, Places, Commands, Answers
<1>4. MembershipLifecycle
  BY <1>1 DEF MembershipLifecycle
<1>5. BootInv
  BY DEF BootInv, BootLocked, BootAlone, Drafted, BootstrapOnce, OwnerRemains, Booting
<1>6. ASSUME NEW r \in Requests PROVE Named(r) /\ Witness(r) /\ Answered(r)
  BY <1>6 DEF Named, Witness, Answered
<1> QED BY <1>2, <1>3, <1>4, <1>5, <1>6, Types DEF TenancyInv, RequestInv

-----------------------------------------------------------------------------
(* What a request has seen it has seen for ever.                           *)
LEMMA Grows ==
    ASSUME Observe, NEW r \in Requests PROVE moments[r] \subseteq moments'[r]
  BY DEF Observe

LEMMA WitnessStays ==
    ASSUME NEW r \in Requests, Witness(r), moments[r] \subseteq moments'[r],
           pc'[r] = pc[r], cmd'[r] = cmd[r], context'[r] = context[r]
    PROVE  Witness(r)'
  BY DEF Witness

LEMMA AnsweredStays ==
    ASSUME NEW r \in Requests, Answered(r), moments[r] \subseteq moments'[r],
           answer'[r].code = answer[r].code, answer'[r].event = answer[r].event,
           answer'[r].listed = answer[r].listed,
           answer[r].event # "none" \/ answer[r].code = "ok" => cmd'[r] = cmd[r]
    PROVE  Answered(r)'
<1>1. /\ answer[r].code = "ok" => cmd'[r] = cmd[r]
      /\ answer[r].event = "authorization.permission_denied" => cmd'[r] = cmd[r]
  OBVIOUS
<1> QED BY <1>1 DEF Answered

(* Bootstraps and administration do not touch requests.                    *)
LEMMA RequestsAside ==
    ASSUME RequestInv, Observe, UNCHANGED <<pc, cmd, context, answer>>
    PROVE  RequestInv'
<1> SUFFICES ASSUME NEW r \in Requests PROVE Named(r)' /\ Witness(r)' /\ Answered(r)'
  BY DEF RequestInv
<1>1. Named(r) /\ Witness(r) /\ Answered(r)
  BY DEF RequestInv
<1>2. Named(r)'
  BY <1>1 DEF Named
<1> QED BY <1>1, <1>2, Grows, WitnessStays, AnsweredStays

-----------------------------------------------------------------------------
(* What is kept of tables and bootstraps.                                  *)
Kept == TablesOK' /\ TrailOK' /\ MembershipLifecycle' /\ BootInv'

(* A step of an installer that commits nothing.                            *)
LEMMA BootMove ==
    ASSUME TenancyInv, NEW i \in Installers, NEW l \in Booting \cup {"failed"},
           boot[i] \notin {"created", "refused"}, BootGoto(i, l),
           UNCHANGED <<identity, trail>>,
           draft' \in [Installers -> Pairs \cup {<<None, None>>}],
           \A j \in Installers \ {i} : draft'[j] = draft[j],
           l \in Booting => \A j \in Installers \ {i} : boot[j] \notin Booting,
           l \in {"users_counted", "creating", "inserted"} =>
              \A j \in Installers : boot[j] # "created",
           l = "inserted" => draft'[i] \in Pairs
    PROVE  Kept
<1>1. TablesOK /\ TrailOK /\ boot' = [boot EXCEPT ![i] = l] /\ BootInv
  BY Types DEF TenancyInv, BootGoto
<1>2. /\ boot'[i] = l /\ \A j \in Installers \ {i} : boot'[j] = boot[j]
      /\ boot' \in [Installers -> BootPlaces]
  BY <1>1 DEF TablesOK, BootPlaces
<1>3. TablesOK' /\ TrailOK'
  BY <1>1, <1>2 DEF TablesOK, TrailOK, identity
<1>4. MembershipLifecycle'
  BY DEF TenancyInv, MembershipLifecycle, identity
<1>5. l \notin {"created", "refused"}
  BY DEF Booting
<1>6. BootLocked'
  BY <1>1, <1>2 DEF BootInv, BootLocked
<1>7. BootAlone'
  BY <1>1, <1>2, <1>5 DEF BootInv, BootAlone
<1>8. Drafted'
  BY <1>1, <1>2, <1>5 DEF BootInv, Drafted, identity
<1>9. BootstrapOnce'
  BY <1>1, <1>2, <1>5 DEF BootInv, BootstrapOnce, identity
<1>10. OwnerRemains'
  BY <1>1, <1>2, <1>5 DEF BootInv, OwnerRemains, ActiveOwner, identity
<1> QED BY <1>3, <1>4, <1>6, <1>7, <1>8, <1>9, <1>10 DEF Kept, BootInv

LEMMA BootMoves ==
    ASSUME TenancyInv, NEW i \in Installers,
           \/ BootLock(i) \/ BootCountUsers(i) \/ BootCountOrganizations(i) \/ BootFail(i)
           \/ \E u \in Users, o \in Organizations : BootInsert(i, u, o)
    PROVE  Kept
<1>1. TablesOK /\ BootLocked /\ BootAlone /\ Drafted
  BY Types DEF TenancyInv, BootInv
<1>2. draft \in [Installers -> Pairs \cup {<<None, None>>}]
  BY <1>1 DEF TablesOK
<1>3. boot[i] \in Booting => \A j \in Installers \ {i} : boot[j] \notin Booting
  BY <1>1 DEF BootLocked
<1>4. CASE BootLock(i)
  BY <1>2, <1>4, BootMove DEF BootLock, Booting
<1>5. CASE BootCountUsers(i)
  <2>1. users = {} => \A j \in Installers : boot[j] # "created"
    BY <1>1 DEF Drafted
  <2>2. /\ boot[i] = "locked" /\ UNCHANGED <<identity, trail, draft>>
        /\ \/ BootGoto(i, "refusing")
           \/ users = {} /\ BootGoto(i, "users_counted")
    BY <1>5 DEF BootCountUsers
  <2> QED BY <1>2, <1>3, <2>1, <2>2, BootMove DEF Booting
<1>6. CASE BootCountOrganizations(i)
  <2>1. /\ boot[i] = "users_counted" /\ UNCHANGED <<identity, trail, draft>>
        /\ BootGoto(i, "refusing") \/ BootGoto(i, "creating")
    BY <1>6 DEF BootCountOrganizations
  <2>2. \A j \in Installers : boot[j] # "created"
    BY <1>1, <2>1 DEF BootAlone
  <2> QED BY <1>2, <1>3, <2>1, <2>2, BootMove DEF Booting
<1>7. CASE BootFail(i)
  BY <1>2, <1>7, BootMove DEF BootFail, Booting
<1>8. ASSUME NEW u \in Users, NEW o \in Organizations, BootInsert(i, u, o)
      PROVE  Kept
  <2>1. /\ boot[i] = "creating" /\ UNCHANGED <<identity, trail>>
        /\ BootGoto(i, "failed") \/ BootGoto(i, "inserted")
        /\ draft' = [draft EXCEPT ![i] = <<u, o>>]
    BY <1>8 DEF BootInsert
  <2>2. /\ draft' \in [Installers -> Pairs \cup {<<None, None>>}] /\ draft'[i] \in Pairs
        /\ \A j \in Installers \ {i} : draft'[j] = draft[j]
    BY <1>2, <2>1 DEF Pairs
  <2>3. \A j \in Installers : boot[j] # "created"
    BY <1>1, <2>1 DEF BootAlone
  <2> QED BY <1>3, <2>1, <2>2, <2>3, BootMove DEF Booting
<1> QED BY <1>4, <1>5, <1>6, <1>7, <1>8

LEMMA BootRefuseStep ==
    ASSUME TenancyInv, NEW i \in Installers, BootRefuse(i)
    PROVE  Kept
<1>1. /\ TablesOK /\ TrailOK /\ boot' = [boot EXCEPT ![i] = "refused"] /\ BootInv
      /\ boot[i] = "refusing" /\ UNCHANGED <<identity, draft>>
      /\ trail' = trail \cup {<<i, "bootstrap.refused">>}
  BY Types DEF TenancyInv, BootGoto, BootRefuse
<1>2. /\ boot'[i] = "refused" /\ \A j \in Installers \ {i} : boot'[j] = boot[j]
      /\ boot' \in [Installers -> BootPlaces]
  BY <1>1 DEF TablesOK, BootPlaces
<1>3. TablesOK' /\ TrailOK'
  BY <1>1, <1>2 DEF TablesOK, TrailOK, identity, Events
<1>4. MembershipLifecycle'
  BY <1>1 DEF TenancyInv, MembershipLifecycle, identity
<1>5. BootLocked' /\ BootAlone' /\ Drafted'
  BY <1>1, <1>2 DEF BootInv, BootLocked, BootAlone, Drafted, Booting, identity
<1>6. BootstrapOnce'
  <2>1. \A j \in Installers :
          /\ <<j, "bootstrap.owner_created">> \in trail' <=> <<j, "bootstrap.owner_created">> \in trail
          /\ <<j, "bootstrap.refused">> \in trail' <=> j = i \/ <<j, "bootstrap.refused">> \in trail
    BY <1>1
  <2> QED BY <1>1, <1>2, <2>1 DEF BootInv, BootstrapOnce, identity
<1>7. OwnerRemains'
  BY <1>1, <1>2 DEF BootInv, OwnerRemains, ActiveOwner, identity
<1> QED BY <1>3, <1>4, <1>5, <1>6, <1>7 DEF Kept, BootInv

LEMMA BootCommitStep ==
    ASSUME TenancyInv, NEW i \in Installers, BootCommit(i)
    PROVE  Kept
<1> DEFINE m == MembershipActivateDirectly("owner")
<1>1. /\ TablesOK /\ TrailOK /\ boot' = [boot EXCEPT ![i] = "created"] /\ BootInv
      /\ boot[i] = "inserted" /\ UNCHANGED draft
      /\ trail' = trail \cup {<<i, "bootstrap.owner_created">>}
      /\ users' = users \cup {draft[i][1]} /\ credentials' = credentials \cup {draft[i][1]}
      /\ organizations' = [organizations EXCEPT ![draft[i][2]] = "active"]
      /\ memberships' = [memberships EXCEPT ![draft[i]] = m]
  BY Types DEF TenancyInv, BootGoto, BootCommit
<1>2. /\ boot'[i] = "created" /\ \A j \in Installers \ {i} : boot'[j] = boot[j]
      /\ boot' \in [Installers -> BootPlaces]
  BY <1>1 DEF TablesOK, BootPlaces
<1>3. draft[i] \in Pairs /\ draft[i][1] \in Users /\ draft[i][2] \in Organizations
  BY <1>1 DEF BootInv, Drafted, Pairs
<1>4. m \in Membership /\ LifecycleState(m) /\ m.status = "active" /\ m.role = "owner"
  BY MembershipCreated DEF Roles
<1> HIDE DEF m
<1>5. TablesOK' /\ TrailOK'
  <2>1. TrailOK'
    BY <1>1 DEF TrailOK, Events
  <2>2. users' \subseteq Users /\ credentials' \subseteq Users
    BY <1>1, <1>3 DEF TablesOK
  <2>3. organizations' \in [Organizations -> {"absent", "active", "inactive"}]
    BY <1>1, <1>3 DEF TablesOK
  <2>4. memberships' \in [Pairs -> Membership]
    BY <1>1, <1>3, <1>4 DEF TablesOK
  <2> QED BY <1>1, <1>2, <2>1, <2>2, <2>3, <2>4 DEF TablesOK
<1>6. MembershipLifecycle'
  <2>1. \A p \in Pairs : memberships'[p] = m \/ memberships'[p] = memberships[p]
    BY <1>1 DEF TablesOK
  <2> QED BY <1>4, <2>1 DEF TenancyInv, MembershipLifecycle, LifecycleState
<1>7. \A j \in Installers \ {i} : boot[j] # "created" /\ boot[j] \notin Booting
  BY <1>1 DEF BootInv, BootLocked, BootAlone, Booting
<1>8. BootLocked' /\ BootAlone'
  BY <1>2, <1>7 DEF BootLocked, BootAlone, Booting
<1>9. Drafted'
  BY <1>1, <1>2, <1>3, <1>7 DEF Drafted, Booting
<1>10. BootstrapOnce'
  <2>1. \A j \in Installers :
          /\ <<j, "bootstrap.owner_created">> \in trail'
               <=> j = i \/ <<j, "bootstrap.owner_created">> \in trail
          /\ <<j, "bootstrap.refused">> \in trail' <=> <<j, "bootstrap.refused">> \in trail
    BY <1>1
  <2> QED BY <1>1, <1>2, <1>7, <2>1 DEF BootInv, BootstrapOnce
<1>11. OwnerRemains'
  <2>1. memberships'[draft[i]] = m
    BY <1>1, <1>3 DEF TablesOK
  <2> QED BY <1>1, <1>2, <1>3, <1>4, <1>7, <2>1 DEF OwnerRemains, ActiveOwner
<1> QED BY <1>5, <1>6, <1>8, <1>9, <1>10, <1>11 DEF Kept, BootInv

LEMMA BootstrapStep ==
    ASSUME TenancyInv, Bootstrap, Observe PROVE TenancyInv'
<1>1. Kept
  BY BootMoves, BootRefuseStep, BootCommitStep DEF Bootstrap
<1>2. UNCHANGED <<pc, cmd, context, answer>>
  BY DEF Bootstrap
<1>3. RequestsOK'
  BY <1>2, Types DEF TenancyInv, RequestsOK
<1>4. RequestInv'
  BY <1>2, RequestsAside DEF TenancyInv
<1> QED BY <1>1, <1>3, <1>4, TypesNext DEF Kept, TenancyInv

-----------------------------------------------------------------------------
(* Administration changes one membership at a time, never that of the last *)
(* active owner of an organization into another.                           *)
LEMMA AdministrationKeeps ==
    ASSUME TenancyInv, UNCHANGED <<trail, boot, draft>>,
           users \subseteq users', users' \subseteq Users, credentials' = credentials,
           organizations' \in [Organizations -> {"absent", "active", "inactive"}],
           memberships' \in [Pairs -> Membership], MembershipLifecycle',
           \A p \in Pairs : ActiveOwner(p) =>
              \E q \in Pairs : q[2] = p[2] /\ ActiveOwner(q)'
    PROVE  Kept
<1>1. TablesOK' /\ TrailOK'
  BY Types DEF TenancyInv, TablesOK, TrailOK
<1>2. BootLocked' /\ BootAlone' /\ Drafted'
  BY DEF TenancyInv, BootInv, BootLocked, BootAlone, Drafted
<1>3. BootstrapOnce'
  BY DEF TenancyInv, BootInv, BootstrapOnce
<1>4. OwnerRemains'
  <2> SUFFICES ASSUME NEW i \in Installers, boot[i] = "created"
               PROVE  \E p \in Pairs : p[2] = draft[i][2] /\ ActiveOwner(p)'
    BY DEF OwnerRemains
  <2>1. PICK p \in Pairs : p[2] = draft[i][2] /\ ActiveOwner(p)
    BY DEF TenancyInv, BootInv, OwnerRemains
  <2>2. PICK q \in Pairs : q[2] = p[2] /\ ActiveOwner(q)'
    BY <2>1
  <2> QED BY <2>1, <2>2
<1> QED BY <1>1, <1>2, <1>3, <1>4 DEF Kept, BootInv

LEMMA SetMembershipKeeps ==
    ASSUME TenancyInv, UNCHANGED <<trail, boot, draft>>, NEW t \in Pairs,
           NEW m \in Membership, LifecycleState(m), SetMembership(t, m), NotLastActiveOwner(t)
    PROVE  Kept
<1>1. TablesOK /\ memberships' = [memberships EXCEPT ![t] = m]
      /\ UNCHANGED <<users, organizations, credentials>>
  BY Types DEF TenancyInv, SetMembership
<1>2. /\ memberships' \in [Pairs -> Membership] /\ memberships'[t] = m
      /\ \A p \in Pairs : p # t => memberships'[p] = memberships[p]
  BY <1>1 DEF TablesOK
<1>3. MembershipLifecycle'
  <2>1. \A p \in Pairs : LifecycleState(memberships[p])
    BY DEF TenancyInv, MembershipLifecycle
  <2>2. \A p \in Pairs : LifecycleState(memberships'[p])
    BY <1>2, <2>1
  <2>3. MembershipLifecycle' <=> \A p \in Pairs : LifecycleState(memberships'[p])
    BY DEF MembershipLifecycle, LifecycleState
  <2> QED BY <2>2, <2>3
<1>4. \A p \in Pairs : p # t /\ ActiveOwner(p) => ActiveOwner(p)'
  BY <1>2 DEF ActiveOwner
<1>5. ASSUME NEW p \in Pairs, ActiveOwner(p)
      PROVE  \E q \in Pairs : q[2] = p[2] /\ ActiveOwner(q)'
  BY <1>4, <1>5 DEF NotLastActiveOwner
<1> QED BY <1>1, <1>2, <1>3, <1>5, AdministrationKeeps DEF TablesOK

(* The policies keep the last active owner.                                *)
LEMMA MembershipSteps ==
    ASSUME TenancyInv, UNCHANGED <<trail, boot, draft>>,
           \/ \E a, t \in Pairs, role \in RolesGiven : Invite(a, t, role)
           \/ \E t \in Pairs : Activate(t)
           \/ \E a, t \in Pairs : Suspend(a, t)
           \/ \E a, t \in Pairs : Reactivate(a, t)
           \/ \E a, t \in Pairs : Remove(a, t)
           \/ \E a, t \in Pairs, role \in RolesGiven : ChangeRole(a, t, role)
    PROVE  Kept
<1>1. TablesOK /\ \A p \in Pairs : memberships[p] \in Membership
                                     /\ LifecycleState(memberships[p])
  BY Types DEF TenancyInv, MembershipLifecycle, TablesOK
<1>2. RolesGiven \subseteq Roles
  BY TenancyAssumption DEF Roles
<1>3. ASSUME NEW a \in Pairs, NEW t \in Pairs, NEW role \in RolesGiven, Invite(a, t, role)
      PROVE  Kept
  <2>1. NotLastActiveOwner(t)
    BY <1>3 DEF Invite, NotLastActiveOwner, ActiveOwner
  <2> QED BY <1>2, <1>3, <2>1, MembershipCreated, SetMembershipKeeps DEF Invite
<1>4. ASSUME NEW t \in Pairs, Activate(t) PROVE Kept
  <2>1. NotLastActiveOwner(t)
    BY <1>4 DEF Activate, NotLastActiveOwner, ActiveOwner
  <2> QED BY <1>1, <1>4, <2>1, MembershipChanged, SetMembershipKeeps DEF Activate
<1>5. ASSUME NEW a \in Pairs, NEW t \in Pairs, Suspend(a, t) PROVE Kept
  <2>1. NotLastActiveOwner(t)
    BY <1>5 DEF Suspend, TargetManageable, NotLastActiveOwner, ActiveOwner
  <2> QED BY <1>1, <1>5, <2>1, MembershipChanged, SetMembershipKeeps DEF Suspend
<1>6. ASSUME NEW a \in Pairs, NEW t \in Pairs, Reactivate(a, t) PROVE Kept
  <2>1. NotLastActiveOwner(t)
    BY <1>6 DEF Reactivate, NotLastActiveOwner, ActiveOwner
  <2> QED BY <1>1, <1>6, <2>1, MembershipChanged, SetMembershipKeeps DEF Reactivate
<1>7. ASSUME NEW a \in Pairs, NEW t \in Pairs, Remove(a, t) PROVE Kept
  <2>1. NotLastActiveOwner(t)
    BY <1>7 DEF Remove, TargetManageable, NotLastActiveOwner, ActiveOwner
  <2> QED BY <1>1, <1>7, <2>1, MembershipChanged, SetMembershipKeeps DEF Remove
<1>8. ASSUME NEW a \in Pairs, NEW t \in Pairs, NEW role \in RolesGiven, ChangeRole(a, t, role)
      PROVE  Kept
  <2>1. NotLastActiveOwner(t)
    BY <1>8 DEF ChangeRole, RoleAssignmentAllowed, NotLastActiveOwner, ActiveOwner
  <2> QED BY <1>1, <1>2, <1>8, <2>1, MembershipChanged, SetMembershipKeeps DEF ChangeRole
<1> QED BY <1>3, <1>4, <1>5, <1>6, <1>7, <1>8

LEMMA AdministrationStep ==
    ASSUME TenancyInv, Administration, Observe PROVE TenancyInv'
<1>1. UNCHANGED <<trail, boot, draft>> /\ TablesOK
  BY Types DEF Administration, TenancyInv
<1>2. ASSUME UNCHANGED <<memberships, credentials>>, users \subseteq users', users' \subseteq Users,
             organizations' \in [Organizations -> {"absent", "active", "inactive"}]
      PROVE  Kept
  <2>1. memberships' \in [Pairs -> Membership] /\ MembershipLifecycle'
    BY <1>1, <1>2 DEF TablesOK, TenancyInv, MembershipLifecycle
  <2>2. \A p \in Pairs : ActiveOwner(p) => \E q \in Pairs : q[2] = p[2] /\ ActiveOwner(q)'
    BY <1>2 DEF ActiveOwner
  <2> QED BY <1>1, <1>2, <2>1, <2>2, AdministrationKeeps
<1>3. ASSUME NEW u \in Users, AddUser(u) PROVE Kept
  BY <1>1, <1>2, <1>3 DEF AddUser, TablesOK
<1>4. ASSUME NEW o \in Organizations, AddOrganization(o) \/ ToggleOrganization(o) PROVE Kept
  <2>1. organizations' \in [Organizations -> {"absent", "active", "inactive"}]
    BY <1>1, <1>4 DEF AddOrganization, ToggleOrganization, TablesOK
  <2> QED BY <1>1, <1>2, <1>4, <2>1 DEF AddOrganization, ToggleOrganization, TablesOK
<1>5. Kept
  BY <1>1, <1>3, <1>4, MembershipSteps DEF Administration
<1>6. UNCHANGED <<pc, cmd, context, answer>>
  BY DEF Administration
<1>7. RequestsOK'
  BY <1>6, Types DEF TenancyInv, RequestsOK
<1>8. RequestInv'
  BY <1>6, RequestsAside DEF TenancyInv
<1> QED BY <1>5, <1>7, <1>8, TypesNext DEF Kept, TenancyInv

-----------------------------------------------------------------------------
(* Requests.                                                               *)

(* A running request sees what its statement reads.                        *)
LEMMA Sees ==
    ASSUME Observe, NEW r \in Requests, cmd'[r].user # None, pc[r] # "done",
           NEW o \in Organizations, cmd'[r].need = "list" \/ o = cmd'[r].org
    PROVE  \E m \in moments'[r] :
              /\ m.org = o /\ m.open = organizations'[o]
              /\ m.member = memberships'[<<cmd'[r].user, o>>].status
              /\ m.role = memberships'[<<cmd'[r].user, o>>].role
<1> DEFINE m == [org |-> o, open |-> organizations'[o],
                 member |-> memberships'[<<cmd'[r].user, o>>].status,
                 role |-> memberships'[<<cmd'[r].user, o>>].role]
<1>1. o \in IF cmd'[r].need = "list" THEN Organizations ELSE {cmd'[r].org}
  OBVIOUS
<1>2. m \in Facts(cmd[r])'
  BY <1>1 DEF Facts
<1>3. moments'[r] = moments[r] \cup Facts(cmd[r])'
  BY DEF Observe
<1>4. m \in moments'[r]
  BY <1>2, <1>3
<1> QED BY <1>4

(* No other request has moved.                                             *)
Others(r) ==
    \A q \in Requests \ {r} :
        pc'[q] = pc[q] /\ cmd'[q] = cmd[q] /\ context'[q] = context[q] /\ answer'[q] = answer[q]

(* Events of requests are not events of bootstraps.                        *)
LEMMA RequestStep ==
    ASSUME TenancyInv, Observe, NEW r \in Requests, RequestsOK', Others(r),
           UNCHANGED <<identity, boot, draft>>,
           trail' = trail \/ \E e \in Denials : trail' = trail \cup {<<r, e>>},
           Named(r)', Witness(r)', Answered(r)'
    PROVE  TenancyInv'
<1>1. TypeOK'
  <2>1. TablesOK'
    BY Types DEF TenancyInv, TablesOK, identity
  <2>2. TrailOK'
    BY Types DEF TenancyInv, TrailOK, Denials
  <2> QED BY <2>1, <2>2, TypesNext
<1>2. MembershipLifecycle'
  BY DEF TenancyInv, MembershipLifecycle, identity
<1>3. BootInv'
  <2>1. BootLocked' /\ BootAlone' /\ Drafted'
    BY DEF TenancyInv, BootInv, BootLocked, BootAlone, Drafted, identity
  <2>2. \A j \in Installers :
          /\ <<j, "bootstrap.owner_created">> \in trail'
               <=> <<j, "bootstrap.owner_created">> \in trail
          /\ <<j, "bootstrap.refused">> \in trail' <=> <<j, "bootstrap.refused">> \in trail
    BY DEF Denials
  <2>3. BootstrapOnce'
    BY <2>2 DEF TenancyInv, BootInv, BootstrapOnce, identity
  <2>4. OwnerRemains'
    BY DEF TenancyInv, BootInv, OwnerRemains, ActiveOwner, identity
  <2> QED BY <2>1, <2>3, <2>4 DEF BootInv
<1>4. RequestInv'
  <2>1. ASSUME NEW q \in Requests \ {r} PROVE Named(q)' /\ Witness(q)' /\ Answered(q)'
    <3>1. Named(q) /\ Witness(q) /\ Answered(q)
      BY DEF TenancyInv, RequestInv
    <3>2. Named(q)'
      BY <3>1 DEF Named, Others
    <3> QED BY <3>1, <3>2, Grows, WitnessStays, AnsweredStays DEF Others
  <2> QED BY <2>1 DEF RequestInv
<1> QED BY <1>1, <1>2, <1>3, <1>4 DEF TenancyInv

LEMMA Moved ==
    ASSUME RequestsOK, NEW r \in Requests, NEW l \in Places, Goto(r, l)
    PROVE  /\ pc' \in [Requests -> Places] /\ pc'[r] = l
           /\ \A q \in Requests \ {r} : pc'[q] = pc[q]
  BY DEF RequestsOK, Goto

LEMMA Denied ==
    ASSUME RequestsOK, NEW r \in Requests, NEW event \in Denials, Deny(r, event)
    PROVE  /\ pc' \in [Requests -> Places] /\ pc'[r] = "denying"
           /\ answer' \in [Requests -> Answers]
           /\ answer'[r].code = answer[r].code /\ answer'[r].event = event
           /\ answer'[r].listed = answer[r].listed
           /\ \A q \in Requests \ {r} : pc'[q] = pc[q] /\ answer'[q] = answer[q]
<1>1. answer[r] \in Answers /\ answer \in [Requests -> Answers]
  BY DEF RequestsOK
<1>2. answer' = [answer EXCEPT ![r].event = event] /\ event \in Events
  BY DEF Deny, Denials
<1>3. answer' \in [Requests -> Answers]
  BY <1>1, <1>2 DEF Answers
<1>4. /\ answer'[r].code = answer[r].code /\ answer'[r].event = event
      /\ answer'[r].listed = answer[r].listed
  BY <1>1, <1>2 DEF Answers
<1> QED BY <1>1, <1>2, <1>3, <1>4, Moved DEF Deny, Places

LEMMA Returned ==
    ASSUME RequestsOK, NEW r \in Requests, NEW code \in {"ok", "unauthorized", "forbidden"},
           NEW listed \in SUBSET Organizations, Return(r, code, listed)
    PROVE  /\ pc' \in [Requests -> Places] /\ pc'[r] = "done"
           /\ answer' \in [Requests -> Answers]
           /\ answer'[r].code = code /\ answer'[r].event = answer[r].event
           /\ answer'[r].listed = listed
           /\ \A q \in Requests \ {r} : pc'[q] = pc[q] /\ answer'[q] = answer[q]
<1>1. answer[r] \in Answers /\ answer \in [Requests -> Answers]
  BY DEF RequestsOK
<1>2. answer' = [answer EXCEPT ![r].code = code, ![r].listed = listed]
  BY DEF Return
<1>3. answer'[r] = [answer[r] EXCEPT !.code = code, !.listed = listed]
  BY <1>1, <1>2
<1>4. /\ answer'[r] \in Answers /\ answer'[r].code = code /\ answer'[r].listed = listed
      /\ answer'[r].event = answer[r].event
  BY <1>1, <1>3 DEF Answers
<1>5. \A q \in Requests \ {r} : answer'[q] = answer[q]
  BY <1>1, <1>2
<1>6. answer' \in [Requests -> Answers]
  BY <1>1, <1>2, <1>4, <1>5
<1> QED BY <1>4, <1>5, <1>6, Moved DEF Return, Places

(* What holds of r before a step.                                          *)
LEMMA Before ==
    ASSUME TenancyInv, NEW r \in Requests
    PROVE  /\ RequestsOK /\ TablesOK /\ Named(r) /\ Witness(r) /\ Answered(r)
           /\ cmd[r] \in Commands /\ answer[r] \in Answers
  BY Types DEF TenancyInv, RequestInv, RequestsOK

LEMMA AuthenticateStep ==
    ASSUME TenancyInv, Observe, NEW r \in Requests, UNCHANGED <<identity, boot, draft>>,
           NEW u \in Users, NEW o \in Organizations \cup {None}, NEW need \in Needs \cup {"list"},
           need # "list" => o \in Organizations, Authenticate(r, u, o, need)
    PROVE  TenancyInv'
<1>1. /\ pc[r] = "idle" /\ UNCHANGED <<trail, context, answer>>
      /\ cmd' = [cmd EXCEPT ![r] = [user |-> u, org |-> o, need |-> need]]
      /\ \/ need = "list" /\ Goto(r, "listing")
         \/ need # "list" /\ Goto(r, "principal")
  BY DEF Authenticate
<1>2. need \in Permissions \cup {"none", "list"}
  BY TenancyAssumption DEF Permissions, RolesWith
<1>3. cmd' \in [Requests -> Commands] /\ cmd'[r] = [user |-> u, org |-> o, need |-> need]
  BY <1>1, <1>2, Before DEF RequestsOK, Commands
<1>4. /\ pc' \in [Requests -> Places] /\ \A q \in Requests \ {r} : pc'[q] = pc[q]
      /\ \/ need = "list" /\ pc'[r] = "listing"
         \/ need # "list" /\ pc'[r] = "principal"
  BY <1>1, Before, Moved DEF Places
<1>5. RequestsOK'
  BY <1>1, <1>3, <1>4, Before DEF RequestsOK
<1>6. Others(r)
  BY <1>1, <1>4, Before DEF Others, RequestsOK
<1>7. /\ answer[r].event = "none" /\ answer[r].code = "none" /\ answer[r].listed = {}
  BY <1>1, Before DEF Named
<1>8. Named(r)'
  BY <1>1, <1>3, <1>4, <1>7 DEF Named
<1>9. Witness(r)'
  BY <1>4 DEF Witness
<1>10. Answered(r)'
  BY <1>1, <1>7 DEF Answered
<1> QED BY <1>1, <1>5, <1>6, <1>8, <1>9, <1>10, RequestStep

(* A step that ends in a denial which is true.                             *)
LEMMA DenyStep ==
    ASSUME TenancyInv, Observe, NEW r \in Requests, UNCHANGED <<identity, boot, draft>>,
           pc[r] \notin {"denying", "done"}, NEW event \in Denials, Deny(r, event),
           UNCHANGED <<trail, cmd, context>>,
           event = "tenancy.access_denied" =>
              \E m \in moments'[r] : m.open = "absent" \/ m.member = "absent",
           event = "tenancy.inactive_organization" => \E m \in moments'[r] : m.open = "inactive",
           event = "tenancy.inactive_membership" =>
              \E m \in moments'[r] : m.member \in {"invited", "suspended", "removed"},
           event = "authorization.permission_denied" =>
              \E m \in moments'[r] : m.member = "active" /\ ~Allows(m.role, cmd[r].need)
    PROVE  TenancyInv'
<1>1. /\ pc' \in [Requests -> Places] /\ pc'[r] = "denying"
      /\ answer' \in [Requests -> Answers]
      /\ answer'[r].code = answer[r].code /\ answer'[r].event = event
      /\ answer'[r].listed = answer[r].listed
      /\ \A q \in Requests \ {r} : pc'[q] = pc[q] /\ answer'[q] = answer[q]
  BY Before, Denied
<1>2. RequestsOK' /\ Others(r)
  BY <1>1, Before DEF RequestsOK, Others
<1>3. answer[r].code = "none" /\ answer[r].listed = {}
  BY Before DEF Named
<1>4. Named(r)'
  BY <1>1, <1>3 DEF Named
<1>5. Witness(r)'
  BY <1>1 DEF Witness
<1>6. Answered(r)'
  BY <1>1, <1>3 DEF Answered
<1> QED BY <1>2, <1>4, <1>5, <1>6, RequestStep

LEMMA RejectTokenStep ==
    ASSUME TenancyInv, Observe, NEW r \in Requests, UNCHANGED <<identity, boot, draft>>,
           RejectToken(r)
    PROVE  TenancyInv'
<1>1. "authentication.access_token_rejected" \in Denials
  BY DEF Denials, Events
<1> QED BY <1>1, DenyStep DEF RejectToken

LEMMA ReadOrganizationStep ==
    ASSUME TenancyInv, Observe, NEW r \in Requests, UNCHANGED <<identity, boot, draft>>,
           ReadOrganization(r)
    PROVE  TenancyInv'
<1> DEFINE o == cmd[r].org
<1>1. /\ pc[r] = "principal" /\ UNCHANGED <<trail, cmd, context>>
      /\ o \in Organizations /\ cmd[r].user \in Users /\ cmd[r].need # "list"
      /\ organizations[o] \in {"absent", "active", "inactive"}
  BY Before DEF ReadOrganization, Named, TablesOK
<1>2. cmd[r].user # None
  BY <1>1, TenancyAssumption
<1>3. PICK m \in moments'[r] : m.open = organizations[o]
  BY <1>1, <1>2, Sees, ZenonT(30) DEF identity
<1>4. {"tenancy.access_denied", "tenancy.inactive_organization"} \subseteq Denials
  BY DEF Denials, Events
<1>5. CASE organizations[o] = "absent"
  <2>1. Deny(r, "tenancy.access_denied")
    BY <1>5 DEF ReadOrganization
  <2> QED BY <1>1, <1>3, <1>4, <1>5, <2>1, DenyStep
<1>6. CASE organizations[o] = "inactive"
  <2>1. Deny(r, "tenancy.inactive_organization")
    BY <1>6 DEF ReadOrganization
  <2> QED BY <1>1, <1>3, <1>4, <1>6, <2>1, DenyStep
<1>7. CASE organizations[o] = "active"
  <2>1. Goto(r, "organization") /\ UNCHANGED answer
    BY <1>7 DEF ReadOrganization
  <2>2. /\ pc' \in [Requests -> Places] /\ pc'[r] = "organization"
        /\ \A q \in Requests \ {r} : pc'[q] = pc[q]
    BY <2>1, Before, Moved DEF Places
  <2>3. RequestsOK' /\ Others(r)
    BY <1>1, <2>1, <2>2, Before DEF RequestsOK, Others
  <2>4. Named(r)'
    BY <1>1, <2>1, <2>2, Before DEF Named
  <2>5. Witness(r)'
    BY <1>3, <1>7, <2>2 DEF Witness
  <2>6. Answered(r)'
    BY <1>1, <2>1, Before, Grows, AnsweredStays
  <2> QED BY <1>1, <2>3, <2>4, <2>5, <2>6, RequestStep
<1> QED BY <1>1, <1>5, <1>6, <1>7

LEMMA ReadMembershipStep ==
    ASSUME TenancyInv, Observe, NEW r \in Requests, UNCHANGED <<identity, boot, draft>>,
           ReadMembership(r)
    PROVE  TenancyInv'
<1> DEFINE o == cmd[r].org
           s == memberships[<<cmd[r].user, o>>]
<1>1. /\ pc[r] = "organization" /\ UNCHANGED <<trail, cmd>>
      /\ o \in Organizations /\ cmd[r].user \in Users /\ cmd[r].need # "list"
      /\ <<cmd[r].user, o>> \in Pairs /\ s \in Membership
  BY Before DEF ReadMembership, Named, TablesOK, Pairs
<1>2. cmd[r].user # None
  BY <1>1, TenancyAssumption
<1>3. PICK m \in moments'[r] : m.member = s.status /\ m.role = s.role
  BY <1>1, <1>2, Sees DEF identity
<1>4. /\ s.status \in {"absent", "invited", "active", "suspended", "removed"}
      /\ s.role \in Roles \cup {None}
  BY <1>1 DEF Membership
<1>5. {"tenancy.access_denied", "tenancy.inactive_membership"} \subseteq Denials
  BY DEF Denials, Events
<1>6. CASE s.status = "absent"
  <2>1. Deny(r, "tenancy.access_denied") /\ UNCHANGED context
    BY <1>6 DEF ReadMembership
  <2> QED BY <1>1, <1>3, <1>5, <1>6, <2>1, DenyStep
<1>7. CASE s.status \in {"invited", "suspended", "removed"}
  <2>1. Deny(r, "tenancy.inactive_membership") /\ UNCHANGED context
    BY <1>7 DEF ReadMembership
  <2> QED BY <1>1, <1>3, <1>5, <1>7, <2>1, DenyStep
<1>8. CASE s.status = "active"
  <2>1. /\ Goto(r, "context") /\ UNCHANGED answer
        /\ context' = [context EXCEPT ![r][o] = s.role]
    BY <1>8 DEF ReadMembership
  <2>2. /\ pc' \in [Requests -> Places] /\ pc'[r] = "context"
        /\ \A q \in Requests \ {r} : pc'[q] = pc[q]
    BY <2>1, Before, Moved DEF Places
  <2>3. /\ context' \in [Requests -> [Organizations -> Roles \cup {None}]]
        /\ context'[r][o] = s.role
        /\ \A q \in Requests \ {r} : context'[q] = context[q]
    <3> HIDE DEF s, o
    <3> QED BY <1>1, <1>4, <2>1, Before DEF RequestsOK
  <2>4. RequestsOK' /\ Others(r)
    BY <1>1, <2>1, <2>2, <2>3, Before DEF RequestsOK, Others
  <2>5. Named(r)'
    BY <1>1, <2>1, <2>2, Before DEF Named
  <2>6. Witness(r)'
    <3>1. \E n \in moments'[r] : n.open = "active"
      BY <1>1, Before, Grows DEF Witness
    <3>2. \E n \in moments'[r] : n.member = "active" /\ n.role = context'[r][cmd'[r].org]
      BY <1>1, <1>3, <1>8, <2>3
    <3> QED BY <2>2, <3>1, <3>2 DEF Witness
  <2>7. Answered(r)'
    BY <1>1, <2>1, Before, Grows, AnsweredStays
  <2> QED BY <1>1, <2>4, <2>5, <2>6, <2>7, RequestStep
<1> QED BY <1>4, <1>6, <1>7, <1>8

LEMMA RequirePermissionStep ==
    ASSUME TenancyInv, Observe, NEW r \in Requests, UNCHANGED <<identity, boot, draft>>,
           RequirePermission(r)
    PROVE  TenancyInv'
<1> DEFINE ok == cmd[r].need = "none" \/ Allows(context[r][cmd[r].org], cmd[r].need)
<1>1. pc[r] = "context" /\ UNCHANGED <<trail, cmd, context>> /\ Named(r) /\ Answered(r)
  BY Before DEF RequirePermission
<1>2. PICK n \in moments'[r] : n.open = "active"
  BY <1>1, Before, Grows DEF Witness
<1>3. PICK m \in moments'[r] : m.member = "active" /\ m.role = context[r][cmd[r].org]
  BY <1>1, Before, Grows DEF Witness
<1>4. CASE ok
  <2>1. Return(r, "ok", {})
    BY <1>4 DEF RequirePermission
  <2>2. /\ pc' \in [Requests -> Places] /\ pc'[r] = "done" /\ answer' \in [Requests -> Answers]
        /\ answer'[r].code = "ok" /\ answer'[r].event = answer[r].event
        /\ answer'[r].listed = {}
        /\ \A q \in Requests \ {r} : pc'[q] = pc[q] /\ answer'[q] = answer[q]
    BY <2>1, Before, Returned
  <2>3. RequestsOK' /\ Others(r)
    BY <1>1, <2>2, Before DEF RequestsOK, Others
  <2>4. Named(r)' /\ Witness(r)'
    BY <1>1, <2>2 DEF Named, Witness
  <2>5. cmd[r].need = "none" \/ Allows(m.role, cmd[r].need)
    BY <1>3, <1>4
  <2>6. Answered(r)'
    BY <1>1, <1>2, <1>3, <2>2, <2>5 DEF Answered, Named
  <2> QED BY <1>1, <2>3, <2>4, <2>6, RequestStep
<1>5. CASE ~ok
  <2>1. Deny(r, "authorization.permission_denied")
    BY <1>5 DEF RequirePermission
  <2>2. "authorization.permission_denied" \in Denials
    BY DEF Denials, Events
  <2>3. ~Allows(m.role, cmd[r].need)
    BY <1>3, <1>5
  <2> QED BY <1>1, <1>3, <2>1, <2>2, <2>3, DenyStep
<1> QED BY <1>4, <1>5

LEMMA RecordDenialStep ==
    ASSUME TenancyInv, Observe, NEW r \in Requests, UNCHANGED <<identity, boot, draft>>,
           NEW stored \in BOOLEAN, RecordDenial(r, stored)
    PROVE  TenancyInv'
<1>1. /\ pc[r] = "denying" /\ UNCHANGED <<cmd, context>> /\ Named(r) /\ Answered(r)
      /\ answer[r].event \in Denials /\ answer[r].code = "none" /\ answer[r].listed = {}
      /\ trail' = trail \/ trail' = trail \cup {<<r, answer[r].event>>}
  BY Before DEF RecordDenial, Named
<1>2. PICK code \in {"unauthorized", "forbidden"} : Return(r, code, {})
  BY DEF RecordDenial
<1>3. /\ pc' \in [Requests -> Places] /\ pc'[r] = "done" /\ answer' \in [Requests -> Answers]
      /\ answer'[r].code = code /\ answer'[r].event = answer[r].event
      /\ answer'[r].listed = {}
      /\ \A q \in Requests \ {r} : pc'[q] = pc[q] /\ answer'[q] = answer[q]
  BY <1>2, Before, Returned
<1>4. RequestsOK' /\ Others(r)
  BY <1>1, <1>3, Before DEF RequestsOK, Others
<1>5. Named(r)' /\ Witness(r)'
  BY <1>1, <1>3 DEF Named, Witness
<1>6. Answered(r)'
  BY <1>1, <1>3, Grows DEF Answered
<1> QED BY <1>1, <1>4, <1>5, <1>6, RequestStep

LEMMA ListMembershipsStep ==
    ASSUME TenancyInv, Observe, NEW r \in Requests, UNCHANGED <<identity, boot, draft>>,
           ListMemberships(r)
    PROVE  TenancyInv'
<1> DEFINE u == cmd[r].user
           roles == [o \in Organizations |-> IF memberships[<<u, o>>].status = "active"
                                             THEN memberships[<<u, o>>].role ELSE None]
<1>1. /\ pc[r] = "listing" /\ UNCHANGED <<trail, cmd, answer>> /\ Goto(r, "memberships")
      /\ context' = [context EXCEPT ![r] = roles]
      /\ u \in Users /\ cmd[r].need = "list" /\ u # None
  BY Before, TenancyAssumption DEF ListMemberships, Named
<1>2. /\ pc' \in [Requests -> Places] /\ pc'[r] = "memberships"
      /\ \A q \in Requests \ {r} : pc'[q] = pc[q]
  BY <1>1, Before, Moved DEF Places
<1>3. \A o \in Organizations : memberships[<<u, o>>].role \in Roles \cup {None}
  BY <1>1, Before DEF TablesOK, Pairs, Membership
<1>4. roles \in [Organizations -> Roles \cup {None}]
  BY <1>3
<1>5. \A o \in Organizations : roles[o] # None => memberships[<<u, o>>].status = "active"
  OBVIOUS
<1> HIDE DEF roles
<1>6. /\ context' \in [Requests -> [Organizations -> Roles \cup {None}]]
      /\ context'[r] = roles /\ \A q \in Requests \ {r} : context'[q] = context[q]
  BY <1>1, <1>4, Before DEF RequestsOK
<1>7. RequestsOK' /\ Others(r)
  BY <1>1, <1>2, <1>6, Before DEF RequestsOK, Others
<1>8. Named(r)'
  BY <1>1, <1>2, Before DEF Named
<1>9. Witness(r)'
  <2>1. ASSUME NEW o \in Organizations, roles[o] # None
        PROVE  \E m \in moments'[r] : m.org = o /\ m.member = "active"
    <3>1. /\ memberships'[<<cmd'[r].user, o>>].status = "active" /\ pc[r] # "done"
          /\ cmd'[r].user # None /\ cmd'[r].need = "list"
      BY <1>1, <1>5, <2>1 DEF identity
    <3> QED BY <3>1, Sees
  <2> QED BY <1>2, <1>6, <2>1 DEF Witness
<1>10. Answered(r)'
  BY <1>1, Before, Grows, AnsweredStays
<1> QED BY <1>1, <1>7, <1>8, <1>9, <1>10, RequestStep

LEMMA ListOrganizationsStep ==
    ASSUME TenancyInv, Observe, NEW r \in Requests, UNCHANGED <<identity, boot, draft>>,
           NEW listed \in SUBSET Organizations, ListOrganizations(r, listed)
    PROVE  TenancyInv'
<1>1. /\ pc[r] = "memberships" /\ UNCHANGED <<trail, cmd, context>> /\ Named(r) /\ Answered(r)
      /\ Return(r, "ok", listed) /\ cmd[r].need = "list" /\ cmd[r].user # None
      /\ listed \subseteq Organizations
      /\ \A o \in listed : context[r][o] # None /\ organizations[o] = "active"
  BY Before, TenancyAssumption DEF ListOrganizations, Named
<1>2. ASSUME NEW o \in Organizations, o \in listed
      PROVE  /\ \E m \in moments'[r] : m.org = o /\ m.open = "active"
             /\ \E m \in moments'[r] : m.org = o /\ m.member = "active"
  <2>1. \E m \in moments'[r] : m.org = o /\ m.open = "active"
    <3>1. /\ o \in Organizations /\ organizations'[o] = "active" /\ pc[r] # "done"
          /\ cmd'[r].user # None /\ cmd'[r].need = "list"
      BY <1>1, <1>2 DEF identity
    <3>2. \E m \in moments'[r] : m.org = o /\ m.open = organizations'[o]
      BY <3>1, Sees, ZenonT(30)
    <3> QED BY <3>1, <3>2
  <2>2. \E m \in moments[r] : m.org = o /\ m.member = "active"
    BY <1>1, <1>2, Before DEF Witness
  <2> QED BY <2>1, <2>2, Grows
<1>3. /\ pc' \in [Requests -> Places] /\ pc'[r] = "done" /\ answer' \in [Requests -> Answers]
      /\ answer'[r].code = "ok" /\ answer'[r].event = answer[r].event
      /\ answer'[r].listed = listed
      /\ \A q \in Requests \ {r} : pc'[q] = pc[q] /\ answer'[q] = answer[q]
  BY <1>1, Before, Returned
<1>4. RequestsOK' /\ Others(r)
  BY <1>1, <1>3, Before DEF RequestsOK, Others
<1>5. Named(r)' /\ Witness(r)'
  BY <1>1, <1>3 DEF Named, Witness
<1>6. Answered(r)'
  BY <1>1, <1>2, <1>3 DEF Answered, Named
<1> QED BY <1>1, <1>4, <1>5, <1>6, RequestStep

LEMMA NextStep == TenancyInv /\ [Next]_vars => TenancyInv'
<1> SUFFICES ASSUME TenancyInv, [Next]_vars PROVE TenancyInv'
  OBVIOUS
<1>1. CASE UNCHANGED vars
  <2>1. TypeOK' /\ MembershipLifecycle'
    BY <1>1 DEF vars, TenancyInv, TypeOK, MembershipLifecycle
  <2>2. BootLocked' /\ BootAlone' /\ Drafted' /\ BootstrapOnce' /\ OwnerRemains'
    BY <1>1 DEF vars, TenancyInv, BootInv, BootLocked, BootAlone, Drafted, BootstrapOnce,
                OwnerRemains, ActiveOwner
  <2>3. ASSUME NEW r \in Requests PROVE Named(r)' /\ Witness(r)' /\ Answered(r)'
    <3>1. Named(r)'
      BY <1>1, Before DEF vars, Named
    <3> QED BY <1>1, <3>1, Before, WitnessStays, AnsweredStays DEF vars
  <2> QED BY <2>1, <2>2, <2>3 DEF TenancyInv, BootInv, RequestInv
<1>2. ASSUME Request, Observe PROVE TenancyInv'
  <2>1. UNCHANGED <<identity, boot, draft>>
    BY <1>2 DEF Request
  <2>2. ASSUME NEW r \in Requests, NEW u \in Users, NEW o \in Organizations, NEW need \in Needs,
               Authenticate(r, u, o, need)
        PROVE  TenancyInv'
    BY <1>2, <2>1, <2>2, AuthenticateStep
  <2>3. ASSUME NEW r \in Requests, NEW u \in Users, Authenticate(r, u, None, "list")
        PROVE  TenancyInv'
    BY <1>2, <2>1, <2>3, AuthenticateStep
  <2> QED BY <1>2, <2>1, <2>2, <2>3, RejectTokenStep, ReadOrganizationStep, ReadMembershipStep,
             RequirePermissionStep, RecordDenialStep, ListMembershipsStep,
             ListOrganizationsStep DEF Request
<1> QED BY <1>1, <1>2, BootstrapStep, AdministrationStep DEF Next

(* The inductive invariant, whatever bootstraps, administrators and        *)
(* requests do between each other's statements (BootstrapOwner,            *)
(* MembershipPolicy, ResolveTenantContext).                                *)
THEOREM TenancyHolds == Spec => []TenancyInv
<1>1. Init => TenancyInv
  BY InitHolds
<1>2. TenancyInv /\ [Next]_vars => TenancyInv'
  BY NextStep
<1> QED BY <1>1, <1>2, PTL DEF Spec

(* Tables, bootstraps and requests are well typed.                         *)
THEOREM TenancyTypeCorrect == Spec => []TypeOK
<1>1. TenancyInv => TypeOK
  BY DEF TenancyInv
<1> QED BY <1>1, TenancyHolds, PTL

(* Every membership satisfies _validate_lifecycle_state, after any number  *)
(* of changes.                                                             *)
THEOREM LifecyclesAreValid == Spec => []MembershipLifecycle
<1>1. TenancyInv => MembershipLifecycle
  BY DEF TenancyInv
<1> QED BY <1>1, TenancyHolds, PTL

(* One owner is bootstrapped however many installers run: the advisory     *)
(* lock covers the counts and the INSERTs of BootstrapOwner.               *)
THEOREM OneBootstrap == Spec => []BootstrapOnce
<1>1. TenancyInv => BootstrapOnce
  BY DEF TenancyInv, BootInv
<1> QED BY <1>1, TenancyHolds, PTL

(* The bootstrapped organization keeps an active owner after any number of *)
(* changes the policies allow (ensure_not_last_active_owner).              *)
THEOREM NoOwnerlessOrganization == Spec => []OwnerRemains
<1>1. TenancyInv => OwnerRemains
  BY DEF TenancyInv, BootInv
<1> QED BY <1>1, TenancyHolds, PTL

(* Every answer of tenant resolution was true at a moment of the request   *)
(* (ResolveTenantContext, require_permission, ListUserOrganizations).      *)
THEOREM AnswersWereTrue == Spec => []AnswerWasTrue
<1>1. TenancyInv => AnswerWasTrue
  BY DEF TenancyInv, RequestInv, Answered, AnswerWasTrue
<1> QED BY <1>1, TenancyHolds, PTL
=============================================================================
