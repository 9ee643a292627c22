------------------------------- MODULE Tenancy -------------------------------
(***************************************************************************)
(* Who may act in which organization: the first-owner bootstrap            *)
(* (application/security/bootstrap.py), organizations and memberships      *)
(* (domain/identity), the policies that guard their administration, and    *)
(* the resolution of a request into a tenant context with permissions      *)
(* (application/authorization, apps/api dependencies.py).                  *)
(*                                                                         *)
(* A user is named by its normalized email, an organization by its slug,   *)
(* a membership by both: all three are unique.  Bootstraps and requests    *)
(* run one statement per step.  The repository has the policies, the       *)
(* entities and the repositories of membership administration but no use   *)
(* case that calls them; the caller is external and is taken to check and  *)
(* write in one step, which the repositories alone do not ensure.          *)
(***************************************************************************)
EXTENDS Naturals, FiniteSets

CONSTANTS
    Users,          \* normalized emails
    Organizations,  \* slugs
    Installers,     \* runs of workflowforge-bootstrap-owner
    Requests,       \* HTTP requests
    RolesGiven,     \* roles that invitations and role changes name
    Needs,          \* permissions that the routes requested need, or "none"
    MaxResults,     \* ListUserOrganizations.max_results
    MaxChanges,     \* bound on the changes external callers make
    None

ASSUME TenancyAssumption ==
    /\ RolesGiven \subseteq {"owner", "admin", "operator", "reviewer", "auditor"}
    /\ Needs \subseteq {"none", "security_manage", "membership_update", "audit_read",
                        "document_write", "case_comment", "organization_read"}
    /\ MaxResults \in Nat \ {0} /\ MaxChanges \in Nat
    /\ None \notin Users \cup Organizations

VARIABLES
    users,          \* users table
    organizations,  \* organizations table: "absent", "active" or "inactive"
    memberships,    \* memberships table
    credentials,    \* users with a password_credentials row
    trail,          \* committed audit events: who wrote it and its type
    boot,           \* where a bootstrap is
    draft,          \* the user and organization a bootstrap creates
    pc,             \* where a request is
    cmd,            \* its user, organization, and the permission it needs
    context,        \* the roles it has read, by organization
    answer,         \* what it returned
    moments,        \* history: what was so of its user since it arrived
    changes         \* changes external callers have made

identity == <<users, organizations, memberships, credentials>>
vars == <<users, organizations, memberships, credentials, trail, boot, draft,
          pc, cmd, context, answer, moments, changes>>

-----------------------------------------------------------------------------
(* Roles and permissions.                                                  *)

Roles == {"owner", "admin", "operator", "reviewer", "auditor"}

(* _ROLE_PERMISSIONS; one permission for every set of roles it gives one   *)
(* to, and all those of the table behave as one of these.                  *)
RolesWith == [security_manage   |-> {"owner"},
              membership_update |-> {"owner", "admin"},
              audit_read        |-> {"owner", "admin", "auditor"},
              document_write    |-> {"owner", "admin", "operator"},
              case_comment      |-> {"owner", "admin", "operator", "reviewer"},
              organization_read |-> Roles]

Permissions == DOMAIN RolesWith

(* AuthorizationPolicy.allows over the permissions of a TenantContext.     *)
Allows(role, permission) == role \in RolesWith[permission]

-----------------------------------------------------------------------------
(* The Membership entity: role, status and the dates that are set.         *)

Pairs == Users \X Organizations

Membership == [status : {"absent", "invited", "active", "suspended", "removed"},
               role   : Roles \cup {None},
               dates  : SUBSET {"invited", "joined", "suspended", "removed"}]

NoMembership == [status |-> "absent", role |-> None, dates |-> {}]

MembershipInvite(role) ==
    [status |-> "invited", role |-> role, dates |-> {"invited"}]

MembershipActivateDirectly(role) ==
    [status |-> "active", role |-> role, dates |-> {"joined"}]

(* activate, suspend, reactivate and remove, from the statuses in which    *)
(* they do not raise and change something.                                 *)
MembershipActivate(m) ==
    [m EXCEPT !.status = "active", !.dates = (m.dates \cap {"invited"}) \cup {"joined"}]

MembershipSuspend(m) ==
    [m EXCEPT !.status = "suspended", !.dates = m.dates \cup {"suspended"}]

(* Fault: the date of the suspension stays set.                            *)
Fault_ReactivateKeepsDate(m) == [m EXCEPT !.status = "active"]

MembershipReactivate(m) ==
    [m EXCEPT !.status = "active", !.dates = m.dates \ {"suspended"}]

MembershipRemove(m) ==
    [m EXCEPT !.status = "removed", !.dates = m.dates \cup {"removed"}]

MembershipChangeRole(m, role) == [m EXCEPT !.role = role]

(* Membership._validate_lifecycle_state, and the table's CHECK constraint  *)
(* lifecycle_timestamps_consistent.                                        *)
LifecycleState(m) ==
    CASE m.status = "invited"   -> m.dates = {"invited"}
      [] m.status = "active"    -> "joined" \in m.dates /\ m.dates \subseteq {"invited", "joined"}
      [] m.status = "suspended" -> {"joined", "suspended"} \subseteq m.dates /\ "removed" \notin m.dates
      [] m.status = "removed"   -> "removed" \in m.dates
      [] OTHER                  -> m.dates = {}

ActiveOwner(p) == memberships[p].role = "owner" /\ memberships[p].status = "active"

(* Fault: owners that are suspended or invited count too.                  *)
Fault_AnyOtherOwner(t) ==
    ActiveOwner(t) =>
        \E p \in Pairs : p # t /\ p[2] = t[2] /\ memberships[p].role = "owner"

(* MembershipPolicy.ensure_not_last_active_owner                           *)
NotLastActiveOwner(t) ==
    ActiveOwner(t) => \E p \in Pairs : p # t /\ p[2] = t[2] /\ ActiveOwner(p)

(* MembershipAdministrationPolicy.ensure_target_manageable: the actor a,   *)
(* the target t with role "role".                                          *)
TargetManageable(a, t, role, mutation) ==
    /\ a[2] = t[2]
    /\ \/ /\ memberships[a].role = "owner"
          /\ mutation \in {"suspend", "remove"} => NotLastActiveOwner(t)
       \/ memberships[a].role = "admin" /\ role # "owner"

(* ensure_role_assignment_allowed with ensure_self_role_change_allowed.    *)
RoleAssignmentAllowed(a, t, new) ==
    LET ar == memberships[a].role  tr == memberships[t].role IN
    /\ a[2] = t[2]
    /\ a = t /\ new # tr => ar = "owner"
    /\ \/ tr = new
       \/ ar = "owner" /\ (tr = "owner" => NotLastActiveOwner(t))
       \/ ar = "admin" /\ new # "owner" /\ tr # "owner"

(* The actor of an administrative call is an active member of an active    *)
(* organization whose role has the permission.                             *)
Acts(a) ==
    /\ organizations[a[2]] = "active"
    /\ memberships[a].status = "active"
    /\ Allows(memberships[a].role, "membership_update")

-----------------------------------------------------------------------------
Goto(r, l) == pc' = [pc EXCEPT ![r] = l]

Return(r, code, listed) ==
    /\ Goto(r, "done")
    /\ answer' = [answer EXCEPT ![r].code = code, ![r].listed = listed]

Init ==
    /\ users = {} /\ credentials = {} /\ trail = {}
    /\ organizations = [o \in Organizations |-> "absent"]
    /\ memberships = [p \in Pairs |-> NoMembership]
    /\ boot = [i \in Installers |-> "idle"]
    /\ draft = [i \in Installers |-> <<None, None>>]
    /\ pc = [r \in Requests |-> "idle"]
    /\ cmd = [r \in Requests |-> [user |-> None, org |-> None, need |-> "none"]]
    /\ context = [r \in Requests |-> [o \in Organizations |-> None]]
    /\ answer = [r \in Requests |-> [code |-> "none", event |-> "none", listed |-> {}]]
    /\ moments = [r \in Requests |-> {}]
    /\ changes = 0

-----------------------------------------------------------------------------
(* BootstrapOwner.                                                         *)

Booting == {"locked", "users_counted", "refusing", "creating", "inserted"}

BootGoto(i, l) == boot' = [boot EXCEPT ![i] = l]

(* Fault: the state is counted without the lock.                           *)
Fault_BootWithoutLock(i) ==
    /\ boot[i] = "idle"
    /\ BootGoto(i, "locked")
    /\ UNCHANGED <<identity, trail, draft>>

(* acquire_bootstrap_lock: the advisory lock is kept until the transaction *)
(* ends.                                                                   *)
BootLock(i) ==
    /\ boot[i] = "idle"
    /\ \A j \in Installers : boot[j] \notin Booting
    /\ BootGoto(i, "locked")
    /\ UNCHANGED <<identity, trail, draft>>

(* bootstrap_state: two counts, in two statements.                         *)
BootCountUsers(i) ==
    /\ boot[i] = "locked"
    /\ BootGoto(i, IF users # {} THEN "refusing" ELSE "users_counted")
    /\ UNCHANGED <<identity, trail, draft>>

BootCountOrganizations(i) ==
    /\ boot[i] = "users_counted"
    /\ BootGoto(i, IF \E o \in Organizations : organizations[o] # "absent"
                   THEN "refusing" ELSE "creating")
    /\ UNCHANGED <<identity, trail, draft>>

(* The refusal is recorded and committed before it is raised.              *)
BootRefuse(i) ==
    /\ boot[i] = "refusing"
    /\ trail' = trail \cup {<<i, "bootstrap.refused">>}
    /\ BootGoto(i, "refused")
    /\ UNCHANGED <<identity, draft>>

(* The INSERTs of user, organization, membership and credential; a unique  *)
(* constraint rolls all of them back.                                      *)
BootInsert(i, u, o) ==
    /\ boot[i] = "creating"
    /\ \A j \in Installers : boot[j] = "inserted" => draft[j][1] # u /\ draft[j][2] # o
    /\ draft' = [draft EXCEPT ![i] = <<u, o>>]
    /\ BootGoto(i, IF u \in users \/ organizations[o] # "absent" THEN "failed" ELSE "inserted")
    /\ UNCHANGED <<identity, trail>>

BootCommit(i) ==
    LET u == draft[i][1]  o == draft[i][2] IN
    /\ boot[i] = "inserted"
    /\ users' = users \cup {u}
    /\ organizations' = [organizations EXCEPT ![o] = "active"]
    /\ memberships' = [memberships EXCEPT ![draft[i]] = MembershipActivateDirectly("owner")]
    /\ credentials' = credentials \cup {u}
    /\ trail' = trail \cup {<<i, "bootstrap.owner_created">>}
    /\ BootGoto(i, "created")
    /\ UNCHANGED draft

(* An invalid name, email or password, a database error, or the death of   *)
(* the process: everything is rolled back and the lock released.           *)
BootFail(i) ==
    /\ boot[i] \in Booting
    /\ BootGoto(i, "failed")
    /\ UNCHANGED <<identity, trail, draft>>

Bootstrap ==
    /\ \E i \in Installers :
         \/ BootLock(i)
         \/ BootCountUsers(i)
         \/ BootCountOrganizations(i)
         \/ BootRefuse(i)
         \/ \E u \in Users, o \in Organizations : BootInsert(i, u, o)
         \/ BootCommit(i)
         \/ BootFail(i)
    /\ UNCHANGED <<pc, cmd, context, answer, changes>>

-----------------------------------------------------------------------------
(* Changes that external callers make through entities, policies and       *)
(* repositories.  A call that raises changes nothing.                      *)

(* UserRepository.add and OrganizationRepository.add                       *)
AddUser(u) ==
    /\ u \notin users
    /\ users' = users \cup {u}
    /\ UNCHANGED <<organizations, memberships, credentials>>

AddOrganization(o) ==
    /\ organizations[o] = "absent"
    /\ organizations' = [organizations EXCEPT ![o] = "active"]
    /\ UNCHANGED <<users, memberships, credentials>>

(* Organization.deactivate and reactivate                                  *)
ToggleOrganization(o) ==
    /\ organizations[o] # "absent"
    /\ organizations' = [organizations EXCEPT
         ![o] = IF @ = "active" THEN "inactive" ELSE "active"]
    /\ UNCHANGED <<users, memberships, credentials>>

(* MembershipRepository.update                                             *)
SetMembership(p, m) ==
    /\ memberships' = [memberships EXCEPT ![p] = m]
    /\ UNCHANGED <<users, organizations, credentials>>

(* Membership.invite, policy mutation INVITE, and MembershipRepository.add *)
Invite(a, t, role) ==
    /\ Acts(a) /\ TargetManageable(a, t, role, "invite")
    /\ t[1] \in users /\ memberships[t].status = "absent"
    /\ SetMembership(t, MembershipInvite(role))

(* The invited user joins.                                                 *)
Activate(t) ==
    /\ memberships[t].status = "invited"
    /\ SetMembership(t, MembershipActivate(memberships[t]))

Suspend(a, t) ==
    /\ Acts(a) /\ TargetManageable(a, t, memberships[t].role, "suspend")
    /\ memberships[t].status = "active"
    /\ SetMembership(t, MembershipSuspend(memberships[t]))

Reactivate(a, t) ==
    /\ Acts(a) /\ TargetManageable(a, t, memberships[t].role, "update")
    /\ memberships[t].status = "suspended"
    /\ SetMembership(t, MembershipReactivate(memberships[t]))

Remove(a, t) ==
    /\ Acts(a) /\ TargetManageable(a, t, memberships[t].role, "remove")
    /\ memberships[t].status \notin {"absent", "removed"}
    /\ SetMembership(t, MembershipRemove(memberships[t]))

ChangeRole(a, t, role) ==
    /\ Acts(a) /\ RoleAssignmentAllowed(a, t, role)
    /\ memberships[t].status \in {"invited", "active"} /\ role # memberships[t].role
    /\ SetMembership(t, MembershipChangeRole(memberships[t], role))

Administration ==
    /\ changes < MaxChanges
    /\ changes' = changes + 1
    /\ \/ \E u \in Users : AddUser(u)
       \/ \E o \in Organizations : AddOrganization(o)
       \/ \E o \in Organizations : ToggleOrganization(o)
       \/ \E a, t \in Pairs, role \in RolesGiven : Invite(a, t, role)
       \/ \E t \in Pairs : Activate(t)
       \/ \E a, t \in Pairs : Suspend(a, t)
       \/ \E a, t \in Pairs : Reactivate(a, t)
       \/ \E a, t \in Pairs : Remove(a, t)
       \/ \E a, t \in Pairs, role \in RolesGiven : ChangeRole(a, t, role)
    /\ UNCHANGED <<trail, boot, draft, pc, cmd, context, answer>>

-----------------------------------------------------------------------------
(* Requests.                                                               *)

(* A denial is recorded independently of the request before it is raised.  *)
Deny(r, event) ==
    /\ Goto(r, "denying")
    /\ answer' = [answer EXCEPT ![r].event = event]

(* get_current_principal: the bearer token names a user, or is missing,    *)
(* expired or of no active session; see Sessions.                          *)
Authenticate(r, u, o, need) ==
    /\ pc[r] = "idle" /\ u \in users
    /\ cmd' = [cmd EXCEPT ![r] = [user |-> u, org |-> o, need |-> need]]
    /\ Goto(r, IF need = "list" THEN "listing" ELSE "principal")
    /\ UNCHANGED <<trail, context, answer>>

RejectToken(r) ==
    /\ pc[r] = "idle"
    /\ Deny(r, "authentication.access_token_rejected")
    /\ UNCHANGED <<trail, cmd, context>>

(* ResolveTenantContext: the organization, ...                             *)
ReadOrganization(r) ==
    LET o == organizations[cmd[r].org] IN
    /\ pc[r] = "principal"
    /\ CASE o = "absent"   -> Deny(r, "tenancy.access_denied")
         [] o = "inactive" -> Deny(r, "tenancy.inactive_organization")
         [] o = "active"   -> Goto(r, "organization") /\ UNCHANGED answer
    /\ UNCHANGED <<trail, cmd, context>>

(* Fault: the status of the membership is not looked at.                   *)
Fault_AnyMembership(r) ==
    LET m == memberships[<<cmd[r].user, cmd[r].org>>] IN
    /\ pc[r] = "organization"
    /\ IF m.status = "absent"
       THEN Deny(r, "tenancy.access_denied") /\ UNCHANGED context
       ELSE /\ context' = [context EXCEPT ![r][cmd[r].org] = m.role]
            /\ Goto(r, "context")
            /\ UNCHANGED answer
    /\ UNCHANGED <<trail, cmd>>

(* ... then, in another statement, the membership.                         *)
ReadMembership(r) ==
    LET m == memberships[<<cmd[r].user, cmd[r].org>>] IN
    /\ pc[r] = "organization"
    /\ CASE m.status = "absent" -> Deny(r, "tenancy.access_denied") /\ UNCHANGED context
         [] m.status = "active" ->
              /\ context' = [context EXCEPT ![r][cmd[r].org] = m.role]
              /\ Goto(r, "context")
              /\ UNCHANGED answer
         [] OTHER -> Deny(r, "tenancy.inactive_membership") /\ UNCHANGED context
    /\ UNCHANGED <<trail, cmd>>

(* require_permission, require_any_permission, require_all_permissions     *)
RequirePermission(r) ==
    /\ pc[r] = "context"
    /\ IF cmd[r].need = "none" \/ Allows(context[r][cmd[r].org], cmd[r].need)
       THEN Return(r, "ok", {})
       ELSE Deny(r, "authorization.permission_denied")
    /\ UNCHANGED <<trail, cmd, context>>

(* record_independent_audit_event has a transaction of its own; when it    *)
(* fails, that is only logged.                                             *)
RecordDenial(r, stored) ==
    /\ pc[r] = "denying"
    /\ trail' = IF stored THEN trail \cup {<<r, answer[r].event>>} ELSE trail
    /\ Return(r, IF answer[r].event = "authentication.access_token_rejected"
                 THEN "unauthorized" ELSE "forbidden", {})
    /\ UNCHANGED <<cmd, context>>

(* ListUserOrganizations: the active memberships of the user, ...          *)
ListMemberships(r) ==
    LET u == cmd[r].user IN
    /\ pc[r] = "listing"
    /\ context' = [context EXCEPT ![r] =
         [o \in Organizations |-> IF memberships[<<u, o>>].status = "active"
                                  THEN memberships[<<u, o>>].role ELSE None]]
    /\ Goto(r, "memberships")
    /\ UNCHANGED <<trail, cmd, answer>>

(* ... and then the active organizations among theirs, cut to max_results: *)
(* which are cut depends on their names.                                   *)
ListOrganizations(r, listed) ==
    LET available == {o \in Organizations :
                        context[r][o] # None /\ organizations[o] = "active"}
    IN
    /\ pc[r] = "memberships"
    /\ listed \subseteq available
    /\ Cardinality(listed) = IF Cardinality(available) > MaxResults
                             THEN MaxResults ELSE Cardinality(available)
    /\ Return(r, "ok", listed)
    /\ UNCHANGED <<trail, cmd, context>>

Request ==
    /\ \E r \in Requests :
         \/ \E u \in Users, o \in Organizations, need \in Needs :
              Authenticate(r, u, o, need)
         \/ \E u \in Users : Authenticate(r, u, None, "list")
         \/ RejectToken(r)
         \/ ReadOrganization(r)
         \/ ReadMembership(r)
         \/ RequirePermission(r)
         \/ \E stored \in BOOLEAN : RecordDenial(r, stored)
         \/ ListMemberships(r)
         \/ \E listed \in SUBSET Organizations : ListOrganizations(r, listed)
    /\ UNCHANGED <<identity, boot, draft, changes>>

-----------------------------------------------------------------------------
(* What the tables say now of the user and the organizations of a request. *)
Facts(c) ==
    {[org  |-> o, open |-> organizations[o], member |-> memberships[<<c.user, o>>].status,
      role |-> memberships[<<c.user, o>>].role] :
        o \in IF c.need = "list" THEN Organizations ELSE {c.org}}

(* History: a request collects these facts while it is running.            *)
Observe ==
    moments' = [r \in Requests |->
        IF cmd'[r].user = None \/ pc[r] = "done" THEN moments[r]
        ELSE moments[r] \cup Facts(cmd[r])']

Next == (Bootstrap \/ Administration \/ Request) /\ Observe

Spec == Init /\ [][Next]_vars

-----------------------------------------------------------------------------
(* Properties.                                                             *)

Events == {"bootstrap.refused", "bootstrap.owner_created", "tenancy.access_denied",
           "tenancy.inactive_organization", "tenancy.inactive_membership",
           "authorization.permission_denied", "authentication.access_token_rejected"}

(* Every table, bootstrap and request holds values of its own kind.        *)
TypeOK ==
    /\ users \subseteq Users /\ credentials \subseteq Users
    /\ organizations \in [Organizations -> {"absent", "active", "inactive"}]
    /\ memberships \in [Pairs -> Membership]
    /\ trail \subseteq (Installers \cup Requests) \X Events
    /\ boot \in [Installers -> Booting \cup {"idle", "refused", "created", "failed"}]
    /\ draft \in [Installers -> Pairs \cup {<<None, None>>}]
    /\ pc \in [Requests -> {"idle", "principal", "organization", "context", "listing",
                            "memberships", "denying", "done"}]
    /\ cmd \in [Requests -> [user : Users \cup {None}, org : Organizations \cup {None},
                             need : Permissions \cup {"none", "list"}]]
    /\ context \in [Requests -> [Organizations -> Roles \cup {None}]]
    /\ answer \in [Requests -> [code   : {"none", "ok", "unauthorized", "forbidden"},
                                event  : Events \cup {"none"},
                                listed : SUBSET Organizations]]

(* No sequence of membership operations leaves dates that the entity's     *)
(* constructor and the table's CHECK constraint would refuse (a stale      *)
(* suspended_at, an active member that never joined): reading such a row   *)
(* would fail every later request of the member.                           *)
MembershipLifecycle == \A p \in Pairs : LifecycleState(memberships[p])

(* However many times the bootstrap command is run, and at whatever time,  *)
(* at most one run creates an owner, with credential and audit event; a    *)
(* run that was refused is recorded, and none that failed is.              *)
BootstrapOnce ==
    /\ \A i, j \in Installers : boot[i] = "created" /\ boot[j] = "created" => i = j
    /\ \A i \in Installers :
         /\ boot[i] = "created" <=> <<i, "bootstrap.owner_created">> \in trail
         /\ boot[i] = "created" => draft[i][1] \in credentials
         /\ boot[i] = "refused" <=> <<i, "bootstrap.refused">> \in trail

(* The organization that was bootstrapped has an active owner for ever:    *)
(* no sequence of invitations, role changes, suspensions and removals by   *)
(* owners and admins locks everybody out of it.                            *)
OwnerRemains ==
    \A i \in Installers : boot[i] = "created" =>
        \E p \in Pairs : p[2] = draft[i][2] /\ ActiveOwner(p)

(* What a request is answered was so while it was running: who was let in  *)
(* was an active member with a role that permits it, the organization was  *)
(* active, and who was refused lacked what the audit event says, although  *)
(* organization and membership are read in two statements and both may     *)
(* change before and after either of them.                                 *)
AnswerWasTrue ==
    \A r \in Requests :
        LET seen == moments[r]
            event == answer[r].event
        IN
        /\ answer[r].code = "ok" /\ cmd[r].need # "list" =>
             /\ \E m \in seen : m.open = "active"
             /\ \E m \in seen :
                  m.member = "active" /\ (cmd[r].need = "none" \/ Allows(m.role, cmd[r].need))
        /\ \A l \in answer[r].listed :
             /\ \E m \in seen : m.org = l /\ m.open = "active"
             /\ \E m \in seen : m.org = l /\ m.member = "active"
        /\ event = "tenancy.access_denied" =>
             \E m \in seen : m.open = "absent" \/ m.member = "absent"
        /\ event = "tenancy.inactive_organization" => \E m \in seen : m.open = "inactive"
        /\ event = "tenancy.inactive_membership" =>
             \E m \in seen : m.member \in {"invited", "suspended", "removed"}
        /\ event = "authorization.permission_denied" =>
             \E m \in seen : m.member = "active" /\ ~Allows(m.role, cmd[r].need)
=============================================================================
