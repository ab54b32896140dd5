----------------------------- MODULE TenancyAPI ------------------------------
(***************************************************************************)
(* The handlers of organizations, projects, invitations and administration *)
(* (api/internal/server) over the tables of Tenancy and Invitations.       *)
(*                                                                         *)
(* A handler is the sequence of calls it makes on the store and the roles  *)
(* that entitle its caller; rbac.go reads the roles before the write, in   *)
(* queries of their own.  Handlers that only read are left out.            *)
(***************************************************************************)
EXTENDS Invitations

CONSTANTS
  Roots,       \* users whose token may carry the admin claim
  MaxRequests  \* bound: requests in a behaviour

ASSUME ServerAssumptions == Roots \subseteq Users /\ MaxRequests \in Nat

VARIABLES
  requests,  \* requests so far
  held,      \* calls whose caller was entitled at some moment of the request
  raced,     \* users with two overlapping calls that write their default
  overtaken  \* quotas that changed since a call that writes quotas read them

vars == <<tables, call, invite, joined, requests, held, raced, overtaken>>

-----------------------------------------------------------------------------
(* Who may do what *)

\* orgRoleRank, projectRoleRank: the roles that are at least the given one.
OrgAtLeast(role) ==
  CASE role = "member" -> OrgRoles
    [] role = "admin"  -> {"admin", "owner"}
    [] role = "owner"  -> {"owner"}

ProjectAtLeast(role) == IF role = "member" THEN ProjectRoles ELSE {role}

\* requireOrg: the organization exists and the caller has at least the role.
requireOrg(role, then, takes) ==
  [calls |-> <<"GetOrganization", "GetOrgMemberRole">> \o then,
   who |-> "role", org |-> OrgAtLeast(role), project |-> {}, takes |-> takes \cup {"org"}]

\* requireProject: owners and admins of the organization have every project.
requireProject(role, then, takes) ==
  [calls |-> <<"GetProject", "GetOrgMemberRole", "GetProjectMemberRole">> \o then,
   who |-> "role", org |-> OrgAtLeast("admin"), project |-> ProjectAtLeast(role),
   takes |-> takes \cup {"project"}]

Anybody(who, calls, takes) ==
  [calls |-> calls, who |-> who, org |-> {}, project |-> {}, takes |-> takes]

handleCreateOrg == Anybody("anyone", <<"CheckDefaultOrg", "CreateOrganization">>, {})
handleUpdateOrg == requireOrg("admin", <<"UpdateOrganization">>, {})
handleDeleteOrg == requireOrg("owner", <<"DeleteOrganization">>, {})
handleSetDefaultOrg == requireOrg("member", <<"ClearDefaults", "SetDefaultOrg">>, {})
handleAddOrgMember ==
  requireOrg("admin", <<"GetUserByEmail", "AddOrgMember">>, {"on", "orgRole"})
handleRemoveOrgMember == requireOrg("admin", <<"RemoveOrgMember">>, {"on"})
handleUpdateOrgMemberRole ==
  requireOrg("admin", <<"UpdateOrgMemberRole">>, {"on", "orgRole"})
handleCreateProject == requireOrg("member", <<"CreateProject">>, {"name", "ask"})
handleUpdateProject == requireProject("maintainer", <<"UpdateProject">>, {"name"})

\* Not for maintainers: only the role in the organization counts.
handleUpdateProjectQuotas ==
  [calls |-> <<"GetProject", "GetOrgMemberRole", "UpdateProjectQuotas">>,
   who |-> "role", org |-> OrgAtLeast("admin"), project |-> {},
   takes |-> {"project", "ask"}]

handleDeleteProject == requireProject("maintainer", <<"DeleteProject">>, {})

\* Mutant: the role is validated as one of an organization.
handleAddProjectMemberOrgRole ==
  requireProject("maintainer", <<"GetUserByEmail", "AddProjectMember">>, {"on", "orgRole"})

handleAddProjectMember ==
  requireProject("maintainer", <<"GetUserByEmail", "AddProjectMember">>, {"on", "projectRole"})
handleRemoveProjectMember == requireProject("maintainer", <<"RemoveProjectMember">>, {"on"})
handleUpdateProjectMemberRole ==
  requireProject("maintainer", <<"UpdateProjectMemberRole">>, {"on", "projectRole"})
handleCreateOrgInvitation ==
  requireOrg("admin", <<"CreateOrgInvitation">>, {"on", "orgRole"})
handleCreateProjectInvitation ==
  requireProject("maintainer", <<"CreateProjectInvitation">>, {"on", "projectRole"})
handleAcceptOrgInvitation ==
  Anybody("invitee", <<"GetOrgInvitation", "LockInvitation", "AcceptOrgInvitation">>, {"invite"})
handleDeclineOrgInvitation ==
  Anybody("invitee", <<"GetOrgInvitation", "SetOrgInvitationStatus">>, {"invite"})
handleAcceptProjectInvitation ==
  Anybody("invitee", <<"GetProjectInvitation", "LockInvitation", "AcceptProjectInvitation">>,
          {"invite"})
handleDeclineProjectInvitation ==
  Anybody("invitee", <<"GetProjectInvitation", "SetProjectInvitationStatus">>, {"invite"})
handleAdminSetUserAdmin == Anybody("platform", <<"SetUserAdmin">>, {"on"})

\* The routes to these handlers.
Handlers ==
  [CreateOrg |-> handleCreateOrg,
   UpdateOrg |-> handleUpdateOrg,
   DeleteOrg |-> handleDeleteOrg,
   SetDefaultOrg |-> handleSetDefaultOrg,
   AddOrgMember |-> handleAddOrgMember,
   RemoveOrgMember |-> handleRemoveOrgMember,
   UpdateOrgMemberRole |-> handleUpdateOrgMemberRole,
   CreateProject |-> handleCreateProject,
   UpdateProject |-> handleUpdateProject,
   UpdateProjectQuotas |-> handleUpdateProjectQuotas,
   DeleteProject |-> handleDeleteProject,
   AddProjectMember |-> handleAddProjectMember,
   RemoveProjectMember |-> handleRemoveProjectMember,
   UpdateProjectMemberRole |-> handleUpdateProjectMemberRole,
   CreateOrgInvitation |-> handleCreateOrgInvitation,
   CreateProjectInvitation |-> handleCreateProjectInvitation,
   AcceptOrgInvitation |-> handleAcceptOrgInvitation,
   DeclineOrgInvitation |-> handleDeclineOrgInvitation,
   AcceptProjectInvitation |-> handleAcceptProjectInvitation,
   DeclineProjectInvitation |-> handleDeclineProjectInvitation,
   AdminSetUserAdmin |-> handleAdminSetUserAdmin]

-----------------------------------------------------------------------------
(* What clients ask for: they name what they have seen. *)

Given(h, what, values) == IF what \in Handlers[h].takes THEN values ELSE {None}

Roles(h) == Given(h, "orgRole", OrgRoles) \cup Given(h, "projectRole", ProjectRoles)

Requests(h) ==
  [handler : {h}, by : Users, claim : BOOLEAN,
   org     : Given(h, "org", {o \in Orgs : org[o] # "unused"}),
   project : Given(h, "project", {p \in Projects : project[p] # NoProject}),
   invite  : Given(h, "invite", {i \in Invites : invite[i] # NoInvite}),
   on      : Given(h, "on", Users),
   role    : IF Roles(h) = {None} THEN {None} ELSE Roles(h) \ {None},
   name    : Given(h, "name", Names),
   ask     : IF "ask" \in Handlers[h].takes THEN QuotaAsks ELSE {NoQuota}]

\* The bounds on ids: each request that makes something finds an unused one.
Fits(h) ==
  LET calls == Handlers[h].calls
      last == calls[Len(calls)]
      busy(f) == {c \in Calls : call[c].todo # <<>> /\ call[c].todo[Len(call[c].todo)] = f}
  IN
  /\ last = "CreateOrganization" =>
       Cardinality(busy(last)) < Cardinality({o \in Orgs : org[o] = "unused"})
  /\ last = "CreateProject" =>
       Cardinality(busy(last)) < Cardinality({p \in Projects : project[p] = NoProject})
  /\ last \in {"CreateOrgInvitation", "CreateProjectInvitation"} =>
       Cardinality(busy("CreateOrgInvitation") \cup busy("CreateProjectInvitation"))
         < Cardinality({i \in Invites : invite[i] = NoInvite})

-----------------------------------------------------------------------------
(* Serving a request *)

CanReceive(c) == call[c] = Idle /\ requests < MaxRequests

\* provisionUser, then the handler.  requireAdmin looks at the row UpsertUser
\* returned and answers 403.
Receive(c, q) ==
  /\ CanReceive(c)
  /\ q.claim => q.by \in Roots
  /\ Fits(q.handler)
  /\ UpsertUser(q)
  /\ LET h == Handlers[q.handler]  admin == user'[q.by] = "admin" IN
     call' = IF h.who = "platform" /\ ~admin
             THEN call
             ELSE [call EXCEPT ![c] = [Idle EXCEPT !.req = q, !.todo = h.calls,
                                                   !.admin = admin]]
  /\ requests' = requests + 1
  /\ UNCHANGED <<org, member, default, project, pmember, invite, joined>>

orgRoleAtLeast(c) ==
  call[c].admin \/ member[OrgOf(Arg(c))][By(c)] \in Handlers[Arg(c).handler].org

\* Entitled by the organization: no further look at the project.
AllowByOrg(c) ==
  /\ At(c, "GetOrgMemberRole")
  /\ orgRoleAtLeast(c)
  /\ call' = [call EXCEPT ![c].todo =
       IF Tail(@) # <<>> /\ Head(Tail(@)) = "GetProjectMemberRole" THEN Tail(Tail(@)) ELSE Tail(@)]

\* projectAccessAtLeast goes on to the role in the project, requireOrg answers 403.
NotByOrg(c) ==
  /\ At(c, "GetOrgMemberRole")
  /\ ~orgRoleAtLeast(c)
  /\ IF Handlers[Arg(c).handler].project # {} THEN Advance(c) ELSE Answer(c)

\* Mutant: any role in the project is enough.
projectRoleAtLeastAny(c) ==
  /\ At(c, "GetProjectMemberRole")
  /\ IF pmember[Arg(c).project][By(c)] # "none" THEN Advance(c) ELSE Answer(c)

projectRoleAtLeast(c) ==
  /\ At(c, "GetProjectMemberRole")
  /\ IF pmember[Arg(c).project][By(c)] \in Handlers[Arg(c).handler].project
     THEN Advance(c) ELSE Answer(c)

\* Any call may fail, the client may go away (its context is canceled), the
\* process may stop, and PostgreSQL aborts one of two transactions that wait
\* for each other: what is not committed is rolled back.
Fail(c) == call[c] # Idle /\ Answer(c)

\* What a request does to the tables of organizations and projects.
StoreStep(c) ==
  \/ GetUserByEmail(c) \/ SetUserAdmin(c)
  \/ GetOrganization(c) \/ CheckDefaultOrg(c) \/ CreateOrganization(c) \/ UpdateOrganization(c)
  \/ ClearDefaults(c) \/ SetDefaultOrg(c)
  \/ AddOrgMember(c) \/ RemoveOrgMember(c) \/ UpdateOrgMemberRole(c)
  \/ GetProject(c) \/ CreateProject(c) \/ UpdateProject(c) \/ UpdateProjectQuotas(c)
  \/ AddProjectMember(c) \/ RemoveProjectMember(c) \/ UpdateProjectMemberRole(c)

InviteStep(c) ==
  \/ CreateOrgInvitation(c) \/ CreateProjectInvitation(c)
  \/ loadOrgInviteForCaller(c) \/ loadProjectInviteForCaller(c)
  \/ LockInvitation(c) \/ AcceptOrgInvitation(c) \/ AcceptProjectInvitation(c)
  \/ SetOrgInvitationStatus(c) \/ SetProjectInvitationStatus(c)

ServeStep(c) ==
  \/ /\ AllowByOrg(c) \/ NotByOrg(c) \/ projectRoleAtLeast(c)
     /\ UNCHANGED <<tables, invite, joined>>
  \/ StoreStep(c) /\ UNCHANGED <<invite, joined>>
  \/ (DeleteOrganization(c) \/ DeleteProject(c)) /\ CascadeToInvites
  \/ InviteStep(c)

-----------------------------------------------------------------------------
(* What the properties remember *)

\* Entitled to what the request asks, by the claim of its token or by the admin
\* flag, the roles and the invitations of this moment.  As docs/design/tenancy.md
\* has it, wider than the code: the flag counts though SetUserAdmin wrote it, and
\* the quotas of a project are also its maintainers'.
Entitled(c) ==
  LET q == Arg(c)  h == Handlers[q.handler] IN
  \/ h.who = "anyone"
  \/ h.who \in {"role", "platform"} /\ (q.claim \/ user[q.by] = "admin")
  \/ q.handler = "UpdateProjectQuotas" /\ pmember[q.project][q.by] = "maintainer"
  \/ h.who = "role" /\ OrgOf(q) # None /\ member[OrgOf(q)][q.by] \in h.org
  \/ h.who = "role" /\ q.project # None /\ pmember[q.project][q.by] \in h.project
  \/ /\ h.who = "invitee"
     /\ invite[q.invite].to = q.by
     /\ \/ "LockInvitation" \notin {h.calls[k] : k \in 1..Len(h.calls)}
        \/ invite[q.invite].status = "pending" /\ ~invite[q.invite].expired

WritesDefault(c) ==
  call[c] # Idle /\ Arg(c).handler \in {"CreateOrg", "SetDefaultOrg"}

\* The request has still to make the call f.
StillTo(c, f) == \E k \in 1..Len(call[c].todo) : call[c].todo[k] = f

Changed(p) == {f \in Fields : project'[p].quota[f] # project[p].quota[f]}

Remember ==
  /\ held' = [c \in Calls |-> call'[c] # Idle /\ (held[c] \/ Entitled(c)')]
  /\ raced' = raced \cup {u \in Users : \E c, d \in Calls :
                 c # d /\ WritesDefault(c)' /\ WritesDefault(d)' /\ By(c)' = u /\ By(d)' = u}
  /\ overtaken' = [c \in Calls |->
       IF StillTo(c, "UpdateProjectQuotas")' /\ ~StillTo(c, "GetProject")'
       THEN overtaken[c] \cup Changed(call'[c].req.project) ELSE {}]

Serve(c) == ServeStep(c) /\ UNCHANGED requests /\ Remember

Init ==
  /\ user    = [u \in Users |-> "unknown"]
  /\ org     = [o \in Orgs |-> "unused"]
  /\ member  = [o \in Orgs |-> [u \in Users |-> "none"]]
  /\ default = [u \in Users |-> {}]
  /\ project = [p \in Projects |-> NoProject]
  /\ pmember = [p \in Projects |-> [u \in Users |-> "none"]]
  /\ call    = [c \in Calls |-> Idle]
  /\ invite  = [i \in Invites |-> NoInvite]
  /\ joined  = [i \in Invites |-> 0]
  /\ requests = 0
  /\ held    = [c \in Calls |-> FALSE]
  /\ raced   = {}
  /\ overtaken = [c \in Calls |-> {}]

\* Requests for the handlers hs.
NextOf(hs) ==
  \/ \E c \in {d \in Calls : CanReceive(d)}, h \in hs : \E q \in Requests(h) :
       Receive(c, q) /\ Remember
  \/ \E c \in Calls : Serve(c)
  \/ \E c \in Calls : Fail(c) /\ UNCHANGED <<tables, invite, joined, requests>> /\ Remember
  \/ \E i \in Invites : Expire(i) /\ UNCHANGED requests /\ Remember

Next == NextOf(DOMAIN Handlers)

Spec == Init /\ [][Next]_vars

-----------------------------------------------------------------------------
(* Properties *)

\* Every table holds rows of its type.
TypeOK ==
  /\ user \in [Users -> {"unknown", "plain", "admin"}]
  /\ org \in [Orgs -> {"unused", "live", "gone"}]
  /\ member \in [Orgs -> [Users -> OrgRoles \cup {"none"}]]
  /\ default \in [Users -> SUBSET Orgs]
  /\ \A p \in Projects : project[p] \in ProjectRows
  /\ pmember \in [Projects -> [Users -> ProjectRoles \cup {"none"}]]
  /\ \A i \in Invites : invite[i] \in InviteRows
  /\ joined \in [Invites -> Nat]
  /\ requests \in 0..MaxRequests
  /\ held \in [Calls -> BOOLEAN]
  /\ raced \subseteq Users
  /\ overtaken \in [Calls -> SUBSET Fields]

\* A user has one default organization, unless two calls of theirs that create
\* an organization or choose the default overlapped (tenancy.go:157-158, 341).
OneDefault == \A u \in Users \ raced : Cardinality(default[u]) <= 1

\* The same without the exception.
AtMostOneDefault == \A u \in Users : Cardinality(default[u]) <= 1

\* Nothing refers to an organization or a project that is deleted: a request
\* that was let through before the deletion brings no membership, project or
\* invitation back.
NothingOutlives ==
  /\ \A o \in Orgs : org[o] # "live" =>
       /\ \A u \in Users : member[o][u] = "none"
       /\ \A p \in Projects : project[p].org = o => project[p].state # "live"
       /\ \A i \in Invites : invite[i].org = o => ~ThereIs(i)
  /\ \A u \in Users : \A o \in default[u] : member[o][u] # "none"
  /\ \A p \in Projects : project[p].state # "live" =>
       /\ \A u \in Users : pmember[p][u] = "none"
       /\ \A i \in Invites : invite[i].project = p => ~ThereIs(i)

\* A user who has a default keeps one as long as they keep the membership: a
\* choice that fails halfway leaves the old default.
DefaultKept ==
  [][\A u \in Users : default[u] # {} /\ default'[u] = {} =>
       \A o \in default[u] : member'[o][u] = "none"]_vars

\* Whoever changes a table was entitled to it at some moment of the request: by
\* the claim or the flag of an administrator, a role that sufficed, or an
\* invitation that was open (rbac.go checks before the write, in other queries).
ServedAsEntitled ==
  [][\A c \in Calls : call[c] # Idle /\ call'[c] = Idle
                      /\ <<tables, invite>>' # <<tables, invite>> => held[c]]_vars

\* A quota changes to what the request asks for.  One it does not ask for changes
\* only if another request changed it since this one read the project, and then
\* back to what was read: a request that none overtakes keeps what others asked.
UnaskedQuotasKept ==
  [][\A p \in Projects, f \in Fields :
       project[p].state = "live" /\ project'[p].quota[f] # project[p].quota[f] =>
         \E c \in Calls :
           /\ call[c] # Idle /\ call'[c] = Idle /\ Arg(c).project = p
           /\ IF Arg(c).ask[f] # 0
              THEN project'[p].quota[f] = Arg(c).ask[f]
              ELSE f \in overtaken[c] /\ project'[p].quota[f] = call[c].quota[f]]_vars

\* The invitations are those of InvitationLife.
Life == INSTANCE InvitationLife
          WITH life <- [i \in Invites |-> invite[i].status], joins <- joined
KeepsInvitationLife == Life!LifeSpec
=============================================================================
