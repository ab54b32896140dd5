------------------------------ MODULE MCTenancy ------------------------------
(* Small instances of TenancyAPI for TLC.  Each behaviour is about one part *)
(* of the API: it starts in a small world of that part, a state that        *)
(* requests served one after the other lead to, and offers its handlers.    *)
EXTENDS TenancyAPI, TLC

CONSTANTS
  alice, bob,   \* Users
  o1, o2, o3,   \* Orgs
  p1, p2,       \* Projects
  i1, i2,       \* Invites
  n1, n2,       \* Names
  Parts         \* the parts of the API of a run

VARIABLE part   \* what a behaviour is about

mcVars == <<vars, part>>

Symmetry == Permutations(Calls)

SomeAsks == {[tenants |-> 5, compute |-> 0, memory |-> 0],
             [tenants |-> 0, compute |-> 7, memory |-> 0]}

Offered ==
  CASE part \in {"default", "create"} ->
         {"CreateOrg", "SetDefaultOrg", "RemoveOrgMember"}
    [] part = "members"  -> {"UpdateOrg", "DeleteOrg", "AddOrgMember", "RemoveOrgMember",
                             "UpdateOrgMemberRole", "AdminSetUserAdmin"}
    [] part = "projects" -> {"CreateProject", "UpdateProject", "UpdateProjectQuotas",
                             "DeleteProject", "AddProjectMember", "RemoveProjectMember",
                             "UpdateProjectMemberRole", "DeleteOrg"}
    [] part = "quotas"   -> {"UpdateProjectQuotas", "CreateProject", "UpdateOrgMemberRole"}
    [] part = "invitations" ->
         {"CreateOrgInvitation", "CreateProjectInvitation", "AcceptOrgInvitation",
          "DeclineOrgInvitation", "AcceptProjectInvitation", "DeclineProjectInvitation",
          "DeleteOrg", "DeleteProject"}

\* Two requests where a third adds nothing but size.
MaxFor == [p \in Parts |-> IF p \in {"members", "projects"} THEN 2 ELSE MaxRequests]

\* The roles of alice and bob.
Roles2(a, b) == [u \in Users |-> IF u = alice THEN a ELSE b]
NoRoles      == Roles2("none", "none")

Start ==
  CASE part \in {"default", "members"} ->
         [bob |-> "plain", o1 |-> Roles2("owner", "member"), o2 |-> Roles2("admin", "owner"),
          p1 |-> NoRoles]
    [] part = "create" ->
         [bob |-> "plain", o1 |-> Roles2("owner", "none"), o2 |-> NoRoles, p1 |-> NoRoles]
    [] part = "projects" ->
         [bob |-> "unknown", o1 |-> Roles2("member", "none"), o2 |-> NoRoles,
          p1 |-> Roles2("maintainer", "none")]
    [] part = "quotas" ->
         [bob |-> "plain", o1 |-> Roles2("owner", "member"), o2 |-> NoRoles,
          p1 |-> Roles2("maintainer", "maintainer")]
    [] part = "invitations" ->
         [bob |-> "unknown", o1 |-> Roles2("owner", "none"), o2 |-> NoRoles,
          p1 |-> Roles2("maintainer", "none")]

MCInit ==
  /\ part \in Parts
  /\ user    = Roles2("plain", Start.bob)
  /\ member  = [o \in Orgs |-> CASE o = o1 -> Start.o1 [] o = o2 -> Start.o2 [] OTHER -> NoRoles]
  /\ org     = [o \in Orgs |-> IF member[o] = NoRoles THEN "unused" ELSE "live"]
  /\ default = Roles2({o1}, IF org[o2] = "live" THEN {o2} ELSE {})
  /\ pmember = [p \in Projects |-> IF p = p1 THEN Start.p1 ELSE NoRoles]
  /\ project = [p \in Projects |->
       IF pmember[p] = NoRoles THEN NoProject
       ELSE [state |-> "live", org |-> o1, name |-> n1, quota |-> DefaultQuota]]
  /\ invite  = [i \in Invites |->
       IF part = "invitations" /\ i = i1
       THEN [status |-> "pending", table |-> "org", org |-> o1, project |-> None,
             to |-> bob, role |-> "admin", expired |-> FALSE]
       ELSE NoInvite]
  /\ call = [c \in Calls |-> Idle]
  /\ joined = [i \in Invites |-> 0]
  /\ requests = 0
  /\ held = [c \in Calls |-> FALSE]
  /\ raced = {}
  /\ overtaken = [c \in Calls |-> {}]

\* Tokens with the admin claim only where the claim matters.
MCNext ==
  /\ NextOf(Offered)
  /\ requests' <= MaxFor[part]
  /\ \A c \in Calls : call'[c] # Idle /\ Arg(c)'.claim => part \in {"members", "projects"}
  /\ UNCHANGED part

MCSpec == MCInit /\ [][MCNext]_mcVars
=============================================================================
