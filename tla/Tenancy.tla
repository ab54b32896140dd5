------------------------------ MODULE Tenancy -------------------------------
(***************************************************************************)
(* Users, organizations, projects and their memberships in PostgreSQL      *)
(* (api/internal/store/tenancy.go), as the calls of the API's handlers     *)
(* read and write them.  Requests are served by any number of goroutines   *)
(* and replicas, so the calls of two requests interleave.                  *)
(*                                                                         *)
(* One action is one statement on the database, or one transaction whose   *)
(* statements nothing can tell apart; CreateOrganization and SetDefaultOrg *)
(* take two, since PostgreSQL runs them under READ COMMITTED.  Organization *)
(* names and all descriptions are left out: nothing depends on them.       *)
(*                                                                         *)
(* Ids are gen_random_uuid(): an id of something deleted is never used     *)
(* again.                                                                  *)
(***************************************************************************)
EXTENDS Naturals, Sequences, FiniteSets

CONSTANTS
  Users,       \* identities with a token: the users of Keycloak
  Orgs,        \* ids of organizations
  Projects,    \* ids of projects
  Names,       \* names of projects
  QuotaAsks,   \* what a request to change quotas may say, see Quotas
  Calls,       \* requests served at the same time
  None         \* no value

ASSUME TenancyAssumptions ==
  /\ None \notin Users \cup Orgs \cup Projects \cup Names
  /\ QuotaAsks \subseteq [{"tenants", "compute", "memory"} -> Nat]

VARIABLES
  user,     \* table users: is_admin, of those who have signed in
  org,      \* table organizations
  member,   \* table user_organizations: the role of a user
  default,  \* the organizations a user's rows mark is_default
  project,  \* table projects
  pmember,  \* table project_users: the role of a user
  call      \* the requests being served

tables == <<user, org, member, default, project, pmember>>

-----------------------------------------------------------------------------
Fields == {"tenants", "compute", "memory"}

\* defaultMaxTenants, defaultMaxCompute, defaultMaxMemory.
DefaultQuota == [tenants |-> 10, compute |-> 100, memory |-> 100]

NoQuota == [f \in Fields |-> 0]

Quotas ==
  LET asked(f) == {DefaultQuota[f]} \cup {a[f] : a \in QuotaAsks}
  IN {q \in [Fields -> UNION {asked(f) : f \in Fields}] :
        \A f \in Fields : q[f] \in asked(f)}

OrgRoles     == {"owner", "admin", "member"}
ProjectRoles == {"maintainer", "member"}

NoProject == [state |-> "unused", org |-> None, name |-> None, quota |-> NoQuota]

ProjectRows ==
  {NoProject} \cup [state : {"live", "gone"}, org : Orgs, name : Names, quota : Quotas]

\* A request that nobody sends: the call is free.
NoRequest == [handler |-> "none", by |-> None]

\* What a request being served knows: the calls it still has to make and what
\* those it made have read.
Idle == [req |-> NoRequest, todo |-> <<>>, admin |-> FALSE, quota |-> NoQuota,
         hasDefault |-> FALSE, rows |-> {}]

By(c)      == call[c].req.by
Arg(c)     == call[c].req
At(c, f)   == call[c].todo # <<>> /\ Head(call[c].todo) = f
Advance(c) == call' = [call EXCEPT ![c].todo = Tail(@)]
Answer(c)  == call' = [call EXCEPT ![c] = Idle]

\* The organization a request is about; the one of a project never changes.
OrgOf(q) == IF q.project = None THEN q.org ELSE project[q.project].org

\* The rows of user_organizations that a transaction has updated and not
\* committed: another update of the row waits for it.
RowLocked(u, o) ==
  \E c \in Calls : At(c, "SetDefaultOrg") /\ By(c) = u /\ o \in call[c].rows

-----------------------------------------------------------------------------
(* Users *)

\* is_admin follows the claim of the token, whatever SetUserAdmin wrote.
UpsertUser(q) == user' = [user EXCEPT ![q.by] = IF q.claim THEN "admin" ELSE "plain"]

\* The user of an email, 404 for one who has never signed in.
GetUserByEmail(c) ==
  /\ At(c, "GetUserByEmail")
  /\ IF user[Arg(c).on] = "unknown" THEN Answer(c) ELSE Advance(c)
  /\ UNCHANGED tables

SetUserAdmin(c) ==
  /\ At(c, "SetUserAdmin")
  /\ \E flag \in {"admin", "plain"} :
       user' = [user EXCEPT ![Arg(c).on] = IF @ = "unknown" THEN @ ELSE flag]
  /\ Answer(c)
  /\ UNCHANGED <<org, member, default, project, pmember>>

-----------------------------------------------------------------------------
(* Organizations *)

GetOrganization(c) ==
  /\ At(c, "GetOrganization")
  /\ IF org[Arg(c).org] = "live" THEN Advance(c) ELSE Answer(c)
  /\ UNCHANGED tables

\* CreateOrganization up to SELECT EXISTS: the new row is not yet visible.
CheckDefaultOrg(c) ==
  /\ At(c, "CheckDefaultOrg")
  /\ call' = [call EXCEPT ![c].todo = Tail(@),
                          ![c].hasDefault = default[By(c)] # {}]
  /\ UNCHANGED tables

\* Mutant: every organization a user creates becomes the default.
CreateOrganizationDefault(c) ==
  /\ At(c, "CreateOrganization")
  /\ \E o \in Orgs :
       /\ org[o] = "unused"
       /\ org'     = [org EXCEPT ![o] = "live"]
       /\ member'  = [member EXCEPT ![o][By(c)] = "owner"]
       /\ default' = [default EXCEPT ![By(c)] = @ \cup {o}]
  /\ Answer(c)
  /\ UNCHANGED <<user, project, pmember>>

\* The owner's membership and the commit.
CreateOrganization(c) ==
  /\ At(c, "CreateOrganization")
  /\ \E o \in Orgs :
       /\ org[o] = "unused"
       /\ org'     = [org EXCEPT ![o] = "live"]
       /\ member'  = [member EXCEPT ![o][By(c)] = "owner"]
       /\ default' = [default EXCEPT ![By(c)] =
                        IF call[c].hasDefault THEN @ ELSE @ \cup {o}]
  /\ Answer(c)
  /\ UNCHANGED <<user, project, pmember>>

\* Name and description, which are left out.
UpdateOrganization(c) ==
  /\ At(c, "UpdateOrganization")
  /\ Answer(c)
  /\ UNCHANGED tables

\* The tables without the projects ps, ON DELETE CASCADE.
DropProjects(ps) ==
  /\ project' = [p \in Projects |->
       IF p \in ps THEN [project[p] EXCEPT !.state = "gone"] ELSE project[p]]
  /\ pmember' = [p \in Projects |->
       IF p \in ps THEN [u \in Users |-> "none"] ELSE pmember[p]]

\* Memberships, projects and their members go with the organization.
DeleteOrganization(c) ==
  LET o == Arg(c).org IN
  /\ At(c, "DeleteOrganization")
  /\ \A u \in Users : ~RowLocked(u, o)
  /\ IF org[o] = "live"
     THEN /\ org'     = [org EXCEPT ![o] = "gone"]
          /\ member'  = [member EXCEPT ![o] = [u \in Users |-> "none"]]
          /\ default' = [u \in Users |-> default[u] \ {o}]
          /\ DropProjects({p \in Projects : project[p].state = "live" /\ project[p].org = o})
     ELSE UNCHANGED <<org, member, default, project, pmember>>
  /\ Answer(c)
  /\ UNCHANGED user

\* SetDefaultOrg's first statement, on all rows of the user that are there.
ClearDefaults(c) ==
  LET rows == {o \in Orgs : member[o][By(c)] # "none"} IN
  /\ At(c, "ClearDefaults")
  /\ \A o \in rows : ~RowLocked(By(c), o)
  /\ call' = [call EXCEPT ![c].todo = Tail(@), ![c].rows = rows]
  /\ UNCHANGED tables

\* Mutant: no check of RowsAffected, so the cleared rows are committed.
SetDefaultOrgUnchecked(c) ==
  LET o == Arg(c).org  u == By(c) IN
  /\ At(c, "SetDefaultOrg")
  /\ default' = [default EXCEPT ![u] =
       (@ \ call[c].rows) \cup {x \in {o} : member[x][u] # "none"}]
  /\ Answer(c)
  /\ UNCHANGED <<user, org, member, project, pmember>>

\* Its second statement and the commit, or the rollback: 500 for who has no row.
SetDefaultOrg(c) ==
  LET o == Arg(c).org  u == By(c) IN
  /\ At(c, "SetDefaultOrg")
  /\ o \notin call[c].rows => ~RowLocked(u, o)
  /\ IF member[o][u] = "none"
     THEN UNCHANGED default
     ELSE default' = [default EXCEPT ![u] = (@ \ call[c].rows) \cup {o}]
  /\ Answer(c)
  /\ UNCHANGED <<user, org, member, project, pmember>>

-----------------------------------------------------------------------------
(* Organization membership *)

\* Mutant: no foreign key on organization_id.
UpsertOrgMemberNoKey(o, u, role) == member' = [member EXCEPT ![o][u] = role]

\* INSERT ... ON CONFLICT DO UPDATE SET role: is_default stays.  The foreign
\* key refuses an organization that is gone.
UpsertOrgMember(o, u, role) ==
  IF org[o] = "live"
  THEN member' = [member EXCEPT ![o][u] = role]
  ELSE UNCHANGED member

AddOrgMember(c) ==
  /\ At(c, "AddOrgMember")
  /\ ~RowLocked(Arg(c).on, Arg(c).org)
  /\ UpsertOrgMember(Arg(c).org, Arg(c).on, Arg(c).role)
  /\ Answer(c)
  /\ UNCHANGED <<user, org, default, project, pmember>>

\* The memberships of the organization's projects are kept.
RemoveOrgMember(c) ==
  LET o == Arg(c).org  u == Arg(c).on IN
  /\ At(c, "RemoveOrgMember")
  /\ ~RowLocked(u, o)
  /\ member'  = [member EXCEPT ![o][u] = "none"]
  /\ default' = [default EXCEPT ![u] = @ \ {o}]
  /\ Answer(c)
  /\ UNCHANGED <<user, org, project, pmember>>

UpdateOrgMemberRole(c) ==
  LET o == Arg(c).org  u == Arg(c).on IN
  /\ At(c, "UpdateOrgMemberRole")
  /\ ~RowLocked(u, o)
  /\ member' = [member EXCEPT ![o][u] = IF @ = "none" THEN @ ELSE Arg(c).role]
  /\ Answer(c)
  /\ UNCHANGED <<user, org, default, project, pmember>>

-----------------------------------------------------------------------------
(* Projects *)

\* 404 when it is gone; the handler keeps the copy.
GetProject(c) ==
  LET p == project[Arg(c).project] IN
  /\ At(c, "GetProject")
  /\ IF p.state = "live"
     THEN call' = [call EXCEPT ![c].todo = Tail(@), ![c].quota = p.quota]
     ELSE Answer(c)
  /\ UNCHANGED tables

\* UNIQUE (organization_id, name).
NameTaken(o, n) ==
  \E p \in Projects : project[p].state = "live" /\ project[p].org = o /\ project[p].name = n

\* Mutant: zero in a quota request stands for the default.
orDefaultReset(ask, quota) ==
  [f \in Fields |-> IF ask[f] = 0 THEN DefaultQuota[f] ELSE ask[f]]

\* A quota that is not asked for stays.
orDefault(ask, quota) == [f \in Fields |-> IF ask[f] = 0 THEN quota[f] ELSE ask[f]]

\* The project and its first maintainer, in one transaction: 409 for a name
\* that is taken, 500 when the organization is gone.
CreateProject(c) ==
  /\ At(c, "CreateProject")
  /\ IF org[Arg(c).org] = "live" /\ ~NameTaken(Arg(c).org, Arg(c).name)
     THEN \E p \in Projects :
            /\ project[p].state = "unused"
            /\ project' = [project EXCEPT ![p] =
                 [state |-> "live", org |-> Arg(c).org, name |-> Arg(c).name,
                  quota |-> orDefault(Arg(c).ask, DefaultQuota)]]
            /\ pmember' = [pmember EXCEPT ![p][By(c)] = "maintainer"]
     ELSE UNCHANGED <<project, pmember>>
  /\ Answer(c)
  /\ UNCHANGED <<user, org, member, default>>

UpdateProject(c) ==
  LET p == Arg(c).project
      taken == project[p].name # Arg(c).name /\ NameTaken(project[p].org, Arg(c).name)
  IN
  /\ At(c, "UpdateProject")
  /\ IF project[p].state = "live" /\ ~taken
     THEN project' = [project EXCEPT ![p].name = Arg(c).name]
     ELSE UNCHANGED project
  /\ Answer(c)
  /\ UNCHANGED <<user, org, member, default, pmember>>

\* All three quotas are written, those that were not asked for from the copy.
UpdateProjectQuotas(c) ==
  LET p == Arg(c).project IN
  /\ At(c, "UpdateProjectQuotas")
  /\ IF project[p].state = "live"
     THEN project' = [project EXCEPT ![p].quota = orDefault(Arg(c).ask, call[c].quota)]
     ELSE UNCHANGED project
  /\ Answer(c)
  /\ UNCHANGED <<user, org, member, default, pmember>>

DeleteProject(c) ==
  /\ At(c, "DeleteProject")
  /\ DropProjects({p \in {Arg(c).project} : project[p].state = "live"})
  /\ Answer(c)
  /\ UNCHANGED <<user, org, member, default>>

-----------------------------------------------------------------------------
(* Project membership *)

UpsertProjectMember(p, u, role) ==
  IF project[p].state = "live"
  THEN pmember' = [pmember EXCEPT ![p][u] = role]
  ELSE UNCHANGED pmember

AddProjectMember(c) ==
  /\ At(c, "AddProjectMember")
  /\ UpsertProjectMember(Arg(c).project, Arg(c).on, Arg(c).role)
  /\ Answer(c)
  /\ UNCHANGED <<user, org, member, default, project>>

RemoveProjectMember(c) ==
  /\ At(c, "RemoveProjectMember")
  /\ pmember' = [pmember EXCEPT ![Arg(c).project][Arg(c).on] = "none"]
  /\ Answer(c)
  /\ UNCHANGED <<user, org, member, default, project>>

UpdateProjectMemberRole(c) ==
  /\ At(c, "UpdateProjectMemberRole")
  /\ pmember' = [pmember EXCEPT ![Arg(c).project][Arg(c).on] =
                   IF @ = "none" THEN @ ELSE Arg(c).role]
  /\ Answer(c)
  /\ UNCHANGED <<user, org, member, default, project>>
=============================================================================
