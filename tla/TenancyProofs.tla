---------------------------- MODULE TenancyProofs ----------------------------
(***************************************************************************)
(* Proofs about organizations, projects and invitations, for any users,    *)
(* ids, concurrent calls and requests: first what the handlers call (their *)
(* checks come before, the write comes last, and a request has what its    *)
(* calls read of it), then what a request being served may know, and on    *)
(* these the properties.                                                   *)
(***************************************************************************)
EXTENDS TenancyAPI, FiniteSetTheorems, TLAPS

USE TenancyAssumptions, ServerAssumptions DEF TenancyAssumptions, ServerAssumptions

-----------------------------------------------------------------------------
(* What a handler calls *)

\* The elements of a sequence.
Elems(s) == {s[k] : k \in 1..Len(s)}

(* The calls a request still has to make. *)
Todo(c) == Elems(call[c].todo)

(* Calls that change nothing but what the request knows. *)
Reads ==
  {"GetOrganization", "GetOrgMemberRole", "GetProject", "GetProjectMemberRole",
   "GetUserByEmail", "CheckDefaultOrg", "ClearDefaults", "GetOrgInvitation",
   "GetProjectInvitation", "LockInvitation"}

\* Calls that change a table.
Writes ==
  {"SetUserAdmin", "CreateOrganization", "UpdateOrganization", "DeleteOrganization",
   "SetDefaultOrg", "AddOrgMember", "RemoveOrgMember", "UpdateOrgMemberRole",
   "CreateProject", "UpdateProject", "UpdateProjectQuotas", "DeleteProject",
   "AddProjectMember", "RemoveProjectMember", "UpdateProjectMemberRole",
   "CreateOrgInvitation", "CreateProjectInvitation", "AcceptOrgInvitation",
   "AcceptProjectInvitation", "SetOrgInvitationStatus", "SetProjectInvitationStatus"}

\* All calls a handler may make.
StoreCalls == Reads \cup Writes

(* Only the last call writes, and a lock is taken right before. *)
Script(s) ==
  /\ s \in Seq(StoreCalls)
  /\ \A k \in 1..(Len(s) - 1) : s[k] \in Reads
  /\ s # <<>> => s[Len(s)] \in Writes
  /\ \A k \in 1..(Len(s) - 2) : s[k] # "LockInvitation"

(* The request q has what the call f reads of it. *)
Suits(f, q) ==
  /\ f \in {"GetOrganization", "DeleteOrganization", "SetDefaultOrg", "AddOrgMember",
            "RemoveOrgMember", "UpdateOrgMemberRole", "CreateProject", "CreateOrgInvitation"} =>
       q.org \in Orgs
  /\ f \in {"GetProject", "GetProjectMemberRole", "UpdateProject", "UpdateProjectQuotas",
            "DeleteProject", "AddProjectMember", "RemoveProjectMember",
            "UpdateProjectMemberRole", "CreateProjectInvitation"} => q.project \in Projects
  /\ f = "GetOrgMemberRole" => q.org \in Orgs \/ q.project \in Projects
  /\ f \in {"GetOrgInvitation", "GetProjectInvitation", "LockInvitation",
            "AcceptOrgInvitation", "AcceptProjectInvitation", "SetOrgInvitationStatus",
            "SetProjectInvitationStatus"} => q.invite \in Invites
  /\ f \in {"GetUserByEmail", "SetUserAdmin", "AddOrgMember", "RemoveOrgMember",
            "UpdateOrgMemberRole", "AddProjectMember", "RemoveProjectMember",
            "UpdateProjectMemberRole", "CreateOrgInvitation", "CreateProjectInvitation"} =>
       q.on \in Users
  /\ f \in {"AddOrgMember", "UpdateOrgMemberRole", "CreateOrgInvitation"} => q.role \in OrgRoles
  /\ f \in {"AddProjectMember", "UpdateProjectMemberRole", "CreateProjectInvitation"} =>
       q.role \in ProjectRoles
  /\ f \in {"CreateProject", "UpdateProject"} => q.name \in Names
  /\ f \in {"CreateProject", "UpdateProjectQuotas"} => q.ask \in QuotaAsks

(* The checks before a call are there, for a request of handler h that still
   has to make the calls todo. *)
Guarded(h, todo) ==
  /\ Handlers[h].who \in {"anyone", "platform", "role", "invitee"}
  /\ "UpdateProjectQuotas" \in todo => "GetProject" \in todo
  /\ "AcceptOrgInvitation" \in todo => {"GetOrgInvitation", "LockInvitation"} \subseteq todo
  /\ "AcceptProjectInvitation" \in todo => {"GetProjectInvitation", "LockInvitation"} \subseteq todo
  /\ "LockInvitation" \in todo => todo \cap {"GetOrgInvitation", "GetProjectInvitation"} # {}
  /\ "CreateOrganization" \in todo => "CheckDefaultOrg" \in todo /\ h = "CreateOrg"
  /\ "SetDefaultOrg" \in todo => "ClearDefaults" \in todo /\ h = "SetDefaultOrg"
  /\ todo \cap {"GetOrgMemberRole", "GetProjectMemberRole"} # {} => Handlers[h].who = "role"
  /\ todo \cap {"GetOrgInvitation", "GetProjectInvitation", "LockInvitation"} # {} =>
       Handlers[h].who = "invitee"
  /\ Handlers[h].who = "role" => "GetOrgMemberRole" \in todo
  /\ Handlers[h].who = "role" /\ Handlers[h].project # {} => "GetProjectMemberRole" \in todo
  /\ Handlers[h].who = "invitee" => todo \cap {"GetOrgInvitation", "GetProjectInvitation"} # {}

\* Two elements put before a sequence.
LEMMA TwoBefore ==
  ASSUME NEW S, NEW a \in S, NEW b \in S, NEW s \in Seq(S)
  PROVE  /\ <<a, b>> \o s \in Seq(S)
         /\ Len(<<a, b>> \o s) = 2 + Len(s)
         /\ (<<a, b>> \o s)[1] = a
         /\ (<<a, b>> \o s)[2] = b
         /\ \A k \in 1..Len(s) : (<<a, b>> \o s)[2 + k] = s[k]
OBVIOUS

\* Three elements put before a sequence.
LEMMA ThreeBefore ==
  ASSUME NEW S, NEW a \in S, NEW b \in S, NEW d \in S, NEW s \in Seq(S)
  PROVE  /\ <<a, b, d>> \o s \in Seq(S)
         /\ Len(<<a, b, d>> \o s) = 3 + Len(s)
         /\ (<<a, b, d>> \o s)[1] = a
         /\ (<<a, b, d>> \o s)[2] = b
         /\ (<<a, b, d>> \o s)[3] = d
         /\ \A k \in 1..Len(s) : (<<a, b, d>> \o s)[3 + k] = s[k]
OBVIOUS

\* requireOrg puts its two reads before the calls of the handler.
LEMMA requireOrgCalls ==
  ASSUME NEW r, NEW s \in Seq(StoreCalls), NEW t, s # <<>>, Script(s)
  PROVE  /\ Script(requireOrg(r, s, t).calls)
         /\ Elems(requireOrg(r, s, t).calls) = {"GetOrganization", "GetOrgMemberRole"} \cup Elems(s)
<1>. DEFINE u == <<"GetOrganization", "GetOrgMemberRole">> \o s
<1>1. /\ u \in Seq(StoreCalls) /\ Len(u) = 2 + Len(s) /\ Len(s) \in Nat \ {0}
      /\ u[1] = "GetOrganization" /\ u[2] = "GetOrgMemberRole"
      /\ \A k \in 1..Len(s) : u[2 + k] = s[k]
  <2>1. "GetOrganization" \in StoreCalls /\ "GetOrgMemberRole" \in StoreCalls
    BY DEF StoreCalls, Reads
  <2>2. Len(s) \in Nat \ {0}
    OBVIOUS
  <2>. QED BY <2>1, <2>2, TwoBefore
<1>. HIDE DEF u
<1>2. \A k \in 1..Len(u) : k \in {1, 2} \/ (k - 2 \in 1..Len(s) /\ u[k] = s[k - 2])
  BY <1>1
<1>3. Elems(u) = {"GetOrganization", "GetOrgMemberRole"} \cup Elems(s)
  <2>1. Elems(u) \subseteq {"GetOrganization", "GetOrgMemberRole"} \cup Elems(s)
    BY <1>1, <1>2 DEF Elems
  <2>2. Elems(s) \subseteq Elems(u)
    <3>1. \A k \in 1..Len(s) : 2 + k \in 1..Len(u)
      BY <1>1
    <3>. QED BY <1>1, <3>1 DEF Elems
  <2>3. {"GetOrganization", "GetOrgMemberRole"} \subseteq Elems(u)
    <3>1. 1 \in 1..Len(u) /\ 2 \in 1..Len(u)
      BY <1>1
    <3>. QED BY <1>1, <3>1 DEF Elems
  <2>. QED BY <2>1, <2>2, <2>3
<1>4. Script(u)
  <2>1. \A k \in 1..(Len(u) - 1) :
          k \in {1, 2} \/ (k - 2 \in 1..(Len(s) - 1) /\ u[k] = s[k - 2])
    BY <1>1, <1>2
  <2>2. \A k \in 1..(Len(u) - 2) :
          k \in {1, 2} \/ (k - 2 \in 1..(Len(s) - 2) /\ u[k] = s[k - 2])
    BY <1>1, <1>2
  <2>3. \A k \in {1, 2} : u[k] \in Reads \ {"LockInvitation"}
    BY <1>1 DEF Reads
  <2>4. \A k \in 1..(Len(u) - 1) : u[k] \in Reads
    BY <2>1, <2>3 DEF Script
  <2>5. \A k \in 1..(Len(u) - 2) : u[k] # "LockInvitation"
    BY <2>2, <2>3 DEF Script
  <2>6. u[Len(u)] \in Writes
    BY <1>1, <1>2 DEF Script
  <2>. QED BY <1>1, <2>4, <2>5, <2>6 DEF Script
<1>. QED BY <1>3, <1>4 DEF requireOrg, u

\* requireProject puts its three reads before the calls of the handler.
LEMMA requireProjectCalls ==
  ASSUME NEW r, NEW s \in Seq(StoreCalls), NEW t, s # <<>>, Script(s)
  PROVE  /\ Script(requireProject(r, s, t).calls)
         /\ Elems(requireProject(r, s, t).calls) =
              {"GetProject", "GetOrgMemberRole", "GetProjectMemberRole"} \cup Elems(s)
         /\ requireProject(r, s, t).who = "role"
         /\ requireProject(r, s, t).takes = t \cup {"project"}
<1>. DEFINE u == <<"GetProject", "GetOrgMemberRole", "GetProjectMemberRole">> \o s
<1>1. /\ u \in Seq(StoreCalls) /\ Len(u) = 3 + Len(s) /\ Len(s) \in Nat \ {0}
      /\ u[1] = "GetProject" /\ u[2] = "GetOrgMemberRole" /\ u[3] = "GetProjectMemberRole"
      /\ \A k \in 1..Len(s) : u[3 + k] = s[k]
  <2>1. {"GetProject", "GetOrgMemberRole", "GetProjectMemberRole"} \subseteq StoreCalls
    BY DEF StoreCalls, Reads
  <2>2. Len(s) \in Nat \ {0}
    OBVIOUS
  <2>. QED BY <2>1, <2>2, ThreeBefore
<1>. HIDE DEF u
<1>2. \A k \in 1..Len(u) : k \in {1, 2, 3} \/ (k - 3 \in 1..Len(s) /\ u[k] = s[k - 3])
  BY <1>1
<1>3. Elems(u) = {"GetProject", "GetOrgMemberRole", "GetProjectMemberRole"} \cup Elems(s)
  <2>1. Elems(u) \subseteq {"GetProject", "GetOrgMemberRole", "GetProjectMemberRole"} \cup Elems(s)
    BY <1>1, <1>2 DEF Elems
  <2>2. Elems(s) \subseteq Elems(u)
    <3>1. \A k \in 1..Len(s) : 3 + k \in 1..Len(u)
      BY <1>1
    <3>. QED BY <1>1, <3>1 DEF Elems
  <2>3. {"GetProject", "GetOrgMemberRole", "GetProjectMemberRole"} \subseteq Elems(u)
    <3>1. 1 \in 1..Len(u) /\ 2 \in 1..Len(u) /\ 3 \in 1..Len(u)
      BY <1>1
    <3>. QED BY <1>1, <3>1 DEF Elems
  <2>. QED BY <2>1, <2>2, <2>3
<1>4. Script(u)
  <2>1. \A k \in 1..(Len(u) - 1) :
          k \in {1, 2, 3} \/ (k - 3 \in 1..(Len(s) - 1) /\ u[k] = s[k - 3])
    BY <1>1, <1>2
  <2>2. \A k \in 1..(Len(u) - 2) :
          k \in {1, 2, 3} \/ (k - 3 \in 1..(Len(s) - 2) /\ u[k] = s[k - 3])
    BY <1>1, <1>2
  <2>3. \A k \in {1, 2, 3} : u[k] \in Reads \ {"LockInvitation"}
    BY <1>1 DEF Reads
  <2>4. \A k \in 1..(Len(u) - 1) : u[k] \in Reads
    BY <2>1, <2>3 DEF Script
  <2>5. \A k \in 1..(Len(u) - 2) : u[k] # "LockInvitation"
    BY <2>2, <2>3 DEF Script
  <2>6. u[Len(u)] \in Writes
    BY <1>1, <1>2 DEF Script
  <2>. QED BY <1>1, <2>4, <2>5, <2>6 DEF Script
<1>. QED BY <1>3, <1>4 DEF requireProject, u

(* The sequences that are written out. *)
LEMMA Single ==
  ASSUME NEW a \in Writes
  PROVE  <<a>> \in Seq(StoreCalls) /\ <<a>> # <<>> /\ Script(<<a>>) /\ Elems(<<a>>) = {a}
<1>. a \in StoreCalls
  BY DEF StoreCalls
<1>. QED BY DEF Script, Elems

\* One read and one write make a script.
LEMMA Pair ==
  ASSUME NEW a \in Reads \ {"LockInvitation"}, NEW b \in Writes
  PROVE  /\ <<a, b>> \in Seq(StoreCalls) /\ <<a, b>> # <<>>
         /\ Script(<<a, b>>) /\ Elems(<<a, b>>) = {a, b}
<1>. a \in StoreCalls /\ b \in StoreCalls
  BY DEF StoreCalls
<1>1. Elems(<<a, b>>) = {a, b}
  BY DEF Elems
<1>. QED BY <1>1 DEF Script

\* Two reads and one write make a script.
LEMMA Triple ==
  ASSUME NEW a \in Reads \ {"LockInvitation"}, NEW b \in Reads, NEW d \in Writes
  PROVE  /\ <<a, b, d>> \in Seq(StoreCalls) /\ <<a, b, d>> # <<>>
         /\ Script(<<a, b, d>>) /\ Elems(<<a, b, d>>) = {a, b, d}
<1>. a \in StoreCalls /\ b \in StoreCalls /\ d \in StoreCalls
  BY DEF StoreCalls
<1>1. Elems(<<a, b, d>>) = {a, b, d}
  BY DEF Elems
<1>. QED BY <1>1 DEF Script

(* What a request asks is what its handler takes. *)
LEMMA Asked ==
  ASSUME NEW h \in DOMAIN Handlers, NEW q \in Requests(h)
  PROVE  LET takes == Handlers[h].takes IN
         /\ q.handler = h /\ q.by \in Users /\ q.claim \in BOOLEAN
         /\ "org" \in takes => q.org \in Orgs
         /\ q.project \in Projects \cup {None}
         /\ "project" \in takes => q.project \in Projects
         /\ q.project # None => project[q.project] # NoProject
         /\ "invite" \in takes => q.invite \in Invites
         /\ "on" \in takes => q.on \in Users
         /\ "orgRole" \in takes /\ "projectRole" \notin takes => q.role \in OrgRoles
         /\ "projectRole" \in takes /\ "orgRole" \notin takes => q.role \in ProjectRoles
         /\ "name" \in takes => q.name \in Names
         /\ "ask" \in takes => q.ask \in QuotaAsks
<1>. DEFINE takes == Handlers[h].takes
<1>1. "orgRole" \in takes /\ "projectRole" \notin takes => q.role \in OrgRoles
  <2>1. "orgRole" \in takes /\ "projectRole" \notin takes => Roles(h) = OrgRoles \cup {None}
    BY DEF Roles, Given
  <2>2. OrgRoles \cup {None} # {None}
    BY DEF OrgRoles
  <2>. QED BY <2>1, <2>2 DEF Requests
<1>2. "projectRole" \in takes /\ "orgRole" \notin takes => q.role \in ProjectRoles
  <2>1. "projectRole" \in takes /\ "orgRole" \notin takes => Roles(h) = ProjectRoles \cup {None}
    BY DEF Roles, Given
  <2>2. ProjectRoles \cup {None} # {None}
    BY DEF ProjectRoles
  <2>. QED BY <2>1, <2>2 DEF Requests
<1>3. /\ q.handler = h /\ q.by \in Users /\ q.claim \in BOOLEAN
      /\ "org" \in takes => q.org \in Orgs
      /\ q.project \in Projects \cup {None}
      /\ "project" \in takes => q.project \in Projects
      /\ q.project # None => project[q.project] # NoProject
      /\ "invite" \in takes => q.invite \in Invites
      /\ "on" \in takes => q.on \in Users
      /\ "name" \in takes => q.name \in Names
      /\ "ask" \in takes => q.ask \in QuotaAsks
  BY DEF Requests, Given
<1>. QED BY <1>1, <1>2, <1>3

(* A handler makes its calls in order, behind their checks, and its requests
   have what they read. *)
WellFormed(h) ==
  LET calls == Handlers[h].calls IN
  /\ Script(calls)
  /\ calls # <<>>
  /\ Guarded(h, Elems(calls))
  /\ \A q \in Requests(h), f \in Elems(calls) : Suits(f, q)

\* The handlers there are.
LEMMA HandlersAre ==
  DOMAIN Handlers =
    {"CreateOrg", "UpdateOrg", "DeleteOrg", "SetDefaultOrg", "AddOrgMember", "RemoveOrgMember",
     "UpdateOrgMemberRole", "CreateProject", "UpdateProject", "UpdateProjectQuotas",
     "DeleteProject", "AddProjectMember", "RemoveProjectMember", "UpdateProjectMemberRole",
     "CreateOrgInvitation", "CreateProjectInvitation", "AcceptOrgInvitation",
     "DeclineOrgInvitation", "AcceptProjectInvitation", "DeclineProjectInvitation",
     "AdminSetUserAdmin"}
BY DEF Handlers

(* What follows requireOrg needs no other check. *)
NeedsNoMore(h, todo) ==
  /\ "SetDefaultOrg" \in todo => h = "SetDefaultOrg" /\ "ClearDefaults" \in todo
  /\ todo \cap
       {"UpdateProjectQuotas", "AcceptOrgInvitation", "AcceptProjectInvitation",
        "CreateOrganization", "GetProjectMemberRole", "GetOrgInvitation",
        "GetProjectInvitation", "LockInvitation"} = {}

(* Handlers behind requireOrg. *)
LEMMA ForOrg ==
  ASSUME NEW h \in DOMAIN Handlers, NEW r, NEW s \in Seq(StoreCalls), NEW t,
         Handlers[h] = requireOrg(r, s, t), s # <<>>, Script(s),
         NeedsNoMore(h, Elems(s)),
         \A q \in Requests(h), f \in Elems(s) : Suits(f, q)
  PROVE  WellFormed(h)
<1>1. /\ Script(Handlers[h].calls)
      /\ Elems(Handlers[h].calls) = {"GetOrganization", "GetOrgMemberRole"} \cup Elems(s)
      /\ Handlers[h].who = "role" /\ Handlers[h].project = {}
      /\ Handlers[h].takes = t \cup {"org"}
  <2>1. /\ Script(requireOrg(r, s, t).calls)
        /\ Elems(requireOrg(r, s, t).calls) = {"GetOrganization", "GetOrgMemberRole"} \cup Elems(s)
    BY requireOrgCalls
  <2>2. /\ requireOrg(r, s, t).who = "role"
        /\ requireOrg(r, s, t).project = {}
        /\ requireOrg(r, s, t).takes = t \cup {"org"}
    BY DEF requireOrg
  <2>. QED BY <2>1, <2>2
<1>2. Handlers[h].calls # <<>>
  BY <1>1 DEF Elems
<1>3. Guarded(h, Elems(Handlers[h].calls))
  BY <1>1 DEF Guarded, NeedsNoMore
<1>4. \A q \in Requests(h), f \in Elems(Handlers[h].calls) : Suits(f, q)
  BY <1>1, Asked DEF Suits
<1>. QED BY <1>1, <1>2, <1>3, <1>4 DEF WellFormed

(* Handlers behind requireProject. *)
LEMMA ForProject ==
  ASSUME NEW h \in DOMAIN Handlers, NEW r, NEW s \in Seq(StoreCalls), NEW t,
         Handlers[h] = requireProject(r, s, t), s # <<>>, Script(s),
         Elems(s) \cap
           {"UpdateProjectQuotas", "AcceptOrgInvitation", "AcceptProjectInvitation",
            "CreateOrganization", "SetDefaultOrg", "GetOrgInvitation",
            "GetProjectInvitation", "LockInvitation"} = {},
         \A q \in Requests(h), f \in Elems(s) : Suits(f, q)
  PROVE  WellFormed(h)
<1>1. /\ Script(Handlers[h].calls)
      /\ Elems(Handlers[h].calls) =
           {"GetProject", "GetOrgMemberRole", "GetProjectMemberRole"} \cup Elems(s)
      /\ Handlers[h].who = "role"
      /\ Handlers[h].takes = t \cup {"project"}
  <2>1. /\ Script(requireProject(r, s, t).calls)
        /\ Elems(requireProject(r, s, t).calls) =
             {"GetProject", "GetOrgMemberRole", "GetProjectMemberRole"} \cup Elems(s)
        /\ requireProject(r, s, t).who = "role"
        /\ requireProject(r, s, t).takes = t \cup {"project"}
    BY requireProjectCalls
  <2>. QED BY <2>1
<1>2. Handlers[h].calls # <<>>
  BY <1>1 DEF Elems
<1>3. Guarded(h, Elems(Handlers[h].calls))
  BY <1>1 DEF Guarded
<1>4. \A q \in Requests(h), f \in Elems(Handlers[h].calls) : Suits(f, q)
  BY <1>1, Asked DEF Suits
<1>. QED BY <1>1, <1>2, <1>3, <1>4 DEF WellFormed

\* Every handler checks before it writes, and its requests have what its calls
\* read of them.
LEMMA HandlersWellFormed ==
  ASSUME NEW h \in DOMAIN Handlers
  PROVE  WellFormed(h)
<1>1. WellFormed("UpdateOrg")
  <2>. DEFINE s == <<"UpdateOrganization">>
  <2>1. "UpdateOrg" \in DOMAIN Handlers /\ Handlers["UpdateOrg"] = handleUpdateOrg
    BY HandlersAre DEF Handlers
  <2>a. "UpdateOrganization" \in Writes
    BY DEF Writes
  <2>2. s \in Seq(StoreCalls) /\ s # <<>> /\ Script(s) /\ Elems(s) = {"UpdateOrganization"}
    BY <2>a, Single
  <2>3. Handlers["UpdateOrg"] = requireOrg("admin", s, {})
    BY <2>1 DEF handleUpdateOrg
  <2>4. Handlers["UpdateOrg"].takes = {} \cup {"org"}
    BY <2>3 DEF requireOrg
  <2>5. \A q \in Requests("UpdateOrg"), f \in Elems(s) : Suits(f, q)
    BY <2>1, <2>2, <2>4, Asked DEF Suits
  <2>. QED BY <2>1, <2>2, <2>3, <2>5, ForOrg DEF NeedsNoMore
<1>2. WellFormed("DeleteOrg")
  <2>. DEFINE s == <<"DeleteOrganization">>
  <2>1. "DeleteOrg" \in DOMAIN Handlers /\ Handlers["DeleteOrg"] = handleDeleteOrg
    BY HandlersAre DEF Handlers
  <2>a. "DeleteOrganization" \in Writes
    BY DEF Writes
  <2>2. s \in Seq(StoreCalls) /\ s # <<>> /\ Script(s) /\ Elems(s) = {"DeleteOrganization"}
    BY <2>a, Single
  <2>3. Handlers["DeleteOrg"] = requireOrg("owner", s, {})
    BY <2>1 DEF handleDeleteOrg
  <2>4. Handlers["DeleteOrg"].takes = {} \cup {"org"}
    BY <2>3 DEF requireOrg
  <2>5. \A q \in Requests("DeleteOrg"), f \in Elems(s) : Suits(f, q)
    BY <2>1, <2>2, <2>4, Asked DEF Suits
  <2>. QED BY <2>1, <2>2, <2>3, <2>5, ForOrg DEF NeedsNoMore
<1>3. WellFormed("SetDefaultOrg")
  <2>. DEFINE s == <<"ClearDefaults", "SetDefaultOrg">>
  <2>1. "SetDefaultOrg" \in DOMAIN Handlers /\ Handlers["SetDefaultOrg"] = handleSetDefaultOrg
    BY HandlersAre DEF Handlers
  <2>a. "ClearDefaults" \in Reads \ {"LockInvitation"} /\ "SetDefaultOrg" \in Writes
    BY DEF Reads, Writes
  <2>2. s \in Seq(StoreCalls) /\ s # <<>> /\ Script(s)
          /\ Elems(s) = {"ClearDefaults", "SetDefaultOrg"}
    BY <2>a, Pair
  <2>3. Handlers["SetDefaultOrg"] = requireOrg("member", s, {})
    BY <2>1 DEF handleSetDefaultOrg
  <2>4. Handlers["SetDefaultOrg"].takes = {} \cup {"org"}
    BY <2>3 DEF requireOrg
  <2>5. \A q \in Requests("SetDefaultOrg"), f \in Elems(s) : Suits(f, q)
    BY <2>1, <2>2, <2>4, Asked DEF Suits
  <2>. QED BY <2>1, <2>2, <2>3, <2>5, ForOrg DEF NeedsNoMore
<1>4. WellFormed("AddOrgMember")
  <2>. DEFINE s == <<"GetUserByEmail", "AddOrgMember">>
  <2>1. "AddOrgMember" \in DOMAIN Handlers /\ Handlers["AddOrgMember"] = handleAddOrgMember
    BY HandlersAre DEF Handlers
  <2>a. "GetUserByEmail" \in Reads \ {"LockInvitation"} /\ "AddOrgMember" \in Writes
    BY DEF Reads, Writes
  <2>2. s \in Seq(StoreCalls) /\ s # <<>> /\ Script(s)
          /\ Elems(s) = {"GetUserByEmail", "AddOrgMember"}
    BY <2>a, Pair
  <2>3. Handlers["AddOrgMember"] = requireOrg("admin", s, {"on", "orgRole"})
    BY <2>1 DEF handleAddOrgMember
  <2>4. Handlers["AddOrgMember"].takes = {"on", "orgRole"} \cup {"org"}
    BY <2>3 DEF requireOrg
  <2>5. \A q \in Requests("AddOrgMember"), f \in Elems(s) : Suits(f, q)
    BY <2>1, <2>2, <2>4, Asked DEF Suits
  <2>. QED BY <2>1, <2>2, <2>3, <2>5, ForOrg DEF NeedsNoMore
<1>5. WellFormed("RemoveOrgMember")
  <2>. DEFINE s == <<"RemoveOrgMember">>
  <2>1. "RemoveOrgMember" \in DOMAIN Handlers /\ Handlers["RemoveOrgMember"] = handleRemoveOrgMember
    BY HandlersAre DEF Handlers
  <2>a. "RemoveOrgMember" \in Writes
    BY DEF Writes
  <2>2. s \in Seq(StoreCalls) /\ s # <<>> /\ Script(s) /\ Elems(s) = {"RemoveOrgMember"}
    BY <2>a, Single
  <2>3. Handlers["RemoveOrgMember"] = requireOrg("admin", s, {"on"})
    BY <2>1 DEF handleRemoveOrgMember
  <2>4. Handlers["RemoveOrgMember"].takes = {"on"} \cup {"org"}
    BY <2>3 DEF requireOrg
  <2>5. \A q \in Requests("RemoveOrgMember"), f \in Elems(s) : Suits(f, q)
    BY <2>1, <2>2, <2>4, Asked DEF Suits
  <2>. QED BY <2>1, <2>2, <2>3, <2>5, ForOrg DEF NeedsNoMore
<1>6. WellFormed("UpdateOrgMemberRole")
  <2>. DEFINE s == <<"UpdateOrgMemberRole">>
  <2>1. "UpdateOrgMemberRole" \in DOMAIN Handlers
          /\ Handlers["UpdateOrgMemberRole"] = handleUpdateOrgMemberRole
    BY HandlersAre DEF Handlers
  <2>a. "UpdateOrgMemberRole" \in Writes
    BY DEF Writes
  <2>2. s \in Seq(StoreCalls) /\ s # <<>> /\ Script(s) /\ Elems(s) = {"UpdateOrgMemberRole"}
    BY <2>a, Single
  <2>3. Handlers["UpdateOrgMemberRole"] = requireOrg("admin", s, {"on", "orgRole"})
    BY <2>1 DEF handleUpdateOrgMemberRole
  <2>4. Handlers["UpdateOrgMemberRole"].takes = {"on", "orgRole"} \cup {"org"}
    BY <2>3 DEF requireOrg
  <2>5. \A q \in Requests("UpdateOrgMemberRole"), f \in Elems(s) : Suits(f, q)
    BY <2>1, <2>2, <2>4, Asked DEF Suits
  <2>. QED BY <2>1, <2>2, <2>3, <2>5, ForOrg DEF NeedsNoMore
<1>7. WellFormed("CreateProject")
  <2>. DEFINE s == <<"CreateProject">>
  <2>1. "CreateProject" \in DOMAIN Handlers /\ Handlers["CreateProject"] = handleCreateProject
    BY HandlersAre DEF Handlers
  <2>a. "CreateProject" \in Writes
    BY DEF Writes
  <2>2. s \in Seq(StoreCalls) /\ s # <<>> /\ Script(s) /\ Elems(s) = {"CreateProject"}
    BY <2>a, Single
  <2>3. Handlers["CreateProject"] = requireOrg("member", s, {"name", "ask"})
    BY <2>1 DEF handleCreateProject
  <2>4. Handlers["CreateProject"].takes = {"name", "ask"} \cup {"org"}
    BY <2>3 DEF requireOrg
  <2>5. \A q \in Requests("CreateProject"), f \in Elems(s) : Suits(f, q)
    BY <2>1, <2>2, <2>4, Asked DEF Suits
  <2>. QED BY <2>1, <2>2, <2>3, <2>5, ForOrg DEF NeedsNoMore
<1>8. WellFormed("UpdateProject")
  <2>. DEFINE s == <<"UpdateProject">>
  <2>1. "UpdateProject" \in DOMAIN Handlers /\ Handlers["UpdateProject"] = handleUpdateProject
    BY HandlersAre DEF Handlers
  <2>a. "UpdateProject" \in Writes
    BY DEF Writes
  <2>2. s \in Seq(StoreCalls) /\ s # <<>> /\ Script(s) /\ Elems(s) = {"UpdateProject"}
    BY <2>a, Single
  <2>3. Handlers["UpdateProject"] = requireProject("maintainer", s, {"name"})
    BY <2>1 DEF handleUpdateProject
  <2>4. Handlers["UpdateProject"].takes = {"name"} \cup {"project"}
    BY <2>3 DEF requireProject
  <2>5. \A q \in Requests("UpdateProject"), f \in Elems(s) : Suits(f, q)
    BY <2>1, <2>2, <2>4, Asked DEF Suits
  <2>. QED BY <2>1, <2>2, <2>3, <2>5, ForProject
<1>9. WellFormed("DeleteProject")
  <2>. DEFINE s == <<"DeleteProject">>
  <2>1. "DeleteProject" \in DOMAIN Handlers /\ Handlers["DeleteProject"] = handleDeleteProject
    BY HandlersAre DEF Handlers
  <2>a. "DeleteProject" \in Writes
    BY DEF Writes
  <2>2. s \in Seq(StoreCalls) /\ s # <<>> /\ Script(s) /\ Elems(s) = {"DeleteProject"}
    BY <2>a, Single
  <2>3. Handlers["DeleteProject"] = requireProject("maintainer", s, {})
    BY <2>1 DEF handleDeleteProject
  <2>4. Handlers["DeleteProject"].takes = {} \cup {"project"}
    BY <2>3 DEF requireProject
  <2>5. \A q \in Requests("DeleteProject"), f \in Elems(s) : Suits(f, q)
    BY <2>1, <2>2, <2>4, Asked DEF Suits
  <2>. QED BY <2>1, <2>2, <2>3, <2>5, ForProject
<1>10. WellFormed("AddProjectMember")
  <2>. DEFINE s == <<"GetUserByEmail", "AddProjectMember">>
  <2>1. "AddProjectMember" \in DOMAIN Handlers
          /\ Handlers["AddProjectMember"] = handleAddProjectMember
    BY HandlersAre DEF Handlers
  <2>a. "GetUserByEmail" \in Reads \ {"LockInvitation"} /\ "AddProjectMember" \in Writes
    BY DEF Reads, Writes
  <2>2. s \in Seq(StoreCalls) /\ s # <<>> /\ Script(s)
          /\ Elems(s) = {"GetUserByEmail", "AddProjectMember"}
    BY <2>a, Pair
  <2>3. Handlers["AddProjectMember"] = requireProject("maintainer", s, {"on", "projectRole"})
    BY <2>1 DEF handleAddProjectMember
  <2>4. Handlers["AddProjectMember"].takes = {"on", "projectRole"} \cup {"project"}
    BY <2>3 DEF requireProject
  <2>5. \A q \in Requests("AddProjectMember"), f \in Elems(s) : Suits(f, q)
    BY <2>1, <2>2, <2>4, Asked DEF Suits
  <2>. QED BY <2>1, <2>2, <2>3, <2>5, ForProject
<1>11. WellFormed("RemoveProjectMember")
  <2>. DEFINE s == <<"RemoveProjectMember">>
  <2>1. "RemoveProjectMember" \in DOMAIN Handlers
          /\ Handlers["RemoveProjectMember"] = handleRemoveProjectMember
    BY HandlersAre DEF Handlers
  <2>a. "RemoveProjectMember" \in Writes
    BY DEF Writes
  <2>2. s \in Seq(StoreCalls) /\ s # <<>> /\ Script(s) /\ Elems(s) = {"RemoveProjectMember"}
    BY <2>a, Single
  <2>3. Handlers["RemoveProjectMember"] = requireProject("maintainer", s, {"on"})
    BY <2>1 DEF handleRemoveProjectMember
  <2>4. Handlers["RemoveProjectMember"].takes = {"on"} \cup {"project"}
    BY <2>3 DEF requireProject
  <2>5. \A q \in Requests("RemoveProjectMember"), f \in Elems(s) : Suits(f, q)
    BY <2>1, <2>2, <2>4, Asked DEF Suits
  <2>. QED BY <2>1, <2>2, <2>3, <2>5, ForProject
<1>12. WellFormed("UpdateProjectMemberRole")
  <2>. DEFINE s == <<"UpdateProjectMemberRole">>
  <2>1. "UpdateProjectMemberRole" \in DOMAIN Handlers
          /\ Handlers["UpdateProjectMemberRole"] = handleUpdateProjectMemberRole
    BY HandlersAre DEF Handlers
  <2>a. "UpdateProjectMemberRole" \in Writes
    BY DEF Writes
  <2>2. s \in Seq(StoreCalls) /\ s # <<>> /\ Script(s) /\ Elems(s) = {"UpdateProjectMemberRole"}
    BY <2>a, Single
  <2>3. Handlers["UpdateProjectMemberRole"] = requireProject("maintainer", s, {"on", "projectRole"})
    BY <2>1 DEF handleUpdateProjectMemberRole
  <2>4. Handlers["UpdateProjectMemberRole"].takes = {"on", "projectRole"} \cup {"project"}
    BY <2>3 DEF requireProject
  <2>5. \A q \in Requests("UpdateProjectMemberRole"), f \in Elems(s) : Suits(f, q)
    BY <2>1, <2>2, <2>4, Asked DEF Suits
  <2>. QED BY <2>1, <2>2, <2>3, <2>5, ForProject
<1>13. WellFormed("CreateOrgInvitation")
  <2>. DEFINE s == <<"CreateOrgInvitation">>
  <2>1. "CreateOrgInvitation" \in DOMAIN Handlers
          /\ Handlers["CreateOrgInvitation"] = handleCreateOrgInvitation
    BY HandlersAre DEF Handlers
  <2>a. "CreateOrgInvitation" \in Writes
    BY DEF Writes
  <2>2. s \in Seq(StoreCalls) /\ s # <<>> /\ Script(s) /\ Elems(s) = {"CreateOrgInvitation"}
    BY <2>a, Single
  <2>3. Handlers["CreateOrgInvitation"] = requireOrg("admin", s, {"on", "orgRole"})
    BY <2>1 DEF handleCreateOrgInvitation
  <2>4. Handlers["CreateOrgInvitation"].takes = {"on", "orgRole"} \cup {"org"}
    BY <2>3 DEF requireOrg
  <2>5. \A q \in Requests("CreateOrgInvitation"), f \in Elems(s) : Suits(f, q)
    BY <2>1, <2>2, <2>4, Asked DEF Suits
  <2>. QED BY <2>1, <2>2, <2>3, <2>5, ForOrg DEF NeedsNoMore
<1>14. WellFormed("CreateProjectInvitation")
  <2>. DEFINE s == <<"CreateProjectInvitation">>
  <2>1. "CreateProjectInvitation" \in DOMAIN Handlers
          /\ Handlers["CreateProjectInvitation"] = handleCreateProjectInvitation
    BY HandlersAre DEF Handlers
  <2>a. "CreateProjectInvitation" \in Writes
    BY DEF Writes
  <2>2. s \in Seq(StoreCalls) /\ s # <<>> /\ Script(s) /\ Elems(s) = {"CreateProjectInvitation"}
    BY <2>a, Single
  <2>3. Handlers["CreateProjectInvitation"] = requireProject("maintainer", s, {"on", "projectRole"})
    BY <2>1 DEF handleCreateProjectInvitation
  <2>4. Handlers["CreateProjectInvitation"].takes = {"on", "projectRole"} \cup {"project"}
    BY <2>3 DEF requireProject
  <2>5. \A q \in Requests("CreateProjectInvitation"), f \in Elems(s) : Suits(f, q)
    BY <2>1, <2>2, <2>4, Asked DEF Suits
  <2>. QED BY <2>1, <2>2, <2>3, <2>5, ForProject
<1>15. WellFormed("CreateOrg")
  <2>. DEFINE s == <<"CheckDefaultOrg", "CreateOrganization">>
  <2>1. "CreateOrg" \in DOMAIN Handlers /\ Handlers["CreateOrg"] = handleCreateOrg
    BY HandlersAre DEF Handlers
  <2>a. "CheckDefaultOrg" \in Reads \ {"LockInvitation"} /\ "CreateOrganization" \in Writes
    BY DEF Reads, Writes
  <2>2. s \in Seq(StoreCalls) /\ s # <<>> /\ Script(s)
          /\ Elems(s) = {"CheckDefaultOrg", "CreateOrganization"}
    BY <2>a, Pair
  <2>3. /\ Handlers["CreateOrg"].calls = s /\ Handlers["CreateOrg"].who = "anyone"
        /\ Handlers["CreateOrg"].takes = {} /\ Handlers["CreateOrg"].project = {}
    BY <2>1 DEF handleCreateOrg, Anybody
  <2>4. Guarded("CreateOrg", Elems(s))
    BY <2>2, <2>3 DEF Guarded
  <2>5. \A q \in Requests("CreateOrg"), f \in Elems(s) : Suits(f, q)
    BY <2>1, <2>2, <2>3, Asked DEF Suits
  <2>. QED BY <2>2, <2>3, <2>4, <2>5 DEF WellFormed
<1>16. WellFormed("AcceptOrgInvitation")
  <2>. DEFINE s == <<"GetOrgInvitation", "LockInvitation", "AcceptOrgInvitation">>
  <2>1. "AcceptOrgInvitation" \in DOMAIN Handlers
          /\ Handlers["AcceptOrgInvitation"] = handleAcceptOrgInvitation
    BY HandlersAre DEF Handlers
  <2>a. /\ "GetOrgInvitation" \in Reads \ {"LockInvitation"} /\ "LockInvitation" \in Reads
        /\ "AcceptOrgInvitation" \in Writes
    BY DEF Reads, Writes
  <2>2. s \in Seq(StoreCalls) /\ s # <<>> /\ Script(s)
          /\ Elems(s) = {"GetOrgInvitation", "LockInvitation", "AcceptOrgInvitation"}
    BY <2>a, Triple
  <2>3. /\ Handlers["AcceptOrgInvitation"].calls = s
             /\ Handlers["AcceptOrgInvitation"].who = "invitee"
        /\ Handlers["AcceptOrgInvitation"].takes = {"invite"}
             /\ Handlers["AcceptOrgInvitation"].project = {}
    BY <2>1 DEF handleAcceptOrgInvitation, Anybody
  <2>4. Guarded("AcceptOrgInvitation", Elems(s))
    BY <2>2, <2>3 DEF Guarded
  <2>5. \A q \in Requests("AcceptOrgInvitation"), f \in Elems(s) : Suits(f, q)
    BY <2>1, <2>2, <2>3, Asked DEF Suits
  <2>. QED BY <2>2, <2>3, <2>4, <2>5 DEF WellFormed
<1>17. WellFormed("DeclineOrgInvitation")
  <2>. DEFINE s == <<"GetOrgInvitation", "SetOrgInvitationStatus">>
  <2>1. "DeclineOrgInvitation" \in DOMAIN Handlers
          /\ Handlers["DeclineOrgInvitation"] = handleDeclineOrgInvitation
    BY HandlersAre DEF Handlers
  <2>a. "GetOrgInvitation" \in Reads \ {"LockInvitation"} /\ "SetOrgInvitationStatus" \in Writes
    BY DEF Reads, Writes
  <2>2. s \in Seq(StoreCalls) /\ s # <<>> /\ Script(s)
          /\ Elems(s) = {"GetOrgInvitation", "SetOrgInvitationStatus"}
    BY <2>a, Pair
  <2>3. /\ Handlers["DeclineOrgInvitation"].calls = s
             /\ Handlers["DeclineOrgInvitation"].who = "invitee"
        /\ Handlers["DeclineOrgInvitation"].takes = {"invite"}
             /\ Handlers["DeclineOrgInvitation"].project = {}
    BY <2>1 DEF handleDeclineOrgInvitation, Anybody
  <2>4. Guarded("DeclineOrgInvitation", Elems(s))
    BY <2>2, <2>3 DEF Guarded
  <2>5. \A q \in Requests("DeclineOrgInvitation"), f \in Elems(s) : Suits(f, q)
    BY <2>1, <2>2, <2>3, Asked DEF Suits
  <2>. QED BY <2>2, <2>3, <2>4, <2>5 DEF WellFormed
<1>18. WellFormed("AcceptProjectInvitation")
  <2>. DEFINE s == <<"GetProjectInvitation", "LockInvitation", "AcceptProjectInvitation">>
  <2>1. "AcceptProjectInvitation" \in DOMAIN Handlers
          /\ Handlers["AcceptProjectInvitation"] = handleAcceptProjectInvitation
    BY HandlersAre DEF Handlers
  <2>a. /\ "GetProjectInvitation" \in Reads \ {"LockInvitation"} /\ "LockInvitation" \in Reads
        /\ "AcceptProjectInvitation" \in Writes
    BY DEF Reads, Writes
  <2>2. s \in Seq(StoreCalls) /\ s # <<>> /\ Script(s)
          /\ Elems(s) = {"GetProjectInvitation", "LockInvitation", "AcceptProjectInvitation"}
    BY <2>a, Triple
  <2>3. /\ Handlers["AcceptProjectInvitation"].calls = s
             /\ Handlers["AcceptProjectInvitation"].who = "invitee"
        /\ Handlers["AcceptProjectInvitation"].takes = {"invite"}
             /\ Handlers["AcceptProjectInvitation"].project = {}
    BY <2>1 DEF handleAcceptProjectInvitation, Anybody
  <2>4. Guarded("AcceptProjectInvitation", Elems(s))
    BY <2>2, <2>3 DEF Guarded
  <2>5. \A q \in Requests("AcceptProjectInvitation"), f \in Elems(s) : Suits(f, q)
    BY <2>1, <2>2, <2>3, Asked DEF Suits
  <2>. QED BY <2>2, <2>3, <2>4, <2>5 DEF WellFormed
<1>19. WellFormed("DeclineProjectInvitation")
  <2>. DEFINE s == <<"GetProjectInvitation", "SetProjectInvitationStatus">>
  <2>1. "DeclineProjectInvitation" \in DOMAIN Handlers
          /\ Handlers["DeclineProjectInvitation"] = handleDeclineProjectInvitation
    BY HandlersAre DEF Handlers
  <2>a. "GetProjectInvitation" \in Reads \ {"LockInvitation"}
          /\ "SetProjectInvitationStatus" \in Writes
    BY DEF Reads, Writes
  <2>2. s \in Seq(StoreCalls) /\ s # <<>> /\ Script(s)
          /\ Elems(s) = {"GetProjectInvitation", "SetProjectInvitationStatus"}
    BY <2>a, Pair
  <2>3. /\ Handlers["DeclineProjectInvitation"].calls = s
             /\ Handlers["DeclineProjectInvitation"].who = "invitee"
        /\ Handlers["DeclineProjectInvitation"].takes = {"invite"}
             /\ Handlers["DeclineProjectInvitation"].project = {}
    BY <2>1 DEF handleDeclineProjectInvitation, Anybody
  <2>4. Guarded("DeclineProjectInvitation", Elems(s))
    BY <2>2, <2>3 DEF Guarded
  <2>5. \A q \in Requests("DeclineProjectInvitation"), f \in Elems(s) : Suits(f, q)
    BY <2>1, <2>2, <2>3, Asked DEF Suits
  <2>. QED BY <2>2, <2>3, <2>4, <2>5 DEF WellFormed
<1>20. WellFormed("AdminSetUserAdmin")
  <2>. DEFINE s == <<"SetUserAdmin">>
  <2>1. "AdminSetUserAdmin" \in DOMAIN Handlers
          /\ Handlers["AdminSetUserAdmin"] = handleAdminSetUserAdmin
    BY HandlersAre DEF Handlers
  <2>a. "SetUserAdmin" \in Writes
    BY DEF Writes
  <2>2. s \in Seq(StoreCalls) /\ s # <<>> /\ Script(s) /\ Elems(s) = {"SetUserAdmin"}
    BY <2>a, Single
  <2>3. /\ Handlers["AdminSetUserAdmin"].calls = s /\ Handlers["AdminSetUserAdmin"].who = "platform"
        /\ Handlers["AdminSetUserAdmin"].takes = {"on"}
             /\ Handlers["AdminSetUserAdmin"].project = {}
    BY <2>1 DEF handleAdminSetUserAdmin, Anybody
  <2>4. Guarded("AdminSetUserAdmin", Elems(s))
    BY <2>2, <2>3 DEF Guarded
  <2>5. \A q \in Requests("AdminSetUserAdmin"), f \in Elems(s) : Suits(f, q)
    BY <2>1, <2>2, <2>3, Asked DEF Suits
  <2>. QED BY <2>2, <2>3, <2>4, <2>5 DEF WellFormed
<1>21. WellFormed("UpdateProjectQuotas")
  <2>. DEFINE s == <<"GetProject", "GetOrgMemberRole", "UpdateProjectQuotas">>
  <2>1. "UpdateProjectQuotas" \in DOMAIN Handlers
          /\ Handlers["UpdateProjectQuotas"] = handleUpdateProjectQuotas
    BY HandlersAre DEF Handlers
  <2>a. /\ "GetProject" \in Reads \ {"LockInvitation"} /\ "GetOrgMemberRole" \in Reads
        /\ "UpdateProjectQuotas" \in Writes
    BY DEF Reads, Writes
  <2>2. s \in Seq(StoreCalls) /\ s # <<>> /\ Script(s)
          /\ Elems(s) = {"GetProject", "GetOrgMemberRole", "UpdateProjectQuotas"}
    BY <2>a, Triple
  <2>3. /\ Handlers["UpdateProjectQuotas"].calls = s /\ Handlers["UpdateProjectQuotas"].who = "role"
        /\ Handlers["UpdateProjectQuotas"].takes = {"project", "ask"}
             /\ Handlers["UpdateProjectQuotas"].project = {}
    BY <2>1 DEF handleUpdateProjectQuotas
  <2>4. Guarded("UpdateProjectQuotas", Elems(s))
    BY <2>2, <2>3 DEF Guarded
  <2>5. \A q \in Requests("UpdateProjectQuotas"), f \in Elems(s) : Suits(f, q)
    BY <2>1, <2>2, <2>3, Asked DEF Suits
  <2>. QED BY <2>2, <2>3, <2>4, <2>5 DEF WellFormed
<1>. QED BY HandlersAre, <1>1, <1>2, <1>3, <1>4, <1>5, <1>6, <1>7, <1>8, <1>9, <1>10, <1>11,
       <1>12, <1>13, <1>14, <1>15, <1>16, <1>17, <1>18, <1>19, <1>20, <1>21

-----------------------------------------------------------------------------
(* What a request being served may know *)

\* The requests of all handlers, with any ids.
AnyRequest ==
  [handler : DOMAIN Handlers, by : Users, claim : BOOLEAN,
   org : Orgs \cup {None}, project : Projects \cup {None}, invite : Invites \cup {None},
   on : Users \cup {None}, role : OrgRoles \cup ProjectRoles \cup {None},
   name : Names \cup {None}, ask : QuotaAsks \cup {NoQuota}]

\* What the server knows of a request it serves.
CallRows ==
  [req : AnyRequest \cup {NoRequest}, todo : Seq(StoreCalls), admin : BOOLEAN,
   quota : Quotas \cup {NoQuota}, hasDefault : BOOLEAN, rows : SUBSET Orgs]

\* The invitation of the request is one of its caller.
Invited(c) == invite[Arg(c).invite] # NoInvite /\ invite[Arg(c).invite].to = By(c)

\* What a call found out holds as long as the request lasts.
Served(c) ==
  /\ Arg(c) \in AnyRequest
  /\ Script(call[c].todo)
  /\ call[c].admin => Arg(c).claim
  /\ \A f \in Todo(c) : Suits(f, Arg(c))
  /\ Arg(c).project # None => project[Arg(c).project] # NoProject
  /\ "UpdateProjectQuotas" \in Todo(c) => "GetProject" \in Todo(c) \/ call[c].quota \in Quotas
  /\ "LockInvitation" \in Todo(c) =>
       Todo(c) \cap {"GetOrgInvitation", "GetProjectInvitation"} # {} \/ Invited(c)
  /\ "AcceptOrgInvitation" \in Todo(c) =>
       "GetOrgInvitation" \in Todo(c) \/ (Invited(c) /\ invite[Arg(c).invite].table = "org")
  /\ "AcceptProjectInvitation" \in Todo(c) =>
       "GetProjectInvitation" \in Todo(c) \/ (Invited(c) /\ invite[Arg(c).invite].table = "project")

\* The tables have their types.
TablesOK ==
  /\ user \in [Users -> {"unknown", "plain", "admin"}]
  /\ org \in [Orgs -> {"unused", "live", "gone"}]
  /\ member \in [Orgs -> [Users -> OrgRoles \cup {"none"}]]
  /\ default \in [Users -> SUBSET Orgs]
  /\ project \in [Projects -> ProjectRows]
  /\ pmember \in [Projects -> [Users -> ProjectRoles \cup {"none"}]]
  /\ invite \in [Invites -> InviteRows]
  /\ joined \in [Invites -> Nat]

\* The type invariant: what a call found out is part of it, because the types of
\* the rows it writes depend on that.
TypeInv ==
  /\ TablesOK
  /\ requests \in 0..MaxRequests /\ held \in [Calls -> BOOLEAN] /\ raced \subseteq Users
  /\ overtaken \in [Calls -> SUBSET Fields]
  /\ call \in [Calls -> CallRows]
  /\ \A c \in Calls : call[c] = Idle \/ Served(c)

-----------------------------------------------------------------------------
(* The steps of a request *)

\* A step that makes the call f and only reads.
Reading(c, f) ==
  /\ f \in Reads /\ At(c, f)
  /\ UNCHANGED <<tables, invite, joined>>
  /\ call' \in [Calls -> CallRows]
  /\ \A d \in Calls \ {c} : call'[d] = call[d]
  /\ call'[c].req = Arg(c) /\ call'[c].admin = call[c].admin
  /\ Script(call'[c].todo)
  /\ f # "GetOrgMemberRole" => call'[c].todo = Tail(call[c].todo)
  /\ Elems(call'[c].todo) \subseteq Todo(c)
  /\ \/ Todo(c) \ {f} \subseteq Elems(call'[c].todo)
     \/ /\ f = "GetOrgMemberRole" /\ orgRoleAtLeast(c)
        /\ Todo(c) \ {f, "GetProjectMemberRole"} \subseteq Elems(call'[c].todo)
  /\ call'[c].quota = IF f = "GetProject" THEN project[Arg(c).project].quota ELSE call[c].quota
  /\ call'[c].hasDefault =
       IF f = "CheckDefaultOrg" THEN default[By(c)] # {} ELSE call[c].hasDefault
  /\ call'[c].rows =
       IF f = "ClearDefaults" THEN {o \in Orgs : member[o][By(c)] # "none"} ELSE call[c].rows
  /\ f = "GetProject" => project[Arg(c).project].state = "live"
  /\ f = "GetOrgMemberRole" => orgRoleAtLeast(c) \/ Handlers[Arg(c).handler].project # {}
  /\ f = "GetProjectMemberRole" =>
       pmember[Arg(c).project][By(c)] \in Handlers[Arg(c).handler].project
  /\ f = "GetOrgInvitation" => Invited(c) /\ invite[Arg(c).invite].table = "org"
  /\ f = "GetProjectInvitation" => Invited(c) /\ invite[Arg(c).invite].table = "project"
  /\ f = "LockInvitation" =>
       /\ ~InviteLocked(Arg(c).invite)
       /\ invite[Arg(c).invite].status = "pending" /\ ~invite[Arg(c).invite].expired

\* A step that ends the request and changes nothing else.
Answering(c) == call[c] # Idle /\ Answer(c) /\ UNCHANGED <<tables, invite, joined>>

\* The calls that write.
Writing(c) ==
  \/ /\ \/ SetUserAdmin(c) \/ CreateOrganization(c) \/ SetDefaultOrg(c)
        \/ AddOrgMember(c) \/ RemoveOrgMember(c) \/ UpdateOrgMemberRole(c)
        \/ CreateProject(c) \/ UpdateProject(c) \/ UpdateProjectQuotas(c)
        \/ AddProjectMember(c) \/ RemoveProjectMember(c) \/ UpdateProjectMemberRole(c)
     /\ UNCHANGED <<invite, joined>>
  \/ (DeleteOrganization(c) \/ DeleteProject(c)) /\ CascadeToInvites
  \/ CreateOrgInvitation(c) \/ CreateProjectInvitation(c)
  \/ AcceptOrgInvitation(c) \/ AcceptProjectInvitation(c)
  \/ SetOrgInvitationStatus(c) \/ SetProjectInvitationStatus(c)

\* What is left of a script when its first call is made.
LEMMA TailIs ==
  ASSUME NEW s, Script(s), s # <<>>
  PROVE  /\ Head(s) \in StoreCalls /\ Head(s) \in Elems(s)
         /\ Script(Tail(s))
         /\ Elems(Tail(s)) \subseteq Elems(s)
         /\ Elems(s) \ {Head(s)} \subseteq Elems(Tail(s))
         /\ Head(s) \notin Reads => Elems(s) = {Head(s)}
         /\ Head(s) = "LockInvitation" =>
              \A f \in Elems(Tail(s)) : Tail(s) # <<>> /\ Head(Tail(s)) = f /\ f \in Writes
<1>1. /\ s \in Seq(StoreCalls) /\ Len(s) \in Nat \ {0} /\ Head(s) = s[1]
      /\ Tail(s) \in Seq(StoreCalls) /\ Len(Tail(s)) = Len(s) - 1
      /\ \A k \in 1..(Len(s) - 1) : Tail(s)[k] = s[k + 1]
  BY DEF Script
<1>2. Script(Tail(s))
  <2>1. \A k \in 1..(Len(Tail(s)) - 1) : k + 1 \in 1..(Len(s) - 1)
    BY <1>1
  <2>2. \A k \in 1..(Len(Tail(s)) - 2) : k + 1 \in 1..(Len(s) - 2)
    BY <1>1
  <2>3. Tail(s) # <<>> => Tail(s)[Len(Tail(s))] = s[Len(s)] /\ s # <<>>
    BY <1>1
  <2>. QED BY <1>1, <2>1, <2>2, <2>3 DEF Script
<1>3. Elems(Tail(s)) \subseteq Elems(s)
  <2>1. \A k \in 1..Len(Tail(s)) : k + 1 \in 1..Len(s)
    BY <1>1
  <2>. QED BY <1>1, <2>1 DEF Elems
<1>4. Elems(s) \ {Head(s)} \subseteq Elems(Tail(s))
  <2>1. \A k \in 1..Len(s) : k = 1 \/ (k - 1 \in 1..Len(Tail(s)) /\ Tail(s)[k - 1] = s[k])
    BY <1>1
  <2>. QED BY <1>1, <2>1 DEF Elems
<1>5. Head(s) \notin Reads => Elems(s) = {Head(s)}
  <2>. SUFFICES ASSUME Head(s) \notin Reads PROVE Len(s) = 1
    BY <1>1 DEF Elems
  <2>. QED BY <1>1 DEF Script
<1>6. Head(s) \in Elems(s)
  <2>1. 1 \in 1..Len(s)
    BY <1>1
  <2>. QED BY <1>1, <2>1 DEF Elems
<1>7. Head(s) = "LockInvitation" =>
        \A f \in Elems(Tail(s)) : Tail(s) # <<>> /\ Head(Tail(s)) = f /\ f \in Writes
  <2>. SUFFICES ASSUME Head(s) = "LockInvitation", NEW k \in 1..Len(Tail(s))
                PROVE  Tail(s) # <<>> /\ Head(Tail(s)) = Tail(s)[k] /\ Tail(s)[k] \in Writes
    BY DEF Elems
  <2>1. Len(s) <= 2
    BY <1>1 DEF Script
  <2>2. k = 1 /\ Len(Tail(s)) = 1
    BY <1>1, <2>1
  <2>a. Len(Tail(s)) = Len(s) - 1 /\ Len(s) \in Nat /\ Tail(s) \in Seq(StoreCalls)
    BY <1>1
  <2>3. Len(s) = 2
    BY <2>2, <2>a
  <2>b. Tail(s)[1] = s[2]
    <3>1. 1 \in 1..(Len(s) - 1)
      BY <2>3
    <3>. QED BY <1>1, <3>1
  <2>4. Tail(s)[1] = s[2] /\ Tail(s) # <<>> /\ Head(Tail(s)) = Tail(s)[1]
    BY <2>2, <2>a, <2>b
  <2>5. s[2] \in Writes
    BY <1>1, <2>3 DEF Script
  <2>. QED BY <2>2, <2>4, <2>5
<1>. QED BY <1>1, <1>2, <1>3, <1>4, <1>5, <1>6, <1>7

\* What is known of a request at one of its calls.
LEMMA ServedAt ==
  ASSUME TypeInv, NEW c \in Calls, NEW f, At(c, f)
  PROVE  /\ call[c] # Idle /\ Served(c) /\ call[c] \in CallRows
         /\ call[c].todo # <<>> /\ Head(call[c].todo) = f
         /\ f \in StoreCalls /\ f \in Todo(c) /\ Suits(f, Arg(c))
         /\ f \notin Reads => Todo(c) = {f}
<1>1. call[c] # Idle
  BY DEF At, Idle
<1>2. Served(c) /\ call[c] \in CallRows
  BY <1>1 DEF TypeInv
<1>3. Script(call[c].todo) /\ call[c].todo # <<>> /\ Head(call[c].todo) = f
  BY <1>2 DEF Served, At
<1>4. f \in StoreCalls /\ f \in Todo(c) /\ (f \notin Reads => Todo(c) = {f})
  BY <1>3, TailIs DEF Todo
<1>5. Suits(f, Arg(c))
  BY <1>2, <1>4 DEF Served
<1>. QED BY <1>1, <1>2, <1>3, <1>4, <1>5

(* The rest of a request after one of its reads. *)
LEMMA RestIs ==
  ASSUME TypeInv, NEW c \in Calls, NEW f \in Reads, At(c, f)
  PROVE  LET rest == Tail(call[c].todo) IN
         /\ rest \in Seq(StoreCalls)
         /\ Script(rest)
         /\ Elems(rest) \subseteq Todo(c)
         /\ Todo(c) \ {f} \subseteq Elems(rest)
<1>1. Script(call[c].todo) /\ call[c].todo # <<>> /\ Head(call[c].todo) = f
  BY ServedAt DEF Served
<1>2. Script(Tail(call[c].todo)) /\ Tail(call[c].todo) \in Seq(StoreCalls)
  BY <1>1, TailIs DEF Script
<1>. QED BY <1>1, <1>2, TailIs DEF Todo

(* A step that goes on to the next call and learns nothing. *)
LEMMA Advancing ==
  ASSUME TypeInv, NEW c \in Calls, NEW f \in Reads, At(c, f), Advance(c),
         UNCHANGED <<tables, invite, joined>>,
         f \notin {"GetProject", "CheckDefaultOrg", "ClearDefaults"},
         f = "GetOrgMemberRole" => orgRoleAtLeast(c) \/ Handlers[Arg(c).handler].project # {},
         f = "GetProjectMemberRole" =>
           pmember[Arg(c).project][By(c)] \in Handlers[Arg(c).handler].project,
         f = "GetOrgInvitation" => Invited(c) /\ invite[Arg(c).invite].table = "org",
         f = "GetProjectInvitation" => Invited(c) /\ invite[Arg(c).invite].table = "project",
         f = "LockInvitation" =>
           /\ ~InviteLocked(Arg(c).invite)
           /\ invite[Arg(c).invite].status = "pending" /\ ~invite[Arg(c).invite].expired
  PROVE  Reading(c, f)
<1>. DEFINE rest == Tail(call[c].todo)
<1>1. rest \in Seq(StoreCalls) /\ Script(rest) /\ Elems(rest) \subseteq Todo(c)
      /\ Todo(c) \ {f} \subseteq Elems(rest)
  BY RestIs
<1>2. call[c] \in CallRows /\ call \in [Calls -> CallRows]
  BY DEF TypeInv
<1>3. call' = [d \in Calls |-> IF d = c THEN [call[c] EXCEPT !.todo = rest] ELSE call[d]]
  BY <1>2 DEF Advance
<1>. HIDE DEF rest
<1>4. /\ call'[c] \in CallRows /\ call'[c].todo = rest
      /\ call'[c].req = Arg(c) /\ call'[c].admin = call[c].admin
      /\ call'[c].quota = call[c].quota /\ call'[c].hasDefault = call[c].hasDefault
      /\ call'[c].rows = call[c].rows
  BY <1>1, <1>2, <1>3 DEF CallRows, Arg
<1>f. call' \in [Calls -> CallRows]
  BY <1>1, <1>2, <1>3, <1>4
<1>. QED BY <1>1, <1>3, <1>4, <1>f DEF Reading, rest

\* What a serving step is: a read, an answer, or a write.
Kinds(c) == (\E f \in Reads : Reading(c, f)) \/ Answering(c) \/ Writing(c)

\* A check of a role reads or answers.
LEMMA RoleKinds ==
  ASSUME TypeInv, NEW c \in Calls, AllowByOrg(c) \/ NotByOrg(c) \/ projectRoleAtLeast(c),
         UNCHANGED <<tables, invite, joined>>
  PROVE  Kinds(c)
<1>1. CASE AllowByOrg(c)
  <2>. DEFINE todo == call[c].todo
              skips == Tail(todo) # <<>> /\ Head(Tail(todo)) = "GetProjectMemberRole"
              rest == IF skips THEN Tail(Tail(todo)) ELSE Tail(todo)
  <2>1. At(c, "GetOrgMemberRole") /\ "GetOrgMemberRole" \in Reads
    BY <1>1 DEF AllowByOrg, Reads
  <2>2. Script(todo) /\ todo # <<>> /\ Head(todo) = "GetOrgMemberRole"
    BY <2>1, ServedAt DEF Served
  <2>3. /\ Script(Tail(todo)) /\ Elems(Tail(todo)) \subseteq Elems(todo)
        /\ Elems(todo) \ {"GetOrgMemberRole"} \subseteq Elems(Tail(todo))
    BY <2>2, TailIs
  <2>4. skips => /\ Script(Tail(Tail(todo))) /\ Elems(Tail(Tail(todo))) \subseteq Elems(Tail(todo))
                 /\ Elems(Tail(todo)) \ {"GetProjectMemberRole"} \subseteq Elems(Tail(Tail(todo)))
    BY <2>3, TailIs
  <2>5. Script(rest) /\ rest \in Seq(StoreCalls) /\ Elems(rest) \subseteq Todo(c)
        /\ Todo(c) \ {"GetOrgMemberRole", "GetProjectMemberRole"} \subseteq Elems(rest)
    BY <2>3, <2>4 DEF Todo, Script
  <2>6. call[c] \in CallRows /\ call \in [Calls -> CallRows]
    BY DEF TypeInv
  <2>7. call' = [d \in Calls |-> IF d = c THEN [call[c] EXCEPT !.todo = rest] ELSE call[d]]
    BY <1>1, <2>6 DEF AllowByOrg, CallRows
  <2>. HIDE DEF rest
  <2>8. /\ call'[c] \in CallRows /\ call'[c].todo = rest
        /\ call'[c].req = Arg(c) /\ call'[c].admin = call[c].admin
        /\ call'[c].quota = call[c].quota /\ call'[c].hasDefault = call[c].hasDefault
        /\ call'[c].rows = call[c].rows
    BY <2>5, <2>6, <2>7 DEF CallRows, Arg
  <2>f. call' \in [Calls -> CallRows]
    BY <2>5, <2>6, <2>7, <2>8
  <2>9. orgRoleAtLeast(c)
    BY <1>1 DEF AllowByOrg
  <2>10. Reading(c, "GetOrgMemberRole")
    BY <2>1, <2>5, <2>7, <2>8, <2>9, <2>f DEF Reading
  <2>. QED BY <2>1, <2>10 DEF Kinds
<1>2. CASE NotByOrg(c)
  <2>1. At(c, "GetOrgMemberRole") /\ "GetOrgMemberRole" \in Reads /\ call[c] # Idle
    BY <1>2, ServedAt DEF NotByOrg, Reads
  <2>2. CASE Handlers[Arg(c).handler].project # {}
    <3>1. Advance(c)
      BY <1>2, <2>2 DEF NotByOrg
    <3>. QED BY <2>1, <2>2, <3>1, Advancing DEF Kinds
  <2>3. CASE Handlers[Arg(c).handler].project = {}
    BY <1>2, <2>1, <2>3 DEF NotByOrg, Kinds, Answering
  <2>. QED BY <2>2, <2>3
<1>3. CASE projectRoleAtLeast(c)
  <2>1. At(c, "GetProjectMemberRole") /\ "GetProjectMemberRole" \in Reads /\ call[c] # Idle
    BY <1>3, ServedAt DEF projectRoleAtLeast, Reads
  <2>2. CASE pmember[Arg(c).project][By(c)] \in Handlers[Arg(c).handler].project
    <3>1. Advance(c)
      BY <1>3, <2>2 DEF projectRoleAtLeast
    <3>. QED BY <2>1, <2>2, <3>1, Advancing DEF Kinds
  <2>3. CASE pmember[Arg(c).project][By(c)] \notin Handlers[Arg(c).handler].project
    BY <1>3, <2>1, <2>3 DEF projectRoleAtLeast, Kinds, Answering
  <2>. QED BY <2>2, <2>3
<1>. QED BY <1>1, <1>2, <1>3

\* A call on the tables of organizations and projects reads, answers or writes.
LEMMA StoreKinds ==
  ASSUME TypeInv, NEW c \in Calls, StoreStep(c), UNCHANGED <<invite, joined>>
  PROVE  Kinds(c)
<1>. USE DEF Kinds
<1>1. CASE GetUserByEmail(c)
  <2>1. At(c, "GetUserByEmail") /\ "GetUserByEmail" \in Reads /\ call[c] # Idle
        /\ UNCHANGED <<tables, invite, joined>>
    BY <1>1, ServedAt DEF GetUserByEmail, Reads
  <2>2. Answer(c) \/ Advance(c)
    BY <1>1 DEF GetUserByEmail
  <2>. QED BY <2>1, <2>2, Advancing DEF Answering
<1>2. CASE GetOrganization(c)
  <2>1. At(c, "GetOrganization") /\ "GetOrganization" \in Reads /\ call[c] # Idle
        /\ UNCHANGED <<tables, invite, joined>>
    BY <1>2, ServedAt DEF GetOrganization, Reads
  <2>2. Answer(c) \/ Advance(c)
    BY <1>2 DEF GetOrganization
  <2>. QED BY <2>1, <2>2, Advancing DEF Answering
<1>3. CASE CheckDefaultOrg(c)
  <2>. DEFINE rest == Tail(call[c].todo)
  <2>1. At(c, "CheckDefaultOrg") /\ "CheckDefaultOrg" \in Reads
        /\ UNCHANGED <<tables, invite, joined>>
    BY <1>3 DEF CheckDefaultOrg, Reads
  <2>2. rest \in Seq(StoreCalls) /\ Script(rest) /\ Elems(rest) \subseteq Todo(c)
        /\ Todo(c) \ {"CheckDefaultOrg"} \subseteq Elems(rest)
    BY <2>1, RestIs
  <2>3. call[c] \in CallRows /\ call \in [Calls -> CallRows]
    BY DEF TypeInv
  <2>4. call' = [d \in Calls |-> IF d = c
          THEN [call[c] EXCEPT !.todo = rest, !.hasDefault = default[By(c)] # {}] ELSE call[d]]
    BY <1>3, <2>3 DEF CheckDefaultOrg, CallRows
  <2>. HIDE DEF rest
  <2>5. /\ call'[c] \in CallRows /\ call'[c].todo = rest
        /\ call'[c].req = Arg(c) /\ call'[c].admin = call[c].admin
        /\ call'[c].quota = call[c].quota /\ call'[c].hasDefault = (default[By(c)] # {})
        /\ call'[c].rows = call[c].rows
    BY <2>2, <2>3, <2>4 DEF CallRows, Arg
  <2>f. call' \in [Calls -> CallRows]
    BY <2>2, <2>3, <2>4, <2>5
  <2>6. Reading(c, "CheckDefaultOrg")
    BY <2>1, <2>2, <2>4, <2>5, <2>f DEF Reading, rest
  <2>. QED BY <2>1, <2>6
<1>4. CASE ClearDefaults(c)
  <2>. DEFINE rest == Tail(call[c].todo)
              rows == {o \in Orgs : member[o][By(c)] # "none"}
  <2>1. At(c, "ClearDefaults") /\ "ClearDefaults" \in Reads
        /\ UNCHANGED <<tables, invite, joined>>
    BY <1>4 DEF ClearDefaults, Reads
  <2>2. rest \in Seq(StoreCalls) /\ Script(rest) /\ Elems(rest) \subseteq Todo(c)
        /\ Todo(c) \ {"ClearDefaults"} \subseteq Elems(rest)
    BY <2>1, RestIs
  <2>3. call[c] \in CallRows /\ call \in [Calls -> CallRows] /\ rows \in SUBSET Orgs
    BY DEF TypeInv, TablesOK
  <2>4. call' = [d \in Calls |-> IF d = c THEN [call[c] EXCEPT !.todo = rest, !.rows = rows]
          ELSE call[d]]
    BY <1>4, <2>3 DEF ClearDefaults, CallRows
  <2>a. rows = {o \in Orgs : member[o][By(c)] # "none"}
    OBVIOUS
  <2>. HIDE DEF rest, rows
  <2>5. /\ call'[c] \in CallRows /\ call'[c].todo = rest
        /\ call'[c].req = Arg(c) /\ call'[c].admin = call[c].admin
        /\ call'[c].quota = call[c].quota /\ call'[c].hasDefault = call[c].hasDefault
        /\ call'[c].rows = rows
    BY <2>2, <2>3, <2>4 DEF CallRows, Arg
  <2>f. call' \in [Calls -> CallRows]
    BY <2>2, <2>3, <2>4, <2>5
  <2>6. Reading(c, "ClearDefaults")
    BY <2>1, <2>2, <2>4, <2>5, <2>a, <2>f DEF Reading, rest
  <2>. QED BY <2>1, <2>6
<1>5. CASE GetProject(c)
  <2>. DEFINE rest == Tail(call[c].todo)
              p == project[Arg(c).project]
  <2>1. At(c, "GetProject") /\ "GetProject" \in Reads /\ call[c] # Idle
        /\ UNCHANGED <<tables, invite, joined>>
    BY <1>5, ServedAt DEF GetProject, Reads
  <2>2. CASE p.state = "live"
    <3>2. rest \in Seq(StoreCalls) /\ Script(rest) /\ Elems(rest) \subseteq Todo(c)
          /\ Todo(c) \ {"GetProject"} \subseteq Elems(rest)
      BY <2>1, RestIs
    <3>3. call[c] \in CallRows /\ call \in [Calls -> CallRows]
      BY DEF TypeInv
    <3>a. p.quota \in Quotas
      <4>1. Arg(c) \in AnyRequest /\ "GetProject" \in Todo(c)
        BY <2>1, ServedAt DEF Served
      <4>2. Arg(c).project \in Projects
        BY <4>1, <2>1, ServedAt DEF AnyRequest, Suits
      <4>3. p \in ProjectRows
        BY <4>2 DEF TypeInv, TablesOK
      <4>. QED BY <4>3, <2>2 DEF ProjectRows, NoProject
    <3>4. call' = [d \in Calls |-> IF d = c
            THEN [call[c] EXCEPT !.todo = rest, !.quota = p.quota] ELSE call[d]]
      BY <1>5, <2>2, <3>3 DEF GetProject, CallRows
    <3>. HIDE DEF rest
    <3>5. /\ call'[c] \in CallRows /\ call'[c].todo = rest
          /\ call'[c].req = Arg(c) /\ call'[c].admin = call[c].admin
          /\ call'[c].quota = p.quota /\ call'[c].hasDefault = call[c].hasDefault
          /\ call'[c].rows = call[c].rows
      BY <3>2, <3>3, <3>4, <3>a DEF CallRows, Arg
    <3>f. call' \in [Calls -> CallRows]
      BY <3>2, <3>3, <3>4, <3>a, <3>5
    <3>6. Reading(c, "GetProject")
      BY <2>1, <2>2, <3>2, <3>4, <3>5, <3>f DEF Reading, rest
    <3>. QED BY <2>1, <3>6
  <2>3. CASE p.state # "live"
    BY <1>5, <2>1, <2>3 DEF GetProject, Answering
  <2>. QED BY <2>2, <2>3
<1>6. CASE UpdateOrganization(c)
  <2>1. call[c] # Idle
    BY <1>6, ServedAt DEF UpdateOrganization
  <2>. QED BY <1>6, <2>1 DEF UpdateOrganization, Answering
<1>. QED BY <1>1, <1>2, <1>3, <1>4, <1>5, <1>6 DEF StoreStep, Writing

\* So does a call on the tables of invitations.
LEMMA InviteKinds ==
  ASSUME TypeInv, NEW c \in Calls, InviteStep(c)
  PROVE  Kinds(c)
<1>. USE DEF Kinds
<1>1. ASSUME NEW f \in {"GetOrgInvitation", "GetProjectInvitation"}, NEW table, At(c, f),
             table = IF f = "GetOrgInvitation" THEN "org" ELSE "project",
             LoadInvite(c, table)
      PROVE  Kinds(c)
  <2>. DEFINE i == Arg(c).invite
  <2>1. f \in Reads /\ call[c] # Idle /\ UNCHANGED <<tables, invite, joined>>
    BY <1>1, ServedAt DEF LoadInvite, Reads
  <2>2. CASE ThereIs(i) /\ invite[i].table = table /\ invite[i].to = By(c)
    <3>1. Advance(c)
      BY <1>1, <2>2 DEF LoadInvite
    <3>2. Invited(c)
      BY <2>2 DEF Invited, ThereIs, Statuses, NoInvite
    <3>3. Reading(c, f)
      BY <1>1, <2>1, <2>2, <3>1, <3>2, Advancing
    <3>. QED BY <2>1, <3>3
  <2>3. CASE ~(ThereIs(i) /\ invite[i].table = table /\ invite[i].to = By(c))
    BY <1>1, <2>1, <2>3 DEF LoadInvite, Answering
  <2>. QED BY <2>2, <2>3
<1>2. CASE loadOrgInviteForCaller(c)
  BY <1>1, <1>2 DEF loadOrgInviteForCaller
<1>3. CASE loadProjectInviteForCaller(c)
  BY <1>1, <1>3 DEF loadProjectInviteForCaller
<1>4. CASE LockInvitation(c)
  <2>. DEFINE i == Arg(c).invite
  <2>1. At(c, "LockInvitation") /\ "LockInvitation" \in Reads /\ call[c] # Idle
        /\ UNCHANGED <<tables, invite, joined>> /\ ~InviteLocked(i)
    BY <1>4, ServedAt DEF LockInvitation, Reads
  <2>2. CASE invite[i].status = "pending" /\ ~invite[i].expired
    <3>1. Advance(c)
      BY <1>4, <2>2 DEF LockInvitation
    <3>. QED BY <2>1, <2>2, <3>1, Advancing
  <2>3. CASE ~(invite[i].status = "pending" /\ ~invite[i].expired)
    BY <1>4, <2>1, <2>3 DEF LockInvitation, Answering
  <2>. QED BY <2>2, <2>3
<1>. QED BY <1>2, <1>3, <1>4 DEF InviteStep, Writing

\* Every step of a request reads, answers or writes.
LEMMA ServeKinds ==
  ASSUME TypeInv, NEW c \in Calls, ServeStep(c)
  PROVE  Kinds(c)
<1>1. CASE (AllowByOrg(c) \/ NotByOrg(c) \/ projectRoleAtLeast(c))
           /\ UNCHANGED <<tables, invite, joined>>
  BY <1>1, RoleKinds
<1>2. CASE StoreStep(c) /\ UNCHANGED <<invite, joined>>
  BY <1>2, StoreKinds
<1>3. CASE (DeleteOrganization(c) \/ DeleteProject(c)) /\ CascadeToInvites
  BY <1>3 DEF Kinds, Writing
<1>4. CASE InviteStep(c)
  BY <1>4, InviteKinds
<1>. QED BY <1>1, <1>2, <1>3, <1>4 DEF ServeStep

-----------------------------------------------------------------------------
(* The types of the tables and of what calls know *)

\* Rows may end, they never change what they belong to.
Kept ==
  /\ \A p \in Projects : project[p] # NoProject =>
       project'[p] # NoProject /\ project'[p].org = project[p].org
  /\ \A i \in Invites : invite[i] # NoInvite =>
       /\ invite'[i] # NoInvite
       /\ invite'[i].table = invite[i].table /\ invite'[i].to = invite[i].to
       /\ invite'[i].org = invite[i].org /\ invite'[i].project = invite[i].project
       /\ invite'[i].role = invite[i].role

\* Quotas filled up with defaults are quotas.
LEMMA QuotaTypes ==
  /\ DefaultQuota \in Quotas
  /\ \A ask \in QuotaAsks, quota \in Quotas : orDefault(ask, quota) \in Quotas
<1>. DEFINE asked(f) == {DefaultQuota[f]} \cup {a[f] : a \in QuotaAsks}
<1>1. Quotas = {q \in [Fields -> UNION {asked(f) : f \in Fields}] :
                  \A f \in Fields : q[f] \in asked(f)}
  BY DEF Quotas
<1>. HIDE DEF asked
<1>2. ASSUME NEW q, q = [f \in Fields |-> q[f]], \A f \in Fields : q[f] \in asked(f)
      PROVE  q \in Quotas
  BY <1>1, <1>2
<1>3. DefaultQuota \in Quotas
  <2>1. DefaultQuota = [f \in Fields |-> DefaultQuota[f]]
    BY DEF DefaultQuota, Fields
  <2>2. \A f \in Fields : DefaultQuota[f] \in asked(f)
    BY DEF asked
  <2>. QED BY <1>2, <2>1, <2>2
<1>4. ASSUME NEW ask \in QuotaAsks, NEW quota \in Quotas
      PROVE  orDefault(ask, quota) \in Quotas
  <2>1. \A f \in Fields : quota[f] \in asked(f)
    BY <1>1
  <2>2. \A f \in Fields : ask[f] \in asked(f)
    BY DEF asked
  <2>3. \A f \in Fields : orDefault(ask, quota)[f] \in asked(f)
    BY <2>1, <2>2 DEF orDefault
  <2>4. orDefault(ask, quota) = [f \in Fields |-> orDefault(ask, quota)[f]]
    BY DEF orDefault
  <2>. QED BY <1>2, <2>3, <2>4
<1>. QED BY <1>3, <1>4

\* Projects that go, and their members, keep their types.
LEMMA DropTypes ==
  ASSUME TablesOK, NEW ps, DropProjects(ps), \A p \in ps \cap Projects : project[p].state = "live"
  PROVE  /\ project' \in [Projects -> ProjectRows]
         /\ pmember' \in [Projects -> [Users -> ProjectRoles \cup {"none"}]]
         /\ \A p \in Projects : project[p] # NoProject =>
              project'[p] # NoProject /\ project'[p].org = project[p].org
<1>1. ASSUME NEW p \in Projects
      PROVE  /\ project'[p] \in ProjectRows
             /\ project[p] # NoProject =>
                  project'[p] # NoProject /\ project'[p].org = project[p].org
  <2>1. project[p] \in ProjectRows
    BY DEF TablesOK
  <2>2. CASE p \in ps
    <3>1. project[p].state = "live" /\ project'[p] = [project[p] EXCEPT !.state = "gone"]
      BY <2>2 DEF DropProjects
    <3>2. project[p] \in [state : {"live", "gone"}, org : Orgs, name : Names, quota : Quotas]
      BY <2>1, <3>1 DEF ProjectRows, NoProject
    <3>3. project'[p] \in [state : {"live", "gone"}, org : Orgs, name : Names, quota : Quotas]
          /\ project'[p].org = project[p].org /\ project'[p].state = "gone"
      BY <3>1, <3>2
    <3>. QED BY <3>3 DEF ProjectRows, NoProject
  <2>3. CASE p \notin ps
    BY <2>1, <2>3 DEF DropProjects
  <2>. QED BY <2>2, <2>3
<1>2. project' = [p \in Projects |-> project'[p]]
  BY DEF DropProjects
<1>3. pmember' \in [Projects -> [Users -> ProjectRoles \cup {"none"}]]
  BY DEF DropProjects, TablesOK
<1>. QED BY <1>1, <1>2, <1>3

\* The cascade to invitations marks them and keeps what they say.
LEMMA CascadeTypes ==
  ASSUME TablesOK, CascadeToInvites
  PROVE  /\ invite' \in [Invites -> InviteRows]
         /\ joined' = joined
         /\ \A i \in Invites : invite[i] # NoInvite =>
              /\ invite'[i] # NoInvite
              /\ invite'[i].table = invite[i].table /\ invite'[i].to = invite[i].to
              /\ invite'[i].org = invite[i].org /\ invite'[i].project = invite[i].project
              /\ invite'[i].role = invite[i].role
<1>. DEFINE dropped == {i \in Invites : ThereIs(i) /\ Outlives(i)}
<1>1. /\ invite' = [i \in Invites |->
            IF i \in dropped THEN [invite[i] EXCEPT !.status = "gone"] ELSE invite[i]]
      /\ joined' = joined
      /\ \A i \in dropped : ThereIs(i)
  BY DEF CascadeToInvites
<1>. HIDE DEF dropped
<1>2. ASSUME NEW i \in Invites
      PROVE  /\ invite'[i] \in InviteRows
             /\ invite[i] # NoInvite =>
              /\ invite'[i] # NoInvite
              /\ invite'[i].table = invite[i].table /\ invite'[i].to = invite[i].to
              /\ invite'[i].org = invite[i].org /\ invite'[i].project = invite[i].project
              /\ invite'[i].role = invite[i].role
  <2>1. invite[i] \in InviteRows
    BY DEF TablesOK
  <2>2. CASE i \in dropped
    <3>1. ThereIs(i) /\ invite'[i] = [invite[i] EXCEPT !.status = "gone"]
      BY <1>1, <2>2
    <3>2. \/ invite[i] \in [status : Statuses \cup {"gone"}, table : {"org"}, org : Orgs,
                            project : {None}, to : Users, role : OrgRoles, expired : BOOLEAN]
          \/ invite[i] \in [status : Statuses \cup {"gone"}, table : {"project"}, org : Orgs,
                            project : Projects, to : Users, role : ProjectRoles, expired : BOOLEAN]
      BY <2>1, <3>1 DEF InviteRows, ThereIs, Statuses, NoInvite
    <3>. QED BY <3>1, <3>2 DEF InviteRows, NoInvite
  <2>3. CASE i \notin dropped
    BY <1>1, <2>1, <2>3
  <2>. QED BY <2>2, <2>3
<1>3. invite' = [i \in Invites |-> invite'[i]]
  BY <1>1
<1>. QED BY <1>1, <1>2, <1>3

\* What a row of an invitation holds, also after a change of its status.
LEMMA InviteTypes ==
  ASSUME NEW row \in InviteRows, row # NoInvite
  PROVE  /\ \A s \in Statuses \cup {"gone"} : [row EXCEPT !.status = s] \in InviteRows \ {NoInvite}
         /\ [row EXCEPT !.expired = TRUE] \in InviteRows \ {NoInvite}
         /\ row.table \in {"org", "project"} /\ row.org \in Orgs /\ row.to \in Users
         /\ row.table = "org" => row.project = None /\ row.role \in OrgRoles
         /\ row.table = "project" => row.project \in Projects /\ row.role \in ProjectRoles
         /\ row.status \in Statuses \cup {"gone"} /\ row.expired \in BOOLEAN
<1>1. \/ row \in [status : Statuses \cup {"gone"}, table : {"org"}, org : Orgs,
                  project : {None}, to : Users, role : OrgRoles, expired : BOOLEAN]
      \/ row \in [status : Statuses \cup {"gone"}, table : {"project"}, org : Orgs,
                  project : Projects, to : Users, role : ProjectRoles, expired : BOOLEAN]
  BY DEF InviteRows
<1>2. \A s \in Statuses \cup {"gone"} : [row EXCEPT !.status = s] # NoInvite
  BY <1>1 DEF NoInvite, Statuses
<1>3. [row EXCEPT !.expired = TRUE] # NoInvite
  BY <1>1 DEF NoInvite, Statuses
<1>4. \A s \in Statuses \cup {"gone"} : [row EXCEPT !.status = s] \in InviteRows
  BY <1>1 DEF InviteRows
<1>5. [row EXCEPT !.expired = TRUE] \in InviteRows
  BY <1>1 DEF InviteRows
<1>. QED BY <1>1, <1>2, <1>3, <1>4, <1>5

\* The row of an invitation that is sent.
LEMMA SentTypes ==
  ASSUME TablesOK, NEW row \in InviteRows, row # NoInvite, InsertInvite(row)
  PROVE  /\ invite' \in [Invites -> InviteRows]
         /\ \A i \in Invites : invite[i] # NoInvite => invite'[i] = invite[i]
<1>1. PICK i \in Invites : invite[i] = NoInvite /\ invite' = [invite EXCEPT ![i] = row]
  BY DEF InsertInvite
<1>. QED BY <1>1 DEF TablesOK

\* An update in a table of tables.
LEMMA NestedUpdate ==
  ASSUME NEW A, NEW B, NEW V, NEW m \in [A -> [B -> V]], NEW a, NEW b, NEW v,
         a \in A /\ b \in B => v \in V
  PROVE  [m EXCEPT ![a][b] = v] \in [A -> [B -> V]]
<1>1. CASE a \in A
  <2>. DEFINE r == [m[a] EXCEPT ![b] = v]
  <2>1. r \in [B -> V]
    BY <1>1
  <2>2. [m EXCEPT ![a][b] = v] = [m EXCEPT ![a] = r]
    OBVIOUS
  <2>. HIDE DEF r
  <2>. QED BY <2>1, <2>2
<1>2. CASE a \notin A
  BY <1>2
<1>. QED BY <1>1, <1>2

\* A write changes the tables to tables, and answers.
LEMMA WriteTypes ==
  ASSUME TypeInv, NEW c \in Calls, Writing(c)
  PROVE  TablesOK' /\ Kept /\ Answer(c) /\ call[c] # Idle
<1>. DEFINE q == Arg(c)
<1>a. TablesOK
  BY DEF TypeInv
<1>b. ASSUME NEW f, At(c, f)
      PROVE  call[c] # Idle /\ Suits(f, q) /\ q \in AnyRequest /\ By(c) \in Users /\ Served(c)
  BY <1>b, ServedAt DEF Served, AnyRequest, By, Arg
<1>c. UNCHANGED <<invite, joined>> => Kept \/ project' # project
  BY DEF Kept
<1>d. ASSUME UNCHANGED project,
             \A i \in Invites : invite[i] # NoInvite => invite'[i] = invite[i]
      PROVE  Kept
  BY <1>d DEF Kept
<1>1. CASE SetUserAdmin(c) /\ UNCHANGED <<invite, joined>>
  <2>1. At(c, "SetUserAdmin") /\ Answer(c)
    BY <1>1 DEF SetUserAdmin
  <2>2. user' \in [Users -> {"unknown", "plain", "admin"}]
    BY <1>1, <1>a DEF SetUserAdmin, TablesOK
  <2>. QED BY <1>1, <1>a, <1>b, <1>d, <2>1, <2>2 DEF SetUserAdmin, TablesOK
<1>2. CASE CreateOrganization(c) /\ UNCHANGED <<invite, joined>>
  <2>1. At(c, "CreateOrganization") /\ Answer(c)
    BY <1>2 DEF CreateOrganization
  <2>a. PICK o \in Orgs :
          /\ org'     = [org EXCEPT ![o] = "live"]
          /\ member'  = [member EXCEPT ![o][By(c)] = "owner"]
          /\ default' = [default EXCEPT ![By(c)] =
                            IF call[c].hasDefault THEN @ ELSE @ \cup {o}]
    BY <1>2 DEF CreateOrganization
  <2>2. org' \in [Orgs -> {"unused", "live", "gone"}]
    BY <2>a, <1>a DEF TablesOK
  <2>3. member' \in [Orgs -> [Users -> OrgRoles \cup {"none"}]]
    <3>1. "owner" \in OrgRoles \cup {"none"}
      BY DEF OrgRoles
    <3>2. member \in [Orgs -> [Users -> OrgRoles \cup {"none"}]]
      BY <1>a DEF TablesOK
    <3>. QED BY <2>a, <3>1, <3>2, NestedUpdate
  <2>4. default' \in [Users -> SUBSET Orgs]
    <3>1. default \in [Users -> SUBSET Orgs] /\ By(c) \in Users
      BY <1>a, <1>b, <2>1 DEF TablesOK
    <3>2. (IF call[c].hasDefault THEN default[By(c)] ELSE default[By(c)] \cup {o}) \in SUBSET Orgs
      BY <3>1
    <3>. QED BY <2>a, <3>1, <3>2
  <2>. QED BY <1>2, <1>a, <1>b, <1>d, <2>1, <2>2, <2>3, <2>4 DEF CreateOrganization, TablesOK
<1>3. CASE SetDefaultOrg(c) /\ UNCHANGED <<invite, joined>>
  <2>1. At(c, "SetDefaultOrg") /\ Answer(c)
    BY <1>3 DEF SetDefaultOrg
  <2>2. q.org \in Orgs
    BY <2>1, <1>b DEF Suits
  <2>3. default' \in [Users -> SUBSET Orgs]
    BY <1>3, <1>a, <2>2 DEF SetDefaultOrg, TablesOK
  <2>. QED BY <1>3, <1>a, <1>b, <1>d, <2>1, <2>3 DEF SetDefaultOrg, TablesOK
<1>4. CASE AddOrgMember(c) /\ UNCHANGED <<invite, joined>>
  <2>1. At(c, "AddOrgMember") /\ Answer(c)
    BY <1>4 DEF AddOrgMember
  <2>2. q.role \in OrgRoles
    BY <2>1, <1>b DEF Suits
  <2>3. member' \in [Orgs -> [Users -> OrgRoles \cup {"none"}]]
    <3>1. member' = [member EXCEPT ![q.org][q.on] = q.role] \/ member' = member
      BY <1>4 DEF AddOrgMember, UpsertOrgMember
    <3>2. member \in [Orgs -> [Users -> OrgRoles \cup {"none"}]]
      BY <1>a DEF TablesOK
    <3>3. [member EXCEPT ![q.org][q.on] = q.role] \in [Orgs -> [Users -> OrgRoles \cup {"none"}]]
      BY <2>2, <3>2, NestedUpdate
    <3>. QED BY <3>1, <3>2, <3>3
  <2>. QED BY <1>4, <1>a, <1>b, <1>d, <2>1, <2>3 DEF AddOrgMember, TablesOK
<1>5. CASE RemoveOrgMember(c) /\ UNCHANGED <<invite, joined>>
  <2>1. At(c, "RemoveOrgMember") /\ Answer(c)
    BY <1>5 DEF RemoveOrgMember
  <2>2. member' \in [Orgs -> [Users -> OrgRoles \cup {"none"}]]
    BY <1>5, <1>a DEF RemoveOrgMember, TablesOK
  <2>3. default' \in [Users -> SUBSET Orgs]
    BY <1>5, <1>a DEF RemoveOrgMember, TablesOK
  <2>. QED BY <1>5, <1>a, <1>b, <1>d, <2>1, <2>2, <2>3 DEF RemoveOrgMember, TablesOK
<1>6. CASE UpdateOrgMemberRole(c) /\ UNCHANGED <<invite, joined>>
  <2>1. At(c, "UpdateOrgMemberRole") /\ Answer(c)
    BY <1>6 DEF UpdateOrgMemberRole
  <2>2. q.role \in OrgRoles
    BY <2>1, <1>b DEF Suits
  <2>3. member' \in [Orgs -> [Users -> OrgRoles \cup {"none"}]]
    BY <1>6, <1>a, <2>2 DEF UpdateOrgMemberRole, TablesOK
  <2>. QED BY <1>6, <1>a, <1>b, <1>d, <2>1, <2>3 DEF UpdateOrgMemberRole, TablesOK
<1>7. CASE CreateProject(c) /\ UNCHANGED <<invite, joined>>
  <2>1. At(c, "CreateProject") /\ Answer(c)
    BY <1>7 DEF CreateProject
  <2>2. q.org \in Orgs /\ q.name \in Names /\ q.ask \in QuotaAsks
    BY <2>1, <1>b DEF Suits
  <2>. DEFINE row == [state |-> "live", org |-> q.org, name |-> q.name,
                      quota |-> orDefault(q.ask, DefaultQuota)]
  <2>3. row \in ProjectRows
    BY <2>2, QuotaTypes DEF ProjectRows
  <2>. HIDE DEF row
  <2>4. CASE UNCHANGED <<project, pmember>>
    BY <1>7, <1>a, <1>b, <1>d, <2>1, <2>4 DEF CreateProject, TablesOK
  <2>5. ASSUME NEW p \in Projects, project[p].state = "unused",
               project' = [project EXCEPT ![p] = row],
               pmember' = [pmember EXCEPT ![p][By(c)] = "maintainer"]
        PROVE  TablesOK' /\ Kept
    <3>1. project[p] = NoProject
      BY <1>a, <2>5 DEF TablesOK, ProjectRows
    <3>2. Kept
      BY <1>7, <1>a, <2>5, <3>1 DEF Kept, TablesOK
    <3>3. project' \in [Projects -> ProjectRows]
      BY <1>a, <2>3, <2>5 DEF TablesOK
    <3>4. pmember' \in [Projects -> [Users -> ProjectRoles \cup {"none"}]]
      BY <1>a, <2>5 DEF TablesOK, ProjectRoles
    <3>. QED BY <1>7, <1>a, <3>2, <3>3, <3>4 DEF CreateProject, TablesOK
  <2>. QED BY <1>7, <1>b, <2>1, <2>4, <2>5 DEF CreateProject, row
<1>8. CASE UpdateProject(c) /\ UNCHANGED <<invite, joined>>
  <2>1. At(c, "UpdateProject") /\ Answer(c)
    BY <1>8 DEF UpdateProject
  <2>2. q.project \in Projects /\ q.name \in Names
    BY <2>1, <1>b DEF Suits
  <2>3. CASE UNCHANGED project
    BY <1>8, <1>a, <1>b, <1>d, <2>1, <2>3 DEF UpdateProject, TablesOK
  <2>4. CASE project' # project
    <3>1. project[q.project].state = "live"
          /\ project' = [project EXCEPT ![q.project] = [project[q.project] EXCEPT !.name = q.name]]
      BY <1>8, <2>4 DEF UpdateProject
    <3>2. project[q.project] \in [state : {"live", "gone"}, org : Orgs, name : Names,
            quota : Quotas]
      BY <1>a, <2>2, <3>1 DEF TablesOK, ProjectRows, NoProject
    <3>3. [project[q.project] EXCEPT !.name = q.name]
            \in [state : {"live", "gone"}, org : Orgs, name : Names, quota : Quotas]
          /\ [project[q.project] EXCEPT !.name = q.name].org = project[q.project].org
          /\ [project[q.project] EXCEPT !.name = q.name].state = "live"
      BY <2>2, <3>1, <3>2
    <3>4. project' \in [Projects -> ProjectRows]
      BY <1>a, <3>1, <3>3 DEF TablesOK, ProjectRows
    <3>5. Kept
      BY <1>8, <1>a, <3>1, <3>3 DEF Kept, TablesOK, NoProject
    <3>. QED BY <1>8, <1>a, <1>b, <2>1, <3>4, <3>5 DEF UpdateProject, TablesOK
  <2>. QED BY <2>3, <2>4
<1>9. CASE UpdateProjectQuotas(c) /\ UNCHANGED <<invite, joined>>
  <2>1. At(c, "UpdateProjectQuotas") /\ Answer(c)
    BY <1>9 DEF UpdateProjectQuotas
  <2>2. q.project \in Projects /\ q.ask \in QuotaAsks
    BY <2>1, <1>b DEF Suits
  <2>3. call[c].quota \in Quotas
    <3>1. Todo(c) = {"UpdateProjectQuotas"}
      BY <2>1, ServedAt DEF Reads
    <3>. QED BY <2>1, <3>1, <1>b DEF Served
  <2>. DEFINE quota == orDefault(q.ask, call[c].quota)
  <2>a. quota \in Quotas
    BY <2>2, <2>3, QuotaTypes
  <2>4. CASE UNCHANGED project
    BY <1>9, <1>a, <1>b, <1>d, <2>1, <2>4 DEF UpdateProjectQuotas, TablesOK
  <2>5. CASE project' # project
    <3>1. project[q.project].state = "live"
          /\ project' = [project EXCEPT ![q.project] = [project[q.project] EXCEPT !.quota = quota]]
      BY <1>9, <2>5 DEF UpdateProjectQuotas
    <3>. HIDE DEF quota
    <3>2. project[q.project] \in [state : {"live", "gone"}, org : Orgs, name : Names,
            quota : Quotas]
      BY <1>a, <2>2, <3>1 DEF TablesOK, ProjectRows, NoProject
    <3>3. [project[q.project] EXCEPT !.quota = quota]
            \in [state : {"live", "gone"}, org : Orgs, name : Names, quota : Quotas]
          /\ [project[q.project] EXCEPT !.quota = quota].org = project[q.project].org
          /\ [project[q.project] EXCEPT !.quota = quota].state = "live"
      BY <2>a, <3>1, <3>2
    <3>4. project' \in [Projects -> ProjectRows]
      BY <1>a, <3>1, <3>3 DEF TablesOK, ProjectRows
    <3>5. Kept
      BY <1>9, <1>a, <3>1, <3>3 DEF Kept, TablesOK, NoProject
    <3>. QED BY <1>9, <1>a, <1>b, <2>1, <3>4, <3>5 DEF UpdateProjectQuotas, TablesOK
  <2>. QED BY <2>4, <2>5
<1>10. CASE (AddProjectMember(c) \/ RemoveProjectMember(c) \/ UpdateProjectMemberRole(c))
            /\ UNCHANGED <<invite, joined>>
  <2>1. /\ AddProjectMember(c) => At(c, "AddProjectMember")
        /\ RemoveProjectMember(c) => At(c, "RemoveProjectMember")
        /\ UpdateProjectMemberRole(c) => At(c, "UpdateProjectMemberRole")
    BY DEF AddProjectMember, RemoveProjectMember, UpdateProjectMemberRole
  <2>2. Answer(c) /\ call[c] # Idle /\ UNCHANGED <<user, org, member, default, project>>
    BY <1>10, <1>b, <2>1 DEF AddProjectMember, RemoveProjectMember, UpdateProjectMemberRole
  <2>3. AddProjectMember(c) \/ UpdateProjectMemberRole(c) => q.role \in ProjectRoles
    BY <2>1, <1>b DEF Suits
  <2>4. pmember' \in [Projects -> [Users -> ProjectRoles \cup {"none"}]]
    <3>1. CASE AddProjectMember(c)
      <4>1. pmember' = [pmember EXCEPT ![q.project][q.on] = q.role] \/ pmember' = pmember
        BY <3>1 DEF AddProjectMember, UpsertProjectMember
      <4>2. pmember \in [Projects -> [Users -> ProjectRoles \cup {"none"}]]
              /\ q.role \in ProjectRoles
        BY <1>a, <2>3, <3>1 DEF TablesOK
      <4>3. [pmember EXCEPT ![q.project][q.on] = q.role]
              \in [Projects -> [Users -> ProjectRoles \cup {"none"}]]
        BY <4>2, NestedUpdate
      <4>. QED BY <4>1, <4>2, <4>3
    <3>2. CASE RemoveProjectMember(c)
      BY <3>2, <1>a DEF RemoveProjectMember, TablesOK
    <3>3. CASE UpdateProjectMemberRole(c)
      BY <3>3, <1>a, <2>3 DEF UpdateProjectMemberRole, TablesOK
    <3>. QED BY <1>10, <3>1, <3>2, <3>3
  <2>. QED BY <1>10, <1>a, <1>d, <2>2, <2>4 DEF TablesOK
<1>11. CASE DeleteOrganization(c) /\ CascadeToInvites
  <2>. DEFINE o == Arg(c).org
              ps == {p \in Projects : project[p].state = "live" /\ project[p].org = o}
  <2>1. At(c, "DeleteOrganization") /\ Answer(c)
    BY <1>11 DEF DeleteOrganization
  <2>2. org' \in [Orgs -> {"unused", "live", "gone"}]
        /\ member' \in [Orgs -> [Users -> OrgRoles \cup {"none"}]]
        /\ default' \in [Users -> SUBSET Orgs]
    <3>1. org' \in [Orgs -> {"unused", "live", "gone"}]
      BY <1>11, <1>a DEF DeleteOrganization, TablesOK
    <3>2. member' \in [Orgs -> [Users -> OrgRoles \cup {"none"}]]
      BY <1>11, <1>a DEF DeleteOrganization, TablesOK
    <3>3. default' \in [Users -> SUBSET Orgs]
      BY <1>11, <1>a DEF DeleteOrganization, TablesOK
    <3>. QED BY <3>1, <3>2, <3>3
  <2>3. /\ project' \in [Projects -> ProjectRows]
        /\ pmember' \in [Projects -> [Users -> ProjectRoles \cup {"none"}]]
        /\ \A p \in Projects : project[p] # NoProject =>
             project'[p] # NoProject /\ project'[p].org = project[p].org
    <3>1. CASE UNCHANGED <<project, pmember>>
      BY <1>a, <3>1 DEF TablesOK
    <3>2. CASE DropProjects(ps)
      <4>1. \A p \in ps \cap Projects : project[p].state = "live"
        OBVIOUS
      <4>. HIDE DEF ps
      <4>. QED BY <1>a, <3>2, <4>1, DropTypes
    <3>. QED BY <1>11, <3>1, <3>2 DEF DeleteOrganization
  <2>4. UNCHANGED user
    BY <1>11 DEF DeleteOrganization
  <2>5. TablesOK'
    BY <1>11, <1>a, <2>2, <2>3, <2>4, CascadeTypes DEF TablesOK
  <2>6. Kept
    BY <1>11, <1>a, <2>3, CascadeTypes DEF Kept
  <2>. QED BY <1>b, <2>1, <2>5, <2>6
<1>12. CASE DeleteProject(c) /\ CascadeToInvites
  <2>. DEFINE ps == {p \in {Arg(c).project} : project[p].state = "live"}
  <2>1. At(c, "DeleteProject") /\ Answer(c) /\ DropProjects(ps)
        /\ UNCHANGED <<user, org, member, default>>
    BY <1>12 DEF DeleteProject
  <2>2. \A p \in ps \cap Projects : project[p].state = "live"
    OBVIOUS
  <2>. HIDE DEF ps
  <2>3. /\ project' \in [Projects -> ProjectRows]
        /\ pmember' \in [Projects -> [Users -> ProjectRoles \cup {"none"}]]
        /\ \A p \in Projects : project[p] # NoProject =>
             project'[p] # NoProject /\ project'[p].org = project[p].org
    BY <1>a, <2>1, <2>2, DropTypes
  <2>5. TablesOK'
    BY <1>12, <1>a, <2>1, <2>3, CascadeTypes DEF TablesOK
  <2>6. Kept
    BY <1>12, <1>a, <2>3, CascadeTypes DEF Kept
  <2>. QED BY <1>b, <2>1, <2>5, <2>6
<1>13. CASE CreateOrgInvitation(c)
  <2>. DEFINE row == [status |-> "pending", table |-> "org", org |-> q.org,
                      project |-> None, to |-> q.on, role |-> q.role, expired |-> FALSE]
  <2>1. At(c, "CreateOrgInvitation") /\ Answer(c) /\ UNCHANGED <<tables, joined>>
    BY <1>13 DEF CreateOrgInvitation
  <2>2. q.org \in Orgs /\ q.on \in Users /\ q.role \in OrgRoles
    BY <2>1, <1>b DEF Suits
  <2>3. row \in InviteRows /\ row # NoInvite
    BY <2>2 DEF InviteRows, Statuses, NoInvite
  <2>4. InsertInvite(row) \/ UNCHANGED invite
    BY <1>13 DEF CreateOrgInvitation
  <2>. HIDE DEF row
  <2>5. invite' \in [Invites -> InviteRows]
        /\ \A i \in Invites : invite[i] # NoInvite => invite'[i] = invite[i]
    BY <1>a, <2>3, <2>4, SentTypes DEF TablesOK
  <2>. QED BY <1>a, <1>b, <1>d, <2>1, <2>5 DEF tables, TablesOK
<1>14. CASE CreateProjectInvitation(c)
  <2>. DEFINE row == [status |-> "pending", table |-> "project", org |-> OrgOf(q),
                      project |-> q.project, to |-> q.on, role |-> q.role, expired |-> FALSE]
  <2>1. At(c, "CreateProjectInvitation") /\ Answer(c) /\ UNCHANGED <<tables, joined>>
    BY <1>14 DEF CreateProjectInvitation
  <2>2. q.project \in Projects /\ q.on \in Users /\ q.role \in ProjectRoles
    BY <2>1, <1>b DEF Suits
  <2>3. q.project # None /\ project[q.project] # NoProject /\ Served(c)
    BY <2>1, <2>2, <1>b DEF Served
  <2>4. OrgOf(q) \in Orgs
    <3>1. OrgOf(q) = project[q.project].org
      BY <2>3 DEF OrgOf
    <3>. QED BY <1>a, <2>2, <2>3, <3>1 DEF TablesOK, ProjectRows
  <2>5. row \in InviteRows /\ row # NoInvite
    BY <2>2, <2>4 DEF InviteRows, Statuses, NoInvite
  <2>6. InsertInvite(row) \/ UNCHANGED invite
    BY <1>14 DEF CreateProjectInvitation
  <2>. HIDE DEF row
  <2>7. invite' \in [Invites -> InviteRows]
        /\ \A i \in Invites : invite[i] # NoInvite => invite'[i] = invite[i]
    BY <1>a, <2>5, <2>6, SentTypes DEF TablesOK
  <2>. QED BY <1>a, <1>b, <1>d, <2>1, <2>7 DEF tables, TablesOK
<1>15. ASSUME NEW i \in Invites, NEW s \in Statuses, invite[i] # NoInvite,
              invite' = [invite EXCEPT ![i].status = s], UNCHANGED project
       PROVE  Kept /\ invite' \in [Invites -> InviteRows]
  <2>1. invite' = [invite EXCEPT ![i] = [invite[i] EXCEPT !.status = s]]
    BY <1>15
  <2>2. invite[i] \in InviteRows
    BY <1>a DEF TablesOK
  <2>3. [invite[i] EXCEPT !.status = s] \in InviteRows \ {NoInvite}
    BY <1>15, <2>2, InviteTypes
  <2>4. \/ invite[i] \in [status : Statuses \cup {"gone"}, table : {"org"}, org : Orgs,
                         project : {None}, to : Users, role : OrgRoles, expired : BOOLEAN]
        \/ invite[i] \in [status : Statuses \cup {"gone"}, table : {"project"}, org : Orgs,
                         project : Projects, to : Users, role : ProjectRoles, expired : BOOLEAN]
    BY <1>15, <2>2 DEF InviteRows
  <2>. DEFINE row == [invite[i] EXCEPT !.status = s]
  <2>5. row.table = invite[i].table /\ row.to = invite[i].to /\ row.org = invite[i].org
        /\ row.project = invite[i].project /\ row.role = invite[i].role
    BY <2>4
  <2>6. row \in InviteRows \ {NoInvite} /\ invite' = [invite EXCEPT ![i] = row]
    BY <2>1, <2>3
  <2>. HIDE DEF row
  <2>7. invite' \in [Invites -> InviteRows]
    BY <1>a, <2>6 DEF TablesOK
  <2>8. \A j \in Invites : invite'[j] = IF j = i THEN row ELSE invite[j]
    BY <1>a, <2>6 DEF TablesOK
  <2>. QED BY <1>15, <2>5, <2>6, <2>7, <2>8 DEF Kept
<1>16. CASE AcceptOrgInvitation(c)
  <2>. DEFINE i == q.invite
  <2>1. At(c, "AcceptOrgInvitation") /\ Answer(c)
          /\ UpsertOrgMember(invite[i].org, By(c), invite[i].role)
        /\ MarkAccepted(i) /\ UNCHANGED <<user, org, default, project, pmember>>
    BY <1>16 DEF AcceptOrgInvitation
  <2>2. i \in Invites /\ invite[i] # NoInvite /\ invite[i].table = "org"
    <3>1. Todo(c) = {"AcceptOrgInvitation"}
      BY <2>1, ServedAt DEF Reads
    <3>. QED BY <2>1, <3>1, <1>b DEF Served, Invited, Suits
  <2>3. invite[i].role \in OrgRoles
    BY <1>a, <2>2, InviteTypes DEF TablesOK
  <2>4. member' \in [Orgs -> [Users -> OrgRoles \cup {"none"}]]
    <3>1. member' = [member EXCEPT ![invite[i].org][By(c)] = invite[i].role] \/ member' = member
      BY <2>1 DEF UpsertOrgMember
    <3>2. member \in [Orgs -> [Users -> OrgRoles \cup {"none"}]]
      BY <1>a DEF TablesOK
    <3>3. [member EXCEPT ![invite[i].org][By(c)] = invite[i].role]
            \in [Orgs -> [Users -> OrgRoles \cup {"none"}]]
      BY <2>3, <3>2, NestedUpdate
    <3>. QED BY <3>1, <3>2, <3>3
  <2>5. joined' \in [Invites -> Nat]
    <3>1. joined \in [Invites -> Nat] /\ joined' = [joined EXCEPT ![i] = joined[i] + 1]
      BY <1>a, <2>1 DEF MarkAccepted, TablesOK
    <3>2. joined[i] + 1 \in Nat
      BY <2>2, <3>1
    <3>. HIDE DEF i
    <3>. QED BY <3>1, <3>2
  <2>6. Kept /\ invite' \in [Invites -> InviteRows]
    BY <1>15, <2>1, <2>2 DEF MarkAccepted, Statuses
  <2>. QED BY <1>a, <1>b, <2>1, <2>4, <2>5, <2>6 DEF TablesOK
<1>17. CASE AcceptProjectInvitation(c)
  <2>. DEFINE i == q.invite
  <2>1. At(c, "AcceptProjectInvitation") /\ Answer(c)
        /\ UpsertProjectMember(invite[i].project, By(c), invite[i].role)
        /\ MarkAccepted(i) /\ UNCHANGED <<user, org, member, default, project>>
    BY <1>17 DEF AcceptProjectInvitation
  <2>2. i \in Invites /\ invite[i] # NoInvite /\ invite[i].table = "project"
    <3>1. Todo(c) = {"AcceptProjectInvitation"}
      BY <2>1, ServedAt DEF Reads
    <3>. QED BY <2>1, <3>1, <1>b DEF Served, Invited, Suits
  <2>3. invite[i].role \in ProjectRoles
    BY <1>a, <2>2, InviteTypes DEF TablesOK
  <2>4. pmember' \in [Projects -> [Users -> ProjectRoles \cup {"none"}]]
    <3>1. pmember' = [pmember EXCEPT ![invite[i].project][By(c)] = invite[i].role]
            \/ pmember' = pmember
      BY <2>1 DEF UpsertProjectMember
    <3>2. pmember \in [Projects -> [Users -> ProjectRoles \cup {"none"}]]
      BY <1>a DEF TablesOK
    <3>3. [pmember EXCEPT ![invite[i].project][By(c)] = invite[i].role]
            \in [Projects -> [Users -> ProjectRoles \cup {"none"}]]
      BY <2>3, <3>2, NestedUpdate
    <3>. QED BY <3>1, <3>2, <3>3
  <2>5. joined' \in [Invites -> Nat]
    <3>1. joined \in [Invites -> Nat] /\ joined' = [joined EXCEPT ![i] = joined[i] + 1]
      BY <1>a, <2>1 DEF MarkAccepted, TablesOK
    <3>2. joined[i] + 1 \in Nat
      BY <2>2, <3>1
    <3>. HIDE DEF i
    <3>. QED BY <3>1, <3>2
  <2>6. Kept /\ invite' \in [Invites -> InviteRows]
    BY <1>15, <2>1, <2>2 DEF MarkAccepted, Statuses
  <2>. QED BY <1>a, <1>b, <2>1, <2>4, <2>5, <2>6 DEF TablesOK
<1>18. CASE SetOrgInvitationStatus(c) \/ SetProjectInvitationStatus(c)
  <2>. DEFINE i == q.invite
  <2>1. SetStatus(c, "declined") /\ call[c] # Idle
    BY <1>18, <1>b DEF SetOrgInvitationStatus, SetProjectInvitationStatus
  <2>2. Answer(c) /\ UNCHANGED <<tables, joined>>
        /\ invite' = [invite EXCEPT ![i].status = IF ThereIs(i) THEN "declined" ELSE @]
    BY <2>1 DEF SetStatus
  <2>3. Kept /\ invite' \in [Invites -> InviteRows]
    <3>a. i \in Invites
      BY <1>18, <1>b DEF SetOrgInvitationStatus, SetProjectInvitationStatus, Suits
    <3>1. CASE ThereIs(i)
      <4>1. invite[i] # NoInvite
        BY <3>1 DEF ThereIs, NoInvite, Statuses
      <4>2. invite' = [invite EXCEPT ![i].status = "declined"] /\ UNCHANGED project
        BY <2>2, <3>1 DEF tables
      <4>. QED BY <3>a, <4>1, <4>2, <1>15 DEF Statuses
    <3>2. CASE ~ThereIs(i)
      <4>1. invite' = [invite EXCEPT ![i] = [invite[i] EXCEPT !.status = invite[i].status]]
        BY <2>2, <3>2
      <4>2. invite[i] \in InviteRows
        BY <3>a, <1>a DEF TablesOK
      <4>3. [invite[i] EXCEPT !.status = invite[i].status] = invite[i]
        BY <4>2 DEF InviteRows, NoInvite
      <4>4. invite' = invite
        BY <4>1, <4>3, <1>a DEF TablesOK
      <4>. QED BY <4>4, <2>2, <1>a, <1>d DEF tables, TablesOK
    <3>. QED BY <3>1, <3>2
  <2>. QED BY <1>a, <2>1, <2>2, <2>3 DEF TablesOK, tables
<1>. QED BY <1>1, <1>2, <1>3, <1>4, <1>5, <1>6, <1>7, <1>8, <1>9, <1>10, <1>11, <1>12, <1>13,
             <1>14, <1>16, <1>17, <1>18 DEF Writing

\* What a call knows does not depend on the calls of others.
LEMMA Undisturbed ==
  ASSUME TypeInv, Kept, NEW d \in Calls, call'[d] = call[d]
  PROVE  call'[d] = Idle \/ Served(d)'
<1>. SUFFICES ASSUME call[d] # Idle PROVE Served(d)'
  OBVIOUS
<1>. DEFINE q == Arg(d)
<1>1. Served(d)
  BY DEF TypeInv
<1>2. Arg(d)' = Arg(d) /\ Todo(d)' = Todo(d) /\ By(d)' = By(d)
  BY DEF Arg, Todo, By
<1>3. q.project # None => project'[q.project] # NoProject
  BY <1>1 DEF Served, AnyRequest, Kept
<1>4. q.invite \in Invites =>
        /\ Invited(d) => Invited(d)'
        /\ Invited(d) /\ invite[q.invite].table = "org" => invite'[q.invite].table = "org"
        /\ Invited(d) /\ invite[q.invite].table = "project" => invite'[q.invite].table = "project"
  BY <1>2 DEF Invited, Kept
<1>5. Todo(d) \cap {"LockInvitation", "AcceptOrgInvitation", "AcceptProjectInvitation"} # {}
        => q.invite \in Invites
  BY <1>1 DEF Served, Suits
<1>6. /\ "LockInvitation" \in Todo(d)' =>
           Todo(d)' \cap {"GetOrgInvitation", "GetProjectInvitation"} # {} \/ Invited(d)'
      /\ "AcceptOrgInvitation" \in Todo(d)' =>
           "GetOrgInvitation" \in Todo(d)' \/ (Invited(d)' /\ invite'[q.invite].table = "org")
      /\ "AcceptProjectInvitation" \in Todo(d)' =>
           "GetProjectInvitation" \in Todo(d)'
           \/ (Invited(d)' /\ invite'[q.invite].table = "project")
  BY <1>1, <1>2, <1>4, <1>5 DEF Served
<1>7. /\ q \in AnyRequest /\ Script(call[d].todo) /\ (call[d].admin => q.claim)
      /\ \A f \in Todo(d)' : Suits(f, q)
      /\ "UpdateProjectQuotas" \in Todo(d)' => "GetProject" \in Todo(d)' \/ call[d].quota \in Quotas
  BY <1>1, <1>2 DEF Served
<1>. QED BY <1>2, <1>3, <1>6, <1>7 DEF Served

\* What a request knows still holds after one of its reads.
LEMMA StillServed ==
  ASSUME TypeInv, NEW c \in Calls, NEW f, Reading(c, f)
  PROVE  Served(c)'
<1>. DEFINE q == Arg(c)
<1>1. Served(c) /\ f \in Todo(c) /\ Suits(f, q) /\ call[c] # Idle
  BY ServedAt DEF Reading
<1>2. /\ Arg(c)' = Arg(c) /\ By(c)' = By(c)
      /\ Todo(c)' \subseteq Todo(c)
      /\ Todo(c) \ {f, "GetProjectMemberRole"} \subseteq Todo(c)'
      /\ UNCHANGED <<project, invite>>
      /\ Script(call'[c].todo) /\ call'[c].admin = call[c].admin
  BY DEF Reading, Arg, By, Todo, tables
<1>3. Invited(c)' = Invited(c)
  BY <1>2 DEF Invited
<1>4. f = "GetProject" => call'[c].quota \in Quotas
  <2>. SUFFICES ASSUME f = "GetProject"
                PROVE  project[q.project].quota \in Quotas
    BY DEF Reading
  <2>1. q.project \in Projects /\ project[q.project].state = "live"
    BY <1>1 DEF Suits, Reading
  <2>2. project[q.project] \in ProjectRows
    BY <2>1 DEF TypeInv, TablesOK
  <2>. QED BY <2>1, <2>2 DEF ProjectRows, NoProject
<1>5. f # "GetProject" => call'[c].quota = call[c].quota
  BY DEF Reading
<1>6. "UpdateProjectQuotas" \in Todo(c)' =>
        "GetProject" \in Todo(c)' \/ call'[c].quota \in Quotas
  BY <1>1, <1>2, <1>4, <1>5 DEF Served
<1>7. /\ f = "GetOrgInvitation" => Invited(c) /\ invite[Arg(c).invite].table = "org"
      /\ f = "GetProjectInvitation" => Invited(c) /\ invite[Arg(c).invite].table = "project"
  BY DEF Reading
<1>8. "LockInvitation" \in Todo(c)' =>
        Todo(c)' \cap {"GetOrgInvitation", "GetProjectInvitation"} # {} \/ Invited(c)
  <2>. SUFFICES ASSUME "LockInvitation" \in Todo(c)', ~Invited(c)
                PROVE  Todo(c)' \cap {"GetOrgInvitation", "GetProjectInvitation"} # {}
    OBVIOUS
  <2>1. f \notin {"GetOrgInvitation", "GetProjectInvitation"}
    BY <1>7
  <2>2. Todo(c) \cap {"GetOrgInvitation", "GetProjectInvitation"} # {}
    BY <1>1, <1>2 DEF Served
  <2>. QED BY <1>2, <2>1, <2>2
<1>9. /\ "AcceptOrgInvitation" \in Todo(c)' =>
           "GetOrgInvitation" \in Todo(c)' \/ (Invited(c) /\ invite[Arg(c).invite].table = "org")
      /\ "AcceptProjectInvitation" \in Todo(c)' =>
           "GetProjectInvitation" \in Todo(c)'
             \/ (Invited(c) /\ invite[Arg(c).invite].table = "project")
  BY <1>1, <1>2, <1>7 DEF Served
<1>10. \A g \in Todo(c)' : Suits(g, q)
  BY <1>1, <1>2 DEF Served
<1>. QED BY <1>1, <1>2, <1>3, <1>6, <1>8, <1>9, <1>10 DEF Served

\* The row of a call that is let in.
Fresh(r, todo, admin) == [Idle EXCEPT !.req = r, !.todo = todo, !.admin = admin]

\* The row of a request just received.
LEMMA FreshCall ==
  ASSUME NEW r \in AnyRequest, NEW t \in Seq(StoreCalls), NEW a \in BOOLEAN
  PROVE  LET row == Fresh(r, t, a) IN
         /\ row \in CallRows
         /\ row.req = r /\ row.todo = t /\ row.admin = a
         /\ row.quota = NoQuota
<1>1. Idle \in CallRows /\ Idle.quota = NoQuota
  BY DEF Idle, CallRows
<1>. QED BY <1>1 DEF CallRows, Fresh

\* A request that is let in: what Receive does.
LEMMA Received ==
  ASSUME TypeInv, NEW c \in Calls, NEW h \in DOMAIN Handlers, NEW q \in Requests(h),
         Receive(c, q)
  PROVE  /\ q.handler = h /\ call[c] = Idle
         /\ \A d \in Calls \ {c} : call'[d] = call[d]
         /\ call' \in [Calls -> CallRows]
         /\ TablesOK' /\ Kept
         /\ \/ call' = call
            \/ /\ call'[c] = Fresh(q, Handlers[h].calls, user'[q.by] = "admin")
               /\ call'[c] # Idle
               /\ Handlers[h].who = "platform" => q.claim
               /\ Served(c)'
<1>1. q.handler = h /\ q.by \in Users /\ q.claim \in BOOLEAN
  BY Asked
<1>2. call[c] = Idle /\ call \in [Calls -> CallRows]
  BY DEF Receive, CanReceive, TypeInv
<1>3. user' \in [Users -> {"unknown", "plain", "admin"}] /\ (user'[q.by] = "admin" <=> q.claim)
  BY <1>1 DEF Receive, UpsertUser, TypeInv, TablesOK
<1>4. TablesOK' /\ Kept
  BY <1>3 DEF Receive, TypeInv, TablesOK, Kept
<1>. DEFINE admin == user'[q.by] = "admin"
            row == Fresh(q, Handlers[h].calls, admin)
<1>5. call' = call \/ (call' = [call EXCEPT ![c] = row]
                       /\ ~(Handlers[h].who = "platform" /\ user'[q.by] # "admin"))
  BY <1>1 DEF Receive, Fresh
<1>6. WellFormed(h)
  BY HandlersWellFormed
<1>7. q \in AnyRequest
  <2>1. Given(h, "on", Users) \subseteq Users \cup {None}
        /\ Given(h, "name", Names) \subseteq Names \cup {None}
        /\ Given(h, "org", {o \in Orgs : org[o] # "unused"}) \subseteq Orgs \cup {None}
        /\ Given(h, "project",
             {p \in Projects : project[p] # NoProject}) \subseteq Projects \cup {None}
        /\ Given(h, "invite", {i \in Invites : invite[i] # NoInvite}) \subseteq Invites \cup {None}
        /\ Roles(h) \subseteq OrgRoles \cup ProjectRoles \cup {None}
    BY DEF Given, Roles
  <2>. QED BY <2>1 DEF Requests, AnyRequest
<1>8. /\ row.req = q /\ row.todo = Handlers[h].calls /\ row.admin = admin
      /\ row.quota = NoQuota
      /\ row \in CallRows /\ row # Idle
  <2>1. Handlers[h].calls \in Seq(StoreCalls) /\ Handlers[h].calls # <<>>
    BY <1>6 DEF WellFormed, Script
  <2>2. admin \in BOOLEAN
    OBVIOUS
  <2>3. /\ row \in CallRows
        /\ row.req = q /\ row.todo = Handlers[h].calls /\ row.admin = admin
        /\ row.quota = NoQuota
    <3>. HIDE DEF admin
    <3>. QED BY <2>1, <2>2, <1>7, FreshCall
  <2>4. row # Idle
    BY <2>1, <2>3 DEF Idle
  <2>. QED BY <2>3, <2>4
<1>. HIDE DEF row
<1>9. ASSUME call'[c] = row
      PROVE  Served(c)'
  <2>1. Arg(c)' = q /\ Todo(c)' = Elems(Handlers[h].calls) /\ By(c)' = q.by
    BY <1>8, <1>9 DEF Arg, Todo, By
  <2>2. Script(call'[c].todo) /\ (call'[c].admin => q.claim)
    BY <1>3, <1>6, <1>8, <1>9 DEF WellFormed
  <2>3. \A f \in Todo(c)' : Suits(f, q)
    BY <1>6, <2>1 DEF WellFormed
  <2>4. q.project # None => project'[q.project] # NoProject
    BY Asked DEF Receive
  <2>5. Guarded(h, Todo(c)')
    BY <1>6, <2>1 DEF WellFormed
  <2>6. /\ "UpdateProjectQuotas" \in Todo(c)' => "GetProject" \in Todo(c)'
        /\ "AcceptOrgInvitation" \in Todo(c)' => "GetOrgInvitation" \in Todo(c)'
        /\ "AcceptProjectInvitation" \in Todo(c)' => "GetProjectInvitation" \in Todo(c)'
        /\ "LockInvitation" \in Todo(c)' =>
             Todo(c)' \cap {"GetOrgInvitation", "GetProjectInvitation"} # {}
    BY <2>5 DEF Guarded
  <2>. QED BY <1>7, <2>1, <2>2, <2>3, <2>4, <2>6 DEF Served
<1>10. call' \in [Calls -> CallRows] /\ \A d \in Calls \ {c} : call'[d] = call[d]
  BY <1>2, <1>5, <1>8
<1>11. call' = call \/ (call'[c] = row /\ (Handlers[h].who = "platform" => q.claim))
  BY <1>2, <1>3, <1>5
<1>. QED BY <1>1, <1>2, <1>4, <1>8, <1>9, <1>10, <1>11 DEF row

\* Seven days pass for an invitation.
LEMMA ExpireTypes ==
  ASSUME TypeInv, NEW i \in Invites, Expire(i)
  PROVE  TablesOK' /\ Kept /\ call' = call
<1>. DEFINE row == [invite[i] EXCEPT !.expired = TRUE]
<1>1. invite[i] \in InviteRows /\ invite[i] # NoInvite
  BY DEF Expire, TypeInv, TablesOK, NoInvite
<1>2. row \in InviteRows \ {NoInvite}
  BY <1>1, InviteTypes
<1>3. row.table = invite[i].table /\ row.to = invite[i].to /\ row.org = invite[i].org
      /\ row.project = invite[i].project /\ row.role = invite[i].role
  BY <1>1 DEF InviteRows
<1>4. invite' = [invite EXCEPT ![i] = row] /\ UNCHANGED <<tables, call, joined>>
  BY DEF Expire
<1>. HIDE DEF row
<1>5. invite' \in [Invites -> InviteRows]
      /\ \A j \in Invites : invite'[j] = IF j = i THEN row ELSE invite[j]
  BY <1>2, <1>4 DEF TypeInv, TablesOK
<1>6. Kept
  BY <1>2, <1>3, <1>4, <1>5 DEF Kept, tables
<1>. QED BY <1>4, <1>5, <1>6 DEF TypeInv, TablesOK, tables

\* The initial state.
LEMMA TypeInit == Init => TypeInv
<1>. SUFFICES ASSUME Init PROVE TypeInv
  OBVIOUS
<1>1. Idle \in CallRows
  BY DEF Idle, CallRows
<1>. QED BY <1>1 DEF Init, TypeInv, TablesOK, ProjectRows, InviteRows

\* Every step keeps the type invariant.
LEMMA TypeStep == TypeInv /\ [Next]_vars => TypeInv'
<1>. SUFFICES ASSUME TypeInv, [Next]_vars PROVE TypeInv'
  OBVIOUS
<1>a. ASSUME Remember
      PROVE  /\ held' \in [Calls -> BOOLEAN] /\ raced' \subseteq Users
             /\ overtaken' \in [Calls -> SUBSET Fields]
  <2>1. held' \in [Calls -> BOOLEAN]
    <3>. DEFINE kept(c) == call'[c] # Idle /\ (held[c] \/ Entitled(c)')
    <3>1. held' = [c \in Calls |-> kept(c)] /\ \A c \in Calls : kept(c) \in BOOLEAN
      BY <1>a DEF Remember
    <3>. HIDE DEF kept
    <3>. QED BY <3>1
  <2>2. raced' \subseteq Users
    BY <1>a DEF Remember, TypeInv
  <2>3. overtaken' \in [Calls -> SUBSET Fields]
    <3>. DEFINE writes(c) == StillTo(c, "UpdateProjectQuotas")' /\ ~StillTo(c, "GetProject")'
                after(c) == IF writes(c)
                            THEN overtaken[c] \cup Changed(call'[c].req.project) ELSE {}
    <3>1. overtaken' = [c \in Calls |-> after(c)]
      BY <1>a DEF Remember
    <3>2. \A c \in Calls : after(c) \subseteq Fields
      BY DEF TypeInv, Changed
    <3>. HIDE DEF after
    <3>. QED BY <3>1, <3>2
  <2>. QED BY <2>1, <2>2, <2>3
<1>b. ASSUME NEW c \in Calls, Answer(c), Kept
      PROVE  call' \in [Calls -> CallRows] /\ \A d \in Calls : call'[d] = Idle \/ Served(d)'
  <2>1. call \in [Calls -> CallRows] /\ Idle \in CallRows
    BY DEF TypeInv, Idle, CallRows
  <2>2. call' \in [Calls -> CallRows] /\ call'[c] = Idle
          /\ \A d \in Calls \ {c} : call'[d] = call[d]
    BY <1>b, <2>1 DEF Answer
  <2>. QED BY <1>b, <2>2, Undisturbed
<1>c. ASSUME UNCHANGED <<tables, invite, joined>>
      PROVE  TablesOK' /\ Kept
  BY <1>c DEF TypeInv, TablesOK, tables, Kept
<1>d. \A d \in Calls : call[d] = Idle \/ Served(d)
  BY DEF TypeInv
<1>1. ASSUME NEW c \in Calls, NEW h \in DOMAIN Handlers, NEW q \in Requests(h),
             Receive(c, q), Remember
      PROVE  TypeInv'
  <2>1. TablesOK' /\ Kept /\ call' \in [Calls -> CallRows]
    BY <1>1, Received
  <2>2. \A d \in Calls : call'[d] = Idle \/ Served(d)'
    <3>1. call' = call \/ (Served(c)' /\ \A d \in Calls \ {c} : call'[d] = call[d])
      BY <1>1, Received
    <3>. QED BY <2>1, <3>1, Undisturbed
  <2>3. requests' \in 0..MaxRequests
    BY <1>1 DEF Receive, CanReceive, TypeInv
  <2>. QED BY <1>1, <1>a, <2>1, <2>2, <2>3 DEF TypeInv
<1>2. ASSUME NEW c \in Calls, Serve(c)
      PROVE  TypeInv'
  <2>1. requests' = requests /\ Remember /\ Kinds(c)
    BY <1>2, ServeKinds DEF Serve
  <2>2. CASE \E f \in Reads : Reading(c, f)
    <3>1. PICK f \in Reads : Reading(c, f)
      BY <2>2
    <3>2. TablesOK' /\ Kept
      BY <3>1, <1>c DEF Reading
    <3>3. /\ call' \in [Calls -> CallRows] /\ Served(c)'
          /\ \A d \in Calls \ {c} : call'[d] = call[d]
      BY <3>1, StillServed DEF Reading
    <3>4. \A d \in Calls : call'[d] = Idle \/ Served(d)'
      BY <3>2, <3>3, Undisturbed
    <3>. QED BY <1>a, <2>1, <3>2, <3>3, <3>4 DEF TypeInv
  <2>3. CASE Answering(c)
    BY <2>1, <2>3, <1>a, <1>b, <1>c DEF Answering, TypeInv
  <2>4. CASE Writing(c)
    <3>1. TablesOK' /\ Kept /\ Answer(c)
      BY <2>4, WriteTypes
    <3>. QED BY <2>1, <3>1, <1>a, <1>b DEF TypeInv
  <2>. QED BY <2>1, <2>2, <2>3, <2>4 DEF Kinds
<1>3. ASSUME NEW c \in Calls, Fail(c), UNCHANGED <<tables, invite, joined, requests>>, Remember
      PROVE  TypeInv'
  BY <1>3, <1>a, <1>b, <1>c DEF Fail, TypeInv
<1>4. ASSUME NEW i \in Invites, Expire(i), UNCHANGED requests, Remember
      PROVE  TypeInv'
  <2>1. TablesOK' /\ Kept /\ call' = call
    BY <1>4, ExpireTypes
  <2>2. \A d \in Calls : call'[d] = Idle \/ Served(d)'
    BY <2>1, Undisturbed
  <2>. QED BY <1>4, <1>a, <2>1, <2>2 DEF TypeInv
<1>5. CASE UNCHANGED vars
  <2>1. TablesOK' /\ Kept
    BY <1>5, <1>c DEF vars
  <2>2. \A d \in Calls : call'[d] = Idle \/ Served(d)'
    BY <1>5, <2>1, Undisturbed DEF vars
  <2>. QED BY <1>5, <2>1, <2>2 DEF vars, TypeInv
<1>. QED BY <1>1, <1>2, <1>3, <1>4, <1>5 DEF Next, NextOf


(* TypeOK: every table always holds rows of its type, with the roles, quotas *)
(* and targets of the requests that wrote them.                              *)
THEOREM TypesHold == Spec => []TypeOK
<1>1. TypeInv => TypeOK
  BY DEF TypeInv, TablesOK, TypeOK
<1>. QED BY TypeInit, TypeStep, <1>1, PTL DEF Spec

-----------------------------------------------------------------------------
(* Invitations that are being accepted *)

\* The transaction of the call holds its invitation, see InviteLocked.
HoldsLock(c) == At(c, "AcceptOrgInvitation") \/ At(c, "AcceptProjectInvitation")

\* An invitation that is held is pending, and held by one call; nobody accepts
\* one without holding it.
LockInv ==
  /\ \A c \in Calls : Todo(c) \cap {"AcceptOrgInvitation", "AcceptProjectInvitation"} # {} =>
       "LockInvitation" \in Todo(c) \/ HoldsLock(c)
  /\ \A c \in Calls : HoldsLock(c) => invite[Arg(c).invite].status = "pending"
  /\ \A c, d \in Calls : HoldsLock(c) /\ HoldsLock(d) /\ Arg(c).invite = Arg(d).invite => c = d

\* What a request that holds an invitation has left to do.
LEMMA Holder ==
  ASSUME TypeInv, NEW c \in Calls, HoldsLock(c)
  PROVE  /\ Arg(c).invite \in Invites /\ InviteLocked(Arg(c).invite)
         /\ invite[Arg(c).invite] # NoInvite
         /\ "LockInvitation" \notin Todo(c)
         /\ \A f \in Reads : ~At(c, f)
<1>1. ASSUME NEW g \in {"AcceptOrgInvitation", "AcceptProjectInvitation"}, At(c, g)
      PROVE  Todo(c) = {g} /\ Arg(c).invite \in Invites /\ Invited(c)
  <2>1. Todo(c) = {g} /\ Suits(g, Arg(c)) /\ Served(c)
    BY <1>1, ServedAt DEF Reads
  <2>. QED BY <2>1 DEF Suits, Served
<1>2. \A f \in Reads : ~At(c, f)
  BY DEF HoldsLock, At, Reads
<1>. QED BY <1>1, <1>2 DEF HoldsLock, InviteLocked, Invited

\* Steps that begin no acceptance.
LEMMA LocksLeft ==
  ASSUME TypeInv, LockInv,
         \A d \in Calls : call'[d] = call[d] \/ call'[d] = Idle,
         \A d \in Calls : call'[d] = call[d] /\ HoldsLock(d) =>
           invite'[Arg(d).invite].status = "pending"
  PROVE  LockInv'
<1>1. \A d \in Calls : call'[d] = call[d] =>
        Todo(d)' = Todo(d) /\ Arg(d)' = Arg(d) /\ HoldsLock(d)' = HoldsLock(d)
  BY DEF Todo, Arg, HoldsLock, At
<1>2. \A d \in Calls : call'[d] = Idle => Todo(d)' = {} /\ ~HoldsLock(d)'
  BY DEF Todo, HoldsLock, At, Idle, Elems
<1>. QED BY <1>1, <1>2 DEF LockInv

\* A read keeps the locks apart: it takes one only when nobody has it.
LEMMA LocksRead ==
  ASSUME TypeInv, TypeInv', LockInv, NEW c \in Calls, NEW f, Reading(c, f)
  PROVE  LockInv'
<1>1. \A d \in Calls \ {c} :
        Todo(d)' = Todo(d) /\ Arg(d)' = Arg(d) /\ HoldsLock(d)' = HoldsLock(d)
  BY DEF Reading, Todo, Arg, HoldsLock, At
<1>2. /\ Arg(c)' = Arg(c) /\ invite' = invite /\ f \in Reads /\ At(c, f)
      /\ Todo(c)' \subseteq Todo(c)
      /\ Todo(c) \ {f, "GetProjectMemberRole"} \subseteq Todo(c)'
  BY DEF Reading, Arg, Todo
<1>3. ~HoldsLock(c)
  BY <1>2 DEF HoldsLock, At, Reads
<1>4. HoldsLock(c)' => f = "LockInvitation"
  <2>. SUFFICES ASSUME HoldsLock(c)', f # "LockInvitation" PROVE FALSE
    OBVIOUS
  <2>1. ASSUME NEW g \in {"AcceptOrgInvitation", "AcceptProjectInvitation"}, At(c, g)'
        PROVE  Todo(c)' = {g}
    <3>1. Script(call'[c].todo) /\ call'[c].todo # <<>> /\ Head(call'[c].todo) = g
      BY <2>1 DEF Reading, At
    <3>. QED BY <3>1, TailIs DEF Todo, Reads
  <2>2. "LockInvitation" \notin Todo(c)'
        /\ Todo(c)' \cap {"AcceptOrgInvitation", "AcceptProjectInvitation"} # {}
    BY <2>1 DEF HoldsLock
  <2>. QED BY <1>2, <1>3, <2>2 DEF LockInv
<1>5. ASSUME Todo(c)' \cap {"AcceptOrgInvitation", "AcceptProjectInvitation"} # {},
             "LockInvitation" \notin Todo(c)'
      PROVE  HoldsLock(c)'
  <2>1. "LockInvitation" \in Todo(c)
    BY <1>2, <1>3, <1>5 DEF LockInv
  <2>2. f = "LockInvitation"
    BY <1>2, <1>5, <2>1
  <2>3. Script(call[c].todo) /\ call[c].todo # <<>> /\ Head(call[c].todo) = "LockInvitation"
        /\ call'[c].todo = Tail(call[c].todo)
    BY <1>2, <2>2, ServedAt DEF Served, Reading
  <2>4. \A g \in Todo(c)' : At(c, g)'
    BY <2>3, TailIs DEF Todo, At
  <2>. QED BY <1>5, <2>4 DEF HoldsLock
<1>6. ASSUME HoldsLock(c)'
      PROVE  /\ invite[Arg(c).invite].status = "pending"
             /\ \A d \in Calls \ {c} : HoldsLock(d) => Arg(d).invite # Arg(c).invite
  <2>1. ~InviteLocked(Arg(c).invite) /\ invite[Arg(c).invite].status = "pending"
    BY <1>4, <1>6 DEF Reading
  <2>. QED BY <2>1 DEF InviteLocked, HoldsLock
<1>. QED BY <1>1, <1>2, <1>5, <1>6 DEF LockInv

\* Nobody else writes an invitation that is held.
LEMMA LocksWritten ==
  ASSUME TypeInv, LockInv, NEW c \in Calls, NEW d \in Calls, c # d, HoldsLock(d), Writing(c)
  PROVE  invite'[Arg(d).invite].status = "pending"
<1>. DEFINE i == Arg(d).invite
<1>1. i \in Invites /\ InviteLocked(i) /\ invite[i] # NoInvite /\ invite[i].status = "pending"
      /\ invite \in [Invites -> InviteRows]
  BY Holder DEF LockInv, TypeInv, TablesOK
<1>. HIDE DEF i
<1>2. CASE UNCHANGED invite
  BY <1>1, <1>2 DEF i
<1>3. CASE CascadeToInvites
  <2>. DEFINE dropped == {j \in Invites : ThereIs(j) /\ Outlives(j)}
  <2>1. \A j \in dropped : ~InviteLocked(j)
    BY <1>3 DEF CascadeToInvites
  <2>2. invite' = [j \in Invites |->
          IF j \in dropped THEN [invite[j] EXCEPT !.status = "gone"] ELSE invite[j]]
    BY <1>3 DEF CascadeToInvites
  <2>. HIDE DEF dropped
  <2>. QED BY <1>1, <2>1, <2>2 DEF i
<1>4. CASE CreateOrgInvitation(c) \/ CreateProjectInvitation(c)
  <2>1. UNCHANGED invite \/ \E row : InsertInvite(row)
    BY <1>4 DEF CreateOrgInvitation, CreateProjectInvitation
  <2>2. ASSUME NEW row, InsertInvite(row) PROVE invite'[i] = invite[i]
    BY <1>1, <2>2 DEF InsertInvite
  <2>. QED BY <1>1, <1>2, <2>1, <2>2 DEF i
<1>5. CASE AcceptOrgInvitation(c) \/ AcceptProjectInvitation(c)
  <2>1. HoldsLock(c) /\ MarkAccepted(Arg(c).invite)
    BY <1>5 DEF HoldsLock, AcceptOrgInvitation, AcceptProjectInvitation
  <2>2. Arg(c).invite # i
    BY <2>1 DEF LockInv, i
  <2>. QED BY <1>1, <2>1, <2>2 DEF MarkAccepted, i
<1>6. CASE SetOrgInvitationStatus(c) \/ SetProjectInvitationStatus(c)
  <2>1. SetStatus(c, "declined")
    BY <1>6 DEF SetOrgInvitationStatus, SetProjectInvitationStatus
  <2>2. Arg(c).invite # i
    BY <1>1, <2>1 DEF SetStatus
  <2>. QED BY <1>1, <2>1, <2>2 DEF SetStatus, i
<1>. QED BY <1>2, <1>3, <1>4, <1>5, <1>6 DEF Writing

\* A request just received holds nothing.
LEMMA LocksReceived ==
  ASSUME TypeInv, LockInv, NEW c \in Calls, NEW h \in DOMAIN Handlers, NEW q \in Requests(h),
         Receive(c, q)
  PROVE  LockInv'
<1>1. call[c] = Idle /\ invite' = invite /\ \A d \in Calls \ {c} : call'[d] = call[d]
  BY Received DEF Receive
<1>2. CASE call' = call
  BY <1>1, <1>2, LocksLeft DEF LockInv
<1>3. CASE call'[c] = Fresh(q, Handlers[h].calls, user'[q.by] = "admin")
  <2>1. WellFormed(h)
    BY HandlersWellFormed
  <2>2. call'[c].todo = Handlers[h].calls
    <3>1. (user'[q.by] = "admin") \in BOOLEAN
      OBVIOUS
    <3>2. Fresh(q, Handlers[h].calls, user'[q.by] = "admin").todo = Handlers[h].calls
      BY DEF Fresh, Idle
    <3>. QED BY <1>3, <3>2
  <2>3. Todo(c)' \cap {"AcceptOrgInvitation", "AcceptProjectInvitation"} # {}
          => "LockInvitation" \in Todo(c)'
    BY <2>1, <2>2 DEF WellFormed, Guarded, Todo
  <2>4. ~HoldsLock(c)'
    <3>. SUFFICES ASSUME NEW g \in {"AcceptOrgInvitation", "AcceptProjectInvitation"}, At(c, g)'
                  PROVE  FALSE
      BY DEF HoldsLock
    <3>1. Script(call'[c].todo) /\ call'[c].todo # <<>> /\ Head(call'[c].todo) = g
      BY <2>1, <2>2 DEF WellFormed, At
    <3>2. Todo(c)' = {g}
      BY <3>1, TailIs DEF Todo, Reads
    <3>. QED BY <2>3, <3>2
  <2>5. \A d \in Calls \ {c} :
          Todo(d)' = Todo(d) /\ Arg(d)' = Arg(d) /\ HoldsLock(d)' = HoldsLock(d)
    BY <1>1 DEF Todo, Arg, HoldsLock, At
  <2>. QED BY <1>1, <2>3, <2>4, <2>5 DEF LockInv
<1>. QED BY <1>2, <1>3, Received

\* Nobody holds anything initially.
LEMMA LockInit == Init => LockInv
<1>. SUFFICES ASSUME Init PROVE LockInv
  OBVIOUS
<1>1. \A c \in Calls : call[c] = Idle
  BY DEF Init
<1>2. \A c \in Calls : Todo(c) = {} /\ ~HoldsLock(c)
  BY <1>1 DEF Todo, HoldsLock, At, Idle, Elems
<1>. QED BY <1>2 DEF LockInv

\* Every step keeps the locks apart.
LEMMA LockStep == TypeInv /\ TypeInv' /\ LockInv /\ [Next]_vars => LockInv'
<1>. SUFFICES ASSUME TypeInv, TypeInv', LockInv, [Next]_vars PROVE LockInv'
  OBVIOUS
<1>a. ASSUME NEW c \in Calls, Answer(c)
      PROVE  call'[c] = Idle /\ \A d \in Calls \ {c} : call'[d] = call[d]
  BY <1>a DEF Answer, TypeInv
<1>b. ASSUME NEW c \in Calls, Answer(c), UNCHANGED invite
      PROVE  LockInv'
  <2>1. \A d \in Calls : call'[d] = call[d] \/ call'[d] = Idle
    BY <1>a, <1>b
  <2>. QED BY <1>b, <2>1, LocksLeft DEF LockInv
<1>1. ASSUME NEW c \in Calls, NEW h \in DOMAIN Handlers, NEW q \in Requests(h), Receive(c, q)
      PROVE  LockInv'
  BY <1>1, LocksReceived
<1>2. ASSUME NEW c \in Calls, ServeStep(c)
      PROVE  LockInv'
  <2>1. CASE \E f \in Reads : Reading(c, f)
    BY <2>1, LocksRead
  <2>2. CASE Answering(c)
    BY <2>2, <1>b DEF Answering
  <2>3. CASE Writing(c)
    <3>1. Answer(c) /\ call[c] # Idle
      BY <2>3, WriteTypes
    <3>2. \A d \in Calls : call'[d] = call[d] \/ call'[d] = Idle
      BY <1>a, <3>1
    <3>3. call'[c] # call[c]
      BY <1>a, <3>1
    <3>4. \A d \in Calls : call'[d] = call[d] /\ HoldsLock(d) =>
            invite'[Arg(d).invite].status = "pending"
      BY <2>3, <3>3, LocksWritten
    <3>. QED BY <3>2, <3>4, LocksLeft
  <2>. QED BY <1>2, <2>1, <2>2, <2>3, ServeKinds DEF Kinds
<1>3. ASSUME NEW c \in Calls, Fail(c), UNCHANGED invite
      PROVE  LockInv'
  BY <1>3, <1>b DEF Fail
<1>4. ASSUME NEW i \in Invites, Expire(i)
      PROVE  LockInv'
  <2>1. call' = call /\ invite \in [Invites -> InviteRows]
    BY <1>4, ExpireTypes DEF TypeInv, TablesOK
  <2>2. \A j \in Invites : invite'[j].status = invite[j].status
    <3>1. invite' = [invite EXCEPT ![i] = [invite[i] EXCEPT !.expired = TRUE]]
      BY <1>4 DEF Expire
    <3>2. [invite[i] EXCEPT !.expired = TRUE].status = invite[i].status
      BY <2>1 DEF InviteRows, NoInvite
    <3>. QED BY <2>1, <3>1, <3>2
  <2>3. \A d \in Calls : HoldsLock(d) => Arg(d).invite \in Invites
    BY Holder
  <2>. QED BY <2>1, <2>2, <2>3, LocksLeft DEF LockInv
<1>5. CASE UNCHANGED vars
  BY <1>5, LocksLeft DEF vars, LockInv
<1>. QED BY <1>1, <1>2, <1>3, <1>4, <1>5 DEF Next, NextOf, Serve

-----------------------------------------------------------------------------
(* What belongs to an organization or a project goes with it *)

\* The parts of NothingOutlives, by the tables they relate.
MembersGo == \A o \in Orgs : org[o] # "live" => \A u \in Users : member[o][u] = "none"

\* Live projects belong to live organizations.
ProjectsGo ==
  \A o \in Orgs : org[o] # "live" =>
    \A p \in Projects : project[p].org = o => project[p].state # "live"

\* Invitations to an organization belong to a live one.
OrgInvitesGo ==
  \A o \in Orgs : org[o] # "live" => \A i \in Invites : invite[i].org = o => ~ThereIs(i)

\* A default organization is one its user is a member of.
DefaultsGo == \A u \in Users : \A o \in default[u] : member[o][u] # "none"

\* Members of a project belong to a live one.
ProjectMembersGo ==
  \A p \in Projects : project[p].state # "live" => \A u \in Users : pmember[p][u] = "none"

\* Invitations to a project belong to a live one.
ProjectInvitesGo ==
  \A p \in Projects : project[p].state # "live" =>
    \A i \in Invites : invite[i].project = p => ~ThereIs(i)

\* NothingOutlives is the conjunction of its parts.
LEMMA PartsOfNothingOutlives ==
  NothingOutlives <=> /\ MembersGo /\ ProjectsGo /\ OrgInvitesGo
                      /\ DefaultsGo /\ ProjectMembersGo /\ ProjectInvitesGo
BY DEF NothingOutlives, MembersGo, ProjectsGo, OrgInvitesGo, DefaultsGo, ProjectMembersGo,
       ProjectInvitesGo

\* Invitations that are no more than before stay behind nothing.
LEMMA InvitesFollow ==
  ASSUME Kept, OrgInvitesGo, ProjectInvitesGo, NEW i \in Invites,
         ThereIs(i)' => ThereIs(i),
         \A o \in Orgs : org[o] = "live" => org'[o] = "live",
         \A p \in Projects : project[p].state = "live" => project'[p].state = "live"
  PROVE  ThereIs(i)' => /\ \A o \in Orgs : invite'[i].org = o => org'[o] = "live"
                        /\ \A p \in Projects : invite'[i].project = p => project'[p].state = "live"
<1>. SUFFICES ASSUME ThereIs(i)' PROVE
       /\ \A o \in Orgs : invite'[i].org = o => org'[o] = "live"
       /\ \A p \in Projects : invite'[i].project = p => project'[p].state = "live"
  OBVIOUS
<1>1. ThereIs(i) /\ invite[i] # NoInvite
  BY DEF ThereIs, NoInvite, Statuses
<1>2. invite'[i].org = invite[i].org /\ invite'[i].project = invite[i].project
  BY <1>1 DEF Kept
<1>. QED BY <1>1, <1>2 DEF OrgInvitesGo, ProjectInvitesGo

\* Changing the status of an invitation neither makes nor removes one.
LEMMA SameStatus ==
  ASSUME TypeInv, NEW i \in Invites, NEW s \in Statuses, invite[i] # NoInvite,
         invite' = [invite EXCEPT ![i].status = s]
  PROVE  /\ ThereIs(i)'
         /\ \A j \in Invites \ {i} : ThereIs(j)' <=> ThereIs(j)
<1>1. invite \in [Invites -> InviteRows]
  BY DEF TypeInv, TablesOK
<1>2. invite'[i] = [invite[i] EXCEPT !.status = s]
        /\ \A j \in Invites \ {i} : invite'[j] = invite[j]
  BY <1>1
<1>3. [invite[i] EXCEPT !.status = s].status = s
  BY <1>1 DEF InviteRows, NoInvite
<1>. QED BY <1>2, <1>3 DEF ThereIs

\* A new or changed membership is one of an organization that is there, and no
\* role is lost.
LEMMA UpsertKeeps ==
  ASSUME TypeInv, MembersGo, DefaultsGo, NEW o \in Orgs, NEW u \in Users, NEW role \in OrgRoles,
         UpsertOrgMember(o, u, role), UNCHANGED <<org, default>>
  PROVE  MembersGo' /\ DefaultsGo'
<1>1. member \in [Orgs -> [Users -> OrgRoles \cup {"none"}]] /\ default \in [Users -> SUBSET Orgs]
  BY DEF TypeInv, TablesOK
<1>2. role # "none"
  BY DEF OrgRoles
<1>3. CASE member' = member
  BY <1>3 DEF MembersGo, DefaultsGo
<1>4. CASE org[o] = "live" /\ member' = [member EXCEPT ![o][u] = role]
  <2>1. \A x \in Orgs, v \in Users :
          member'[x][v] = IF x = o /\ v = u THEN role ELSE member[x][v]
    BY <1>1, <1>4
  <2>. QED BY <1>1, <1>2, <1>4, <2>1 DEF MembersGo, DefaultsGo
<1>. QED BY <1>3, <1>4 DEF UpsertOrgMember

\* A member is added to a live project only.
LEMMA UpsertProjectKeeps ==
  ASSUME TypeInv, ProjectMembersGo, NEW p \in Projects, NEW u \in Users, NEW role,
         UpsertProjectMember(p, u, role), UNCHANGED project
  PROVE  ProjectMembersGo'
<1>1. pmember \in [Projects -> [Users -> ProjectRoles \cup {"none"}]]
  BY DEF TypeInv, TablesOK
<1>2. CASE pmember' = pmember
  BY <1>2 DEF ProjectMembersGo
<1>3. CASE project[p].state = "live" /\ pmember' = [pmember EXCEPT ![p][u] = role]
  <2>1. \A x \in Projects : x # p => pmember'[x] = pmember[x]
    BY <1>1, <1>3
  <2>. QED BY <1>3, <2>1 DEF ProjectMembersGo
<1>. QED BY <1>2, <1>3 DEF UpsertProjectMember

\* What CascadeToInvites leaves is of organizations and projects that are there.
LEMMA CascadeKeeps ==
  ASSUME TypeInv, Kept, CascadeToInvites
  PROVE  OrgInvitesGo' /\ ProjectInvitesGo'
<1>. DEFINE dropped == {i \in Invites : ThereIs(i) /\ Outlives(i)}
<1>1. invite' = [i \in Invites |->
        IF i \in dropped THEN [invite[i] EXCEPT !.status = "gone"] ELSE invite[i]]
  BY DEF CascadeToInvites
<1>2. ASSUME NEW i \in Invites, ThereIs(i)'
      PROVE  ThereIs(i) /\ ~Outlives(i) /\ invite'[i] = invite[i]
  <2>1. i \notin dropped
    <3>. SUFFICES ASSUME i \in dropped PROVE FALSE
      OBVIOUS
    <3>1. invite'[i] = [invite[i] EXCEPT !.status = "gone"]
      BY <1>1
    <3>2. invite[i] \in InviteRows
      BY DEF TypeInv, TablesOK
    <3>3. invite'[i].status = "gone"
      BY <3>1, <3>2 DEF InviteRows, NoInvite
    <3>. QED BY <1>2, <3>3 DEF ThereIs, Statuses
  <2>2. invite'[i] = invite[i]
    BY <1>1, <2>1
  <2>. QED BY <1>2, <2>1, <2>2 DEF ThereIs
<1>3. \A p \in Projects : p # None
  OBVIOUS
<1>. QED BY <1>2, <1>3 DEF Outlives, OrgInvitesGo, ProjectInvitesGo

\* A write leaves nothing behind of what it deletes and adds nothing to what is
\* gone.
LEMMA OutliveWrite ==
  ASSUME TypeInv, LockInv, NothingOutlives, NEW c \in Calls, Writing(c)
  PROVE  NothingOutlives'
<1>. DEFINE q == Arg(c)
<1>a. /\ MembersGo /\ ProjectsGo /\ OrgInvitesGo /\ DefaultsGo /\ ProjectMembersGo
           /\ ProjectInvitesGo
      /\ Kept
      /\ user \in [Users -> {"unknown", "plain", "admin"}]
      /\ org \in [Orgs -> {"unused", "live", "gone"}]
      /\ member \in [Orgs -> [Users -> OrgRoles \cup {"none"}]]
      /\ default \in [Users -> SUBSET Orgs]
      /\ project \in [Projects -> ProjectRows]
      /\ pmember \in [Projects -> [Users -> ProjectRoles \cup {"none"}]]
      /\ invite \in [Invites -> InviteRows]
  BY PartsOfNothingOutlives, WriteTypes DEF TypeInv, TablesOK
<1>b. ASSUME NEW f, At(c, f)
      PROVE  Suits(f, q) /\ By(c) \in Users /\ Served(c) /\ (f \notin Reads => Todo(c) = {f})
  BY <1>b, ServedAt DEF Served, AnyRequest, By, Arg
\* The parts whose tables do not change.
<1>c. /\ UNCHANGED <<org, member>> => MembersGo'
      /\ UNCHANGED <<org, project>> => ProjectsGo'
      /\ UNCHANGED <<org, invite>> => OrgInvitesGo'
      /\ UNCHANGED <<member, default>> => DefaultsGo'
      /\ UNCHANGED <<project, pmember>> => ProjectMembersGo'
      /\ UNCHANGED <<project, invite>> => ProjectInvitesGo'
  BY <1>a DEF MembersGo, ProjectsGo, OrgInvitesGo, DefaultsGo, ProjectMembersGo, ProjectInvitesGo,
              ThereIs
<1>. SUFFICES /\ MembersGo' /\ ProjectsGo' /\ OrgInvitesGo'
              /\ DefaultsGo' /\ ProjectMembersGo' /\ ProjectInvitesGo'
  BY PartsOfNothingOutlives DEF NothingOutlives, MembersGo, ProjectsGo, OrgInvitesGo, DefaultsGo,
     ProjectMembersGo, ProjectInvitesGo
<1>1. CASE SetUserAdmin(c) /\ UNCHANGED <<invite, joined>>
  BY <1>1, <1>c DEF SetUserAdmin
<1>2. CASE CreateOrganization(c) /\ UNCHANGED <<invite, joined>>
  <2>1. PICK o \in Orgs :
          /\ org'     = [org EXCEPT ![o] = "live"]
          /\ member'  = [member EXCEPT ![o][By(c)] = "owner"]
          /\ default' = [default EXCEPT ![By(c)] =
                            IF call[c].hasDefault THEN @ ELSE @ \cup {o}]
    BY <1>2 DEF CreateOrganization
  <2>2. By(c) \in Users /\ UNCHANGED <<project, pmember>>
    BY <1>2, <1>b DEF CreateOrganization
  <2>3. \A x \in Orgs : org'[x] = IF x = o THEN "live" ELSE org[x]
    BY <1>a, <2>1
  <2>4. \A x \in Orgs, u \in Users :
          member'[x][u] = IF x = o /\ u = By(c) THEN "owner" ELSE member[x][u]
    BY <1>a, <2>1, <2>2
  <2>5. \A u \in Users : default'[u] \subseteq default[u] \cup (IF u = By(c) THEN {o} ELSE {})
    BY <1>a, <2>1, <2>2
  <2>6. MembersGo' /\ ProjectsGo' /\ OrgInvitesGo'
    BY <1>2, <1>a, <2>2, <2>3, <2>4 DEF MembersGo, ProjectsGo, OrgInvitesGo, ThereIs
  <2>7. DefaultsGo'
    BY <1>a, <2>4, <2>5 DEF DefaultsGo
  <2>. QED BY <1>2, <1>c, <2>2, <2>6, <2>7
<1>3. CASE SetDefaultOrg(c) /\ UNCHANGED <<invite, joined>>
  <2>1. q.org \in Orgs /\ By(c) \in Users
    BY <1>3, <1>b DEF SetDefaultOrg, Suits
  <2>2. CASE UNCHANGED default
    BY <1>3, <1>c, <2>2 DEF SetDefaultOrg
  <2>3. CASE member[q.org][By(c)] # "none"
             /\ default' = [default EXCEPT ![By(c)] = (@ \ call[c].rows) \cup {q.org}]
    <3>1. \A u \in Users : default'[u] \subseteq default[u] \cup (IF u = By(c) THEN {q.org} ELSE {})
      BY <1>a, <2>1, <2>3
    <3>2. DefaultsGo'
      BY <1>3, <1>a, <2>3, <3>1 DEF SetDefaultOrg, DefaultsGo
    <3>. QED BY <1>3, <1>c, <3>2 DEF SetDefaultOrg
  <2>. QED BY <1>3, <2>2, <2>3 DEF SetDefaultOrg
<1>4. CASE AddOrgMember(c) /\ UNCHANGED <<invite, joined>>
  <2>1. q.org \in Orgs /\ q.on \in Users /\ q.role \in OrgRoles
    BY <1>4, <1>b DEF AddOrgMember, Suits
  <2>2. UpsertOrgMember(q.org, q.on, q.role) /\ UNCHANGED <<org, default, project, pmember>>
    BY <1>4 DEF AddOrgMember
  <2>. HIDE DEF q
  <2>. QED BY <1>4, <1>a, <1>c, <2>1, <2>2, UpsertKeeps
<1>5. CASE RemoveOrgMember(c) /\ UNCHANGED <<invite, joined>>
  <2>1. q.org \in Orgs /\ q.on \in Users
    BY <1>5, <1>b DEF RemoveOrgMember, Suits
  <2>2. \A o \in Orgs, u \in Users :
          member'[o][u] = IF o = q.org /\ u = q.on THEN "none" ELSE member[o][u]
    BY <1>5, <1>a, <2>1 DEF RemoveOrgMember
  <2>3. \A u \in Users : default'[u] = IF u = q.on THEN default[u] \ {q.org} ELSE default[u]
    BY <1>5, <1>a, <2>1 DEF RemoveOrgMember
  <2>4. MembersGo' /\ DefaultsGo'
    BY <1>5, <1>a, <2>2, <2>3 DEF RemoveOrgMember, MembersGo, DefaultsGo
  <2>. QED BY <1>5, <1>c, <2>4 DEF RemoveOrgMember
<1>6. CASE UpdateOrgMemberRole(c) /\ UNCHANGED <<invite, joined>>
  <2>1. q.org \in Orgs /\ q.on \in Users /\ q.role \in OrgRoles
    BY <1>6, <1>b DEF UpdateOrgMemberRole, Suits
  <2>2. \A o \in Orgs, u \in Users :
          member'[o][u] = IF o = q.org /\ u = q.on /\ member[o][u] # "none" THEN q.role
                          ELSE member[o][u]
    BY <1>6, <1>a, <2>1 DEF UpdateOrgMemberRole
  <2>3. q.role # "none"
    BY <2>1 DEF OrgRoles
  <2>4. MembersGo' /\ DefaultsGo'
    BY <1>6, <1>a, <2>2, <2>3 DEF UpdateOrgMemberRole, MembersGo, DefaultsGo
  <2>. QED BY <1>6, <1>c, <2>4 DEF UpdateOrgMemberRole
<1>7. CASE CreateProject(c) /\ UNCHANGED <<invite, joined>>
  <2>1. UNCHANGED <<user, org, member, default>> /\ q.org \in Orgs /\ By(c) \in Users
    BY <1>7, <1>b DEF CreateProject, Suits
  <2>2. CASE UNCHANGED <<project, pmember>>
    BY <1>7, <1>c, <2>1, <2>2
  <2>. DEFINE row == [state |-> "live", org |-> q.org, name |-> q.name,
                      quota |-> orDefault(q.ask, DefaultQuota)]
  <2>3. ASSUME NEW p \in Projects, org[q.org] = "live",
               project' = [project EXCEPT ![p] = row],
               pmember' = [pmember EXCEPT ![p][By(c)] = "maintainer"]
        PROVE  ProjectsGo' /\ ProjectMembersGo' /\ ProjectInvitesGo'
    <3>1. row.state = "live" /\ row.org = q.org
      OBVIOUS
    <3>. HIDE DEF row
    <3>2. \A x \in Projects : project'[x] = IF x = p THEN row ELSE project[x]
      BY <1>a, <2>3
    <3>3. \A x \in Projects \ {p} : pmember'[x] = pmember[x]
      BY <1>a, <2>3
    <3>4. ProjectsGo'
      BY <1>a, <2>1, <2>3, <3>1, <3>2 DEF ProjectsGo
    <3>5. ProjectMembersGo'
      BY <1>a, <3>1, <3>2, <3>3 DEF ProjectMembersGo
    <3>6. ProjectInvitesGo'
      BY <1>7, <1>a, <3>1, <3>2 DEF ProjectInvitesGo, ThereIs
    <3>. QED BY <3>4, <3>5, <3>6
  <2>. QED BY <1>7, <1>c, <2>1, <2>2, <2>3 DEF CreateProject
<1>8. CASE (UpdateProject(c) \/ UpdateProjectQuotas(c)) /\ UNCHANGED <<invite, joined>>
  <2>1. UNCHANGED <<user, org, member, default, pmember>>
    BY <1>8 DEF UpdateProject, UpdateProjectQuotas
  <2>2. \A p \in Projects : project'[p].state = project[p].state /\ project'[p].org = project[p].org
    <3>1. \/ project' = project
          \/ /\ project[q.project].state = "live"
             /\ project' = [project EXCEPT ![q.project] =
                  [project[q.project] EXCEPT !.name = q.name]]
          \/ /\ project[q.project].state = "live"
             /\ project' = [project EXCEPT ![q.project] =
                     [project[q.project] EXCEPT !.quota = orDefault(q.ask, call[c].quota)]]
      BY <1>8 DEF UpdateProject, UpdateProjectQuotas
    <3>2. ASSUME NEW row, project' = [project EXCEPT ![q.project] = row],
                 row.state = project[q.project].state, row.org = project[q.project].org
          PROVE  \A p \in Projects :
                   project'[p].state = project[p].state /\ project'[p].org = project[p].org
      BY <1>a, <3>2
    <3>3. q.project \in Projects
      BY <1>8, <1>b DEF UpdateProject, UpdateProjectQuotas, Suits
    <3>4. /\ [project[q.project] EXCEPT !.name = q.name].state = project[q.project].state
          /\ [project[q.project] EXCEPT !.name = q.name].org = project[q.project].org
      BY <1>a, <3>3 DEF ProjectRows, NoProject
    <3>5. \A x : /\ [project[q.project] EXCEPT !.quota = x].state = project[q.project].state
                 /\ [project[q.project] EXCEPT !.quota = x].org = project[q.project].org
      BY <1>a, <3>3 DEF ProjectRows, NoProject
    <3>. QED BY <3>1, <3>2, <3>4, <3>5
  <2>3. ProjectsGo'
    BY <1>a, <2>1, <2>2 DEF ProjectsGo
  <2>4. ProjectMembersGo'
    BY <1>a, <2>1, <2>2 DEF ProjectMembersGo
  <2>5. ProjectInvitesGo'
    BY <1>8, <1>a, <2>2 DEF ProjectInvitesGo, ThereIs
  <2>. QED BY <1>8, <1>c, <2>1, <2>3, <2>4, <2>5
<1>9. CASE AddProjectMember(c) /\ UNCHANGED <<invite, joined>>
  <2>1. q.project \in Projects /\ q.on \in Users
    BY <1>9, <1>b DEF AddProjectMember, Suits
  <2>2. UpsertProjectMember(q.project, q.on, q.role)
          /\ UNCHANGED <<user, org, member, default, project>>
    BY <1>9 DEF AddProjectMember
  <2>. HIDE DEF q
  <2>. QED BY <1>9, <1>a, <1>c, <2>1, <2>2, UpsertProjectKeeps
<1>10. CASE (RemoveProjectMember(c) \/ UpdateProjectMemberRole(c)) /\ UNCHANGED <<invite, joined>>
  <2>1. UNCHANGED <<user, org, member, default, project>>
    BY <1>10 DEF RemoveProjectMember, UpdateProjectMemberRole
  <2>2. q.project \in Projects /\ q.on \in Users
    BY <1>10, <1>b DEF RemoveProjectMember, UpdateProjectMemberRole, Suits
  <2>3. \A p \in Projects, u \in Users : pmember[p][u] = "none" => pmember'[p][u] = "none"
    BY <1>10, <1>a, <2>2 DEF RemoveProjectMember, UpdateProjectMemberRole
  <2>4. ProjectMembersGo'
    BY <1>a, <2>1, <2>3 DEF ProjectMembersGo
  <2>. QED BY <1>10, <1>c, <2>1, <2>4
<1>d. ASSUME NEW ps, DropProjects(ps), \A p \in ps \cap Projects : project[p].state = "live"
      PROVE  /\ \A p \in Projects : /\ p \in ps => project'[p].state # "live"
                                    /\ p \notin ps => project'[p] = project[p]
                                    /\ project'[p].org = project[p].org
             /\ ProjectMembersGo'
  <2>1. \A p \in Projects : p \in ps => project'[p] = [project[p] EXCEPT !.state = "gone"]
    BY <1>d DEF DropProjects
  <2>2. \A p \in Projects : p \notin ps => project'[p] = project[p]
    BY <1>d DEF DropProjects
  <2>3. \A p \in Projects : /\ [project[p] EXCEPT !.state = "gone"].state = "gone"
                            /\ [project[p] EXCEPT !.state = "gone"].org = project[p].org
    BY <1>a DEF ProjectRows, NoProject
  <2>4. \A p \in Projects : pmember'[p] = IF p \in ps THEN [u \in Users |-> "none"] ELSE pmember[p]
    BY <1>d DEF DropProjects
  <2>5. \A p \in Projects : /\ p \in ps => project'[p].state # "live"
                            /\ project'[p].org = project[p].org
    BY <2>1, <2>2, <2>3
  <2>6. ProjectMembersGo'
    BY <1>a, <2>2, <2>4 DEF ProjectMembersGo
  <2>. QED BY <2>2, <2>5, <2>6
<1>11. CASE DeleteOrganization(c) /\ CascadeToInvites
  <2>. DEFINE ps == {p \in Projects : project[p].state = "live" /\ project[p].org = q.org}
  <2>1. q.org \in Orgs
    BY <1>11, <1>b DEF DeleteOrganization, Suits
  <2>2. OrgInvitesGo' /\ ProjectInvitesGo'
    BY <1>11, <1>a, CascadeKeeps
  <2>3. CASE org[q.org] = "live"
    <3>1. /\ org' = [org EXCEPT ![q.org] = "gone"]
          /\ member' = [member EXCEPT ![q.org] = [u \in Users |-> "none"]]
          /\ default' = [u \in Users |-> default[u] \ {q.org}]
          /\ DropProjects(ps)
      BY <1>11, <2>3 DEF DeleteOrganization
    <3>2. \A p \in ps \cap Projects : project[p].state = "live"
      OBVIOUS
    <3>3. \A p \in Projects : project[p].state = "live" /\ project[p].org = q.org => p \in ps
      OBVIOUS
    <3>. HIDE DEF ps
    <3>4. /\ \A p \in Projects : /\ p \in ps => project'[p].state # "live"
                                 /\ p \notin ps => project'[p] = project[p]
                                 /\ project'[p].org = project[p].org
          /\ ProjectMembersGo'
      BY <1>d, <3>1, <3>2
    <3>5. \A o \in Orgs : org'[o] = IF o = q.org THEN "gone" ELSE org[o]
      BY <1>a, <3>1
    <3>6. \A o \in Orgs : member'[o] = IF o = q.org THEN [u \in Users |-> "none"] ELSE member[o]
      BY <1>a, <3>1
    <3>7. MembersGo'
      BY <1>a, <3>5, <3>6 DEF MembersGo
    <3>8. ProjectsGo'
      BY <1>a, <3>3, <3>4, <3>5 DEF ProjectsGo
    <3>9. DefaultsGo'
      BY <1>a, <3>1, <3>6 DEF DefaultsGo
    <3>. QED BY <2>2, <3>4, <3>7, <3>8, <3>9
  <2>4. CASE org[q.org] # "live"
    <3>1. UNCHANGED <<org, member, default, project, pmember>>
      BY <1>11, <2>4 DEF DeleteOrganization
    <3>. QED BY <1>c, <2>2, <3>1
  <2>. QED BY <2>3, <2>4
<1>12. CASE DeleteProject(c) /\ CascadeToInvites
  <2>. DEFINE ps == {p \in {q.project} : project[p].state = "live"}
  <2>1. DropProjects(ps) /\ UNCHANGED <<user, org, member, default>>
    BY <1>12 DEF DeleteProject
  <2>2. \A p \in ps \cap Projects : project[p].state = "live"
    OBVIOUS
  <2>. HIDE DEF ps
  <2>3. /\ \A p \in Projects : /\ p \in ps => project'[p].state # "live"
                               /\ p \notin ps => project'[p] = project[p]
                               /\ project'[p].org = project[p].org
        /\ ProjectMembersGo'
    BY <1>d, <2>1, <2>2
  <2>4. ProjectsGo'
    BY <1>a, <2>1, <2>3 DEF ProjectsGo
  <2>5. OrgInvitesGo' /\ ProjectInvitesGo'
    BY <1>12, <1>a, CascadeKeeps
  <2>. QED BY <1>c, <2>1, <2>3, <2>4, <2>5
\* Invitations change, organizations and projects do not.
<1>e. ASSUME UNCHANGED <<org, project>>,
             \A i \in Invites : ThereIs(i)' =>
               \/ ThereIs(i)
               \/ /\ \A o \in Orgs : invite'[i].org = o => org[o] = "live"
                  /\ \A p \in Projects : invite'[i].project = p => project[p].state = "live"
      PROVE  OrgInvitesGo' /\ ProjectInvitesGo'
  <2>1. \A i \in Invites : ThereIs(i)' =>
          /\ \A o \in Orgs : invite'[i].org = o => org'[o] = "live"
          /\ \A p \in Projects : invite'[i].project = p => project'[p].state = "live"
    BY <1>a, <1>e, InvitesFollow
  <2>. QED BY <2>1 DEF OrgInvitesGo, ProjectInvitesGo
<1>f. ASSUME NEW row, InsertInvite(row), UNCHANGED <<org, project>>,
             \A o \in Orgs : row.org = o => org[o] = "live",
             \A p \in Projects : row.project = p => project[p].state = "live"
      PROVE  OrgInvitesGo' /\ ProjectInvitesGo'
  <2>1. PICK i \in Invites : invite' = [invite EXCEPT ![i] = row]
    BY <1>f DEF InsertInvite
  <2>2. \A j \in Invites : invite'[j] = IF j = i THEN row ELSE invite[j]
    BY <1>a, <2>1
  <2>. QED BY <1>e, <1>f, <2>2 DEF ThereIs
<1>13. CASE CreateOrgInvitation(c)
  <2>. DEFINE row == [status |-> "pending", table |-> "org", org |-> q.org,
                      project |-> None, to |-> q.on, role |-> q.role, expired |-> FALSE]
  <2>1. UNCHANGED <<tables, joined>>
        /\ (UNCHANGED invite \/ (org[q.org] = "live" /\ InsertInvite(row)))
    BY <1>13 DEF CreateOrgInvitation
  <2>2. row.org = q.org /\ row.project = None
    OBVIOUS
  <2>. HIDE DEF row
  <2>3. OrgInvitesGo' /\ ProjectInvitesGo'
    BY <1>c, <1>f, <2>1, <2>2 DEF tables
  <2>. QED BY <1>c, <2>1, <2>3 DEF tables
<1>14. CASE CreateProjectInvitation(c)
  <2>. DEFINE row == [status |-> "pending", table |-> "project", org |-> OrgOf(q),
                      project |-> q.project, to |-> q.on, role |-> q.role, expired |-> FALSE]
  <2>1. UNCHANGED <<tables, joined>>
        /\ (UNCHANGED invite \/ (project[q.project].state = "live" /\ InsertInvite(row)))
    BY <1>14 DEF CreateProjectInvitation
  <2>2. row.org = OrgOf(q) /\ row.project = q.project
    OBVIOUS
  <2>. HIDE DEF row
  <2>3. q.project \in Projects /\ OrgOf(q) = project[q.project].org
    BY <1>14, <1>b DEF CreateProjectInvitation, Suits, OrgOf
  <2>4. project[q.project].state = "live" => \A o \in Orgs : row.org = o => org[o] = "live"
    BY <1>a, <2>2, <2>3 DEF ProjectsGo
  <2>5. OrgInvitesGo' /\ ProjectInvitesGo'
    BY <1>c, <1>f, <2>1, <2>2, <2>4 DEF tables
  <2>. QED BY <1>c, <2>1, <2>5 DEF tables
<1>15. CASE AcceptOrgInvitation(c)
  <2>. DEFINE i == q.invite
  <2>1. /\ At(c, "AcceptOrgInvitation") /\ UpsertOrgMember(invite[i].org, By(c), invite[i].role)
        /\ MarkAccepted(i) /\ UNCHANGED <<user, org, default, project, pmember>>
    BY <1>15 DEF AcceptOrgInvitation
  <2>2. i \in Invites /\ invite[i] # NoInvite /\ invite[i].status = "pending" /\ HoldsLock(c)
    BY <2>1, Holder DEF LockInv, HoldsLock
  <2>3. invite[i].table = "org" /\ By(c) \in Users
    <3>1. Todo(c) = {"AcceptOrgInvitation"} /\ Served(c) /\ By(c) \in Users
      BY <1>b, <2>1 DEF Reads
    <3>. QED BY <3>1 DEF Served
  <2>4. invite[i].org \in Orgs /\ invite[i].role \in OrgRoles
    BY <1>a, <2>2, <2>3, InviteTypes
  <2>5. ThereIs(i) /\ \A j \in Invites : ThereIs(j)' => ThereIs(j)
    <3>1. ThereIs(i)
      BY <2>2 DEF ThereIs, Statuses
    <3>2. invite' = [invite EXCEPT ![i].status = "accepted"]
      BY <2>1 DEF MarkAccepted
    <3>. HIDE DEF i
    <3>. QED BY <2>2, <3>1, <3>2, SameStatus DEF Statuses
  <2>. HIDE DEF i
  <2>6. MembersGo' /\ DefaultsGo'
    BY <1>a, <2>1, <2>3, <2>4, UpsertKeeps
  <2>7. OrgInvitesGo' /\ ProjectInvitesGo'
    BY <1>e, <2>1, <2>5
  <2>. QED BY <1>c, <2>1, <2>6, <2>7
<1>16. CASE AcceptProjectInvitation(c)
  <2>. DEFINE i == q.invite
  <2>1. /\ At(c, "AcceptProjectInvitation")
        /\ UpsertProjectMember(invite[i].project, By(c), invite[i].role)
        /\ MarkAccepted(i) /\ UNCHANGED <<user, org, member, default, project>>
    BY <1>16 DEF AcceptProjectInvitation
  <2>2. i \in Invites /\ invite[i] # NoInvite /\ invite[i].status = "pending" /\ HoldsLock(c)
    BY <2>1, Holder DEF LockInv, HoldsLock
  <2>3. invite[i].table = "project" /\ By(c) \in Users
    <3>1. Todo(c) = {"AcceptProjectInvitation"} /\ Served(c) /\ By(c) \in Users
      BY <1>b, <2>1 DEF Reads
    <3>. QED BY <3>1 DEF Served
  <2>4. invite[i].project \in Projects
    BY <1>a, <2>2, <2>3, InviteTypes
  <2>5. ThereIs(i) /\ \A j \in Invites : ThereIs(j)' => ThereIs(j)
    <3>1. ThereIs(i)
      BY <2>2 DEF ThereIs, Statuses
    <3>2. invite' = [invite EXCEPT ![i].status = "accepted"]
      BY <2>1 DEF MarkAccepted
    <3>. HIDE DEF i
    <3>. QED BY <2>2, <3>1, <3>2, SameStatus DEF Statuses
  <2>. HIDE DEF i
  <2>6. ProjectMembersGo'
    BY <1>a, <2>1, <2>3, <2>4, UpsertProjectKeeps
  <2>7. OrgInvitesGo' /\ ProjectInvitesGo'
    BY <1>e, <2>1, <2>5
  <2>. QED BY <1>c, <2>1, <2>6, <2>7
<1>17. CASE SetOrgInvitationStatus(c) \/ SetProjectInvitationStatus(c)
  <2>. DEFINE i == q.invite
  <2>1. SetStatus(c, "declined") /\ UNCHANGED <<tables, joined>>
        /\ invite' = [invite EXCEPT ![i].status = IF ThereIs(i) THEN "declined" ELSE @]
    BY <1>17 DEF SetOrgInvitationStatus, SetProjectInvitationStatus, SetStatus
  <2>2. i \in Invites
    BY <1>17, <1>b DEF SetOrgInvitationStatus, SetProjectInvitationStatus, Suits
  <2>3. \A j \in Invites : ThereIs(j)' => ThereIs(j)
    <3>. HIDE DEF i
    <3>1. CASE ThereIs(i)
      <4>1. invite[i] # NoInvite
        BY <3>1 DEF ThereIs, NoInvite, Statuses
      <4>2. invite' = [invite EXCEPT ![i].status = "declined"]
        BY <2>1, <3>1
      <4>. QED BY <2>2, <3>1, <4>1, <4>2, SameStatus DEF Statuses
    <3>2. CASE ~ThereIs(i)
      <4>1. invite'[i] = [invite[i] EXCEPT !.status = invite[i].status]
            /\ \A j \in Invites \ {i} : invite'[j] = invite[j]
        BY <1>a, <2>1, <2>2, <3>2
      <4>2. [invite[i] EXCEPT !.status = invite[i].status].status = invite[i].status
        BY <1>a, <2>2 DEF InviteRows, NoInvite
      <4>. QED BY <4>1, <4>2 DEF ThereIs
    <3>. QED BY <3>1, <3>2
  <2>4. OrgInvitesGo' /\ ProjectInvitesGo'
    BY <1>e, <2>1, <2>3 DEF tables
  <2>. QED BY <1>c, <2>1, <2>4 DEF tables
<1>. QED BY <1>1, <1>2, <1>3, <1>4, <1>5, <1>6, <1>7, <1>8, <1>9, <1>10, <1>11, <1>12, <1>13,
             <1>14, <1>15, <1>16, <1>17 DEF Writing

\* Every step keeps NothingOutlives.
LEMMA OutliveStep ==
  TypeInv /\ LockInv /\ NothingOutlives /\ [Next]_vars => NothingOutlives'
<1>. SUFFICES ASSUME TypeInv, LockInv, NothingOutlives, [Next]_vars PROVE NothingOutlives'
  OBVIOUS
<1>a. ASSUME UNCHANGED <<org, member, default, project, pmember, invite>>
      PROVE  NothingOutlives'
  BY <1>a DEF NothingOutlives, ThereIs
<1>1. ASSUME NEW c \in Calls, NEW h \in DOMAIN Handlers, NEW q \in Requests(h), Receive(c, q)
      PROVE  NothingOutlives'
  BY <1>1, <1>a DEF Receive
<1>2. ASSUME NEW c \in Calls, ServeStep(c)
      PROVE  NothingOutlives'
  <2>1. CASE \E f \in Reads : Reading(c, f)
    BY <2>1, <1>a DEF Reading, tables
  <2>2. CASE Answering(c)
    BY <2>2, <1>a DEF Answering, tables
  <2>. QED BY <1>2, <2>1, <2>2, ServeKinds, OutliveWrite DEF Kinds
<1>3. ASSUME UNCHANGED <<tables, invite, joined, requests>>
      PROVE  NothingOutlives'
  BY <1>3, <1>a DEF tables
<1>4. ASSUME NEW i \in Invites, Expire(i)
      PROVE  NothingOutlives'
  <2>1. UNCHANGED tables /\ invite \in [Invites -> InviteRows]
        /\ invite' = [invite EXCEPT ![i] = [invite[i] EXCEPT !.expired = TRUE]]
    BY <1>4 DEF Expire, TypeInv, TablesOK
  <2>2. LET row == [invite[i] EXCEPT !.expired = TRUE] IN
        row.status = invite[i].status /\ row.org = invite[i].org /\ row.project = invite[i].project
    BY <2>1 DEF InviteRows, NoInvite
  <2>3. \A j \in Invites : /\ invite'[j].status = invite[j].status
                           /\ invite'[j].org = invite[j].org
                           /\ invite'[j].project = invite[j].project
    BY <2>1, <2>2
  <2>. QED BY <2>1, <2>3 DEF NothingOutlives, ThereIs, tables
<1>5. CASE UNCHANGED vars
  BY <1>5, <1>a DEF vars, tables
<1>. QED BY <1>1, <1>2, <1>3, <1>4, <1>5 DEF Next, NextOf, Serve

(* NothingOutlives: whatever requests and deletions interleave, no           *)
(* membership, default, project or invitation refers to an organization or a *)
(* project that is deleted.                                                  *)
THEOREM NothingOutlivesDeletion == Spec => []NothingOutlives
<1>1. Init => NothingOutlives
  BY DEF Init, NothingOutlives, ThereIs, Statuses, NoInvite, NoProject
<1>. QED BY TypeInit, TypeStep, LockInit, LockStep, OutliveStep, <1>1, PTL DEF Spec

-----------------------------------------------------------------------------
(* Who is entitled to what a request writes *)

\* The handler of the request locks an invitation before it writes.
Locks(c) == "LockInvitation" \in Elems(Handlers[Arg(c).handler].calls)

\* The caller was entitled, or a check that only lets the entitled through is
\* still to come.
Vetted(c) ==
  LET h == Handlers[Arg(c).handler] IN
  \/ held[c]
  \/ h.who = "role" /\ "GetOrgMemberRole" \in Todo(c)
     /\ (h.project # {} => "GetProjectMemberRole" \in Todo(c))
  \/ h.who = "role" /\ "GetProjectMemberRole" \in Todo(c)
  \/ h.who = "invitee" /\ Locks(c) /\ "LockInvitation" \in Todo(c)
  \/ h.who = "invitee" /\ ~Locks(c)
     /\ Todo(c) \cap {"GetOrgInvitation", "GetProjectInvitation"} # {}

\* Every request being served is vetted.
HeldInv == \A c \in Calls : call[c] # Idle => Vetted(c)

\* What a role entitles to, and what an invitation does.
LEMMA EntitledBy ==
  ASSUME NEW c \in Calls
  PROVE  LET q == Arg(c)  h == Handlers[q.handler] IN
         /\ h.who = "anyone" => Entitled(c)
         /\ h.who \in {"role", "platform"} /\ q.claim => Entitled(c)
         /\ h.who = "role" /\ OrgOf(q) # None /\ member[OrgOf(q)][q.by] \in h.org => Entitled(c)
         /\ h.who = "role" /\ q.project # None /\ pmember[q.project][q.by] \in h.project
              => Entitled(c)
         /\ h.who = "invitee" /\ invite[q.invite].to = q.by /\ ~Locks(c) => Entitled(c)
         /\ h.who = "invitee" /\ invite[q.invite].to = q.by
            /\ invite[q.invite].status = "pending" /\ ~invite[q.invite].expired => Entitled(c)
BY DEF Entitled, Locks, Elems

\* Entitlement is read off the tables and the request.
LEMMA SameEntitled ==
  ASSUME NEW c \in Calls, UNCHANGED <<tables, invite>>, Arg(c)' = Arg(c), Entitled(c)
  PROVE  Entitled(c)'
<1>1. Arg(c)' = Arg(c) /\ UNCHANGED <<user, member, project, pmember, invite>>
  BY DEF tables
<1>2. OrgOf(Arg(c))' = OrgOf(Arg(c))
  BY <1>1 DEF OrgOf
<1>. QED BY <1>1, <1>2 DEF Entitled

\* A check that lets a request through finds its caller entitled.
LEMMA CheckedIs ==
  ASSUME TypeInv, NEW c \in Calls, NEW f, Reading(c, f)
  PROVE  LET h == Handlers[Arg(c).handler] IN
         /\ h.who = "role" /\ f = "GetOrgMemberRole" /\ orgRoleAtLeast(c) => Entitled(c)
         /\ h.who = "role" /\ f = "GetProjectMemberRole" => Entitled(c)
         /\ h.who = "invitee" /\ ~Locks(c) /\ f \in {"GetOrgInvitation", "GetProjectInvitation"}
              => Entitled(c)
         /\ h.who = "invitee" /\ f = "LockInvitation" => Entitled(c)
<1>. DEFINE q == Arg(c)
            h == Handlers[q.handler]
<1>1. Served(c) /\ Suits(f, q) /\ By(c) = q.by /\ At(c, f)
  BY ServedAt DEF Reading, By, Arg
<1>2. ASSUME h.who = "role", f = "GetOrgMemberRole", orgRoleAtLeast(c)
      PROVE  Entitled(c)
  <2>1. CASE call[c].admin
    BY <1>1, <1>2, <2>1, EntitledBy DEF Served
  <2>2. CASE member[OrgOf(q)][By(c)] \in h.org
    <3>1. OrgOf(q) # None
      <4>1. CASE q.project = None
        BY <1>1, <1>2, <4>1 DEF Suits, OrgOf
      <4>2. CASE q.project # None
        <5>1. q.project \in Projects /\ project[q.project] # NoProject
          BY <1>1, <4>2 DEF Served, AnyRequest
        <5>2. project[q.project].org \in Orgs
          BY <5>1 DEF TypeInv, TablesOK, ProjectRows
        <5>. QED BY <4>2, <5>2 DEF OrgOf
      <4>. QED BY <4>1, <4>2
    <3>. QED BY <1>1, <1>2, <2>2, <3>1, EntitledBy
  <2>. QED BY <1>2, <2>1, <2>2 DEF orgRoleAtLeast
<1>3. ASSUME h.who = "role", f = "GetProjectMemberRole"
      PROVE  Entitled(c)
  <2>1. pmember[q.project][By(c)] \in h.project /\ q.project \in Projects
    BY <1>1, <1>3 DEF Reading, Suits
  <2>. QED BY <1>1, <1>3, <2>1, EntitledBy
<1>4. ASSUME h.who = "invitee", ~Locks(c), f \in {"GetOrgInvitation", "GetProjectInvitation"}
      PROVE  Entitled(c)
  <2>1. invite[q.invite].to = q.by
    BY <1>1, <1>4 DEF Reading, Invited
  <2>. QED BY <1>4, <2>1, EntitledBy
<1>5. ASSUME h.who = "invitee", f = "LockInvitation"
      PROVE  Entitled(c)
  <2>1. invite[q.invite].status = "pending" /\ ~invite[q.invite].expired
    BY <1>5 DEF Reading
  <2>2. Todo(c) \cap {"GetOrgInvitation", "GetProjectInvitation"} = {}
    <3>1. Script(call[c].todo) /\ call[c].todo # <<>> /\ Head(call[c].todo) = "LockInvitation"
      BY <1>1, <1>5 DEF Served, At
    <3>2. /\ \A g \in Elems(Tail(call[c].todo)) : g \in Writes
          /\ Todo(c) \ {"LockInvitation"} \subseteq Elems(Tail(call[c].todo))
      BY <3>1, TailIs DEF Todo
    <3>. QED BY <3>2 DEF Writes
  <2>3. Invited(c)
    BY <1>1, <1>5, <2>2, ServedAt DEF Served
  <2>. QED BY <1>1, <1>5, <2>1, <2>3, EntitledBy DEF Invited
<1>. QED BY <1>2, <1>3, <1>4, <1>5

\* A read that lets a request go on leaves it vetted.
LEMMA VettedRead ==
  ASSUME TypeInv, NEW c \in Calls, NEW f, Reading(c, f), Vetted(c), Remember, call'[c] # Idle
  PROVE  Vetted(c)'
<1>. DEFINE h == Handlers[Arg(c).handler]
<1>1. /\ Arg(c)' = Arg(c) /\ UNCHANGED <<tables, invite>>
      /\ Todo(c) \ {f, "GetProjectMemberRole"} \subseteq Todo(c)'
      /\ \/ Todo(c) \ {f} \subseteq Todo(c)'
         \/ f = "GetOrgMemberRole" /\ orgRoleAtLeast(c)
  BY DEF Reading, Arg, Todo
<1>2. Locks(c)' = Locks(c)
  BY <1>1 DEF Locks
<1>3. held'[c] <=> held[c] \/ Entitled(c)'
  BY DEF Remember
<1>4. CASE held[c] \/ Entitled(c)
  <2>1. held'[c]
    BY <1>1, <1>3, <1>4, SameEntitled
  <2>. QED BY <2>1 DEF Vetted
<1>5. CASE ~held[c] /\ ~Entitled(c)
  <2>1. CASE h.who = "role" /\ f = "GetOrgMemberRole"
    <3>1. ~orgRoleAtLeast(c)
      BY <1>5, <2>1, CheckedIs
    <3>2. h.project # {} /\ Todo(c) \ {f} \subseteq Todo(c)'
      BY <1>1, <2>1, <3>1 DEF Reading
    <3>3. "GetProjectMemberRole" \in Todo(c)'
      BY <1>5, <2>1, <3>2 DEF Vetted
    <3>. QED BY <1>1, <2>1, <3>3 DEF Vetted
  <2>2. CASE h.who = "role" /\ f # "GetOrgMemberRole"
    <3>1. f # "GetProjectMemberRole" /\ Todo(c) \ {f} \subseteq Todo(c)'
      BY <1>1, <1>5, <2>2, CheckedIs
    <3>. QED BY <1>1, <1>5, <2>2, <3>1 DEF Vetted
  <2>3. CASE h.who = "invitee"
    <3>1. /\ f # "LockInvitation"
          /\ Locks(c) \/ f \notin {"GetOrgInvitation", "GetProjectInvitation"}
      BY <1>5, <2>3, CheckedIs
    <3>. QED BY <1>1, <1>2, <1>5, <2>3, <3>1 DEF Vetted
  <2>. QED BY <1>5, <2>1, <2>2, <2>3 DEF Vetted
<1>. QED BY <1>4, <1>5

\* A write is the last call of its request.
LEMMA WriteIsLast ==
  ASSUME TypeInv, NEW c \in Calls, Writing(c)
  PROVE  call[c] # Idle /\ Todo(c) \cap Reads = {}
<1>1. \E f \in Writes : At(c, f)
  <2>1. CASE \/ SetUserAdmin(c) \/ CreateOrganization(c) \/ SetDefaultOrg(c)
             \/ AddOrgMember(c) \/ RemoveOrgMember(c) \/ UpdateOrgMemberRole(c)
    BY <2>1 DEF Writes, SetUserAdmin, CreateOrganization, SetDefaultOrg, AddOrgMember,
       RemoveOrgMember, UpdateOrgMemberRole
  <2>2. CASE \/ CreateProject(c) \/ UpdateProject(c) \/ UpdateProjectQuotas(c)
             \/ AddProjectMember(c) \/ RemoveProjectMember(c) \/ UpdateProjectMemberRole(c)
    BY <2>2 DEF Writes, CreateProject, UpdateProject, UpdateProjectQuotas, AddProjectMember,
       RemoveProjectMember, UpdateProjectMemberRole
  <2>3. CASE DeleteOrganization(c) \/ DeleteProject(c)
    BY <2>3 DEF Writes, DeleteOrganization, DeleteProject
  <2>4. CASE \/ CreateOrgInvitation(c) \/ CreateProjectInvitation(c)
             \/ AcceptOrgInvitation(c) \/ AcceptProjectInvitation(c)
             \/ SetOrgInvitationStatus(c) \/ SetProjectInvitationStatus(c)
    BY <2>4 DEF Writes, CreateOrgInvitation, CreateProjectInvitation, AcceptOrgInvitation,
       AcceptProjectInvitation, SetOrgInvitationStatus, SetProjectInvitationStatus
  <2>. QED BY <2>1, <2>2, <2>3, <2>4 DEF Writing
<1>2. PICK f \in Writes : At(c, f)
  BY <1>1
<1>3. f \notin Reads
  BY DEF Writes, Reads
<1>. QED BY <1>2, <1>3, ServedAt

\* A request just received has its checks before it.
LEMMA VettedReceived ==
  ASSUME TypeInv, NEW c \in Calls, NEW h \in DOMAIN Handlers, NEW q \in Requests(h),
         Receive(c, q), Remember, call'[c] # Idle
  PROVE  Vetted(c)'
<1>1. /\ call'[c] = Fresh(q, Handlers[h].calls, user'[q.by] = "admin")
      /\ Handlers[h].who = "platform" => q.claim
      /\ q.handler = h
  BY Received
<1>2. Arg(c)' = q /\ Todo(c)' = Elems(Handlers[h].calls)
  <2>1. Fresh(q, Handlers[h].calls, user'[q.by] = "admin").req = q
        /\ Fresh(q, Handlers[h].calls, user'[q.by] = "admin").todo = Handlers[h].calls
    BY DEF Fresh, Idle
  <2>. QED BY <1>1, <2>1 DEF Arg, Todo
<1>3. Guarded(h, Todo(c)') /\ (Locks(c)' => "LockInvitation" \in Todo(c)')
  BY <1>1, <1>2, HandlersWellFormed DEF WellFormed, Locks
<1>4. CASE Handlers[h].who \in {"anyone", "platform"}
  <2>1. Entitled(c)'
    BY <1>1, <1>2, <1>4 DEF Entitled
  <2>2. held'[c]
    BY <2>1 DEF Remember
  <2>. QED BY <2>2 DEF Vetted
<1>5. CASE Handlers[h].who = "role"
  BY <1>1, <1>2, <1>3, <1>5 DEF Guarded, Vetted
<1>6. CASE Handlers[h].who = "invitee"
  BY <1>1, <1>2, <1>3, <1>6 DEF Guarded, Vetted
<1>. QED BY <1>3, <1>4, <1>5, <1>6 DEF Guarded

\* The calls that go on as they were stay vetted.
LEMMA StillVetted ==
  ASSUME HeldInv, Remember \/ held' = held, NEW d \in Calls, call'[d] = call[d], call[d] # Idle
  PROVE  Vetted(d)'
<1>1. Arg(d)' = Arg(d) /\ Todo(d)' = Todo(d) /\ Locks(d)' = Locks(d)
  BY DEF Arg, Todo, Locks
<1>2. held[d] => held'[d]
  BY DEF Remember
<1>. QED BY <1>1, <1>2 DEF HeldInv, Vetted

\* Every step keeps all requests vetted.
LEMMA HeldStep == TypeInv /\ HeldInv /\ [Next]_vars => HeldInv'
<1>. SUFFICES ASSUME TypeInv, HeldInv, [Next]_vars PROVE HeldInv'
  OBVIOUS
<1>a. ASSUME NEW c \in Calls, Remember, \A d \in Calls \ {c} : call'[d] = call[d],
             call'[c] # Idle => Vetted(c)'
      PROVE  HeldInv'
  BY <1>a, StillVetted DEF HeldInv
<1>b. ASSUME NEW c \in Calls, Remember, Answer(c)
      PROVE  HeldInv'
  <2>1. call'[c] = Idle /\ \A d \in Calls \ {c} : call'[d] = call[d]
    BY <1>b DEF Answer, TypeInv
  <2>. QED BY <1>a, <1>b, <2>1
<1>1. ASSUME NEW c \in Calls, NEW h \in DOMAIN Handlers, NEW q \in Requests(h),
             Receive(c, q), Remember
      PROVE  HeldInv'
  BY <1>1, <1>a, Received, VettedReceived
<1>2. ASSUME NEW c \in Calls, ServeStep(c), Remember
      PROVE  HeldInv'
  <2>1. CASE \E f \in Reads : Reading(c, f)
    <3>1. PICK f \in Reads : Reading(c, f)
      BY <2>1
    <3>2. call[c] # Idle /\ \A d \in Calls \ {c} : call'[d] = call[d]
      BY <3>1, ServedAt DEF Reading
    <3>. QED BY <1>2, <1>a, <3>1, <3>2, VettedRead DEF HeldInv
  <2>2. CASE Answering(c)
    BY <1>2, <2>2, <1>b DEF Answering
  <2>3. CASE Writing(c)
    BY <1>2, <2>3, <1>b, WriteTypes
  <2>. QED BY <1>2, <2>1, <2>2, <2>3, ServeKinds DEF Kinds
<1>3. ASSUME NEW c \in Calls, Fail(c), Remember
      PROVE  HeldInv'
  BY <1>3, <1>b DEF Fail
<1>4. ASSUME NEW i \in Invites, Expire(i), Remember
      PROVE  HeldInv'
  BY <1>4, StillVetted DEF HeldInv, Expire
<1>5. CASE UNCHANGED vars
  BY <1>5, StillVetted DEF HeldInv, vars
<1>. QED BY <1>1, <1>2, <1>3, <1>4, <1>5 DEF Next, NextOf, Serve

(* ServedAsEntitled: the caller of every request that changes a table was    *)
(* entitled to it at some moment of the request, though rbac.go reads the    *)
(* roles in queries of their own and anybody may change them in between.     *)
THEOREM OnlyTheEntitledWrite == Spec => ServedAsEntitled
<1>1. Init => HeldInv
  BY DEF Init, HeldInv
<1>2. ASSUME TypeInv, HeldInv, [Next]_vars
      PROVE  [\A c \in Calls : call[c] # Idle /\ call'[c] = Idle
                 /\ <<tables, invite>>' # <<tables, invite>> => held[c]]_vars
  <2>. SUFFICES ASSUME NEW c \in Calls, call[c] # Idle, call'[c] = Idle,
                       <<tables, invite>>' # <<tables, invite>>, Next
                PROVE  held[c]
    BY <1>2 DEF vars
  <2>1. ASSUME NEW d \in Calls, NEW h \in DOMAIN Handlers, NEW q \in Requests(h), Receive(d, q)
        PROVE  FALSE
    BY <1>2, <2>1, Received
  <2>2. ASSUME NEW d \in Calls, ServeStep(d)
        PROVE  held[c]
    <3>1. Writing(d)
      BY <1>2, <2>2, ServeKinds DEF Kinds, Reading, Answering
    <3>2. d = c
      <4>1. Answer(d)
        BY <1>2, <3>1, WriteTypes
      <4>. QED BY <1>2, <4>1 DEF Answer, TypeInv
    <3>3. Todo(c) \cap Reads = {}
      BY <1>2, <3>1, <3>2, WriteIsLast
    <3>. QED BY <1>2, <3>3 DEF HeldInv, Vetted, Reads
  <2>3. ASSUME UNCHANGED <<tables, invite, joined, requests>>
        PROVE  FALSE
    BY <2>3
  <2>4. ASSUME NEW i \in Invites, Expire(i)
        PROVE  FALSE
    BY <2>4 DEF Expire
  <2>. QED BY <2>1, <2>2, <2>3, <2>4 DEF Next, NextOf, Serve
<1>. QED BY TypeInit, TypeStep, HeldStep, <1>1, <1>2, PTL DEF Spec, ServedAsEntitled

-----------------------------------------------------------------------------
(* The default organization of a user *)

\* A user has one default organization at most.
OneFor(u) == \A o, p \in default[u] : o = p

\* The calls that may write the default of u are one.
Alone(u) ==
  \A c, d \in Calls : WritesDefault(c) /\ WritesDefault(d) /\ By(c) = u /\ By(d) = u => c = d

\* What the transaction has read or cleared still holds.
Prepared(c) ==
  /\ "CreateOrganization" \in Todo(c) =>
       "CheckDefaultOrg" \in Todo(c) \/ call[c].hasDefault \/ default[By(c)] = {}
  /\ "SetDefaultOrg" \in Todo(c) =>
       "ClearDefaults" \in Todo(c) \/ default[By(c)] \subseteq call[c].rows

\* The calls that write a default are those WritesDefault counts.
Routed(c) == Todo(c) \cap {"CreateOrganization", "SetDefaultOrg"} # {} => WritesDefault(c)

\* A user none of whose calls raced has one default at most and one call that may
\* write it, and what that call has found out still holds.
DefaultInv ==
  /\ \A u \in Users \ raced : OneFor(u) /\ Alone(u)
  /\ \A c \in Calls : call[c] # Idle => Routed(c) /\ (By(c) \notin raced => Prepared(c))

\* What a write makes of the defaults: only those of its caller grow.
DefaultsMove(c) ==
  \A u \in Users :
    \/ default'[u] \subseteq default[u]
    \/ /\ u = By(c) /\ Todo(c) = {"CreateOrganization"} /\ ~call[c].hasDefault
       /\ \E o \in Orgs : default'[u] = default[u] \cup {o}
    \/ /\ u = By(c) /\ Todo(c) = {"SetDefaultOrg"}
       /\ \E o \in Orgs : default'[u] = (default[u] \ call[c].rows) \cup {o}

\* Every write moves the defaults as DefaultsMove says.
LEMMA WritesMove ==
  ASSUME TypeInv, NEW c \in Calls, Writing(c)
  PROVE  DefaultsMove(c)
<1>a. default \in [Users -> SUBSET Orgs]
  BY DEF TypeInv, TablesOK
<1>1. CASE UNCHANGED default
  BY <1>1 DEF DefaultsMove
<1>2. CASE CreateOrganization(c)
  <2>1. Todo(c) = {"CreateOrganization"}
    BY <1>2, ServedAt DEF CreateOrganization, Reads
  <2>2. PICK o \in Orgs : default' = [default EXCEPT ![By(c)] =
                                        IF call[c].hasDefault THEN @ ELSE @ \cup {o}]
    BY <1>2 DEF CreateOrganization
  <2>3. \A u \in Users : default'[u] = IF u = By(c) /\ ~call[c].hasDefault
                                       THEN default[u] \cup {o} ELSE default[u]
    BY <1>a, <2>2
  <2>. QED BY <2>1, <2>3 DEF DefaultsMove
<1>3. CASE SetDefaultOrg(c) /\ ~UNCHANGED default
  <2>1. Todo(c) = {"SetDefaultOrg"} /\ Arg(c).org \in Orgs
    BY <1>3, ServedAt DEF SetDefaultOrg, Reads, Suits
  <2>2. default' = [default EXCEPT ![By(c)] = (@ \ call[c].rows) \cup {Arg(c).org}]
    BY <1>3 DEF SetDefaultOrg
  <2>3. \A u \in Users : default'[u] = IF u = By(c)
                                       THEN (default[u] \ call[c].rows) \cup {Arg(c).org}
                                       ELSE default[u]
    BY <1>a, <2>2
  <2>. QED BY <2>1, <2>3 DEF DefaultsMove
<1>4. CASE RemoveOrgMember(c)
  <2>1. \A u \in Users : default'[u] \subseteq default[u]
    BY <1>4, <1>a DEF RemoveOrgMember
  <2>. QED BY <2>1 DEF DefaultsMove
<1>5. CASE DeleteOrganization(c)
  <2>1. \A u \in Users : default'[u] \subseteq default[u]
    BY <1>5 DEF DeleteOrganization
  <2>. QED BY <2>1 DEF DefaultsMove
<1>6. CASE \/ SetUserAdmin(c) \/ AddOrgMember(c) \/ UpdateOrgMemberRole(c)
           \/ CreateProject(c) \/ UpdateProject(c) \/ UpdateProjectQuotas(c)
           \/ AddProjectMember(c) \/ RemoveProjectMember(c) \/ UpdateProjectMemberRole(c)
  BY <1>6, <1>1 DEF SetUserAdmin, AddOrgMember, UpdateOrgMemberRole, CreateProject, UpdateProject,
     UpdateProjectQuotas, AddProjectMember, RemoveProjectMember, UpdateProjectMemberRole
<1>7. CASE \/ DeleteProject(c) \/ CreateOrgInvitation(c) \/ CreateProjectInvitation(c)
           \/ AcceptOrgInvitation(c) \/ AcceptProjectInvitation(c)
           \/ SetOrgInvitationStatus(c) \/ SetProjectInvitationStatus(c)
  BY <1>7, <1>1 DEF DeleteProject, CreateOrgInvitation, CreateProjectInvitation, tables,
     AcceptOrgInvitation, AcceptProjectInvitation, SetOrgInvitationStatus,
     SetProjectInvitationStatus, SetStatus
<1>. QED BY <1>1, <1>2, <1>3, <1>4, <1>5, <1>6, <1>7 DEF Writing

\* Calls that go on as they were stay prepared while the default does not grow.
LEMMA StillPrepared ==
  ASSUME NEW d \in Calls, call'[d] = call[d], call[d] # Idle,
         Routed(d), default'[By(d)] \subseteq default[By(d)]
  PROVE  Routed(d)' /\ (Prepared(d) => Prepared(d)')
<1>1. Todo(d)' = Todo(d) /\ By(d)' = By(d) /\ WritesDefault(d)' = WritesDefault(d)
  BY DEF Todo, By, WritesDefault, Arg
<1>. QED BY <1>1 DEF Routed, Prepared

\* A read keeps, or makes true, what a request has prepared.
LEMMA DefaultRead ==
  ASSUME TypeInv, DefaultsGo, NEW c \in Calls, NEW f, Reading(c, f), Routed(c), call'[c] # Idle
  PROVE  Routed(c)' /\ (Prepared(c) => Prepared(c)')
<1>1. /\ Arg(c)' = Arg(c) /\ By(c)' = By(c) /\ default' = default
      /\ Todo(c)' \subseteq Todo(c) /\ By(c) \in Users /\ call[c] # Idle
      /\ Todo(c) \ {f, "GetProjectMemberRole"} \subseteq Todo(c)'
  BY ServedAt DEF Reading, Arg, By, Todo, tables, Served, AnyRequest
<1>2. Routed(c)'
  BY <1>1 DEF Routed, WritesDefault
<1>3. ASSUME Prepared(c)
      PROVE  Prepared(c)'
  <2>1. "CreateOrganization" \in Todo(c)' =>
          "CheckDefaultOrg" \in Todo(c)' \/ call'[c].hasDefault \/ default[By(c)] = {}
    <3>1. CASE f = "CheckDefaultOrg"
      BY <3>1 DEF Reading
    <3>2. CASE f # "CheckDefaultOrg"
      <4>1. call'[c].hasDefault = call[c].hasDefault
        BY <3>2 DEF Reading
      <4>. QED BY <1>1, <1>3, <3>2, <4>1 DEF Prepared
    <3>. QED BY <3>1, <3>2
  <2>2. "SetDefaultOrg" \in Todo(c)' =>
          "ClearDefaults" \in Todo(c)' \/ default[By(c)] \subseteq call'[c].rows
    <3>1. CASE f = "ClearDefaults"
      <4>1. call'[c].rows = {o \in Orgs : member[o][By(c)] # "none"}
        BY <3>1 DEF Reading
      <4>. QED BY <1>1, <4>1 DEF DefaultsGo, TypeInv, TablesOK
    <3>2. CASE f # "ClearDefaults"
      <4>1. call'[c].rows = call[c].rows
        BY <3>2 DEF Reading
      <4>. QED BY <1>1, <1>3, <3>2, <4>1 DEF Prepared
    <3>. QED BY <3>1, <3>2
  <2>. QED BY <1>1, <2>1, <2>2 DEF Prepared
<1>. QED BY <1>2, <1>3

\* A request just received has its preparations before it.
LEMMA DefaultReceived ==
  ASSUME TypeInv, NEW c \in Calls, NEW h \in DOMAIN Handlers, NEW q \in Requests(h),
         Receive(c, q), call'[c] # Idle
  PROVE  Routed(c)' /\ Prepared(c)'
<1>1. call'[c] = Fresh(q, Handlers[h].calls, user'[q.by] = "admin") /\ q.handler = h
  BY Received
<1>2. Arg(c)' = q /\ Todo(c)' = Elems(Handlers[h].calls)
  <2>1. Fresh(q, Handlers[h].calls, user'[q.by] = "admin").req = q
        /\ Fresh(q, Handlers[h].calls, user'[q.by] = "admin").todo = Handlers[h].calls
    BY DEF Fresh, Idle
  <2>. QED BY <1>1, <2>1 DEF Arg, Todo
<1>3. Guarded(h, Todo(c)')
  BY <1>2, HandlersWellFormed DEF WellFormed
<1>. QED BY <1>1, <1>2, <1>3 DEF Guarded, Routed, Prepared, WritesDefault

\* The write of a call whose user has no other call that writes the default.
LEMMA DefaultWritten ==
  ASSUME TypeInv, DefaultInv, NEW c \in Calls, Writing(c), Remember
  PROVE  DefaultInv'
<1>1. /\ DefaultsMove(c) /\ call[c] # Idle /\ call'[c] = Idle
      /\ \A d \in Calls \ {c} : call'[d] = call[d]
  BY WritesMove, WriteTypes DEF Answer, TypeInv
<1>2. raced \subseteq raced'
      /\ \A u \in Users \ raced' : Alone(u)'
  BY DEF Remember, Alone
<1>3. ASSUME NEW u \in Users \ raced'
      PROVE  OneFor(u)'
  <2>1. u \in Users \ raced /\ OneFor(u)
    BY <1>2, <1>3 DEF DefaultInv
  <2>2. CASE default'[u] \subseteq default[u]
    BY <2>1, <2>2 DEF OneFor
  <2>3. CASE u = By(c) /\ Todo(c) = {"CreateOrganization"} /\ ~call[c].hasDefault
             /\ \E o \in Orgs : default'[u] = default[u] \cup {o}
    <3>1. default[u] = {}
      BY <1>1, <2>1, <2>3 DEF DefaultInv, Prepared
    <3>. QED BY <2>3, <3>1 DEF OneFor
  <2>4. CASE u = By(c) /\ Todo(c) = {"SetDefaultOrg"}
             /\ \E o \in Orgs : default'[u] = (default[u] \ call[c].rows) \cup {o}
    <3>1. default[u] \subseteq call[c].rows
      BY <1>1, <2>1, <2>4 DEF DefaultInv, Prepared
    <3>. QED BY <2>4, <3>1 DEF OneFor
  <2>. QED BY <1>1, <2>1, <2>2, <2>3, <2>4 DEF DefaultsMove
<1>4. ASSUME NEW d \in Calls, call'[d] # Idle
      PROVE  Routed(d)' /\ (By(d)' \notin raced' => Prepared(d)')
  <2>1. d # c /\ call'[d] = call[d] /\ Routed(d) /\ (By(d) \notin raced => Prepared(d))
    BY <1>1, <1>4 DEF DefaultInv
  <2>2. By(d)' = By(d) /\ Todo(d)' = Todo(d) /\ WritesDefault(d)' = WritesDefault(d)
        /\ By(d) \in Users
    BY <1>4, <2>1 DEF By, Todo, WritesDefault, Arg, TypeInv, Served, AnyRequest
  <2>3. CASE default'[By(d)] \subseteq default[By(d)]
    BY <1>2, <1>4, <2>1, <2>2, <2>3, StillPrepared
  <2>4. CASE ~(default'[By(d)] \subseteq default[By(d)])
    <3>1. By(d) = By(c) /\ WritesDefault(c)
      BY <1>1, <2>2, <2>4 DEF DefaultsMove, DefaultInv, Routed
    <3>2. By(d) \notin raced => ~WritesDefault(d)
      BY <2>1, <2>2, <3>1 DEF DefaultInv, Alone
    <3>3. Routed(d)'
      BY <2>1, <2>2 DEF Routed
    <3>4. By(d)' \notin raced' => Prepared(d)'
      BY <1>2, <2>1, <2>2, <3>2 DEF Routed, Prepared
    <3>. QED BY <3>3, <3>4
  <2>. QED BY <2>3, <2>4
<1>. QED BY <1>2, <1>3, <1>4 DEF DefaultInv

\* Every step keeps the invariant of the defaults.
LEMMA DefaultStep ==
  TypeInv /\ NothingOutlives /\ DefaultInv /\ [Next]_vars => DefaultInv'
<1>. SUFFICES ASSUME TypeInv, NothingOutlives, DefaultInv, [Next]_vars PROVE DefaultInv'
  OBVIOUS
\* Steps that leave the defaults: only the call that moves needs a look.
<1>a. ASSUME NEW c \in Calls, default' = default, Remember \/ (raced' = raced /\ call' = call),
             \A d \in Calls \ {c} : call'[d] = call[d],
             call'[c] # Idle => Routed(c)' /\ (By(c)' \notin raced => Prepared(c)')
      PROVE  DefaultInv'
  <2>1. raced \subseteq raced'
    BY <1>a DEF Remember
  <2>2. ASSUME NEW u \in Users \ raced'
        PROVE  OneFor(u)' /\ Alone(u)'
    <3>1. OneFor(u)'
      BY <1>a, <2>1, <2>2 DEF DefaultInv, OneFor
    <3>2. CASE Remember
      BY <2>2, <3>1, <3>2 DEF Remember, Alone
    <3>3. CASE raced' = raced /\ call' = call
      <4>1. Alone(u)
        BY <2>2, <3>3 DEF DefaultInv
      <4>2. Alone(u)'
        BY <3>3, <4>1 DEF Alone, WritesDefault, By, Arg
      <4>. QED BY <3>1, <4>2
    <3>. QED BY <1>a, <3>2, <3>3
  <2>3. ASSUME NEW d \in Calls \ {c}, call'[d] # Idle
        PROVE  Routed(d)' /\ (By(d)' \notin raced' => Prepared(d)')
    <3>1. call'[d] = call[d] /\ Routed(d) /\ (By(d) \notin raced => Prepared(d)) /\ By(d)' = By(d)
      BY <1>a, <2>3 DEF DefaultInv, By
    <3>. QED BY <1>a, <2>1, <2>3, <3>1, StillPrepared
  <2>. QED BY <1>a, <2>1, <2>2, <2>3 DEF DefaultInv
<1>b. ASSUME NEW c \in Calls, Answer(c), default' = default, Remember
      PROVE  DefaultInv'
  <2>1. call'[c] = Idle /\ \A d \in Calls \ {c} : call'[d] = call[d]
    BY <1>b DEF Answer, TypeInv
  <2>. QED BY <1>a, <1>b, <2>1
<1>c. DefaultsGo
  BY PartsOfNothingOutlives
<1>1. ASSUME NEW c \in Calls, NEW h \in DOMAIN Handlers, NEW q \in Requests(h),
             Receive(c, q), Remember
      PROVE  DefaultInv'
  <2>1. default' = default
    BY <1>1 DEF Receive
  <2>2. \A d \in Calls \ {c} : call'[d] = call[d]
    BY <1>1, Received
  <2>3. call'[c] # Idle => Routed(c)' /\ Prepared(c)'
    BY <1>1, DefaultReceived
  <2>. QED BY <1>1, <1>a, <2>1, <2>2, <2>3
<1>2. ASSUME NEW c \in Calls, ServeStep(c), Remember
      PROVE  DefaultInv'
  <2>1. CASE \E f \in Reads : Reading(c, f)
    <3>1. PICK f \in Reads : Reading(c, f)
      BY <2>1
    <3>2. /\ call[c] # Idle /\ default' = default /\ By(c)' = By(c)
          /\ \A d \in Calls \ {c} : call'[d] = call[d]
      BY <3>1, ServedAt DEF Reading, tables, By, Arg
    <3>3. Routed(c) /\ (By(c) \notin raced => Prepared(c))
      BY <3>2 DEF DefaultInv
    <3>4. call'[c] # Idle => Routed(c)' /\ (By(c)' \notin raced => Prepared(c)')
      BY <1>c, <3>1, <3>2, <3>3, DefaultRead
    <3>. QED BY <1>2, <1>a, <3>2, <3>4
  <2>2. CASE Answering(c)
    BY <1>2, <2>2, <1>b DEF Answering, tables
  <2>3. CASE Writing(c)
    BY <1>2, <2>3, DefaultWritten
  <2>. QED BY <1>2, <2>1, <2>2, <2>3, ServeKinds DEF Kinds
<1>3. ASSUME NEW c \in Calls, Fail(c), UNCHANGED tables, Remember
      PROVE  DefaultInv'
  BY <1>3, <1>b DEF Fail, tables
<1>d. ASSUME NEW c \in Calls, call' = call, default' = default, Remember \/ raced' = raced
      PROVE  DefaultInv'
  <2>1. call[c] # Idle => Routed(c) /\ (By(c) \notin raced => Prepared(c))
    BY DEF DefaultInv
  <2>2. By(c)' = By(c)
    BY <1>d DEF By
  <2>3. call'[c] # Idle => Routed(c)' /\ (By(c)' \notin raced => Prepared(c)')
    BY <1>d, <2>1, <2>2, StillPrepared
  <2>. QED BY <1>a, <1>d, <2>3
<1>e. ASSUME call' = call, default' = default, Remember \/ raced' = raced
      PROVE  DefaultInv'
  <2>1. CASE Calls = {}
    <3>1. raced \subseteq raced'
      BY <1>e DEF Remember
    <3>. QED BY <1>e, <2>1, <3>1 DEF DefaultInv, OneFor, Alone
  <2>. QED BY <1>d, <1>e, <2>1
<1>4. ASSUME NEW i \in Invites, Expire(i), Remember
      PROVE  DefaultInv'
  BY <1>4, <1>e DEF Expire, tables
<1>5. CASE UNCHANGED vars
  BY <1>5, <1>e DEF vars, tables
<1>. QED BY <1>1, <1>2, <1>3, <1>4, <1>5 DEF Next, NextOf, Serve

(* OneDefault: a user whose calls that write the default never overlapped    *)
(* has at most one default organization, though CreateOrganization and       *)
(* SetDefaultOrg look and write in statements of their own.                  *)
THEOREM DefaultIsOne == Spec => []OneDefault
<1>1. Init => DefaultInv
  BY DEF Init, DefaultInv, OneFor, Alone, WritesDefault
<1>2. TypeInv /\ DefaultInv => OneDefault
  <2>. SUFFICES ASSUME TypeInv, DefaultInv, NEW u \in Users \ raced
                PROVE  Cardinality(default[u]) <= 1
    BY DEF OneDefault
  <2>1. \A o, p \in default[u] : o = p
    BY DEF DefaultInv, OneFor
  <2>2. CASE default[u] = {}
    BY <2>2, FS_EmptySet
  <2>3. CASE default[u] # {}
    <3>1. PICK o : o \in default[u]
      BY <2>3
    <3>2. default[u] = {o}
      BY <2>1, <3>1
    <3>3. Cardinality({o}) = 1
      BY FS_Singleton
    <3>. QED BY <3>2, <3>3
  <2>. QED BY <2>2, <2>3
<1>3. Init => NothingOutlives
  BY DEF Init, NothingOutlives, ThereIs, Statuses, NoInvite, NoProject
<1>. QED BY TypeInit, TypeStep, LockInit, LockStep, OutliveStep, DefaultStep,
            <1>1, <1>2, <1>3, PTL DEF Spec

(* DefaultKept: only a user who leaves an organization, or whose             *)
(* organization is deleted, loses the default; no choice of another one that *)
(* fails halfway does.                                                       *)
THEOREM DefaultSurvives == Spec => DefaultKept
<1>1. ASSUME TypeInv, [Next]_vars
      PROVE  [\A u \in Users : default[u] # {} /\ default'[u] = {} =>
                 \A o \in default[u] : member'[o][u] = "none"]_vars
  <2>. SUFFICES ASSUME NEW u \in Users, default[u] # {}, default'[u] = {}, Next,
                       NEW o \in default[u]
                PROVE  member'[o][u] = "none"
    BY <1>1
  <2>1. default \in [Users -> SUBSET Orgs] /\ o \in Orgs
        /\ member \in [Orgs -> [Users -> OrgRoles \cup {"none"}]]
    BY <1>1 DEF TypeInv, TablesOK
  <2>2. ASSUME UNCHANGED default
        PROVE  FALSE
    BY <2>2
  <2>3. ASSUME NEW c \in Calls, CreateOrganization(c) \/ SetDefaultOrg(c)
        PROVE  FALSE
    BY <2>1, <2>2, <2>3 DEF CreateOrganization, SetDefaultOrg
  <2>4. ASSUME NEW c \in Calls, RemoveOrgMember(c)
        PROVE  member'[o][u] = "none"
    BY <2>1, <2>4 DEF RemoveOrgMember
  <2>5. ASSUME NEW c \in Calls, DeleteOrganization(c)
        PROVE  member'[o][u] = "none"
    BY <2>1, <2>5 DEF DeleteOrganization
  <2>6. ASSUME NEW c \in Calls, ServeStep(c)
        PROVE  member'[o][u] = "none"
    <3>1. Writing(c)
      BY <1>1, <2>2, <2>6, ServeKinds DEF Kinds, Reading, Answering, tables
    <3>2. CASE \/ SetUserAdmin(c) \/ AddOrgMember(c) \/ UpdateOrgMemberRole(c)
               \/ CreateProject(c) \/ UpdateProject(c) \/ UpdateProjectQuotas(c)
               \/ AddProjectMember(c) \/ RemoveProjectMember(c) \/ UpdateProjectMemberRole(c)
      BY <3>2, <2>2 DEF SetUserAdmin, AddOrgMember, UpdateOrgMemberRole, CreateProject,
         UpdateProject, UpdateProjectQuotas, AddProjectMember, RemoveProjectMember,
         UpdateProjectMemberRole
    <3>3. CASE \/ DeleteProject(c) \/ CreateOrgInvitation(c) \/ CreateProjectInvitation(c)
               \/ AcceptOrgInvitation(c) \/ AcceptProjectInvitation(c)
               \/ SetOrgInvitationStatus(c) \/ SetProjectInvitationStatus(c)
      BY <3>3, <2>2 DEF DeleteProject, CreateOrgInvitation, CreateProjectInvitation, tables,
         AcceptOrgInvitation, AcceptProjectInvitation, SetOrgInvitationStatus,
         SetProjectInvitationStatus, SetStatus
    <3>. QED BY <3>1, <3>2, <3>3, <2>3, <2>4, <2>5 DEF Writing
  <2>7. ASSUME NEW c \in Calls, NEW h \in DOMAIN Handlers, NEW q \in Requests(h), Receive(c, q)
        PROVE  FALSE
    BY <2>2, <2>7 DEF Receive
  <2>. QED BY <2>2, <2>6, <2>7 DEF Next, NextOf, Serve, Expire, tables
<1>. QED BY TypeInit, TypeStep, <1>1, PTL DEF Spec, DefaultKept

-----------------------------------------------------------------------------
(* Quotas *)

\* Only UpdateProjectQuotas changes a quota of a project that is there.
LEMMA QuotaWritten ==
  ASSUME TypeInv, NEW c \in Calls, Writing(c), NEW p \in Projects, NEW f,
         project[p].state = "live", project'[p].quota[f] # project[p].quota[f]
  PROVE  /\ Arg(c).project = p /\ At(c, "UpdateProjectQuotas")
         /\ project'[p].quota = orDefault(Arg(c).ask, call[c].quota)
<1>a. project \in [Projects -> ProjectRows] /\ project[p] \in ProjectRows
  BY DEF TypeInv, TablesOK
<1>b. ASSUME project'[p].quota = project[p].quota
      PROVE  FALSE
  BY <1>b
<1>1. CASE CreateProject(c)
  <2>1. ASSUME NEW x \in Projects, NEW row, project[x].state = "unused",
               project' = [project EXCEPT ![x] = row]
        PROVE  FALSE
    BY <1>a, <1>b, <2>1
  <2>. QED BY <1>1, <1>b, <2>1 DEF CreateProject
<1>2. CASE UpdateProject(c)
  <2>. DEFINE x == Arg(c).project
              row == [project[x] EXCEPT !.name = Arg(c).name]
  <2>1. project' = [project EXCEPT ![x] = row]
    BY <1>2, <1>b DEF UpdateProject
  <2>2. row.quota = project[x].quota \/ x # p
    BY <1>a DEF ProjectRows, NoProject
  <2>. HIDE DEF row
  <2>3. project'[p].quota = project[p].quota
    BY <1>a, <2>1, <2>2
  <2>. QED BY <2>3, <1>b
<1>3. CASE UpdateProjectQuotas(c)
  <2>. DEFINE x == Arg(c).project
              quota == orDefault(Arg(c).ask, call[c].quota)
              row == [project[x] EXCEPT !.quota = quota]
  <2>1. project' = [project EXCEPT ![x] = row]
    BY <1>3, <1>b DEF UpdateProjectQuotas
  <2>2. row.quota = quota \/ x # p
    BY <1>a DEF ProjectRows, NoProject
  <2>. HIDE DEF row, quota
  <2>3. x = p
    BY <1>a, <1>b, <2>1
  <2>4. project'[p].quota = quota
    BY <1>a, <2>1, <2>2, <2>3
  <2>. QED BY <1>3, <2>3, <2>4 DEF quota, UpdateProjectQuotas
<1>4. ASSUME NEW ps, DropProjects(ps)
      PROVE  FALSE
  <2>1. project'[p] = project[p] \/ project'[p] = [project[p] EXCEPT !.state = "gone"]
    BY <1>4 DEF DropProjects
  <2>2. [project[p] EXCEPT !.state = "gone"].quota = project[p].quota
    BY <1>a DEF ProjectRows, NoProject
  <2>. QED BY <1>b, <2>1, <2>2
<1>5. CASE DeleteOrganization(c) \/ DeleteProject(c)
  BY <1>5, <1>4, <1>b DEF DeleteOrganization, DeleteProject
<1>6. CASE \/ SetUserAdmin(c) \/ CreateOrganization(c) \/ SetDefaultOrg(c)
           \/ AddOrgMember(c) \/ RemoveOrgMember(c) \/ UpdateOrgMemberRole(c)
           \/ AddProjectMember(c) \/ RemoveProjectMember(c) \/ UpdateProjectMemberRole(c)
  BY <1>6, <1>b DEF SetUserAdmin, CreateOrganization, SetDefaultOrg, AddOrgMember,
     RemoveOrgMember, UpdateOrgMemberRole, AddProjectMember, RemoveProjectMember,
     UpdateProjectMemberRole
<1>7. CASE \/ CreateOrgInvitation(c) \/ CreateProjectInvitation(c)
           \/ AcceptOrgInvitation(c) \/ AcceptProjectInvitation(c)
           \/ SetOrgInvitationStatus(c) \/ SetProjectInvitationStatus(c)
  BY <1>7, <1>b DEF CreateOrgInvitation, CreateProjectInvitation, tables, AcceptOrgInvitation,
     AcceptProjectInvitation, SetOrgInvitationStatus, SetProjectInvitationStatus, SetStatus
<1>. QED BY <1>1, <1>2, <1>3, <1>5, <1>6, <1>7 DEF Writing

\* A request that is about to write quotas has the quotas of the project as it
\* read them, and those that did not change since are the project's.
CopyInv ==
  \A c \in Calls : "UpdateProjectQuotas" \in Todo(c) =>
    \/ "GetProject" \in Todo(c)
    \/ \A f \in Fields \ overtaken[c] : call[c].quota[f] = project[Arg(c).project].quota[f]

\* What Remember makes of the quotas that overtook a request.
LEMMA OvertakenIs ==
  ASSUME Remember, NEW c \in Calls, "UpdateProjectQuotas" \in Todo(c)',
         "GetProject" \notin Todo(c)'
  PROVE  overtaken'[c] = overtaken[c] \cup Changed(call'[c].req.project)
<1>1. StillTo(c, "UpdateProjectQuotas")' /\ ~StillTo(c, "GetProject")'
  BY DEF StillTo, Todo, Elems
<1>. QED BY <1>1 DEF Remember

\* A request that goes on as it was keeps a good copy, whatever others write.
LEMMA StillCopied ==
  ASSUME TypeInv, CopyInv, Remember \/ UNCHANGED <<overtaken, project>>,
         NEW d \in Calls, call'[d] = call[d],
         "UpdateProjectQuotas" \in Todo(d)', "GetProject" \notin Todo(d)',
         NEW f \in Fields \ overtaken'[d]
  PROVE  call'[d].quota[f] = project'[Arg(d)'.project].quota[f]
<1>1. Todo(d)' = Todo(d) /\ Arg(d)' = Arg(d) /\ call'[d].req = Arg(d)
  BY DEF Todo, Arg
<1>2. /\ f \notin overtaken[d]
      /\ project'[Arg(d).project].quota[f] = project[Arg(d).project].quota[f]
  <2>1. CASE Remember
    <3>1. overtaken'[d] = overtaken[d] \cup Changed(Arg(d).project)
      BY <1>1, <2>1, OvertakenIs
    <3>. QED BY <3>1 DEF Changed
  <2>2. CASE UNCHANGED <<overtaken, project>>
    BY <2>2
  <2>. QED BY <2>1, <2>2
<1>3. call[d].quota[f] = project[Arg(d).project].quota[f]
  BY <1>1, <1>2 DEF CopyInv
<1>. QED BY <1>1, <1>2, <1>3

\* A read leaves the request with a good copy.
LEMMA CopiedByRead ==
  ASSUME TypeInv, CopyInv, Remember, NEW c \in Calls, NEW g, Reading(c, g),
         "UpdateProjectQuotas" \in Todo(c)', "GetProject" \notin Todo(c)',
         NEW f \in Fields \ overtaken'[c]
  PROVE  call'[c].quota[f] = project'[Arg(c)'.project].quota[f]
<1>1. /\ project' = project /\ Arg(c)' = Arg(c) /\ call'[c].req = Arg(c)
      /\ Todo(c)' \subseteq Todo(c) /\ Todo(c) \ {g, "GetProjectMemberRole"} \subseteq Todo(c)'
      /\ call'[c].quota = IF g = "GetProject" THEN project[Arg(c).project].quota
                          ELSE call[c].quota
  BY DEF Reading, Arg, Todo, tables
<1>2. CASE g = "GetProject"
  BY <1>1, <1>2
<1>3. CASE g # "GetProject"
  <2>1. "UpdateProjectQuotas" \in Todo(c) /\ "GetProject" \notin Todo(c)
    BY <1>1, <1>3
  <2>2. f \notin overtaken[c]
    BY OvertakenIs
  <2>3. call[c].quota[f] = project[Arg(c).project].quota[f]
    BY <2>1, <2>2 DEF CopyInv
  <2>. QED BY <1>1, <1>3, <2>3
<1>. QED BY <1>2, <1>3

\* Every step keeps the copies.
LEMMA CopyStep == TypeInv /\ CopyInv /\ [Next]_vars => CopyInv'
<1>. SUFFICES ASSUME TypeInv, CopyInv, [Next]_vars PROVE CopyInv'
  OBVIOUS
<1>. DEFINE Copied(d) ==
       "UpdateProjectQuotas" \in Todo(d)' /\ "GetProject" \notin Todo(d)' =>
         \A f \in Fields \ overtaken'[d] : call'[d].quota[f] = project'[Arg(d)'.project].quota[f]
<1>. SUFFICES \A d \in Calls : Copied(d)
  BY DEF CopyInv
<1>a. ASSUME NEW c \in Calls, Remember, \A d \in Calls \ {c} : call'[d] = call[d], Copied(c)
      PROVE  \A d \in Calls : Copied(d)
  BY <1>a, StillCopied
<1>b. ASSUME NEW c \in Calls, Remember, Answer(c)
      PROVE  \A d \in Calls : Copied(d)
  <2>1. call'[c] = Idle /\ \A d \in Calls \ {c} : call'[d] = call[d]
    BY <1>b DEF Answer, TypeInv
  <2>2. Todo(c)' = {}
    BY <2>1 DEF Todo, Elems, Idle
  <2>. QED BY <1>a, <1>b, <2>1, <2>2
<1>1. ASSUME NEW c \in Calls, NEW h \in DOMAIN Handlers, NEW q \in Requests(h),
             Receive(c, q), Remember
      PROVE  \A d \in Calls : Copied(d)
  <2>1. CASE call' = call
    BY <1>1, <2>1, StillCopied
  <2>2. CASE call'[c] = Fresh(q, Handlers[h].calls, user'[q.by] = "admin")
    <3>1. Fresh(q, Handlers[h].calls, user'[q.by] = "admin").todo = Handlers[h].calls
      BY DEF Fresh, Idle
    <3>2. Todo(c)' = Elems(Handlers[h].calls)
      BY <2>2, <3>1 DEF Todo
    <3>3. Guarded(h, Todo(c)')
      BY <3>2, HandlersWellFormed DEF WellFormed
    <3>4. Copied(c)
      BY <3>3 DEF Guarded
    <3>5. \A d \in Calls \ {c} : call'[d] = call[d]
      BY <1>1, Received
    <3>. HIDE DEF Copied
    <3>. QED BY <1>1, <1>a, <3>4, <3>5
  <2>. QED BY <1>1, <2>1, <2>2, Received
<1>2. ASSUME NEW c \in Calls, ServeStep(c), Remember
      PROVE  \A d \in Calls : Copied(d)
  <2>1. CASE \E g \in Reads : Reading(c, g)
    <3>1. PICK g \in Reads : Reading(c, g)
      BY <2>1
    <3>2. Copied(c)
      BY <1>2, <3>1, CopiedByRead
    <3>3. \A d \in Calls \ {c} : call'[d] = call[d]
      BY <3>1 DEF Reading
    <3>. HIDE DEF Copied
    <3>. QED BY <1>2, <1>a, <3>2, <3>3
  <2>. HIDE DEF Copied
  <2>2. CASE Answering(c)
    BY <1>2, <2>2, <1>b DEF Answering
  <2>3. CASE Writing(c)
    BY <1>2, <2>3, <1>b, WriteTypes
  <2>. QED BY <1>2, <2>1, <2>2, <2>3, ServeKinds DEF Kinds
<1>3. ASSUME NEW c \in Calls, Fail(c), Remember
      PROVE  \A d \in Calls : Copied(d)
  BY <1>3, <1>b DEF Fail
<1>4. ASSUME NEW i \in Invites, Expire(i), Remember
      PROVE  \A d \in Calls : Copied(d)
  BY <1>4, StillCopied DEF Expire
<1>5. CASE UNCHANGED vars
  BY <1>5, StillCopied DEF vars, tables
<1>. HIDE DEF Copied
<1>. QED BY <1>1, <1>2, <1>3, <1>4, <1>5 DEF Next, NextOf, Serve

\* The write of a quota: as asked, or as read by a request that was overtaken.
LEMMA QuotaChanged ==
  ASSUME TypeInv, CopyInv, NEW c \in Calls, Writing(c), NEW p \in Projects, NEW f \in Fields,
         project[p].state = "live", project'[p].quota[f] # project[p].quota[f]
  PROVE  /\ Arg(c).project = p
         /\ IF Arg(c).ask[f] # 0 THEN project'[p].quota[f] = Arg(c).ask[f]
            ELSE f \in overtaken[c] /\ project'[p].quota[f] = call[c].quota[f]
<1>1. /\ Arg(c).project = p /\ At(c, "UpdateProjectQuotas")
      /\ project'[p].quota = orDefault(Arg(c).ask, call[c].quota)
  BY QuotaWritten
<1>2. project'[p].quota[f] = IF Arg(c).ask[f] = 0 THEN call[c].quota[f] ELSE Arg(c).ask[f]
  BY <1>1 DEF orDefault
<1>3. "UpdateProjectQuotas" \notin Reads
  BY DEF Reads
<1>4. Todo(c) = {"UpdateProjectQuotas"}
  BY <1>1, <1>3, ServedAt
<1>5. f \in overtaken[c] \/ call[c].quota[f] = project[p].quota[f]
  BY <1>1, <1>4 DEF CopyInv
<1>. QED BY <1>1, <1>2, <1>5

(* UnaskedQuotasKept: a quota of a project that is there changes to what the *)
(* request asked for.  One it did not ask for only changes when another      *)
(* request changed it after this one had read the project, and then to what  *)
(* this one read: UpdateProjectQuotas writes all three from that copy.       *)
THEOREM QuotasAreAsked == Spec => UnaskedQuotasKept
<1>1. Init => CopyInv
  BY DEF Init, CopyInv, Todo, Elems, Idle
<1>2. ASSUME TypeInv, CopyInv, [Next]_vars
      PROVE  [\A p \in Projects, f \in Fields :
                project[p].state = "live" /\ project'[p].quota[f] # project[p].quota[f] =>
                  \E c \in Calls :
                    /\ call[c] # Idle /\ call'[c] = Idle /\ Arg(c).project = p
                    /\ IF Arg(c).ask[f] # 0
                       THEN project'[p].quota[f] = Arg(c).ask[f]
                       ELSE f \in overtaken[c] /\ project'[p].quota[f] = call[c].quota[f]]_vars
  <2>. SUFFICES ASSUME NEW p \in Projects, NEW f \in Fields, Next, project[p].state = "live",
                       project'[p].quota[f] # project[p].quota[f]
                PROVE  \E c \in Calls :
                    /\ call[c] # Idle /\ call'[c] = Idle /\ Arg(c).project = p
                    /\ IF Arg(c).ask[f] # 0
                       THEN project'[p].quota[f] = Arg(c).ask[f]
                       ELSE f \in overtaken[c] /\ project'[p].quota[f] = call[c].quota[f]
    BY <1>2
  <2>1. project' # project
    OBVIOUS
  <2>2. ASSUME NEW c \in Calls, ServeStep(c)
        PROVE  /\ call[c] # Idle /\ call'[c] = Idle /\ Arg(c).project = p
               /\ IF Arg(c).ask[f] # 0
                  THEN project'[p].quota[f] = Arg(c).ask[f]
                  ELSE f \in overtaken[c] /\ project'[p].quota[f] = call[c].quota[f]
    <3>1. Writing(c)
      BY <1>2, <2>1, <2>2, ServeKinds DEF Kinds, Reading, Answering, tables
    <3>2. call[c] # Idle /\ call'[c] = Idle
      BY <1>2, <3>1, WriteTypes, WriteIsLast DEF Answer, TypeInv
    <3>. QED BY <1>2, <3>1, <3>2, QuotaChanged
  <2>3. ASSUME NEW c \in Calls, NEW h \in DOMAIN Handlers, NEW q \in Requests(h), Receive(c, q)
        PROVE  FALSE
    BY <2>1, <2>3 DEF Receive
  <2>4. ASSUME NEW i \in Invites, Expire(i)
        PROVE  FALSE
    BY <2>1, <2>4 DEF Expire, tables
  <2>5. ~UNCHANGED tables
    BY <2>1 DEF tables
  <2>6. \E c \in Calls : ServeStep(c)
    BY <2>3, <2>4, <2>5 DEF Next, NextOf, Serve
  <2>. QED BY <2>2, <2>6
<1>. QED BY TypeInit, TypeStep, CopyStep, <1>1, <1>2, PTL DEF Spec, UnaskedQuotasKept

-----------------------------------------------------------------------------
(* The invitations implement InvitationLife *)

\* What a step means for who was invited.
LifeStep == [Life!LifeNext]_(Life!lifeVars)

\* No invitation changes its status and nobody joins.
SameLife == joined' = joined /\ \A i \in Invites : invite'[i].status = invite[i].status

\* Such a step is none of InvitationLife.
LEMMA LifeStutters == SameLife => LifeStep
BY DEF SameLife, LifeStep, Life!lifeVars

\* A write of one invitation.
LEMMA LifeOfOne ==
  ASSUME NEW i \in Invites, NEW s,
         \A j \in Invites : invite'[j].status = IF j = i THEN s ELSE invite[j].status,
         \/ joined' = joined /\ invite[i].status = "none" /\ s = "pending"
         \/ joined' = joined /\ invite[i].status \in {"pending", "accepted"} /\ s = "declined"
         \/ /\ joined' = [joined EXCEPT ![i] = @ + 1]
            /\ invite[i].status = "pending" /\ s = "accepted"
  PROVE  LifeStep
<1>. DEFINE life == [j \in Invites |-> invite[j].status]
<1>1. life' = [life EXCEPT ![i] = s] /\ life[i] = invite[i].status
  OBVIOUS
<1>2. CASE joined' = joined /\ invite[i].status = "none" /\ s = "pending"
  <2>1. Life!Send(i)
    BY <1>1, <1>2 DEF Life!Send
  <2>. QED BY <2>1 DEF LifeStep, Life!LifeNext
<1>3. CASE joined' = joined /\ invite[i].status \in {"pending", "accepted"} /\ s = "declined"
  <2>1. Life!TurnDown(i)
    BY <1>1, <1>3 DEF Life!TurnDown
  <2>. QED BY <2>1 DEF LifeStep, Life!LifeNext
<1>4. CASE /\ joined' = [joined EXCEPT ![i] = @ + 1]
           /\ invite[i].status = "pending" /\ s = "accepted"
  <2>1. Life!Join(i)
    BY <1>1, <1>4 DEF Life!Join
  <2>. QED BY <2>1 DEF LifeStep, Life!LifeNext
<1>. QED BY <1>2, <1>3, <1>4

\* The cascade of a deletion withdraws invitations.
LEMMA LifeCascades ==
  ASSUME TypeInv, CascadeToInvites
  PROVE  LifeStep
<1>. DEFINE dropped == {i \in Invites : ThereIs(i) /\ Outlives(i)}
            life == [j \in Invites |-> invite[j].status]
<1>1. /\ invite' = [i \in Invites |->
            IF i \in dropped THEN [invite[i] EXCEPT !.status = "gone"] ELSE invite[i]]
      /\ joined' = joined
  BY DEF CascadeToInvites
<1>2. dropped \in SUBSET {i \in Invites : life[i] # "none"}
  BY DEF ThereIs, Statuses
<1>. HIDE DEF dropped
<1>3. ASSUME NEW i \in Invites
      PROVE  invite'[i].status = IF i \in dropped THEN "gone" ELSE invite[i].status
  <2>1. [invite[i] EXCEPT !.status = "gone"].status = "gone"
    BY DEF TypeInv, TablesOK, InviteRows, NoInvite
  <2>. QED BY <1>1, <2>1
<1>4. life' = [i \in Invites |-> IF i \in dropped THEN "gone" ELSE life[i]]
  BY <1>3
<1>5. Life!Vanish
  BY <1>1, <1>2, <1>4 DEF Life!Vanish
<1>. QED BY <1>5 DEF LifeStep, Life!LifeNext

\* Every write of an invitation is a step of InvitationLife.
LEMMA LifeWritten ==
  ASSUME TypeInv, LockInv, NEW c \in Calls, Writing(c)
  PROVE  LifeStep
<1>. DEFINE i == Arg(c).invite
<1>a. invite \in [Invites -> InviteRows]
  BY DEF TypeInv, TablesOK
<1>1. CASE CascadeToInvites
  BY <1>1, LifeCascades
<1>2. CASE UNCHANGED <<invite, joined>>
  BY <1>2, LifeStutters DEF SameLife
<1>3. CASE CreateOrgInvitation(c) \/ CreateProjectInvitation(c)
  <2>1. ASSUME NEW row, row.status = "pending", InsertInvite(row), joined' = joined
        PROVE  LifeStep
    <3>1. PICK j \in Invites : invite[j] = NoInvite /\ invite' = [invite EXCEPT ![j] = row]
      BY <2>1 DEF InsertInvite
    <3>2. invite[j].status = "none"
      BY <3>1 DEF NoInvite
    <3>3. \A x \in Invites : invite'[x].status = IF x = j THEN "pending" ELSE invite[x].status
      BY <1>a, <2>1, <3>1
    <3>. QED BY <2>1, <3>2, <3>3, LifeOfOne
  <2>2. joined' = joined
        /\ (UNCHANGED invite \/ \E row : row.status = "pending" /\ InsertInvite(row))
    BY <1>3 DEF CreateOrgInvitation, CreateProjectInvitation
  <2>. QED BY <1>2, <2>1, <2>2
<1>4. CASE AcceptOrgInvitation(c) \/ AcceptProjectInvitation(c)
  <2>1. HoldsLock(c) /\ MarkAccepted(i)
    BY <1>4 DEF AcceptOrgInvitation, AcceptProjectInvitation, HoldsLock
  <2>2. i \in Invites /\ invite[i].status = "pending"
    BY <2>1, Holder DEF LockInv
  <2>3. invite' = [invite EXCEPT ![i] = [invite[i] EXCEPT !.status = "accepted"]]
        /\ joined' = [joined EXCEPT ![i] = @ + 1]
    BY <2>1 DEF MarkAccepted
  <2>4. [invite[i] EXCEPT !.status = "accepted"].status = "accepted"
    BY <1>a, <2>2 DEF InviteRows, NoInvite
  <2>5. \A x \in Invites : invite'[x].status = IF x = i THEN "accepted" ELSE invite[x].status
    BY <1>a, <2>3, <2>4
  <2>. HIDE DEF i
  <2>. QED BY <2>2, <2>3, <2>5, LifeOfOne
<1>5. CASE SetOrgInvitationStatus(c) \/ SetProjectInvitationStatus(c)
  <2>1. SetStatus(c, "declined")
    BY <1>5 DEF SetOrgInvitationStatus, SetProjectInvitationStatus
  <2>2. i \in Invites
    BY <1>5, ServedAt DEF SetOrgInvitationStatus, SetProjectInvitationStatus, Suits
  <2>. DEFINE s == IF ThereIs(i) THEN "declined" ELSE invite[i].status
              row == [invite[i] EXCEPT !.status = s]
  <2>3. invite' = [invite EXCEPT ![i] = row] /\ joined' = joined
    BY <2>1 DEF SetStatus
  <2>4. row.status = s
    BY <1>a, <2>2 DEF InviteRows, NoInvite
  <2>5. \A x \in Invites : invite'[x].status = IF x = i THEN s ELSE invite[x].status
    <3>. HIDE DEF s, row
    <3>. QED BY <1>a, <2>3, <2>4
  <2>6. CASE invite[i].status \in {"pending", "accepted"}
    <3>1. s = "declined"
      BY <2>6 DEF ThereIs, Statuses
    <3>. HIDE DEF s
    <3>. QED BY <2>2, <2>3, <2>5, <2>6, <3>1, LifeOfOne
  <2>7. CASE invite[i].status \notin {"pending", "accepted"}
    <3>1. s = invite[i].status
      BY <2>7 DEF ThereIs, Statuses
    <3>. HIDE DEF s
    <3>. QED BY <2>3, <2>5, <3>1, LifeStutters DEF SameLife
  <2>. QED BY <2>6, <2>7
<1>. QED BY <1>1, <1>2, <1>3, <1>4, <1>5 DEF Writing

\* Every step maps to a step of InvitationLife or to none.
LEMMA LifeSteps == TypeInv /\ LockInv /\ [Next]_vars => LifeStep
<1>. SUFFICES ASSUME TypeInv, LockInv, [Next]_vars PROVE LifeStep
  OBVIOUS
<1>a. ASSUME UNCHANGED <<invite, joined>> PROVE LifeStep
  BY <1>a, LifeStutters DEF SameLife
<1>1. ASSUME NEW c \in Calls, NEW h \in DOMAIN Handlers, NEW q \in Requests(h), Receive(c, q)
      PROVE  LifeStep
  BY <1>1, <1>a DEF Receive
<1>2. ASSUME NEW c \in Calls, ServeStep(c)
      PROVE  LifeStep
  <2>1. CASE \E f \in Reads : Reading(c, f)
    BY <2>1, <1>a DEF Reading
  <2>2. CASE Answering(c)
    BY <2>2, <1>a DEF Answering
  <2>. QED BY <1>2, <2>1, <2>2, ServeKinds, LifeWritten DEF Kinds
<1>3. ASSUME NEW i \in Invites, Expire(i)
      PROVE  LifeStep
  <2>1. invite' = [invite EXCEPT ![i] = [invite[i] EXCEPT !.expired = TRUE]] /\ joined' = joined
    BY <1>3 DEF Expire
  <2>2. [invite[i] EXCEPT !.expired = TRUE].status = invite[i].status
    BY DEF TypeInv, TablesOK, InviteRows, NoInvite
  <2>3. \A j \in Invites : invite'[j].status = invite[j].status
    BY <2>1, <2>2 DEF TypeInv, TablesOK
  <2>. QED BY <2>1, <2>3, LifeStutters DEF SameLife
<1>4. ASSUME UNCHANGED <<tables, invite, joined, requests>> PROVE LifeStep
  BY <1>4, <1>a
<1>5. CASE UNCHANGED vars
  BY <1>5, <1>a DEF vars
<1>. QED BY <1>1, <1>2, <1>3, <1>4, <1>5 DEF Next, NextOf, Serve

(* KeepsInvitationLife: the tables of invitations implement InvitationLife;  *)
(* an invitation makes its invitee a member at most once and only while it   *)
(* is pending, however acceptances, refusals and deletions interleave.       *)
THEOREM InvitationsLive == Spec => KeepsInvitationLife
<1>1. Init => Life!LifeInit
  BY DEF Init, Life!LifeInit, NoInvite
<1>2. TypeInv /\ LockInv /\ [Next]_vars => [Life!LifeNext]_(Life!lifeVars)
  BY LifeSteps DEF LifeStep
<1>. QED BY TypeInit, TypeStep, LockInit, LockStep, <1>1, <1>2, PTL
         DEF Spec, KeepsInvitationLife, Life!LifeSpec

=============================================================================
