---------------------------- MODULE Invitations ------------------------------
(***************************************************************************)
(* Invitations to organizations and projects                               *)
(* (api/internal/store/invitations.go).  Accepting one is a transaction    *)
(* that locks the invitation, makes the invitee a member and marks it; it  *)
(* takes two actions here, and whoever writes the invitation waits.        *)
(*                                                                         *)
(* The tables organization_invitations and project_invitations have the    *)
(* same operations, told apart by the table of an invitation.              *)
(***************************************************************************)
EXTENDS Tenancy

CONSTANT Invites   \* ids of invitations

VARIABLES
  invite,  \* the two tables of invitations
  joined   \* how often an invitation made its invitee a member

NoInvite == [status |-> "none", table |-> "org", org |-> None, project |-> None,
             to |-> None, role |-> "none", expired |-> FALSE]

Statuses == {"pending", "accepted", "declined"}

InviteRows ==
  {NoInvite}
  \cup [status : Statuses \cup {"gone"}, table : {"org"}, org : Orgs,
        project : {None}, to : Users, role : OrgRoles, expired : BOOLEAN]
  \cup [status : Statuses \cup {"gone"}, table : {"project"}, org : Orgs,
        project : Projects, to : Users, role : ProjectRoles, expired : BOOLEAN]

ThereIs(i) == invite[i].status \in Statuses

\* SELECT ... FOR UPDATE: held from LockInvitation to the commit.
InviteLocked(i) ==
  \E c \in Calls :
    /\ At(c, "AcceptOrgInvitation") \/ At(c, "AcceptProjectInvitation")
    /\ Arg(c).invite = i

-----------------------------------------------------------------------------
InsertInvite(row) ==
  \E i \in Invites : invite[i] = NoInvite /\ invite' = [invite EXCEPT ![i] = row]

\* The foreign key refuses an organization that is gone.
CreateOrgInvitation(c) ==
  /\ At(c, "CreateOrgInvitation")
  /\ IF org[Arg(c).org] = "live"
     THEN InsertInvite([status |-> "pending", table |-> "org", org |-> Arg(c).org,
                        project |-> None, to |-> Arg(c).on, role |-> Arg(c).role,
                        expired |-> FALSE])
     ELSE UNCHANGED invite
  /\ Answer(c)
  /\ UNCHANGED <<tables, joined>>

CreateProjectInvitation(c) ==
  /\ At(c, "CreateProjectInvitation")
  /\ IF project[Arg(c).project].state = "live"
     THEN InsertInvite([status |-> "pending", table |-> "project", org |-> OrgOf(Arg(c)),
                        project |-> Arg(c).project, to |-> Arg(c).on, role |-> Arg(c).role,
                        expired |-> FALSE])
     ELSE UNCHANGED invite
  /\ Answer(c)
  /\ UNCHANGED <<tables, joined>>

\* 404 for one that is not in the handler's table, 403 for another's.
LoadInvite(c, table) ==
  LET i == Arg(c).invite IN
  /\ IF ThereIs(i) /\ invite[i].table = table /\ invite[i].to = By(c)
     THEN Advance(c)
     ELSE Answer(c)
  /\ UNCHANGED <<tables, invite, joined>>

loadOrgInviteForCaller(c) == At(c, "GetOrgInvitation") /\ LoadInvite(c, "org")

loadProjectInviteForCaller(c) == At(c, "GetProjectInvitation") /\ LoadInvite(c, "project")

\* Mutant: the invitation is read without a lock.
LockInvitationUnlocked(c) ==
  LET i == Arg(c).invite IN
  /\ At(c, "LockInvitation")
  /\ IF invite[i].status = "pending" /\ ~invite[i].expired THEN Advance(c) ELSE Answer(c)
  /\ UNCHANGED <<tables, invite, joined>>

\* ErrInviteNotAcceptable (409) when it is answered or expired, and the lock
\* goes with the rollback.
LockInvitation(c) ==
  LET i == Arg(c).invite IN
  /\ At(c, "LockInvitation")
  /\ ~InviteLocked(i)
  /\ IF invite[i].status = "pending" /\ ~invite[i].expired THEN Advance(c) ELSE Answer(c)
  /\ UNCHANGED <<tables, invite, joined>>

MarkAccepted(i) ==
  /\ invite' = [invite EXCEPT ![i].status = "accepted"]
  /\ joined' = [joined EXCEPT ![i] = @ + 1]

\* The upsert may also lower the role of a member.
AcceptOrgInvitation(c) ==
  LET i == Arg(c).invite IN
  /\ At(c, "AcceptOrgInvitation")
  /\ ~RowLocked(By(c), invite[i].org)
  /\ UpsertOrgMember(invite[i].org, By(c), invite[i].role)
  /\ MarkAccepted(i)
  /\ Answer(c)
  /\ UNCHANGED <<user, org, default, project, pmember>>

AcceptProjectInvitation(c) ==
  LET i == Arg(c).invite IN
  /\ At(c, "AcceptProjectInvitation")
  /\ UpsertProjectMember(invite[i].project, By(c), invite[i].role)
  /\ MarkAccepted(i)
  /\ Answer(c)
  /\ UNCHANGED <<user, org, member, default, project>>

\* Whatever its status is, 500 when it is gone.
SetStatus(c, status) ==
  LET i == Arg(c).invite IN
  /\ ~InviteLocked(i)
  /\ invite' = [invite EXCEPT ![i].status = IF ThereIs(i) THEN status ELSE @]
  /\ Answer(c)
  /\ UNCHANGED <<tables, joined>>

SetOrgInvitationStatus(c) == At(c, "SetOrgInvitationStatus") /\ SetStatus(c, "declined")

SetProjectInvitationStatus(c) ==
  At(c, "SetProjectInvitationStatus") /\ SetStatus(c, "declined")

\* Seven days pass: expires_at is compared, the status is never "expired".
Expire(i) ==
  /\ invite[i].status = "pending"
  /\ ~invite[i].expired
  /\ invite' = [invite EXCEPT ![i].expired = TRUE]
  /\ UNCHANGED <<tables, call, joined>>

Outlives(i) ==
  \/ org'[invite[i].org] # "live"
  \/ invite[i].project # None /\ project'[invite[i].project].state # "live"

\* ON DELETE CASCADE, which waits for the rows somebody has locked.
CascadeToInvites ==
  LET dropped == {i \in Invites : ThereIs(i) /\ Outlives(i)} IN
  /\ \A i \in dropped : ~InviteLocked(i)
  /\ invite' = [i \in Invites |->
       IF i \in dropped THEN [invite[i] EXCEPT !.status = "gone"] ELSE invite[i]]
  /\ UNCHANGED joined
=============================================================================
