------------------------------ MODULE TenantAPI ------------------------------
(***************************************************************************)
(* Creating and deleting tenants through the HTTP API (api/internal/server, *)
(* store, k8s).  A handler writes two stores one after the other: the row  *)
(* of the tenant in PostgreSQL and the Tenant custom resource (CR).        *)
(*                                                                         *)
(* One action is one call of a handler on a store, so requests, also of    *)
(* several replicas, interleave between any two calls.  The context of a   *)
(* request is canceled when its client goes away, and every later call     *)
(* made with it fails.                                                     *)
(*                                                                         *)
(* A row and a CR carry the request that made them: it stands for their    *)
(* owner and tells two rows or CRs of one name apart.                      *)
(***************************************************************************)
EXTENDS Naturals

CONSTANTS
  Names,       \* tenant names
  Callers,     \* identities: Claims.Identity()
  Admins,      \* the callers with the admin role
  Reqs,        \* requests
  Kubectl,     \* the maker of a CR that was not created through the API
  Nobody,      \* the maker of nothing
  FaultKinds,  \* the faults of a run, see Fault
  MaxFaults    \* bound: faults in a behaviour

ASSUME ApiAssumptions ==
  /\ Admins \subseteq Callers
  /\ Kubectl \notin Reqs
  /\ Nobody \notin Reqs \cup {Kubectl}
  /\ MaxFaults \in Nat

VARIABLES
  req,     \* the requests and where their handlers are
  gone,    \* requests whose context is canceled
  row,     \* table tenants
  crs,     \* the Tenant CRs
  outside, \* names whose CR somebody deleted without the API
  audit,   \* requests in the audit log
  faults   \* faults so far

vars == <<req, gone, row, crs, outside, audit, faults>>

-----------------------------------------------------------------------------
NoRow == [state |-> "none", by |-> Nobody]
NoCR  == [life |-> "absent", by |-> Nobody]

\* tenants.name is UNIQUE over live and soft-deleted rows: one row per name.
Rows == {NoRow} \cup [state : {"live", "deleted"}, by : Reqs]

\* The operator's finalizer keeps a deleted CR until the teardown is over.
CRs == {NoCR} \cup [life : {"live", "deleting"}, by : Reqs \cup {Kubectl}]

\* Calls on the stores that a handler may be at.
CreateCalls == {"insert", "createCR", "rollback", "auditCreate"}
DeleteCalls == {"authorize", "deleteCR", "softDelete", "auditDelete"}
Calls       == CreateCalls \cup DeleteCalls

Replies == {"none", "201", "202", "404", "409", "500"}

\* What clients ask for; a handler has not started.
Unsent == [kind : {"create", "delete"}, name : Names, caller : Callers,
           pc : {"unsent"}, reply : {"none"}]

At(r, pc)    == req[r].pc = pc
NameOf(r)    == req[r].name
Goto(r, pc)  == req' = [req EXCEPT ![r].pc = pc]
Answer(r, c) == req' = [req EXCEPT ![r].pc = "done", ![r].reply = c]

-----------------------------------------------------------------------------
(* What the calls do to the stores *)

\* Mutant: the insert takes over a row that is there.
InsertRowUpsert(r) ==
  row' = [row EXCEPT ![NameOf(r)] = [state |-> "live", by |-> r]]

InsertRow(r) ==
  IF row[NameOf(r)] = NoRow
  THEN row' = [row EXCEPT ![NameOf(r)] = [state |-> "live", by |-> r]]
  ELSE UNCHANGED row

\* Mutant: the row is removed, not marked.
SoftDeleteRowHard(r) == row' = [row EXCEPT ![NameOf(r)] = NoRow]

\* Mutant: the mark is upserted.
SoftDeleteRowUpsert(r) == row' = [row EXCEPT ![NameOf(r)].state = "deleted"]

SoftDeleteRow(r) ==
  IF row[NameOf(r)].state = "live"
  THEN row' = [row EXCEPT ![NameOf(r)].state = "deleted"]
  ELSE UNCHANGED row

\* By name, whoever inserted the row and also when it is soft-deleted.
HardDeleteRow(r) == row' = [row EXCEPT ![NameOf(r)] = NoRow]

\* Mutant: the CR is applied, also over one that is being torn down.
PutCRApply(r) ==
  crs' = [crs EXCEPT ![NameOf(r)] = [life |-> "live", by |-> r]]

PutCR(r) ==
  IF crs[NameOf(r)] = NoCR
  THEN crs' = [crs EXCEPT ![NameOf(r)] = [life |-> "live", by |-> r]]
  ELSE UNCHANGED crs

DropCR(n) ==
  IF crs[n].life = "live"
  THEN crs' = [crs EXCEPT ![n].life = "deleting"]
  ELSE UNCHANGED crs

-----------------------------------------------------------------------------
\* The router calls the handler of the request.
Serve(r) ==
  /\ At(r, "unsent")
  /\ Goto(r, IF req[r].kind = "create" THEN "insert" ELSE "authorize")
  /\ UNCHANGED <<gone, row, crs, outside, audit, faults>>

(* POST /tenants *)

\* Store.CreateTenant: 409 when the name is taken.
CreateTenant(r) ==
  /\ At(r, "insert") /\ r \notin gone
  /\ InsertRow(r)
  /\ IF row'[NameOf(r)] # row[NameOf(r)] THEN Goto(r, "createCR") ELSE Answer(r, "409")
  /\ UNCHANGED <<gone, crs, outside, audit, faults>>

\* Mutant: a CR that is there already is taken for the tenant's own.
CreateTenantCRIdempotent(r) ==
  /\ At(r, "createCR") /\ r \notin gone
  /\ PutCR(r)
  /\ Goto(r, "auditCreate")
  /\ UNCHANGED <<gone, row, outside, audit, faults>>

\* Client.CreateTenant: an error when there is a CR of that name.
CreateTenantCR(r) ==
  /\ At(r, "createCR") /\ r \notin gone
  /\ PutCR(r)
  /\ IF crs[NameOf(r)] = NoCR THEN Goto(r, "auditCreate") ELSE Goto(r, "rollback")
  /\ UNCHANGED <<gone, row, outside, audit, faults>>

Rollback(r) ==
  /\ At(r, "rollback") /\ r \notin gone
  /\ HardDeleteRow(r)
  /\ Answer(r, "500")
  /\ UNCHANGED <<gone, crs, outside, audit, faults>>

-----------------------------------------------------------------------------
(* DELETE /tenants/{name} *)

\* authorizedTenant: a live row, of the caller unless an admin asks.
Allowed(r) ==
  /\ row[NameOf(r)].state = "live"
  /\ \/ req[r].caller \in Admins
     \/ req[r].caller = req[row[NameOf(r)].by].caller

Authorize(r) ==
  /\ At(r, "authorize") /\ r \notin gone
  /\ IF Allowed(r) THEN Goto(r, "deleteCR") ELSE Answer(r, "404")
  /\ UNCHANGED <<gone, row, crs, outside, audit, faults>>

\* A missing CR is no error.
DeleteTenantCR(r) ==
  /\ At(r, "deleteCR") /\ r \notin gone
  /\ DropCR(NameOf(r))
  /\ Goto(r, "softDelete")
  /\ UNCHANGED <<gone, row, outside, audit, faults>>

\* A missing row is no error either.
SoftDeleteTenant(r) ==
  /\ At(r, "softDelete") /\ r \notin gone
  /\ SoftDeleteRow(r)
  /\ Goto(r, "auditDelete")
  /\ UNCHANGED <<gone, crs, outside, audit, faults>>

\* What the handler answers once it is at the audit log.
Success(r) == IF At(r, "auditCreate") THEN "201" ELSE "202"

Audit(r) ==
  /\ At(r, "auditCreate") \/ At(r, "auditDelete")
  /\ r \notin gone
  /\ audit' = audit \cup {r}
  /\ Answer(r, Success(r))
  /\ UNCHANGED <<gone, row, crs, outside, faults>>

-----------------------------------------------------------------------------
(* Faults *)

\* Where a handler goes when its call returns an unexpected error: an entry
\* missing from the audit log is only logged.
Failed(r) ==
  CASE At(r, "createCR")                             -> Goto(r, "rollback")
    [] At(r, "auditCreate") \/ At(r, "auditDelete") -> Answer(r, Success(r))
    [] OTHER                                         -> Answer(r, "500")

Fault(kind) ==
  /\ kind \in FaultKinds
  /\ faults < MaxFaults
  /\ faults' = faults + 1

\* The client goes away between two calls.
Disconnect(r) ==
  /\ Fault("disconnect")
  /\ req[r].pc \in Calls
  /\ r \notin gone
  /\ gone' = gone \cup {r}
  /\ UNCHANGED <<req, row, crs, outside, audit>>

\* A call with a canceled context is not sent.
CallCanceled(r) ==
  /\ req[r].pc \in Calls
  /\ r \in gone
  /\ Failed(r)
  /\ UNCHANGED <<gone, row, crs, outside, audit, faults>>

\* A store is down.
CallFails(r) ==
  /\ Fault("call")
  /\ req[r].pc \in Calls
  /\ r \notin gone
  /\ Failed(r)
  /\ UNCHANGED <<gone, row, crs, outside, audit>>

\* The call takes effect and its answer is lost, because the connection broke
\* or the context was canceled in the meantime.
AnswerLost(r) ==
  /\ Fault("lost")
  /\ r \notin gone
  /\ \/ At(r, "insert") /\ InsertRow(r) /\ UNCHANGED <<crs, audit>>
     \/ At(r, "createCR") /\ PutCR(r) /\ UNCHANGED <<row, audit>>
     \/ At(r, "rollback") /\ HardDeleteRow(r) /\ UNCHANGED <<crs, audit>>
     \/ At(r, "deleteCR") /\ DropCR(NameOf(r)) /\ UNCHANGED <<row, audit>>
     \/ At(r, "softDelete") /\ SoftDeleteRow(r) /\ UNCHANGED <<crs, audit>>
     \/ /\ At(r, "auditCreate") \/ At(r, "auditDelete")
        /\ audit' = audit \cup {r}
        /\ UNCHANGED <<row, crs>>
  /\ Failed(r)
  /\ gone' \in {gone, gone \cup {r}}
  /\ UNCHANGED outside

\* The process dies with the request.
Crash(r) ==
  /\ Fault("crash")
  /\ req[r].pc \in Calls
  /\ Goto(r, "dead")
  /\ UNCHANGED <<gone, row, crs, outside, audit>>

-----------------------------------------------------------------------------
(* Tenant CRs outside the API: kubectl and GitOps, and the operator *)

KubectlCreate(n) ==
  /\ crs[n] = NoCR
  /\ crs' = [crs EXCEPT ![n] = [life |-> "live", by |-> Kubectl]]
  /\ UNCHANGED <<req, gone, row, outside, audit, faults>>

KubectlDelete(n) ==
  /\ crs[n].life = "live"
  /\ DropCR(n)
  /\ outside' = outside \cup {n}
  /\ UNCHANGED <<req, gone, row, audit, faults>>

\* The finalizer comes off.
TornDown(n) ==
  /\ crs[n].life = "deleting"
  /\ crs' = [crs EXCEPT ![n] = NoCR]
  /\ UNCHANGED <<req, gone, row, outside, audit, faults>>

-----------------------------------------------------------------------------
Init ==
  /\ req \in [Reqs -> Unsent]
  /\ gone = {}
  /\ row = [n \in Names |-> NoRow]
  /\ crs = [n \in Names |-> NoCR]
  /\ outside = {}
  /\ audit = {}
  /\ faults = 0

\* The calls of the handler of r.
Handler(r) ==
  \/ CreateTenant(r) \/ CreateTenantCR(r) \/ Rollback(r)
  \/ Authorize(r) \/ DeleteTenantCR(r) \/ SoftDeleteTenant(r)
  \/ Audit(r)

Trouble(r) ==
  Disconnect(r) \/ CallCanceled(r) \/ CallFails(r) \/ AnswerLost(r) \/ Crash(r)

Outside(n) == KubectlCreate(n) \/ KubectlDelete(n) \/ TornDown(n)

Next ==
  \/ \E r \in Reqs : Serve(r) \/ Handler(r) \/ Trouble(r)
  \/ \E n \in Names : Outside(n)

Spec == Init /\ [][Next]_vars

-----------------------------------------------------------------------------
(* Properties *)

\* Every variable has its type; only a row that is there has a maker.
TypeOK ==
  /\ req \in [Reqs -> [kind : {"create", "delete"}, name : Names, caller : Callers,
                       pc : Calls \cup {"unsent", "done", "dead"}, reply : Replies]]
  /\ gone \subseteq Reqs
  /\ row \in [Names -> Rows]
  /\ crs \in [Names -> CRs]
  /\ outside \subseteq Names
  /\ audit \subseteq Reqs
  /\ faults \in 0..MaxFaults

\* A row leaves the table only by the rollback of the request that inserted it.
\* The rollback deletes by name, so this rests on the name staying taken, also
\* by a soft-deleted row (handleCreateTenant, HardDeleteTenant).
RollbackIsOwn ==
  [][\A n \in Names :
       row[n] # NoRow /\ row'[n] = NoRow =>
         /\ row[n].by \in Reqs
         /\ At(row[n].by, "rollback") /\ NameOf(row[n].by) = n]_vars

\* A delete of name n that got as far as the row, or may have.
DeletedBy(r, n) ==
  /\ req[r].kind = "delete" /\ NameOf(r) = n
  /\ \/ req[r].pc \in {"auditDelete", "dead"}
     \/ req[r].pc = "done" /\ req[r].reply \in {"202", "500"}

\* A tenant whose creation was acknowledged stays on record as its creator's:
\* no other request takes the name over, and the row is live until a delete of
\* that name marks it (CreateTenant's unique name, authorizedTenant).
CreatedStays ==
  \A r \in Reqs : req[r].reply = "201" =>
    /\ row[NameOf(r)].by = r
    /\ row[NameOf(r)].state = "deleted" => \E d \in Reqs : DeletedBy(d, NameOf(r))

\* Every request on n that was sent has been answered, and with no internal
\* error.
CleanlyAnswered(n) ==
  \A r \in Reqs : NameOf(r) = n /\ ~At(r, "unsent") =>
    At(r, "done") /\ req[r].reply # "500"

\* Row and CR agree once the requests on a name have ended well: what the API
\* lists has the CR its own create made, unless somebody deleted that CR
\* outside the API.
RowHasCR ==
  \A n \in Names :
    CleanlyAnswered(n) /\ n \notin outside /\ row[n].state = "live" =>
      crs[n] = [life |-> "live", by |-> row[n].by]

\* The requests on one name, and those who use its CR without the API, together
\* use CRs the way the operator promises to serve: a CR is created when there is
\* none, and one that is being torn down is never revived.
Lifecycle == INSTANCE TenantLifecycle
  WITH Tenants <- Names, life <- [n \in Names |-> crs[n].life], held <- {}

UsesLifecycle == Lifecycle!Spec

\* After the rollback the name is free again: the row is not left orphaned
\* (handleCreateTenant).
RollbackFreesName ==
  [][\A r \in Reqs :
       At(r, "rollback") /\ req'[r].pc = "done" => row'[NameOf(r)].by # r]_vars

\* A tenant that was deleted through the API is torn down: no CR that the API
\* created stays live when its row is marked deleted and every request on the
\* name has been answered.
DeletedIsTornDown ==
  \A n \in Names :
    CleanlyAnswered(n) /\ row[n].state = "deleted" =>
      crs[n].life # "live" \/ crs[n].by = Kubectl

=============================================================================
