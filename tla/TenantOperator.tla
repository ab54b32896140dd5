--------------------------- MODULE TenantOperator ---------------------------
(***************************************************************************)
(* The Tenant operator (operator/internal/controller): one reconcile       *)
(* worker that drives every Tenant custom resource (CR) to a namespace, a  *)
(* quota, network objects and a vCluster Helm release, and that tears them *)
(* down behind a finalizer.                                                *)
(*                                                                         *)
(* A pass of Reconcile is not atomic: one action is one call on the API    *)
(* server or on Helm, and users, informers, cluster controllers and crashes*)
(* run between any two of them.  Reads of Tenants, of the objects made by  *)
(* CreateOrUpdate and of the shared apps Gateway come from informer caches *)
(* that lag; writes go to the API server and succeed only when the copy    *)
(* written from is the stored version.                                     *)
(*                                                                         *)
(* resourceVersion is abstracted to that one bit (current, worker.fresh,   *)
(* gwCurrent); a spec is a version number, unique per name over deletion   *)
(* and recreation, which also tells two incarnations of a name apart.      *)
(***************************************************************************)
EXTENDS Naturals, FiniteSets

CONSTANTS
  Tenants,       \* names of Tenant CRs
  Namespaces,    \* host namespaces
  NsOf,          \* Tenant.TargetNamespace(): the namespace of each tenant
  None,          \* no tenant (an unlabelled namespace, an idle worker)
  PreExisting,   \* namespaces an administrator created beforehand
  Quota,         \* what the resources of a spec version ask for, see Quotas
  BadSpecs,      \* spec versions no Helm call accepts: overrides that are no
                 \* object, a chart version that does not exist
  Configs,       \* [net, apps] settings the operator may be started with
  FaultKinds,    \* the faults of a run, see Fault
  MaxSpec,       \* bound: spec versions ever submitted per tenant name
  MaxFaults      \* bound: faults in a behaviour

ASSUME OperatorAssumptions ==
  /\ NsOf \in [Tenants -> Namespaces]
  /\ None \notin Tenants
  /\ PreExisting \subseteq Namespaces
  /\ Quota \in [0..MaxSpec -> {"none", "storage", "compute", "bad"}]
  /\ Configs \subseteq [net : BOOLEAN, apps : BOOLEAN]
  /\ MaxSpec \in Nat
  /\ MaxFaults \in Nat

VARIABLES
  cr,         \* the stored Tenant CRs
  issued,     \* spec versions submitted so far, per name
  seen,       \* the informer's copy of each CR
  current,    \* that copy is the stored version
  queue,      \* the controller's work queue
  worker,     \* the reconcile in progress
  config,     \* NetworkingConfig.Enabled(), AppsConfig.Enabled()
  ns,         \* host namespaces
  inside,     \* ResourceQuota, LimitRange and ReferenceGrant of a namespace
  release,    \* the Helm release of each tenant
  vc,         \* the vCluster workload and its kubeconfig Secret
  route,      \* tenants with a TLSRoute in the gateway namespace
  cert,       \* tenants with an apps Certificate
  certSecret, \* tenants with the Secret cert-manager issued for it
  lag,        \* the kinds of objects whose informers lag behind the store
  cached,     \* the copies these have of what is inside the namespaces
  routeSeen,  \* the tenants with a TLSRoute by such copies
  misled,     \* history: objects a pass kept for what an old copy said of them
  gw,         \* the shared apps Gateway
  gwSeen,     \* the informer's copy of it
  gwCurrent,  \* that copy is the stored version
  faults      \* faults so far

crVars     == <<cr, issued>>
cacheVars  == <<seen, current, queue>>
nsVars     == <<ns, inside>>
informerVars == <<lag, cached, routeSeen>>
copyVars   == <<informerVars, misled>>
helmVars   == <<release, vc>>
netVars    == <<route, cert, certSecret>>
gwVars     == <<gw, gwSeen, gwCurrent>>
vars == <<crVars, cacheVars, worker, config, nsVars, copyVars, helmVars,
          netVars, gwVars, faults>>

-----------------------------------------------------------------------------
(* Data *)

Phases == {"", "Pending", "Provisioning", "Ready", "Failed", "Deleting"}
Specs  == 0..MaxSpec

\* A Tenant CR: deletionTimestamp as its life, the finalizer, the spec version
\* (metadata.generation), and status: phase, Ready condition, whether
\* kubeconfigSecretRef is set, observedGeneration.
CR == [life : {"absent", "live", "deleting"}, fin : BOOLEAN, spec : Specs,
       phase : Phases, ready : BOOLEAN, ref : BOOLEAN, obs : Specs]

NoCR == [life |-> "absent", fin |-> FALSE, spec |-> 0, phase |-> "",
         ready |-> FALSE, ref |-> FALSE, obs |-> 0]

NoRelease == [status |-> "none", spec |-> 0]
NoVc      == [made |-> FALSE, up |-> FALSE, secret |-> FALSE]
NoObjects == [quota |-> "none", limits |-> FALSE, grant |-> FALSE]
NoNs      == [state |-> "absent", label |-> None]

\* What a namespace holds for its tenant: the quota by what it limits.
Objects     == [quota : {"none", "storage", "compute"}, limits : BOOLEAN, grant : BOOLEAN]
ObjectKinds == {"quota", "limits", "grant"}

\* What CreateOrUpdate reads and writes: an informer for each kind.
Kinds == ObjectKinds \cup {"route"}

\* Calls whose error goes through fail(): they record the Failed phase.
EnsureCalls ==
  {"EnsureNamespace", "EnsureResourceQuota", "EnsureLimitRange",
   "EnsureReferenceGrant", "EnsureTLSRoute", "EnsureAppsCertificate",
   "EnsureAppsListener", "Install", "InstallRun"}

\* The other calls of a pass over a Tenant that is not being deleted.
StatusCalls == {"VclusterReady", "StatusReady", "StatusProvisioning", "Fail"}

\* The calls of reconcileDelete, whose errors are returned as they are.
DeleteCalls ==
  {"MarkDeleting", "Uninstall", "DeleteTLSRoute", "DeleteListener",
   "DeleteCertificate", "DeleteCertSecret", "DeleteNamespace",
   "RemoveFinalizer"}

Calls == EnsureCalls \cup StatusCalls \cup DeleteCalls
           \cup {"idle", "AddFinalizer", "MarkPending"}

Idle == [pc |-> "idle", t |-> None, obj |-> NoCR, fresh |-> FALSE]

-----------------------------------------------------------------------------
(* The worker's copy of a Tenant and what it does with it *)

At(pc)   == worker.pc = pc
Goto(pc) == worker' = [worker EXCEPT !.pc = pc]
MyNs     == NsOf[worker.t]

\* Mutant: the error is swallowed and nobody asks for another pass.
RequeueForgotten == /\ worker' = Idle
                    /\ UNCHANGED queue

\* A returned error, or Result{RequeueAfter}: the item goes back to the queue.
Requeue == /\ worker' = Idle
           /\ queue' = queue \cup {worker.t}

\* Update or Status().Update with the worker's copy, refused when the copy is
\* not the stored version.  A write that changes nothing keeps the
\* resourceVersion and causes no event.
StoreCR(c) ==
  IF worker.fresh
  THEN /\ cr' = [cr EXCEPT ![worker.t] = c]
       /\ current' = [current EXCEPT ![worker.t] = @ /\ c = cr[worker.t]]
  ELSE UNCHANGED <<cr, current>>

\* A write whose error ends the pass, to be retried.
WriteCR(c, next) ==
  /\ StoreCR(c)
  /\ IF worker.fresh
     THEN /\ worker' = IF next = "idle" THEN Idle
                       ELSE [worker EXCEPT !.obj = c, !.pc = next]
          /\ UNCHANGED queue
     ELSE Requeue

\* updateStatus stamps the generation of the copy in memory.
Stamped(c) == [c EXCEPT !.obs = c.spec]

\* A write of CreateOrUpdate is accepted when its copy is the stored version: a
\* creation where nothing is stored, in an active namespace, an Update also
\* while the namespace terminates.  (Only the operator writes these objects, and
\* it writes from current copies: a copy with the stored content is the stored
\* version.)
Writable(copy, stored, absent) ==
  /\ copy = stored
  /\ copy = absent => ns[MyNs].state = "active"

\* What the pass reads of an object of its namespace.
Copy(k) == IF k \in lag THEN cached[MyNs][k] ELSE inside[MyNs][k]

\* Whether it reads a TLSRoute of its tenant.
RouteCopied == worker.t \in IF "route" \in lag THEN routeSeen ELSE route

\* Whether a pass keeps an object it was misled about.
Misled(k, yes) ==
  misled' = [misled EXCEPT ![worker.t] = IF yes THEN @ \cup {k} ELSE @ \ {k}]

\* An object of the namespace that the spec wants, or wants absent.  A Delete
\* goes to the API server and works in any namespace, a missing one included;
\* CreateOrUpdate reads the informer's copy: it keeps what already looks as
\* wanted, and writes the rest.
EnsureObject(k, want, absent, next) ==
  LET copy   == Copy(k)
      stored == inside[MyNs][k]
  IN  \/ /\ \/ want = absent
            \/ copy # want /\ Writable(copy, stored, absent)
         /\ inside' = [inside EXCEPT ![MyNs][k] = want]
         /\ Misled(k, FALSE)
         /\ Goto(next)
      \/ /\ want # absent /\ copy = want
         /\ Misled(k, stored # want)
         /\ Goto(next)
         /\ UNCHANGED inside
      \/ /\ want # absent /\ copy # want /\ ~Writable(copy, stored, absent)
         /\ Goto("Fail")
         /\ UNCHANGED <<inside, misled>>

\* Whether the resources of a spec come with a LimitRange: for limits on cpu or
\* memory.
LimitsFor(v) == Quota[v] = "compute"

\* Where a pass goes on after the quota, and after the TLSRoute.
AfterRoute  == IF config.apps THEN "EnsureAppsCertificate" ELSE "Install"
AfterLimits == IF config.net THEN "EnsureReferenceGrant" ELSE AfterRoute

\* Mutant: the teardown takes the certificate and the listener to go with the
\* namespace.
AfterDeleteRouteShort == "DeleteNamespace"

\* Where a teardown goes on after the release, and after the TLSRoute.
AfterDeleteRoute == IF config.apps THEN "DeleteListener" ELSE "DeleteNamespace"
AfterUninstall   == IF config.net THEN "DeleteTLSRoute" ELSE AfterDeleteRoute

-----------------------------------------------------------------------------
(* Reconcile *)

\* Mutant: the phase is set before the finalizer is looked at.
FirstCallPhaseFirst(c) ==
  CASE c.life = "absent"                               -> "idle"
    [] c.life = "deleting" /\ ~c.fin                   -> "idle"
    [] c.life = "deleting" /\ c.fin                    -> "Uninstall"
    [] c.life = "live" /\ c.phase = ""                 -> "MarkPending"
    [] c.life = "live" /\ c.phase # "" /\ ~c.fin       -> "AddFinalizer"
    [] OTHER                                           -> "EnsureNamespace"

\* What Reconcile and reconcileDelete do first with the copy they read.
FirstCall(c) ==
  CASE c.life = "absent"                               -> "idle"
    [] c.life = "deleting" /\ ~c.fin                   -> "idle"
    [] c.life = "deleting" /\ c.fin /\ c.phase # "Deleting" -> "MarkDeleting"
    [] c.life = "deleting" /\ c.fin /\ c.phase = "Deleting" -> "Uninstall"
    [] c.life = "live" /\ ~c.fin                       -> "AddFinalizer"
    [] c.life = "live" /\ c.fin /\ c.phase = ""        -> "MarkPending"
    [] OTHER                                           -> "EnsureNamespace"

Reconcile(t) ==
  /\ At("idle")
  /\ t \in queue
  /\ queue' = queue \ {t}
  /\ worker' = IF FirstCall(seen[t]) = "idle" THEN Idle
               ELSE [pc |-> FirstCall(seen[t]), t |-> t, obj |-> seen[t],
                     fresh |-> current[t]]
  /\ UNCHANGED <<crVars, seen, current, config, nsVars, copyVars, helmVars, netVars,
                 gwVars, faults>>

AddFinalizer ==
  /\ At("AddFinalizer")
  /\ WriteCR([worker.obj EXCEPT !.fin = TRUE], "idle")
  /\ UNCHANGED <<issued, seen, config, nsVars, copyVars, helmVars, netVars, gwVars,
                 faults>>

MarkPending ==
  /\ At("MarkPending")
  /\ WriteCR(Stamped([worker.obj EXCEPT !.phase = "Pending"]), "EnsureNamespace")
  /\ UNCHANGED <<issued, seen, config, nsVars, copyVars, helmVars, netVars, gwVars,
                 faults>>

\* An existing namespace is taken as it is, whoever made it and even while it
\* terminates.  The controller owns the namespaces it creates, so their events
\* enqueue the owner.
EnsureNamespace ==
  /\ At("EnsureNamespace")
  /\ IF ns[MyNs].state = "absent"
     THEN /\ ns' = [ns EXCEPT ![MyNs] = [state |-> "active", label |-> worker.t]]
          /\ queue' = queue \cup {worker.t}
     ELSE UNCHANGED <<ns, queue>>
  /\ Goto("EnsureResourceQuota")
  /\ UNCHANGED <<crVars, seen, current, config, inside, copyVars, helmVars, netVars,
                 gwVars, faults>>

\* Mutant: the limits of a quota are set when it is made, not when it is updated.
EnsureResourceQuotaOnce ==
  /\ At("EnsureResourceQuota")
  /\ LET asked == Quota[worker.obj.spec]
         kept  == IF "none" \in {asked, Copy("quota")} THEN asked ELSE Copy("quota")
     IN  \/ asked = "bad" /\ Goto("Fail") /\ UNCHANGED <<inside, misled>>
         \/ asked # "bad" /\ EnsureObject("quota", kept, "none", "EnsureLimitRange")
  /\ UNCHANGED <<crVars, cacheVars, config, ns, informerVars, helmVars, netVars,
                 gwVars, faults>>

\* Resources that do not parse are an error; without resources the quota goes.
EnsureResourceQuota ==
  /\ At("EnsureResourceQuota")
  /\ \/ /\ Quota[worker.obj.spec] = "bad"
        /\ Goto("Fail")
        /\ UNCHANGED <<inside, misled>>
     \/ /\ Quota[worker.obj.spec] # "bad"
        /\ EnsureObject("quota", Quota[worker.obj.spec], "none", "EnsureLimitRange")
  /\ UNCHANGED <<crVars, cacheVars, config, ns, informerVars, helmVars, netVars,
                 gwVars, faults>>

EnsureLimitRange ==
  /\ At("EnsureLimitRange")
  /\ EnsureObject("limits", LimitsFor(worker.obj.spec), FALSE, AfterLimits)
  /\ UNCHANGED <<crVars, cacheVars, config, ns, informerVars, helmVars, netVars,
                 gwVars, faults>>

EnsureReferenceGrant ==
  /\ At("EnsureReferenceGrant")
  /\ EnsureObject("grant", TRUE, FALSE, "EnsureTLSRoute")
  /\ UNCHANGED <<crVars, cacheVars, config, ns, informerVars, helmVars, netVars,
                 gwVars, faults>>

\* CreateOrUpdate again.  Over a copy of a route that is gone it is an Update
\* that finds nothing, or no call at all: that hangs on the fields which the API
\* server filled in.
EnsureTLSRoute ==
  /\ At("EnsureTLSRoute")
  /\ \/ /\ RouteCopied <=> worker.t \in route
        /\ route' = route \cup {worker.t}
        /\ Misled("route", FALSE)
        /\ Goto(AfterRoute)
     \/ /\ RouteCopied /\ worker.t \notin route
        /\ Misled("route", TRUE)
        /\ Goto(AfterRoute)
        /\ UNCHANGED route
     \/ /\ ~(RouteCopied <=> worker.t \in route)
        /\ Goto("Fail")
        /\ UNCHANGED <<route, misled>>
  /\ UNCHANGED <<crVars, cacheVars, config, nsVars, informerVars, helmVars, cert,
                 certSecret, gwVars, faults>>

\* The client reads unstructured objects from the API server, not from a cache.
EnsureAppsCertificate ==
  /\ At("EnsureAppsCertificate")
  /\ cert' = cert \cup {worker.t}
  /\ Goto("EnsureAppsListener")
  /\ UNCHANGED <<crVars, cacheVars, config, nsVars, copyVars, helmVars, route,
                 certSecret, gwVars, faults>>

\* Update of the Gateway with the listeners of the cached copy changed to ls.
WriteGateway(ls) ==
  /\ gw' = [gw EXCEPT !.listeners = ls]
  /\ gwCurrent' = (ls = gw.listeners)

\* Mutant: the list is written over whatever is stored (a patch, no Update).
ListenerForced == gwSeen.exists

\* The whole listener list is written from the cached copy: it needs the
\* Gateway to be there and to be the version that was read.
ListenerAccepted ==
  /\ gwSeen.exists
  /\ gwCurrent

EnsureAppsListener ==
  /\ At("EnsureAppsListener")
  /\ IF ListenerAccepted
     THEN WriteGateway(gwSeen.listeners \cup {worker.t}) /\ Goto("Install")
     ELSE Goto("Fail") /\ UNCHANGED <<gw, gwCurrent>>
  /\ UNCHANGED <<crVars, cacheVars, config, nsVars, copyVars, helmVars, netVars,
                 gwSeen, faults>>

-----------------------------------------------------------------------------
(* HelmProvisioner *)

\* Install: Helm records a pending revision, applies the chart and records the
\* outcome.  Upgrading a release whose last revision is pending is refused.
HelmAccepts ==
  /\ worker.obj.spec \notin BadSpecs
  /\ ns[MyNs].state = "active"
  /\ release[worker.t].status # "pending"

\* Mutant: a release that exists is taken as installed.
InstallOnce ==
  /\ At("Install")
  /\ IF HelmAccepts
     THEN IF release[worker.t].status = "deployed"
          THEN Goto("VclusterReady") /\ UNCHANGED release
          ELSE /\ release' = [release EXCEPT ![worker.t] =
                                [status |-> "pending", spec |-> worker.obj.spec]]
               /\ Goto("InstallRun")
     ELSE Goto("Fail") /\ UNCHANGED release
  /\ UNCHANGED <<crVars, cacheVars, config, nsVars, copyVars, vc, netVars, gwVars,
                 faults>>

\* Mutant: a refused upgrade uninstalls the release to clear the pending revision.
InstallReplaces ==
  /\ At("Install")
  /\ IF HelmAccepts
     THEN /\ release' = [release EXCEPT ![worker.t] =
                           [status |-> "pending", spec |-> worker.obj.spec]]
          /\ Goto("InstallRun")
     ELSE Goto("Fail") /\ release' = [release EXCEPT ![worker.t] = NoRelease]
  /\ UNCHANGED <<crVars, cacheVars, config, nsVars, copyVars, vc, netVars, gwVars,
                 faults>>

Install ==
  /\ At("Install")
  /\ IF HelmAccepts
     THEN /\ release' = [release EXCEPT ![worker.t] =
                           [status |-> "pending", spec |-> worker.obj.spec]]
          /\ Goto("InstallRun")
     ELSE Goto("Fail") /\ UNCHANGED release
  /\ UNCHANGED <<crVars, cacheVars, config, nsVars, copyVars, vc, netVars, gwVars,
                 faults>>

\* The namespace may have started to terminate, or gone, since the revision was
\* recorded: the release then fails, or its record is already gone.
InstallRun ==
  /\ At("InstallRun")
  /\ IF ns[MyNs].state = "active"
     THEN /\ release' = [release EXCEPT ![worker.t].status = "deployed"]
          /\ vc' = [vc EXCEPT ![worker.t].made = TRUE]
          /\ Goto("VclusterReady")
     ELSE /\ release' = [release EXCEPT ![worker.t].status =
                           IF @ = "none" THEN @ ELSE "failed"]
          /\ Goto("Fail")
          /\ UNCHANGED vc
  /\ UNCHANGED <<crVars, cacheVars, config, nsVars, copyVars, netVars, gwVars,
                 faults>>

\* vclusterReady: the workload is ready and the kubeconfig Secret has its key.
VclusterReady ==
  /\ At("VclusterReady")
  /\ Goto(IF vc[worker.t].up /\ vc[worker.t].secret
          THEN "StatusReady" ELSE "StatusProvisioning")
  /\ UNCHANGED <<crVars, cacheVars, config, nsVars, copyVars, helmVars, netVars,
                 gwVars, faults>>

StatusReady ==
  /\ At("StatusReady")
  /\ WriteCR(Stamped([worker.obj EXCEPT !.phase = "Ready", !.ready = TRUE,
                                        !.ref = TRUE]), "idle")
  /\ UNCHANGED <<issued, seen, config, nsVars, copyVars, helmVars, netVars, gwVars,
                 faults>>

\* Mutant: the pass ends without RequeueAfter.
StatusProvisioningOnce ==
  /\ At("StatusProvisioning")
  /\ WriteCR(Stamped([worker.obj EXCEPT !.phase = "Provisioning",
                        !.ready = FALSE, !.ref = FALSE]), "idle")
  /\ UNCHANGED <<issued, seen, config, nsVars, copyVars, helmVars, netVars, gwVars,
                 faults>>

\* Not ready yet: the status says so and the pass is repeated after a delay.
StatusProvisioning ==
  /\ At("StatusProvisioning")
  /\ StoreCR(Stamped([worker.obj EXCEPT !.phase = "Provisioning",
                        !.ready = FALSE, !.ref = FALSE]))
  /\ Requeue
  /\ UNCHANGED <<issued, seen, config, nsVars, copyVars, helmVars, netVars, gwVars,
                 faults>>

\* Mutant: the condition's reason is written to the phase.
FailReason ==
  /\ At("Fail")
  /\ StoreCR(Stamped([worker.obj EXCEPT !.phase = "ProvisioningFailed",
                                        !.ready = FALSE]))
  /\ Requeue
  /\ UNCHANGED <<issued, seen, config, nsVars, copyVars, helmVars, netVars, gwVars,
                 faults>>

\* fail(): a status write whose own error is only logged; the cause is returned.
\* kubeconfigSecretRef stays as it was.
Fail ==
  /\ At("Fail")
  /\ StoreCR(Stamped([worker.obj EXCEPT !.phase = "Failed", !.ready = FALSE]))
  /\ Requeue
  /\ UNCHANGED <<issued, seen, config, nsVars, copyVars, helmVars, netVars, gwVars,
                 faults>>

-----------------------------------------------------------------------------
(* reconcileDelete *)

MarkDeleting ==
  /\ At("MarkDeleting")
  /\ WriteCR(Stamped([worker.obj EXCEPT !.phase = "Deleting"]), "Uninstall")
  /\ UNCHANGED <<issued, seen, config, nsVars, copyVars, helmVars, netVars, gwVars,
                 faults>>

\* A missing release is not an error, and any revision can be uninstalled.
Uninstall ==
  /\ At("Uninstall")
  /\ release' = [release EXCEPT ![worker.t] = NoRelease]
  /\ vc' = [vc EXCEPT ![worker.t].made = FALSE, ![worker.t].up = FALSE]
  /\ Goto(AfterUninstall)
  /\ UNCHANGED <<crVars, cacheVars, config, nsVars, copyVars, netVars, gwVars,
                 faults>>

DeleteTLSRoute ==
  /\ At("DeleteTLSRoute")
  /\ route' = route \ {worker.t}
  /\ Goto(AfterDeleteRoute)
  /\ UNCHANGED <<crVars, cacheVars, config, nsVars, copyVars, helmVars, cert,
                 certSecret, gwVars, faults>>

\* The Gateway is written only when the cached copy lists the tenant.
DeleteListener ==
  /\ At("DeleteListener")
  /\ \/ /\ ~gwSeen.exists \/ worker.t \notin gwSeen.listeners
        /\ Goto("DeleteCertificate")
        /\ UNCHANGED <<gw, gwCurrent, queue>>
     \/ /\ gwSeen.exists /\ worker.t \in gwSeen.listeners
        /\ \/ /\ gwCurrent
              /\ WriteGateway(gwSeen.listeners \ {worker.t})
              /\ Goto("DeleteCertificate")
              /\ UNCHANGED queue
           \/ /\ ~gwCurrent
              /\ Requeue
              /\ UNCHANGED <<gw, gwCurrent>>
  /\ UNCHANGED <<crVars, seen, current, config, nsVars, copyVars, helmVars, netVars,
                 gwSeen, faults>>

DeleteCertificate ==
  /\ At("DeleteCertificate")
  /\ cert' = cert \ {worker.t}
  /\ Goto("DeleteCertSecret")
  /\ UNCHANGED <<crVars, cacheVars, config, nsVars, copyVars, helmVars, route,
                 certSecret, gwVars, faults>>

\* Mutant: the namespace is left to the garbage collector.
DeleteCertSecretLast ==
  /\ At("DeleteCertSecret")
  /\ certSecret' = certSecret \ {worker.t}
  /\ Goto("RemoveFinalizer")
  /\ UNCHANGED <<crVars, cacheVars, config, nsVars, copyVars, helmVars, route, cert,
                 gwVars, faults>>

DeleteCertSecret ==
  /\ At("DeleteCertSecret")
  /\ certSecret' = certSecret \ {worker.t}
  /\ Goto("DeleteNamespace")
  /\ UNCHANGED <<crVars, cacheVars, config, nsVars, copyVars, helmVars, route, cert,
                 gwVars, faults>>

\* The owner of a namespace is enqueued when the namespace changes.
OwnerOf(n) == {ns[n].label} \ {None}

\* Deleting a namespace only starts its termination.
Terminate(n) ==
  IF ns[n].state = "active"
  THEN /\ ns' = [ns EXCEPT ![n].state = "terminating"]
       /\ queue' = queue \cup OwnerOf(n)
  ELSE UNCHANGED <<ns, queue>>

DeleteNamespace ==
  /\ At("DeleteNamespace")
  /\ Terminate(MyNs)
  /\ Goto("RemoveFinalizer")
  /\ UNCHANGED <<crVars, seen, current, config, inside, copyVars, helmVars, netVars,
                 gwVars, faults>>

\* With its last finalizer gone the API server removes the CR.
RemoveFinalizer ==
  /\ At("RemoveFinalizer")
  /\ WriteCR(NoCR, "idle")
  /\ UNCHANGED <<issued, seen, config, nsVars, copyVars, helmVars, netVars, gwVars,
                 faults>>

\* The steps of a pass.
WorkerStep ==
  \/ AddFinalizer \/ MarkPending \/ EnsureNamespace \/ EnsureResourceQuota
  \/ EnsureLimitRange \/ EnsureReferenceGrant \/ EnsureTLSRoute
  \/ EnsureAppsCertificate \/ EnsureAppsListener \/ Install \/ InstallRun
  \/ VclusterReady \/ StatusReady \/ StatusProvisioning \/ Fail
  \/ MarkDeleting \/ Uninstall \/ DeleteTLSRoute \/ DeleteListener
  \/ DeleteCertificate \/ DeleteCertSecret \/ DeleteNamespace \/ RemoveFinalizer

-----------------------------------------------------------------------------
(* Users of the Tenant CRs: the API, kubectl, GitOps *)

\* Somebody else wrote t: the copies of the informer and of the worker are old.
Overtaken(t) ==
  /\ current' = [current EXCEPT ![t] = FALSE]
  /\ worker' = [worker EXCEPT !.fresh = @ /\ worker.t # t]

CreateTenant(t) ==
  /\ cr[t].life = "absent"
  /\ issued[t] < MaxSpec
  /\ issued' = [issued EXCEPT ![t] = @ + 1]
  /\ cr' = [cr EXCEPT ![t] = [NoCR EXCEPT !.life = "live", !.spec = issued[t] + 1]]
  /\ Overtaken(t)
  /\ UNCHANGED <<seen, queue, config, nsVars, copyVars, helmVars, netVars, gwVars,
                 faults>>

EditTenant(t) ==
  /\ cr[t].life # "absent"
  /\ issued[t] < MaxSpec
  /\ issued' = [issued EXCEPT ![t] = @ + 1]
  /\ cr' = [cr EXCEPT ![t].spec = issued[t] + 1]
  /\ Overtaken(t)
  /\ UNCHANGED <<seen, queue, config, nsVars, copyVars, helmVars, netVars, gwVars,
                 faults>>

\* A CR without finalizers goes at once, one with a finalizer is marked.
DeleteTenant(t) ==
  /\ cr[t].life = "live"
  /\ cr' = [cr EXCEPT ![t] = IF @.fin THEN [@ EXCEPT !.life = "deleting"] ELSE NoCR]
  /\ Overtaken(t)
  /\ UNCHANGED <<issued, seen, queue, config, nsVars, copyVars, helmVars, netVars,
                 gwVars, faults>>

-----------------------------------------------------------------------------
(* The cluster around the operator *)

\* A watch event brings the informer up to date and enqueues the Tenant.
TenantEvent(t) ==
  /\ ~current[t]
  /\ seen' = [seen EXCEPT ![t] = cr[t]]
  /\ current' = [current EXCEPT ![t] = TRUE]
  /\ queue' = queue \cup {t}
  /\ UNCHANGED <<crVars, worker, config, nsVars, copyVars, helmVars, netVars,
                 gwVars, faults>>

\* Nobody watches the Gateway: its events update the cache and enqueue nothing.
GatewayEvent ==
  /\ ~gwCurrent
  /\ gwSeen' = gw
  /\ gwCurrent' = TRUE
  /\ UNCHANGED <<crVars, cacheVars, worker, config, nsVars, copyVars, helmVars,
                 netVars, gw, faults>>

\* An informer that lagged catches up; nobody watches these objects either.
\* Copies of informers that keep up are not kept in the model.
InformerCatchesUp(k) ==
  /\ k \in lag
  /\ lag' = lag \ {k}
  /\ cached' = [n \in Namespaces |->
                  IF k = "route" THEN cached[n]
                  ELSE [cached[n] EXCEPT ![k] = NoObjects[k]]]
  /\ routeSeen' = IF k = "route" THEN {} ELSE routeSeen
  /\ UNCHANGED <<crVars, cacheVars, worker, config, nsVars, misled, helmVars,
                 netVars, gwVars, faults>>

\* A terminating namespace loses its content and disappears.
NamespaceGone(n) ==
  /\ ns[n].state = "terminating"
  /\ ns' = [ns EXCEPT ![n] = NoNs]
  /\ inside' = [inside EXCEPT ![n] = NoObjects]
  /\ release' = [t \in Tenants |-> IF NsOf[t] = n THEN NoRelease ELSE release[t]]
  /\ vc' = [t \in Tenants |-> IF NsOf[t] = n THEN NoVc ELSE vc[t]]
  /\ queue' = queue \cup OwnerOf(n)
  /\ UNCHANGED <<crVars, seen, current, worker, config, copyVars, netVars, gwVars,
                 faults>>

\* The vCluster workload becomes ready, and exports its kubeconfig.
VclusterUp(t) ==
  /\ vc[t].made /\ ~vc[t].up
  /\ vc' = [vc EXCEPT ![t].up = TRUE]
  /\ UNCHANGED <<crVars, cacheVars, worker, config, nsVars, copyVars, release,
                 netVars, gwVars, faults>>

VclusterExports(t) ==
  /\ vc[t].up /\ ~vc[t].secret
  /\ vc' = [vc EXCEPT ![t].secret = TRUE]
  /\ UNCHANGED <<crVars, cacheVars, worker, config, nsVars, copyVars, release,
                 netVars, gwVars, faults>>

\* cert-manager issues the Secret of a Certificate.
CertIssued(t) ==
  /\ t \in cert \ certSecret
  /\ certSecret' = certSecret \cup {t}
  /\ UNCHANGED <<crVars, cacheVars, worker, config, nsVars, copyVars, helmVars,
                 route, cert, gwVars, faults>>

GatewayCreated ==
  /\ ~gw.exists
  /\ gw' = [exists |-> TRUE, listeners |-> {}]
  /\ gwCurrent' = FALSE
  /\ UNCHANGED <<crVars, cacheVars, worker, config, nsVars, copyVars, helmVars,
                 netVars, gwSeen, faults>>

-----------------------------------------------------------------------------
(* Faults and other disturbances, at most MaxFaults of the kinds of the run *)

Fault(kind) ==
  /\ kind \in FaultKinds
  /\ faults < MaxFaults
  /\ faults' = faults + 1

\* The operator dies and starts again: caches are listed anew, every Tenant is
\* enqueued, and the environment may configure other features.
Restart ==
  /\ Fault("crash")
  /\ worker' = Idle
  /\ seen' = cr
  /\ current' = [t \in Tenants |-> TRUE]
  /\ queue' = {t \in Tenants : cr[t].life # "absent"}
  /\ gwSeen' = gw
  /\ gwCurrent' = TRUE
  /\ lag' = {}
  /\ cached' = [n \in Namespaces |-> NoObjects]
  /\ routeSeen' = {}
  /\ config' \in Configs
  /\ UNCHANGED <<crVars, nsVars, misled, helmVars, netVars, gw>>

\* Mutant: a failed teardown is recorded as the Failed phase too.
CallFailsRecorded ==
  /\ Fault("call")
  /\ ~At("idle")
  /\ IF worker.pc \in EnsureCalls \cup DeleteCalls
     THEN Goto("Fail") /\ UNCHANGED queue ELSE Requeue
  /\ UNCHANGED <<crVars, seen, current, config, nsVars, copyVars, helmVars, netVars,
                 gwVars>>

\* A call returns an error without effect; Helm records a failed revision.
CallFails ==
  /\ Fault("call")
  /\ ~At("idle")
  /\ IF worker.pc \in EnsureCalls THEN Goto("Fail") /\ UNCHANGED queue ELSE Requeue
  /\ IF At("InstallRun")
     THEN release' = [release EXCEPT ![worker.t].status =
                        IF @ = "none" THEN @ ELSE "failed"]
     ELSE UNCHANGED release
  /\ UNCHANGED <<crVars, seen, current, config, nsVars, copyVars, vc, netVars,
                 gwVars>>

\* The periodic resync of the informer enqueues a Tenant without an event.
Resync(t) ==
  /\ Fault("resync")
  /\ seen[t].life # "absent"
  /\ t \notin queue
  /\ queue' = queue \cup {t}
  /\ UNCHANGED <<crVars, seen, current, worker, config, nsVars, copyVars, helmVars,
                 netVars, gwVars>>

\* The informer of a kind stops at what it has now.
InformerLags(k) ==
  /\ Fault(k)
  /\ k \notin lag
  /\ lag' = lag \cup {k}
  /\ cached' = [n \in Namespaces |->
                  IF k = "route" THEN cached[n]
                  ELSE [cached[n] EXCEPT ![k] = inside[n][k]]]
  /\ routeSeen' = IF k = "route" THEN route ELSE routeSeen
  /\ UNCHANGED <<crVars, cacheVars, worker, config, nsVars, misled, helmVars,
                 netVars, gwVars>>

VclusterDown(t) ==
  /\ Fault("workload")
  /\ vc[t].up
  /\ vc' = [vc EXCEPT ![t].up = FALSE]
  /\ UNCHANGED <<crVars, cacheVars, worker, config, nsVars, copyVars, release,
                 netVars, gwVars>>

\* An administrator deletes a tenant namespace.
NamespaceDeleted(n) ==
  /\ Fault("namespace")
  /\ ns[n].state = "active"
  /\ Terminate(n)
  /\ UNCHANGED <<crVars, seen, current, worker, config, inside, copyVars, helmVars,
                 netVars, gwVars>>

GatewayDeleted ==
  /\ Fault("gateway")
  /\ gw.exists
  /\ gw' = [exists |-> FALSE, listeners |-> {}]
  /\ gwCurrent' = FALSE
  /\ UNCHANGED <<crVars, cacheVars, worker, config, nsVars, copyVars, helmVars,
                 netVars, gwSeen>>

\* The gateway controller writes the Gateway's status.
GatewayTouched ==
  /\ Fault("touch")
  /\ gw.exists
  /\ gwCurrent' = FALSE
  /\ UNCHANGED <<crVars, cacheVars, worker, config, nsVars, copyVars, helmVars,
                 netVars, gw, gwSeen>>

-----------------------------------------------------------------------------
Init ==
  /\ cr = [t \in Tenants |-> NoCR]
  /\ issued = [t \in Tenants |-> 0]
  /\ seen = [t \in Tenants |-> NoCR]
  /\ current = [t \in Tenants |-> TRUE]
  /\ queue = {}
  /\ worker = Idle
  /\ config \in Configs
  /\ ns = [n \in Namespaces |->
             [state |-> IF n \in PreExisting THEN "active" ELSE "absent",
              label |-> None]]
  /\ inside = [n \in Namespaces |-> NoObjects]
  /\ lag = {}
  /\ cached = [n \in Namespaces |-> NoObjects]
  /\ misled = [t \in Tenants |-> {}]
  /\ release = [t \in Tenants |-> NoRelease]
  /\ vc = [t \in Tenants |-> NoVc]
  /\ route = {} /\ routeSeen = {} /\ cert = {} /\ certSecret = {}
  /\ gw = [exists |-> TRUE, listeners |-> {}]
  /\ gwSeen = gw
  /\ gwCurrent = TRUE
  /\ faults = 0

Users == \E t \in Tenants : CreateTenant(t) \/ EditTenant(t) \/ DeleteTenant(t)

Cluster ==
  \/ \E t \in Tenants : \/ TenantEvent(t) \/ VclusterUp(t)
                        \/ VclusterExports(t) \/ CertIssued(t)
  \/ \E n \in Namespaces : NamespaceGone(n)
  \/ \E k \in Kinds : InformerCatchesUp(k)
  \/ GatewayEvent \/ GatewayCreated

Faults ==
  \/ Restart \/ CallFails \/ GatewayDeleted \/ GatewayTouched
  \/ \E t \in Tenants : Resync(t) \/ VclusterDown(t)
  \/ \E n \in Namespaces : NamespaceDeleted(n)
  \/ \E k \in Kinds : InformerLags(k)

Next ==
  \/ \E t \in Tenants : Reconcile(t)
  \/ WorkerStep
  \/ Users
  \/ Cluster
  \/ Faults

Spec == Init /\ [][Next]_vars

\* What the scheduling justifies: a pass goes on until it ends; the work queue
\* is first in, first out, so an item in it is taken whenever the worker keeps
\* becoming free; watches deliver; the cluster's own controllers progress.
\* Users and disturbances owe nothing.
Fairness ==
  /\ WF_vars(WorkerStep)
  /\ WF_vars(GatewayEvent)
  /\ WF_vars(GatewayCreated)
  /\ \A n \in Namespaces : WF_vars(NamespaceGone(n))
  /\ \A k \in Kinds : WF_vars(InformerCatchesUp(k))
  /\ \A t \in Tenants : /\ SF_vars(Reconcile(t))
                         /\ WF_vars(TenantEvent(t))
                         /\ WF_vars(VclusterUp(t))
                         /\ WF_vars(VclusterExports(t))

FairSpec == Spec /\ Fairness

-----------------------------------------------------------------------------
(* Properties *)

\* Every variable has its type.
CRTypeOK ==
  /\ cr \in [Tenants -> CR]
  /\ issued \in [Tenants -> Specs]
CacheTypeOK ==
  /\ seen \in [Tenants -> CR]
  /\ current \in [Tenants -> BOOLEAN]
  /\ queue \subseteq Tenants
WorkerTypeOK ==
  /\ worker \in [pc : Calls, t : Tenants \cup {None}, obj : CR, fresh : BOOLEAN]
  /\ worker.pc # "idle" => worker.t \in Tenants
  /\ worker.pc = "idle" => worker = Idle
NsTypeOK ==
  /\ ns \in [Namespaces -> [state : {"absent", "active", "terminating"},
                            label : Tenants \cup {None}]]
  /\ inside \in [Namespaces -> Objects]
HelmTypeOK ==
  /\ release \in [Tenants -> [status : {"none", "pending", "deployed", "failed"},
                              spec : Specs]]
  /\ vc \in [Tenants -> [made : BOOLEAN, up : BOOLEAN, secret : BOOLEAN]]
NetTypeOK ==
  /\ config \in [net : BOOLEAN, apps : BOOLEAN]
  /\ route \subseteq Tenants
  /\ cert \subseteq Tenants
  /\ certSecret \subseteq Tenants
CopyTypeOK ==
  /\ lag \subseteq Kinds
  /\ cached \in [Namespaces -> Objects]
  /\ routeSeen \subseteq Tenants
  /\ misled \in [Tenants -> SUBSET Kinds]
GwTypeOK ==
  /\ gw \in [exists : BOOLEAN, listeners : SUBSET Tenants]
  /\ gwSeen \in [exists : BOOLEAN, listeners : SUBSET Tenants]
  /\ gwCurrent \in BOOLEAN

TypeOK ==
  /\ CRTypeOK /\ CacheTypeOK /\ WorkerTypeOK /\ NsTypeOK
  /\ CopyTypeOK /\ HelmTypeOK /\ NetTypeOK /\ GwTypeOK
  /\ faults \in 0..MaxFaults

\* The Helm release, the TLSRoute, the Certificate and its Secret of a tenant.
HasResources(t) ==
  \/ release[t].status # "none"
  \/ t \in route \cup cert \cup certSecret

\* Nothing a tenant needs torn down exists unless its CR is there and carries
\* the finalizer, whatever stale copies the operator works from and wherever it
\* crashes: the finalizer goes on first (Reconcile) and comes off last
\* (reconcileDelete).
ResourcesGuarded ==
  \A t \in Tenants : HasResources(t) => cr[t].life # "absent" /\ cr[t].fin

\* The operator's promise to users and to the API: resources are held for a
\* tenant only while its CR is there, and every step, also out of a stale copy,
\* maps to a step of that contract.
Lifecycle == INSTANCE TenantLifecycle
  WITH life <- [t \in Tenants |-> cr[t].life],
       held <- {t \in Tenants : HasResources(t)}

ImplementsLifecycle == Lifecycle!Spec

\* A CR the operator has nothing left to do for.
Settled(c) ==
  \/ c.life = "absent"
  \/ /\ c.life = "live" /\ c.fin
     /\ c.phase = "Ready" /\ c.ready /\ c.ref /\ c.obs = c.spec

\* No wakeup is lost: when the cache is up to date and a Tenant is neither
\* queued nor being reconciled, its CR is gone or Ready for its latest spec.
\* Passes that end without asking for a requeue (after the finalizer, after
\* Ready) rely on the event of their own write.
NoLostWakeup ==
  \A t \in Tenants :
    current[t] /\ t \notin queue /\ worker.t # t => Settled(cr[t])

\* While Ready is reported for the current spec, the release is that of that
\* spec, and so are the quota, the limits, the grant, the TLSRoute and the
\* Certificate, whatever old copies of the Tenant the passes worked from and
\* wherever they failed.  The one exception is an object of which a pass read an
\* old copy that looked as wanted: CreateOrUpdate then writes nothing.
ReadyReflectsSpec ==
  \A t \in Tenants :
    cr[t].phase = "Ready" /\ cr[t].obs = cr[t].spec =>
      LET has == inside[NsOf[t]]
      IN  /\ release[t].status # "none" /\ release[t].spec = cr[t].spec
          /\ "quota" \in misled[t] \/ has.quota = Quota[cr[t].spec]
          /\ "limits" \in misled[t] \/ has.limits = LimitsFor(cr[t].spec)
          /\ config.net => "grant" \in misled[t] \/ has.grant
          /\ config.net => "route" \in misled[t] \/ t \in route
          /\ config.apps => t \in cert

\* What the operator's steps take away from a tenant.
Losing(t) ==
  \/ release[t].status # "none" /\ release'[t].status = "none"
  \/ t \in route /\ t \notin route'
  \/ t \in cert /\ t \notin cert'
  \/ t \in certSecret /\ t \notin certSecret'
  \/ ns[NsOf[t]].state = "active" /\ ns'[NsOf[t]].state # "active"

\* The operator takes nothing from a tenant whose CR is live, also when a
\* deleted tenant was created again under the same name before the cache saw it.
TeardownOnlyWhenDeleting ==
  [][\A t \in Tenants :
       worker.t = t /\ worker' # worker /\ Losing(t) => cr[t].life = "deleting"]_vars

\* A listener leaves the shared Gateway only with the Gateway or by the teardown
\* of its own tenant: reconciling one tenant never drops another's listener,
\* although each pass writes the whole list back (ensureAppsListener,
\* deleteTenantApps).
ListenersIndependent ==
  [][\A t \in Tenants :
       t \in gw.listeners /\ t \notin gw'.listeners =>
         ~gw'.exists \/ (At("DeleteListener") /\ worker.t = t)]_vars

\* Once a CR says Deleting it says so until it is gone, whatever fails.
DeletingIsFinal ==
  [][\A t \in Tenants :
       cr[t].phase = "Deleting" =>
         cr'[t].phase = "Deleting" \/ cr'[t].life = "absent"]_vars

\* A deleted tenant's CR eventually goes: retries get past every failed call,
\* conflict and crash of the teardown.
DeletionCompletes ==
  \A t \in Tenants : cr[t].life = "deleting" ~> cr[t].life = "absent"

\* A tenant with an acceptable spec eventually reports Ready for it, or its spec
\* changes, or it is deleted.
BecomesReady(t) ==
  cr[t].life = "live" /\ cr[t].spec \notin BadSpecs
    ~> \/ cr[t].phase = "Ready" /\ cr[t].obs = cr[t].spec
       \/ cr[t].life # "live"
       \/ cr[t].spec \in BadSpecs

\* Level-triggered recovery: restarts and half-finished provisions included,
\* every live tenant becomes Ready.
EventuallyReady == \A t \in Tenants : BecomesReady(t)

\* The same, unless the operator died inside Helm: only a revision that stays
\* pending for ever keeps a tenant from becoming Ready.
ReadyUnlessHelmStuck ==
  \A t \in Tenants : BecomesReady(t) \/ <>[](release[t].status = "pending")

\* After its CR is gone a tenant's namespace goes too, unless the name is
\* used again.
NamespaceFollows ==
  \A t \in Tenants :
    cr[t].life = "absent" ~> cr[t].life # "absent" \/ ns[NsOf[t]].state = "absent"

\* No listener of a tenant stays on the shared Gateway after its CR is gone.
ListenersGuarded ==
  \A t \in gw.listeners : cr[t].life # "absent"

=============================================================================
