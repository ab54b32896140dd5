--------------------- MODULE TenantOperatorReadyProofs ----------------------
(***************************************************************************)
(* What users may rely on while the operator works from stale copies: a    *)
(* tenant that is Ready for its spec has what that spec asks for, nothing  *)
(* is taken from a tenant that is not being deleted, a CR that says        *)
(* Deleting stays so, and no pass drops another tenant's listener.         *)
(***************************************************************************)
EXTENDS TenantOperatorGuardProofs

USE ConstantFacts

-----------------------------------------------------------------------------
(* The kinds of steps *)

\* A user writes the CR of t: creates it, edits its spec, marks it for deletion
\* or, without the finalizer, removes it.
ByUser(t) ==
  /\ Overtaken(t)
  /\ UNCHANGED <<seen, config, nsVars, copyVars, helmVars, netVars, gwVars>>
  /\ \A u \in Tenants \ {t} : cr'[u] = cr[u] /\ issued'[u] = issued[u]
  /\ \/ /\ cr[t].life = "absent" /\ cr'[t].life = "live" /\ ~cr'[t].fin
        /\ cr'[t].phase = "" /\ cr'[t].obs = 0
        /\ cr'[t].spec = issued[t] + 1 /\ issued'[t] = issued[t] + 1
     \/ /\ cr'[t].life = cr[t].life /\ (cr'[t].fin <=> cr[t].fin)
        /\ cr'[t].phase = cr[t].phase /\ cr'[t].obs = cr[t].obs
        /\ cr'[t].spec = issued[t] + 1 /\ issued'[t] = issued[t] + 1
     \/ /\ cr[t].life = "live" /\ cr[t].fin /\ cr'[t].life = "deleting" /\ cr'[t].fin
        /\ cr'[t].phase = cr[t].phase /\ cr'[t].obs = cr[t].obs
        /\ cr'[t].spec = cr[t].spec /\ issued'[t] = issued[t]
     \/ /\ cr[t].life = "live" /\ ~cr[t].fin
        /\ cr'[t] = NoCR /\ issued'[t] = issued[t]

\* The calls that write a status on the path of a live Tenant.
StatusWrites == {"MarkPending", "StatusReady", "StatusProvisioning", "Fail"}

\* A pass writes the CR of its Tenant, which nobody else has written since.
ByPass ==
  LET t == worker.t IN
  /\ t \in Tenants /\ worker.fresh /\ cr[t] = worker.obj
  /\ \A u \in Tenants \ {t} : cr'[u] = cr[u]
  /\ UNCHANGED <<issued, seen, config, nsVars, copyVars, helmVars, netVars, gwVars>>
  /\ \/ /\ worker.pc = "AddFinalizer" /\ worker' = Idle
        /\ cr[t].life = "live" /\ cr'[t].life = "live" /\ cr'[t].fin
        /\ cr'[t].phase = cr[t].phase /\ cr'[t].obs = cr[t].obs /\ cr'[t].spec = cr[t].spec
     \/ /\ worker.pc \in StatusWrites /\ cr[t].life = "live" /\ cr'[t].life = "live" /\ cr'[t].fin
        /\ cr'[t].phase \in {"Pending", "Ready", "Provisioning", "Failed"}
        /\ cr'[t].phase = "Ready" => worker.pc = "StatusReady"
        /\ cr'[t].obs = cr[t].spec /\ cr'[t].spec = cr[t].spec
        /\ \/ worker' = Idle
           \/ /\ worker.pc = "MarkPending" /\ worker'.pc = "EnsureNamespace" /\ worker'.t = t
              /\ worker'.fresh /\ worker'.obj = cr'[t]
     \/ /\ worker.pc = "MarkDeleting" /\ cr[t].life = "deleting" /\ cr'[t].life = "deleting"
        /\ cr'[t].phase = "Deleting" /\ cr'[t].fin
        /\ cr'[t].obs = cr[t].spec /\ cr'[t].spec = cr[t].spec
        /\ worker'.pc = "Uninstall" /\ worker'.t = t /\ worker'.obj = cr'[t] /\ worker'.fresh
     \/ /\ worker.pc = "RemoveFinalizer" /\ worker' = Idle
        /\ cr'[t] = NoCR

\* A pass ends without having written anything.
PassEnds ==
  /\ worker.pc # "idle" /\ worker' = Idle
  /\ UNCHANGED <<cr, issued, seen, config, nsVars, copyVars, helmVars, netVars, gwVars>>

\* A call of a pass that writes no CR.
OtherCall ==
  \/ EnsureNamespace \/ EnsureResourceQuota \/ EnsureLimitRange
  \/ EnsureReferenceGrant \/ EnsureTLSRoute \/ EnsureAppsCertificate
  \/ EnsureAppsListener \/ Install \/ InstallRun \/ VclusterReady
  \/ Uninstall \/ DeleteTLSRoute \/ DeleteListener \/ DeleteCertificate
  \/ DeleteCertSecret \/ DeleteNamespace

\* A call of the path of a live Tenant fails.
EnsureFails ==
  /\ CallFails
  /\ worker.pc \in EnsureCalls /\ Goto("Fail")
  /\ UNCHANGED <<cr, issued>>

\* Something happens around the operator that concerns neither CRs nor what a
\* tenant has, but the Secret of a certificate.
Outside ==
  /\ UNCHANGED <<cr, issued, seen, worker, config, ns, inside, misled, release, route, cert>>
  /\ \A t \in certSecret' : t \in certSecret \cup cert
  /\ \/ UNCHANGED gwVars
     \/ GatewayEvent \/ GatewayCreated \/ GatewayDeleted \/ GatewayTouched

(* A write with a copy of the worker. *)
LEMMA PassWrites ==
  ASSUME TypeOK, WakeInv, worker.pc # "idle", NEW c \in CR, StoreCR(c)
  PROVE  /\ worker.t \in Tenants
         /\ worker.fresh => /\ cr[worker.t] = worker.obj /\ cr'[worker.t] = c
                            /\ \A u \in Tenants \ {worker.t} : cr'[u] = cr[u]
         /\ ~worker.fresh => cr' = cr
<1>1. worker.t \in Tenants /\ cr \in [Tenants -> CR]
  BY DEF TypeOK, CRTypeOK, WorkerTypeOK
<1>. QED BY <1>1 DEF StoreCR, WakeInv, FreshCopies

(* A call that writes a status. *)
LEMMA StatusWritten ==
  ASSUME TypeOK, WakeInv,
         StatusReady \/ StatusProvisioning \/ Fail \/ MarkPending
  PROVE  ByPass \/ PassEnds
<1>a. /\ worker.obj \in CR /\ worker.pc \in StatusWrites /\ worker.pc # "idle"
      /\ worker.obj.life = "live" /\ worker.obj.fin
      /\ UNCHANGED <<issued, seen, config, nsVars, copyVars, helmVars, netVars, gwVars>>
  BY DEF TypeOK, WorkerTypeOK, StatusReady, StatusProvisioning, Fail, MarkPending, At,
         StatusWrites, WakeInv, PassMatchesCopy, EnsurePath, StatusCalls
<1>1. PICK c \in CR :
        /\ StoreCR(c)
        /\ c.life = "live" /\ c.fin /\ c.spec = worker.obj.spec /\ c.obs = worker.obj.spec
        /\ c.phase \in {"Pending", "Ready", "Provisioning", "Failed"}
        /\ c.phase = "Ready" => worker.pc = "StatusReady"
        /\ \/ worker' = Idle
           \/ /\ worker.fresh /\ worker.pc = "MarkPending"
              /\ worker' = [worker EXCEPT !.obj = c, !.pc = "EnsureNamespace"]
  <2>1. CASE StatusReady
    <3>1. Stamped([worker.obj EXCEPT !.phase = "Ready", !.ready = TRUE, !.ref = TRUE]) \in CR
      BY <1>a DEF CR, Phases, Stamped
    <3>. QED BY <1>a, <2>1, <3>1 DEF StatusReady, At, WriteCR, Requeue, Stamped, CR
  <2>2. CASE StatusProvisioning
    <3>1. Stamped([worker.obj EXCEPT !.phase = "Provisioning", !.ready = FALSE,
                                     !.ref = FALSE]) \in CR
      BY <1>a DEF CR, Phases, Stamped
    <3>. QED BY <1>a, <2>2, <3>1 DEF StatusProvisioning, At, Requeue, Stamped, CR
  <2>3. CASE Fail
    <3>1. Stamped([worker.obj EXCEPT !.phase = "Failed", !.ready = FALSE]) \in CR
      BY <1>a DEF CR, Phases, Stamped
    <3>. QED BY <1>a, <2>3, <3>1 DEF Fail, At, Requeue, Stamped, CR
  <2>4. CASE MarkPending
    <3>1. Stamped([worker.obj EXCEPT !.phase = "Pending"]) \in CR
      BY <1>a DEF CR, Phases, Stamped
    <3>. QED BY <1>a, <2>4, <3>1 DEF MarkPending, At, WriteCR, Requeue, Stamped, CR
  <2>. QED BY <2>1, <2>2, <2>3, <2>4
<1>2. CASE worker.fresh
  <2>1. worker' = [worker EXCEPT !.obj = c, !.pc = "EnsureNamespace"] =>
          /\ worker'.pc = "EnsureNamespace" /\ worker'.t = worker.t
          /\ worker'.fresh /\ worker'.obj = c
    BY <1>2 DEF TypeOK, WorkerTypeOK
  <2>. QED BY <1>a, <1>1, <1>2, <2>1, PassWrites DEF ByPass
<1>3. CASE ~worker.fresh
  BY <1>a, <1>1, <1>3, PassWrites DEF PassEnds
<1>. QED BY <1>2, <1>3

(* The other calls that write the CR. *)
LEMMA FinalizerWritten ==
  ASSUME TypeOK, WakeInv,
         AddFinalizer \/ MarkDeleting \/ RemoveFinalizer
  PROVE  ByPass \/ PassEnds
<1>a. /\ worker.obj \in CR /\ worker.pc # "idle"
      /\ UNCHANGED <<issued, seen, config, nsVars, copyVars, helmVars, netVars, gwVars>>
  BY DEF TypeOK, WorkerTypeOK, AddFinalizer, MarkDeleting, RemoveFinalizer, At
<1>1. CASE AddFinalizer
  <2> DEFINE c == [worker.obj EXCEPT !.fin = TRUE]
  <2>1. /\ c \in CR /\ c.life = worker.obj.life /\ c.fin /\ c.phase = worker.obj.phase
        /\ c.obs = worker.obj.obs /\ c.spec = worker.obj.spec
    BY <1>a DEF CR
  <2>2. StoreCR(c) /\ worker' = Idle /\ worker.pc = "AddFinalizer" /\ worker.obj.life = "live"
    BY <1>1 DEF AddFinalizer, WriteCR, Requeue, At, WakeInv, PassMatchesCopy
  <2>. HIDE DEF c
  <2>. QED BY <1>a, <2>1, <2>2, PassWrites DEF ByPass, PassEnds
<1>2. CASE MarkDeleting
  <2> DEFINE c == Stamped([worker.obj EXCEPT !.phase = "Deleting"])
  <2>1. /\ c \in CR /\ c.life = worker.obj.life /\ (c.fin <=> worker.obj.fin)
        /\ c.phase = "Deleting" /\ c.obs = worker.obj.spec /\ c.spec = worker.obj.spec
    BY <1>a DEF CR, Phases, Stamped
  <2>2. /\ StoreCR(c) /\ worker.pc = "MarkDeleting"
        /\ worker.obj.life = "deleting" /\ worker.obj.fin
        /\ IF worker.fresh THEN worker' = [worker EXCEPT !.obj = c, !.pc = "Uninstall"]
           ELSE worker' = Idle
    BY <1>2 DEF MarkDeleting, WriteCR, Requeue, At, WakeInv, PassMatchesCopy, DeleteCalls
  <2>. HIDE DEF c
  <2>3. worker.fresh => /\ worker'.pc = "Uninstall" /\ worker'.t = worker.t
                        /\ worker'.fresh /\ worker'.obj = c
    BY <2>2 DEF TypeOK, WorkerTypeOK
  <2>4. CASE worker.fresh
    BY <1>a, <2>1, <2>2, <2>3, <2>4, PassWrites DEF ByPass
  <2>5. CASE ~worker.fresh
    BY <1>a, <2>1, <2>2, <2>5, PassWrites DEF PassEnds
  <2>. QED BY <2>4, <2>5
<1>3. CASE RemoveFinalizer
  <2>1. NoCR \in CR
    BY ConstantTypes DEF NoCR
  <2>2. StoreCR(NoCR) /\ worker' = Idle /\ worker.pc = "RemoveFinalizer"
    BY <1>3 DEF RemoveFinalizer, WriteCR, Requeue, At
  <2>. QED BY <1>a, <2>1, <2>2, PassWrites DEF ByPass, PassEnds
<1>. QED BY <1>1, <1>2, <1>3

(* A user's write. *)
LEMMA UserWrites ==
  ASSUME TypeOK, NEW t \in Tenants, CreateTenant(t) \/ EditTenant(t) \/ DeleteTenant(t)
  PROVE  ByUser(t)
<1>1. cr \in [Tenants -> CR] /\ issued \in [Tenants -> Specs] /\ cr[t] \in CR
  BY DEF TypeOK, CRTypeOK
<1>2. CASE CreateTenant(t)
  <2> DEFINE c == [NoCR EXCEPT !.life = "live", !.spec = issued[t] + 1]
  <2>1. /\ c.life = "live" /\ ~c.fin /\ c.phase = "" /\ c.obs = 0 /\ c.spec = issued[t] + 1
        /\ cr' = [cr EXCEPT ![t] = c] /\ cr[t].life = "absent"
        /\ issued' = [issued EXCEPT ![t] = issued[t] + 1]
    BY <1>2 DEF CreateTenant, NoCR
  <2>. HIDE DEF c
  <2>. QED BY <1>1, <1>2, <2>1 DEF CreateTenant, ByUser
<1>3. CASE EditTenant(t)
  <2> DEFINE c == [cr[t] EXCEPT !.spec = issued[t] + 1]
  <2>1. /\ c.life = cr[t].life /\ (c.fin <=> cr[t].fin) /\ c.phase = cr[t].phase
        /\ c.obs = cr[t].obs /\ c.spec = issued[t] + 1
        /\ cr' = [cr EXCEPT ![t] = c]
        /\ issued' = [issued EXCEPT ![t] = issued[t] + 1]
    BY <1>1, <1>3 DEF EditTenant, CR
  <2>. HIDE DEF c
  <2>. QED BY <1>1, <1>3, <2>1 DEF EditTenant, ByUser
<1>4. CASE DeleteTenant(t)
  <2>1. CASE cr[t].fin
    <3> DEFINE c == [cr[t] EXCEPT !.life = "deleting"]
    <3>1. /\ c.life = "deleting" /\ (c.fin <=> cr[t].fin) /\ c.phase = cr[t].phase
          /\ c.obs = cr[t].obs /\ c.spec = cr[t].spec
          /\ cr' = [cr EXCEPT ![t] = c] /\ issued' = issued /\ cr[t].life = "live"
      BY <1>1, <1>4, <2>1 DEF DeleteTenant, CR
    <3>. HIDE DEF c
    <3>. QED BY <1>1, <1>4, <2>1, <3>1 DEF DeleteTenant, ByUser
  <2>2. CASE ~cr[t].fin
    BY <1>1, <1>4, <2>2 DEF DeleteTenant, ByUser
  <2>. QED BY <2>1, <2>2
<1>. QED BY <1>2, <1>3, <1>4

(* Every step is of one of these kinds. *)
LEMMA StepKinds ==
  ASSUME TypeOK, WakeInv, [Next]_vars
  PROVE  \/ \E t \in Tenants : ByUser(t) \/ Reconcile(t) \/ TenantEvent(t)
         \/ \E n \in Namespaces : NamespaceGone(n) \/ NamespaceDeleted(n)
         \/ ByPass \/ PassEnds \/ OtherCall \/ EnsureFails \/ Restart \/ Outside
<1> USE DEF crVars, cacheVars, nsVars, copyVars, helmVars, netVars, gwVars
<1>1. CASE CallFails
  <2>1. CASE worker.pc \in EnsureCalls
    BY <1>1, <2>1 DEF CallFails, EnsureFails
  <2>2. CASE worker.pc \notin EnsureCalls
    BY <1>1, <2>2 DEF CallFails, At, Requeue, PassEnds, EnsureCalls
  <2>. QED BY <2>1, <2>2
<1>2. CASE GatewayEvent \/ GatewayCreated \/ GatewayDeleted \/ GatewayTouched
  BY <1>2 DEF GatewayEvent, GatewayCreated, GatewayDeleted, GatewayTouched, Outside
<1>3. ASSUME NEW t \in Tenants, VclusterUp(t) \/ VclusterExports(t) \/ CertIssued(t)
                                  \/ Resync(t) \/ VclusterDown(t)
      PROVE  Outside
  BY <1>3 DEF VclusterUp, VclusterExports, CertIssued, Resync, VclusterDown, Outside
<1>7. ASSUME NEW k \in Kinds, InformerCatchesUp(k) \/ InformerLags(k) PROVE Outside
  BY <1>7 DEF InformerCatchesUp, InformerLags, Outside
<1>4. CASE UNCHANGED vars
  BY <1>4 DEF vars, Outside
<1>5. CASE WorkerStep
  BY <1>5, StatusWritten, FinalizerWritten DEF WorkerStep, OtherCall
<1>6. CASE Users
  BY <1>6, UserWrites DEF Users
<1>. QED BY <1>1, <1>2, <1>3, <1>4, <1>5, <1>6, <1>7 DEF Next, Cluster, Faults

-----------------------------------------------------------------------------
(* Deleting is final *)

\* Only a CR that is being deleted says Deleting, and so does a copy of it.
SaysDeleting ==
  \A t \in Tenants : /\ cr[t].phase = "Deleting" => cr[t].life = "deleting"
                     /\ seen[t].phase = "Deleting" => seen[t].life = "deleting"

\* What the informer sees is what it saw or what is stored.
LEMMA SeenMoves ==
  ASSUME TypeOK, WakeInv, [Next]_vars, NEW t \in Tenants
  PROVE  seen'[t] = seen[t] \/ (seen'[t] = cr[t] /\ cr'[t] = cr[t])
<1> USE DEF crVars, cacheVars
<1>1. CASE OtherCall
  BY <1>1 DEF OtherCall, EnsureNamespace, EnsureResourceQuota, EnsureLimitRange,
       EnsureReferenceGrant, EnsureTLSRoute, EnsureAppsCertificate, EnsureAppsListener,
       Install, InstallRun, VclusterReady, Uninstall, DeleteTLSRoute, DeleteListener,
       DeleteCertificate, DeleteCertSecret, DeleteNamespace
<1>2. ASSUME NEW u \in Tenants, TenantEvent(u) PROVE seen'[t] = seen[t] \/ seen'[t] = cr[t]
  BY <1>2 DEF TenantEvent, TypeOK, CacheTypeOK
<1>. QED BY <1>1, <1>2, StepKinds
     DEF ByUser, ByPass, PassEnds, Reconcile, TenantEvent, NamespaceGone, NamespaceDeleted,
         EnsureFails, CallFails, Restart, Outside

\* A CR changes by a user's write or by a pass's.
LEMMA CRMoves ==
  ASSUME TypeOK, WakeInv, [Next]_vars
  PROVE  \/ cr' = cr /\ issued' = issued
         \/ ByPass
         \/ \E t \in Tenants : ByUser(t)
<1> USE DEF crVars, cacheVars
<1>1. CASE OtherCall
  BY <1>1 DEF OtherCall, EnsureNamespace, EnsureResourceQuota, EnsureLimitRange,
       EnsureReferenceGrant, EnsureTLSRoute, EnsureAppsCertificate, EnsureAppsListener,
       Install, InstallRun, VclusterReady, Uninstall, DeleteTLSRoute, DeleteListener,
       DeleteCertificate, DeleteCertSecret, DeleteNamespace
<1>. QED BY <1>1, StepKinds
     DEF PassEnds, Reconcile, TenantEvent, NamespaceGone, NamespaceDeleted,
         EnsureFails, Restart, Outside

\* A step keeps SaysDeleting, and a CR that says Deleting says so until it is gone.
LEMMA DeletingStep ==
  ASSUME TypeOK, WakeInv, SaysDeleting, [Next]_vars
  PROVE  /\ SaysDeleting'
         /\ \A t \in Tenants :
              cr[t].phase = "Deleting" => cr'[t].phase = "Deleting" \/ cr'[t].life = "absent"
<1>1. ASSUME NEW t \in Tenants
      PROVE  /\ cr'[t].phase = "Deleting" => cr'[t].life = "deleting"
             /\ cr[t].phase = "Deleting" => cr'[t].phase = "Deleting" \/ cr'[t].life = "absent"
  <2>0. NoCR.phase = "" /\ NoCR.life = "absent"
    BY DEF NoCR
  <2>1. CASE ByPass
    BY <2>0, <2>1, <1>1 DEF ByPass, SaysDeleting
  <2>2. ASSUME NEW u \in Tenants, ByUser(u)
        PROVE  /\ cr'[t].phase = "Deleting" => cr'[t].life = "deleting"
               /\ cr[t].phase = "Deleting" => cr'[t].phase = "Deleting" \/ cr'[t].life = "absent"
    BY <2>0, <2>2, <1>1 DEF ByUser, SaysDeleting
  <2>. QED BY <2>1, <2>2, <1>1, CRMoves DEF SaysDeleting
<1>2. ASSUME NEW t \in Tenants PROVE seen'[t].phase = "Deleting" => seen'[t].life = "deleting"
  BY <1>2, SeenMoves DEF SaysDeleting
<1>. QED BY <1>1, <1>2 DEF SaysDeleting

\* Nothing says Deleting initially.
LEMMA DeletingInit == Init => SaysDeleting
<1>1. NoCR.phase # "Deleting"
  BY DEF NoCR
<1>2. Init => \A t \in Tenants : cr[t] = NoCR /\ seen[t] = NoCR
  BY DEF Init
<1>. QED BY <1>1, <1>2 DEF SaysDeleting

(* DeletingIsFinal: once a CR says Deleting it says so until it is gone: no    *)
(* pass over an older copy, and no failure recorded by fail(), writes another  *)
(* phase over it.                                                              *)
THEOREM DeletingStays == Spec => DeletingIsFinal
<1>1. Init => TypeOK /\ WakeInv /\ SaysDeleting
  BY InitType, WakeInit, DeletingInit
<1>2. TypeOK /\ WakeInv /\ SaysDeleting /\ [Next]_vars => (TypeOK /\ WakeInv /\ SaysDeleting)'
  BY NextType, WakeNext, DeletingStep
<1>3. TypeOK /\ WakeInv /\ SaysDeleting /\ [Next]_vars
        => [\A t \in Tenants :
              cr[t].phase = "Deleting" =>
                cr'[t].phase = "Deleting" \/ cr'[t].life = "absent"]_vars
  BY DeletingStep
<1>. QED BY <1>1, <1>2, <1>3, PTL DEF Spec, DeletingIsFinal

-----------------------------------------------------------------------------
(* The shared Gateway *)

\* The copy of the Gateway that may be written from is what is stored, and a
\* Gateway that is not there has no listeners.
GatewayInv ==
  /\ gwCurrent => gwSeen = gw
  /\ ~gw.exists => gw.listeners = {}

\* A listener that a step drops.
Drops(t) == t \in gw.listeners /\ t \notin gw'.listeners

\* A step keeps the invariant of the Gateway, and drops a listener only with
\* the Gateway or by the teardown of its tenant.
LEMMA GatewayStep ==
  ASSUME TypeOK, WakeInv, GatewayInv, [Next]_vars
  PROVE  /\ GatewayInv'
         /\ \A t \in Tenants :
              Drops(t) => ~gw'.exists \/ (At("DeleteListener") /\ worker.t = t)
<1> USE DEF gwVars
<1>0. gw \in [exists : BOOLEAN, listeners : SUBSET Tenants]
  BY DEF TypeOK, GwTypeOK
<1>1. CASE UNCHANGED gwVars
  BY <1>1 DEF GatewayInv, Drops
<1>2. CASE EnsureAppsListener
  <2>1. CASE ListenerAccepted
    <3> DEFINE ls == gwSeen.listeners \cup {worker.t}
    <3>1. /\ gw' = [gw EXCEPT !.listeners = ls] /\ gwCurrent' = (ls = gw.listeners)
          /\ gwSeen' = gwSeen /\ gwSeen = gw /\ gw.exists
      BY <1>2, <2>1 DEF EnsureAppsListener, WriteGateway, ListenerAccepted, GatewayInv
    <3>2. gw'.exists /\ gw'.listeners = ls /\ gw.listeners \subseteq ls
      BY <1>0, <3>1
    <3>. HIDE DEF ls
    <3>3. ls = gw.listeners => gw' = gw
      BY <1>0, <3>1
    <3>. QED BY <3>1, <3>2, <3>3 DEF GatewayInv, Drops
  <2>2. CASE ~ListenerAccepted
    BY <1>1, <1>2, <2>2 DEF EnsureAppsListener
  <2>. QED BY <2>1, <2>2
<1>3. CASE DeleteListener
  <2>1. CASE gwSeen.exists /\ worker.t \in gwSeen.listeners /\ gwCurrent
    <3> DEFINE ls == gwSeen.listeners \ {worker.t}
    <3>1. /\ gw' = [gw EXCEPT !.listeners = ls] /\ gwCurrent' = (ls = gw.listeners)
          /\ gwSeen' = gwSeen /\ gwSeen = gw /\ gw.exists /\ At("DeleteListener")
      BY <1>3, <2>1 DEF DeleteListener, WriteGateway, GatewayInv
    <3>2. gw'.exists /\ gw'.listeners = ls /\ gw.listeners \ {worker.t} \subseteq ls
      BY <1>0, <3>1
    <3>. HIDE DEF ls
    <3>3. ls = gw.listeners => gw' = gw
      BY <1>0, <3>1
    <3>. QED BY <3>1, <3>2, <3>3 DEF GatewayInv, Drops
  <2>2. CASE ~(gwSeen.exists /\ worker.t \in gwSeen.listeners /\ gwCurrent)
    BY <1>1, <1>3, <2>2 DEF DeleteListener
  <2>. QED BY <2>1, <2>2
<1>4. CASE OtherCall
  BY <1>1, <1>2, <1>3, <1>4
  DEF OtherCall, EnsureNamespace, EnsureResourceQuota, EnsureLimitRange,
      EnsureReferenceGrant, EnsureTLSRoute, EnsureAppsCertificate, Install, InstallRun,
      VclusterReady, Uninstall, DeleteTLSRoute, DeleteCertificate, DeleteCertSecret,
      DeleteNamespace
<1>5. CASE Restart
  BY <1>5 DEF Restart, GatewayInv, Drops
<1>6. CASE GatewayEvent \/ GatewayCreated \/ GatewayDeleted \/ GatewayTouched
  BY <1>0, <1>6 DEF GatewayEvent, GatewayCreated, GatewayDeleted, GatewayTouched, GatewayInv,
     Drops
<1>. QED BY <1>1, <1>4, <1>5, <1>6, StepKinds
     DEF ByUser, ByPass, PassEnds, Reconcile, TenantEvent, NamespaceGone, NamespaceDeleted,
         EnsureFails, CallFails, Outside

(* ListenersIndependent: although every pass writes the whole list of the      *)
(* shared Gateway from a cached copy, none drops another tenant's listener.    *)
THEOREM ListenersStay == Spec => ListenersIndependent
<1>1. Init => TypeOK /\ WakeInv /\ GatewayInv
  BY InitType, WakeInit DEF Init, GatewayInv
<1>2. TypeOK /\ WakeInv /\ GatewayInv /\ [Next]_vars => (TypeOK /\ WakeInv /\ GatewayInv)'
  BY NextType, WakeNext, GatewayStep
<1>3. TypeOK /\ WakeInv /\ GatewayInv /\ [Next]_vars
        => [\A t \in Tenants :
              t \in gw.listeners /\ t \notin gw'.listeners =>
                ~gw'.exists \/ (At("DeleteListener") /\ worker.t = t)]_vars
  BY GatewayStep DEF Drops
<1>. QED BY <1>1, <1>2, <1>3, PTL DEF Spec, ListenersIndependent

-----------------------------------------------------------------------------
(* What a call does to the tenants *)

\* No two tenants share a namespace.
OwnNamespaces == \A t, u \in Tenants : NsOf[t] = NsOf[u] => t = u

\* A call leaves the other tenants alone; the calls for a live Tenant take
\* nothing away, those of a teardown add nothing.
CallEffect ==
  LET w == worker.t  n == NsOf[worker.t] IN
  /\ w \in Tenants /\ n \in Namespaces
  /\ UNCHANGED <<cr, issued, seen, config>>
  /\ \/ worker' = Idle
     \/ /\ worker'.t = w /\ worker'.obj = worker.obj /\ worker'.fresh = worker.fresh
        /\ \/ worker.pc \in EnsurePath /\ worker'.pc \in EnsurePath
           \/ worker.pc \in DeleteCalls /\ worker'.pc \in DeleteCalls
  /\ \A t \in Tenants \ {w} :
       /\ release'[t] = release[t] /\ misled'[t] = misled[t]
       /\ (t \in route' <=> t \in route) /\ (t \in cert' <=> t \in cert)
       /\ t \in certSecret' <=> t \in certSecret
  /\ \A m \in Namespaces \ {n} : ns'[m] = ns[m] /\ inside'[m] = inside[m]
  /\ \/ /\ worker.pc \in EnsurePath
        /\ release'[w].status = "none" => release[w].status = "none"
        /\ route \subseteq route' /\ cert \subseteq cert' /\ certSecret \subseteq certSecret'
        /\ ns'[n].state # ns[n].state =>
             worker.pc = "EnsureNamespace" /\ ns[n].state = "absent"
     \/ /\ worker.pc \in DeleteCalls
        /\ release'[w].status \in {"none", release[w].status}
        /\ route' \subseteq route /\ cert' \subseteq cert /\ certSecret' \subseteq certSecret
        /\ inside' = inside
        /\ ns'[n].state = "active" => ns[n].state = "active" /\ worker.pc # "DeleteNamespace"
        /\ worker'.pc = "RemoveFinalizer" => worker.pc = "DeleteNamespace"

\* The calls for a live Tenant.
LEMMA EnsureEffect ==
  ASSUME TypeOK, WakeInv,
         \/ EnsureNamespace \/ EnsureResourceQuota \/ EnsureLimitRange
         \/ EnsureReferenceGrant \/ EnsureTLSRoute \/ EnsureAppsCertificate
         \/ EnsureAppsListener \/ Install \/ InstallRun \/ VclusterReady
  PROVE  CallEffect
<1> USE DEF crVars, cacheVars, nsVars, copyVars, helmVars, netVars, gwVars
<1>a. /\ worker.pc \in EnsurePath /\ worker.pc # "idle" /\ worker.t \in Tenants
      /\ NsOf[worker.t] \in Namespaces
      /\ \A p \in EnsurePath : Goto(p) =>
           /\ worker'.pc = p /\ worker'.t = worker.t
           /\ worker'.obj = worker.obj /\ worker'.fresh = worker.fresh
  BY DEF TypeOK, WorkerTypeOK, Goto, At, EnsurePath, EnsureCalls, StatusCalls,
     EnsureNamespace, EnsureResourceQuota, EnsureLimitRange, EnsureReferenceGrant,
     EnsureTLSRoute, EnsureAppsCertificate, EnsureAppsListener, Install, InstallRun,
     VclusterReady
<1>b. /\ release \in [Tenants -> [status : {"none", "pending", "deployed", "failed"},
                                  spec : Specs]]
      /\ ns \in [Namespaces -> [state : {"absent", "active", "terminating"},
                                label : Tenants \cup {None}]]
      /\ inside \in [Namespaces -> Objects] /\ misled \in [Tenants -> SUBSET Kinds]
  BY DEF TypeOK, HelmTypeOK, NsTypeOK, CopyTypeOK
<1>c. {"EnsureResourceQuota", "EnsureLimitRange", "EnsureTLSRoute", "EnsureAppsListener",
       "Install", "InstallRun", "VclusterReady", "StatusReady", "StatusProvisioning",
       "Fail"} \subseteq EnsurePath
  BY DEF EnsurePath, EnsureCalls, StatusCalls
<1>1. CASE EnsureNamespace
  BY <1>a, <1>b, <1>c, <1>1 DEF EnsureNamespace, At, MyNs, CallEffect
<1>2. CASE EnsureResourceQuota \/ EnsureLimitRange \/ EnsureReferenceGrant
  <2>1. PICK q \in EnsurePath : Goto(q)
    <3>1. {"Fail", "EnsureLimitRange", "EnsureTLSRoute", AfterLimits} \subseteq EnsurePath
      BY <1>c, GoesOnInKind
    <3>. QED BY <1>2, <3>1, EnsureObjectGoes
         DEF EnsureResourceQuota, EnsureLimitRange, EnsureReferenceGrant
  <2>2. /\ \A m \in Namespaces \ {MyNs} : inside'[m] = inside[m]
        /\ \A t \in Tenants \ {worker.t} : misled'[t] = misled[t]
    <3>1. {"quota", "limits", "grant"} \subseteq ObjectKinds
      BY DEF ObjectKinds
    <3>2. CASE UNCHANGED <<inside, misled>>
      BY <3>2
    <3>3. CASE \E k \in ObjectKinds : \E want, absent, next : EnsureObject(k, want, absent, next)
      BY <1>a, <3>3, EnsureObjectEffect
    <3>. QED BY <1>2, <3>1, <3>2, <3>3
         DEF EnsureResourceQuota, EnsureLimitRange, EnsureReferenceGrant
  <2>3. UNCHANGED <<cr, issued, seen, config, ns, release, route, cert, certSecret>>
    BY <1>2 DEF EnsureResourceQuota, EnsureLimitRange, EnsureReferenceGrant
  <2>. QED BY <1>a, <2>1, <2>2, <2>3 DEF MyNs, CallEffect
<1>3. CASE EnsureTLSRoute \/ EnsureAppsCertificate
  <2>1. PICK q \in EnsurePath : Goto(q)
    BY <1>c, <1>3, GoesOnInKind DEF EnsureTLSRoute, EnsureAppsCertificate
  <2>2. \A t \in Tenants \ {worker.t} : misled'[t] = misled[t]
    BY <1>b, <1>3 DEF EnsureTLSRoute, EnsureAppsCertificate, Misled
  <2>3. /\ UNCHANGED <<cr, issued, seen, config, ns, inside, release, certSecret>>
        /\ route' = route \/ route' = route \cup {worker.t}
        /\ cert' = cert \/ cert' = cert \cup {worker.t}
    BY <1>3 DEF EnsureTLSRoute, EnsureAppsCertificate
  <2>. QED BY <1>a, <2>1, <2>2, <2>3 DEF CallEffect
<1>4. CASE EnsureAppsListener \/ VclusterReady
  BY <1>a, <1>b, <1>c, <1>4 DEF EnsureAppsListener, VclusterReady, CallEffect
<1>5. CASE Install
  BY <1>a, <1>b, <1>c, <1>5 DEF Install, CallEffect
<1>6. CASE InstallRun
  <2>1. CASE ns[MyNs].state = "active"
    BY <1>a, <1>b, <1>c, <1>6, <2>1 DEF InstallRun, CallEffect
  <2>2. CASE ns[MyNs].state # "active"
    <3> DEFINE s == IF release[worker.t].status = "none" THEN "none" ELSE "failed"
    <3>1. /\ release' = [release EXCEPT ![worker.t].status = s]
          /\ Goto("Fail")
      BY <1>a, <1>b, <1>6, <2>2 DEF InstallRun
    <3>2. s = "none" => release[worker.t].status = "none"
      OBVIOUS
    <3>. HIDE DEF s
    <3>. QED BY <1>a, <1>b, <1>c, <1>6, <3>1, <3>2 DEF InstallRun, CallEffect
  <2>. QED BY <2>1, <2>2
<1>. QED BY <1>1, <1>2, <1>3, <1>4, <1>5, <1>6

\* The calls of a teardown.
LEMMA TeardownEffect ==
  ASSUME TypeOK, WakeInv,
         \/ Uninstall \/ DeleteTLSRoute \/ DeleteListener \/ DeleteCertificate
         \/ DeleteCertSecret \/ DeleteNamespace
  PROVE  CallEffect
<1> USE DEF crVars, cacheVars, nsVars, copyVars, helmVars, netVars, gwVars
<1>a. /\ worker.pc \in DeleteCalls /\ worker.pc # "idle" /\ worker.t \in Tenants
      /\ NsOf[worker.t] \in Namespaces
      /\ \A p \in DeleteCalls : Goto(p) =>
           /\ worker'.pc = p /\ worker'.t = worker.t
           /\ worker'.obj = worker.obj /\ worker'.fresh = worker.fresh
  BY DEF TypeOK, WorkerTypeOK, Goto, At, DeleteCalls, Uninstall, DeleteTLSRoute,
     DeleteListener, DeleteCertificate, DeleteCertSecret, DeleteNamespace
<1>b. /\ release \in [Tenants -> [status : {"none", "pending", "deployed", "failed"},
                                  spec : Specs]]
      /\ ns \in [Namespaces -> [state : {"absent", "active", "terminating"},
                                label : Tenants \cup {None}]]
  BY DEF TypeOK, HelmTypeOK, NsTypeOK
<1>c. /\ {"DeleteCertificate", "DeleteCertSecret", "DeleteNamespace", "RemoveFinalizer"}
           \subseteq DeleteCalls
      /\ AfterUninstall # "RemoveFinalizer" /\ AfterDeleteRoute # "RemoveFinalizer"
      /\ Idle.pc # "RemoveFinalizer"
  BY DEF DeleteCalls, AfterUninstall, AfterDeleteRoute, Idle
<1>1. CASE Uninstall
  BY <1>a, <1>b, <1>c, <1>1, GoesOnInKind DEF Uninstall, NoRelease, At, CallEffect
<1>2. CASE DeleteTLSRoute \/ DeleteCertificate \/ DeleteCertSecret
  BY <1>a, <1>b, <1>c, <1>2, GoesOnInKind
  DEF DeleteTLSRoute, DeleteCertificate, DeleteCertSecret, At, CallEffect
<1>3. CASE DeleteListener
  BY <1>a, <1>b, <1>c, <1>3 DEF DeleteListener, Requeue, At, CallEffect
<1>4. CASE DeleteNamespace
  BY <1>a, <1>b, <1>c, <1>4 DEF DeleteNamespace, Terminate, MyNs, At, CallEffect
<1>. QED BY <1>1, <1>2, <1>3, <1>4

\* A call that writes no CR does one of the two.
LEMMA CallsDo == TypeOK /\ WakeInv /\ OtherCall => CallEffect
BY EnsureEffect, TeardownEffect DEF OtherCall

\* A failed call leaves at most a failed revision behind.
LEMMA FailEffect ==
  ASSUME TypeOK, WakeInv, EnsureFails
  PROVE  /\ worker'.pc = "Fail" /\ worker'.t = worker.t
         /\ worker'.obj = worker.obj /\ worker'.fresh = worker.fresh
         /\ UNCHANGED <<cr, issued, seen, config, ns, inside, misled, route, cert, certSecret>>
         /\ \A t \in Tenants : /\ release'[t].spec = release[t].spec
                               /\ release'[t].status = "none" <=> release[t].status = "none"
<1> USE DEF crVars, cacheVars, nsVars, copyVars, helmVars, netVars
<1>1. /\ worker'.pc = "Fail" /\ worker'.t = worker.t
      /\ worker'.obj = worker.obj /\ worker'.fresh = worker.fresh
  BY DEF EnsureFails, Goto, TypeOK, WorkerTypeOK
<1>2. UNCHANGED <<cr, issued, seen, config, ns, inside, misled, route, cert, certSecret>>
  BY DEF EnsureFails, CallFails
<1>3. /\ worker.t \in Tenants
      /\ release \in [Tenants -> [status : {"none", "pending", "deployed", "failed"},
                                  spec : Specs]]
  BY DEF TypeOK, WorkerTypeOK, HelmTypeOK, EnsureFails, EnsureCalls
<1>4. CASE At("InstallRun")
  <2> DEFINE s == IF release[worker.t].status = "none" THEN "none" ELSE "failed"
  <2>1. release' = [release EXCEPT ![worker.t].status = s]
    BY <1>3, <1>4 DEF EnsureFails, CallFails
  <2>2. s = "none" <=> release[worker.t].status = "none"
    OBVIOUS
  <2>. HIDE DEF s
  <2>. QED BY <1>1, <1>2, <1>3, <2>1, <2>2
<1>5. CASE ~At("InstallRun")
  BY <1>1, <1>2, <1>5 DEF EnsureFails, CallFails
<1>. QED BY <1>4, <1>5

-----------------------------------------------------------------------------
(* Nothing is taken from a tenant that is not being deleted *)

\* Nothing is left of t, and no finalizer lets a pass make anything for it.
Gone(t) == ~cr[t].fin /\ ~HasResources(t) /\ ns[NsOf[t]].state # "active"

\* An old copy may still show a deletion that is complete, also when the name
\* is used again: there is nothing left then that the teardown could take.
TeardownInv ==
  /\ \A t \in Tenants : seen[t].life = "deleting" => cr[t].life = "deleting" \/ Gone(t)
  /\ worker.pc \in DeleteCalls => cr[worker.t].life = "deleting" \/ Gone(worker.t)
  /\ worker.pc = "RemoveFinalizer" => ns[MyNs].state # "active"
  /\ worker.pc = "AddFinalizer" /\ worker.fresh => seen[worker.t].life # "deleting"

\* A step that leaves CRs and copies alone, revives nobody and starts no teardown.
LEMMA TeardownKept ==
  ASSUME TypeOK, TeardownInv, UNCHANGED <<cr, seen>>,
         \A t \in Tenants : Gone(t) => Gone(t)',
         \/ worker'.pc \notin DeleteCalls \cup {"AddFinalizer"}
         \/ /\ worker'.t = worker.t /\ (worker'.fresh => worker.fresh)
            /\ worker'.pc = worker.pc
                 \/ (worker.pc \in DeleteCalls /\ worker'.pc \in DeleteCalls),
         worker'.pc = "RemoveFinalizer" => ns'[NsOf[worker'.t]].state # "active"
  PROVE  TeardownInv'
<1>1. "RemoveFinalizer" \in DeleteCalls /\ "AddFinalizer" \notin DeleteCalls
  BY DEF DeleteCalls
<1>2. worker.pc \in DeleteCalls => worker.t \in Tenants
  BY KindsOfCalls DEF TypeOK, WorkerTypeOK
<1>. QED BY <1>1, <1>2 DEF TeardownInv, MyNs

\* A call keeps what is gone gone.
LEMMA GoneStays ==
  ASSUME OwnNamespaces, TypeOK, GuardInv, CallEffect, NEW t \in Tenants, Gone(t)
  PROVE  Gone(t)'
<1>0. NsOf[t] \in Namespaces
  BY OperatorAssumptions DEF OperatorAssumptions
<1>1. CASE t # worker.t
  <2>1. NsOf[t] # NsOf[worker.t]
    BY <1>1 DEF OwnNamespaces, CallEffect
  <2>. QED BY <1>0, <1>1, <2>1 DEF CallEffect, Gone, HasResources
<1>2. CASE t = worker.t
  <2>1. worker.pc \in DeleteCalls
    BY <1>2 DEF CallEffect, GuardInv, FinalizerStays, Guarded, Gone
  <2>2. worker.pc \notin EnsurePath
    BY <2>1, KindsOfCalls
  <2>. QED BY <1>2, <2>1, <2>2 DEF CallEffect, Gone, HasResources
<1>. QED BY <1>1, <1>2

\* Every step keeps the invariant, with the same settings at every start.
LEMMA TeardownStep ==
  ASSUME OneConfig, OwnNamespaces, TypeOK, WakeInv, GuardInv, TeardownInv, [Next]_vars
  PROVE  TeardownInv'
<1> USE DEF crVars, cacheVars, nsVars, copyVars, helmVars, netVars
<1>0. /\ \A t \in Tenants : NsOf[t] \in Namespaces
      /\ Idle.pc = "idle" /\ "idle" \notin DeleteCalls \cup {"AddFinalizer"}
      /\ NoCR.life = "absent" /\ ~NoCR.fin
      /\ worker.pc # "idle" => worker.t \in Tenants
  BY OperatorAssumptions DEF OperatorAssumptions, Idle, DeleteCalls, NoCR, TypeOK, WorkerTypeOK
<1>a. ASSUME NEW t \in Tenants, ByUser(t) PROVE TeardownInv'
  <2>1. \A u \in Tenants : HasResources(u)' <=> HasResources(u)
    BY <1>a DEF ByUser, HasResources
  <2>2. \A u \in Tenants : Gone(u) => Gone(u)'
    BY <1>0, <1>a, <2>1 DEF ByUser, Gone
  <2>3. worker' = [worker EXCEPT !.fresh = (worker.fresh /\ worker.t # t)]
    BY <1>a DEF ByUser, Overtaken
  <2>4. worker'.pc = worker.pc /\ worker'.t = worker.t /\ (worker'.fresh => worker.fresh)
    BY <2>3, Zenon DEF TypeOK, WorkerTypeOK
  <2>5. \A u \in Tenants : cr[u].life = "deleting" => cr'[u].life = "deleting"
    BY <1>0, <1>a DEF ByUser
  <2>6. seen' = seen /\ ns' = ns
    BY <1>a DEF ByUser
  <2>7. worker.pc \in DeleteCalls => worker.t \in Tenants
    BY <1>0
  <2>. QED BY <2>2, <2>4, <2>5, <2>6, <2>7 DEF TeardownInv, MyNs
<1>b. CASE ByPass
  <2>0. PICK t \in Tenants : t = worker.t
    BY <1>b DEF ByPass
  <2>1. /\ \A u \in Tenants : HasResources(u)' <=> HasResources(u)
        /\ seen' = seen /\ ns' = ns
        /\ t \in Tenants /\ \A u \in Tenants \ {t} : cr'[u] = cr[u]
    BY <2>0, <1>b DEF ByPass, HasResources
  <2>2. \A u \in Tenants \ {t} :
          seen'[u].life = "deleting" => cr'[u].life = "deleting" \/ Gone(u)'
    BY <2>0, <2>1 DEF TeardownInv, Gone
  <2>3. /\ seen[t].life = "deleting" => cr'[t].life = "deleting" \/ Gone(t)'
        /\ worker'.pc \in DeleteCalls => cr'[t].life = "deleting" /\ worker'.t = t
        /\ worker'.pc \notin {"RemoveFinalizer", "AddFinalizer"}
    <3>1. CASE worker.pc = "AddFinalizer"
      BY <2>0, <1>0, <1>b, <2>1, <3>1 DEF ByPass, StatusWrites, TeardownInv
    <3>2. CASE worker.pc \in StatusWrites
      <4>1. worker.pc \in EnsurePath
        BY <2>0, <3>2 DEF StatusWrites, EnsurePath, StatusCalls
      <4>2. ~Gone(t) /\ cr[t].life = "live"
        BY <2>0, <1>b, <3>2, <4>1 DEF GuardInv, FinalizerStays, Guarded, Gone, ByPass, StatusWrites
      <4>3. seen[t].life # "deleting"
        BY <2>0, <2>1, <4>2 DEF TeardownInv
      <4>4. worker'.pc \in {"idle", "EnsureNamespace"}
        BY <2>0, <1>0, <1>b, <3>2 DEF ByPass, StatusWrites
      <4>. QED BY <4>3, <4>4 DEF DeleteCalls
    <3>3. CASE worker.pc = "MarkDeleting"
      BY <2>0, <1>b, <2>1, <3>3 DEF ByPass, StatusWrites
    <3>4. CASE worker.pc = "RemoveFinalizer"
      <4>1. cr'[t] = NoCR /\ worker' = Idle
        BY <2>0, <1>b, <3>4 DEF ByPass, StatusWrites
      <4>2. ~HasResources(t)
        BY <2>0, <3>4 DEF GuardInv, TeardownOrder, HasResources, PastRelease, PastTLSRoute,
                    AfterCertificate, AfterSecret
      <4>3. ~HasResources(t)'
        BY <2>0, <2>1, <4>2
      <4>4. ns'[NsOf[t]].state # "active"
        BY <2>0, <2>1, <3>4 DEF TeardownInv, MyNs
      <4>5. Gone(t)'
        BY <2>0, <1>0, <4>1, <4>3, <4>4 DEF Gone
      <4>. QED BY <2>0, <1>0, <4>1, <4>5
    <3>. QED BY <2>0, <1>b, <3>1, <3>2, <3>3, <3>4 DEF ByPass
  <2>4. \A u \in Tenants :
          seen'[u].life = "deleting" => cr'[u].life = "deleting" \/ Gone(u)'
    BY <2>1, <2>2, <2>3
  <2>. QED BY <2>3, <2>4 DEF TeardownInv
<1>c. CASE PassEnds
  <2>1. \A t \in Tenants : Gone(t) => Gone(t)'
    BY <1>c DEF PassEnds, Gone, HasResources
  <2>2. worker'.pc \notin DeleteCalls \cup {"AddFinalizer"} /\ worker'.pc # "RemoveFinalizer"
    BY <1>0, <1>c DEF PassEnds
  <2>. QED BY <1>c, <2>1, <2>2, TeardownKept DEF PassEnds
<1>d. CASE OtherCall
  <2>1. CallEffect
    BY <1>d, CallsDo
  <2>2. \A t \in Tenants : Gone(t) => Gone(t)'
    BY <2>1, GoneStays
  <2>3. \/ worker'.pc \notin DeleteCalls \cup {"AddFinalizer"}
        \/ /\ worker'.t = worker.t /\ worker'.fresh = worker.fresh
           /\ worker.pc \in DeleteCalls /\ worker'.pc \in DeleteCalls
    BY <1>0, <2>1, KindsOfCalls DEF CallEffect
  <2>4. worker'.pc = "RemoveFinalizer" => ns'[NsOf[worker'.t]].state # "active"
    BY <1>0, <2>1, KindsOfCalls DEF CallEffect, DeleteCalls
  <2>. QED BY <2>1, <2>2, <2>3, <2>4, TeardownKept DEF CallEffect
<1>e. CASE EnsureFails
  <2>1. \A t \in Tenants : Gone(t) => Gone(t)'
    BY <1>e, FailEffect DEF Gone, HasResources
  <2>2. worker'.pc \notin DeleteCalls \cup {"AddFinalizer"} /\ worker'.pc # "RemoveFinalizer"
    BY <1>e, FailEffect DEF DeleteCalls
  <2>. QED BY <1>e, <2>1, <2>2, FailEffect, TeardownKept
<1>f. ASSUME NEW t \in Tenants, Reconcile(t) PROVE TeardownInv'
  <2>1. UNCHANGED <<cr, seen, ns, release, route, cert, certSecret>> /\ seen[t] \in CR
    BY <1>f DEF Reconcile, TypeOK, CacheTypeOK
  <2>2. \A u \in Tenants : Gone(u)' <=> Gone(u)
    BY <2>1 DEF Gone, HasResources
  <2>3. CASE FirstCall(seen[t]) = "idle"
    <3>1. worker'.pc = "idle"
      BY <1>0, <1>f, <2>3 DEF Reconcile
    <3>. QED BY <1>0, <2>1, <2>2, <3>1, TeardownKept
  <2>4. CASE FirstCall(seen[t]) # "idle"
    <3>1. worker'.pc = FirstCall(seen[t]) /\ worker'.t = t
      BY <1>f, <2>4 DEF Reconcile
    <3>2. FirstCall(seen[t]) # "RemoveFinalizer"
      BY DEF FirstCall
    <3>3. FirstCall(seen[t]) = "AddFinalizer" => seen[t].life = "live"
      BY <2>1, FirstCallMatches
    <3>4. FirstCall(seen[t]) \in DeleteCalls => seen[t].life = "deleting"
      BY <2>1, FirstCallMatches
    <3>. QED BY <2>1, <2>2, <3>1, <3>2, <3>3, <3>4 DEF TeardownInv
  <2>. QED BY <2>3, <2>4
<1>g. ASSUME NEW t \in Tenants, TenantEvent(t) PROVE TeardownInv'
  <2>1. UNCHANGED <<cr, worker, ns, release, route, cert, certSecret>>
    BY <1>g DEF TenantEvent
  <2>2. /\ seen'[t] = cr[t] /\ \A u \in Tenants \ {t} : seen'[u] = seen[u]
    BY <1>g DEF TenantEvent, TypeOK, CacheTypeOK
  <2>3. \A u \in Tenants : Gone(u)' <=> Gone(u)
    BY <2>1 DEF Gone, HasResources
  <2>4. worker.pc = "AddFinalizer" /\ worker.fresh =>
          worker.t \in Tenants /\ cr[worker.t].life = "live"
    BY <1>0 DEF WakeInv, FreshCopies, PassMatchesCopy
  <2>5. worker.pc \in DeleteCalls => worker.t \in Tenants
    BY <1>0
  <2>. QED BY <2>1, <2>2, <2>3, <2>4, <2>5 DEF TeardownInv, MyNs
<1>h. ASSUME NEW n \in Namespaces, NamespaceGone(n) \/ NamespaceDeleted(n) PROVE TeardownInv'
  <2>1. /\ UNCHANGED <<cr, seen, worker, route, cert, certSecret>>
        /\ \A t \in Tenants : release[t].status = "none" => release'[t].status = "none"
        /\ \A m \in Namespaces : ns'[m].state = "active" => ns[m].state = "active"
    <3>1. ns \in [Namespaces -> [state : {"absent", "active", "terminating"},
                                 label : Tenants \cup {None}]]
      BY DEF TypeOK, NsTypeOK
    <3>2. CASE NamespaceGone(n)
      BY <3>1, <3>2 DEF NamespaceGone, NoRelease, NoNs
    <3>3. CASE NamespaceDeleted(n)
      BY <3>1, <3>3 DEF NamespaceDeleted, Terminate
    <3>. QED BY <1>h, <3>2, <3>3
  <2>2. \A t \in Tenants : Gone(t) => Gone(t)'
    BY <1>0, <2>1 DEF Gone, HasResources
  <2>3. worker'.pc = "RemoveFinalizer" => ns'[NsOf[worker'.t]].state # "active"
    BY <1>0, <2>1 DEF TeardownInv, MyNs
  <2>. QED BY <2>1, <2>2, <2>3, TeardownKept
<1>i. CASE Restart
  <2>1. UNCHANGED <<cr, ns, release, route, cert, certSecret>> /\ seen' = cr /\ worker' = Idle
    BY <1>i DEF Restart
  <2>. QED BY <1>0, <2>1 DEF TeardownInv
<1>j. CASE Outside
  <2>1. \A t \in Tenants : Gone(t) => Gone(t)'
    BY <1>j DEF Outside, Gone, HasResources
  <2>2. worker'.pc = "RemoveFinalizer" => ns'[NsOf[worker'.t]].state # "active"
    BY <1>j DEF Outside, TeardownInv, MyNs
  <2>. QED BY <1>j, <2>1, <2>2, TeardownKept DEF Outside
<1>. QED BY <1>a, <1>b, <1>c, <1>d, <1>e, <1>f, <1>g, <1>h, <1>i, <1>j, StepKinds

\* Nobody is being deleted initially.
LEMMA TeardownInit == Init => TeardownInv
<1>1. NoCR.life = "absent" /\ Idle.pc = "idle" /\ "idle" \notin DeleteCalls
  BY DEF NoCR, Idle, DeleteCalls
<1>2. Init => worker = Idle /\ \A t \in Tenants : seen[t] = NoCR
  BY DEF Init
<1>. QED BY <1>1, <1>2 DEF TeardownInv

\* A step of a pass takes nothing from a tenant that is not being deleted.
LEMMA TakesFromDeleted ==
  ASSUME TypeOK, WakeInv, TeardownInv, [Next]_vars, NEW t \in Tenants,
         worker.t = t, worker' # worker, Losing(t)
  PROVE  cr[t].life = "deleting"
<1> USE DEF crVars, cacheVars, nsVars, copyVars, helmVars, netVars
<1>0. NsOf[t] \in Namespaces
  BY OperatorAssumptions DEF OperatorAssumptions
<1>1. CASE OtherCall
  <2>1. CallEffect
    BY <1>1, CallsDo
  <2>2. worker.pc \in DeleteCalls
    BY <2>1 DEF CallEffect, Losing
  <2>3. ~Gone(t)
    BY <2>1, <2>2, KindsOfCalls DEF CallEffect, Losing, Gone, HasResources
  <2>. QED BY <2>2, <2>3 DEF TeardownInv
<1>2. CASE EnsureFails
  BY <1>2, FailEffect DEF Losing
<1>. QED BY <1>1, <1>2, StepKinds
     DEF ByUser, ByPass, PassEnds, Reconcile, TenantEvent, NamespaceGone, NamespaceDeleted,
         Restart, Outside, Losing

(* TeardownOnlyWhenDeleting: the operator takes nothing from a tenant whose CR *)
(* is not being deleted, although it tears down from a cached copy, may crash  *)
(* between any two calls and finds names used again: with the same settings at *)
(* every start, and with a namespace for each tenant.                          *)
THEOREM TeardownIsAskedFor ==
  ASSUME OneConfig, OwnNamespaces
  PROVE  Spec => TeardownOnlyWhenDeleting
<1>1. Init => TypeOK /\ WakeInv /\ GuardInv /\ TeardownInv
  BY InitType, WakeInit, GuardInit, TeardownInit
<1>2. TypeOK /\ WakeInv /\ GuardInv /\ TeardownInv /\ [Next]_vars
        => (TypeOK /\ WakeInv /\ GuardInv /\ TeardownInv)'
  BY NextType, WakeNext, GuardNext, TeardownStep
<1>3. TypeOK /\ WakeInv /\ GuardInv /\ TeardownInv /\ [Next]_vars
        => [\A t \in Tenants :
              worker.t = t /\ worker' # worker /\ Losing(t) => cr[t].life = "deleting"]_vars
  BY TakesFromDeleted
<1>. QED BY <1>1, <1>2, <1>3, PTL DEF Spec, TeardownOnlyWhenDeleting

-----------------------------------------------------------------------------
(* Ready means what it says *)

\* The CR reports Ready for its spec.
Says(t) == cr[t].phase = "Ready" /\ cr[t].obs = cr[t].spec

\* What version v of the spec of t asks for is there, or a pass was misled about
\* it.
HasQuota(t, v)  == "quota" \in misled[t] \/ inside[NsOf[t]].quota = Quota[v]
HasLimits(t, v) == "limits" \in misled[t] \/ inside[NsOf[t]].limits = LimitsFor(v)
HasGrant(t)     == "grant" \in misled[t] \/ inside[NsOf[t]].grant
HasRoute(t)     == "route" \in misled[t] \/ t \in route

\* The tenant has what version v of its spec asks for.
Built(t, v) ==
  /\ ns[NsOf[t]].state = "active"
  /\ release[t].status # "none" /\ release[t].spec = v
  /\ HasQuota(t, v)
  /\ HasLimits(t, v)
  /\ config.net => HasGrant(t) /\ HasRoute(t)
  /\ config.apps => t \in cert

\* Spec versions, also the observed ones, have been issued: an edit gives one
\* that no status has observed.
VersionsIssued == \A t \in Tenants : cr[t].spec <= issued[t] /\ cr[t].obs <= issued[t]

\* Behind a CR that reports Ready are the objects of its spec, and no copy of
\* another version, nor one that starts a teardown without a write.
Behind(t) ==
  /\ Built(t, cr[t].spec)
  /\ seen[t].spec = cr[t].spec /\ seen[t].phase # "Deleting"
  /\ worker.t = t /\ worker.pc \in EnsurePath => worker.obj.spec = cr[t].spec
  /\ worker.t = t /\ worker.pc \in DeleteCalls => worker.pc = "MarkDeleting"

\* ... for every tenant that reports it.
ReadyIsBuilt == \A t \in Tenants : Says(t) => Behind(t)

\* The cache has the version of a pass that can still write.
PassAsSeen ==
  worker.pc \in EnsurePath /\ worker.fresh =>
    seen[worker.t].spec = worker.obj.spec /\ seen[worker.t].phase # "Deleting"

\* The calls after those that make the vCluster, the Certificate, the TLSRoute,
\* the ReferenceGrant, the LimitRange and the ResourceQuota.
PastInstall == {"VclusterReady", "StatusReady", "StatusProvisioning"}
PastCert    == PastInstall \cup {"EnsureAppsListener", "Install", "InstallRun"}
PastRoute   == PastCert \cup {"EnsureAppsCertificate"}
PastGrant   == PastRoute \cup {"EnsureTLSRoute"}
PastLimits  == PastGrant \cup {"EnsureReferenceGrant"}
PastQuota   == PastLimits \cup {"EnsureLimitRange"}

\* What a pass at pc for version v of t has made so far; what is in a namespace
\* goes with it, and a pass gets past the installation in an active one only.
MadeAt(pc, t, v) ==
  /\ pc \in PastQuota /\ ns[NsOf[t]].state = "active" => HasQuota(t, v)
  /\ pc \in PastLimits /\ ns[NsOf[t]].state = "active" => HasLimits(t, v)
  /\ pc \in PastGrant /\ config.net /\ ns[NsOf[t]].state = "active" => HasGrant(t)
  /\ pc \in PastRoute /\ config.net => HasRoute(t)
  /\ pc \in PastCert /\ config.apps => t \in cert
  /\ pc = "InstallRun" /\ ns[NsOf[t]].state = "active" =>
       release[t].status # "none" /\ release[t].spec = v
  /\ pc \in PastInstall =>
       /\ ns[NsOf[t]].state = "active"
       /\ release[t].status # "none" /\ release[t].spec = v

\* What the pass under way has made.
Made == MadeAt(worker.pc, worker.t, worker.obj.spec)

\* The inductive invariant.
ReadyInv == VersionsIssued /\ ReadyIsBuilt /\ PassAsSeen /\ Made

\* A pass has nothing to have made at its other calls.
LEMMA NothingToMake ==
  ASSUME NEW pc, pc \notin PastQuota, NEW t, NEW v
  PROVE  MadeAt(pc, t, v)
BY DEF MadeAt, PastQuota, PastLimits, PastGrant, PastRoute, PastCert, PastInstall

\* The calls that make something are those of a live Tenant.
LEMMA MakingCalls ==
  /\ PastQuota \subseteq EnsurePath
  /\ {"idle", "AddFinalizer", "MarkPending", "EnsureNamespace", "EnsureResourceQuota",
      "Fail"} \cap PastQuota = {}
  /\ PastQuota \cap DeleteCalls = {}
BY DEF PastQuota, PastLimits, PastGrant, PastRoute, PastCert, PastInstall, EnsurePath, EnsureCalls,
       StatusCalls, DeleteCalls

\* Ensuring one object leaves the others as they were, and whether a pass was
\* misled about them.
LEMMA EnsuresOne ==
  ASSUME TypeOK, worker.pc # "idle", NEW k \in ObjectKinds, NEW want, NEW absent, NEW next,
         EnsureObject(k, want, absent, next), UNCHANGED route,
         NEW t \in Tenants, t = worker.t, NEW v
  PROVE  /\ k # "quota" => (HasQuota(t, v)' <=> HasQuota(t, v))
         /\ k # "limits" => (HasLimits(t, v)' <=> HasLimits(t, v))
         /\ k # "grant" => (HasGrant(t)' <=> HasGrant(t))
         /\ HasRoute(t)' <=> HasRoute(t)
         /\ \/ /\ Goto(next)
               /\ k = "quota" /\ want = Quota[v] => HasQuota(t, v)'
               /\ k = "limits" /\ want = LimitsFor(v) => HasLimits(t, v)'
               /\ k = "grant" /\ want = TRUE => HasGrant(t)'
            \/ Goto("Fail") /\ UNCHANGED <<inside, misled>>
<1>0. MyNs = NsOf[t] /\ {"quota", "limits", "grant"} = ObjectKinds
        /\ "route" \in Kinds \ ObjectKinds /\ ObjectKinds \subseteq Kinds
  BY DEF MyNs, ObjectKinds, Kinds
<1>1. k # "quota" => /\ inside'[MyNs].quota = inside[MyNs].quota
                     /\ "quota" \in misled'[t] <=> "quota" \in misled[t]
  BY <1>0, EnsureObjectEffect
<1>2. k # "limits" => /\ inside'[MyNs].limits = inside[MyNs].limits
                      /\ "limits" \in misled'[t] <=> "limits" \in misled[t]
  BY <1>0, EnsureObjectEffect
<1>3. k # "grant" => /\ inside'[MyNs].grant = inside[MyNs].grant
                     /\ "grant" \in misled'[t] <=> "grant" \in misled[t]
  BY <1>0, EnsureObjectEffect
<1>4. "route" \in misled'[t] <=> "route" \in misled[t]
  BY <1>0, EnsureObjectEffect
<1>5. \/ Goto(next) /\ (k \in misled'[t] \/ inside'[MyNs][k] = want)
      \/ Goto("Fail") /\ UNCHANGED <<inside, misled>>
  BY EnsureObjectEffect
<1>6. /\ k = "quota" => inside'[MyNs][k] = inside'[MyNs].quota
      /\ k = "limits" => inside'[MyNs][k] = inside'[MyNs].limits
      /\ k = "grant" => inside'[MyNs][k] = inside'[MyNs].grant
  OBVIOUS
<1>. QED BY <1>0, <1>1, <1>2, <1>3, <1>4, <1>5, <1>6
     DEF HasQuota, HasLimits, HasGrant, HasRoute

\* A call for version v of t makes its part and keeps the others'.
LEMMA CallMakes ==
  ASSUME TypeOK, WakeInv, Made, OtherCall, worker.pc \in EnsurePath,
         NEW t \in Tenants, t = worker.t, NEW v, v = worker.obj.spec,
         NEW p, p = worker'.pc
  PROVE  /\ MadeAt(p, t, v)'
         /\ Built(t, v) => Built(t, v)'
<1> USE DEF crVars, cacheVars, nsVars, copyVars, helmVars, netVars, gwVars
<1>a. /\ NsOf[t] \in Namespaces
      /\ \A q : Goto(q) => worker'.pc = q
      /\ release \in [Tenants -> [status : {"none", "pending", "deployed", "failed"},
                                  spec : Specs]]
      /\ ns \in [Namespaces -> [state : {"absent", "active", "terminating"},
                                label : Tenants \cup {None}]]
      /\ misled \in [Tenants -> SUBSET Kinds]
      /\ worker.pc # "idle"
  BY OperatorAssumptions, KindsOfCalls
  DEF OperatorAssumptions, TypeOK, WorkerTypeOK, HelmTypeOK, NsTypeOK, CopyTypeOK, Goto
<1>m. MadeAt(worker.pc, t, v)
  BY DEF Made
<1>f. {"Fail", "EnsureResourceQuota"} \cap PastQuota = {}
  BY MakingCalls
<1>s. /\ PastQuota = PastLimits \cup {"EnsureLimitRange"}
      /\ PastLimits = PastGrant \cup {"EnsureReferenceGrant"}
      /\ PastGrant = PastRoute \cup {"EnsureTLSRoute"}
      /\ PastRoute = PastCert \cup {"EnsureAppsCertificate"}
      /\ PastCert = PastInstall \cup {"EnsureAppsListener", "Install", "InstallRun"}
      /\ PastInstall = {"VclusterReady", "StatusReady", "StatusProvisioning"}
  BY DEF PastQuota, PastLimits, PastGrant, PastRoute, PastCert, PastInstall
<1>o. ObjectKinds = {"quota", "limits", "grant"}
  BY DEF ObjectKinds
\* Nothing that the properties are about changes.
<1>u. ASSUME UNCHANGED <<config, ns, inside, misled, release, route, cert>>
      PROVE  /\ HasQuota(t, v)' <=> HasQuota(t, v)
             /\ HasLimits(t, v)' <=> HasLimits(t, v)
             /\ HasGrant(t)' <=> HasGrant(t)
             /\ HasRoute(t)' <=> HasRoute(t)
             /\ Built(t, v) => Built(t, v)'
  BY <1>u DEF HasQuota, HasLimits, HasGrant, HasRoute, Built
\* The pass fails, or starts to make things.
<1>x. ASSUME p \in {"Fail", "EnsureResourceQuota"} PROVE MadeAt(p, t, v)'
  <2>1. p \notin PastQuota /\ p \notin PastLimits /\ p \notin PastGrant /\ p \notin PastRoute
          /\ p \notin PastCert /\ p \notin PastInstall /\ p # "InstallRun"
    BY <1>f, <1>s, <1>x
  <2>. QED BY <2>1 DEF MadeAt
<1> USE DEF MyNs
<1>1. CASE EnsureNamespace
  <2>1. p = "EnsureResourceQuota"
    BY <1>a, <1>1 DEF EnsureNamespace
  <2>2. Built(t, v) => Built(t, v)'
    BY <1>a, <1>1
    DEF EnsureNamespace, Built, HasQuota, HasLimits, HasGrant, HasRoute
  <2>. QED BY <1>x, <2>1, <2>2
<1>2. CASE EnsureResourceQuota
  <2>0. UNCHANGED <<config, ns, release, route, cert>>
    BY <1>2 DEF EnsureResourceQuota
  <2>1. CASE UNCHANGED <<inside, misled>> /\ p = "Fail"
    BY <1>u, <1>x, <2>0, <2>1
  <2>2. CASE EnsureObject("quota", Quota[v], "none", "EnsureLimitRange")
    <3>1. /\ HasLimits(t, v)' <=> HasLimits(t, v)
          /\ HasGrant(t)' <=> HasGrant(t)
          /\ HasRoute(t)' <=> HasRoute(t)
          /\ \/ Goto("EnsureLimitRange") /\ HasQuota(t, v)'
             \/ Goto("Fail") /\ UNCHANGED <<inside, misled>>
      BY <1>a, <1>o, <2>0, <2>2, EnsuresOne
    <3>2. p = "EnsureLimitRange" /\ HasQuota(t, v)' => MadeAt(p, t, v)'
      BY <1>s DEF MadeAt
    <3>. QED BY <1>a, <1>u, <1>x, <2>0, <3>1, <3>2 DEF Built
  <2>. QED BY <1>a, <1>2, <2>1, <2>2 DEF EnsureResourceQuota
<1>3. CASE EnsureLimitRange
  <2>0. worker.pc = "EnsureLimitRange" /\ UNCHANGED <<config, ns, release, route, cert>>
    BY <1>3 DEF EnsureLimitRange, At
  <2>1. /\ HasQuota(t, v)' <=> HasQuota(t, v)
        /\ HasGrant(t)' <=> HasGrant(t)
        /\ HasRoute(t)' <=> HasRoute(t)
        /\ \/ Goto(AfterLimits) /\ HasLimits(t, v)'
           \/ Goto("Fail") /\ UNCHANGED <<inside, misled>>
    <3>0. PICK want, next : want = LimitsFor(v) /\ next = AfterLimits
      OBVIOUS
    <3>1. EnsureObject("limits", want, FALSE, next) /\ UNCHANGED route
      BY <1>3, <3>0 DEF EnsureLimitRange
    <3>2. "limits" \in ObjectKinds
      BY <1>o
    <3>3. /\ HasQuota(t, v)' <=> HasQuota(t, v)
          /\ HasGrant(t)' <=> HasGrant(t)
          /\ HasRoute(t)' <=> HasRoute(t)
      BY <1>a, <3>1, <3>2, EnsuresOne, Zenon
    <3>4. \/ Goto(next) /\ ("limits" \in misled'[t] \/ inside'[NsOf[t]].limits = want)
          \/ Goto("Fail") /\ UNCHANGED <<inside, misled>>
      BY <1>a, <3>1, <3>2, EnsureObjectEffect
    <3>5. Goto(next) => Goto(AfterLimits)
      BY <3>0
    <3>6. (inside'[NsOf[t]].limits = want) => (inside'[NsOf[t]].limits = LimitsFor(v))
      BY <3>0
    <3>. QED BY <3>3, <3>4, <3>5, <3>6 DEF HasLimits
  <2>2. AfterLimits = "EnsureReferenceGrant"
          \/ (~config.net /\ AfterLimits = "EnsureAppsCertificate")
          \/ (~config.net /\ ~config.apps /\ AfterLimits = "Install")
    BY DEF AfterLimits, AfterRoute
  <2>3. p = AfterLimits /\ HasLimits(t, v)' => MadeAt(p, t, v)'
    BY <1>m, <1>s, <2>0, <2>1, <2>2 DEF MadeAt
  <2>. QED BY <1>a, <1>u, <1>x, <2>0, <2>1, <2>3 DEF Built
<1>4. CASE EnsureReferenceGrant
  <2>0. worker.pc = "EnsureReferenceGrant" /\ UNCHANGED <<config, ns, release, route, cert>>
    BY <1>4 DEF EnsureReferenceGrant, At
  <2>1. /\ HasQuota(t, v)' <=> HasQuota(t, v)
        /\ HasLimits(t, v)' <=> HasLimits(t, v)
        /\ HasRoute(t)' <=> HasRoute(t)
        /\ \/ Goto("EnsureTLSRoute") /\ HasGrant(t)'
           \/ Goto("Fail") /\ UNCHANGED <<inside, misled>>
    <3>1. EnsureObject("grant", TRUE, FALSE, "EnsureTLSRoute") /\ UNCHANGED route
      BY <1>4 DEF EnsureReferenceGrant
    <3>2. "grant" \in ObjectKinds
      BY <1>o
    <3>. QED BY <1>a, <3>1, <3>2, EnsuresOne, Zenon
  <2>3. p = "EnsureTLSRoute" /\ HasGrant(t)' => MadeAt(p, t, v)'
    BY <1>m, <1>s, <2>0, <2>1 DEF MadeAt
  <2>. QED BY <1>a, <1>u, <1>x, <2>0, <2>1, <2>3 DEF Built
<1>5. CASE EnsureTLSRoute
  <2>0. worker.pc = "EnsureTLSRoute" /\ UNCHANGED <<config, ns, inside, release, cert>>
    BY <1>5 DEF EnsureTLSRoute, At
  <2>1. CASE UNCHANGED <<route, misled>> /\ p = "Fail"
    BY <1>u, <1>x, <2>0, <2>1
  <2>2. CASE /\ p = AfterRoute
             /\ \/ route' = route \cup {t} /\ Misled("route", FALSE)
                \/ route' = route /\ Misled("route", TRUE)
    <3>1. HasRoute(t)'
      BY <1>a, <2>2 DEF HasRoute, Misled
    <3>2. /\ "quota" \in misled'[t] <=> "quota" \in misled[t]
          /\ "limits" \in misled'[t] <=> "limits" \in misled[t]
          /\ "grant" \in misled'[t] <=> "grant" \in misled[t]
      BY <1>a, <2>2 DEF Misled
    <3>3. /\ HasQuota(t, v)' <=> HasQuota(t, v)
          /\ HasLimits(t, v)' <=> HasLimits(t, v)
          /\ HasGrant(t)' <=> HasGrant(t)
      BY <2>0, <3>2 DEF HasQuota, HasLimits, HasGrant
    <3>4. p = "EnsureAppsCertificate" \/ (~config.apps /\ p = "Install")
      BY <2>2 DEF AfterRoute
    <3>5. MadeAt(p, t, v)'
      BY <1>m, <1>s, <2>0, <3>1, <3>3, <3>4 DEF MadeAt
    <3>. QED BY <2>0, <3>1, <3>3, <3>5 DEF Built
  <2>. QED BY <1>a, <1>5, <2>1, <2>2 DEF EnsureTLSRoute
<1>6. CASE EnsureAppsCertificate
  <2>1. /\ worker.pc = "EnsureAppsCertificate" /\ p = "EnsureAppsListener"
        /\ UNCHANGED <<config, ns, inside, misled, release, route>> /\ cert' = cert \cup {t}
    BY <1>a, <1>6 DEF EnsureAppsCertificate, At
  <2>. QED BY <1>m, <1>s, <2>1 DEF MadeAt, Built,
         HasQuota, HasLimits, HasGrant, HasRoute
<1>7. CASE EnsureAppsListener
  <2>1. /\ worker.pc = "EnsureAppsListener" /\ p \in {"Install", "Fail"}
        /\ UNCHANGED <<config, ns, inside, misled, release, route, cert>>
    BY <1>a, <1>7 DEF EnsureAppsListener, At
  <2>. QED BY <1>m, <1>s, <2>1 DEF MadeAt, Built,
         HasQuota, HasLimits, HasGrant, HasRoute
<1>8. CASE Install
  <2>0. worker.pc = "Install" /\ UNCHANGED <<config, ns, inside, misled, route, cert>>
    BY <1>8 DEF Install, At
  <2>1. CASE HelmAccepts
    <3>1. p = "InstallRun" /\ release' = [release EXCEPT ![t] = [status |-> "pending", spec |-> v]]
      BY <1>a, <1>8, <2>1 DEF Install
    <3>2. release'[t].status = "pending" /\ release'[t].spec = v
      BY <1>a, <3>1
    <3>. QED BY <1>m, <1>s, <2>0, <3>1, <3>2 DEF MadeAt, Built,
         HasQuota, HasLimits, HasGrant, HasRoute
  <2>2. CASE ~HelmAccepts
    BY <1>a, <1>u, <1>x, <1>8, <2>0, <2>2 DEF Install
  <2>. QED BY <2>1, <2>2
<1>9. CASE InstallRun
  <2>0. worker.pc = "InstallRun" /\ UNCHANGED <<config, ns, inside, misled, route, cert>>
    BY <1>9 DEF InstallRun, At
  <2>1. CASE ns[NsOf[t]].state = "active"
    <3>1. p = "VclusterReady" /\ release' = [release EXCEPT ![t].status = "deployed"]
      BY <1>a, <1>9, <2>1 DEF InstallRun
    <3>2. release'[t].status = "deployed" /\ release'[t].spec = release[t].spec
      BY <1>a, <3>1
    <3>. QED BY <1>m, <1>s, <2>0, <2>1, <3>1, <3>2 DEF MadeAt, Built,
         HasQuota, HasLimits, HasGrant, HasRoute
  <2>2. CASE ns[NsOf[t]].state # "active"
    <3>1. p = "Fail"
      BY <1>a, <1>9, <2>2 DEF InstallRun
    <3>. QED BY <1>s, <2>2, <3>1 DEF MadeAt, Built,
         HasQuota, HasLimits, HasGrant, HasRoute
  <2>. QED BY <2>1, <2>2
<1>10. CASE VclusterReady
  <2>1. /\ worker.pc = "VclusterReady" /\ p \in {"StatusReady", "StatusProvisioning"}
        /\ UNCHANGED <<config, ns, inside, misled, release, route, cert>>
    BY <1>a, <1>10 DEF VclusterReady, At
  <2>. QED BY <1>m, <1>s, <2>1 DEF MadeAt, Built,
         HasQuota, HasLimits, HasGrant, HasRoute
<1>11. ~(Uninstall \/ DeleteTLSRoute \/ DeleteListener \/ DeleteCertificate
           \/ DeleteCertSecret \/ DeleteNamespace)
  BY KindsOfCalls DEF Uninstall, DeleteTLSRoute, DeleteListener, DeleteCertificate,
     DeleteCertSecret, DeleteNamespace, At, DeleteCalls
<1>. QED BY <1>1, <1>2, <1>3, <1>4, <1>5, <1>6, <1>7, <1>8, <1>9, <1>10, <1>11 DEF OtherCall

\* Versions only grow, and what a status observes was issued.
LEMMA IssuedStep ==
  ASSUME TypeOK, WakeInv, VersionsIssued, [Next]_vars
  PROVE  VersionsIssued'
<1>0. /\ cr \in [Tenants -> CR] /\ issued \in [Tenants -> Specs]
      /\ \A t \in Tenants : /\ cr[t].spec \in Nat /\ cr[t].obs \in Nat
                            /\ issued[t] \in Nat
  BY DEF TypeOK, CRTypeOK, CR, Specs
<1>1. NoCR.spec = 0 /\ NoCR.obs = 0
  BY DEF NoCR
<1>2. CASE ByPass
  BY <1>0, <1>1, <1>2 DEF ByPass, VersionsIssued
<1>3. ASSUME NEW t \in Tenants, ByUser(t) PROVE VersionsIssued'
  <2>1. \A u \in Tenants \ {t} : cr'[u] = cr[u] /\ issued'[u] = issued[u]
    BY <1>3 DEF ByUser
  <2>2. \/ /\ cr'[t].spec = issued[t] + 1 /\ issued'[t] = issued[t] + 1
           /\ cr'[t].obs = 0 \/ cr'[t].obs = cr[t].obs
        \/ /\ cr'[t].spec = cr[t].spec /\ cr'[t].obs = cr[t].obs /\ issued'[t] = issued[t]
        \/ cr'[t].spec = 0 /\ cr'[t].obs = 0 /\ issued'[t] = issued[t]
    BY <1>1, <1>3 DEF ByUser
  <2>3. cr'[t].spec <= issued'[t] /\ cr'[t].obs <= issued'[t]
    <3>1. /\ cr[t].spec <= issued[t] /\ cr[t].obs <= issued[t] /\ issued[t] \in Nat
          /\ cr[t].spec \in Nat /\ cr[t].obs \in Nat
      BY <1>0 DEF VersionsIssued
    <3>. QED BY <2>2, <3>1
  <2>4. \A u \in Tenants \ {t} : cr'[u].spec <= issued'[u] /\ cr'[u].obs <= issued'[u]
    BY <2>1 DEF VersionsIssued
  <2>. QED BY <2>3, <2>4 DEF VersionsIssued
<1>. QED BY <1>2, <1>3, CRMoves DEF VersionsIssued

\* A pass that can still write works from the version the cache has.
LEMMA AsSeenStep ==
  ASSUME TypeOK, WakeInv, SaysDeleting, PassAsSeen, [Next]_vars
  PROVE  PassAsSeen'
<1> USE DEF crVars, cacheVars, nsVars, copyVars, helmVars, netVars
<1>0. /\ Idle.pc = "idle" /\ "idle" \notin EnsurePath /\ "Uninstall" \notin EnsurePath
      /\ "MarkPending" \in EnsurePath
      /\ worker.pc # "idle" => worker.t \in Tenants
  BY KindsOfCalls DEF Idle, TypeOK, WorkerTypeOK, EnsurePath, DeleteCalls, EnsureCalls,
     StatusCalls
<1>1. ASSUME NEW t \in Tenants, ByUser(t) PROVE PassAsSeen'
  <2>1. worker' = [worker EXCEPT !.fresh = (worker.fresh /\ worker.t # t)]
    BY <1>1 DEF ByUser, Overtaken
  <2>2. /\ worker'.pc = worker.pc /\ worker'.t = worker.t /\ worker'.obj = worker.obj
        /\ worker'.fresh => worker.fresh
    BY <2>1, Zenon DEF TypeOK, WorkerTypeOK
  <2>3. seen' = seen
    BY <1>1 DEF ByUser
  <2>. QED BY <2>2, <2>3 DEF PassAsSeen
<1>2. CASE ByPass
  <2>1. PICK t \in Tenants : t = worker.t
    BY <1>2 DEF ByPass
  <2>2. \/ worker'.pc \notin EnsurePath
        \/ /\ worker.pc = "MarkPending" /\ worker.fresh /\ worker'.t = t
           /\ worker'.obj.spec = worker.obj.spec
    BY <1>0, <1>2, <2>1 DEF ByPass
  <2>3. seen' = seen
    BY <1>2 DEF ByPass
  <2>. QED BY <1>0, <2>1, <2>2, <2>3 DEF PassAsSeen
<1>3. CASE PassEnds
  BY <1>0, <1>3 DEF PassEnds, PassAsSeen
<1>4. CASE OtherCall
  <2>1. seen' = seen
    BY <1>4, CallsDo DEF CallEffect
  <2>2. worker'.pc \in EnsurePath =>
          /\ worker.pc \in EnsurePath /\ worker'.t = worker.t
          /\ worker'.obj = worker.obj /\ worker'.fresh = worker.fresh
    BY <1>0, <1>4, CallsDo, KindsOfCalls DEF CallEffect
  <2>. QED BY <2>1, <2>2 DEF PassAsSeen
<1>5. CASE EnsureFails
  <2>1. worker.pc \in EnsurePath
    BY <1>5 DEF EnsureFails, EnsurePath
  <2>. QED BY <2>1, <1>5, FailEffect DEF PassAsSeen
<1>6. ASSUME NEW t \in Tenants, Reconcile(t) PROVE PassAsSeen'
  <2>1. seen' = seen /\ seen[t] \in CR
    BY <1>6 DEF Reconcile, TypeOK, CacheTypeOK
  <2>2. CASE FirstCall(seen[t]) = "idle"
    <3>1. worker'.pc = "idle"
      BY <1>0, <1>6, <2>2 DEF Reconcile
    <3>. QED BY <1>0, <3>1 DEF PassAsSeen
  <2>3. CASE FirstCall(seen[t]) # "idle"
    <3>1. worker'.pc = FirstCall(seen[t]) /\ worker'.t = t /\ worker'.obj = seen[t]
      BY <1>6, <2>3 DEF Reconcile
    <3>2. worker'.pc \in EnsurePath => seen[t].life = "live"
      BY <2>1, <3>1, FirstCallMatches
    <3>3. worker'.pc \in EnsurePath => seen[t].phase # "Deleting"
      BY <3>2 DEF SaysDeleting
    <3>. QED BY <2>1, <3>1, <3>3 DEF PassAsSeen
  <2>. QED BY <2>2, <2>3
<1>7. ASSUME NEW t \in Tenants, TenantEvent(t) PROVE PassAsSeen'
  <2>1. /\ worker' = worker /\ seen'[t] = cr[t]
        /\ \A u \in Tenants \ {t} : seen'[u] = seen[u]
    BY <1>7 DEF TenantEvent, TypeOK, CacheTypeOK
  <2>2. worker.pc \in EnsurePath /\ worker.fresh =>
          /\ worker.t \in Tenants /\ worker.obj = cr[worker.t]
          /\ cr[worker.t].life = "live" /\ cr[worker.t].phase # "Deleting"
    BY <1>0 DEF WakeInv, FreshCopies, PassMatchesCopy, SaysDeleting
  <2>. QED BY <2>1, <2>2 DEF PassAsSeen
<1>8. CASE Restart
  BY <1>0, <1>8 DEF Restart, PassAsSeen
<1>. QED BY <1>1, <1>2, <1>3, <1>4, <1>5, <1>6, <1>7, <1>8, StepKinds
     DEF NamespaceGone, NamespaceDeleted, Outside, PassAsSeen

\* What a pass has made stays while it goes on, where nobody else deletes
\* namespaces.
LEMMA MadeStep ==
  ASSUME OwnNamespaces, "namespace" \notin FaultKinds, TypeOK, WakeInv, Made, [Next]_vars
  PROVE  Made'
<1> USE DEF crVars, cacheVars, nsVars, copyVars, helmVars, netVars,
           HasQuota, HasLimits, HasGrant, HasRoute
<1>0. /\ Idle.pc = "idle"
      /\ {"idle", "Fail", "EnsureNamespace", "Uninstall", "AddFinalizer", "MarkPending"}
           \cap PastQuota = {}
      /\ "Uninstall" \in DeleteCalls
      /\ worker.pc # "idle" => worker.t \in Tenants
      /\ "idle" \notin PastQuota
  BY MakingCalls DEF Idle, TypeOK, WorkerTypeOK, DeleteCalls
<1>n. worker'.pc \notin PastQuota => Made'
  BY DEF Made, MadeAt, PastQuota, PastLimits, PastGrant, PastRoute, PastCert, PastInstall
<1>k. ASSUME UNCHANGED <<config, ns, inside, misled, release, route, cert>>,
             worker'.pc = worker.pc, worker'.t = worker.t, worker'.obj = worker.obj
      PROVE  Made'
  BY <1>k DEF Made, MadeAt
<1>1. ASSUME NEW t \in Tenants, ByUser(t) PROVE Made'
  <2>1. worker' = [worker EXCEPT !.fresh = (worker.fresh /\ worker.t # t)]
    BY <1>1 DEF ByUser, Overtaken
  <2>2. worker'.pc = worker.pc /\ worker'.t = worker.t /\ worker'.obj = worker.obj
    BY <2>1, Zenon DEF TypeOK, WorkerTypeOK
  <2>3. UNCHANGED <<config, ns, inside, misled, release, route, cert>>
    BY <1>1 DEF ByUser
  <2>. QED BY <1>k, <2>2, <2>3
<1>2. CASE ByPass
  <2>1. worker'.pc \in {"idle", "EnsureNamespace", "Uninstall"}
    BY <1>0, <1>2 DEF ByPass
  <2>. QED BY <1>0, <1>n, <2>1
<1>3. CASE PassEnds
  BY <1>0, <1>n, <1>3 DEF PassEnds
<1>4. CASE OtherCall
  <2>1. CallEffect
    BY <1>4, CallsDo
  <2>2. CASE worker'.pc \notin PastQuota
    BY <1>n, <2>2
  <2>3. CASE worker'.pc \in PastQuota
    <3>1. /\ worker.pc \in EnsurePath /\ worker.t \in Tenants
          /\ worker'.t = worker.t /\ worker'.obj = worker.obj
      BY <1>0, <2>1, <2>3, MakingCalls DEF CallEffect
    <3>2. PICK t \in Tenants : t = worker.t
      BY <3>1
    <3>3. PICK v : v = worker.obj.spec
      OBVIOUS
    <3>4. PICK p : p = worker'.pc
      OBVIOUS
    <3>5. MadeAt(p, t, v)'
      BY <1>4, <3>1, <3>2, <3>3, <3>4, CallMakes
    <3>. QED BY <3>1, <3>2, <3>3, <3>4, <3>5 DEF Made, MadeAt
  <2>. QED BY <2>2, <2>3
<1>5. CASE EnsureFails
  BY <1>0, <1>n, <1>5, FailEffect
<1>6. ASSUME NEW t \in Tenants, Reconcile(t) PROVE Made'
  <2>1. FirstCall(seen[t]) \in {"idle", "MarkDeleting", "Uninstall", "AddFinalizer",
                                "MarkPending", "EnsureNamespace"}
    BY DEF FirstCall
  <2>2. worker'.pc = FirstCall(seen[t])
    BY <1>0, <1>6 DEF Reconcile
  <2>3. "MarkDeleting" \notin PastQuota
    BY MakingCalls DEF DeleteCalls
  <2>. QED BY <1>0, <1>n, <2>1, <2>2, <2>3
<1>7. ASSUME NEW t \in Tenants, TenantEvent(t) PROVE Made'
  BY <1>k, <1>7 DEF TenantEvent
<1>8. ASSUME NEW n \in Namespaces, NamespaceGone(n) PROVE Made'
  <2>1. CASE worker.pc \notin PastQuota
    BY <1>n, <1>8, <2>1 DEF NamespaceGone
  <2>2. CASE worker.pc \in PastQuota
    <3>0. PICK t \in Tenants : t = worker.t
      BY <1>0, <2>2
    <3>1. NsOf[t] \in Namespaces
      BY OperatorAssumptions DEF OperatorAssumptions
    <3>2. UNCHANGED <<worker, config, misled, route, cert>>
      BY <1>8 DEF NamespaceGone
    <3>3. CASE n = NsOf[t]
      <4>1. ns'[NsOf[t]].state = "absent"
        BY <1>8, <3>1, <3>3 DEF NamespaceGone, NoNs, TypeOK, NsTypeOK
      <4>2. worker.pc \notin PastInstall
        BY <1>8, <3>0, <3>3 DEF NamespaceGone, Made, MadeAt
      <4>. QED BY <3>0, <3>2, <4>1, <4>2 DEF Made, MadeAt
    <3>4. CASE n # NsOf[t]
      <4>1. /\ ns'[NsOf[t]] = ns[NsOf[t]] /\ inside'[NsOf[t]] = inside[NsOf[t]]
            /\ release'[t] = release[t]
        BY <1>8, <3>1, <3>4 DEF NamespaceGone, TypeOK, NsTypeOK
      <4>. QED BY <3>0, <3>2, <4>1 DEF Made, MadeAt
    <3>. QED BY <3>3, <3>4
  <2>. QED BY <2>1, <2>2
<1>9. ASSUME NEW n \in Namespaces, NamespaceDeleted(n) PROVE Made'
  BY <1>9 DEF NamespaceDeleted, Fault
<1>10. CASE Restart
  BY <1>0, <1>n, <1>10 DEF Restart
<1>11. CASE Outside
  BY <1>k, <1>11 DEF Outside
<1>. QED BY <1>1, <1>2, <1>3, <1>4, <1>5, <1>6, <1>7, <1>8, <1>9, <1>10, <1>11, StepKinds

\* A write of a pass: its other Tenants keep what they have, its own says Ready
\* only after a pass that has made everything.
LEMMA ReadyByPass ==
  ASSUME TypeOK, WakeInv, SaysDeleting, ReadyInv, ByPass, NEW t \in Tenants, Says(t)'
  PROVE  Behind(t)'
<1> USE DEF crVars, cacheVars, nsVars, copyVars, helmVars, netVars,
           HasQuota, HasLimits, HasGrant, HasRoute
<1>0. /\ worker.t \in Tenants /\ None \notin Tenants
      /\ Idle.pc = "idle" /\ Idle.t = None
      /\ UNCHANGED <<seen, config, ns, inside, misled, release, route, cert>>
  BY OperatorAssumptions DEF OperatorAssumptions, Idle, ByPass
<1>1. \A v : Built(t, v)' <=> Built(t, v)
  BY <1>0 DEF Built
<1>2. CASE worker.t # t
  <2>1. cr'[t] = cr[t] /\ worker'.t # t
    BY <1>0, <1>2 DEF ByPass
  <2>2. Behind(t)
    BY <2>1 DEF Says, ReadyInv, ReadyIsBuilt
  <2>3. Built(t, cr[t].spec)'
    BY <1>1, <2>1, <2>2 DEF Behind
  <2>. QED BY <1>0, <2>1, <2>2, <2>3 DEF Behind
<1>3. CASE worker.t = t
  <2>0. cr'[t].phase = "Ready" /\ NoCR.phase # "Ready"
    BY DEF Says, NoCR
  <2>1. CASE worker.pc = "AddFinalizer"
    <3>1. /\ worker' = Idle /\ cr'[t].spec = cr[t].spec
          /\ cr'[t].phase = cr[t].phase /\ cr'[t].obs = cr[t].obs
      BY <1>3, <2>1 DEF ByPass, StatusWrites
    <3>2. Behind(t)
      BY <3>1 DEF Says, ReadyInv, ReadyIsBuilt
    <3>3. Built(t, cr[t].spec)'
      BY <1>0, <3>1, <3>2 DEF Behind, Built
    <3>. QED BY <1>0, <3>1, <3>2, <3>3, KindsOfCalls DEF Behind, Built
  <2>2. CASE worker.pc # "AddFinalizer"
    <3>1. /\ worker.pc = "StatusReady" /\ worker.fresh /\ worker' = Idle
          /\ cr'[t].spec = cr[t].spec /\ worker.obj = cr[t]
      BY <1>3, <2>0, <2>2 DEF ByPass, StatusWrites
    <3>2. seen[t].spec = cr[t].spec /\ seen[t].phase # "Deleting"
      BY <1>3, <3>1 DEF ReadyInv, PassAsSeen, EnsurePath, StatusCalls
    <3>3. Built(t, cr[t].spec)
      BY <1>3, <3>1 DEF ReadyInv, Made, MadeAt, Built, PastQuota, PastLimits, PastGrant,
         PastRoute, PastCert, PastInstall
    <3>4. Built(t, cr[t].spec)'
      BY <1>0, <3>1, <3>3 DEF Built
    <3>5. seen'[t].spec = cr'[t].spec /\ seen'[t].phase # "Deleting"
      BY <1>0, <3>1, <3>2
    <3>6. worker'.pc \notin EnsurePath /\ worker'.pc \notin DeleteCalls
      BY <1>0, <3>1, KindsOfCalls
    <3>. QED BY <3>4, <3>5, <3>6 DEF Behind
  <2>. QED BY <2>1, <2>2
<1>. QED BY <1>2, <1>3

\* A user's write: an edit asks for a version nothing has observed.
LEMMA ReadyByUser ==
  ASSUME TypeOK, ReadyInv, NEW u \in Tenants, ByUser(u), NEW t \in Tenants, Says(t)'
  PROVE  Behind(t)'
<1> USE DEF crVars, cacheVars, nsVars, copyVars, helmVars, netVars,
           HasQuota, HasLimits, HasGrant, HasRoute
<1>1. worker' = [worker EXCEPT !.fresh = (worker.fresh /\ worker.t # u)]
  BY DEF ByUser, Overtaken
<1>2. worker'.pc = worker.pc /\ worker'.t = worker.t /\ worker'.obj = worker.obj
  BY <1>1, Zenon DEF TypeOK, WorkerTypeOK
<1>3. UNCHANGED <<seen, config, ns, inside, misled, release, route, cert>>
  BY DEF ByUser
<1>4. /\ cr'[t].spec = cr[t].spec /\ cr'[t].phase = cr[t].phase
      /\ cr'[t].obs = cr[t].obs
  <2>1. CASE t # u
    BY <2>1 DEF ByUser
  <2>2. CASE t = u
    <3>1. /\ cr[t].obs \in Nat /\ issued[t] \in Nat /\ cr[t].obs <= issued[t]
      BY DEF TypeOK, CRTypeOK, CR, Specs, ReadyInv, VersionsIssued
    <3>2. cr'[t].phase = "Ready" /\ cr'[t].obs = cr'[t].spec /\ NoCR.phase # "Ready"
      BY DEF Says, NoCR
    <3>3. ~(cr'[t].obs = cr[t].obs /\ cr'[t].spec = issued[t] + 1)
      BY <3>1, <3>2
    <3>. QED BY <2>2, <3>2, <3>3 DEF ByUser
  <2>. QED BY <2>1, <2>2
<1>5. Behind(t)
  BY <1>4 DEF Says, ReadyInv, ReadyIsBuilt
<1>. QED BY <1>2, <1>3, <1>4, <1>5 DEF Behind, Built

\* A call of a pass: one for another tenant changes nothing here, one for this
\* tenant asks for the version that is there already.
LEMMA ReadyByCall ==
  ASSUME OwnNamespaces, TypeOK, WakeInv, ReadyInv, OtherCall, NEW t \in Tenants, Says(t)'
  PROVE  Behind(t)'
<1> USE DEF crVars, cacheVars, nsVars, copyVars, helmVars, netVars,
           HasQuota, HasLimits, HasGrant, HasRoute
<1>0. /\ CallEffect /\ NsOf[t] \in Namespaces /\ None \notin Tenants
      /\ Idle.pc = "idle" /\ Idle.t = None
  BY CallsDo, OperatorAssumptions DEF OperatorAssumptions, Idle
<1>1. UNCHANGED <<cr, seen, config>>
  BY <1>0 DEF CallEffect
<1>2. Behind(t)
  BY <1>1 DEF Says, ReadyInv, ReadyIsBuilt
<1>3. CASE worker.t # t
  <2>1. NsOf[t] # NsOf[worker.t] /\ worker'.t # t
    BY <1>0, <1>3 DEF OwnNamespaces, CallEffect
  <2>2. /\ ns'[NsOf[t]] = ns[NsOf[t]] /\ inside'[NsOf[t]] = inside[NsOf[t]]
        /\ release'[t] = release[t] /\ misled'[t] = misled[t]
        /\ (t \in route' <=> t \in route) /\ (t \in cert' <=> t \in cert)
    BY <1>0, <1>3, <2>1 DEF CallEffect
  <2>. QED BY <1>1, <1>2, <2>1, <2>2 DEF Behind, Built
<1>4. CASE worker.t = t
  <2>1. worker.pc \in EnsurePath
    <3>1. worker.pc # "MarkDeleting"
      BY DEF OtherCall, At, EnsureNamespace, EnsureResourceQuota, EnsureLimitRange,
         EnsureReferenceGrant, EnsureTLSRoute, EnsureAppsCertificate, EnsureAppsListener,
         Install, InstallRun, VclusterReady, Uninstall, DeleteTLSRoute, DeleteListener,
         DeleteCertificate, DeleteCertSecret, DeleteNamespace
    <3>2. worker.pc \notin DeleteCalls
      BY <1>2, <1>4, <3>1 DEF Behind
    <3>. QED BY <1>0, <3>2 DEF CallEffect
  <2>2. worker.obj.spec = cr[t].spec
    BY <1>2, <1>4, <2>1 DEF Behind
  <2>3. PICK v : v = cr[t].spec
    OBVIOUS
  <2>4. PICK p : p = worker'.pc
    OBVIOUS
  <2>5. Built(t, v)'
    BY <1>2, <1>4, <2>1, <2>2, <2>3, <2>4, CallMakes DEF ReadyInv, Behind
  <2>6. Built(t, cr[t].spec)'
    BY <1>1, <2>3, <2>5 DEF Built
  <2>7. /\ worker'.pc \notin DeleteCalls
        /\ worker'.pc \in EnsurePath => worker'.obj.spec = cr[t].spec
    BY <1>0, <2>1, <2>2, KindsOfCalls DEF CallEffect
  <2>. QED BY <1>1, <1>2, <2>6, <2>7 DEF Behind
<1>. QED BY <1>3, <1>4

\* A pass begins: over the copy of a Tenant that is Ready it asks for the same
\* version, or marks it for deletion with a write.
LEMMA ReadyByReconcile ==
  ASSUME TypeOK, ReadyInv, NEW u \in Tenants, Reconcile(u), NEW t \in Tenants, Says(t)'
  PROVE  Behind(t)'
<1> USE DEF crVars, cacheVars, nsVars, copyVars, helmVars, netVars,
           HasQuota, HasLimits, HasGrant, HasRoute
<1>0. /\ UNCHANGED <<cr, seen, config, ns, inside, misled, release, route, cert>>
      /\ Idle.pc = "idle" /\ None \notin Tenants /\ Idle.t = None
      /\ "idle" \notin EnsurePath \cup DeleteCalls
  BY KindsOfCalls, OperatorAssumptions DEF OperatorAssumptions, Reconcile, Idle
<1>1. Behind(t)
  BY <1>0 DEF Says, ReadyInv, ReadyIsBuilt
<1>2. Built(t, cr[t].spec)'
  BY <1>0, <1>1 DEF Behind, Built
<1>3. CASE u = t /\ FirstCall(seen[u]) # "idle"
  <2>1. worker'.pc = FirstCall(seen[t]) /\ worker'.obj = seen[t]
    BY <1>3 DEF Reconcile
  <2>2. FirstCall(seen[t]) \in DeleteCalls => FirstCall(seen[t]) = "MarkDeleting"
    BY <1>1 DEF Behind, FirstCall, DeleteCalls
  <2>. QED BY <1>0, <1>1, <1>2, <2>1, <2>2 DEF Behind
<1>4. CASE u # t \/ FirstCall(seen[u]) = "idle"
  <2>1. worker'.t # t
    BY <1>0, <1>4 DEF Reconcile
  <2>. QED BY <1>0, <1>1, <1>2, <2>1 DEF Behind
<1>. QED BY <1>3, <1>4

\* What happens around the operator takes nothing from a tenant in an active
\* namespace, and events only refresh copies.
LEMMA ReadyByEvent ==
  ASSUME OneConfig, "namespace" \notin FaultKinds, TypeOK, WakeInv, GuardInv, SaysDeleting,
         ReadyInv,
         \/ PassEnds \/ EnsureFails \/ Restart \/ Outside
         \/ \E u \in Tenants : TenantEvent(u)
         \/ \E n \in Namespaces : NamespaceGone(n) \/ NamespaceDeleted(n),
         NEW t \in Tenants, Says(t)'
  PROVE  Behind(t)'
<1> USE DEF crVars, cacheVars, nsVars, copyVars, helmVars, netVars,
           HasQuota, HasLimits, HasGrant, HasRoute
<1>0. /\ Idle.pc = "idle" /\ "idle" \notin EnsurePath \cup DeleteCalls
      /\ NsOf[t] \in Namespaces
  BY KindsOfCalls, OperatorAssumptions DEF OperatorAssumptions, Idle
<1>1. cr' = cr
  BY DEF PassEnds, EnsureFails, Restart, Outside, TenantEvent, NamespaceGone, NamespaceDeleted
<1>2. Behind(t)
  BY <1>1 DEF Says, ReadyInv, ReadyIsBuilt
<1>3. Built(t, cr[t].spec)'
  <2>1. CASE PassEnds \/ Outside \/ \E u \in Tenants : TenantEvent(u)
    BY <1>1, <1>2, <2>1 DEF PassEnds, Outside, TenantEvent, Behind, Built
  <2>2. CASE EnsureFails
    BY <1>1, <1>2, <2>2, FailEffect DEF Behind, Built
  <2>3. CASE Restart
    <3>1. config' = config /\ UNCHANGED <<ns, inside, misled, release, route, cert>>
      BY <2>3 DEF Restart, OneConfig, GuardInv, Features
    <3>. QED BY <1>1, <1>2, <3>1 DEF Behind, Built
  <2>4. ASSUME NEW n \in Namespaces, NamespaceGone(n) PROVE Built(t, cr[t].spec)'
    <3>1. n # NsOf[t]
      BY <1>2, <2>4 DEF Behind, Built, NamespaceGone
    <3>2. /\ ns'[NsOf[t]] = ns[NsOf[t]] /\ inside'[NsOf[t]] = inside[NsOf[t]]
          /\ release'[t] = release[t] /\ UNCHANGED <<config, misled, route, cert>>
      BY <1>0, <2>4, <3>1 DEF NamespaceGone, TypeOK, NsTypeOK
    <3>. QED BY <1>1, <1>2, <3>2 DEF Behind, Built
  <2>5. ASSUME NEW n \in Namespaces, NamespaceDeleted(n) PROVE FALSE
    BY <2>5 DEF NamespaceDeleted, Fault
  <2>. QED BY <2>1, <2>2, <2>3, <2>4, <2>5
<1>4. seen'[t] = seen[t] \/ seen'[t] = cr[t]
  BY FailEffect DEF PassEnds, Restart, Outside, TenantEvent, NamespaceGone, NamespaceDeleted,
     TypeOK, CacheTypeOK
<1>5. cr[t].phase # "Deleting"
  BY <1>1 DEF Says
<1>6. \/ worker'.pc = "idle"
      \/ worker'.pc = "Fail" /\ worker.pc \in EnsurePath
           /\ worker'.t = worker.t /\ worker'.obj = worker.obj
      \/ worker' = worker
  BY <1>0, FailEffect
  DEF PassEnds, EnsureFails, EnsurePath, Restart, Outside, TenantEvent, NamespaceGone,
      NamespaceDeleted
<1>7. "Fail" \in EnsurePath /\ "Fail" \notin DeleteCalls
  BY DEF EnsurePath, StatusCalls, DeleteCalls
<1>8. /\ worker'.t = t /\ worker'.pc \in EnsurePath => worker'.obj.spec = cr[t].spec
      /\ worker'.t = t /\ worker'.pc \in DeleteCalls => worker'.pc = "MarkDeleting"
  BY <1>0, <1>2, <1>6, <1>7 DEF Behind
<1>9. seen'[t].spec = cr[t].spec /\ seen'[t].phase # "Deleting"
  BY <1>2, <1>4, <1>5 DEF Behind
<1>. QED BY <1>1, <1>3, <1>8, <1>9 DEF Behind

\* Every step keeps the invariant.
LEMMA ReadyStep ==
  ASSUME OneConfig, OwnNamespaces, "namespace" \notin FaultKinds,
         TypeOK, WakeInv, GuardInv, SaysDeleting, ReadyInv, [Next]_vars
  PROVE  ReadyInv'
<1>1. VersionsIssued' /\ PassAsSeen' /\ Made'
  BY IssuedStep, AsSeenStep, MadeStep DEF ReadyInv
<1>2. ASSUME NEW t \in Tenants, Says(t)' PROVE Behind(t)'
  BY <1>2, StepKinds, ReadyByPass, ReadyByUser, ReadyByCall, ReadyByReconcile, ReadyByEvent
<1>3. ReadyIsBuilt'
  BY <1>2 DEF ReadyIsBuilt
<1>. QED BY <1>1, <1>3 DEF ReadyInv

\* Initially no CR says anything and no pass is under way.
LEMMA ReadyInit == Init => ReadyInv
<1>1. /\ NoCR.phase = "" /\ NoCR.spec = 0 /\ NoCR.obs = 0
      /\ Idle.pc = "idle" /\ "idle" \notin PastQuota /\ "idle" \notin EnsurePath
  BY MakingCalls, KindsOfCalls DEF NoCR, Idle
<1>2. Init => /\ worker.pc = "idle"
              /\ \A t \in Tenants : cr[t] = NoCR /\ issued[t] = 0
  BY <1>1 DEF Init
<1>3. Init => VersionsIssued /\ ReadyIsBuilt /\ PassAsSeen
  <2>1. Init => \A t \in Tenants : /\ cr[t].spec = 0 /\ cr[t].obs = 0 /\ issued[t] = 0
                                   /\ cr[t].phase # "Ready"
    BY <1>1, <1>2
  <2>2. Init => VersionsIssued
    BY <2>1 DEF VersionsIssued
  <2>3. Init => ReadyIsBuilt
    BY <2>1 DEF ReadyIsBuilt, Says
  <2>4. Init => PassAsSeen
    BY <1>1, <1>2 DEF PassAsSeen
  <2>. QED BY <2>2, <2>3, <2>4
<1>4. Init => Made
  BY <1>1, <1>2
  DEF Made, MadeAt, PastQuota, PastLimits, PastGrant, PastRoute, PastCert, PastInstall
<1>. QED BY <1>3, <1>4 DEF ReadyInv

(* ReadyReflectsSpec: a tenant that is Ready for its current spec has the      *)
(* release, quota, limits, ReferenceGrant, TLSRoute and Certificate of that    *)
(* spec, although passes work from cached copies, fail or crash between any    *)
(* two calls: with the same settings at every start, a namespace for each      *)
(* tenant, and nobody else deleting namespaces.  (One that somebody deletes    *)
(* takes the release and the quota with it, and Ready stays until the next     *)
(* pass.)  Whichever informers lag, and however far, an object is other than   *)
(* the spec wants it only where a pass compared the wanted object with an old  *)
(* copy, found no difference and so wrote nothing.                             *)
THEOREM ReadyIsTrue ==
  ASSUME OneConfig, OwnNamespaces, "namespace" \notin FaultKinds
  PROVE  Spec => []ReadyReflectsSpec
<1>1. Init => TypeOK /\ WakeInv /\ GuardInv /\ SaysDeleting /\ ReadyInv
  BY InitType, WakeInit, GuardInit, DeletingInit, ReadyInit
<1>2. TypeOK /\ WakeInv /\ GuardInv /\ SaysDeleting /\ ReadyInv /\ [Next]_vars
        => (TypeOK /\ WakeInv /\ GuardInv /\ SaysDeleting /\ ReadyInv)'
  BY NextType, WakeNext, GuardNext, DeletingStep, ReadyStep
<1>3. ReadyInv => ReadyReflectsSpec
  BY DEF ReadyInv, ReadyIsBuilt, Behind, Says, Built, HasQuota, HasLimits, HasGrant, HasRoute,
         ReadyReflectsSpec
<1>. QED BY <1>1, <1>2, <1>3, PTL DEF Spec

=============================================================================
