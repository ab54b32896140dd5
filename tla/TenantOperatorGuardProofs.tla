---------------------- MODULE TenantOperatorGuardProofs ---------------------
(***************************************************************************)
(* The finalizer guards what a tenant owns: while the release, the TLSRoute,*)
(* the Certificate or its Secret of a tenant exists, its CR exists and      *)
(* carries the finalizer.  It holds when every start of the operator has    *)
(* the same settings (OneConfig): the teardown skips the objects of a       *)
(* feature that is off.  With that, the operator implements the contract of *)
(* TenantLifecycle.                                                         *)
(***************************************************************************)
EXTENDS TenantOperatorWakeProofs

USE ConstantFacts

\* Every start of the operator has the same settings.
OneConfig == \A c, d \in Configs : c = d

\* The CR is there and has the finalizer.
Guarded(t) == cr[t].life # "absent" /\ cr[t].fin

\* Only the teardown takes the finalizer off, and a pass that still could is
\* the only one: neither the pass under way over a live copy nor one that the
\* cache may still start finds the finalizer gone.
FinalizerStays ==
  /\ worker.pc \in EnsurePath => Guarded(worker.t)
  /\ \A t \in Tenants : seen[t].life = "live" /\ seen[t].fin => Guarded(t)
  /\ worker.pc \in DeleteCalls /\ worker.fresh => seen[worker.t].life = "deleting"

\* The calls of a teardown after the release, the TLSRoute, the Certificate and
\* its Secret are gone.
AfterSecret == {"DeleteNamespace", "RemoveFinalizer"}
AfterCertificate == AfterSecret \cup {"DeleteCertSecret"}
PastTLSRoute == AfterCertificate \cup {"DeleteListener", "DeleteCertificate"}
PastRelease == PastTLSRoute \cup {"DeleteTLSRoute"}

\* What a teardown has deleted stays deleted until it ends.
TeardownOrder ==
  /\ worker.pc \in PastRelease => release[worker.t].status = "none"
  /\ worker.pc \in PastTLSRoute => worker.t \notin route
  /\ worker.pc \in AfterCertificate => worker.t \notin cert
  /\ worker.pc \in AfterSecret => worker.t \notin certSecret

\* Objects of a feature are made only where the feature is on.
Features ==
  /\ config \in Configs
  /\ worker.pc \in {"EnsureReferenceGrant", "EnsureTLSRoute"} => config.net
  /\ worker.pc = "EnsureAppsCertificate" => config.apps
  /\ route # {} => config.net
  /\ cert \cup certSecret # {} => config.apps

\* The inductive invariant.
GuardInv ==
  /\ FinalizerStays
  /\ TeardownOrder
  /\ Features
  /\ ResourcesGuarded

-----------------------------------------------------------------------------
(* The calls after parts of the teardown are calls of the teardown. *)
LEMMA TeardownCalls ==
  /\ PastRelease \subseteq DeleteCalls
  /\ PastTLSRoute \subseteq PastRelease
  /\ AfterCertificate \subseteq PastTLSRoute
  /\ AfterSecret \subseteq AfterCertificate
BY DEF PastRelease, PastTLSRoute, AfterCertificate, AfterSecret, DeleteCalls

(* A step that changes nothing the invariant is about. *)
LEMMA GuardElsewhere ==
  ASSUME GuardInv,
         UNCHANGED <<cr, seen, worker, release, route, cert, certSecret, config>>
  PROVE  GuardInv'
BY DEF GuardInv, FinalizerStays, Guarded, TeardownOrder, Features,
       ResourcesGuarded, HasResources

(* A pass that ends without a write. *)
LEMMA GuardIdle ==
  ASSUME GuardInv, worker' = Idle,
         UNCHANGED <<cr, seen, release, route, cert, certSecret, config>>
  PROVE  GuardInv'
<1>1. worker'.pc = "idle"
  BY DEF Idle
<1>2. /\ worker'.pc \notin EnsurePath \cup DeleteCalls \cup PastRelease
                           \cup PastTLSRoute \cup AfterCertificate \cup AfterSecret
      /\ worker'.pc \notin {"EnsureReferenceGrant", "EnsureTLSRoute",
                           "EnsureAppsCertificate"}
  BY <1>1, KindsOfCalls, TeardownCalls
<1>. QED BY <1>2 DEF GuardInv, FinalizerStays, Guarded, TeardownOrder, Features,
                     ResourcesGuarded, HasResources

(* Going on along the path of a live Tenant. *)
LEMMA GuardGoto ==
  ASSUME TypeOK, GuardInv, worker.pc \in EnsurePath, NEW p \in EnsurePath, Goto(p),
         p \in {"EnsureReferenceGrant", "EnsureTLSRoute"} => config.net,
         p = "EnsureAppsCertificate" => config.apps,
         UNCHANGED <<cr, seen, release, route, cert, certSecret, config>>
  PROVE  GuardInv'
<1>1. worker'.pc = p /\ worker'.t = worker.t
  BY DEF Goto, TypeOK, WorkerTypeOK
<1>2. p \notin DeleteCalls \cup PastRelease \cup PastTLSRoute
                 \cup AfterCertificate \cup AfterSecret
  BY KindsOfCalls, TeardownCalls
<1>. QED BY <1>1, <1>2 DEF GuardInv, FinalizerStays, Guarded, TeardownOrder,
                           Features, ResourcesGuarded, HasResources

(* A write of one Tenant that keeps its finalizer, and the worker after it. *)
LEMMA GuardWrite ==
  ASSUME TypeOK, WakeInv, GuardInv, NEW u \in Tenants, NEW c \in CR,
         \A t \in Tenants : t # u => cr'[t] = cr[t],
         cr'[u] = cr[u] \/ (cr'[u] = c /\ (Guarded(u) => c.life # "absent" /\ c.fin)),
         \/ /\ worker'.pc = worker.pc /\ worker'.t = worker.t
            /\ worker'.fresh => worker.fresh
         \/ worker'.pc = "idle"
         \/ /\ worker'.t = worker.t /\ (worker'.fresh => worker.fresh)
            /\ worker.pc = "MarkPending" /\ worker'.pc = "EnsureNamespace"
         \/ /\ worker'.t = worker.t /\ (worker'.fresh => worker.fresh)
            /\ worker.pc = "MarkDeleting" /\ worker'.pc = "Uninstall",
         worker.pc # "idle" => worker.t \in Tenants,
         UNCHANGED <<seen, release, route, cert, certSecret, config>>
  PROVE  GuardInv'
<1>1. \A t \in Tenants : Guarded(t) => Guarded(t)'
  BY DEF Guarded
<1>2. ResourcesGuarded'
  BY <1>1 DEF GuardInv, ResourcesGuarded, HasResources, Guarded
<1>3. /\ worker'.pc \in EnsurePath => worker.pc \in EnsurePath /\ worker'.t = worker.t
      /\ worker'.pc \in DeleteCalls /\ worker'.fresh =>
           worker.pc \in DeleteCalls /\ worker.fresh /\ worker'.t = worker.t
      /\ worker'.pc \in PastRelease \cup {"EnsureReferenceGrant", "EnsureTLSRoute",
           "EnsureAppsCertificate"} => worker'.pc = worker.pc /\ worker'.t = worker.t
  BY DEF EnsurePath, EnsureCalls, StatusCalls, DeleteCalls, PastRelease,
         PastTLSRoute, AfterCertificate, AfterSecret
<1>4. FinalizerStays'
  <2>1. worker'.pc \in EnsurePath => worker'.t \in Tenants /\ Guarded(worker'.t)
    BY <1>3, KindsOfCalls DEF GuardInv, FinalizerStays
  <2>2. worker'.pc \in EnsurePath =>
          cr'[worker'.t].life # "absent" /\ cr'[worker'.t].fin
    BY <1>1, <2>1 DEF Guarded
  <2>. QED BY <1>1, <1>3, <2>2 DEF GuardInv, FinalizerStays, Guarded
<1>5. TeardownOrder' /\ Features'
  BY <1>3, TeardownCalls DEF GuardInv, TeardownOrder, Features
<1>. QED BY <1>2, <1>4, <1>5 DEF GuardInv

(* A step of the same path that makes objects of its tenant. *)
LEMMA GuardEnsure ==
  ASSUME TypeOK, GuardInv, worker.pc \in EnsurePath, NEW p \in EnsurePath, Goto(p),
         UNCHANGED <<cr, seen, config>>,
         \A t \in Tenants \ {worker.t} :
            /\ release'[t] = release[t] /\ (t \in route' => t \in route)
            /\ t \in cert' \cup certSecret' => t \in cert \cup certSecret,
         p \in {"EnsureReferenceGrant", "EnsureTLSRoute"} => config.net,
         p = "EnsureAppsCertificate" => config.apps,
         route' # {} => config.net,
         cert' \cup certSecret' # {} => config.apps
  PROVE  GuardInv'
<1>1. worker'.pc = p /\ worker'.t = worker.t
  BY DEF Goto, TypeOK, WorkerTypeOK
<1>2. p \notin DeleteCalls \cup PastRelease \cup PastTLSRoute
                 \cup AfterCertificate \cup AfterSecret
  BY KindsOfCalls, TeardownCalls
<1>3. FinalizerStays' /\ TeardownOrder' /\ Features'
  BY <1>1, <1>2 DEF GuardInv, FinalizerStays, Guarded, TeardownOrder, Features
<1>4. Guarded(worker.t)
  BY DEF GuardInv, FinalizerStays
<1>5. ResourcesGuarded'
  BY <1>4 DEF GuardInv, ResourcesGuarded, HasResources, Guarded
<1>. QED BY <1>3, <1>5 DEF GuardInv

(* A step of a teardown. *)
LEMMA GuardTeardown ==
  ASSUME TypeOK, GuardInv, worker.pc \in DeleteCalls, NEW p \in DeleteCalls, Goto(p),
         UNCHANGED <<cr, seen, config>>,
         \A t \in Tenants : release[t].status = "none" => release'[t].status = "none",
         route' \subseteq route, cert' \subseteq cert, certSecret' \subseteq certSecret,
         TeardownOrder'
  PROVE  GuardInv'
<1>1. worker'.pc = p /\ worker'.t = worker.t /\ worker'.fresh = worker.fresh
  BY DEF Goto, TypeOK, WorkerTypeOK
<1>2. p \notin EnsurePath
  BY KindsOfCalls
<1>3. p \notin {"EnsureReferenceGrant", "EnsureTLSRoute", "EnsureAppsCertificate"}
  BY DEF DeleteCalls
<1>4. FinalizerStays' /\ Features'
  BY <1>1, <1>2, <1>3 DEF GuardInv, FinalizerStays, Guarded, Features
<1>5. ResourcesGuarded'
  BY DEF GuardInv, ResourcesGuarded, HasResources
<1>. QED BY <1>4, <1>5 DEF GuardInv

(* A user's write of one Tenant. *)
LEMMA GuardUser ==
  ASSUME TypeOK, WakeInv, GuardInv, NEW u \in Tenants, NEW c \in CR,
         cr' = [cr EXCEPT ![u] = c], Overtaken(u),
         Guarded(u) => c.life # "absent" /\ c.fin,
         UNCHANGED <<seen, release, route, cert, certSecret, config>>
  PROVE  GuardInv'
<1>1. (\A t \in Tenants : t # u => cr'[t] = cr[t]) /\ cr'[u] = c
  BY DEF TypeOK, CRTypeOK
<1>2. worker' = [worker EXCEPT !.fresh = (worker.fresh /\ worker.t # u)]
  BY DEF Overtaken
<1>3. /\ worker'.pc = worker.pc /\ worker'.t = worker.t
      /\ worker'.fresh => worker.fresh
  BY <1>2, Zenon DEF TypeOK, WorkerTypeOK
<1>4. worker.pc # "idle" => worker.t \in Tenants
  BY DEF TypeOK, WorkerTypeOK
<1>. QED BY <1>1, <1>3, <1>4, GuardWrite

(* A pass starts before any call that needs a feature or a deleted object. *)
LEMMA FirstCallEarly ==
  ASSUME NEW c \in CR
  PROVE  FirstCall(c) \notin PastRelease \cup {"EnsureReferenceGrant",
           "EnsureTLSRoute", "EnsureAppsCertificate"}
BY DEF FirstCall, PastRelease, PastTLSRoute, AfterCertificate, AfterSecret

(* It holds at the start, where there is nothing. *)
LEMMA GuardInit == Init => GuardInv
<1> SUFFICES ASSUME Init PROVE GuardInv
  OBVIOUS
<1>1. /\ worker.pc = "idle" /\ config \in Configs
      /\ route = {} /\ cert = {} /\ certSecret = {}
      /\ \A t \in Tenants : seen[t].life = "absent" /\ release[t].status = "none"
  BY DEF Init, Idle, NoCR, NoRelease
<1>2. worker.pc \notin EnsurePath \cup DeleteCalls \cup PastRelease \cup PastTLSRoute
                         \cup AfterCertificate \cup AfterSecret
  BY <1>1, KindsOfCalls, TeardownCalls
<1>. QED BY <1>1, <1>2 DEF GuardInv, FinalizerStays, TeardownOrder, Features,
                           ResourcesGuarded, HasResources

(* Every step keeps the invariant, with the same settings at every start. *)
LEMMA GuardNext ==
  ASSUME OneConfig, TypeOK, WakeInv, GuardInv, [Next]_vars
  PROVE  GuardInv'
<1> USE DEF crVars, cacheVars, helmVars, netVars
<1>a. /\ worker.obj \in CR
      /\ worker.pc # "idle" => worker.t \in Tenants
  BY DEF TypeOK, WorkerTypeOK
<1>1. ASSUME NEW t \in Tenants, Reconcile(t) PROVE GuardInv'
  <2>1. seen[t] \in CR
    BY DEF TypeOK, CacheTypeOK
  <2>2. CASE FirstCall(seen[t]) = "idle"
    BY <1>1, <2>2, GuardIdle DEF Reconcile
  <2>3. CASE FirstCall(seen[t]) # "idle"
    <3>1. /\ worker' = [pc |-> FirstCall(seen[t]), t |-> t, obj |-> seen[t],
                        fresh |-> current[t]]
          /\ UNCHANGED <<cr, seen, release, route, cert, certSecret, config>>
      BY <1>1, <2>3 DEF Reconcile
    <3>2. FinalizerStays'
      <4>1. FirstCall(seen[t]) \in EnsurePath => cr[t].life # "absent" /\ cr[t].fin
        BY <2>1, FirstCallMatches DEF GuardInv, FinalizerStays, Guarded
      <4>. QED BY <2>1, <3>1, <4>1, FirstCallMatches
               DEF GuardInv, FinalizerStays, Guarded
    <3>3. TeardownOrder' /\ Features'
      BY <2>1, <3>1, FirstCallEarly, TeardownCalls
      DEF GuardInv, TeardownOrder, Features
    <3>. QED BY <3>1, <3>2, <3>3
             DEF GuardInv, ResourcesGuarded, HasResources
  <2>. QED BY <2>2, <2>3
(* A pass's write that keeps life and finalizer. *)
<1>w. ASSUME NEW c \in CR, worker.pc # "idle", StoreCR(c), c.life = worker.obj.life,
             worker.obj.fin => c.fin, worker.obj.life = "live" \/ worker.obj.fin,
             \/ worker'.pc = "idle"
             \/ /\ worker' = [worker EXCEPT !.obj = c, !.pc = "EnsureNamespace"]
                /\ worker.pc = "MarkPending"
             \/ /\ worker' = [worker EXCEPT !.obj = c, !.pc = "Uninstall"]
                /\ worker.pc = "MarkDeleting",
             UNCHANGED <<seen, release, route, cert, certSecret, config>>
      PROVE  GuardInv'
  <2>1. c.life = "deleting" => c.fin
    BY <1>w
  <2>2. \A t \in Tenants : t # worker.t => cr'[t] = cr[t]
    BY <1>w, <2>1, StoreEffect
  <2>3. \/ cr'[worker.t] = cr[worker.t]
        \/ /\ cr'[worker.t] = c
           /\ Guarded(worker.t) => c.life # "absent" /\ c.fin
    <3>1. CASE worker.fresh
      BY <1>w, <2>1, <3>1, StoreEffect DEF WakeInv, FreshCopies, Guarded
    <3>2. CASE ~worker.fresh
      BY <1>w, <3>2 DEF StoreCR
    <3>. QED BY <3>1, <3>2
  <2>3a. worker.t \in Tenants
    BY <1>a, <1>w
  <2>4. \/ worker'.pc = "idle"
        \/ /\ worker'.t = worker.t /\ worker'.fresh = worker.fresh
           /\ worker.pc = "MarkPending" /\ worker'.pc = "EnsureNamespace"
        \/ /\ worker'.t = worker.t /\ worker'.fresh = worker.fresh
           /\ worker.pc = "MarkDeleting" /\ worker'.pc = "Uninstall"
    BY <1>w DEF TypeOK, WorkerTypeOK
  <2>. QED BY <1>w, <2>2, <2>3, <2>3a, <2>4, GuardWrite
<1>i. Idle.pc = "idle"
  BY DEF Idle
<1>2. ASSUME AddFinalizer PROVE GuardInv'
  <2> DEFINE c == [worker.obj EXCEPT !.fin = TRUE]
  <2>1. c \in CR /\ c.life = worker.obj.life /\ c.fin
    BY <1>a DEF CR
  <2>2. worker.pc = "AddFinalizer" /\ worker.obj.life = "live"
    BY <1>2 DEF AddFinalizer, At, WakeInv, PassMatchesCopy
  <2>3. StoreCR(c) /\ worker' = Idle
    BY <1>2 DEF AddFinalizer, WriteCR, Requeue
  <2>. QED BY <1>2, <1>i, <1>w, <2>1, <2>2, <2>3 DEF AddFinalizer
<1>3. ASSUME MarkPending PROVE GuardInv'
  <2> DEFINE c == Stamped([worker.obj EXCEPT !.phase = "Pending"])
  <2>1. c \in CR /\ c.life = worker.obj.life /\ c.fin = worker.obj.fin
    BY <1>a DEF CR, Phases, Stamped
  <2>2. worker.pc = "MarkPending" /\ worker.obj.life = "live"
    BY <1>3 DEF MarkPending, At, WakeInv, PassMatchesCopy, EnsurePath
  <2>3. /\ StoreCR(c)
        /\ worker' = Idle \/ worker' = [worker EXCEPT !.obj = c, !.pc = "EnsureNamespace"]
    BY <1>3 DEF MarkPending, WriteCR, Requeue
  <2>. QED BY <1>3, <1>i, <1>w, <2>1, <2>2, <2>3 DEF MarkPending
<1>4. ASSUME StatusReady PROVE GuardInv'
  <2> DEFINE c == Stamped([worker.obj EXCEPT !.phase = "Ready", !.ready = TRUE,
                                             !.ref = TRUE])
  <2>1. c \in CR /\ c.life = worker.obj.life /\ c.fin = worker.obj.fin
    BY <1>a DEF CR, Phases, Stamped
  <2>2. worker.pc = "StatusReady" /\ worker.obj.life = "live"
    BY <1>4 DEF StatusReady, At, WakeInv, PassMatchesCopy, EnsurePath, StatusCalls
  <2>3. StoreCR(c) /\ worker' = Idle
    BY <1>4 DEF StatusReady, WriteCR, Requeue
  <2>. QED BY <1>4, <1>i, <1>w, <2>1, <2>2, <2>3 DEF StatusReady
<1>5. ASSUME StatusProvisioning PROVE GuardInv'
  <2> DEFINE c == Stamped([worker.obj EXCEPT !.phase = "Provisioning",
                                             !.ready = FALSE, !.ref = FALSE])
  <2>1. c \in CR /\ c.life = worker.obj.life /\ c.fin = worker.obj.fin
    BY <1>a DEF CR, Phases, Stamped
  <2>2. worker.pc = "StatusProvisioning" /\ worker.obj.life = "live"
    BY <1>5 DEF StatusProvisioning, At, WakeInv, PassMatchesCopy, EnsurePath, StatusCalls
  <2>3. StoreCR(c) /\ worker' = Idle
    BY <1>5 DEF StatusProvisioning, Requeue
  <2>. QED BY <1>5, <1>i, <1>w, <2>1, <2>2, <2>3 DEF StatusProvisioning
<1>6. ASSUME Fail PROVE GuardInv'
  <2> DEFINE c == Stamped([worker.obj EXCEPT !.phase = "Failed", !.ready = FALSE])
  <2>1. c \in CR /\ c.life = worker.obj.life /\ c.fin = worker.obj.fin
    BY <1>a DEF CR, Phases, Stamped
  <2>2. worker.pc = "Fail" /\ worker.obj.life = "live"
    BY <1>6 DEF Fail, At, WakeInv, PassMatchesCopy, EnsurePath, StatusCalls
  <2>3. StoreCR(c) /\ worker' = Idle
    BY <1>6 DEF Fail, Requeue
  <2>. QED BY <1>6, <1>i, <1>w, <2>1, <2>2, <2>3 DEF Fail
<1>7. ASSUME MarkDeleting PROVE GuardInv'
  <2> DEFINE c == Stamped([worker.obj EXCEPT !.phase = "Deleting"])
  <2>1. c \in CR /\ c.life = worker.obj.life /\ c.fin = worker.obj.fin
    BY <1>a DEF CR, Phases, Stamped
  <2>2. worker.pc = "MarkDeleting" /\ worker.obj.fin
    BY <1>7 DEF MarkDeleting, At, WakeInv, PassMatchesCopy, DeleteCalls
  <2>3. /\ StoreCR(c)
        /\ worker' = Idle \/ worker' = [worker EXCEPT !.obj = c, !.pc = "Uninstall"]
    BY <1>7 DEF MarkDeleting, WriteCR, Requeue
  <2>. QED BY <1>7, <1>i, <1>w, <2>1, <2>2, <2>3 DEF MarkDeleting
<1>8. ASSUME RemoveFinalizer PROVE GuardInv'
  <2>1. /\ worker.pc = "RemoveFinalizer" /\ worker' = Idle /\ worker.t \in Tenants
        /\ UNCHANGED <<seen, release, route, cert, certSecret, config>>
    BY <1>8, <1>a DEF RemoveFinalizer, At, WriteCR, Requeue
  <2>2. CASE ~worker.fresh
    BY <1>8, <2>1, <2>2, GuardIdle DEF RemoveFinalizer, WriteCR, StoreCR
  <2>3. CASE worker.fresh
    <3>1. cr' = [cr EXCEPT ![worker.t] = NoCR]
      BY <1>8, <2>3 DEF RemoveFinalizer, WriteCR, StoreCR
    <3>2. \A t \in Tenants : t # worker.t => cr'[t] = cr[t]
      BY <3>1 DEF TypeOK, CRTypeOK
    <3>3. ~HasResources(worker.t)
      BY <2>1 DEF HasResources, GuardInv, TeardownOrder, PastRelease, PastTLSRoute,
                  AfterCertificate, AfterSecret
    <3>4. seen[worker.t].life = "deleting"
      BY <2>1, <2>3 DEF GuardInv, FinalizerStays, DeleteCalls
    <3>5. /\ worker'.pc \notin EnsurePath \cup DeleteCalls \cup PastRelease
                 \cup PastTLSRoute \cup AfterCertificate \cup AfterSecret
          /\ worker'.pc \notin {"EnsureReferenceGrant", "EnsureTLSRoute",
                               "EnsureAppsCertificate"}
      BY <2>1, <1>i, KindsOfCalls, TeardownCalls
    <3>6. FinalizerStays' /\ TeardownOrder' /\ Features'
      BY <2>1, <3>2, <3>4, <3>5
      DEF GuardInv, FinalizerStays, Guarded, TeardownOrder, Features
    <3>7. ResourcesGuarded'
      BY <2>1, <3>2, <3>3 DEF GuardInv, ResourcesGuarded, HasResources
    <3>. QED BY <3>6, <3>7 DEF GuardInv
  <2>. QED BY <2>2, <2>3
(* The worker's t and copy stay as they are along a pass. *)
<1>g. ASSUME NEW p, Goto(p)
      PROVE  /\ worker'.pc = p /\ worker'.t = worker.t
             /\ worker'.obj = worker.obj /\ worker'.fresh = worker.fresh
  BY <1>g DEF Goto, TypeOK, WorkerTypeOK
<1>9. ASSUME \/ EnsureNamespace \/ EnsureResourceQuota \/ EnsureLimitRange
             \/ EnsureReferenceGrant \/ EnsureAppsListener \/ VclusterReady
      PROVE  GuardInv'
  <2>1. worker.pc = "EnsureReferenceGrant" => config.net
    BY DEF GuardInv, Features
  <2>2. UNCHANGED <<cr, seen, release, route, cert, certSecret, config>>
    BY <1>9 DEF EnsureNamespace, EnsureResourceQuota, EnsureLimitRange,
      EnsureReferenceGrant, EnsureAppsListener, VclusterReady
  <2>3. worker.pc \in EnsurePath
    BY <1>9 DEF EnsureNamespace, EnsureResourceQuota, EnsureLimitRange, At,
      EnsureReferenceGrant, EnsureAppsListener, VclusterReady, EnsurePath,
      EnsureCalls, StatusCalls
  <2>4. PICK p \in EnsurePath :
          /\ Goto(p)
          /\ p \in {"EnsureReferenceGrant", "EnsureTLSRoute"} => config.net
          /\ p = "EnsureAppsCertificate" => config.apps
    <3>1. "Fail" \in EnsurePath /\ "EnsureLimitRange" \in EnsurePath
            /\ "EnsureTLSRoute" \in EnsurePath /\ AfterLimits \in EnsurePath
      BY DEF AfterLimits, AfterRoute, EnsurePath, EnsureCalls, StatusCalls
    <3>2. CASE EnsureNamespace \/ EnsureAppsListener \/ VclusterReady
      BY <3>2 DEF EnsureNamespace, EnsureAppsListener, VclusterReady, EnsurePath,
        EnsureCalls, StatusCalls
    <3>3. CASE EnsureResourceQuota
      <4>1. Goto("EnsureLimitRange") \/ Goto("Fail")
        BY <3>3, EnsureObjectGoes DEF EnsureResourceQuota
      <4>. QED BY <3>1, <4>1
    <3>4. CASE EnsureLimitRange
      <4>1. Goto(AfterLimits) \/ Goto("Fail")
        BY <3>4, EnsureObjectGoes DEF EnsureLimitRange
      <4>2. /\ AfterLimits \in {"EnsureReferenceGrant", "EnsureTLSRoute"} => config.net
            /\ AfterLimits = "EnsureAppsCertificate" => config.apps
        BY DEF AfterLimits, AfterRoute
      <4>. QED BY <3>1, <4>1, <4>2
    <3>5. CASE EnsureReferenceGrant
      <4>1. (Goto("EnsureTLSRoute") \/ Goto("Fail")) /\ config.net
        BY <2>1, <3>5, EnsureObjectGoes DEF EnsureReferenceGrant, At
      <4>. QED BY <3>1, <4>1
    <3>. QED BY <1>9, <3>2, <3>3, <3>4, <3>5
  <2>. QED BY <2>2, <2>3, <2>4, GuardGoto
<1>10. ASSUME EnsureTLSRoute PROVE GuardInv'
  <2>1. worker.pc = "EnsureTLSRoute" /\ config.net
    BY <1>10 DEF EnsureTLSRoute, At, GuardInv, Features
  <2>2. worker.pc \in EnsurePath
    BY <2>1 DEF EnsurePath, EnsureCalls
  <2>3. /\ AfterRoute \notin {"EnsureReferenceGrant", "EnsureTLSRoute"}
        /\ AfterRoute = "EnsureAppsCertificate" => config.apps
    BY DEF AfterRoute
  <2>4. /\ Goto(AfterRoute) \/ Goto("Fail")
        /\ route' = route \cup {worker.t} \/ route' = route
        /\ UNCHANGED <<cr, seen, config, release, cert, certSecret>>
    BY <1>10 DEF EnsureTLSRoute
  <2>5. cert \cup certSecret # {} => config.apps
    BY DEF GuardInv, Features
  <2>6. "Fail" \in EnsurePath
    BY DEF EnsurePath, StatusCalls
  <2>. QED BY <2>1, <2>2, <2>3, <2>4, <2>5, <2>6, GoesOnInKind, GuardEnsure
<1>11. ASSUME EnsureAppsCertificate PROVE GuardInv'
  <2>1. worker.pc = "EnsureAppsCertificate" /\ config.apps
    BY <1>11 DEF EnsureAppsCertificate, At, GuardInv, Features
  <2>2. worker.pc \in EnsurePath /\ "EnsureAppsListener" \in EnsurePath
    BY <2>1 DEF EnsurePath, EnsureCalls
  <2>3. /\ Goto("EnsureAppsListener") /\ cert' = cert \cup {worker.t}
        /\ UNCHANGED <<cr, seen, config, release, route, certSecret>>
    BY <1>11 DEF EnsureAppsCertificate
  <2>4. route # {} => config.net
    BY DEF GuardInv, Features
  <2>. QED BY <2>1, <2>2, <2>3, <2>4, GuardEnsure
<1>12. ASSUME Install \/ InstallRun PROVE GuardInv'
  <2>1. worker.pc \in {"Install", "InstallRun"}
    BY <1>12 DEF Install, InstallRun, At
  <2>2. worker.pc \in EnsurePath
    BY <2>1 DEF EnsurePath, EnsureCalls
  <2>3. PICK p \in {"InstallRun", "VclusterReady", "Fail"} : Goto(p)
    BY <1>12 DEF Install, InstallRun
  <2>4. p \in EnsurePath
    BY DEF EnsurePath, EnsureCalls, StatusCalls
  <2>5. UNCHANGED <<cr, seen, config, route, cert, certSecret>>
    BY <1>12 DEF Install, InstallRun
  <2>6. \A t \in Tenants \ {worker.t} : release'[t] = release[t]
    BY <1>12 DEF Install, InstallRun, TypeOK, HelmTypeOK
  <2>7. (route # {} => config.net) /\ (cert \cup certSecret # {} => config.apps)
    BY DEF GuardInv, Features
  <2>. QED BY <2>2, <2>3, <2>4, <2>5, <2>6, <2>7, GuardEnsure
<1>13. ASSUME Uninstall PROVE GuardInv'
  <2>1. worker.pc = "Uninstall" /\ worker.pc \in DeleteCalls /\ worker.t \in Tenants
    BY <1>13, <1>a DEF Uninstall, At, DeleteCalls
  <2>2. /\ Goto(AfterUninstall) /\ release' = [release EXCEPT ![worker.t] = NoRelease]
        /\ UNCHANGED <<cr, seen, config, route, cert, certSecret>>
    BY <1>13 DEF Uninstall
  <2>3. \A t \in Tenants :
          release'[t].status = IF t = worker.t THEN "none" ELSE release[t].status
    BY <2>1, <2>2 DEF TypeOK, HelmTypeOK, NoRelease
  <2>4. TeardownOrder'
    <3>1. worker'.pc = AfterUninstall /\ worker'.t = worker.t
      BY <1>g, <2>2
    <3>2. AfterUninstall \notin AfterCertificate \cup AfterSecret
            \/ (~config.apps /\ AfterUninstall = "DeleteNamespace")
      BY DEF AfterUninstall, AfterDeleteRoute, AfterCertificate, AfterSecret
    <3>3. AfterUninstall \in PastTLSRoute => ~config.net
      BY DEF AfterUninstall, PastTLSRoute, AfterCertificate, AfterSecret
    <3>. QED BY <2>1, <2>2, <2>3, <3>1, <3>2, <3>3
             DEF TeardownOrder, GuardInv, Features
  <2>. QED BY <2>1, <2>2, <2>3, <2>4, GoesOnInKind, GuardTeardown
<1>14. ASSUME DeleteTLSRoute PROVE GuardInv'
  <2>1. /\ worker.pc = "DeleteTLSRoute" /\ worker.pc \in DeleteCalls
        /\ worker.pc \in PastRelease
    BY <1>14 DEF DeleteTLSRoute, At, DeleteCalls, PastRelease
  <2>2. /\ Goto(AfterDeleteRoute) /\ route' = route \ {worker.t}
        /\ UNCHANGED <<cr, seen, config, release, cert, certSecret>>
    BY <1>14 DEF DeleteTLSRoute
  <2>3. TeardownOrder'
    <3>1. worker'.pc = AfterDeleteRoute /\ worker'.t = worker.t
      BY <1>g, <2>2
    <3>2. AfterDeleteRoute \notin AfterCertificate \cup AfterSecret
            \/ (~config.apps /\ AfterDeleteRoute = "DeleteNamespace")
      BY DEF AfterDeleteRoute, AfterCertificate, AfterSecret
    <3>. QED BY <2>1, <2>2, <3>1, <3>2 DEF TeardownOrder, GuardInv, Features
  <2>. QED BY <2>1, <2>2, <2>3, GoesOnInKind, GuardTeardown
<1>15. ASSUME DeleteListener PROVE GuardInv'
  <2>1. /\ worker.pc = "DeleteListener" /\ worker.pc \in DeleteCalls
        /\ worker.pc \in PastTLSRoute /\ "DeleteCertificate" \in DeleteCalls
        /\ "DeleteCertificate" \notin AfterCertificate \cup AfterSecret
    BY <1>15 DEF DeleteListener, At, DeleteCalls, PastTLSRoute, AfterCertificate,
      AfterSecret
  <2>2. UNCHANGED <<cr, seen, config, release, route, cert, certSecret>>
    BY <1>15 DEF DeleteListener
  <2>3. CASE Requeue
    BY <2>2, <2>3, GuardIdle DEF Requeue
  <2>4. CASE Goto("DeleteCertificate")
    <3>1. TeardownOrder'
      BY <1>g, <2>1, <2>2, <2>4, TeardownCalls DEF TeardownOrder, GuardInv
    <3>. QED BY <2>1, <2>2, <2>4, <3>1, GuardTeardown
  <2>. QED BY <1>15, <2>3, <2>4 DEF DeleteListener
<1>16. ASSUME DeleteCertificate PROVE GuardInv'
  <2>1. /\ worker.pc = "DeleteCertificate" /\ worker.pc \in DeleteCalls
        /\ worker.pc \in PastTLSRoute /\ "DeleteCertSecret" \in DeleteCalls
        /\ "DeleteCertSecret" \notin AfterSecret
    BY <1>16 DEF DeleteCertificate, At, DeleteCalls, PastTLSRoute, AfterCertificate,
      AfterSecret
  <2>2. /\ Goto("DeleteCertSecret") /\ cert' = cert \ {worker.t}
        /\ UNCHANGED <<cr, seen, config, release, route, certSecret>>
    BY <1>16 DEF DeleteCertificate
  <2>3. TeardownOrder'
    BY <1>g, <2>1, <2>2, TeardownCalls DEF TeardownOrder, GuardInv
  <2>. QED BY <2>1, <2>2, <2>3, GuardTeardown
<1>17. ASSUME DeleteCertSecret PROVE GuardInv'
  <2>1. /\ worker.pc = "DeleteCertSecret" /\ worker.pc \in DeleteCalls
        /\ worker.pc \in AfterCertificate /\ "DeleteNamespace" \in DeleteCalls
    BY <1>17 DEF DeleteCertSecret, At, DeleteCalls, AfterCertificate
  <2>2. /\ Goto("DeleteNamespace") /\ certSecret' = certSecret \ {worker.t}
        /\ UNCHANGED <<cr, seen, config, release, route, cert>>
    BY <1>17 DEF DeleteCertSecret
  <2>3. TeardownOrder'
    BY <1>g, <2>1, <2>2, TeardownCalls DEF TeardownOrder, GuardInv
  <2>. QED BY <2>1, <2>2, <2>3, GuardTeardown
<1>18. ASSUME DeleteNamespace PROVE GuardInv'
  <2>1. /\ worker.pc = "DeleteNamespace" /\ worker.pc \in DeleteCalls
        /\ worker.pc \in AfterSecret /\ "RemoveFinalizer" \in DeleteCalls
    BY <1>18 DEF DeleteNamespace, At, DeleteCalls, AfterSecret
  <2>2. /\ Goto("RemoveFinalizer")
        /\ UNCHANGED <<cr, seen, config, release, route, cert, certSecret>>
    BY <1>18 DEF DeleteNamespace
  <2>3. TeardownOrder'
    BY <1>g, <2>1, <2>2, TeardownCalls DEF TeardownOrder, GuardInv
  <2>. QED BY <2>1, <2>2, <2>3, GuardTeardown
<1>19. ASSUME NEW t \in Tenants, CreateTenant(t) PROVE GuardInv'
  <2> DEFINE c == [NoCR EXCEPT !.life = "live", !.spec = issued[t] + 1]
  <2>1. c \in CR
    <3>1. issued[t] + 1 \in Specs
      BY <1>19 DEF CreateTenant, TypeOK, CRTypeOK, Specs
    <3>. QED BY <3>1, ConstantTypes DEF CR
  <2>2. ~Guarded(t)
    BY <1>19 DEF CreateTenant, Guarded
  <2>. QED BY <1>19, <2>1, <2>2, GuardUser DEF CreateTenant
<1>20. ASSUME NEW t \in Tenants, EditTenant(t) PROVE GuardInv'
  <2> DEFINE c == [cr[t] EXCEPT !.spec = issued[t] + 1]
  <2>1. c \in CR /\ c.life = cr[t].life /\ c.fin = cr[t].fin
    <3>1. issued[t] + 1 \in Specs /\ cr[t] \in CR
      BY <1>20 DEF EditTenant, TypeOK, CRTypeOK, Specs
    <3>. QED BY <3>1 DEF CR
  <2>2. cr' = [cr EXCEPT ![t] = c]
    BY <1>20 DEF EditTenant
  <2>3. Guarded(t) => c.life # "absent" /\ c.fin
    BY <2>1 DEF Guarded
  <2>. QED BY <1>20, <2>1, <2>2, <2>3, GuardUser DEF EditTenant
<1>21. ASSUME NEW t \in Tenants, DeleteTenant(t) PROVE GuardInv'
  <2> DEFINE c == IF cr[t].fin THEN [cr[t] EXCEPT !.life = "deleting"] ELSE NoCR
  <2>1. c \in CR /\ (Guarded(t) => c.life # "absent" /\ c.fin)
    <3>1. cr[t] \in CR
      BY DEF TypeOK, CRTypeOK
    <3>. QED BY <3>1, ConstantTypes DEF CR, Guarded
  <2>2. cr' = [cr EXCEPT ![t] = c]
    BY <1>21 DEF DeleteTenant
  <2>. QED BY <1>21, <2>1, <2>2, GuardUser DEF DeleteTenant
<1>22. ASSUME NEW t \in Tenants, TenantEvent(t) PROVE GuardInv'
  <2>1. /\ \A u \in Tenants : u # t => seen'[u] = seen[u]
        /\ seen'[t] = cr[t]
        /\ UNCHANGED <<cr, worker, release, route, cert, certSecret, config>>
    BY <1>22 DEF TenantEvent, TypeOK, CacheTypeOK
  <2>2. worker.pc \in DeleteCalls /\ worker.fresh => cr[worker.t].life = "deleting"
    BY DEF WakeInv, FreshCopies, PassMatchesCopy
  <2>3. worker.pc \in DeleteCalls => worker.t \in Tenants
    BY <1>a, KindsOfCalls
  <2>4. FinalizerStays'
    <3>1. \A u \in Tenants : seen'[u].life = "live" /\ seen'[u].fin => Guarded(u)
      BY <2>1 DEF GuardInv, FinalizerStays, Guarded
    <3>. QED BY <2>1, <2>2, <2>3, <3>1 DEF GuardInv, FinalizerStays, Guarded
  <2>. QED BY <2>1, <2>4
           DEF GuardInv, TeardownOrder, Features, ResourcesGuarded, HasResources
<1>23. ASSUME NEW t \in Tenants, CertIssued(t) PROVE GuardInv'
  <2>1. /\ t \in cert /\ certSecret' = certSecret \cup {t}
        /\ UNCHANGED <<cr, seen, worker, release, route, cert, config>>
    BY <1>23 DEF CertIssued
  <2>2. TeardownOrder'
    BY <2>1, TeardownCalls DEF GuardInv, TeardownOrder
  <2>. QED BY <2>1, <2>2
           DEF GuardInv, FinalizerStays, Guarded, Features, ResourcesGuarded, HasResources
<1>24. ASSUME NEW n \in Namespaces, NamespaceGone(n) PROVE GuardInv'
  <2>1. UNCHANGED <<cr, seen, worker, route, cert, certSecret, config>>
    BY <1>24 DEF NamespaceGone
  <2>2. \A t \in Tenants : release[t].status = "none" => release'[t].status = "none"
    BY <1>24 DEF NamespaceGone, NoRelease
  <2>3. worker.pc \in PastRelease => worker.t \in Tenants
    BY <1>a, TeardownCalls, KindsOfCalls
  <2>. QED BY <2>1, <2>2, <2>3
           DEF GuardInv, FinalizerStays, Guarded, TeardownOrder, Features,
               ResourcesGuarded, HasResources
<1>25. ASSUME Restart PROVE GuardInv'
  <2>1. /\ worker' = Idle /\ cr' = cr /\ seen' = cr
        /\ UNCHANGED <<release, route, cert, certSecret>>
        /\ config' \in Configs
    BY <1>25 DEF Restart
  <2>2. config' = config
    BY <2>1 DEF OneConfig, GuardInv, Features
  <2>3. worker'.pc \notin EnsurePath \cup DeleteCalls \cup PastRelease
          \cup PastTLSRoute \cup AfterCertificate \cup AfterSecret
          \cup {"EnsureReferenceGrant", "EnsureTLSRoute", "EnsureAppsCertificate"}
    BY <2>1, <1>i, KindsOfCalls, TeardownCalls
  <2>4. FinalizerStays' /\ TeardownOrder' /\ Features'
    BY <2>1, <2>2, <2>3
    DEF GuardInv, FinalizerStays, Guarded, TeardownOrder, Features
  <2>5. ResourcesGuarded'
    BY <2>1 DEF GuardInv, ResourcesGuarded, HasResources
  <2>. QED BY <2>4, <2>5 DEF GuardInv
<1>26. ASSUME CallFails PROVE GuardInv'
  <2>1. UNCHANGED <<cr, seen, config, route, cert, certSecret>>
    BY <1>26 DEF CallFails
  <2>2. CASE worker.pc \in EnsureCalls
    <3>1. Goto("Fail") /\ worker.pc \in EnsurePath /\ "Fail" \in EnsurePath
      BY <1>26, <2>2 DEF CallFails, EnsurePath, StatusCalls
    <3>2. \A t \in Tenants \ {worker.t} : release'[t] = release[t]
      BY <1>26 DEF CallFails, TypeOK, HelmTypeOK
    <3>3. (route # {} => config.net) /\ (cert \cup certSecret # {} => config.apps)
      BY DEF GuardInv, Features
    <3>. QED BY <2>1, <3>1, <3>2, <3>3, GuardEnsure
  <2>3. CASE worker.pc \notin EnsureCalls
    <3>1. Requeue /\ release' = release
      BY <1>26, <2>3 DEF CallFails, At, EnsureCalls
    <3>. QED BY <2>1, <3>1, GuardIdle DEF Requeue
  <2>. QED BY <2>2, <2>3
<1>27. ASSUME \/ GatewayEvent \/ GatewayCreated \/ GatewayDeleted \/ GatewayTouched
       PROVE  GuardInv'
  BY <1>27, GuardElsewhere
  DEF GatewayEvent, GatewayCreated, GatewayDeleted, GatewayTouched
<1>28. ASSUME NEW t \in Tenants,
              \/ VclusterUp(t) \/ VclusterExports(t) \/ Resync(t) \/ VclusterDown(t)
       PROVE  GuardInv'
  BY <1>28, GuardElsewhere DEF VclusterUp, VclusterExports, Resync, VclusterDown
<1>29. ASSUME NEW n \in Namespaces, NamespaceDeleted(n) PROVE GuardInv'
  BY <1>29, GuardElsewhere DEF NamespaceDeleted
<1>30. ASSUME NEW k \in Kinds, InformerCatchesUp(k) \/ InformerLags(k) PROVE GuardInv'
  BY <1>30, GuardElsewhere DEF InformerCatchesUp, InformerLags
<1>31. CASE UNCHANGED vars
  BY <1>31, GuardElsewhere DEF vars
<1>. QED
  BY <1>1, <1>2, <1>3, <1>4, <1>5, <1>6, <1>7, <1>8, <1>9, <1>10, <1>11,
     <1>12, <1>13, <1>14, <1>15, <1>16, <1>17, <1>18, <1>19, <1>20, <1>21,
     <1>22, <1>23, <1>24, <1>25, <1>26, <1>27, <1>28, <1>29, <1>30,
     <1>31
  DEF Next, WorkerStep, Users, Cluster, Faults

(* The release, TLSRoute, Certificate and Secret of a tenant never outlive its
   finalizer, whatever the interleaving, the conflicts, the stale copies and the
   crashes, as long as every start of the operator has the same settings. *)
THEOREM FinalizerGuardsResources ==
  ASSUME OneConfig
  PROVE  Spec => []ResourcesGuarded
<1>1. Init => TypeOK /\ WakeInv /\ GuardInv
  BY InitType, WakeInit, GuardInit
<1>2. TypeOK /\ WakeInv /\ GuardInv /\ [Next]_vars => (TypeOK /\ WakeInv /\ GuardInv)'
  BY NextType, WakeNext, GuardNext
<1>3. GuardInv => ResourcesGuarded
  BY DEF GuardInv
<1>. QED BY <1>1, <1>2, <1>3, PTL DEF Spec

-----------------------------------------------------------------------------
(* The Tenant operator implements TenantLifecycle: every step changes the  *)
(* life of CRs and the resources held as that contract allows, or not at   *)
(* all.  That a CR goes only when nothing is held is ResourcesGuarded,     *)
(* before the step and after it.                                           *)

\* The life of no CR changes.
SameLives == \A t \in Tenants : cr'[t].life = cr[t].life

\* Nothing changes that a tenant holds.
SameHeld == UNCHANGED <<release, route, cert, certSecret>>

\* What a step may mean for users and the API.
AbstractStep == [Lifecycle!Next]_(Lifecycle!vars)

(* A step that takes resources away, or keeps them. *)
LEMMA StepGivesBack ==
  ASSUME SameLives, \A t \in Tenants : HasResources(t)' => HasResources(t)
  PROVE  AbstractStep
<1>1. Lifecycle!GiveBack
  BY DEF Lifecycle!GiveBack, SameLives
<1>. QED BY <1>1 DEF AbstractStep, Lifecycle!Next

(* A step that changes neither. *)
LEMMA StepElsewhere ==
  ASSUME SameLives, SameHeld
  PROVE  AbstractStep
BY StepGivesBack DEF SameHeld, HasResources

(* A step that makes resources of one tenant. *)
LEMMA StepProvides ==
  ASSUME SameLives, ResourcesGuarded', NEW w \in Tenants,
         \A t \in Tenants \ {w} : HasResources(t)' = HasResources(t)
  PROVE  AbstractStep
<1>1. CASE ~HasResources(w)' \/ HasResources(w)
  <2>1. \A t \in Tenants : HasResources(t)' => HasResources(t)
    BY <1>1
  <2>. QED BY <2>1, StepGivesBack
<1>2. CASE HasResources(w)' /\ ~HasResources(w)
  <2>1. cr[w].life # "absent"
    BY <1>2 DEF ResourcesGuarded, SameLives
  <2>2. Lifecycle!Provision(w)
    BY <1>2, <2>1 DEF Lifecycle!Provision, SameLives
  <2>. QED BY <2>2 DEF AbstractStep, Lifecycle!Next
<1>. QED BY <1>1, <1>2

(* A write of one CR. *)
LEMMA StepOfLife ==
  ASSUME SameHeld, NEW w \in Tenants,
         \A t \in Tenants \ {w} : cr'[t].life = cr[t].life,
         \/ cr'[w].life = cr[w].life
         \/ cr[w].life = "absent" /\ cr'[w].life = "live"
         \/ cr[w].life = "live" /\ cr'[w].life = "deleting"
         \/ /\ cr[w].life \in {"live", "deleting"} /\ cr'[w].life = "absent"
            /\ ~HasResources(w)
  PROVE  AbstractStep
<1>1. \A t \in Tenants : HasResources(t)' = HasResources(t)
  BY DEF SameHeld, HasResources
<1>2. CASE cr'[w].life = cr[w].life
  BY <1>2, StepElsewhere DEF SameLives
<1>3. CASE cr[w].life = "absent" /\ cr'[w].life = "live"
  <2>1. Lifecycle!Create(w)
    BY <1>1, <1>3 DEF Lifecycle!Create
  <2>. QED BY <2>1 DEF AbstractStep, Lifecycle!Next
<1>4. CASE cr[w].life = "live" /\ cr'[w].life = "deleting"
  <2>1. Lifecycle!Delete(w)
    BY <1>1, <1>4 DEF Lifecycle!Delete
  <2>. QED BY <2>1 DEF AbstractStep, Lifecycle!Next
<1>5. CASE cr[w].life = "live" /\ cr'[w].life = "absent" /\ ~HasResources(w)
  <2>1. Lifecycle!Delete(w)
    BY <1>1, <1>5 DEF Lifecycle!Delete
  <2>. QED BY <2>1 DEF AbstractStep, Lifecycle!Next
<1>6. CASE cr[w].life = "deleting" /\ cr'[w].life = "absent" /\ ~HasResources(w)
  <2>1. Lifecycle!Finish(w)
    BY <1>1, <1>6 DEF Lifecycle!Finish
  <2>. QED BY <2>1 DEF AbstractStep, Lifecycle!Next
<1>. QED BY <1>2, <1>3, <1>4, <1>5, <1>6

(* A write of the worker's copy that keeps the life of its CR. *)
LEMMA StepStores ==
  ASSUME TypeOK, WakeInv, worker.pc # "idle", NEW c \in CR,
         c.life = worker.obj.life, StoreCR(c), SameHeld
  PROVE  AbstractStep
<1>1. worker.t \in Tenants /\ cr \in [Tenants -> CR]
  BY DEF TypeOK, WorkerTypeOK, CRTypeOK
<1>2. CASE worker.fresh
  <2>1. cr' = [cr EXCEPT ![worker.t] = c] /\ worker.obj = cr[worker.t]
    BY <1>2 DEF StoreCR, WakeInv, FreshCopies
  <2>. QED BY <1>1, <2>1, StepElsewhere DEF SameLives
<1>3. CASE ~worker.fresh
  BY <1>3, StepElsewhere DEF StoreCR, SameLives
<1>. QED BY <1>2, <1>3

(* At the start no tenant is there and nothing is held. *)
LEMMA InitMaps ==
  ASSUME Init
  PROVE  Lifecycle!Init
<1>1. \A t \in Tenants : cr[t].life = "absent"
  BY DEF Init, NoCR
<1>2. \A t \in Tenants : ~HasResources(t)
  BY DEF Init, NoRelease, HasResources
<1>. QED BY <1>1, <1>2 DEF Lifecycle!Init

(* Each step of the operator, users and the cluster is one of the contract or none. *)
LEMMA NextMaps ==
  ASSUME TypeOK, WakeInv, GuardInv, ResourcesGuarded', [Next]_vars
  PROVE  AbstractStep
<1>w. worker.pc # "idle" => worker.t \in Tenants /\ worker.obj \in CR
  BY DEF TypeOK, WorkerTypeOK
<1>1. ASSUME \/ AddFinalizer \/ MarkPending \/ StatusReady \/ StatusProvisioning
             \/ Fail \/ MarkDeleting
      PROVE  AbstractStep
  <2>1. worker.obj \in CR /\ worker.pc # "idle" /\ SameHeld
    BY <1>1, <1>w
    DEF AddFinalizer, MarkPending, StatusReady, StatusProvisioning, Fail,
        MarkDeleting, At, SameHeld, helmVars, netVars
  <2>2. \E c \in CR : c.life = worker.obj.life /\ StoreCR(c)
    <3>1. CASE AddFinalizer
      BY <2>1, <3>1 DEF AddFinalizer, WriteCR, CR
    <3>2. CASE MarkPending
      BY <2>1, <3>2 DEF MarkPending, WriteCR, CR, Stamped, Phases
    <3>3. CASE StatusReady
      BY <2>1, <3>3 DEF StatusReady, WriteCR, CR, Stamped, Phases
    <3>4. CASE StatusProvisioning
      BY <2>1, <3>4 DEF StatusProvisioning, CR, Stamped, Phases
    <3>5. CASE Fail
      BY <2>1, <3>5 DEF Fail, CR, Stamped, Phases
    <3>6. CASE MarkDeleting
      BY <2>1, <3>6 DEF MarkDeleting, WriteCR, CR, Stamped, Phases
    <3>. QED BY <1>1, <3>1, <3>2, <3>3, <3>4, <3>5, <3>6
  <2>. QED BY <2>1, <2>2, StepStores
<1>2. CASE RemoveFinalizer
  <2>1. worker.t \in Tenants /\ SameHeld /\ StoreCR(NoCR) /\ cr \in [Tenants -> CR]
    BY <1>2, <1>w
    DEF RemoveFinalizer, At, WriteCR, SameHeld, helmVars, netVars, TypeOK, CRTypeOK
  <2>2. CASE worker.fresh
    <3>1. cr' = [cr EXCEPT ![worker.t] = NoCR]
      BY <2>1, <2>2 DEF StoreCR
    <3>2. cr[worker.t].life = "deleting"
      BY <1>2, <2>2
      DEF RemoveFinalizer, At, DeleteCalls, WakeInv, FreshCopies, PassMatchesCopy
    <3>3. cr'[worker.t].life = "absent"
      BY <2>1, <3>1 DEF NoCR
    <3>4. ~HasResources(worker.t)
      BY <2>1, <3>3 DEF ResourcesGuarded, SameHeld, HasResources
    <3>. QED BY <2>1, <3>1, <3>2, <3>3, <3>4, StepOfLife
  <2>3. CASE ~worker.fresh
    BY <2>1, <2>3, StepElsewhere DEF StoreCR, SameLives
  <2>. QED BY <2>2, <2>3
<1>3. CASE EnsureTLSRoute \/ EnsureAppsCertificate \/ Install \/ InstallRun
  <2>1. worker.t \in Tenants /\ SameLives
    BY <1>3, <1>w
    DEF EnsureTLSRoute, EnsureAppsCertificate, Install, InstallRun, At, crVars,
        SameLives
  <2>2. \A t \in Tenants \ {worker.t} : HasResources(t)' = HasResources(t)
    <3>1. CASE EnsureTLSRoute \/ EnsureAppsCertificate
      BY <3>1 DEF EnsureTLSRoute, EnsureAppsCertificate, helmVars, HasResources
    <3>2. CASE Install \/ InstallRun
      BY <3>2 DEF Install, InstallRun, netVars, HasResources, TypeOK, HelmTypeOK
    <3>. QED BY <1>3, <3>1, <3>2
  <2>. QED BY <2>1, <2>2, StepProvides
<1>4. CASE Uninstall \/ DeleteTLSRoute \/ DeleteCertificate \/ DeleteCertSecret
  <2>1. SameLives
    BY <1>4
    DEF Uninstall, DeleteTLSRoute, DeleteCertificate, DeleteCertSecret, crVars,
        SameLives
  <2>2. \A t \in Tenants : HasResources(t)' => HasResources(t)
    <3>1. CASE Uninstall
      BY <3>1 DEF Uninstall, netVars, NoRelease, HasResources, TypeOK, HelmTypeOK
    <3>2. CASE DeleteTLSRoute \/ DeleteCertificate \/ DeleteCertSecret
      BY <3>2
      DEF DeleteTLSRoute, DeleteCertificate, DeleteCertSecret, helmVars,
          HasResources
    <3>. QED BY <1>4, <3>1, <3>2
  <2>. QED BY <2>1, <2>2, StepGivesBack
<1>5. ASSUME \/ \E t \in Tenants : Reconcile(t) \/ TenantEvent(t) \/ VclusterUp(t)
                  \/ VclusterExports(t) \/ Resync(t) \/ VclusterDown(t)
             \/ EnsureNamespace \/ EnsureResourceQuota \/ EnsureLimitRange
             \/ EnsureReferenceGrant \/ EnsureAppsListener \/ VclusterReady
             \/ DeleteListener \/ DeleteNamespace
             \/ \E n \in Namespaces : NamespaceDeleted(n)
             \/ \E k \in Kinds : InformerCatchesUp(k) \/ InformerLags(k)
             \/ GatewayEvent \/ GatewayCreated \/ GatewayDeleted \/ GatewayTouched
             \/ Restart \/ UNCHANGED vars
      PROVE  AbstractStep
  <2>1. cr' = cr /\ SameHeld
    BY <1>5
    DEF Reconcile, TenantEvent, VclusterUp, VclusterExports, Resync, VclusterDown,
        EnsureNamespace, EnsureResourceQuota, EnsureLimitRange,
        EnsureReferenceGrant, EnsureAppsListener, VclusterReady, DeleteListener,
        DeleteNamespace, NamespaceDeleted, GatewayEvent, GatewayCreated,
        GatewayDeleted, GatewayTouched, Restart, InformerCatchesUp, InformerLags,
        vars, crVars, helmVars, netVars, SameHeld
  <2>. QED BY <2>1, StepElsewhere DEF SameLives
<1>6. ASSUME NEW n \in Namespaces, NamespaceGone(n) PROVE AbstractStep
  <2>1. SameLives
    BY <1>6 DEF NamespaceGone, crVars, SameLives
  <2>2. \A t \in Tenants : HasResources(t)' => HasResources(t)
    BY <1>6 DEF NamespaceGone, netVars, HasResources, NoRelease
  <2>. QED BY <2>1, <2>2, StepGivesBack
<1>7. ASSUME NEW t \in Tenants, CertIssued(t) PROVE AbstractStep
  BY <1>7, StepGivesBack DEF CertIssued, crVars, helmVars, SameLives, HasResources
<1>8. CASE CallFails
  <2>1. SameLives
    BY <1>8 DEF CallFails, crVars, SameLives
  <2>2. CASE At("InstallRun")
    <3>1. worker.t \in Tenants
      BY <1>w, <2>2 DEF At
    <3>2. \A t \in Tenants \ {worker.t} : HasResources(t)' = HasResources(t)
      BY <1>8, <2>2 DEF CallFails, netVars, HasResources, TypeOK, HelmTypeOK
    <3>. QED BY <2>1, <3>1, <3>2, StepProvides
  <2>3. CASE ~At("InstallRun")
    BY <1>8, <2>1, <2>3, StepElsewhere DEF CallFails, netVars, SameHeld
  <2>. QED BY <2>2, <2>3
<1>9. ASSUME NEW t \in Tenants, CreateTenant(t) \/ EditTenant(t) \/ DeleteTenant(t)
      PROVE  AbstractStep
  <2>1. SameHeld /\ cr \in [Tenants -> CR]
    BY <1>9
    DEF CreateTenant, EditTenant, DeleteTenant, helmVars, netVars, SameHeld, TypeOK,
        CRTypeOK
  <2>2. \A u \in Tenants \ {t} : cr'[u].life = cr[u].life
    BY <1>9, <2>1 DEF CreateTenant, EditTenant, DeleteTenant
  <2>3. CASE CreateTenant(t)
    BY <2>1, <2>2, <2>3, StepOfLife DEF CreateTenant
  <2>4. CASE EditTenant(t)
    BY <2>1, <2>2, <2>4, StepOfLife DEF EditTenant
  <2>5. CASE DeleteTenant(t) /\ cr[t].fin
    BY <2>1, <2>2, <2>5, StepOfLife DEF DeleteTenant
  <2>6. CASE DeleteTenant(t) /\ ~cr[t].fin
    <3>1. ~HasResources(t)
      BY <2>6 DEF GuardInv, ResourcesGuarded
    <3>. QED BY <2>1, <2>2, <2>6, <3>1, StepOfLife DEF DeleteTenant, NoCR
  <2>. QED BY <1>9, <2>3, <2>4, <2>5, <2>6
<1>. QED
  BY <1>1, <1>2, <1>3, <1>4, <1>5, <1>6, <1>7, <1>8, <1>9
  DEF Next, WorkerStep, Users, Cluster, Faults

(* With the same settings at every start, the operator implements the contract
   of TenantLifecycle, for any number of tenants that may share namespaces and
   the Gateway, and for any interleaving, stale copies, failing calls and
   crashes. *)
THEOREM OperatorImplementsLifecycle ==
  ASSUME OneConfig
  PROVE  Spec => ImplementsLifecycle
<1>1. Init => TypeOK /\ WakeInv /\ GuardInv
  BY InitType, WakeInit, GuardInit
<1>2. TypeOK /\ WakeInv /\ GuardInv /\ [Next]_vars => (TypeOK /\ WakeInv /\ GuardInv)'
  BY NextType, WakeNext, GuardNext
<1>3. TypeOK /\ WakeInv /\ GuardInv /\ [Next]_vars => [Lifecycle!Next]_(Lifecycle!vars)
  BY <1>2, NextMaps DEF AbstractStep, GuardInv
<1>. QED BY <1>1, <1>2, <1>3, InitMaps, PTL DEF Spec, ImplementsLifecycle, Lifecycle!Spec
=============================================================================
