---------------------- MODULE TenantOperatorWakeProofs ----------------------
(***************************************************************************)
(* No wakeup is lost: the Tenant operator has queued, or is reconciling,    *)
(* every Tenant it still has something to do for.  NoLostWakeup is not      *)
(* inductive: a pass that ends without a requeue relies on the event of its *)
(* own write, so the proof needs to know what the worker's copy looks like  *)
(* at each call, and that fresh copies are what is stored.                  *)
(***************************************************************************)
EXTENDS TenantOperatorProofs

USE ConstantFacts

\* The calls of a pass over a live Tenant that has its finalizer.
EnsurePath == EnsureCalls \cup StatusCalls \cup {"MarkPending"}

\* A copy that nobody overtook is what is stored.
FreshCopies ==
  /\ \A t \in Tenants : current[t] => seen[t] = cr[t]
  /\ worker.fresh => worker.obj = cr[worker.t]

\* A CR is only marked for deletion when it has the finalizer.
FinalizerFirst ==
  \A t \in Tenants : cr[t].life = "deleting" => cr[t].fin

\* What the worker's copy looks like at the calls of a pass.
PassMatchesCopy ==
  /\ worker.pc \in EnsurePath => worker.obj.life = "live" /\ worker.obj.fin
  /\ worker.pc = "AddFinalizer" => worker.obj.life = "live" /\ ~worker.obj.fin
  /\ worker.pc \in DeleteCalls => worker.obj.life = "deleting" /\ worker.obj.fin

\* The inductive invariant.
WakeInv ==
  /\ FreshCopies
  /\ FinalizerFirst
  /\ PassMatchesCopy
  /\ NoLostWakeup

-----------------------------------------------------------------------------
(* The kinds of calls are disjoint. *)
LEMMA KindsOfCalls ==
  /\ EnsurePath \cap DeleteCalls = {}
  /\ "idle" \notin EnsurePath \cup DeleteCalls
  /\ "AddFinalizer" \notin EnsurePath \cup DeleteCalls
  /\ EnsurePath \subseteq Calls
  /\ DeleteCalls \subseteq Calls
BY DEF EnsurePath, EnsureCalls, StatusCalls, DeleteCalls, Calls

(* A step that leaves Tenants, caches and worker alone. *)
LEMMA WakeElsewhere ==
  ASSUME WakeInv, UNCHANGED <<cr, seen, current, worker>>, queue \subseteq queue'
  PROVE  WakeInv'
BY DEF WakeInv, FreshCopies, FinalizerFirst, PassMatchesCopy, NoLostWakeup

(* Going on to another call of the same kind. *)
LEMMA WakeGoto ==
  ASSUME TypeOK, WakeInv, NEW p, Goto(p),
         UNCHANGED <<cr, seen, current>>, queue \subseteq queue',
         \/ worker.pc \in EnsurePath /\ p \in EnsurePath
         \/ worker.pc \in DeleteCalls /\ p \in DeleteCalls
  PROVE  WakeInv'
<1>1. /\ worker'.pc = p /\ worker'.t = worker.t
      /\ worker'.obj = worker.obj /\ worker'.fresh = worker.fresh
  BY DEF Goto, TypeOK, WorkerTypeOK
<1>2. FreshCopies' /\ FinalizerFirst' /\ NoLostWakeup'
  BY <1>1 DEF WakeInv, FreshCopies, FinalizerFirst, NoLostWakeup
<1>3. PassMatchesCopy'
  BY <1>1, KindsOfCalls DEF WakeInv, PassMatchesCopy
<1>. QED BY <1>2, <1>3 DEF WakeInv

(* Ending a pass with a requeue, after a write or not. *)
LEMMA WakeRequeue ==
  ASSUME TypeOK, WakeInv, worker.pc # "idle", Requeue,
         UNCHANGED <<cr, seen, current>>
  PROVE  WakeInv'
<1>1. worker' = Idle /\ queue' = queue \cup {worker.t}
  BY DEF Requeue
<1>2. Idle.pc = "idle" /\ ~Idle.fresh
  BY DEF Idle
<1>. QED BY <1>1, <1>2, KindsOfCalls
     DEF WakeInv, FreshCopies, FinalizerFirst, PassMatchesCopy, NoLostWakeup

(* What a write with the worker's copy does to the Tenants and the cache. *)
LEMMA StoreEffect ==
  ASSUME TypeOK, WakeInv, worker.pc # "idle", NEW c \in CR, StoreCR(c),
         c.life = "deleting" => c.fin, UNCHANGED seen
  PROVE  /\ \A t \in Tenants : t # worker.t =>
              cr'[t] = cr[t] /\ current'[t] = current[t]
         /\ \A t \in Tenants : current'[t] => current[t] /\ cr'[t] = cr[t]
         /\ \A t \in Tenants : current'[t] => seen'[t] = cr'[t]
         /\ worker.fresh => cr'[worker.t] = c
         /\ worker.fresh /\ current'[worker.t] => c = cr[worker.t]
         /\ FinalizerFirst'
<1>1. /\ worker.t \in Tenants
      /\ cr \in [Tenants -> CR]
      /\ current \in [Tenants -> BOOLEAN]
  BY DEF TypeOK, CRTypeOK, CacheTypeOK, WorkerTypeOK
<1>2. CASE worker.fresh
  <2>1. /\ cr' = [cr EXCEPT ![worker.t] = c]
        /\ current' = [current EXCEPT ![worker.t] = (current[worker.t] /\ c = cr[worker.t])]
    BY <1>2 DEF StoreCR
  <2>2. cr'[worker.t] = c /\ (current'[worker.t] <=> (current[worker.t] /\ c = cr[worker.t]))
    BY <1>1, <2>1, Zenon
  <2>3. \A t \in Tenants : t # worker.t => cr'[t] = cr[t] /\ current'[t] = current[t]
    BY <1>1, <2>1
  <2>. QED BY <1>1, <2>2, <2>3 DEF WakeInv, FreshCopies, FinalizerFirst
<1>3. CASE ~worker.fresh
  BY <1>3 DEF StoreCR, WakeInv, FreshCopies, FinalizerFirst
<1>. QED BY <1>2, <1>3

(* A status write followed by a requeue. *)
LEMMA WakeStoreRequeue ==
  ASSUME TypeOK, WakeInv, worker.pc # "idle", NEW c \in CR, StoreCR(c), Requeue,
         c.life = "deleting" => c.fin, UNCHANGED seen
  PROVE  WakeInv'
<1>1. worker' = Idle /\ queue' = queue \cup {worker.t} /\ Idle.pc = "idle" /\ ~Idle.fresh
  BY DEF Requeue, Idle
<1>2. FreshCopies' /\ FinalizerFirst'
  BY <1>1, StoreEffect DEF FreshCopies
<1>3. PassMatchesCopy'
  BY <1>1, KindsOfCalls DEF PassMatchesCopy
<1>4. NoLostWakeup'
  <2>. SUFFICES ASSUME NEW t \in Tenants, current'[t], t \notin queue'
                PROVE  Settled(cr'[t])
    BY DEF NoLostWakeup
  <2>. QED BY <1>1, StoreEffect DEF WakeInv, NoLostWakeup
<1>. QED BY <1>2, <1>3, <1>4 DEF WakeInv

(* A write that ends the pass when it succeeds: when it changes nothing, there
   is no event, and the Tenant must need none. *)
LEMMA WakeWriteLast ==
  ASSUME TypeOK, WakeInv, worker.pc # "idle", NEW c \in CR, WriteCR(c, "idle"),
         c.life = "deleting" => c.fin, UNCHANGED seen,
         worker.obj = c => Settled(c)
  PROVE  WakeInv'
<1>0. StoreCR(c)
  BY DEF WriteCR
<1>1. CASE worker.fresh
  <2>1. worker' = Idle /\ queue' = queue /\ Idle.pc = "idle" /\ ~Idle.fresh
    BY <1>1 DEF WriteCR, Idle
  <2>2. FreshCopies' /\ FinalizerFirst'
    BY <1>0, <2>1, StoreEffect DEF FreshCopies
  <2>3. PassMatchesCopy'
    BY <2>1, KindsOfCalls DEF PassMatchesCopy
  <2>4. NoLostWakeup'
    <3>. SUFFICES ASSUME NEW t \in Tenants, current'[t], t \notin queue'
                  PROVE  Settled(cr'[t])
      BY DEF NoLostWakeup
    <3>1. CASE t = worker.t
      <4>1. worker.obj = cr[t]
        BY <1>1, <3>1 DEF WakeInv, FreshCopies
      <4>. QED BY <1>0, <1>1, <3>1, <4>1, StoreEffect
    <3>2. CASE t # worker.t
      BY <1>0, <2>1, <3>2, StoreEffect DEF WakeInv, NoLostWakeup
    <3>. QED BY <3>1, <3>2
  <2>. QED BY <2>2, <2>3, <2>4 DEF WakeInv
<1>2. CASE ~worker.fresh
  BY <1>0, <1>2, WakeStoreRequeue DEF WriteCR
<1>. QED BY <1>1, <1>2

(* A write after which the pass goes on. *)
LEMMA WakeWrite ==
  ASSUME TypeOK, WakeInv, NEW c \in CR, NEW p, WriteCR(c, p),
         c.life = worker.obj.life, c.fin = worker.obj.fin, UNCHANGED seen,
         \/ worker.pc \in EnsurePath /\ p \in EnsurePath
         \/ worker.pc \in DeleteCalls /\ p \in DeleteCalls
  PROVE  WakeInv'
<1>0. /\ StoreCR(c)
      /\ worker.pc # "idle" /\ p # "idle"
      /\ c.life = "deleting" => c.fin
  BY KindsOfCalls DEF WriteCR, WakeInv, PassMatchesCopy
<1>1. CASE worker.fresh
  <2>1. worker' = [worker EXCEPT !.obj = c, !.pc = p] /\ queue' = queue
    BY <1>0, <1>1 DEF WriteCR
  <2>2. /\ worker'.pc = p /\ worker'.t = worker.t
        /\ worker'.obj = c /\ worker'.fresh
    BY <1>1, <2>1 DEF TypeOK, WorkerTypeOK
  <2>3. FreshCopies' /\ FinalizerFirst'
    BY <1>0, <1>1, <2>2, StoreEffect DEF FreshCopies
  <2>4. PassMatchesCopy'
    BY <2>2, KindsOfCalls DEF PassMatchesCopy, WakeInv
  <2>5. NoLostWakeup'
    BY <1>0, <2>1, <2>2, StoreEffect DEF NoLostWakeup, WakeInv
  <2>. QED BY <2>3, <2>4, <2>5 DEF WakeInv
<1>2. CASE ~worker.fresh
  BY <1>0, <1>2, WakeStoreRequeue DEF WriteCR
<1>. QED BY <1>1, <1>2

(* A user's write of one Tenant. *)
LEMMA WakeUser ==
  ASSUME TypeOK, WakeInv, NEW u \in Tenants, NEW c \in CR,
         cr' = [cr EXCEPT ![u] = c], Overtaken(u), UNCHANGED <<seen, queue>>,
         c.life = "deleting" => c.fin
  PROVE  WakeInv'
<1>1. /\ cr \in [Tenants -> CR]
      /\ current \in [Tenants -> BOOLEAN]
  BY DEF TypeOK, CRTypeOK, CacheTypeOK
<1>2. \A t \in Tenants : t # u => cr'[t] = cr[t] /\ current'[t] = current[t]
  BY <1>1 DEF Overtaken
<1>3. cr'[u] = c /\ ~current'[u]
  BY <1>1 DEF Overtaken
<1>4. worker' = [worker EXCEPT !.fresh = (worker.fresh /\ worker.t # u)]
  BY DEF Overtaken
<1>5. /\ worker'.pc = worker.pc /\ worker'.t = worker.t /\ worker'.obj = worker.obj
      /\ worker'.fresh => worker.fresh /\ worker.t # u
  BY <1>4, Zenon DEF TypeOK, WorkerTypeOK
<1>6. worker.fresh => worker.t \in Tenants
  BY DEF TypeOK, WorkerTypeOK, Idle
<1>7. FreshCopies' /\ FinalizerFirst'
  BY <1>2, <1>3, <1>5, <1>6 DEF WakeInv, FreshCopies, FinalizerFirst
<1>8. PassMatchesCopy'
  BY <1>5 DEF WakeInv, PassMatchesCopy
<1>9. NoLostWakeup'
  BY <1>2, <1>3, <1>5 DEF WakeInv, NoLostWakeup
<1>. QED BY <1>7, <1>8, <1>9 DEF WakeInv

(* The initial state. *)
LEMMA WakeInit == Init => WakeInv
<1> SUFFICES ASSUME Init PROVE WakeInv
  OBVIOUS
<1>1. /\ \A t \in Tenants : cr[t] = NoCR /\ seen[t] = NoCR
      /\ worker.pc = "idle" /\ ~worker.fresh
      /\ NoCR.life = "absent"
  BY DEF Init, Idle, NoCR
<1>2. FreshCopies /\ FinalizerFirst /\ NoLostWakeup
  BY <1>1 DEF FreshCopies, FinalizerFirst, NoLostWakeup, Settled
<1>3. PassMatchesCopy
  BY <1>1, KindsOfCalls DEF PassMatchesCopy
<1>. QED BY <1>2, <1>3 DEF WakeInv

(* Where a pass goes on is a call of its kind. *)
LEMMA GoesOnInKind ==
  /\ AfterRoute \in EnsurePath
  /\ AfterLimits \in EnsurePath
  /\ AfterDeleteRoute \in DeleteCalls
  /\ AfterUninstall \in DeleteCalls
BY DEF AfterRoute, AfterLimits, AfterDeleteRoute, AfterUninstall, EnsurePath,
       EnsureCalls, DeleteCalls

(* A pass starts with a copy that its first call expects. *)
LEMMA FirstCallMatches ==
  ASSUME NEW c \in CR
  PROVE  /\ FirstCall(c) \in EnsurePath => c.life = "live" /\ c.fin
         /\ FirstCall(c) = "AddFinalizer" => c.life = "live" /\ ~c.fin
         /\ FirstCall(c) \in DeleteCalls => c.life = "deleting" /\ c.fin
         /\ FirstCall(c) = "idle" =>
              c.life = "absent" \/ (c.life = "deleting" /\ ~c.fin)
BY DEF FirstCall, CR, EnsurePath, EnsureCalls, StatusCalls, DeleteCalls

(* Every step keeps it. *)
LEMMA WakeNext == TypeOK /\ WakeInv /\ [Next]_vars => WakeInv'
<1> SUFFICES ASSUME TypeOK, WakeInv, [Next]_vars PROVE WakeInv'
  OBVIOUS
<1> USE DEF crVars, cacheVars
<1>a. worker.obj \in CR
  BY DEF TypeOK, WorkerTypeOK
<1>1. ASSUME NEW t \in Tenants, Reconcile(t) PROVE WakeInv'
  <2>1. /\ seen[t] \in CR
        /\ UNCHANGED <<cr, seen, current>> /\ queue' = queue \ {t}
        /\ worker.pc = "idle" /\ worker = Idle
    BY <1>1 DEF Reconcile, At, TypeOK, CacheTypeOK, WorkerTypeOK
  <2>2. CASE FirstCall(seen[t]) = "idle"
    <3>1. worker' = Idle
      BY <1>1, <2>2 DEF Reconcile
    <3>2. FreshCopies' /\ FinalizerFirst' /\ PassMatchesCopy'
      BY <2>1, <3>1 DEF WakeInv, FreshCopies, FinalizerFirst, PassMatchesCopy
    <3>3. current[t] => Settled(cr[t])
      BY <2>1, <2>2, FirstCallMatches
      DEF WakeInv, FreshCopies, FinalizerFirst, Settled
    <3>4. NoLostWakeup'
      BY <2>1, <3>1, <3>3 DEF WakeInv, NoLostWakeup
    <3>. QED BY <3>2, <3>4 DEF WakeInv
  <2>3. CASE FirstCall(seen[t]) # "idle"
    <3>1. worker' = [pc |-> FirstCall(seen[t]), t |-> t, obj |-> seen[t],
                     fresh |-> current[t]]
      BY <1>1, <2>3 DEF Reconcile
    <3>2. PassMatchesCopy'
      BY <2>1, <3>1, FirstCallMatches DEF PassMatchesCopy
    <3>3. FreshCopies' /\ FinalizerFirst'
      BY <2>1, <3>1 DEF WakeInv, FreshCopies, FinalizerFirst
    <3>4. NoLostWakeup'
      <4>1. Idle.t = None
        BY DEF Idle
      <4>2. worker'.t = t
        BY <3>1
      <4>. SUFFICES ASSUME NEW u \in Tenants, current'[u], u \notin queue', u # t
                    PROVE  Settled(cr'[u])
        BY <4>2 DEF NoLostWakeup
      <4>3. worker.t # u
        BY <2>1, <4>1
      <4>. QED BY <2>1, <4>3 DEF WakeInv, NoLostWakeup
    <3>. QED BY <3>2, <3>3, <3>4 DEF WakeInv
  <2>. QED BY <2>2, <2>3
<1>2. ASSUME AddFinalizer PROVE WakeInv'
  <2>1. /\ [worker.obj EXCEPT !.fin = TRUE] \in CR
        /\ worker.obj.life = "live"
        /\ worker.obj # [worker.obj EXCEPT !.fin = TRUE]
    BY <1>2, <1>a DEF AddFinalizer, At, CR, WakeInv, PassMatchesCopy
  <2>2. [worker.obj EXCEPT !.fin = TRUE].life = "live"
    BY <1>a, <2>1 DEF CR
  <2>. QED BY <1>2, <2>1, <2>2, WakeWriteLast DEF AddFinalizer, At
<1>3. ASSUME MarkPending PROVE WakeInv'
  <2> DEFINE c == Stamped([worker.obj EXCEPT !.phase = "Pending"])
  <2>1. c \in CR /\ c.life = worker.obj.life /\ c.fin = worker.obj.fin
    BY <1>a DEF CR, Phases, Stamped
  <2>2. worker.pc \in EnsurePath /\ "EnsureNamespace" \in EnsurePath
    BY <1>3 DEF MarkPending, At, EnsurePath, EnsureCalls
  <2>. QED BY <1>3, <2>1, <2>2, WakeWrite DEF MarkPending
<1>4. ASSUME StatusReady PROVE WakeInv'
  <2> DEFINE c == Stamped([worker.obj EXCEPT !.phase = "Ready", !.ready = TRUE,
                                             !.ref = TRUE])
  <2>1. /\ c \in CR /\ c.life = worker.obj.life /\ c.fin = worker.obj.fin
        /\ c.phase = "Ready" /\ c.ready /\ c.ref /\ c.obs = c.spec
    BY <1>a DEF CR, Phases, Stamped
  <2>2. worker.pc \in EnsurePath
    BY <1>4 DEF StatusReady, At, EnsurePath, StatusCalls
  <2>3. worker.obj.life = "live" /\ worker.obj.fin
    BY <2>2 DEF WakeInv, PassMatchesCopy
  <2>4. Settled(c) /\ (c.life = "deleting" => c.fin)
    BY <2>1, <2>3 DEF Settled
  <2>. QED BY <1>4, <2>1, <2>4, WakeWriteLast DEF StatusReady, At
<1>5. ASSUME MarkDeleting PROVE WakeInv'
  <2> DEFINE c == Stamped([worker.obj EXCEPT !.phase = "Deleting"])
  <2>1. c \in CR /\ c.life = worker.obj.life /\ c.fin = worker.obj.fin
    BY <1>a DEF CR, Phases, Stamped
  <2>2. worker.pc \in DeleteCalls /\ "Uninstall" \in DeleteCalls
    BY <1>5 DEF MarkDeleting, At, DeleteCalls
  <2>. QED BY <1>5, <2>1, <2>2, WakeWrite DEF MarkDeleting
<1>6. ASSUME RemoveFinalizer PROVE WakeInv'
  <2>1. NoCR \in CR /\ NoCR.life = "absent"
    BY ConstantTypes DEF NoCR
  <2>2. Settled(NoCR)
    BY <2>1 DEF Settled
  <2>. QED BY <1>6, <2>1, <2>2, WakeWriteLast DEF RemoveFinalizer, At
<1>7. ASSUME StatusProvisioning PROVE WakeInv'
  <2> DEFINE c == Stamped([worker.obj EXCEPT !.phase = "Provisioning",
                                             !.ready = FALSE, !.ref = FALSE])
  <2>1. c \in CR /\ c.life = worker.obj.life /\ c.fin = worker.obj.fin
    BY <1>a DEF CR, Phases, Stamped
  <2>2. worker.pc \in EnsurePath
    BY <1>7 DEF StatusProvisioning, At, EnsurePath, StatusCalls
  <2>3. c.life = "deleting" => c.fin
    BY <2>1, <2>2 DEF WakeInv, PassMatchesCopy
  <2>. QED BY <1>7, <2>1, <2>3, WakeStoreRequeue DEF StatusProvisioning, At
<1>8. ASSUME Fail PROVE WakeInv'
  <2> DEFINE c == Stamped([worker.obj EXCEPT !.phase = "Failed", !.ready = FALSE])
  <2>1. c \in CR /\ c.life = worker.obj.life /\ c.fin = worker.obj.fin
    BY <1>a DEF CR, Phases, Stamped
  <2>2. worker.pc \in EnsurePath
    BY <1>8 DEF Fail, At, EnsurePath, StatusCalls
  <2>3. c.life = "deleting" => c.fin
    BY <2>1, <2>2 DEF WakeInv, PassMatchesCopy
  <2>. QED BY <1>8, <2>1, <2>3, WakeStoreRequeue DEF Fail, At
<1>9. ASSUME EnsureNamespace PROVE WakeInv'
  BY <1>9, WakeGoto, GoesOnInKind DEF EnsureNamespace, At, EnsurePath, EnsureCalls, StatusCalls
<1>10. ASSUME EnsureResourceQuota PROVE WakeInv'
  <2>1. Goto("EnsureLimitRange") \/ Goto("Fail")
    BY <1>10, EnsureObjectGoes DEF EnsureResourceQuota
  <2>. QED
    BY <1>10, <2>1, WakeGoto DEF EnsureResourceQuota, At, EnsurePath, EnsureCalls, StatusCalls
<1>11. ASSUME EnsureLimitRange PROVE WakeInv'
  <2>1. Goto(AfterLimits) \/ Goto("Fail")
    BY <1>11, EnsureObjectGoes DEF EnsureLimitRange
  <2>. QED
    BY <1>11, <2>1, WakeGoto, GoesOnInKind
       DEF EnsureLimitRange, At, EnsurePath, EnsureCalls, StatusCalls
<1>12. ASSUME EnsureReferenceGrant PROVE WakeInv'
  <2>1. Goto("EnsureTLSRoute") \/ Goto("Fail")
    BY <1>12, EnsureObjectGoes DEF EnsureReferenceGrant
  <2>. QED
    BY <1>12, <2>1, WakeGoto DEF EnsureReferenceGrant, At, EnsurePath, EnsureCalls, StatusCalls
<1>13. ASSUME EnsureTLSRoute PROVE WakeInv'
  BY <1>13, WakeGoto, GoesOnInKind DEF EnsureTLSRoute, At, EnsurePath, EnsureCalls, StatusCalls
<1>14. ASSUME EnsureAppsCertificate PROVE WakeInv'
  BY <1>14, WakeGoto, GoesOnInKind
     DEF EnsureAppsCertificate, At, EnsurePath, EnsureCalls, StatusCalls
<1>15. ASSUME EnsureAppsListener PROVE WakeInv'
  BY <1>15, WakeGoto, GoesOnInKind DEF EnsureAppsListener, At, EnsurePath, EnsureCalls, StatusCalls
<1>16. ASSUME Install PROVE WakeInv'
  BY <1>16, WakeGoto, GoesOnInKind DEF Install, At, EnsurePath, EnsureCalls, StatusCalls
<1>17. ASSUME InstallRun PROVE WakeInv'
  BY <1>17, WakeGoto, GoesOnInKind DEF InstallRun, At, EnsurePath, EnsureCalls, StatusCalls
<1>18. ASSUME VclusterReady PROVE WakeInv'
  BY <1>18, WakeGoto, GoesOnInKind DEF VclusterReady, At, EnsurePath, EnsureCalls, StatusCalls
<1>19. ASSUME Uninstall PROVE WakeInv'
  BY <1>19, WakeGoto, GoesOnInKind DEF Uninstall, At, DeleteCalls
<1>20. ASSUME DeleteTLSRoute PROVE WakeInv'
  BY <1>20, WakeGoto, GoesOnInKind DEF DeleteTLSRoute, At, DeleteCalls
<1>21. ASSUME DeleteCertificate PROVE WakeInv'
  BY <1>21, WakeGoto, GoesOnInKind DEF DeleteCertificate, At, DeleteCalls
<1>22. ASSUME DeleteCertSecret PROVE WakeInv'
  BY <1>22, WakeGoto, GoesOnInKind DEF DeleteCertSecret, At, DeleteCalls
<1>23. ASSUME DeleteNamespace PROVE WakeInv'
  BY <1>23, WakeGoto, GoesOnInKind DEF DeleteNamespace, At, Terminate, DeleteCalls
<1>24. ASSUME DeleteListener PROVE WakeInv'
  <2>1. worker.pc = "DeleteListener"
    BY <1>24 DEF DeleteListener, At
  <2>2. CASE Requeue
    BY <1>24, <2>1, <2>2, WakeRequeue DEF DeleteListener
  <2>3. CASE Goto("DeleteCertificate") /\ UNCHANGED queue
    BY <1>24, <2>1, <2>3, WakeGoto DEF DeleteListener, DeleteCalls
  <2>. QED BY <1>24, <2>2, <2>3 DEF DeleteListener
<1>25. ASSUME NEW t \in Tenants, CreateTenant(t) PROVE WakeInv'
  <2> DEFINE c == [NoCR EXCEPT !.life = "live", !.spec = issued[t] + 1]
  <2>1. c \in CR /\ c.life = "live"
    <3>1. issued[t] + 1 \in Specs
      BY <1>25 DEF CreateTenant, TypeOK, CRTypeOK, Specs
    <3>. QED BY <3>1, ConstantTypes DEF CR
  <2>. QED BY <1>25, <2>1, WakeUser DEF CreateTenant
<1>26. ASSUME NEW t \in Tenants, EditTenant(t) PROVE WakeInv'
  <2> DEFINE c == [cr[t] EXCEPT !.spec = issued[t] + 1]
  <2>1. c \in CR /\ c.life = cr[t].life /\ c.fin = cr[t].fin
    <3>1. issued[t] + 1 \in Specs /\ cr[t] \in CR
      BY <1>26 DEF EditTenant, TypeOK, CRTypeOK, Specs
    <3>. QED BY <3>1 DEF CR
  <2>2. c.life = "deleting" => c.fin
    BY <2>1 DEF WakeInv, FinalizerFirst
  <2>3. cr' = [cr EXCEPT ![t] = c]
    BY <1>26 DEF EditTenant
  <2>. QED BY <1>26, <2>1, <2>2, <2>3, WakeUser DEF EditTenant
<1>27. ASSUME NEW t \in Tenants, DeleteTenant(t) PROVE WakeInv'
  <2> DEFINE c == IF cr[t].fin THEN [cr[t] EXCEPT !.life = "deleting"] ELSE NoCR
  <2>1. c \in CR /\ (c.life = "deleting" => c.fin)
    <3>1. cr[t] \in CR
      BY DEF TypeOK, CRTypeOK
    <3>. QED BY <3>1, ConstantTypes DEF CR, NoCR
  <2>2. cr' = [cr EXCEPT ![t] = c]
    BY <1>27 DEF DeleteTenant
  <2>. QED BY <1>27, <2>1, <2>2, WakeUser DEF DeleteTenant
<1>28. ASSUME NEW t \in Tenants, TenantEvent(t) PROVE WakeInv'
  <2>1. /\ \A u \in Tenants : u # t => seen'[u] = seen[u] /\ (current'[u] <=> current[u])
        /\ seen'[t] = cr[t]
        /\ UNCHANGED <<cr, worker>> /\ queue' = queue \cup {t}
    BY <1>28 DEF TenantEvent, TypeOK, CacheTypeOK
  <2>. QED BY <2>1 DEF WakeInv, FreshCopies, FinalizerFirst, PassMatchesCopy,
                       NoLostWakeup
<1>29. ASSUME Restart PROVE WakeInv'
  <2>1. /\ worker' = Idle /\ Idle.pc = "idle" /\ ~Idle.fresh
        /\ cr' = cr /\ seen' = cr
        /\ queue' = {t \in Tenants : cr[t].life # "absent"}
    BY <1>29 DEF Restart, Idle
  <2>2. FreshCopies' /\ FinalizerFirst' /\ NoLostWakeup'
    BY <2>1 DEF WakeInv, FreshCopies, FinalizerFirst, NoLostWakeup, Settled
  <2>3. PassMatchesCopy'
    BY <2>1, KindsOfCalls DEF PassMatchesCopy
  <2>. QED BY <2>2, <2>3 DEF WakeInv
<1>30. ASSUME CallFails PROVE WakeInv'
  <2>1. worker.pc # "idle" /\ UNCHANGED <<cr, seen, current>>
    BY <1>30 DEF CallFails, At
  <2>2. CASE worker.pc \in EnsureCalls
    <3>1. Goto("Fail") /\ UNCHANGED queue
      BY <1>30, <2>2 DEF CallFails
    <3>2. worker.pc \in EnsurePath /\ "Fail" \in EnsurePath
      BY <2>2 DEF EnsurePath, StatusCalls
    <3>. QED BY <2>1, <3>1, <3>2, WakeGoto
  <2>3. CASE worker.pc \notin EnsureCalls
    BY <1>30, <2>1, <2>3, WakeRequeue DEF CallFails
  <2>. QED BY <2>2, <2>3
<1>31. ASSUME \/ GatewayEvent \/ GatewayCreated \/ GatewayDeleted \/ GatewayTouched
       PROVE  WakeInv'
  BY <1>31, WakeElsewhere
  DEF GatewayEvent, GatewayCreated, GatewayDeleted, GatewayTouched
<1>32. ASSUME NEW t \in Tenants,
              \/ VclusterUp(t) \/ VclusterExports(t) \/ CertIssued(t)
              \/ Resync(t) \/ VclusterDown(t)
       PROVE  WakeInv'
  BY <1>32, WakeElsewhere
  DEF VclusterUp, VclusterExports, CertIssued, Resync, VclusterDown
<1>33. ASSUME NEW n \in Namespaces, NamespaceGone(n) \/ NamespaceDeleted(n)
       PROVE  WakeInv'
  BY <1>33, WakeElsewhere DEF NamespaceGone, NamespaceDeleted, Terminate
<1>34. ASSUME NEW k \in Kinds, InformerCatchesUp(k) \/ InformerLags(k)
       PROVE  WakeInv'
  BY <1>34, WakeElsewhere DEF InformerCatchesUp, InformerLags
<1>35. CASE UNCHANGED vars
  BY <1>35, WakeElsewhere DEF vars
<1>. QED
  BY <1>1, <1>2, <1>3, <1>4, <1>5, <1>6, <1>7, <1>8, <1>9, <1>10, <1>11,
     <1>12, <1>13, <1>14, <1>15, <1>16, <1>17, <1>18, <1>19, <1>20, <1>21,
     <1>22, <1>23, <1>24, <1>25, <1>26, <1>27, <1>28, <1>29, <1>30, <1>31,
     <1>32, <1>33, <1>34, <1>35
  DEF Next, WorkerStep, Users, Cluster, Faults

(* The operator never forgets a Tenant: whenever its cache is up to date, each
   Tenant is queued, being reconciled, gone, or Ready for its latest spec. *)
THEOREM NoWakeupIsLost == Spec => []NoLostWakeup
<1>1. Init => TypeOK /\ WakeInv
  BY InitType, WakeInit
<1>2. TypeOK /\ WakeInv /\ [Next]_vars => (TypeOK /\ WakeInv)'
  BY NextType, WakeNext
<1>3. WakeInv => NoLostWakeup
  BY DEF WakeInv
<1>. QED BY <1>1, <1>2, <1>3, PTL DEF Spec
=============================================================================
