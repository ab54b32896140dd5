------------------------ MODULE TenantOperatorProofs ------------------------
(***************************************************************************)
(* Proofs about the Tenant operator, for any tenants, namespaces, specs,    *)
(* settings and faults.                                                    *)
(***************************************************************************)
EXTENDS TenantOperator, TLAPS

(* The part of the assumptions on the constants that the types need. *)
LEMMA ConstantFacts ==
  /\ NsOf \in [Tenants -> Namespaces]
  /\ None \notin Tenants
  /\ Configs \subseteq [net : BOOLEAN, apps : BOOLEAN]
  /\ MaxSpec \in Nat
  /\ MaxFaults \in Nat
BY OperatorAssumptions DEF OperatorAssumptions

USE ConstantFacts

(* Updating a function at a point of its domain keeps its type. *)
LEMMA ExceptType ==
  ASSUME NEW S, NEW T, NEW f \in [S -> T], NEW x \in S, NEW v \in T
  PROVE  [f EXCEPT ![x] = v] \in [S -> T]
OBVIOUS

(* Recording the outcome of a release keeps the types of releases. *)
LEMMA ReleaseStatusType ==
  ASSUME HelmTypeOK, NEW t \in Tenants,
         NEW st \in {"none", "pending", "deployed", "failed"}
  PROVE  [release EXCEPT ![t].status = st] \in
           [Tenants -> [status : {"none", "pending", "deployed", "failed"}, spec : Specs]]
<1>1. release[t] \in [status : {"none", "pending", "deployed", "failed"}, spec : Specs]
  BY DEF HelmTypeOK
<1>2. [release[t] EXCEPT !.status = st] \in
        [status : {"none", "pending", "deployed", "failed"}, spec : Specs]
  BY <1>1
<1>3. [release EXCEPT ![t].status = st]
        = [release EXCEPT ![t] = [release[t] EXCEPT !.status = st]]
  OBVIOUS
<1>. QED BY <1>2, <1>3, ExceptType DEF HelmTypeOK

(* The first call of a pass is one of the calls. *)
LEMMA FirstCallType ==
  ASSUME NEW c \in CR
  PROVE  FirstCall(c) \in Calls
BY DEF FirstCall, Calls, EnsureCalls, StatusCalls, DeleteCalls, CR, Phases

(* What the worker has in hand. *)
WorkerType == [pc : Calls, t : Tenants \cup {None}, obj : CR, fresh : BOOLEAN]

(* The constants of the data have their types. *)
LEMMA ConstantTypes ==
  /\ NoCR \in CR
  /\ Idle \in WorkerType
  /\ Idle.pc = "idle"
BY DEF NoCR, CR, Specs, Phases, Idle, Calls, WorkerType

(* The status writes keep the types of the CR written. *)
LEMMA StampedType ==
  ASSUME NEW c \in CR
  PROVE  Stamped(c) \in CR
BY DEF Stamped, CR

(* Going to another call of the pass keeps the worker's type. *)
LEMMA GotoType ==
  ASSUME WorkerTypeOK, worker.pc # "idle", NEW p \in Calls \ {"idle"}, Goto(p)
  PROVE  WorkerTypeOK'
BY DEF WorkerTypeOK, Goto

(* Where a pass goes on are calls. *)
LEMMA GoesOn ==
  /\ AfterRoute \in Calls \ {"idle"}
  /\ AfterLimits \in Calls \ {"idle"}
  /\ AfterDeleteRoute \in Calls \ {"idle"}
  /\ AfterUninstall \in Calls \ {"idle"}
BY DEF AfterRoute, AfterLimits, AfterDeleteRoute, AfterUninstall, Calls,
       EnsureCalls, DeleteCalls

(* The worker's writes keep the types of what they touch. *)
LEMMA StoreCRType ==
  ASSUME TypeOK, worker.pc # "idle", NEW c \in CR, StoreCR(c)
  PROVE  /\ cr' \in [Tenants -> CR]
         /\ current' \in [Tenants -> BOOLEAN]
<1>1. /\ worker.t \in Tenants
      /\ cr \in [Tenants -> CR]
      /\ current \in [Tenants -> BOOLEAN]
  BY DEF TypeOK, CRTypeOK, CacheTypeOK, WorkerTypeOK
<1>2. CASE worker.fresh
  <2>1. cr' = [cr EXCEPT ![worker.t] = c]
    BY <1>2 DEF StoreCR
  <2>2. (current[worker.t] /\ c = cr[worker.t]) \in BOOLEAN
    OBVIOUS
  <2>3. current' = [current EXCEPT ![worker.t] = (current[worker.t] /\ c = cr[worker.t])]
    BY <1>2 DEF StoreCR
  <2>4. current' \in [Tenants -> BOOLEAN]
    BY <1>1, <2>2, <2>3, Zenon
  <2>. QED BY <1>1, <2>1, <2>4
<1>3. CASE ~worker.fresh
  BY <1>1, <1>3 DEF StoreCR
<1>. QED BY <1>2, <1>3

(* Ending a pass keeps the types. *)
LEMMA RequeueType ==
  ASSUME TypeOK, worker.pc # "idle", Requeue
  PROVE  queue' \subseteq Tenants /\ WorkerTypeOK'
BY ConstantTypes DEF TypeOK, CacheTypeOK, WorkerTypeOK, Requeue, WorkerType

(* So does writing a CR, whether or not the write conflicts. *)
LEMMA WriteCRType ==
  ASSUME TypeOK, worker.pc # "idle",
         NEW c \in CR, NEW next \in Calls, WriteCR(c, next)
  PROVE  /\ cr' \in [Tenants -> CR]
         /\ current' \in [Tenants -> BOOLEAN]
         /\ queue' \subseteq Tenants
         /\ WorkerTypeOK'
<1>1. cr' \in [Tenants -> CR] /\ current' \in [Tenants -> BOOLEAN]
  BY StoreCRType DEF WriteCR
<1>2. CASE worker.fresh
  <2>1. worker \in WorkerType /\ worker.t \in Tenants /\ queue \subseteq Tenants
    BY DEF TypeOK, CacheTypeOK, WorkerTypeOK, WorkerType
  <2>2. /\ worker' = IF next = "idle" THEN Idle
                     ELSE [worker EXCEPT !.obj = c, !.pc = next]
        /\ UNCHANGED queue
    BY <1>2 DEF WriteCR
  <2>. QED BY <1>1, <2>1, <2>2, ConstantTypes DEF WorkerType, WorkerTypeOK
<1>3. CASE ~worker.fresh
  <2>1. Requeue
    BY <1>3 DEF WriteCR
  <2>. QED BY <1>1, <2>1, RequeueType
<1>. QED BY <1>2, <1>3

(* Terminating a namespace keeps the types of namespaces and queue. *)
LEMMA TerminateType ==
  ASSUME TypeOK, NEW n \in Namespaces, Terminate(n)
  PROVE  /\ ns' \in [Namespaces -> [state : {"absent", "active", "terminating"},
                                    label : Tenants \cup {None}]]
         /\ queue' \subseteq Tenants
<1>1. ns[n].label \in Tenants \cup {None} /\ queue \subseteq Tenants
  BY DEF TypeOK, NsTypeOK, CacheTypeOK
<1>2. OwnerOf(n) \subseteq Tenants
  BY <1>1 DEF OwnerOf
<1>3. CASE ns[n].state = "active"
  <2>1. /\ ns' = [ns EXCEPT ![n].state = "terminating"]
        /\ queue' = queue \cup OwnerOf(n)
    BY <1>3 DEF Terminate
  <2>2. [ns[n] EXCEPT !.state = "terminating"] \in
          [state : {"absent", "active", "terminating"}, label : Tenants \cup {None}]
    BY DEF TypeOK, NsTypeOK
  <2>. QED BY <1>1, <1>2, <2>1, <2>2 DEF TypeOK, NsTypeOK
<1>4. CASE ns[n].state # "active"
  BY <1>1, <1>4 DEF Terminate, TypeOK, NsTypeOK
<1>. QED BY <1>3, <1>4

(* Being overtaken by another writer only makes the worker's copy old. *)
LEMMA OvertakenType ==
  ASSUME TypeOK, NEW t \in Tenants, Overtaken(t)
  PROVE  WorkerTypeOK'
<1>1. worker' = [worker EXCEPT !.fresh = (worker.fresh /\ worker.t # t)]
  BY DEF Overtaken
<1>2. (worker.fresh /\ worker.t # t) \in BOOLEAN
  OBVIOUS
<1>3. worker \in WorkerType
  BY DEF TypeOK, WorkerTypeOK, WorkerType
<1>4. worker' \in WorkerType /\ worker'.pc = worker.pc /\ worker'.t = worker.t
  BY <1>1, <1>2, <1>3, Zenon DEF WorkerType
<1>5. worker.pc = "idle" => worker' = Idle
  <2>1. SUFFICES ASSUME worker = Idle PROVE worker' = Idle
    BY DEF TypeOK, WorkerTypeOK
  <2>2. (worker.fresh /\ worker.t # t) = FALSE
    BY <2>1 DEF Idle
  <2>3. worker' = [Idle EXCEPT !.fresh = FALSE]
    BY <1>1, <2>1, <2>2
  <2>. QED BY <2>3 DEF Idle
<1>. QED BY <1>4, <1>5 DEF TypeOK, WorkerTypeOK, WorkerType

(* The parts of TypeOK an action leaves alone. *)
LEMMA TypeFrame ==
  ASSUME TypeOK
  PROVE  /\ UNCHANGED crVars => CRTypeOK'
         /\ UNCHANGED cacheVars => CacheTypeOK'
         /\ UNCHANGED worker => WorkerTypeOK'
         /\ UNCHANGED nsVars => NsTypeOK'
         /\ UNCHANGED copyVars => CopyTypeOK'
         /\ UNCHANGED helmVars => HelmTypeOK'
         /\ UNCHANGED <<config, netVars>> => NetTypeOK'
         /\ UNCHANGED gwVars => GwTypeOK'
         /\ UNCHANGED faults => (faults \in 0..MaxFaults)'
BY DEF TypeOK, CRTypeOK, CacheTypeOK, WorkerTypeOK, NsTypeOK, HelmTypeOK,
       CopyTypeOK, NetTypeOK, GwTypeOK, crVars, cacheVars, nsVars, copyVars,
       informerVars, helmVars, netVars, gwVars

(* What a spec asks for. *)
LEMMA QuotaType ==
  /\ Quota \in [0..MaxSpec -> {"none", "storage", "compute", "bad"}]
BY OperatorAssumptions DEF OperatorAssumptions

\* An empty namespace holds objects of their types.
LEMMA NoObjectsType == NoObjects \in Objects
BY DEF NoObjects, Objects

(* The copy of one kind in another record of objects. *)
LEMMA KindCopied ==
  ASSUME NEW a \in Objects, NEW b \in Objects, NEW k \in Kinds, k # "route"
  PROVE  [a EXCEPT ![k] = b[k]] \in Objects
BY DEF Kinds, ObjectKinds, Objects

(* Recording whether a pass was misled keeps the type of the history. *)
LEMMA MisledType ==
  ASSUME TypeOK, NEW k \in Kinds, NEW yes, worker.t \in Tenants, Misled(k, yes)
  PROVE  misled' \in [Tenants -> SUBSET Kinds]
<1>1. misled[worker.t] \in SUBSET Kinds
  BY DEF TypeOK, CopyTypeOK
<1>2. (IF yes THEN misled[worker.t] \cup {k} ELSE misled[worker.t] \ {k}) \in SUBSET Kinds
  BY <1>1
<1>3. misled' = [misled EXCEPT ![worker.t] =
                   IF yes THEN misled[worker.t] \cup {k} ELSE misled[worker.t] \ {k}]
  BY DEF Misled
<1>. QED BY <1>2, <1>3, ExceptType DEF TypeOK, CopyTypeOK

(* Ensuring an object lets the pass go on, or ends it in Fail. *)
LEMMA EnsureObjectGoes ==
  ASSUME NEW k, NEW want, NEW absent, NEW next, EnsureObject(k, want, absent, next)
  PROVE  Goto(next) \/ Goto("Fail")
BY DEF EnsureObject

(* Ensuring an object keeps the types. *)
LEMMA EnsureObjectType ==
  ASSUME TypeOK, worker.pc # "idle", NEW k \in ObjectKinds, NEW want, NEW absent,
         k = "quota" => want \in {"none", "storage", "compute"},
         k # "quota" => want \in BOOLEAN,
         NEW next \in Calls \ {"idle"}, EnsureObject(k, want, absent, next)
  PROVE  /\ WorkerTypeOK'
         /\ inside' \in [Namespaces -> Objects]
         /\ misled' \in [Tenants -> SUBSET Kinds]
<1>1. worker.t \in Tenants /\ MyNs \in Namespaces
  BY DEF TypeOK, WorkerTypeOK, MyNs
<1>2. Goto(next) \/ Goto("Fail")
  BY EnsureObjectGoes
<1>3. "Fail" \in Calls \ {"idle"}
  BY DEF Calls, StatusCalls
<1>4. WorkerTypeOK'
  BY <1>2, <1>3, GotoType DEF TypeOK
<1>5. inside' = [inside EXCEPT ![MyNs][k] = want] \/ inside' = inside
  BY DEF EnsureObject
<1>6. [inside[MyNs] EXCEPT ![k] = want] \in Objects
  BY <1>1 DEF TypeOK, NsTypeOK, Objects, ObjectKinds
<1>7. inside' \in [Namespaces -> Objects]
  BY <1>1, <1>5, <1>6 DEF TypeOK, NsTypeOK
<1>8. PICK yes \in BOOLEAN : misled' = misled \/ Misled(k, yes)
  BY DEF EnsureObject
<1>9. misled' \in [Tenants -> SUBSET Kinds]
  BY <1>1, <1>8, MisledType DEF TypeOK, CopyTypeOK, Kinds
<1>. QED BY <1>4, <1>7, <1>9

(* What ensuring an object leaves alone, and what it is for. *)
LEMMA EnsureObjectEffect ==
  ASSUME TypeOK, worker.pc # "idle", NEW k \in ObjectKinds, NEW want, NEW absent, NEW next,
         EnsureObject(k, want, absent, next)
  PROVE  /\ \A n \in Namespaces \ {MyNs} : inside'[n] = inside[n]
         /\ \A j \in ObjectKinds \ {k} : inside'[MyNs][j] = inside[MyNs][j]
         /\ \A t \in Tenants \ {worker.t} : misled'[t] = misled[t]
         /\ \A j \in Kinds \ {k} : j \in misled'[worker.t] <=> j \in misled[worker.t]
         /\ \/ Goto(next) /\ (k \in misled'[worker.t] \/ inside'[MyNs][k] = want)
            \/ Goto("Fail") /\ UNCHANGED <<inside, misled>>
<1>1. /\ worker.t \in Tenants /\ MyNs \in Namespaces /\ k \in Kinds
      /\ inside \in [Namespaces -> Objects] /\ misled \in [Tenants -> SUBSET Kinds]
  BY DEF TypeOK, WorkerTypeOK, MyNs, NsTypeOK, CopyTypeOK, Kinds
<1>2. \/ Goto(next) /\ inside' = [inside EXCEPT ![MyNs][k] = want] /\ Misled(k, FALSE)
      \/ Goto(next) /\ inside' = inside /\ Misled(k, TRUE)
      \/ Goto(next) /\ inside' = inside /\ inside[MyNs][k] = want /\ Misled(k, FALSE)
      \/ Goto("Fail") /\ UNCHANGED <<inside, misled>>
  BY DEF EnsureObject, Misled
<1>3. ASSUME inside' = [inside EXCEPT ![MyNs][k] = want]
      PROVE  /\ \A n \in Namespaces \ {MyNs} : inside'[n] = inside[n]
             /\ \A j \in ObjectKinds \ {k} : inside'[MyNs][j] = inside[MyNs][j]
             /\ inside'[MyNs][k] = want
  BY <1>1, <1>3 DEF Objects, ObjectKinds
<1>4. ASSUME NEW yes \in BOOLEAN, Misled(k, yes)
      PROVE  /\ \A t \in Tenants \ {worker.t} : misled'[t] = misled[t]
             /\ \A j \in Kinds \ {k} : j \in misled'[worker.t] <=> j \in misled[worker.t]
             /\ yes => k \in misled'[worker.t]
  BY <1>1, <1>4 DEF Misled
<1>. QED BY <1>2, <1>3, <1>4

(* The types hold at the start. *)
LEMMA InitType == Init => TypeOK
BY ConstantTypes
DEF Init, TypeOK, CRTypeOK, CacheTypeOK, WorkerTypeOK, NsTypeOK, HelmTypeOK,
    CopyTypeOK, NetTypeOK, GwTypeOK, Specs, Objects, NoObjects, NoRelease, NoVc, WorkerType

(* Every step keeps them. *)
LEMMA NextType == TypeOK /\ [Next]_vars => TypeOK'
<1> SUFFICES ASSUME TypeOK, [Next]_vars PROVE TypeOK'
  OBVIOUS
<1> USE DEF crVars, cacheVars, nsVars, copyVars, informerVars, helmVars, netVars, gwVars
<1>a. worker.obj \in CR
  BY DEF TypeOK, WorkerTypeOK
<1>b. worker.pc # "idle" => worker.t \in Tenants /\ MyNs \in Namespaces
  BY DEF TypeOK, WorkerTypeOK, MyNs
<1>w. ASSUME NEW c \in CR, NEW next \in Calls, worker.pc # "idle", WriteCR(c, next),
             UNCHANGED <<issued, seen, config, nsVars, copyVars, helmVars, netVars, gwVars,
                         faults>>
      PROVE  TypeOK'
  BY <1>w, WriteCRType, TypeFrame DEF TypeOK, CRTypeOK, CacheTypeOK
<1>s. ASSUME NEW c \in CR, worker.pc # "idle", StoreCR(c), Requeue,
             UNCHANGED <<issued, seen, config, nsVars, copyVars, helmVars, netVars, gwVars,
                         faults>>
      PROVE  TypeOK'
  BY <1>s, StoreCRType, RequeueType, TypeFrame DEF TypeOK, CRTypeOK, CacheTypeOK
<1>1. ASSUME NEW t \in Tenants, Reconcile(t) PROVE TypeOK'
  <2>1. seen[t] \in CR /\ FirstCall(seen[t]) \in Calls /\ current[t] \in BOOLEAN
    BY FirstCallType DEF TypeOK, CacheTypeOK
  <2>2. CacheTypeOK'
    BY <1>1 DEF Reconcile, TypeOK, CacheTypeOK
  <2>3. WorkerTypeOK'
    BY <1>1, <2>1, ConstantTypes DEF Reconcile, WorkerTypeOK, WorkerType
  <2>. QED BY <1>1, <2>2, <2>3, TypeFrame DEF TypeOK, Reconcile
<1>2. ASSUME AddFinalizer PROVE TypeOK'
  <2>1. [worker.obj EXCEPT !.fin = TRUE] \in CR /\ "idle" \in Calls
    BY <1>a, ConstantTypes DEF CR, Phases, Calls, EnsureCalls, DeleteCalls
  <2>. QED BY <1>2, <2>1, <1>w DEF AddFinalizer, At
<1>3. ASSUME MarkPending PROVE TypeOK'
  <2>1. [worker.obj EXCEPT !.phase = "Pending"] \in CR /\ "EnsureNamespace" \in Calls
    BY <1>a, ConstantTypes DEF CR, Phases, Calls, EnsureCalls, DeleteCalls
  <2>2. Stamped([worker.obj EXCEPT !.phase = "Pending"]) \in CR
    BY <2>1, StampedType
  <2>. QED BY <1>3, <2>1, <2>2, <1>w DEF MarkPending, At
<1>4. ASSUME StatusReady PROVE TypeOK'
  <2>1. [worker.obj EXCEPT !.phase = "Ready", !.ready = TRUE, !.ref = TRUE] \in CR
          /\ "idle" \in Calls
    BY <1>a, ConstantTypes DEF CR, Phases, Calls, EnsureCalls, DeleteCalls
  <2>2. Stamped([worker.obj EXCEPT !.phase = "Ready", !.ready = TRUE, !.ref = TRUE]) \in CR
    BY <2>1, StampedType
  <2>. QED BY <1>4, <2>1, <2>2, <1>w DEF StatusReady, At
<1>5. ASSUME MarkDeleting PROVE TypeOK'
  <2>1. [worker.obj EXCEPT !.phase = "Deleting"] \in CR /\ "Uninstall" \in Calls
    BY <1>a, ConstantTypes DEF CR, Phases, Calls, EnsureCalls, DeleteCalls
  <2>2. Stamped([worker.obj EXCEPT !.phase = "Deleting"]) \in CR
    BY <2>1, StampedType
  <2>. QED BY <1>5, <2>1, <2>2, <1>w DEF MarkDeleting, At
<1>6. ASSUME RemoveFinalizer PROVE TypeOK'
  <2>1. NoCR \in CR /\ "idle" \in Calls
    BY <1>a, ConstantTypes DEF CR, Phases, Calls, EnsureCalls, DeleteCalls
  <2>. QED BY <1>6, <2>1, <1>w DEF RemoveFinalizer, At
<1>7. ASSUME StatusProvisioning PROVE TypeOK'
  <2>1. [worker.obj EXCEPT !.phase = "Provisioning", !.ready = FALSE, !.ref = FALSE] \in CR
    BY <1>a DEF CR, Phases
  <2>2. Stamped([worker.obj EXCEPT !.phase = "Provisioning", !.ready = FALSE, !.ref = FALSE]) \in CR
    BY <2>1, StampedType
  <2>. QED BY <1>7, <2>2, <1>s DEF StatusProvisioning, At
<1>8. ASSUME Fail PROVE TypeOK'
  <2>1. [worker.obj EXCEPT !.phase = "Failed", !.ready = FALSE] \in CR
    BY <1>a DEF CR, Phases
  <2>2. Stamped([worker.obj EXCEPT !.phase = "Failed", !.ready = FALSE]) \in CR
    BY <2>1, StampedType
  <2>. QED BY <1>8, <2>2, <1>s DEF Fail, At
<1>9. ASSUME EnsureNamespace PROVE TypeOK'
  <2>1. CacheTypeOK'
    BY <1>9, ConstantTypes DEF EnsureNamespace, MyNs, TypeOK, CacheTypeOK, At, WorkerTypeOK
  <2>2. WorkerTypeOK'
    BY <1>9, GotoType, GoesOn DEF EnsureNamespace, At, TypeOK, Calls, EnsureCalls,
      StatusCalls, DeleteCalls
  <2>3. NsTypeOK'
    BY <1>9, ConstantTypes DEF EnsureNamespace, MyNs, TypeOK, NsTypeOK, At, WorkerTypeOK
  <2>. QED BY <1>9, <2>1, <2>2, <2>3, TypeFrame DEF TypeOK, EnsureNamespace
<1>e. ASSUME worker.pc # "idle", NEW k \in ObjectKinds, NEW want, NEW absent,
             k = "quota" => want \in {"none", "storage", "compute"},
             k # "quota" => want \in BOOLEAN,
             NEW next \in Calls \ {"idle"}, EnsureObject(k, want, absent, next),
             UNCHANGED <<crVars, cacheVars, config, ns, informerVars, helmVars, netVars,
                         gwVars, faults>>
      PROVE  TypeOK'
  <2>1. WorkerTypeOK' /\ inside' \in [Namespaces -> Objects]
          /\ misled' \in [Tenants -> SUBSET Kinds]
    BY <1>e, EnsureObjectType
  <2>2. NsTypeOK' /\ CopyTypeOK'
    BY <1>e, <2>1 DEF TypeOK, NsTypeOK, CopyTypeOK
  <2>. QED BY <1>e, <2>1, <2>2, TypeFrame DEF TypeOK
<1>10. ASSUME EnsureResourceQuota PROVE TypeOK'
  <2>1. worker.pc # "idle" /\ worker.obj.spec \in Specs
    BY <1>10, <1>a DEF EnsureResourceQuota, At, CR
  <2>2. CASE Quota[worker.obj.spec] = "bad"
    <3>1. WorkerTypeOK'
      BY <1>10, <2>1, <2>2, GotoType
         DEF EnsureResourceQuota, TypeOK, Calls, StatusCalls
    <3>2. UNCHANGED <<nsVars, copyVars>>
      BY <1>10, <2>2 DEF EnsureResourceQuota
    <3>. QED BY <1>10, <3>1, <3>2, TypeFrame DEF TypeOK, EnsureResourceQuota
  <2>3. CASE Quota[worker.obj.spec] # "bad"
    <3>1. Quota[worker.obj.spec] \in {"none", "storage", "compute"}
      BY <2>1, <2>3, QuotaType DEF Specs
    <3>2. "quota" \in ObjectKinds /\ "EnsureLimitRange" \in Calls \ {"idle"}
      BY DEF ObjectKinds, Calls, EnsureCalls
    <3>3. EnsureObject("quota", Quota[worker.obj.spec], "none", "EnsureLimitRange")
      BY <1>10, <2>3 DEF EnsureResourceQuota
    <3>. QED BY <1>10, <2>1, <3>1, <3>2, <3>3, <1>e DEF EnsureResourceQuota
  <2>. QED BY <2>2, <2>3
<1>11. ASSUME EnsureLimitRange PROVE TypeOK'
  <2>1. worker.pc # "idle" /\ LimitsFor(worker.obj.spec) \in BOOLEAN
    BY <1>11 DEF EnsureLimitRange, At, LimitsFor
  <2>2. "limits" \in ObjectKinds /\ "limits" # "quota" /\ AfterLimits \in Calls \ {"idle"}
    BY GoesOn DEF ObjectKinds
  <2>3. EnsureObject("limits", LimitsFor(worker.obj.spec), FALSE, AfterLimits)
    BY <1>11 DEF EnsureLimitRange
  <2>. QED BY <1>11, <2>1, <2>2, <2>3, <1>e DEF EnsureLimitRange
<1>12. ASSUME EnsureReferenceGrant PROVE TypeOK'
  <2>1. worker.pc # "idle"
    BY <1>12 DEF EnsureReferenceGrant, At
  <2>2. /\ "grant" \in ObjectKinds /\ "grant" # "quota"
        /\ "EnsureTLSRoute" \in Calls \ {"idle"}
    BY DEF ObjectKinds, Calls, EnsureCalls
  <2>3. EnsureObject("grant", TRUE, FALSE, "EnsureTLSRoute")
    BY <1>12 DEF EnsureReferenceGrant
  <2>. QED BY <1>12, <2>1, <2>2, <2>3, <1>e DEF EnsureReferenceGrant
<1>13. ASSUME EnsureTLSRoute PROVE TypeOK'
  <2>1. WorkerTypeOK'
    BY <1>13, GotoType, GoesOn DEF EnsureTLSRoute, At, TypeOK, Calls, EnsureCalls,
      StatusCalls, DeleteCalls
  <2>2. worker.t \in Tenants
    BY <1>13, <1>b DEF EnsureTLSRoute, At
  <2>3. NetTypeOK'
    BY <1>13, <2>2 DEF EnsureTLSRoute, TypeOK, NetTypeOK
  <2>4. misled' \in [Tenants -> SUBSET Kinds]
    <3>1. "route" \in Kinds
      BY DEF Kinds
    <3>2. ASSUME Misled("route", FALSE) \/ Misled("route", TRUE)
          PROVE  misled' \in [Tenants -> SUBSET Kinds]
      BY <2>2, <3>1, <3>2, MisledType DEF TypeOK
    <3>. QED BY <1>13, <3>2 DEF EnsureTLSRoute, TypeOK, CopyTypeOK
  <2>5. CopyTypeOK'
    BY <1>13, <2>4 DEF EnsureTLSRoute, TypeOK, CopyTypeOK
  <2>. QED BY <1>13, <2>1, <2>3, <2>5, TypeFrame DEF TypeOK, EnsureTLSRoute
<1>14. ASSUME EnsureAppsCertificate PROVE TypeOK'
  <2>1. WorkerTypeOK'
    BY <1>14, GotoType, GoesOn DEF EnsureAppsCertificate, At, TypeOK, Calls, EnsureCalls,
      StatusCalls, DeleteCalls
  <2>2. NetTypeOK'
    BY <1>14, ConstantTypes DEF EnsureAppsCertificate, TypeOK, NetTypeOK, At, WorkerTypeOK
  <2>. QED BY <1>14, <2>1, <2>2, TypeFrame DEF TypeOK, EnsureAppsCertificate
<1>15. ASSUME EnsureAppsListener PROVE TypeOK'
  <2>1. WorkerTypeOK'
    BY <1>15, GotoType, GoesOn DEF EnsureAppsListener, At, TypeOK, Calls, EnsureCalls,
      StatusCalls, DeleteCalls
  <2>2. GwTypeOK'
    <3>1. CASE UNCHANGED <<gw, gwSeen, gwCurrent>>
      BY <3>1 DEF TypeOK, GwTypeOK
    <3>2. CASE UNCHANGED gwSeen /\ WriteGateway(gwSeen.listeners \cup {worker.t})
      <4>1. gwSeen.listeners \cup {worker.t} \in SUBSET Tenants
        BY <1>15, <1>b DEF TypeOK, GwTypeOK, EnsureAppsListener, At
      <4>. QED BY <3>2, <4>1 DEF WriteGateway, TypeOK, GwTypeOK
    <3>. QED BY <1>15, <3>1, <3>2 DEF EnsureAppsListener
  <2>. QED BY <1>15, <2>1, <2>2, TypeFrame DEF TypeOK, EnsureAppsListener
<1>16. ASSUME Install PROVE TypeOK'
  <2>1. WorkerTypeOK'
    BY <1>16, GotoType, GoesOn DEF Install, At, TypeOK, Calls, EnsureCalls,
      StatusCalls, DeleteCalls
  <2>2. HelmTypeOK'
    BY <1>16, ConstantTypes DEF Install, CR, TypeOK, HelmTypeOK, At, WorkerTypeOK
  <2>. QED BY <1>16, <2>1, <2>2, TypeFrame DEF TypeOK, Install
<1>17. ASSUME InstallRun PROVE TypeOK'
  <2>1. WorkerTypeOK'
    BY <1>17, GotoType, GoesOn DEF InstallRun, At, TypeOK, Calls, EnsureCalls,
      StatusCalls, DeleteCalls
  <2>2. HelmTypeOK'
    <3>1. worker.t \in Tenants
      BY <1>17, <1>b DEF InstallRun, At
    <3>2. CASE ns[MyNs].state = "active"
      <4>1. /\ release' = [release EXCEPT ![worker.t].status = "deployed"]
            /\ vc' = [vc EXCEPT ![worker.t].made = TRUE]
        BY <1>17, <3>2 DEF InstallRun
      <4>2. [vc[worker.t] EXCEPT !.made = TRUE] \in
              [made : BOOLEAN, up : BOOLEAN, secret : BOOLEAN]
        BY <3>1, Zenon DEF TypeOK, HelmTypeOK
      <4>3. vc' = [vc EXCEPT ![worker.t] = [vc[worker.t] EXCEPT !.made = TRUE]]
        BY <4>1
      <4>4. release' \in [Tenants -> [status : {"none", "pending", "deployed", "failed"},
                                     spec : Specs]]
        BY <3>1, <4>1, ReleaseStatusType DEF TypeOK
      <4>5. vc' \in [Tenants -> [made : BOOLEAN, up : BOOLEAN, secret : BOOLEAN]]
        BY <3>1, <4>2, <4>3, ExceptType DEF TypeOK, HelmTypeOK
      <4>. QED BY <4>4, <4>5 DEF HelmTypeOK
    <3>3. CASE ns[MyNs].state # "active"
      <4>1. release[worker.t].status \in {"none", "pending", "deployed", "failed"}
        BY <3>1 DEF TypeOK, HelmTypeOK
      <4>2. PICK st \in {"none", "pending", "deployed", "failed"} :
              vc' = vc /\ release' = [release EXCEPT ![worker.t].status = st]
        BY <1>17, <3>3, <4>1 DEF InstallRun
      <4>3. release' \in [Tenants -> [status : {"none", "pending", "deployed", "failed"},
                                     spec : Specs]]
        BY <3>1, <4>2, ReleaseStatusType DEF TypeOK
      <4>. QED BY <4>2, <4>3 DEF TypeOK, HelmTypeOK
    <3>. QED BY <3>2, <3>3
  <2>. QED BY <1>17, <2>1, <2>2, TypeFrame DEF TypeOK, InstallRun
<1>18. ASSUME VclusterReady PROVE TypeOK'
  <2>1. WorkerTypeOK'
    BY <1>18, GotoType, GoesOn DEF VclusterReady, At, TypeOK, Calls, EnsureCalls,
      StatusCalls, DeleteCalls
  <2>. QED BY <1>18, <2>1, TypeFrame DEF TypeOK, VclusterReady
<1>19. ASSUME Uninstall PROVE TypeOK'
  <2>1. WorkerTypeOK'
    BY <1>19, GotoType, GoesOn DEF Uninstall, At, TypeOK, Calls, EnsureCalls,
      StatusCalls, DeleteCalls
  <2>2. HelmTypeOK'
    <3>1. worker.t \in Tenants
      BY <1>19, <1>b DEF Uninstall, At
    <3>2. NoRelease \in [status : {"none", "pending", "deployed", "failed"}, spec : Specs]
      BY DEF NoRelease, Specs
    <3>. QED BY <1>19, <3>1, <3>2 DEF Uninstall, TypeOK, HelmTypeOK
  <2>. QED BY <1>19, <2>1, <2>2, TypeFrame DEF TypeOK, Uninstall
<1>20. ASSUME DeleteTLSRoute PROVE TypeOK'
  <2>1. WorkerTypeOK'
    BY <1>20, GotoType, GoesOn DEF DeleteTLSRoute, At, TypeOK, Calls, EnsureCalls,
      StatusCalls, DeleteCalls
  <2>2. NetTypeOK'
    BY <1>20, ConstantTypes DEF DeleteTLSRoute, TypeOK, NetTypeOK, At, WorkerTypeOK
  <2>. QED BY <1>20, <2>1, <2>2, TypeFrame DEF TypeOK, DeleteTLSRoute
<1>21. ASSUME DeleteListener PROVE TypeOK'
  <2>1. CacheTypeOK'
    BY <1>21, ConstantTypes
       DEF DeleteListener, WriteGateway, Requeue, TypeOK, CacheTypeOK, At, WorkerTypeOK
  <2>2. WorkerTypeOK'
    BY <1>21, GotoType, RequeueType DEF DeleteListener, At, TypeOK, Calls, DeleteCalls
  <2>3. GwTypeOK'
    BY <1>21, ConstantTypes
       DEF DeleteListener, WriteGateway, Requeue, TypeOK, GwTypeOK, At, WorkerTypeOK
  <2>. QED BY <1>21, <2>1, <2>2, <2>3, TypeFrame DEF TypeOK, DeleteListener
<1>22. ASSUME DeleteCertificate PROVE TypeOK'
  <2>1. WorkerTypeOK'
    BY <1>22, GotoType, GoesOn DEF DeleteCertificate, At, TypeOK, Calls, EnsureCalls,
      StatusCalls, DeleteCalls
  <2>2. NetTypeOK'
    BY <1>22, ConstantTypes DEF DeleteCertificate, TypeOK, NetTypeOK, At, WorkerTypeOK
  <2>. QED BY <1>22, <2>1, <2>2, TypeFrame DEF TypeOK, DeleteCertificate
<1>23. ASSUME DeleteCertSecret PROVE TypeOK'
  <2>1. WorkerTypeOK'
    BY <1>23, GotoType, GoesOn DEF DeleteCertSecret, At, TypeOK, Calls, EnsureCalls,
      StatusCalls, DeleteCalls
  <2>2. NetTypeOK'
    BY <1>23, ConstantTypes DEF DeleteCertSecret, TypeOK, NetTypeOK, At, WorkerTypeOK
  <2>. QED BY <1>23, <2>1, <2>2, TypeFrame DEF TypeOK, DeleteCertSecret
<1>24. ASSUME DeleteNamespace PROVE TypeOK'
  <2>1. CacheTypeOK'
    BY <1>24, <1>b, TerminateType DEF DeleteNamespace, At, TypeOK, CacheTypeOK
  <2>2. WorkerTypeOK'
    BY <1>24, GotoType, GoesOn DEF DeleteNamespace, At, TypeOK, Calls, EnsureCalls,
      StatusCalls, DeleteCalls
  <2>3. NsTypeOK'
    BY <1>24, <1>b, TerminateType DEF DeleteNamespace, At, TypeOK, NsTypeOK
  <2>. QED BY <1>24, <2>1, <2>2, <2>3, TypeFrame DEF TypeOK, DeleteNamespace
<1>25. ASSUME NEW t \in Tenants, CreateTenant(t) PROVE TypeOK'
  <2>1. CRTypeOK'
    <3>1. issued[t] + 1 \in Specs
      BY <1>25 DEF CreateTenant, TypeOK, CRTypeOK, Specs
    <3>2. [NoCR EXCEPT !.life = "live", !.spec = issued[t] + 1] \in CR
      BY <3>1, ConstantTypes DEF CR
    <3>3. /\ issued' = [issued EXCEPT ![t] = issued[t] + 1]
          /\ cr' = [cr EXCEPT ![t] = [NoCR EXCEPT !.life = "live", !.spec = issued[t] + 1]]
      BY <1>25 DEF CreateTenant
    <3>. QED BY <3>1, <3>2, <3>3 DEF TypeOK, CRTypeOK
  <2>2. CacheTypeOK'
    BY <1>25, ConstantTypes
       DEF CreateTenant, Overtaken, CR, NoCR, Specs, Phases, TypeOK, CacheTypeOK, At, WorkerTypeOK
  <2>3. WorkerTypeOK'
    BY <1>25, OvertakenType DEF CreateTenant
  <2>. QED BY <1>25, <2>1, <2>2, <2>3, TypeFrame DEF TypeOK, CreateTenant
<1>26. ASSUME NEW t \in Tenants, EditTenant(t) PROVE TypeOK'
  <2>1. CRTypeOK'
    <3>1. issued[t] + 1 \in Specs /\ cr[t] \in CR
      BY <1>26 DEF EditTenant, TypeOK, CRTypeOK, Specs
    <3>2. [cr[t] EXCEPT !.spec = issued[t] + 1] \in CR
      BY <3>1 DEF CR
    <3>3. /\ issued' = [issued EXCEPT ![t] = issued[t] + 1]
          /\ cr' = [cr EXCEPT ![t] = [cr[t] EXCEPT !.spec = issued[t] + 1]]
      BY <1>26 DEF EditTenant
    <3>. QED BY <3>1, <3>2, <3>3 DEF TypeOK, CRTypeOK
  <2>2. CacheTypeOK'
    BY <1>26, ConstantTypes
       DEF EditTenant, Overtaken, CR, Specs, TypeOK, CacheTypeOK, At, WorkerTypeOK
  <2>3. WorkerTypeOK'
    BY <1>26, OvertakenType DEF EditTenant
  <2>. QED BY <1>26, <2>1, <2>2, <2>3, TypeFrame DEF TypeOK, EditTenant
<1>27. ASSUME NEW t \in Tenants, DeleteTenant(t) PROVE TypeOK'
  <2>1. CRTypeOK'
    BY <1>27, ConstantTypes
       DEF DeleteTenant, Overtaken, CR, NoCR, TypeOK, CRTypeOK, At, WorkerTypeOK
  <2>2. CacheTypeOK'
    BY <1>27, ConstantTypes
       DEF DeleteTenant, Overtaken, CR, NoCR, TypeOK, CacheTypeOK, At, WorkerTypeOK
  <2>3. WorkerTypeOK'
    BY <1>27, OvertakenType DEF DeleteTenant
  <2>. QED BY <1>27, <2>1, <2>2, <2>3, TypeFrame DEF TypeOK, DeleteTenant
<1>28. ASSUME NEW t \in Tenants, TenantEvent(t) PROVE TypeOK'
  <2>1. CacheTypeOK'
    BY <1>28, ConstantTypes DEF TenantEvent, CRTypeOK, TypeOK, CacheTypeOK, At, WorkerTypeOK
  <2>. QED BY <1>28, <2>1, TypeFrame DEF TypeOK, TenantEvent
<1>29. ASSUME NEW t \in Tenants, VclusterUp(t) PROVE TypeOK'
  <2>1. HelmTypeOK'
    BY <1>29, ConstantTypes DEF VclusterUp, TypeOK, HelmTypeOK, At, WorkerTypeOK
  <2>. QED BY <1>29, <2>1, TypeFrame DEF TypeOK, VclusterUp
<1>30. ASSUME NEW t \in Tenants, VclusterExports(t) PROVE TypeOK'
  <2>1. HelmTypeOK'
    BY <1>30, ConstantTypes DEF VclusterExports, TypeOK, HelmTypeOK, At, WorkerTypeOK
  <2>. QED BY <1>30, <2>1, TypeFrame DEF TypeOK, VclusterExports
<1>31. ASSUME NEW t \in Tenants, CertIssued(t) PROVE TypeOK'
  <2>1. NetTypeOK'
    BY <1>31, ConstantTypes DEF CertIssued, TypeOK, NetTypeOK, At, WorkerTypeOK
  <2>. QED BY <1>31, <2>1, TypeFrame DEF TypeOK, CertIssued
<1>32. ASSUME NEW t \in Tenants, Resync(t) PROVE TypeOK'
  <2>1. CacheTypeOK'
    BY <1>32, ConstantTypes DEF Resync, TypeOK, CacheTypeOK, At, WorkerTypeOK
  <2>2. (faults \in 0..MaxFaults)'
    BY <1>32 DEF Resync, Fault, TypeOK
  <2>. QED BY <1>32, <2>1, <2>2, TypeFrame DEF TypeOK, Resync
<1>33. ASSUME NEW t \in Tenants, VclusterDown(t) PROVE TypeOK'
  <2>1. HelmTypeOK'
    BY <1>33, ConstantTypes DEF VclusterDown, TypeOK, HelmTypeOK, At, WorkerTypeOK
  <2>2. (faults \in 0..MaxFaults)'
    BY <1>33 DEF VclusterDown, Fault, TypeOK
  <2>. QED BY <1>33, <2>1, <2>2, TypeFrame DEF TypeOK, VclusterDown
<1>34. ASSUME NEW n \in Namespaces, NamespaceGone(n) PROVE TypeOK'
  <2>1. CacheTypeOK'
    BY <1>34, ConstantTypes
       DEF NamespaceGone, OwnerOf, NoNs, Objects, NoObjects, NoRelease, NoVc, Specs, NsTypeOK,
       TypeOK,
       CacheTypeOK, At, WorkerTypeOK
  <2>2. NsTypeOK'
    BY <1>34, ConstantTypes
       DEF NamespaceGone, OwnerOf, NoNs, Objects, NoObjects, NoRelease, NoVc, Specs, NsTypeOK,
       TypeOK,
       NsTypeOK, At, WorkerTypeOK
  <2>3. HelmTypeOK'
    BY <1>34, ConstantTypes
       DEF NamespaceGone, OwnerOf, NoNs, Objects, NoObjects, NoRelease, NoVc, Specs, NsTypeOK,
       TypeOK,
       HelmTypeOK, At, WorkerTypeOK
  <2>. QED BY <1>34, <2>1, <2>2, <2>3, TypeFrame DEF TypeOK, NamespaceGone
<1>35. ASSUME NEW n \in Namespaces, NamespaceDeleted(n) PROVE TypeOK'
  <2>1. CacheTypeOK'
    BY <1>35, TerminateType DEF NamespaceDeleted, TypeOK, CacheTypeOK
  <2>2. NsTypeOK'
    BY <1>35, TerminateType DEF NamespaceDeleted, TypeOK, NsTypeOK
  <2>3. (faults \in 0..MaxFaults)'
    BY <1>35 DEF NamespaceDeleted, Fault, TypeOK
  <2>. QED BY <1>35, <2>1, <2>2, <2>3, TypeFrame DEF TypeOK, NamespaceDeleted
<1>36. ASSUME GatewayEvent PROVE TypeOK'
  <2>1. GwTypeOK'
    BY <1>36, ConstantTypes DEF GatewayEvent, TypeOK, GwTypeOK, At, WorkerTypeOK
  <2>. QED BY <1>36, <2>1, TypeFrame DEF TypeOK, GatewayEvent
<1>37. ASSUME GatewayCreated PROVE TypeOK'
  <2>1. GwTypeOK'
    BY <1>37, ConstantTypes DEF GatewayCreated, TypeOK, GwTypeOK, At, WorkerTypeOK
  <2>. QED BY <1>37, <2>1, TypeFrame DEF TypeOK, GatewayCreated
<1>38. ASSUME GatewayDeleted PROVE TypeOK'
  <2>1. GwTypeOK'
    BY <1>38, ConstantTypes DEF GatewayDeleted, TypeOK, GwTypeOK, At, WorkerTypeOK
  <2>2. (faults \in 0..MaxFaults)'
    BY <1>38 DEF GatewayDeleted, Fault, TypeOK
  <2>. QED BY <1>38, <2>1, <2>2, TypeFrame DEF TypeOK, GatewayDeleted
<1>39. ASSUME GatewayTouched PROVE TypeOK'
  <2>1. GwTypeOK'
    BY <1>39, ConstantTypes DEF GatewayTouched, TypeOK, GwTypeOK, At, WorkerTypeOK
  <2>2. (faults \in 0..MaxFaults)'
    BY <1>39 DEF GatewayTouched, Fault, TypeOK
  <2>. QED BY <1>39, <2>1, <2>2, TypeFrame DEF TypeOK, GatewayTouched
<1>40. ASSUME Restart PROVE TypeOK'
  <2>1. CacheTypeOK'
    BY <1>40, ConstantTypes DEF Restart, CRTypeOK, TypeOK, CacheTypeOK, At, WorkerTypeOK
  <2>2. WorkerTypeOK'
    BY <1>40, ConstantTypes DEF Restart, WorkerTypeOK, WorkerType
  <2>3. NetTypeOK'
    BY <1>40, ConstantTypes DEF Restart, CRTypeOK, TypeOK, NetTypeOK, At, WorkerTypeOK
  <2>4. GwTypeOK'
    BY <1>40, ConstantTypes DEF Restart, CRTypeOK, TypeOK, GwTypeOK, At, WorkerTypeOK
  <2>5. (faults \in 0..MaxFaults)'
    BY <1>40 DEF Restart, Fault, TypeOK
  <2>6. CopyTypeOK'
    BY <1>40 DEF Restart, TypeOK, CopyTypeOK, Objects, NoObjects
  <2>. QED BY <1>40, <2>1, <2>2, <2>3, <2>4, <2>5, <2>6, TypeFrame DEF TypeOK, Restart
<1>41. ASSUME CallFails PROVE TypeOK'
  <2>1. CacheTypeOK'
    BY <1>41, ConstantTypes DEF CallFails, Requeue, Goto, TypeOK, CacheTypeOK, At, WorkerTypeOK
  <2>2. WorkerTypeOK'
    BY <1>41, GotoType, RequeueType DEF CallFails, At, TypeOK, Calls, StatusCalls
  <2>3. HelmTypeOK'
    <3>1. CASE worker.pc = "InstallRun"
      <4>1. worker.t \in Tenants
        BY <1>b, <3>1
      <4>2. release[worker.t].status \in {"none", "pending", "deployed", "failed"}
        BY <4>1 DEF TypeOK, HelmTypeOK
      <4>3. PICK st \in {"none", "pending", "deployed", "failed"} :
              vc' = vc /\ release' = [release EXCEPT ![worker.t].status = st]
        BY <1>41, <3>1, <4>2 DEF CallFails, At
      <4>4. release' \in [Tenants -> [status : {"none", "pending", "deployed", "failed"},
                                     spec : Specs]]
        BY <4>1, <4>3, ReleaseStatusType DEF TypeOK
      <4>. QED BY <4>3, <4>4 DEF TypeOK, HelmTypeOK
    <3>2. CASE worker.pc # "InstallRun"
      BY <1>41, <3>2 DEF CallFails, At, TypeOK, HelmTypeOK
    <3>. QED BY <3>1, <3>2
  <2>4. (faults \in 0..MaxFaults)'
    BY <1>41 DEF CallFails, Fault, TypeOK
  <2>. QED BY <1>41, <2>1, <2>2, <2>3, <2>4, TypeFrame DEF TypeOK, CallFails
<1>42. ASSUME NEW k \in Kinds, InformerCatchesUp(k) PROVE TypeOK'
  <2>1. CopyTypeOK'
    BY <1>42, KindCopied, NoObjectsType
       DEF InformerCatchesUp, TypeOK, CopyTypeOK
  <2>. QED BY <1>42, <2>1, TypeFrame DEF TypeOK, InformerCatchesUp
<1>43. ASSUME NEW k \in Kinds, InformerLags(k) PROVE TypeOK'
  <2>1. CopyTypeOK'
    BY <1>43, KindCopied
       DEF InformerLags, TypeOK, CopyTypeOK, NsTypeOK, NetTypeOK
  <2>2. (faults \in 0..MaxFaults)'
    BY <1>43 DEF InformerLags, Fault, TypeOK
  <2>. QED BY <1>43, <2>1, <2>2, TypeFrame DEF TypeOK, InformerLags
<1>44. CASE UNCHANGED vars
  BY <1>44, TypeFrame DEF TypeOK, vars
<1>. QED
  BY <1>1, <1>2, <1>3, <1>4, <1>5, <1>6, <1>7, <1>8, <1>9, <1>10, <1>11,
     <1>12, <1>13, <1>14, <1>15, <1>16, <1>17, <1>18, <1>19, <1>20, <1>21,
     <1>22, <1>23, <1>24, <1>25, <1>26, <1>27, <1>28, <1>29, <1>30, <1>31,
     <1>32, <1>33, <1>34, <1>35, <1>36, <1>37, <1>38, <1>39, <1>40, <1>41,
     <1>42, <1>43, <1>44
  DEF Next, WorkerStep, Users, Cluster, Faults

(* Type correctness of the operator. *)
THEOREM TypeCorrect == Spec => []TypeOK
<1>1. Init => TypeOK
  BY InitType
<1>2. TypeOK /\ [Next]_vars => TypeOK'
  BY NextType
<1>. QED BY <1>1, <1>2, PTL DEF Spec
=============================================================================
