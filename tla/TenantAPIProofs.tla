--------------------------- MODULE TenantAPIProofs ---------------------------
(***************************************************************************)
(* Proofs about the tenant handlers of the API, for any names, callers,    *)
(* requests and faults.                                                    *)
(***************************************************************************)
EXTENDS TenantAPI, TLAPS

USE ApiAssumptions DEF ApiAssumptions

\* Where the handler of a request may be.
PCs == Calls \cup {"unsent", "done", "dead"}

\* A request.
ReqType == [kind : {"create", "delete"}, name : Names, caller : Callers,
            pc : PCs, reply : Replies]

(* Every step of a request moves its handler or answers it. *)
Moves(r) ==
  \/ \E p \in PCs : Goto(r, p)
  \/ \E c \in Replies : Answer(r, c)

(* Moving or answering one request keeps the types of all, and everything of
   the others. *)
LEMMA MovesType ==
  ASSUME req \in [Reqs -> ReqType], NEW r \in Reqs, Moves(r)
  PROVE  /\ req' \in [Reqs -> ReqType]
         /\ \A q \in Reqs \ {r} : req'[q] = req[q]
         /\ \A q \in Reqs : req'[q].kind = req[q].kind /\ req'[q].name = req[q].name
BY DEF Moves, Goto, Answer, ReqType, PCs, Replies

(* Where an error takes a handler. *)
LEMMA FailedMoves ==
  ASSUME NEW r \in Reqs, Failed(r)
  PROVE  Moves(r)
<1>1. CASE At(r, "createCR")
  BY <1>1 DEF Failed, At, Moves, PCs, Calls, CreateCalls
<1>2. CASE ~At(r, "createCR") /\ (At(r, "auditCreate") \/ At(r, "auditDelete"))
  <2>1. Answer(r, Success(r))
    BY <1>2 DEF Failed, At
  <2>2. Success(r) \in Replies
    BY DEF Success, Replies
  <2>. QED BY <2>1, <2>2 DEF Moves
<1>3. CASE ~At(r, "createCR") /\ ~At(r, "auditCreate") /\ ~At(r, "auditDelete")
  BY <1>3 DEF Failed, Moves, Replies
<1>. QED BY <1>1, <1>2, <1>3

\* Every step of a handler moves it or answers the request.
LEMMA HandlerMoves ==
  ASSUME NEW r \in Reqs, Serve(r) \/ Handler(r) \/ CallCanceled(r) \/ CallFails(r)
                         \/ AnswerLost(r) \/ Crash(r)
  PROVE  Moves(r)
<1>1. CASE Serve(r)
  BY <1>1 DEF Serve, Moves, PCs, Calls, CreateCalls, DeleteCalls
<1>2. CASE Handler(r)
  <2>1. Success(r) \in Replies
    BY DEF Success, Replies
  <2>. QED BY <1>2, <2>1
       DEF Handler, CreateTenant, CreateTenantCR, Rollback, Authorize,
           DeleteTenantCR, SoftDeleteTenant, Audit, Moves, PCs, Calls,
           CreateCalls, DeleteCalls, Replies
<1>3. CASE CallCanceled(r) \/ CallFails(r) \/ AnswerLost(r)
  BY <1>3, FailedMoves DEF CallCanceled, CallFails, AnswerLost
<1>4. CASE Crash(r)
  BY <1>4 DEF Crash, Moves, PCs
<1>. QED BY <1>1, <1>2, <1>3, <1>4

-----------------------------------------------------------------------------
(* Type correctness *)

(* The writes of the stores keep their types; only SoftDeleteRow meets a row
   whose maker it keeps, and it meets a live one. *)
LEMMA StoresType ==
  ASSUME TypeOK, NEW r \in Reqs
  PROVE  /\ InsertRow(r) \/ SoftDeleteRow(r) \/ HardDeleteRow(r) => row' \in [Names -> Rows]
         /\ PutCR(r) \/ DropCR(NameOf(r)) => crs' \in [Names -> CRs]
<1>1. /\ NameOf(r) \in Names
      /\ row \in [Names -> Rows]
      /\ crs \in [Names -> CRs]
  BY DEF TypeOK, NameOf
<1>2. InsertRow(r) => row' \in [Names -> Rows]
  BY <1>1 DEF InsertRow, Rows
<1>3. SoftDeleteRow(r) => row' \in [Names -> Rows]
  <2>1. row[NameOf(r)].state = "live" => row[NameOf(r)].by \in Reqs
    BY <1>1 DEF Rows, NoRow
  <2>2. row[NameOf(r)].state = "live" =>
          [row[NameOf(r)] EXCEPT !.state = "deleted"] \in Rows
    BY <1>1, <2>1 DEF Rows, NoRow
  <2>. QED BY <1>1, <2>2 DEF SoftDeleteRow
<1>4. HardDeleteRow(r) => row' \in [Names -> Rows]
  BY <1>1 DEF HardDeleteRow, Rows
<1>5. PutCR(r) => crs' \in [Names -> CRs]
  BY <1>1 DEF PutCR, CRs
<1>6. DropCR(NameOf(r)) => crs' \in [Names -> CRs]
  <2>1. crs[NameOf(r)].life = "live" =>
          [crs[NameOf(r)] EXCEPT !.life = "deleting"] \in CRs
    BY <1>1 DEF CRs, NoCR
  <2>. QED BY <1>1, <2>1 DEF DropCR
<1>. QED BY <1>2, <1>3, <1>4, <1>5, <1>6

\* Faults stay within their bound.
LEMMA FaultType ==
  ASSUME TypeOK, NEW k, Fault(k)
  PROVE  faults' \in 0..MaxFaults
BY DEF TypeOK, Fault

\* The initial state.
LEMMA InitType == Init => TypeOK
BY DEF Init, TypeOK, Unsent, Rows, CRs, Replies

\* Every step keeps the types.
LEMMA NextType ==
  ASSUME TypeOK, [Next]_vars
  PROVE  TypeOK'
<1>. USE DEF TypeOK
<1>r. req \in [Reqs -> ReqType]
  BY DEF ReqType, PCs
<1>m. ASSUME NEW r \in Reqs, Moves(r)
      PROVE  req' \in [Reqs -> [kind : {"create", "delete"}, name : Names,
                                caller : Callers, pc : Calls \cup {"unsent", "done", "dead"},
                                reply : Replies]]
  BY <1>r, <1>m, MovesType DEF ReqType, PCs
<1>1. ASSUME NEW r \in Reqs, Serve(r) PROVE TypeOK'
  BY <1>1, <1>m, HandlerMoves DEF Serve
<1>2. ASSUME NEW r \in Reqs, Handler(r) PROVE TypeOK'
  <2>1. Moves(r)
    BY <1>2, HandlerMoves
  <2>2. row' \in [Names -> Rows] /\ crs' \in [Names -> CRs] /\ audit' \subseteq Reqs
    BY <1>2, StoresType
    DEF Handler, CreateTenant, CreateTenantCR, Rollback, Authorize,
        DeleteTenantCR, SoftDeleteTenant, Audit
  <2>3. UNCHANGED <<gone, outside, faults>>
    BY <1>2
    DEF Handler, CreateTenant, CreateTenantCR, Rollback, Authorize,
        DeleteTenantCR, SoftDeleteTenant, Audit
  <2>. QED BY <1>m, <2>1, <2>2, <2>3
<1>3. ASSUME NEW r \in Reqs, Disconnect(r) PROVE TypeOK'
  BY <1>3, FaultType DEF Disconnect
<1>4. ASSUME NEW r \in Reqs, CallCanceled(r) PROVE TypeOK'
  BY <1>4, <1>m, HandlerMoves DEF CallCanceled
<1>5. ASSUME NEW r \in Reqs, CallFails(r) PROVE TypeOK'
  BY <1>5, <1>m, HandlerMoves, FaultType DEF CallFails
<1>6. ASSUME NEW r \in Reqs, AnswerLost(r) PROVE TypeOK'
  <2>1. Moves(r) /\ faults' \in 0..MaxFaults
    BY <1>6, HandlerMoves, FaultType DEF AnswerLost
  <2>2. row' \in [Names -> Rows] /\ crs' \in [Names -> CRs] /\ audit' \subseteq Reqs
    BY <1>6, StoresType DEF AnswerLost
  <2>3. gone' \subseteq Reqs /\ outside' = outside
    BY <1>6 DEF AnswerLost
  <2>. QED BY <1>m, <2>1, <2>2, <2>3
<1>7. ASSUME NEW r \in Reqs, Crash(r) PROVE TypeOK'
  BY <1>7, <1>m, HandlerMoves, FaultType DEF Crash
<1>8. ASSUME NEW n \in Names, Outside(n) PROVE TypeOK'
  <2>1. crs' \in [Names -> CRs]
    <3>1. crs[n].life = "live" => [crs[n] EXCEPT !.life = "deleting"] \in CRs
      BY DEF CRs, NoCR
    <3>2. NoCR \in CRs /\ [life |-> "live", by |-> Kubectl] \in CRs
      BY DEF CRs
    <3>3. CASE DropCR(n)
      BY <3>1, <3>3 DEF DropCR
    <3>4. CASE KubectlCreate(n) \/ TornDown(n)
      BY <3>2, <3>4 DEF KubectlCreate, TornDown
    <3>. QED BY <1>8, <3>3, <3>4 DEF Outside, KubectlDelete
  <2>. QED BY <1>8, <2>1 DEF Outside, KubectlCreate, KubectlDelete, TornDown
<1>9. CASE UNCHANGED vars
  BY <1>9 DEF vars
<1>. QED
  BY <1>1, <1>2, <1>3, <1>4, <1>5, <1>6, <1>7, <1>8, <1>9 DEF Next, Trouble

(* Every reachable state of the API's tenant handlers is well typed; a row
   always has the request that inserted it (store.CreateTenant). *)
THEOREM ApiTypeCorrect == Spec => []TypeOK
BY InitType, NextType, PTL DEF Spec

-----------------------------------------------------------------------------
(* Who holds a name *)

\* A handler stays with the calls of its request, answers at its end, and only
\* a creation is answered 201.
Kinds ==
  \A r \in Reqs :
    /\ req[r].pc \in CreateCalls => req[r].kind = "create"
    /\ req[r].pc \in DeleteCalls => req[r].kind = "delete"
    /\ req[r].reply # "none" => req[r].pc = "done"
    /\ req[r].reply = "201" => req[r].kind = "create"

\* Past its insert and not rolled back, a creation owns the row of its name.
HoldsName(r) ==
  req[r].pc \in {"createCR", "rollback", "auditCreate"} \/ req[r].reply = "201"

\* A request that holds its name is the one its row was written by.
Claimed == \A r \in Reqs : HoldsName(r) => row[NameOf(r)].by = r

\* A marked row was marked by a delete of its name.
Marked ==
  \A n \in Names :
    row[n].state = "deleted" => \E d \in Reqs : DeletedBy(d, n)

\* The invariant of names: no two creates hold one.
ClaimInv == Kinds /\ Claimed /\ Marked

\* It holds initially.
LEMMA ClaimInit == Init => ClaimInv
BY DEF Init, ClaimInv, Kinds, Claimed, Marked, HoldsName, Unsent, NoRow, Calls,
       CreateCalls, DeleteCalls, NameOf

(* A step of r that changes no row keeps the invariant when it keeps what r
   claims and what r has marked. *)
LEMMA ClaimSameRows ==
  ASSUME TypeOK, ClaimInv, NEW r \in Reqs, Moves(r), row' = row,
         HoldsName(r)' => HoldsName(r),
         DeletedBy(r, NameOf(r)) => DeletedBy(r, NameOf(r))',
         Kinds'
  PROVE  ClaimInv'
<1>. USE DEF NameOf
<1>1. /\ \A q \in Reqs \ {r} : req'[q] = req[q]
      /\ \A q \in Reqs : req'[q].name = req[q].name
  BY MovesType DEF TypeOK, ReqType, PCs
<1>2. Claimed'
  BY <1>1 DEF ClaimInv, Claimed, HoldsName
<1>3. Marked'
  <2>. SUFFICES ASSUME NEW n \in Names, row[n].state = "deleted"
                PROVE  \E d \in Reqs : DeletedBy(d, n)'
    BY DEF Marked
  <2>1. PICK d \in Reqs : DeletedBy(d, n)
    BY DEF ClaimInv, Marked
  <2>2. CASE d = r
    BY <1>1, <2>1, <2>2 DEF DeletedBy
  <2>3. CASE d # r
    BY <1>1, <2>1, <2>3 DEF DeletedBy
  <2>. QED BY <2>2, <2>3
<1>. QED BY <1>2, <1>3 DEF ClaimInv

(* A row is removed by its own request only. *)
LEMMA RemovalIsOwn ==
  ASSUME TypeOK, ClaimInv, [Next]_vars, NEW n \in Names,
         row[n] # NoRow, row'[n] = NoRow
  PROVE  /\ row[n].by \in Reqs
         /\ At(row[n].by, "rollback") /\ NameOf(row[n].by) = n
<1>1. PICK r \in Reqs : At(r, "rollback") /\ HardDeleteRow(r)
  <2>1. row[n] \in [state : {"live", "deleted"}, by : Reqs]
    BY DEF TypeOK, Rows
  <2>2. ASSUME NEW r \in Reqs, InsertRow(r) \/ SoftDeleteRow(r) PROVE FALSE
    <3>1. row \in [Names -> Rows] /\ NameOf(r) \in Names
      BY DEF TypeOK, NameOf
    <3>2. CASE InsertRow(r)
      BY <2>1, <3>1, <3>2 DEF InsertRow, NoRow
    <3>3. CASE SoftDeleteRow(r)
      BY <2>1, <3>1, <3>3 DEF SoftDeleteRow, NoRow
    <3>. QED BY <2>2, <3>2, <3>3
  <2>3. row' # row
    OBVIOUS
  <2>. QED BY <2>2, <2>3
       DEF Next, Serve, Handler, Trouble, Outside, CreateTenant, CreateTenantCR,
           Rollback, Authorize, DeleteTenantCR, SoftDeleteTenant, Audit,
           Disconnect, CallCanceled, CallFails, AnswerLost, Crash,
           KubectlCreate, KubectlDelete, TornDown, vars
<1>2. NameOf(r) = n
  BY <1>1 DEF HardDeleteRow, TypeOK
<1>3. row[n].by = r
  BY <1>1, <1>2 DEF ClaimInv, Claimed, HoldsName, At
<1>. QED BY <1>1, <1>2, <1>3

\* A request stays on the calls of its kind.
LEMMA KindsNext ==
  ASSUME TypeOK, ClaimInv, NEW r \in Reqs,
         Serve(r) \/ Handler(r) \/ CallCanceled(r) \/ CallFails(r)
           \/ AnswerLost(r) \/ Crash(r)
  PROVE  Kinds'
<1>1. /\ \A q \in Reqs \ {r} : req'[q] = req[q]
      /\ req'[r].kind = req[r].kind
  BY HandlerMoves, MovesType DEF TypeOK, ReqType, PCs
<1>2. \A q \in Reqs \ {r} :
        /\ req'[q].pc \in CreateCalls => req'[q].kind = "create"
        /\ req'[q].pc \in DeleteCalls => req'[q].kind = "delete"
        /\ req'[q].reply # "none" => req'[q].pc = "done"
        /\ req'[q].reply = "201" => req'[q].kind = "create"
  BY <1>1 DEF ClaimInv, Kinds
<1>3. /\ req[r] \in ReqType
      /\ req[r].pc \in CreateCalls => req[r].kind = "create"
      /\ req[r].pc \in DeleteCalls => req[r].kind = "delete"
      /\ req[r].reply # "none" => req[r].pc = "done"
  BY DEF TypeOK, ReqType, PCs, ClaimInv, Kinds
<1>4. /\ req'[r].pc \in CreateCalls => req[r].kind = "create"
      /\ req'[r].pc \in DeleteCalls => req[r].kind = "delete"
      /\ req'[r].reply # "none" => req'[r].pc = "done"
      /\ req'[r].reply = "201" => req[r].kind = "create"
  BY <1>3
  DEF TypeOK, Serve, Handler, CreateTenant, CreateTenantCR, Rollback, Authorize,
      DeleteTenantCR, SoftDeleteTenant, Audit, CallCanceled, CallFails,
      AnswerLost, Crash, Failed, Success, At, Goto, Answer, ReqType, PCs, Calls,
      CreateCalls, DeleteCalls
<1>. QED BY <1>1, <1>2, <1>4 DEF Kinds

(* The insert of r takes a name that nobody holds. *)
LEMMA ClaimInsert ==
  ASSUME TypeOK, ClaimInv, NEW r \in Reqs, Moves(r), At(r, "insert"),
         row[NameOf(r)] = NoRow, InsertRow(r), Kinds'
  PROVE  ClaimInv'
<1>1. /\ \A q \in Reqs \ {r} : req'[q] = req[q]
      /\ \A q \in Reqs : req'[q].name = req[q].name
  BY MovesType DEF TypeOK, ReqType, PCs
<1>2. /\ NameOf(r) \in Names
      /\ row \in [Names -> Rows]
      /\ row' = [row EXCEPT ![NameOf(r)] = [state |-> "live", by |-> r]]
  BY DEF TypeOK, NameOf, InsertRow
<1>3. Claimed'
  <2>. SUFFICES ASSUME NEW q \in Reqs, HoldsName(q)'
                PROVE  row'[req[q].name].by = q
    BY <1>1 DEF Claimed, NameOf
  <2>1. CASE q = r
    BY <1>2, <2>1 DEF NameOf
  <2>2. CASE q # r
    <3>1. row[req[q].name].by = q
      BY <1>1, <2>2 DEF ClaimInv, Claimed, HoldsName, NameOf
    <3>2. req[q].name # NameOf(r)
      BY <3>1 DEF NoRow
    <3>. QED BY <1>2, <3>1, <3>2
  <2>. QED BY <2>1, <2>2
<1>4. Marked'
  <2>. SUFFICES ASSUME NEW n \in Names, row'[n].state = "deleted"
                PROVE  \E d \in Reqs : DeletedBy(d, n)'
    BY DEF Marked
  <2>1. row[n].state = "deleted"
    BY <1>2
  <2>2. PICK d \in Reqs : DeletedBy(d, n)
    BY <2>1 DEF ClaimInv, Marked
  <2>3. d # r
    BY <2>2 DEF DeletedBy, At
  <2>. QED BY <1>1, <2>2, <2>3 DEF DeletedBy, NameOf
<1>. QED BY <1>3, <1>4 DEF ClaimInv

(* The rollback of r frees a name that only r holds. *)
LEMMA ClaimRemove ==
  ASSUME TypeOK, ClaimInv, NEW r \in Reqs, Moves(r), At(r, "rollback"),
         HardDeleteRow(r), ~HoldsName(r)', Kinds'
  PROVE  ClaimInv'
<1>1. /\ \A q \in Reqs \ {r} : req'[q] = req[q]
      /\ \A q \in Reqs : req'[q].name = req[q].name
  BY MovesType DEF TypeOK, ReqType, PCs
<1>2. /\ NameOf(r) \in Names
      /\ row \in [Names -> Rows]
      /\ row' = [row EXCEPT ![NameOf(r)] = NoRow]
  BY DEF TypeOK, NameOf, HardDeleteRow
<1>3. row[NameOf(r)].by = r
  BY DEF ClaimInv, Claimed, HoldsName, At
<1>4. Claimed'
  <2>. SUFFICES ASSUME NEW q \in Reqs, HoldsName(q)'
                PROVE  row'[req[q].name].by = q
    BY <1>1 DEF Claimed, NameOf
  <2>1. q # r
    OBVIOUS
  <2>2. row[req[q].name].by = q
    BY <1>1, <2>1 DEF ClaimInv, Claimed, HoldsName, NameOf
  <2>3. req[q].name # NameOf(r)
    BY <1>3, <2>1, <2>2
  <2>. QED BY <1>2, <2>2, <2>3
<1>5. Marked'
  <2>. SUFFICES ASSUME NEW n \in Names, row'[n].state = "deleted"
                PROVE  \E d \in Reqs : DeletedBy(d, n)'
    BY DEF Marked
  <2>1. row[n].state = "deleted"
    BY <1>2 DEF NoRow
  <2>2. PICK d \in Reqs : DeletedBy(d, n)
    BY <2>1 DEF ClaimInv, Marked
  <2>3. d # r
    BY <2>2 DEF DeletedBy, At
  <2>. QED BY <1>1, <2>2, <2>3 DEF DeletedBy, NameOf
<1>. QED BY <1>4, <1>5 DEF ClaimInv

(* The mark of a delete keeps the maker of the row. *)
LEMMA ClaimMark ==
  ASSUME TypeOK, ClaimInv, NEW r \in Reqs, Moves(r), At(r, "softDelete"),
         SoftDeleteRow(r), ~HoldsName(r)', DeletedBy(r, NameOf(r))', Kinds'
  PROVE  ClaimInv'
<1>1. /\ \A q \in Reqs \ {r} : req'[q] = req[q]
      /\ \A q \in Reqs : req'[q].name = req[q].name
  BY MovesType DEF TypeOK, ReqType, PCs
<1>2. /\ NameOf(r) \in Names
      /\ row \in [Names -> Rows]
      /\ \A n \in Names : n # NameOf(r) => row'[n] = row[n]
      /\ \A n \in Names : row'[n].by = row[n].by
  <2>1. NameOf(r) \in Names /\ row \in [Names -> Rows]
    BY DEF TypeOK, NameOf
  <2>2. row[NameOf(r)].state = "live" =>
          [row[NameOf(r)] EXCEPT !.state = "deleted"].by = row[NameOf(r)].by
    BY <2>1 DEF Rows, NoRow
  <2>. QED BY <2>1, <2>2 DEF SoftDeleteRow
<1>3. Claimed'
  <2>. SUFFICES ASSUME NEW q \in Reqs, HoldsName(q)'
                PROVE  row'[req[q].name].by = q
    BY <1>1 DEF Claimed, NameOf
  <2>1. q # r
    OBVIOUS
  <2>2. row[req[q].name].by = q /\ req[q].name \in Names
    BY <1>1, <2>1 DEF ClaimInv, Claimed, HoldsName, NameOf, TypeOK
  <2>. QED BY <1>2, <2>2
<1>4. Marked'
  <2>. SUFFICES ASSUME NEW n \in Names, row'[n].state = "deleted"
                PROVE  \E d \in Reqs : DeletedBy(d, n)'
    BY DEF Marked
  <2>1. CASE n = NameOf(r)
    BY <1>1, <2>1 DEF DeletedBy, NameOf
  <2>2. CASE n # NameOf(r)
    <3>1. row[n].state = "deleted"
      BY <1>2, <2>2
    <3>2. PICK d \in Reqs : DeletedBy(d, n)
      BY <3>1 DEF ClaimInv, Marked
    <3>3. d # r
      BY <3>2 DEF DeletedBy, At
    <3>. QED BY <1>1, <3>2, <3>3 DEF DeletedBy, NameOf
  <2>. QED BY <2>1, <2>2
<1>. QED BY <1>3, <1>4 DEF ClaimInv

(* What an error of r changes of its claims and its mark. *)
LEMMA FailedKeeps ==
  ASSUME TypeOK, ClaimInv, NEW r \in Reqs, req[r].pc \in Calls, Failed(r)
  PROVE  /\ HoldsName(r)' => HoldsName(r)
         /\ DeletedBy(r, NameOf(r)) => DeletedBy(r, NameOf(r))'
         /\ At(r, "rollback") => ~HoldsName(r)'
         /\ At(r, "softDelete") => ~HoldsName(r)' /\ DeletedBy(r, NameOf(r))'
<1>1. /\ req[r] \in ReqType
      /\ req \in [Reqs -> ReqType]
      /\ req[r].pc \in DeleteCalls => req[r].kind = "delete"
      /\ req[r].reply = "none"
  BY DEF TypeOK, ReqType, PCs, ClaimInv, Kinds, Calls, CreateCalls, DeleteCalls
<1>2. CASE At(r, "createCR")
  BY <1>1, <1>2
  DEF Failed, At, Goto, Answer, HoldsName, DeletedBy, NameOf, ReqType
<1>3. CASE At(r, "auditCreate") \/ At(r, "auditDelete")
  BY <1>1, <1>3
  DEF Failed, At, Goto, Answer, HoldsName, DeletedBy, NameOf, ReqType, Success
<1>4. CASE ~At(r, "createCR") /\ ~At(r, "auditCreate") /\ ~At(r, "auditDelete")
  <2>1. Answer(r, "500")
    BY <1>4 DEF Failed
  <2>. QED BY <1>1, <1>4, <2>1
       DEF At, Answer, HoldsName, DeletedBy, NameOf, ReqType, DeleteCalls
<1>. QED BY <1>2, <1>3, <1>4

\* Every step keeps the invariant of names.
LEMMA ClaimNext ==
  ASSUME TypeOK, ClaimInv, [Next]_vars
  PROVE  ClaimInv'
<1>r. ASSUME NEW r \in Reqs
      PROVE  /\ req[r] \in ReqType /\ req \in [Reqs -> ReqType]
             /\ req[r].pc \in DeleteCalls => req[r].kind = "delete"
             /\ req[r].reply # "none" => req[r].pc = "done"
  BY DEF TypeOK, ReqType, PCs, ClaimInv, Kinds
<1>1. ASSUME NEW r \in Reqs,
             \/ Serve(r) \/ CreateTenantCR(r) \/ Authorize(r)
             \/ DeleteTenantCR(r) \/ Audit(r) \/ Crash(r)
      PROVE  ClaimInv'
  <2>1. Moves(r) /\ Kinds'
    BY <1>1, HandlerMoves, KindsNext DEF Handler
  <2>2. row' = row
    BY <1>1 DEF Serve, CreateTenantCR, Authorize, DeleteTenantCR, Audit, Crash
  <2>3. HoldsName(r)' => HoldsName(r)
    BY <1>1, <1>r
    DEF Serve, CreateTenantCR, Authorize, DeleteTenantCR, Audit, Crash, At,
        Goto, Answer, HoldsName, ReqType, Success
  <2>4. DeletedBy(r, NameOf(r)) => DeletedBy(r, NameOf(r))'
    BY <1>1, <1>r
    DEF Serve, CreateTenantCR, Authorize, DeleteTenantCR, Audit, Crash, At,
        Goto, Answer, DeletedBy, NameOf, ReqType, Success, DeleteCalls, Calls,
        CreateCalls
  <2>. QED BY <2>1, <2>2, <2>3, <2>4, ClaimSameRows
<1>2. ASSUME NEW r \in Reqs, CreateTenant(r) PROVE ClaimInv'
  <2>1. Moves(r) /\ Kinds' /\ At(r, "insert") /\ InsertRow(r)
    BY <1>2, HandlerMoves, KindsNext DEF Handler, CreateTenant
  <2>2. CASE row[NameOf(r)] = NoRow
    BY <2>1, <2>2, ClaimInsert
  <2>3. CASE row[NameOf(r)] # NoRow
    <3>1. row' = row /\ Answer(r, "409")
      BY <1>2, <2>3 DEF CreateTenant, InsertRow
    <3>2. ~HoldsName(r)' /\ ~DeletedBy(r, NameOf(r))
      BY <1>r, <2>1, <3>1 DEF Answer, At, HoldsName, DeletedBy, ReqType
    <3>. QED BY <2>1, <3>1, <3>2, ClaimSameRows
  <2>. QED BY <2>2, <2>3
<1>3. ASSUME NEW r \in Reqs, Rollback(r) PROVE ClaimInv'
  <2>1. Moves(r) /\ Kinds' /\ At(r, "rollback") /\ HardDeleteRow(r)
    BY <1>3, HandlerMoves, KindsNext DEF Handler, Rollback
  <2>2. ~HoldsName(r)'
    BY <1>3, <1>r DEF Rollback, Answer, HoldsName, ReqType
  <2>. QED BY <2>1, <2>2, ClaimRemove
<1>4. ASSUME NEW r \in Reqs, SoftDeleteTenant(r) PROVE ClaimInv'
  <2>1. Moves(r) /\ Kinds' /\ At(r, "softDelete") /\ SoftDeleteRow(r)
    BY <1>4, HandlerMoves, KindsNext DEF Handler, SoftDeleteTenant
  <2>2. ~HoldsName(r)' /\ DeletedBy(r, NameOf(r))'
    BY <1>4, <1>r
    DEF SoftDeleteTenant, At, Goto, HoldsName, DeletedBy, NameOf, ReqType, DeleteCalls
  <2>. QED BY <2>1, <2>2, ClaimMark
<1>5. ASSUME NEW r \in Reqs, CallCanceled(r) \/ CallFails(r) PROVE ClaimInv'
  <2>1. Moves(r) /\ Kinds' /\ row' = row /\ req[r].pc \in Calls /\ Failed(r)
    BY <1>5, HandlerMoves, KindsNext DEF CallCanceled, CallFails
  <2>. QED BY <2>1, FailedKeeps, ClaimSameRows
<1>6. ASSUME NEW r \in Reqs, AnswerLost(r) PROVE ClaimInv'
  <2>1. Moves(r) /\ Kinds' /\ Failed(r)
    BY <1>6, HandlerMoves, KindsNext DEF AnswerLost
  <2>2. req[r].pc \in Calls
    BY <1>6 DEF AnswerLost, At, Calls, CreateCalls, DeleteCalls
  <2>3. CASE row' = row
    BY <2>1, <2>2, <2>3, FailedKeeps, ClaimSameRows
  <2>4. CASE At(r, "insert") /\ InsertRow(r) /\ row' # row
    BY <2>1, <2>4, ClaimInsert DEF InsertRow
  <2>5. CASE At(r, "rollback") /\ HardDeleteRow(r)
    BY <2>1, <2>2, <2>5, FailedKeeps, ClaimRemove
  <2>6. CASE At(r, "softDelete") /\ SoftDeleteRow(r)
    BY <2>1, <2>2, <2>6, FailedKeeps, ClaimMark
  <2>. QED BY <1>6, <2>3, <2>4, <2>5, <2>6 DEF AnswerLost
<1>7. CASE UNCHANGED <<req, row>>
  BY <1>7
  DEF ClaimInv, Kinds, Claimed, Marked, HoldsName, DeletedBy, NameOf
<1>. QED
  BY <1>1, <1>2, <1>3, <1>4, <1>5, <1>6, <1>7
  DEF Next, Handler, Trouble, Outside, Disconnect, KubectlCreate, KubectlDelete,
      TornDown, vars

(* An acknowledged tenant stays on record as its creator's until a delete of
   its name, for any number of requests, callers and faults. *)
THEOREM AcknowledgedStays == Spec => []CreatedStays
<1>1. Init => TypeOK /\ ClaimInv
  BY InitType, ClaimInit
<1>2. TypeOK /\ ClaimInv /\ [Next]_vars => (TypeOK /\ ClaimInv)'
  BY NextType, ClaimNext
<1>3. TypeOK /\ ClaimInv => CreatedStays
  BY DEF TypeOK, ClaimInv, Claimed, Marked, HoldsName, CreatedStays, NameOf
<1>. QED BY <1>1, <1>2, <1>3, PTL DEF Spec

(* The rollback, which deletes by name, removes only the row its own request
   inserted, for any number of requests, callers and faults. *)
THEOREM RollbackRemovesOwnRow == Spec => RollbackIsOwn
<1>1. Init => TypeOK /\ ClaimInv
  BY InitType, ClaimInit
<1>2. TypeOK /\ ClaimInv /\ [Next]_vars => (TypeOK /\ ClaimInv)'
  BY NextType, ClaimNext
<1>3. TypeOK /\ ClaimInv /\ [Next]_vars =>
        [\A n \in Names :
           row[n] # NoRow /\ row'[n] = NoRow =>
             /\ row[n].by \in Reqs
             /\ At(row[n].by, "rollback") /\ NameOf(row[n].by) = n]_vars
  BY RemovalIsOwn
<1>. QED BY <1>1, <1>2, <1>3, PTL DEF Spec, RollbackIsOwn

-----------------------------------------------------------------------------
(* Rows and CRs *)

\* A request whose handler is between the two stores, or did not end well.
Pending(r) ==
  \/ req[r].pc \in {"createCR", "rollback", "softDelete", "dead"}
  \/ req[r].pc = "done" /\ req[r].reply = "500"

\* The live CR of the name is the one its row was made with.
OwnCR(n) == crs[n] = [life |-> "live", by |-> row[n].by]

\* A live row has the CR its own create made, or a request on its name left the
\* two stores apart or is about to bring them together.
Backed ==
  \A n \in Names \ outside :
    row[n].state = "live" => OwnCR(n) \/ \E r \in Reqs : NameOf(r) = n /\ Pending(r)

\* What a step of r on its name has to do.
LEMMA BackedByStep ==
  ASSUME TypeOK, Backed, NEW r \in Reqs, Moves(r), UNCHANGED outside,
         \A n \in Names \ {NameOf(r)} : row'[n] = row[n] /\ crs'[n] = crs[n],
         \/ Pending(r)'
         \/ row'[NameOf(r)].state # "live"
         \/ OwnCR(NameOf(r))'
         \/ ~Pending(r) /\ row' = row /\ crs' = crs
  PROVE  Backed'
<1>1. /\ \A q \in Reqs \ {r} : req'[q] = req[q]
      /\ \A q \in Reqs : req'[q].name = req[q].name
  BY MovesType DEF TypeOK, ReqType, PCs
<1>2. \A q \in Reqs \ {r} : Pending(q)' = Pending(q)
  BY <1>1 DEF Pending
<1>3. \A q \in Reqs : NameOf(q)' = NameOf(q)
  BY <1>1 DEF NameOf
<1>. SUFFICES ASSUME NEW n \in Names, n \notin outside, row'[n].state = "live"
              PROVE  OwnCR(n)' \/ \E q \in Reqs : NameOf(q)' = n /\ Pending(q)'
  BY DEF Backed
<1>4. CASE n = NameOf(r)
  <2>1. CASE ~Pending(r) /\ row' = row /\ crs' = crs
    <3>1. OwnCR(n) \/ \E q \in Reqs : NameOf(q) = n /\ Pending(q)
      BY <2>1 DEF Backed
    <3>2. OwnCR(n)' = OwnCR(n)
      BY <2>1 DEF OwnCR
    <3>. QED BY <1>2, <1>3, <2>1, <3>1, <3>2
  <2>2. CASE Pending(r)'
    BY <1>3, <1>4, <2>2
  <2>3. CASE OwnCR(NameOf(r))'
    BY <1>3, <1>4, <2>3
  <2>. QED BY <1>4, <2>1, <2>2, <2>3
<1>5. CASE n # NameOf(r)
  <2>1. row'[n] = row[n] /\ crs'[n] = crs[n]
    BY <1>5
  <2>2. OwnCR(n)' = OwnCR(n)
    BY <2>1 DEF OwnCR
  <2>3. OwnCR(n) \/ \E q \in Reqs : NameOf(q) = n /\ Pending(q)
    BY <2>1 DEF Backed
  <2>. QED BY <1>2, <1>3, <1>5, <2>2, <2>3
<1>. QED BY <1>4, <1>5

\* Each call reaches the name of its request only.
LEMMA OwnNameOnly ==
  ASSUME TypeOK, NEW r \in Reqs,
         InsertRow(r) \/ SoftDeleteRow(r) \/ HardDeleteRow(r) \/ row' = row,
         PutCR(r) \/ DropCR(NameOf(r)) \/ crs' = crs
  PROVE  \A n \in Names \ {NameOf(r)} : row'[n] = row[n] /\ crs'[n] = crs[n]
<1>1. row \in [Names -> Rows] /\ crs \in [Names -> CRs]
  BY DEF TypeOK
<1>. QED BY <1>1 DEF InsertRow, SoftDeleteRow, HardDeleteRow, PutCR, DropCR

\* An error leaves the handler pending, unless only the audit log was left.
LEMMA FailedPends ==
  ASSUME TypeOK, ClaimInv, NEW r \in Reqs, req[r].pc \in Calls, Failed(r)
  PROVE  \/ Pending(r)'
         \/ (At(r, "auditCreate") \/ At(r, "auditDelete")) /\ ~Pending(r)
<1>1. req \in [Reqs -> ReqType]
  BY DEF TypeOK, ReqType, PCs
<1>. QED BY <1>1 DEF Failed, At, Goto, Answer, Pending, ReqType

\* Every step keeps rows backed by their CR.
LEMMA BackedNext ==
  ASSUME TypeOK, ClaimInv, Backed, [Next]_vars
  PROVE  Backed'
<1>0. req \in [Reqs -> ReqType] /\ row \in [Names -> Rows] /\ crs \in [Names -> CRs]
  BY DEF TypeOK, ReqType, PCs
<1>1. ASSUME NEW r \in Reqs, Serve(r) \/ Authorize(r) \/ Audit(r) PROVE Backed'
  <2>1. Moves(r)
    BY <1>1, HandlerMoves DEF Handler
  <2>2. UNCHANGED <<row, crs, outside>>
    BY <1>1 DEF Serve, Authorize, Audit
  <2>3. ~Pending(r)
    BY <1>1 DEF Serve, Authorize, Audit, At, Pending
  <2>. QED BY <2>1, <2>2, <2>3, BackedByStep
<1>2. ASSUME NEW r \in Reqs, CreateTenant(r) PROVE Backed'
  <2>1. Moves(r) /\ UNCHANGED <<crs, outside>> /\ InsertRow(r) /\ NameOf(r) \in Names
    BY <1>0, <1>2, HandlerMoves DEF Handler, CreateTenant, NameOf, ReqType
  <2>2. \A n \in Names \ {NameOf(r)} : row'[n] = row[n] /\ crs'[n] = crs[n]
    BY <2>1, OwnNameOnly
  <2>3. CASE row'[NameOf(r)] # row[NameOf(r)]
    <3>1. Pending(r)'
      BY <1>0, <1>2, <2>3 DEF CreateTenant, Goto, Pending, ReqType
    <3>. QED BY <2>1, <2>2, <3>1, BackedByStep
  <2>4. CASE row'[NameOf(r)] = row[NameOf(r)]
    <3>1. row' = row
      BY <1>0, <2>1, <2>4 DEF InsertRow
    <3>2. ~Pending(r)
      BY <1>2 DEF CreateTenant, At, Pending
    <3>. QED BY <2>1, <2>2, <3>1, <3>2, BackedByStep
  <2>. QED BY <2>3, <2>4
<1>3. ASSUME NEW r \in Reqs, CreateTenantCR(r) PROVE Backed'
  <2>1. /\ Moves(r) /\ UNCHANGED <<row, outside>> /\ PutCR(r) /\ NameOf(r) \in Names
        /\ At(r, "createCR")
    BY <1>0, <1>3, HandlerMoves DEF Handler, CreateTenantCR, NameOf, ReqType
  <2>2. \A n \in Names \ {NameOf(r)} : row'[n] = row[n] /\ crs'[n] = crs[n]
    BY <2>1, OwnNameOnly
  <2>3. CASE crs[NameOf(r)] = NoCR
    <3>1. row[NameOf(r)].by = r
      BY <2>1 DEF ClaimInv, Claimed, HoldsName, At
    <3>2. crs'[NameOf(r)] = [life |-> "live", by |-> r]
      BY <1>0, <2>1, <2>3 DEF PutCR
    <3>3. NameOf(r)' = NameOf(r)
      BY <2>1, <1>0, MovesType DEF NameOf
    <3>4. OwnCR(NameOf(r))'
      BY <2>1, <3>1, <3>2, <3>3 DEF OwnCR
    <3>. QED BY <2>1, <2>2, <3>4, BackedByStep
  <2>4. CASE crs[NameOf(r)] # NoCR
    <3>1. Pending(r)'
      BY <1>0, <1>3, <2>4 DEF CreateTenantCR, Goto, Pending, ReqType
    <3>. QED BY <2>1, <2>2, <3>1, BackedByStep
  <2>. QED BY <2>3, <2>4
<1>4. ASSUME NEW r \in Reqs, Rollback(r) PROVE Backed'
  <2>1. Moves(r) /\ UNCHANGED <<crs, outside>> /\ HardDeleteRow(r)
    BY <1>4, HandlerMoves DEF Handler, Rollback
  <2>2. Pending(r)'
    BY <1>0, <1>4 DEF Rollback, Answer, Pending, ReqType
  <2>. QED BY <2>1, <2>2, OwnNameOnly, BackedByStep
<1>5. ASSUME NEW r \in Reqs, DeleteTenantCR(r) PROVE Backed'
  <2>1. Moves(r) /\ UNCHANGED <<row, outside>> /\ DropCR(NameOf(r))
    BY <1>5, HandlerMoves DEF Handler, DeleteTenantCR
  <2>2. Pending(r)'
    BY <1>0, <1>5 DEF DeleteTenantCR, Goto, Pending, ReqType
  <2>. QED BY <2>1, <2>2, OwnNameOnly, BackedByStep
<1>6. ASSUME NEW r \in Reqs, SoftDeleteTenant(r) PROVE Backed'
  <2>1. /\ Moves(r) /\ UNCHANGED <<crs, outside>> /\ SoftDeleteRow(r) /\ NameOf(r) \in Names
    BY <1>0, <1>6, HandlerMoves DEF Handler, SoftDeleteTenant, NameOf, ReqType
  <2>2. row'[NameOf(r)].state # "live"
    BY <1>0, <2>1 DEF SoftDeleteRow, Rows, NoRow
  <2>. QED BY <2>1, <2>2, OwnNameOnly, BackedByStep
<1>7. ASSUME NEW r \in Reqs, req[r].pc \in Calls, Failed(r), Moves(r), UNCHANGED outside,
             InsertRow(r) \/ SoftDeleteRow(r) \/ HardDeleteRow(r) \/ row' = row,
             PutCR(r) \/ DropCR(NameOf(r)) \/ crs' = crs,
             At(r, "auditCreate") \/ At(r, "auditDelete") => UNCHANGED <<row, crs>>
      PROVE  Backed'
  BY <1>7, FailedPends, OwnNameOnly, BackedByStep
<1>8. ASSUME NEW r \in Reqs, CallCanceled(r) \/ CallFails(r) PROVE Backed'
  <2>1. Moves(r)
    BY <1>8, HandlerMoves
  <2>. QED BY <1>7, <1>8, <2>1 DEF CallCanceled, CallFails
<1>9. ASSUME NEW r \in Reqs, AnswerLost(r) PROVE Backed'
  <2>1. Moves(r)
    BY <1>9, HandlerMoves
  <2>2. req[r].pc \in Calls
    BY <1>9 DEF AnswerLost, At, Calls, CreateCalls, DeleteCalls
  <2>3. /\ InsertRow(r) \/ SoftDeleteRow(r) \/ HardDeleteRow(r) \/ row' = row
        /\ PutCR(r) \/ DropCR(NameOf(r)) \/ crs' = crs
        /\ At(r, "auditCreate") \/ At(r, "auditDelete") => UNCHANGED <<row, crs>>
    BY <1>9 DEF AnswerLost, At
  <2>. QED BY <1>7, <1>9, <2>1, <2>2, <2>3 DEF AnswerLost
<1>10. ASSUME NEW r \in Reqs, Crash(r) PROVE Backed'
  <2>1. Moves(r) /\ UNCHANGED <<row, crs, outside>>
    BY <1>10, HandlerMoves DEF Crash
  <2>2. Pending(r)'
    BY <1>0, <1>10 DEF Crash, Goto, Pending, ReqType
  <2>. QED BY <2>1, <2>2, BackedByStep
<1>11. ASSUME NEW m \in Names, Outside(m) PROVE Backed'
  <2>1. UNCHANGED <<req, row>> /\ outside \subseteq outside'
    BY <1>11 DEF Outside, KubectlCreate, KubectlDelete, TornDown
  <2>. SUFFICES ASSUME NEW n \in Names, n \notin outside', row[n].state = "live"
                PROVE  OwnCR(n)' \/ \E q \in Reqs : NameOf(q)' = n /\ Pending(q)'
    BY <2>1 DEF Backed
  <2>2. OwnCR(n) \/ \E q \in Reqs : NameOf(q) = n /\ Pending(q)
    BY <2>1 DEF Backed
  <2>3. ASSUME NEW q \in Reqs PROVE NameOf(q)' = NameOf(q) /\ Pending(q)' = Pending(q)
    BY <2>1 DEF NameOf, Pending
  <2>4. CASE OwnCR(n)
    <3>1. crs[n].life = "live" /\ crs[n] # NoCR
      BY <2>4 DEF OwnCR, NoCR
    <3>2. crs'[n] = crs[n]
      BY <1>0, <1>11, <3>1 DEF Outside, KubectlCreate, KubectlDelete, TornDown, DropCR
    <3>. QED BY <2>1, <2>4, <3>2 DEF OwnCR
  <2>. QED BY <2>2, <2>3, <2>4
<1>12. CASE UNCHANGED <<req, row, crs, outside>>
  BY <1>12 DEF Backed, OwnCR, NameOf, Pending
<1>. QED
  BY <1>1, <1>2, <1>3, <1>4, <1>5, <1>6, <1>8, <1>9, <1>10, <1>11, <1>12
  DEF Next, Handler, Trouble, Disconnect, vars

(* Once the requests on a name have ended well, its live row has the CR that its
   own create made, for any number of requests, callers and faults: no order of
   creates, deletes and rollbacks leaves the two stores apart (handleCreateTenant,
   handleDeleteTenant). *)
THEOREM RowsHaveTheirCR == Spec => []RowHasCR
<1>1. Init => TypeOK /\ ClaimInv /\ Backed
  <2>1. Init => Backed
    BY DEF Init, Backed, NoRow
  <2>. QED BY <2>1, InitType, ClaimInit
<1>2. TypeOK /\ ClaimInv /\ Backed /\ [Next]_vars => (TypeOK /\ ClaimInv /\ Backed)'
  BY NextType, ClaimNext, BackedNext
<1>3. Backed => RowHasCR
  <2>. SUFFICES ASSUME Backed, NEW n \in Names, CleanlyAnswered(n), n \notin outside,
                       row[n].state = "live"
                PROVE  OwnCR(n)
    BY DEF RowHasCR, OwnCR
  <2>1. ASSUME NEW r \in Reqs, NameOf(r) = n PROVE ~Pending(r)
    BY <2>1 DEF CleanlyAnswered, Pending, At
  <2>. QED BY <2>1 DEF Backed
<1>. QED BY <1>1, <1>2, <1>3, PTL DEF Spec

-----------------------------------------------------------------------------
(* The contract with the operator *)

(* What is done to a CR is a step of the contract. *)
LEMMA CRSteps ==
  ASSUME TypeOK, NEW n \in Names,
         \/ crs' = crs
         \/ DropCR(n)
         \/ /\ crs[n] = NoCR
            /\ \E m \in Reqs \cup {Kubectl} :
                 crs' = [crs EXCEPT ![n] = [life |-> "live", by |-> m]]
         \/ crs[n].life = "deleting" /\ crs' = [crs EXCEPT ![n] = NoCR]
  PROVE  [Lifecycle!Next]_(Lifecycle!vars)
<1>. crs \in [Names -> CRs]
  BY DEF TypeOK
<1>1. CASE crs' = crs
  BY <1>1 DEF Lifecycle!vars
<1>2. CASE DropCR(n) /\ crs' # crs
  <2>1. crs[n].life = "live" /\ crs' = [crs EXCEPT ![n].life = "deleting"]
    BY <1>2 DEF DropCR
  <2>2. \A m \in Names : crs'[m].life = IF m = n THEN "deleting" ELSE crs[m].life
    <3>1. crs[n] \in [life : {"live", "deleting"}, by : Reqs \cup {Kubectl}]
      BY <2>1 DEF CRs, NoCR
    <3>. QED BY <2>1, <3>1
  <2>3. Lifecycle!Delete(n)
    BY <2>1, <2>2 DEF Lifecycle!Delete
  <2>. QED BY <2>3 DEF Lifecycle!Next
<1>3. CASE /\ crs[n] = NoCR
           /\ \E m \in Reqs \cup {Kubectl} :
                crs' = [crs EXCEPT ![n] = [life |-> "live", by |-> m]]
  <2>1. crs[n].life = "absent"
    BY <1>3 DEF NoCR
  <2>2. \A m \in Names : crs'[m].life = IF m = n THEN "live" ELSE crs[m].life
    BY <1>3
  <2>3. Lifecycle!Create(n)
    BY <2>1, <2>2 DEF Lifecycle!Create
  <2>. QED BY <2>3 DEF Lifecycle!Next
<1>4. CASE crs[n].life = "deleting" /\ crs' = [crs EXCEPT ![n] = NoCR]
  <2>1. \A m \in Names : crs'[m].life = IF m = n THEN "absent" ELSE crs[m].life
    BY <1>4 DEF NoCR
  <2>2. Lifecycle!Finish(n)
    BY <1>4, <2>1 DEF Lifecycle!Finish
  <2>. QED BY <2>2 DEF Lifecycle!Next
<1>. QED BY <1>1, <1>2, <1>3, <1>4

\* Every step maps to a step of TenantLifecycle or to none.
LEMMA CRsNext ==
  ASSUME TypeOK, [Next]_vars
  PROVE  [Lifecycle!Next]_(Lifecycle!vars)
<1>1. ASSUME NEW r \in Reqs, PutCR(r) \/ DropCR(NameOf(r))
      PROVE  [Lifecycle!Next]_(Lifecycle!vars)
  <2>1. NameOf(r) \in Names
    BY DEF TypeOK, NameOf
  <2>. QED BY <1>1, <2>1, CRSteps DEF PutCR
<1>2. ASSUME NEW n \in Names, Outside(n) PROVE [Lifecycle!Next]_(Lifecycle!vars)
  BY <1>2, CRSteps DEF Outside, KubectlCreate, KubectlDelete, TornDown
<1>3. CASE crs' = crs
  BY <1>3 DEF Lifecycle!vars
<1>4. \/ \E r \in Reqs : PutCR(r) \/ DropCR(NameOf(r))
      \/ \E n \in Names : Outside(n)
      \/ crs' = crs
  BY DEF Next, Serve, Handler, Trouble, CreateTenant, CreateTenantCR, Rollback,
         Authorize, DeleteTenantCR, SoftDeleteTenant, Audit, Disconnect,
         CallCanceled, CallFails, AnswerLost, Crash, vars
<1>. QED BY <1>1, <1>2, <1>3, <1>4

(* The API and the users of kubectl use Tenant CRs as the operator's contract
   has it, whatever calls fail or lose their answers. *)
THEOREM ApiUsesLifecycle == Spec => UsesLifecycle
<1>1. Init => TypeOK /\ Lifecycle!Init
  <2>1. Init => Lifecycle!Init
    BY DEF Init, Lifecycle!Init, NoCR
  <2>. QED BY <2>1, InitType
<1>2. TypeOK /\ [Next]_vars => TypeOK' /\ [Lifecycle!Next]_(Lifecycle!vars)
  BY NextType, CRsNext
<1>. QED BY <1>1, <1>2, PTL DEF Spec, UsesLifecycle, Lifecycle!Spec
=============================================================================
