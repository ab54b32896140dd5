---------------------------- MODULE TenantPages -----------------------------
(* The two tenant pages of the portal, in one browser tab: the list with    *)
(* its create dialog (hooks/useTenants.ts, TenantList.tsx,                   *)
(* CreateTenantDialog.tsx) and the page of one tenant with its delete       *)
(* dialog (hooks/useTenant.ts, TenantDetail.tsx), over an API whose answers *)
(* may overtake each other.                                                 *)
(*                                                                          *)
(* "Pending" stands for the phases isTransitional accepts, "Ready" for the  *)
(* others.  The list is a set of rows: two equal rows count as one.         *)
(* Deleted names stay taken, as in TenantAPI.                               *)
EXTENDS Naturals, Sequences

CONSTANTS
  Names,       \* tenant names
  NoPage,      \* the router is not under way
  MaxCalls,    \* bound: requests in flight at once
  MaxActs,     \* bound: what users of the portal and others do
  MaxFaults    \* bound: requests that fail

VARIABLES
  server,    \* what the API knows of a name
  calls,     \* the requests in flight
  page,      \* the page shown
  heading,   \* the page the router is about to show
  rows,      \* the list as last rendered
  updates,   \* setTenants calls React has not run yet
  pending,   \* pendingCreates of the list shown
  acts,
  faults

vars == <<server, calls, page, heading, rows, updates, pending, acts, faults>>

Slots      == 1..MaxCalls
ServerRow  == {"absent", "Pending", "Ready", "deleted"}
Phases     == {"Pending", "Ready"}
Row        == [name : Names, phase : Phases, optimistic : BOOLEAN]
ListPage   == [kind |-> "list"]
Opened(n, how) ==
  [kind |-> "detail", name |-> n, how |-> how, shown |-> "none", gone |-> FALSE]
DetailPage == [kind : {"detail"}, name : Names, how : {"link", "created"},
               shown : Phases \cup {"none"}, gone : BOOLEAN]
Page       == {ListPage} \cup DetailPage
Update     == [do : {"refresh"}, fresh : SUBSET Row]
              \cup [do : {"add", "created", "rollback"}, name : Names]

ASSUME PagesAssumptions ==
  /\ MaxCalls \in Nat \ {0}
  /\ MaxActs \in Nat
  /\ MaxFaults \in Nat
  /\ NoPage \notin Page

OnList   == page.kind = "list"
OnDetail == page.kind = "detail"

\* A request: "mine" while the component that made it is mounted.
NoCall == [kind |-> "none"]
List         == [kind |-> "list", mine |-> TRUE, answer |-> "sent", fresh |-> {}]
Get(n)       == [kind |-> "get", name |-> n, mine |-> TRUE, answer |-> "sent", fresh |-> "absent"]
Ask(kind, n) == [kind |-> kind, name |-> n, mine |-> TRUE, answer |-> "sent"]
Load(p)      == IF p.kind = "list" THEN List ELSE Get(p.name)
Answers      == {"sent", "ok", "error"}
Call ==
  {NoCall}
  \cup [kind : {"list"}, mine : {TRUE}, answer : Answers, fresh : SUBSET Row]
  \cup [kind : {"get"}, name : Names, mine : {TRUE}, answer : Answers, fresh : ServerRow]
  \cup [kind : {"create", "delete"}, name : Names, mine : BOOLEAN, answer : Answers]

InFlight(c) == calls[c] # NoCall
Free(cs)    == {c \in Slots : cs[c] = NoCall}
FirstFree(cs) == CHOOSE c \in Free(cs) : \A d \in Free(cs) : c <= d

Send(call) ==
  /\ Free(calls) # {}
  /\ calls' = [calls EXCEPT ![FirstFree(calls)] = call]

-----------------------------------------------------------------------------
(* The list's state updates *)

\* Mutant: a refresh shows what the API answered and nothing else.
RefreshedBare(shown, fresh, creating) == fresh

\* What a refresh keeps: rows of creations in flight the answer does not have.
Refreshed(shown, fresh, creating) ==
  fresh \cup {r \in shown : /\ r.name \in creating
                            /\ \A f \in fresh : f.name # r.name}

OptimisticRow(n) == [name |-> n, phase |-> "Pending", optimistic |-> TRUE]
CreatedRow(n)    == [name |-> n, phase |-> "Pending", optimistic |-> FALSE]

Apply(shown, u, creating) ==
  CASE u.do = "refresh"  -> Refreshed(shown, u.fresh, creating)
    [] u.do = "add"      -> shown \cup {OptimisticRow(u.name)}
    [] u.do = "created"  -> {IF r.name = u.name THEN CreatedRow(u.name) ELSE r : r \in shown}
    [] u.do = "rollback" -> {r \in shown : r.name # u.name}

\* The updaters us, one after the other.
Applied(base, us, creating) ==
  LET shown[i \in 0..Len(us)] ==
        IF i = 0 THEN base ELSE Apply(shown[i - 1], us[i], creating)
  IN shown[Len(us)]

\* What the next render shows: updaters run then, and read pendingCreates then.
Rendered == Applied(rows, updates, pending)

SetTenants(u) == updates' = Append(updates, u)

Render ==
  /\ updates # <<>>
  /\ rows' = Rendered
  /\ updates' = <<>>
  /\ UNCHANGED <<server, calls, page, heading, pending, acts, faults>>

-----------------------------------------------------------------------------
(* Polling *)

\* Mutant: polls only when every row is transitional.
ShouldPollAll ==
  IF OnList THEN rows # {} /\ \A r \in rows : r.phase = "Pending"
  ELSE page.shown = "Pending" /\ ~page.gone

ShouldPoll ==
  IF OnList THEN \E r \in rows : r.phase = "Pending"
  ELSE page.shown = "Pending" /\ ~page.gone

\* The interval fires, whether or not the last request was answered.  Bound:
\* React renders what is due before it fires again, 5 s later.
Poll ==
  /\ ShouldPoll /\ updates = <<>>
  /\ Send(Load(page))
  /\ UNCHANGED <<server, page, heading, rows, updates, pending, acts, faults>>

-----------------------------------------------------------------------------
(* Answers *)

DeliverList(c) ==
  /\ calls[c].kind = "list" /\ calls[c].answer # "sent"
  /\ calls' = [calls EXCEPT ![c] = NoCall]
  /\ IF calls[c].answer = "error" THEN UNCHANGED updates
     ELSE SetTenants([do |-> "refresh", fresh |-> calls[c].fresh])
  /\ UNCHANGED <<server, page, heading, rows, pending, acts, faults>>

\* Mutant: a missing tenant is taken for a tenant.
DeliverGetAnything(c) ==
  /\ calls[c].kind = "get" /\ calls[c].answer # "sent"
  /\ calls' = [calls EXCEPT ![c] = NoCall]
  /\ page' = IF calls[c].answer = "error" THEN page
             ELSE [page EXCEPT !.shown = calls[c].fresh]
  /\ UNCHANGED <<server, heading, rows, updates, pending, acts, faults>>

\* 404 makes the page say that the tenant is gone, for as long as it is shown.
DeliverGet(c) ==
  /\ calls[c].kind = "get" /\ calls[c].answer # "sent"
  /\ calls' = [calls EXCEPT ![c] = NoCall]
  /\ page' = IF calls[c].answer = "error" THEN page
             ELSE IF calls[c].fresh \in Phases THEN [page EXCEPT !.shown = calls[c].fresh]
             ELSE [page EXCEPT !.gone = TRUE]
  /\ UNCHANGED <<server, heading, rows, updates, pending, acts, faults>>

\* Settle the optimistic row, and forget the creation.
Settled(c) ==
  IF calls[c].mine
  THEN /\ SetTenants([do   |-> IF calls[c].answer = "ok" THEN "created" ELSE "rollback",
                      name |-> calls[c].name])
       /\ pending' = pending \ {calls[c].name}
  ELSE UNCHANGED <<updates, pending>>

\* Mutant: the hook swallows the error, and the dialog goes on.
DeliverCreateSwallowed(c) ==
  /\ calls[c].kind = "create" /\ calls[c].answer # "sent"
  /\ calls' = [calls EXCEPT ![c] = NoCall]
  /\ Settled(c)
  /\ heading' = Opened(calls[c].name, "created")
  /\ UNCHANGED <<server, page, rows, acts, faults>>

\* The dialog opens the created tenant, also when its list is not shown any more.
DeliverCreate(c) ==
  /\ calls[c].kind = "create" /\ calls[c].answer # "sent"
  /\ calls' = [calls EXCEPT ![c] = NoCall]
  /\ Settled(c)
  /\ heading' = IF calls[c].answer = "ok" THEN Opened(calls[c].name, "created") ELSE heading
  /\ UNCHANGED <<server, page, rows, acts, faults>>

DeliverDelete(c) ==
  /\ calls[c].kind = "delete" /\ calls[c].answer # "sent"
  /\ calls' = [calls EXCEPT ![c] = NoCall]
  /\ heading' = IF calls[c].answer = "ok" THEN ListPage ELSE heading
  /\ UNCHANGED <<server, page, rows, updates, pending, acts, faults>>

Deliver(c) == DeliverList(c) \/ DeliverGet(c) \/ DeliverCreate(c) \/ DeliverDelete(c)

-----------------------------------------------------------------------------
(* Navigation *)

SamePage(p, q) == p.kind = q.kind /\ (p.kind = "detail" => p.name = q.name)

\* Unmounting drops what a GET answers; writes go on without their component.
Orphaned(c) ==
  IF calls[c].kind \in {"list", "get"} THEN NoCall
  ELSE IF InFlight(c) THEN [calls[c] EXCEPT !.mine = FALSE] ELSE NoCall

\* The page mounts with nothing and loads.  The page shown is not mounted again.
Arrive ==
  /\ heading # NoPage
  /\ heading' = NoPage
  /\ IF SamePage(heading, page) THEN UNCHANGED <<page, calls, rows, updates, pending>>
     ELSE LET left == [c \in Slots |-> Orphaned(c)]
          IN /\ Free(left) # {}
             /\ page' = heading
             /\ calls' = [left EXCEPT ![FirstFree(left)] = Load(heading)]
             /\ rows' = {} /\ updates' = <<>> /\ pending' = {}
  /\ UNCHANGED <<server, acts, faults>>

Act == acts < MaxActs /\ acts' = acts + 1

Follow(p) ==
  /\ Act
  /\ heading' = p
  /\ UNCHANGED <<server, calls, page, rows, updates, pending, faults>>

OpenTenant == OnList /\ \E r \in rows : Follow(Opened(r.name, "link"))
BackToList == OnDetail /\ Follow(ListPage)

-----------------------------------------------------------------------------
(* What the user submits *)

\* create: the dialog stays disabled until its request is answered.
Create(n) ==
  /\ OnList /\ pending = {}
  /\ Act
  /\ Send(Ask("create", n))
  /\ pending' = {n}
  /\ SetTenants([do |-> "add", name |-> n])
  /\ UNCHANGED <<server, page, heading, rows, faults>>

Delete ==
  /\ OnDetail /\ page.shown # "none" /\ ~page.gone
  /\ \A c \in Slots : ~(calls[c].kind = "delete" /\ calls[c].mine)
  /\ Act
  /\ Send(Ask("delete", page.name))
  /\ UNCHANGED <<server, page, heading, rows, updates, pending, faults>>

-----------------------------------------------------------------------------
(* The API, other users and the operator *)

Answer(c, a) == calls' = [calls EXCEPT ![c].answer = a]
Found(c, f)  == calls' = [calls EXCEPT ![c].answer = "ok", ![c].fresh = f]

Listed == {[name |-> n, phase |-> server[n], optimistic |-> FALSE] :
             n \in {m \in Names : server[m] \in Phases}}

Serve(c) ==
  /\ InFlight(c) /\ calls[c].answer = "sent"
  /\ CASE calls[c].kind = "list" -> Found(c, Listed) /\ UNCHANGED server
       [] calls[c].kind = "get"  -> Found(c, server[calls[c].name]) /\ UNCHANGED server
       [] calls[c].kind = "create" ->
            IF server[calls[c].name] = "absent"
            THEN Answer(c, "ok") /\ server' = [server EXCEPT ![calls[c].name] = "Pending"]
            ELSE Answer(c, "error") /\ UNCHANGED server
       [] calls[c].kind = "delete" ->
            IF server[calls[c].name] \in Phases
            THEN Answer(c, "ok") /\ server' = [server EXCEPT ![calls[c].name] = "deleted"]
            ELSE Answer(c, "error") /\ UNCHANGED server
  /\ UNCHANGED <<page, heading, rows, updates, pending, acts, faults>>

\* A request fails, or its answer is lost after it had its effect.
Fail(c) ==
  /\ InFlight(c) /\ calls[c].answer # "error"
  /\ faults < MaxFaults /\ faults' = faults + 1
  /\ Answer(c, "error")
  /\ UNCHANGED <<server, page, heading, rows, updates, pending, acts>>

\* The operator finishes a tenant.
Provision(n) ==
  /\ server[n] = "Pending"
  /\ server' = [server EXCEPT ![n] = "Ready"]
  /\ UNCHANGED <<calls, page, heading, rows, updates, pending, acts, faults>>

\* Somebody else creates, changes or deletes a tenant.
Elsewhere(n) ==
  /\ Act
  /\ \/ server[n] \in {"absent", "Ready"} /\ server' = [server EXCEPT ![n] = "Pending"]
     \/ server[n] \in Phases /\ server' = [server EXCEPT ![n] = "deleted"]
  /\ UNCHANGED <<calls, page, heading, rows, updates, pending, faults>>

-----------------------------------------------------------------------------
Init ==
  /\ server \in [Names -> {"absent", "Pending", "Ready"}]
  /\ page = ListPage /\ heading = NoPage
  /\ calls = [c \in Slots |-> IF c = 1 THEN List ELSE NoCall]
  /\ rows = {} /\ updates = <<>> /\ pending = {}
  /\ acts = 0 /\ faults = 0

Next ==
  \/ Render \/ Poll \/ Arrive
  \/ OpenTenant \/ BackToList \/ Delete
  \/ \E n \in Names : Create(n) \/ Provision(n) \/ Elsewhere(n)
  \/ \E c \in Slots : Serve(c) \/ Deliver(c) \/ Fail(c)

Spec == Init /\ [][Next]_vars

\* The browser renders, keeps its timers and follows its router; every request
\* is answered; the operator finishes what it works on.
Fairness ==
  /\ WF_vars(Render) /\ WF_vars(Poll) /\ WF_vars(Arrive)
  /\ \A n \in Names : WF_vars(Provision(n))
  /\ \A c \in Slots : WF_vars(Serve(c)) /\ WF_vars(Deliver(c))

FairSpec == Spec /\ Fairness

-----------------------------------------------------------------------------
\* Every variable has its type; the page of a tenant shows a phase, not a 404.
TypeOK ==
  /\ server \in [Names -> ServerRow]
  /\ calls \in [Slots -> Call]
  /\ page \in Page
  /\ heading \in Page \cup {NoPage}
  /\ rows \in SUBSET Row
  /\ updates \in Seq(Update)
  /\ pending \in SUBSET Names
  /\ acts \in 0..MaxActs /\ faults \in 0..MaxFaults

\* A creation in flight has its row on the list whatever the polls answer, and
\* an optimistic row never outlives its creation: refresh, create and its
\* rollback agree although React runs their updaters later, in any batches.
OptimisticRows ==
  /\ \A n \in pending : \E r \in Rendered : r.name = n
  /\ \A r \in Rendered : r.optimistic => r.name \in pending

\* The page opened by a successful creation does not say that the tenant is
\* gone unless it was deleted: the dialog waits for the answer before it goes there.
CreatedIsNotGone ==
  OnDetail /\ page.how = "created" /\ page.gone => server[page.name] = "deleted"

InTransit(n) ==
  IF OnList THEN \E r \in rows : r.name = n /\ r.phase = "Pending"
  ELSE page.name = n /\ page.shown = "Pending" /\ ~page.gone

\* No page shows a tenant in a transitional phase for ever: while one is shown
\* polling goes on, though answers fail, overtake each other or are stale.
PollingSettles == \A n \in Names : InTransit(n) ~> ~InTransit(n)
=============================================================================
