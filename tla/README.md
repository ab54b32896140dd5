# Verification of kubespaces

TLA+ models of the kubespaces control plane, TLC runs that check them on small
instances, and theorems about them that TLAPS checks for every value of their
constants. Paths are relative to the repository.

## 1. Inventory

kubespaces turns `Tenant` custom resources (CRs) into virtual clusters. Users
write CRs through the API (portal, CLI) or directly (kubectl, GitOps); the
operator alone provisions. The components share no memory: they meet in the
Kubernetes API server (CRs, Secrets), in PostgreSQL (API only) and over HTTP.

| Component | State it keeps | Operations | Hard behaviours | What makes it correct |
|---|---|---|---|---|
| **Operator: reconcile loop** `operator/internal/controller/tenant_controller.go` | none of its own; the CR's finalizer, phase, Ready condition, `observedGeneration`, kubeconfig reference; the work queue and informer caches of controller-runtime | `Reconcile`, `reconcileDelete`, `fail`, `markPhase`, `updateStatus` | reads from caches that lag; a pass is a dozen separate calls with users, crashes and conflicts in between; passes that end without asking for another | nothing survives the finalizer; no lost wakeup; Ready means this spec; no teardown of a live tenant; deletion completes |
| **Operator: networking** `networking.go` | TLSRoutes, ReferenceGrants | ensure and delete | features may be switched between starts | as above |
| **Operator: tenant apps** `networking_apps.go` | Certificates, their Secrets, listeners of one Gateway shared by all tenants | ensure and delete | read-modify-write of a shared list from a cached copy | one tenant's pass never drops another's listener; none is left behind |
| **Operator: Helm provisioner** `operator/internal/provisioner/helm.go` | Helm release history (Secrets in the tenant namespace) | `Install`, `Uninstall` | crash between the pending revision and its outcome | a half-finished provision recovers |
| **API: tenants** `api/internal/server/handlers_tenants.go`, `api/internal/store/store.go`, `api/internal/k8s` | rows of `tenants` (soft delete), audit log | create, delete, list, get, kubeconfig | two stores written one after the other; rollback; requests race on one name; canceled contexts | an acknowledged tenant is on record; rows and CRs agree |
| **API: organizations, projects** `api/internal/store/tenancy.go`, `handlers_orgs.go`, `handlers_projects.go`, `rbac.go` | users, organizations, projects, memberships, roles, default organization | CRUD, roles, set default, quotas | check-then-act between queries of a read-committed transaction; roles revoked between check and write; cascades | one default per user; every write by somebody entitled to it; nothing refers to what is deleted; quotas change only on request |
| **API: invitations** `api/internal/store/invitations.go`, `handlers_invitations.go` | invitations: pending, accepted, declined, and when they expire | create, accept, decline, list | acceptance racing another acceptance, a decline, expiry and the deletion of the organization | a member through an invitation at most once, and only while it is open |
| **API: migrations** `api/internal/store/migrate.go` | applied versions | run at start | replicas starting together, crash between versions | each migration applied once, in order |
| **API: authentication** `api/internal/auth`, `middleware_user.go` | projection of the user row | verify token, upsert user | the flag set by an administrator against the claims of the next token | |
| **CLI: session** `cli/internal/auth`, `cli/internal/cli/login.go` | the file with the tokens, one per user, without a lock | device flow, refresh, login, logout | concurrent commands, rotation of refresh tokens, a file that is truncated and then written, polling with `slow_down` and expiry | commands at the same time do not cost the session; no token is handed out after its end; polls keep the interval |
| **CLI: kubeconfig** `cli/internal/kubeconfig/merge.go` | the kubeconfig file | merge | concurrent merges | other entries kept |
| **Frontend: tenant pages and hooks** `frontend/src/hooks/useTenants.ts`, `useTenant.ts`, `components/tenants`, `components/detail` | rows with optimistic ones, creations in flight, updates React has not run yet | poll, create, delete, navigate | answers out of order, polls racing optimistic updates, answers after the page is left | a creation in flight stays on the list; what is in transition is polled until it settles |
| **Frontend: session** `frontend/src/auth.ts`, `lib/keycloak.ts`, `app/api/v1/[...path]/route.ts` | the session cookie | sign in, refresh, proxy | two requests refreshing at once | - |
| Frontend pages, CLI commands and output, Helm chart, workflows | - | - | - | not modelled: rendering, formatting, packaging |

How they interact: the API inserts a row, then creates the CR; it deletes the CR,
then marks the row. The operator sees CRs through its informer, keeps its
finalizer on them, and reports phase and kubeconfig Secret in their status, which
the API reads on each request. The portal polls the API while a tenant is in
transition. The CLI and the portal get their tokens from Keycloak, the API only
verifies them. The contract between the two sides, the life of a
CR and when it may go, is a module of its own, `TenantLifecycle`.

`PROJECT.json` lists every component with its state of modelling and, under
"hazards", the places of this code that are hard to test, with the properties
that cover them.

## 2. Modules

| Module | What it models |
|---|---|
| `TenantLifecycle` | The contract: resources are held only for a CR that is there; a CR goes only when nothing is held. Abstract specification of the operator, and of what the API expects. |
| `TenantOperator` | The operator with the cluster around it. |
| `TenantAPI` | The handlers that create and delete tenants, with both stores. |
| `Tenancy` | Users, organizations, projects and memberships: every writing statement of the store. |
| `Invitations` | Invitations over the tables of `Tenancy`. |
| `TenancyAPI` | The handlers over both: what each calls, in which order, and who may. |
| `InvitationLife` | What an invitation promises. Abstract specification of `Invitations`. |
| `CliSession` | Login, refresh and logout of concurrent commands, with Keycloak. |
| `TenantPages` | The list and the page of a tenant in the portal, over the API. |
| `MCTenantOperator`, `MCTenantAPI`, `MCTenancy`, `MCCliSession`, `MCTenantPages` | Definitions of constants, initial states and symmetry for TLC. |
| `TenantOperatorProofs` | Types of `TenantOperator`. |
| `TenantOperatorWakeProofs` | No wakeup is lost. |
| `TenantOperatorGuardProofs` | Resources never outlive the finalizer; `TenantOperator` implements `TenantLifecycle`. |
| `TenantOperatorReadyProofs` | Ready means this spec; teardown, the phase Deleting and the shared Gateway. |
| `TenantAPIProofs` | Types of `TenantAPI`; acknowledged tenants stay; rollback is own; rows have their CR; CRs are used as `TenantLifecycle` allows. |
| `TenancyProofs` | Every property of `TenancyAPI`, the refinement of `InvitationLife` included. |
| `CliSessionProofs` | Every property of `CliSession`. |
| `TenantPagesProofs` | The safety properties of `TenantPages`. |

### TenantOperator

One action is one call of a pass on the API server or on Helm, named after the
function that makes it (`EnsureNamespace`, `EnsureAppsListener`, `Install`,
`DeleteCertificate`, ...). `worker` is the pass under way: its call, the Tenant,
the copy of it that was read (`obj`), and whether that copy is still the stored
version (`fresh`). controller-runtime runs one worker by default and `main.go`
does not change that, so there is one.

- `cr` are the stored CRs, `seen` the informer's copies, `current` whether a copy
  is up to date. `resourceVersion` is abstracted to that bit: a write succeeds
  when the copy it is made from is the stored version, and conflicts otherwise;
  a write that changes nothing makes no event (`StoreCR`).
- A spec is a version number, never reused for a name, so it tells incarnations
  of a name apart. `Quota` gives the resources a version asks for, `BadSpecs` the
  versions no Helm call accepts.
- The quota, the LimitRange, the ReferenceGrant and the TLSRoute are written through
  controller-runtime's `CreateOrUpdate`, whose `Get` reads an informer's copy and
  which writes nothing when that copy already looks as wanted. `lag` are the kinds
  whose informer lags, `cached` and `routeSeen` what they still show.
  `EnsureObject` and `EnsureTLSRoute` keep, write or are refused by that copy;
  a `Delete` goes to the API server, and Certificates are unstructured, which the client
  reads there too. `misled` is history: the objects a pass kept for what
  an old copy said of them.
- `EnsureCalls` are the calls whose errors go through `fail()`, which writes the
  Failed phase and returns the error; errors of the teardown are returned as they
  are. Both put the Tenant back in the queue.
- Helm's `Install` is two actions: the pending revision (`Install`) and its
  outcome (`InstallRun`). A crash in between leaves the revision pending, and
  Helm refuses to upgrade on it (`HelmAccepts`).
- The shared Gateway has its own cached copy (`gwSeen`, `gwCurrent`) and
  nobody is enqueued by its events, as `SetupWithManager` does not watch it.
- Around it: users who create, edit and delete CRs; watch events; namespaces that
  terminate and take release and workload with them; the vCluster that comes up,
  exports its kubeconfig, and may go down; cert-manager; and faults: crash and
  restart (with the settings of `Configs`), failing calls, resyncs, namespaces and
  Gateways deleted by hand, and writes of the Gateway's controller.

### TenantAPI

One action is one call of a handler. `req` says for each request what it asks,
at which call its handler is, and what it answered. `row` is the table (the
`UNIQUE` name covers soft-deleted rows, so a name has one row), `crs` the CRs.
A row and a CR carry the request that made them, which stands for the owner and
tells two rows of one name apart. `gone` are requests whose context is canceled:
`CallCanceled` makes every later call of them fail, the rollback's too.
`AnswerLost` is a call that takes effect and is answered with an error.
Requests of several replicas are just requests: the handlers share nothing in memory.

### Tenancy, Invitations, TenancyAPI

One action is one statement on the database, or one transaction nothing can see
into. `call` is what each request has left to do: `Handlers` gives, per route, the
calls on the store in order and the roles that entitle; `requireOrg` and
`requireProject` put the role queries of `rbac.go` in front, as separate steps, so
a role may be revoked between the check and the write. `Receive` is
`provisionUser`, which writes the administrator flag of the token's claims.

- `CreateOrganization` and `SetDefaultOrg` are two steps each, as READ COMMITTED
  lets other transactions commit between their statements. `RowLocked` and
  `InviteLocked` are the row locks that an update, and `SELECT ... FOR UPDATE`,
  hold until the commit.
- `UpdateProjectQuotas` writes all quotas back from the copy read by `GetProject`.
- `DELETE` cascades along the foreign keys of the migrations (`DropProjects`,
  `CascadeToInvites`); an insert with a dangling reference fails (`UpsertOrgMember`).
- `Fail` ends a request at any call: an error, a client that went away, a crash, a
  deadlock PostgreSQL breaks. What is not committed is rolled back.
- `joined`, `held`, `raced` and `overtaken` are history: how often an invitation made
  a member, which requests were entitled at some moment, which users had two calls at
  once that write their default, and which quotas changed since a call that will write
  them back read the project.

### CliSession

`proc` are the commands, `file` the credentials with the way `os.WriteFile` treats
them (open and truncate, then write; `inode` tells a file that logout removed from
the one made after it). Keycloak answers a request at some moment within the HTTP
timeout and the answer travels within it too; `Tick` lets time pass only while
every command waits. `rotates` is Keycloak's setting that a refresh token can be
used once. The client computes the expiry from the arrival of an answer, later than
Keycloak; `SkewCoversTimeout` (both are 30 s in the code) is the assumption under
which `expirySkew` makes up for that.

### TenantPages

`rows` is what the list shows, `updates` are `setTenants` updaters React has not
run, and `Rendered` is what running them in order gives. `pending` is the ref
`pendingCreates`, read when an updater runs. `calls` are requests in flight, which
the API serves and answers in any order; leaving a page drops what its reads
answer, not its writes. `heading` is a `router.push` under way, `how` tells a page
opened by the create dialog from one opened by a link.

## 3. Runs

| Run | Instance | What it shows |
|---|---|---|
| `operator_lifecycle` | one tenant, three specs (limits; another quota and unacceptable to Helm; what the first asked for again), all features on, two faults among crash, failing call, workload down, resync, the informer of quotas lagging | `TypeOK`, `ResourcesGuarded`, `NoLostWakeup`, `ReadyReflectsSpec`, `TeardownOnlyWhenDeleting`, `DeletingIsFinal`, and refinement of `TenantLifecycle` (`ImplementsLifecycle`) |
| `operator_gateway` | two tenants, all features on, one fault among Gateway touched, Gateway deleted, namespace deleted, the informer of TLSRoutes lagging | `ListenersIndependent`: writing the whole list back from a stale copy never drops another tenant's listener |
| `operator_liveness` | one tenant, two specs (limits, no resources), one fault among crash, failing call, namespace deleted, Gateway touched, the informer of LimitRanges lagging | `DeletionCompletes`, `NamespaceFollows`, `ReadyUnlessHelmStuck` |
| `operator_helm_crash` | one tenant, one spec, one crash | violated: `EventuallyReady` |
| `operator_listener_leak` | one tenant, no fault | violated: `ListenersGuarded` |
| `api_tenants` | four requests on one name, an owner and an admin, one fault | `TypeOK`, `CreatedStays`, `RowHasCR`, `RollbackIsOwn`, `UsesLifecycle` |
| `api_rollback` | two requests, one client that goes away | violated: `RollbackFreesName` |
| `api_race` | two requests, no fault | violated: `DeletedIsTornDown` |
| `tenancy` | two users, up to three organizations, two projects, two invitations; two concurrent calls; two or three requests per behaviour, over six parts of the API | `TypeOK`, `OneDefault`, `NothingOutlives`, `DefaultKept`, `ServedAsEntitled`, `UnaskedQuotasKept`, and refinement of `InvitationLife` (`KeepsInvitationLife`) |
| `tenancy_default` | a user without a default and two organizations to create; two concurrent calls | violated: `AtMostOneDefault` |
| `cli_session` | two commands at a time, three in all, one fault; rotating refresh tokens or not | `TypeOK`, `SessionKept`, `HandedOutIsValid`, `PollsSpaced`, `ApprovedIsPickedUp` |
| `tenant_pages` | two tenants, two requests in flight, two acts of users, one failure | `TypeOK`, `OptimisticRows`, `CreatedIsNotGone`, `PollingSettles` |

The five violations are disagreements with what the documentation or a comment
says, under "findings" in `PROJECT.json`:

1. *"survives restarts ... and half-finished provisions"* (`docs/concepts/architecture.md:64`):
   a crash inside Helm leaves a pending revision that nothing clears; the tenant is
   Failed for ever. `ReadyUnlessHelmStuck` shows that this is the only reason.
2. *"a deleted CR always means a fully cleaned-up tenant"* (`architecture.md:47`): the
   teardown trusts a cached Gateway that may be older than its own listener.
3. *"so the name is not left orphaned"* (`handlers_tenants.go:98`): the rollback uses the
   canceled context of the request that failed.
4. *"nothing orphaned"* (`docs/getting-started/first-tenant.md:71`): a DELETE between
   the two writes of a POST leaves a tenant without a live row.
5. *"SetDefaultOrg marks one org as the user's default (unsets the others)"*
   (`tenancy.go:341`): two `POST /orgs` at once of a user without a default leave two
   of them. `OneDefault` shows that an overlap of calls of one user that write the default,
   be it these or others, is the only reason.

**Bounds.** `MaxSpec` bounds what is submitted per name: 3 lets a tenant be created,
edited, deleted and created again. Two faults let a second one hit the recovery
from the first; every hazard known in this code needs at most one. A lagging informer is a fault
that may end at any moment; which kinds lag is a choice of the run (`FaultKinds`), as
each multiplies the states. That a tenant is Ready while TLSRoutes, grants or several kinds
lag is left to the theorem `ReadyIsTrue`, which covers all four together. Two tenants
meet only in the Gateway (`operator_gateway`), where a third adds no new kind of
interference: it too is somebody else's write to the list. Four requests give two
creations and two deletions that overlap in any way. In `tenancy`, each behaviour starts in
a small world of one part (`Start`), which requests served one after the other lead to, and
offers the handlers of that part: those of different parts touch different tables,
and the deletions that cascade are offered in every part they reach. Two calls overlap at
a time; `MaxFor` lets a third request follow where the first two leave a state it
could trip over (defaults, quotas, invitations). In `cli_session` a behaviour is about one login
(deadline and `slow_down` included, as 10 units hold several intervals of 2) or about
commands that share the tokens of an earlier one, for as long as an access token
lives. In `tenant_pages` two requests in flight let every answer overtake another one; the
timer waits for a free slot and for React to render, which takes far less than
its 5 s. All bounds are constants
and guards of the actions that submit or fail; apart from
that timer and from the clock of `CliSession` no bound limits what the program itself does. `CHECK_DEADLOCK FALSE` is set because the system may rest: when the
bounded users are done and every tenant is settled nothing is left to do; in
`TenantAPI` and `TenancyAPI` when every request is answered; in `CliSession` when the
commands are over; in `TenantPages` when no row is in transition.

**Fairness** (`FairSpec`). A pass goes on until it ends (`WF` of the worker's steps);
the work queue is first in, first out, so an item in it is taken whenever the worker
keeps becoming free (`SF` of `Reconcile(t)`); watches deliver; namespaces
finish terminating; the gateway is there again eventually; a vCluster comes up. Users
and faults owe nothing. `BadSpecs` are excluded from `BecomesReady`. In `TenantPages`
(`Fairness`): the browser renders, keeps its timers and follows its router; every
request is answered, with an error perhaps; the operator finishes a tenant
(`ReadyUnlessHelmStuck` says when it does). `TenantAPI`, `TenancyAPI` and
`CliSession` state no liveness: whether a request is served depends on its client.

Symmetry is used only in runs without liveness properties.

## 4. Proofs

Every type invariant, safety invariant, action property and refinement that the
passing runs check is proved, for any number of tenants, namespaces, users,
requests, commands, specs and faults. The proofs rest on the named assumptions of
the modules, which TLC evaluates in every run: `OperatorAssumptions`,
`ApiAssumptions`, `TenancyAssumptions` and `ServerAssumptions`, `CliAssumptions`
and `SkewCoversTimeout`, `PagesAssumptions`. All but `SkewCoversTimeout` (30 s and
30 s in the code) only say of which kind a constant is. Five theorems have a
hypothesis more, named below with its reason.

### The operator

- `TypeCorrect` (`TenantOperatorProofs`): `TypeOK` is inductive by itself.
- `NoWakeupIsLost` (`TenantOperatorWakeProofs`): `NoLostWakeup` is not inductive,
  because a pass that ends without a requeue relies on the event of its own write.
  `WakeInv` adds that copies nobody overtook are what is stored (`FreshCopies`),
  that only CRs with the finalizer are marked for deletion (`FinalizerFirst`), and
  what the worker's copy looks like at each kind of call (`PassMatchesCopy`).
- `FinalizerGuardsResources` (`TenantOperatorGuardProofs`), under `OneConfig`: every
  start has the same settings. `GuardInv` adds that the finalizer is only taken off
  by the pass that tore down, and that no older copy can start another one
  (`FinalizerStays`), what the teardown has deleted so far (`TeardownOrder`), and that
  objects of a feature exist only where it is on (`Features`). `OneConfig` is needed:
  a teardown skips the objects of a feature that was switched off.
- `OperatorImplementsLifecycle` (`TenantOperatorGuardProofs`), under `OneConfig`:
  the lives of the CRs and the tenants that hold a release, TLSRoute, Certificate
  or certificate Secret behave as `TenantLifecycle` says. A step that takes a CR
  away maps to `Finish` or `Delete` because `ResourcesGuarded` holds after it too.
- `DeletingStays` (`TenantOperatorReadyProofs`): by `SaysDeleting`, only a CR being
  deleted, and a copy of one, says Deleting; a pass that would write another phase
  has a copy nobody overtook, hence one without it.
- `ListenersStay`: `GatewayInv` says that the cached Gateway a write may be made
  from is the stored one. It needs no hypothesis: a stale list is refused.
- `TeardownIsAskedFor`, under `OneConfig` and `OwnNamespaces` (no two tenants have
  one target namespace). A copy may still show the deletion of a name that is used
  again; `TeardownInv` says that then nothing is left to take (`Gone`). Two tenants
  with one namespace do take it from each other (a hazard without a property).
- `ReadyIsTrue`, under `OneConfig`, `OwnNamespaces` and no deletions of namespaces by
  hand. `ReadyInv` says what a pass has made at each of its calls (`Made`), that the
  cache has the version a pass may still write for (`PassAsSeen`), and that behind a
  CR that reports Ready is what its spec asks for, with no copy of another version
  about (`ReadyIsBuilt`). Where an old copy of an object looked as wanted, nothing was
  written, and `Made` says so with `misled`; every later pass sets or clears it. The exception
  is needed: without it TLC finds a quota that goes from A to B and back to A
  while its informer shows the first A, and the tenant is Ready with B. The last hypothesis is needed: a namespace deleted by hand takes
  the release with it, and Ready stays until the next pass.

### The API

- `ApiTypeCorrect`, `AcknowledgedStays`, `RollbackRemovesOwnRow`, `ApiUsesLifecycle`
  (`TenantAPIProofs`): `ClaimInv` says which requests hold a name (`Claimed`: past the
  insert and not rolled back), that marked rows were marked by a delete of their
  name (`Marked`), and that handlers stay with their calls (`Kinds`).
- `RowsHaveTheirCR`: `RowHasCR` speaks of rows whose requests are over; the inductive
  `Backed` says of every live row that its own CR is there or some request still has a
  call to make for it, or went wrong at one.
- `TypesHold` (`TenancyProofs`): the handlers are data (`Handlers`), so that a call
  writes values of the right type depends on what is before it in its handler. `Served`
  says which calls are left of a request and what its fields hold by then.
- `NothingOutlivesDeletion` and `InvitationsLive` share `LockInv`: from `LockInvitation`
  to the end of its acceptance a request alone holds a pending invitation. The
  first follows from the cascades; the second maps each write to `Send`, `Join`, `TurnDown`
  or to no step of `InvitationLife`.
- `OnlyTheEntitledWrite`: `HeldInv`, the caller was entitled at some moment or a
  check that lets only the entitled through is still to come (`Vetted`). `Entitled` is
  what `docs/design/tenancy.md` grants: roles of the organization and the project,
  platform administrators by the claim of the token or by the flag on the user, and
  project maintainers for quotas. The handlers let fewer through (section 5).
- `DefaultIsOne`: `DefaultInv`, for users whose writes never overlapped, that what
  a call has read or cleared still holds when it writes (`Prepared`). `DefaultSurvives`
  follows step by step from the types.
- `QuotasAreAsked`: `CopyInv`, the copy a call of `UpdateProjectQuotas` took of the project
  agrees with the row in every quota that nobody changed since (`overtaken`). So a
  quota the request did not ask for changes only if a concurrent request changed it,
  and then to the value that was read.

### The CLI

- `TypesHold` (`CliSessionProofs`): `RowInv` and `FileInv` relate the clock to what a
  command waits for and to the tokens it holds; the bounds of the expiry dates follow.
- `HandedOut`, for `HttpTimeout < AccessLife`: a token lives longer than a request
  takes. Keycloak's tokens live 300 s (`cli/internal/auth/device_test.go:49`), the timeout is
  30 s; a token that ends before its answer arrives would be handed out all the same.
- `SessionSurvives`: `SessionInv`, a command on its way holds a refresh token that is
  good, no two hold the same new one (`OwnTokens`), and when the token in the file is
  not good its successor is in the hands of a command that will save it (`Replaces`),
  or was lost to a fault.
- `PollsKeepTheInterval`, `ApprovalsArePickedUp`: `LoginInv` relates the next poll to
  the last one Keycloak saw and the deadline to the end of the code.

### The portal

- `TypesHold` (`TenantPagesProofs`): with `GetsOfPage`, a GET in flight is for
  the tenant whose page is shown, since leaving it drops what it answers.
- `OptimismIsRight`: `Rendered` runs the queued updaters one after the other.
  `AppliedAppend` says what one more does; `AppliedLocal`, that what all of them do to the
  rows of a name depends only on these rows and on whether that name is being
  created, so that a creation that begins or ends does not disturb the others. Both are
  inductions over the queue. `PlainAnswers` adds that the API answers without optimistic rows.
- `CreatedIsShown`: `KnownInv` follows the creation from the API's answer over
  the router to the page: the API knows the name from then on, and a 404 that is on its
  way to that page means a deletion.

Induction over the length of a sequence is done with the least member of a set of
positions (`LeastNatural`, from `WFMin`), because the induction theorems of the
library take an operator and cannot be instantiated.

### Only model-checked

The liveness properties, as fairness is out of the proof system's reach:
`DeletionCompletes`, `NamespaceFollows`, `ReadyUnlessHelmStuck`, `PollingSettles`.
The five violated properties are refuted by TLC's counterexamples.

## 5. What is left out

Of the operator: edits of `spec.targetNamespace` (each tenant's namespace is fixed
by `NsOf`, so owner references never collect anything); lagging copies of the
namespace in `ensureNamespace` and of the workload and the Secret in `vclusterReady` (taken as
current: these reads decide whether to create, or when to look again);
the versions an informer passes through while it catches up (it
stays at one moment or jumps to the latest version); changes of the quota and the other
objects by hand; the 64 listeners a Gateway accepts; hostnames,
URLs, chart values; calls that take effect and whose answer is lost without a
restart; the writes of status messages. Of the API's tenant handlers: the
handlers that only read, request validation, token verification.

Of organizations, projects and invitations: names of organizations and
descriptions, validation, JSON, the handlers that only read, and e-mail addresses (an
invitation is for a user). Of the CLI's session: discovery of the endpoints and the
settings `login` saves next to the tokens. Of the portal: rendering and forms.

### Not modelled

- `store/migrate.go`: two replicas that start together may both begin a version; the
  transaction of the second fails, and its process ends and is started again. Planned.
- `kubeconfig/merge.go`: a merge of YAML documents key by key, one command at a time;
  data without control. Two merges at once are listed as a hazard.
- CLI commands and the API client: one request each, no state of their own.
- The portal's session (`auth.ts`, `lib/keycloak.ts`, the proxy route) and the pages that
  read through `useAsync`.
- Verification of tokens (the OIDC library), Helm chart, workflows, examples.

### Seen while reading, without a run

These are behaviours of the code that the models include or leave out on purpose.
Where a document says otherwise, it is named.

- A tenant may be Ready with another quota or other limits than its spec asks for, or
  with none, until something else reconciles it: `CreateOrUpdate` trusted an old
  copy (`tenant_controller.go:284`, `:325`). The model has these steps, and
  `ReadyReflectsSpec` names them as its exception. `docs/concepts/tenants.md:66-68` says the operator
  "always pairs" the two; `docs/reference/tenant-crd.md:53` says any of
  `resources.*` gives a LimitRange, while the code makes one for limits on
  cpu or memory only.
- `docs/design/tenancy.md:45` gives quotas of a project to its maintainers;
  `handlers_projects.go:111-112` asks for a maintainer of the organization. `ServedAsEntitled`
  counts project maintainers as entitled, so it does not speak of this refusal.
- `docs/design/tenancy.md:30-31` and `store/tenancy.go:81-82` say the administrator flag can be
  set through the admin API; `UpsertUser` writes the flag of the token's claims over it
  on the user's next request, so `SetUserAdmin` lasts until then.
- The proxy route (`frontend/src/app/api/v1/[...path]/route.ts`) exports GET, POST and
  DELETE, while `lib/api.ts` also calls PUT and PATCH: updates of organizations,
  projects, roles, quotas and the default organization do not get through it.
- The page of a tenant opened from the optimistic row of a creation still in flight
  gets a 404 and says that the tenant is gone until it is opened again (`useTenant.ts:31`). A
  creation refused because the name is taken removes the row of the tenant that has it,
  until the next load. A list whose first load failed does not retry by itself.
- Any error of a refresh, also of the network, is reported as an expired session.
  A crash between truncating and writing the credentials leaves a file that does not
  parse; two saves that overlap may do so too; a save under way brings back the file
  that `logout` removed.
- An accepted invitation can be declined and the membership stays; accepting may lower a
  role; memberships of projects survive the removal from the organization. Lists of
  invitations compare e-mail addresses exactly, acceptance ignores case. The status
  `expired` is never written.

## 6. Plan

Done: all modules of section 2 with their runs, and the proofs of every safety and
action property of the passing runs. Next, in this order:

1. What holds in place of a violated property, for every value of the constants: that
   without faults the rollback frees its name (`RollbackFreesName`), and that a
   deletion over a current copy of the Gateway leaves no listener (`ListenersGuarded`).
2. The safety half of the liveness properties: that a deletion makes no step
   backwards (the calls of a teardown in order, each with less left), that a
   `WF` of the worker's steps then suffices to end it.
3. `TenantOperator` with a shared target namespace and with settings that change
   between starts; `Migrations`, replicas that start together.
