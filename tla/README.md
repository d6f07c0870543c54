# Verification of jetski

jetski is the control plane of hyprmcp: a Go API server over PostgreSQL, a web UI, and the Kubernetes
side that turns an organization's projects (MCP servers) into configured gateways. This directory holds
TLA+ models of its core, TLC configurations that check them on small instances, and TLAPS proofs.

## Inventory

| Part | Source | State | Operations | Hard behaviour |
| --- | --- | --- | --- | --- |
| Projects API | `internal/handlers/projects.go`, `internal/db/projects.go`, `deployment_revisions.go`, `dashboard.go`, `tx.go` | tables `Project`, `DeploymentRevision`, `DeploymentRevisionEvent` | create, update settings, delete, read status/logs/prompts/analytics | overlapping transactions, row locks, an answer before the commit |
| Organizations API | `internal/handlers/organizations.go`, `internal/db/organizations.go`, `users.go` | `Organization`, `UserAccount`, `Organization_UserAccount` | create, update settings, add and remove members | read-modify-write, multi-statement changes without a transaction |
| Authentication | `internal/middleware/middleware.go` | `UserAccount` | get-or-create the caller's account | concurrent first requests |
| Gateway applier | `internal/kubernetes/apply/mcp-gateway.go` | the `MCPGateway` resource of each organization | list projects, overwrite or delete the resource | lost updates, failing or unanswered calls |
| Sync webhook | `internal/handlers/webhook/kubernetes` | the gateway's children (ConfigMap, Deployment, Service, Ingress) | render a resource's children | one bad entry fails the organization |
| Log webhook and log queries | `internal/handlers/webhook/gateway`, `internal/db/mcp_server_log.go`, `internal/lists` | `MCPServerLog` | store one call, page through calls | logs of deleted or uncommitted revisions, paging while logs arrive |
| TLS ask webhook | `internal/handlers/webhook/tlsask` | - | does a host belong to an organization? | ambiguous custom domains |
| Analytics | `internal/analytics` | - | aggregate the log | degenerate entries, empty periods |
| Lifecycle | `internal/server`, `internal/cmd`, `internal/svc`, `internal/migrations` | servers, pool | start, migrate, shut down | one deadline for everything |
| UI shell | `app/authenticated.routes.ts`, `services/context.service.ts`, `components/header`, `pages/onboarding`, `pages/home` | route, navigation under way, context | guards, redirects, links, creating and deleting organizations and projects | navigations that wait, reloads that are refused, two-query answers |
| UI forms | `pages/new-project`, `pages/project-settings`, `pages/organization-settings` | form, what it was filled from, calls under way | load, edit, check, save, delete | late answers, the selection changes under a form, overlapping saves |
| UI pages | `pages/project/check`, `.../logs`, `.../prompts`, `.../dashboard`, `pages/organization-dashboard`, `pages/monitoring`, members | query, filters, what is shown | poll, sort, filter, turn pages, invite, remove | answers to an earlier query, bounded polling, stale lists |
| UI theme | `services/theme.service.ts` | chosen, saved and applied theme | toggle, effect, event of the operating system | late effects and events |

(UI paths are under `projects/ui/src/app`.)

They interact in four ways. HTTP handlers, one goroutine per request, share only the database and the
Kubernetes API. `Apply` is a function call within a handler that goes from the one to the other.
metacontroller watches the `MCPGateway` resources and calls the sync webhook; the gateways it configures
call the log webhook, naming the deployment revision they serve. The UI calls the API from one thread, but any
number of its calls can be under way, and their answers come in any order; its parts share the context
and the route, which change one after the other.

What makes the parts correct: the gateways serve what the database says (projects API, applier, sync
webhook); revisions move forward only and never outlive their project (projects API); an organization
keeps a member, and failed invitations leave no accounts (membership); logs are stored for every call of a
known revision and can be read page by page (logs); a page of the UI shows, says and saves what belongs to
what is selected (UI); every request, form, navigation and poll ends (all).

## Modules

### `GatewaySync`: requests, database, MCPGateway, sync webhook

The core. `Slot` is a set of goroutines serving mutating requests; `req[r]` holds the local variables of
the handler in slot `r` and `pc` the statement it is at. A step is one statement of PostgreSQL or one call
of the Kubernetes API with the computation around it:

| pc | post | put | delete | org |
| --- | --- | --- | --- | --- |
| arrival | `BeginPost`: access check | `BeginPut`: validation, access check | `BeginDelete`: access check | `BeginOrg`: access check, reads the organization |
| summary | | `PutSummary`: `GetProjectSummary`, inherited fields | `DeleteSummary` | |
| store | `PostProject`: the whole transaction | `PutRevision`: insert, take the row lock | `DeleteProject` | `UpdateOrganization` |
| list | `ApplyList` | `ApplyList`, inside the transaction | `ApplyList` | `ApplyList` |
| apply | `ApplyWrite`, `ApplyFails` | the same; the client gets its answer | the same | the same |
| commit | | `PutCommit` | | |

`PostProject` is one step because its rows are invisible until the commit and it waits for nothing but
the unique index, whose waiter then sees the committed name and fails. A settings update is not: the lock
on its project's row is held from `PutRevision` to `PutCommit`, and `Apply` lists through its transaction,
so it sees its own revision and the other projects' committed ones (READ COMMITTED). `Abort` ends a
handler at any statement: failed query, cancelled context, process death. `Sync` is metacontroller with
the webhook's `GetGatewayConfig`.

Two history variables, read by no action's guard: `fresh[o]`, whether the last request that touched the
organization ran to a successful `Apply` without any conflicting request taking effect meanwhile, and per
request `solo` and `touched`, from which it is computed. Two settings updates of one project do not
conflict: the row lock orders them and that is one of the things the model shows.

Abstracted: UUIDs are numbers, revisions in the order of the row lock; columns that are only passed
through (`authenticated`, `telemetry`, `created_by`) are represented by the revision's id, since rows are
never updated; URLs, ports and domains are members of small sets, `BadUrl` those that `url.Parse` rejects.
The wait queue of PostgreSQL appears as a guard (`~Locked`) and strong fairness.

### `ProjectCatalog`: the abstract specification

What the database promises to whoever looks at it between transactions: a project is created once, its
version moves forward only, and its deletion removes its versions for good. `GatewaySync!CatalogSpec`
states that the handlers implement it, with `life <- status` and the version of a project the id of its
latest revision.

### `Membership`: accounts, organizations, members

Every API request passes `AuthMiddleware`, which creates the caller's account; then POST /organizations and
PUT and DELETE of members change `Organization` and `Organization_UserAccount`. Slots and `pc` as above:

| pc | create | invite | remove | other |
| --- | --- | --- | --- | --- |
| arrival | `Arrive` | the same | the same | the same |
| auth | `Authenticate`: get or create the account | the same | the same | the same, then done |
| access | | `Access`: `IsUserPartOfOrg` | `Access`, and not oneself | |
| create, owner | `CreateOrganization`, `AddOwner` | | | |
| remove | | | `RemoveMember` | |
| invite ... commit | | `Invite`, `InviteAccount`, `InviteMember`, `InviteCommit`: one transaction | | |

`GetUserByEmailOrCreate` is one statement but two steps: its snapshot is taken first (`seen`), and its
`INSERT ... ON CONFLICT DO NOTHING` waits for another transaction that has inserted the same key
(`AccountPending`). If that commits, the insertion does nothing and the `SELECT`, on the old snapshot,
finds nothing: no row, `ErrNotFound`. `entered`, `founded`, `overlapped` and `refused` are history variables.
Addresses are model values with a function `Lower`; trimming and mails are left out.

### `Roster`: what the API promises about people and organizations

A name is registered once, an organization gets its first member once, and from then on a membership begins or
ends only when a member has asked for it (`asked`), a new member has an account, and nobody leaves as the last
member unless removals were `contested`. Account and membership of a newcomer are one step here, and three of
the handler. `Membership!RosterSpec` states that the handlers implement it: `asked` is `Asked`, what is read off
the local variables of the requests under way from the access check to their end, `contested` is `overlapped`.

### `ServerLog`: the log webhook and the deletion of projects

`Report` to `LockProject` is the webhook of one call, `DeleteProject` to `FinishDelete` the statement
`DELETE FROM Project`. Both are single statements that take several row locks, and a step is one lock with
what happens under it: the INSERT share-locks the revision, then the project (foreign keys in the order
of their creation); the DELETE locks the project, then the cascade its revisions, and then the check of
`MCPServerLog.project_id` (migration 6, no action) looks for logs, before PostgreSQL cascades the deletion
of the revisions to the logs (the events of a statement run by a trigger are queued behind those of the outer
statement). `Deadlock` is PostgreSQL's detector, which cancels either. Whether the subject of a call has
an account is a nondeterministic choice. `GatewaySync` deletes projects without logs, or the deletion
fails there as `Abort`; this module says when it fails.

### `LogCatalog`: the two statements as one step each

A call is stored while its project is live and its revision there, a project disappears with all its revisions
while no log refers to it. `ServerLog!LogCatalogSpec` states that the statements, lock by lock and cancelled or
not, implement this; `ServerLog!ProjectCatalogSpec` that, seen from the log webhook, projects and revisions
behave as in `ProjectCatalog`, which the handlers of `GatewaySync` implement too. That is how the two modules
compose: they share the projects and their revisions and nothing else.

### `LogPages`: reading a growing log by pages

`Results(S, offset)` is what `ORDER BY ... LIMIT ... OFFSET` may return: entries with the same key in any order.
`Store` is the webhook, `FirstPage` and `NextPage` the requests of the table in the UI (`logs.component.ts`;
`prompts.component.ts` is the same over another query).

### `WebClient`: what the pages of the UI share

Angular's `httpResource`, external code modelled as `src/` uses it: a resource is `[status, value, flight]`; a
change of its request replaces the call under way and drops the value (`Requested`), `reload()` keeps the value
but does nothing while an answer is awaited, to the first request or to an earlier reload (`Reloaded`), an answer
ends the flight (`Resolved`, `Broken`).

### `WebShell`: context, router, guards and the forms that move the user on

`context` is `contextService.context`, `route` the activated route, `navigating` the navigation under way.
`ContextGuard` is `contextGuard` with `onboardingGuard`, which runs in the same turn; `DefaultPage` and
`OrgDashboardToProject` are the two guards that wait again. A newer navigation replaces one that waits, one to
the current URL is skipped. `ReadOrgs` and `ReadProjects` are the two queries of GET /context, between which
others change the database (`OthersChange`). `OrgCreated` calls `reload()`, `ProjectCreated` and
`ProjectDeleted` change a signal the request is computed from: that difference is why `CreatedOrgKnown` has an
exception and `CreatedSelected` none. `Links` is what the header, the menus and the dashboard offer.

### `NewProjectForm`, `ProjectSettingsForm`, `OrganizationForms`: the forms

`NewProjectForm`: the URL field, its check (`checks[i]` is one call under way, any number up to `MaxCalls`), the
authentication option the verdict opens, and the creation. `ProjectSettingsForm`: `Choose` is the effect on the
selected project, whose loads are a `switchMap` that ends with its first error, `writes` the saves and deletions
under way. A project created without a URL has no revision (`NoRevision`): `Loaded` then opens the form with
what it had, as `updateFormValues` does, and the API refuses to save the empty URL (`Unusable`).
`OrganizationForms`: each form is filled when it opens from the context (`seen`), which saving does not load
again; a save is the API's read and write of the whole row in two steps.

### `ProjectCheck`, `MembersPage`, `LogsTable`, `DashboardPages`, `ThemeSwitch`: the other pages

`ProjectCheck`: the stream of selection, delay, polling with `RetryCount` retries and one verdict.
`MembersPage`: the list as a resource and the two dialogs that have it loaded again. `LogsTable`: the query of
the log and prompt tables with everything that changes it; reading all pages of a growing log is `LogPages`.
`DashboardPages`: every piece of the dashboards is a resource (`pieces`), `Request` what it asks for; with the
card that leafs through the arguments of a tool by twos. `ThemeSwitch`: the effect and the operating system's
event, each later than its cause.

History variables say what a property excludes, and no guard reads them: `overlapped` (two checks at once),
`crossed` (a load failed or began during a save), `kept` (the project last loaded had no
revision), `raced`, `late`, `faulty`, `outdated`, `crossing`, `jumped`,
`unreloaded`, `unheard`, `skewed`, `refused`, `interrupted`. Each stands for a behaviour the code does have and
in which the promise is broken; "What the checks show" lists them.

### `MC...`: instances

Model values, the sets of bodies and changes, symmetry. `MCWebUI` puts the UI modules and `LogPages` next to
each other: `Init` chooses one of them (`open`) and the others rest in one state in which none of their fair
actions is enabled, so the run explores the disjoint union of their state spaces. The pages
affect each other only through the context and the selection, and the module of each page that depends on them
lets them change at any time.

### The proof modules

`GatewaySyncProofs`, `GatewayCatalogProofs`, `MembershipProofs`, `ServerLogProofs`, `LogPagesProofs`,
`NewProjectFormProofs`, `WebFormsProofs`, `WebPagesProofs`: see below.

## Runs

| Run | Question | Bounds |
| --- | --- | --- |
| `races` | Do failures and overlaps leave an organization out of step although its last request ran undisturbed? Do the pointers of a project stay at its newest revision? (`FreshInSync`, `LatestIsNewest`, `HostedHasEvent`) | 1 organization, 2 projects, 2 slots, 2 revisions, all failures |
| `orgs` | Inductive invariant, two proxies at one path when a name is reused, phantom revisions, refinement of the catalog (`Inv`, `UniquePaths`, `NoPhantomRevision`, `CatalogSpec`) | 2 organizations, one with 2 projects of one name and one with 1, 2 slots, 3 revisions, no aborts |
| `live` | Does every request end, and does the configuration follow? (`RequestsFinish`, `EventuallyServed`) | 1 project, 2 slots, 1 revision before no settings update arrives any more: two at once insert one each into a project created without a URL, and they and a deletion wait for its row lock, 1 change of the domain, a bad URL, aborts and failures of Kubernetes |
| `membership` | Does an organization keep a member, does nobody get in or out without a member's asking, what is left of accounts after races and failed invitations, does every request end? (`KeepsMember`, `RosterSpec`, `NoGhostAccount`, `RequestsFinish`) | 1 organization, 2 people, one spelled in two ways, 2 slots, aborts |
| `reports` | Can a log be left of a project or revision that is gone, does each statement take effect at one moment, do reports and deletions end? (`LogsHaveProject`, `LogCatalogSpec`, `Settle`) | 1 project, 2 revisions, 3 calls, aborts |
| `webui` | Does every page of the UI show, say and save what belongs to what is selected, and does everything that waits end? (the 23 properties named in "What the checks show") | 2 organizations and 2 projects, and per page: 3 calls of the new-project form, 2 retries and 4 selections of the check, 1 save of a project's settings, of which there are 3, one the API rejects, and one project without any, 2 saves of an organization's, 2 links, 2 forms and 1 change by others in the shell, 2 dialogs, 4 inputs of the table, 4 of the dashboards, 5 log entries in pages of 2 |
| `one_source`, `renderable`, `deleted`, `refused`, `cascades`, `unknown_revision` | The findings below, each as a violated property | the smallest instance that shows it |

Why the bounds are enough: every conflict in the code is between two requests on one organization, and the
invariants are proved for any number of them; the second organization only shows that requests of other
organizations do not matter. Two revisions are needed to tell newer from older, a third brings no new order, but
lets each project of `orgs` have one. `MaxRevision` stops new requests, never a request under way, so runs end
in quiescent states. Two slots of `Membership` are enough for each race there (two first requests, two removals,
an invitation and the invited); in `reports` a deletion meets one call before, one at and one behind its locks.
Five entries are two full pages and a short one. In the UI two calls overlap and a third comes after; two
selections there and back are four; the tools of the dashboard have 5, 2 and no arguments, an odd, an even and
an empty number. Both projects are of one organization in `webui`, so that its settings pages and menus lead
from one to the other; `OrgOf` is arbitrary in the proofs. Every safety property of the run is proved for all
values; that matters for `CreatedOrgKnown`, since a reload of the context that is refused because it is being
reloaded takes three organizations and links, more than the run has (the list of members shows the same
within the run). `CHECK_DEADLOCK FALSE` is set where the bound makes the model stop when all projects are used up or
metacontroller is switched off to reduce states (its steps change only `config`, which no safety property
reads), and in the runs of `ServerLog` and the UI, where each call, deletion, input and entry happens a bounded
number of times; `races`, `live` and those of `Membership` check deadlock.

Fairness (`FairSpec`): a goroutine with a runnable statement runs (weak fairness of `Handle(r)`); PostgreSQL
hands a row lock to its waiters in order, so a request that waits for a lock that is freed again and again gets
it (strong fairness of the two steps that take it); metacontroller resyncs (weak fairness of `Sync`). In
`Membership` and `ServerLog` strong fairness stands likewise for PostgreSQL's wait queues. Clients owe nothing
and failures may happen or not. In the UI the browser runs guards and handlers that are due and every call is
answered or reported as failed (weak fairness of those actions: HTTP clients time out, the event loop does not
starve); users owe nothing. `EventuallyServed` is conditional on the organization being left alone: nothing in
the code repairs a stale gateway on its own.

## What the checks show

*Holds.* One undisturbed request with a successful `Apply` repairs everything earlier races and failures
left behind (`FreshInSync`), because `Apply` always writes the whole organization; overlapping updates of one
project do not disturb each other, because the second lists only after the first has committed. The
latest-revision pointer never goes back (`LatestIsNewest`), the event pointer never passes it
(`HostedHasEvent`), a gateway never has two proxies at a path (`UniquePaths`), and apart from aborts after
`Apply` it names no revision that does not come to exist (`NoPhantomRevision`). The database implements
the catalog (`CatalogSpec`).

An organization keeps a member as long as removals do not overlap (`KeepsMember`), has one creator, and nobody
becomes a member or ceases to be one unless a member asked for it, although invitations take three statements,
requests stop between any two of them, and a member may be removed while their own request is under way
(`RosterSpec`). Failed or racing invitations leave no account of somebody who never came
(`NoGhostAccount`). However the log webhook and deletions overlap, no log is left of a project or revision that
is gone (`LogsHaveProject`), each statement takes effect at one moment or not at all (`LogCatalogSpec`), and the
two, which take locks in opposite orders, come to an end (`Settle`) thanks to PostgreSQL's detector: one of them
fails with 500. A reader of the log misses nothing that was there when they started (`NothingSkipped`), if no
two entries have the same sort key; sorted by `http_status_code` that is not so, and the order of equal keys may
change from page to page.

In the UI: after a confirmed deletion no list brings the project back, and whoever creates a project finds it
selected, although the context is two queries, is asked for again before its answer has come, and others change
it (`DeletedGone`, `CreatedSelected`); no navigation hangs and no two guards send it in circles
(`NavigationEnds`); rows, dashboards and their headings are of one query however late answers are
(`RowsAnswerQuery`, `ShownBelongs`); every argument of a tool is shown and no page skipped (`AllArgumentsShown`,
`PagesContiguous`); the theme on the page is the chosen one (`ThemeApplied`). Checks, polls and forms end
(`ValidationEnds`, `CheckEnds`, `CatchesUp`, `FormOpens`, `OrgFormEnds`).

Some promises of the UI hold with an exception, which the property names by a history variable, and which is the
code's, not the model's:

| Property | holds unless | because |
| --- | --- | --- |
| `VerdictTrue`, `AuthOnlyIfOpen` | two checks overlap | an example button starts a second one, nothing cancels the first and answers carry no URL (`new-project.component.ts:345`) |
| `VerdictOfSelected` | the selection changes within the delay or after the verdict | the stream ends with its first verdict |
| `SavesToItsProject`, `ShowsStored` | a load fails or begins during a save | a save takes the project selected then, a load does not cancel it, and the stream of loads ends with its first error |
| `SavesToItsProject` | the project had no revision when it was loaded | `updateFormValues` leaves the previous project's values in the form and the form opens (`project-settings-general.component.ts:253`); `ShowsStored` speaks of projects with settings |
| `FormShowsStored` | the form was opened after a save began, or two saves overlapped | the context is not loaded again after a save |
| `OneSettingAtATime` | two saves overlap | `putOrganization` writes the whole row back |
| `ListTruthful` | the last dialog was done while an answer was awaited, or its answer was lost, and the list has not been loaded since | `reload()` does nothing while loading, also while the other dialog's reload is under way |
| `CreatedOrgKnown` | the context was loading, at first or again, when the creation was answered, and it has not been requested since | the same |
| `PagesContiguous` | the table was sorted or filtered on the way | the page's number is kept |
| `OrgFormEnds` | the navigation was replaced, the context failed, the user was removed | `loading` stays set after a success |

Two more things the code does are in the models without being excluded: the version filter of a project's
dashboard stays when another project is selected, and asks for a version the other project may not have; a
second click before the answer submits the new-project form twice.

*Does not hold.*

- `OneSource`: "Proxy URL not allowed if OCI URL is set" (`projects.go:246`) is checked for the body only;
  the inherited field brings the other URL back.
- `AllRenderable`: the check "Invalid proxy URL format" (`projects.go:258`) is missing in
  `postProject`; such a project blocks the configuration of its whole organization.
- `DeletedStopsWorking`: "Your MCP server will stop working" (`project-settings-general.component.ts:133`).
  A concurrent request that has listed the projects before the deletion writes the gateway after it and
  brings the project back until the organization's next request.
- `RefusedUnknown`: AuthMiddleware logs "no user found for email" (`middleware.go:99`) and answers 401, which
  logs the UI out (`auth.interceptor.ts`), to a person whose account has just been created by a
  concurrent request of the same person.
- `DeletionCascades`: "This ensures that when a Project is deleted, all dependent records are also deleted"
  (`5_on_delete_cascade.up.sql:2`). With the reference of migration 6 a project that has a log cannot be
  deleted.
- `UnknownIsBad`: "bad deployment revision ID" (`mcp_server_log.go:60`) is never the answer to a revision that does
  not exist: the NULL of the subquery fails first, with 500. Only a revision deleted while the statement
  runs is recognised. `putProjectSettings` makes gateways name revisions that are not committed yet.

## What is proved

`GatewaySyncProofs` proves, for any finite or infinite sets of organizations, projects, slots and values
and from nothing but `GatewaySyncAssumption`:

| Theorem | Statement |
| --- | --- |
| `TypeCorrect` | `Spec => []TypeOK` |
| `Invariance` | `Spec => []Inv` |
| `FreshGateways` | `Spec => []FreshInSync` |
| `PointersNewest` | `Spec => []LatestIsNewest` |
| `EventsFollow` | `Spec => []HostedHasEvent` |

`FreshInSync` speaks of idle organizations only and is not inductive. `Inv` adds what holds while
requests are under way: the shape of the local variables at each `pc` (`Shapes`); every stored row is a
live project's and below `nextId` (`RowsLive`); an open transaction's row is newer than every stored one
of its project (`TxNewest`), which needs that only one transaction holds a project's lock (`Exclusive`)
and that deletions wait for it; the id of a project about to be created is unused (`Unborn`); whatever an
undisturbed request has read so far (settings, list, its own write of the gateway) still holds
(`SoloFacts`); and a good verdict stays true until a request of the organization has a visible effect
(`FreshFacts`). The step of the proof that carries the argument is `SoloFacts`: an effect of another
request either clears `solo`, or concerns another organization, or is another settings update of the same
project and then excluded by the lock.

`GatewayCatalogProofs` builds on it, from the same assumption:

| Theorem | Statement |
| --- | --- |
| `RefinesCatalog` | `Spec => CatalogSpec` |
| `PathsUnique` | `Spec => []UniquePaths` |
| `NoPhantoms` | `Spec => []NoPhantomRevision` |

The refinement needs `Unborn` (a project is inserted once) and `TxNewest` (a commit only moves forward).
`PathInv` says that live projects of an organization have different names, that no list `Apply` has made has
two revisions of one name, and that no gateway has: a list is made from one snapshot, and only whole lists
are written, so a list that has grown old is still consistent. `PhantomInv` follows every listed or written
revision through the commit of its transaction and the deletion of its project.

Of `EventuallyServed` it proves what is not fairness: `SyncIsDue` (`Spec => []SyncDue`), an idle organization
with a good verdict that is not served has a configuration other than the one its MCPGateway renders to, so that
metacontroller has something to do; and `SyncsServe` (`Spec => SyncServes`), that `Sync` serves it and no step
of anybody else ends that. The argument is `IdleStill`: whatever a request changes is its own organization's
(a project it works on is, by `Shapes`), so an organization without requests keeps what it ought to be served.

`MembershipProofs` proves from `MembershipAssumption`, for any sets:

| Theorem | Statement |
| --- | --- |
| `TypeCorrect`, `Invariance` | `Spec => []TypeOK`, `Spec => []Inv` |
| `OrganizationsKeepMember` | `Spec => []KeepsMember` |
| `InvitationsAtomic` | `Spec => []NoGhostAccount` |
| `OneCreator` | `Spec => []CreatedOnce` |
| `RefinesRoster` | `Spec => RosterSpec` |
| `WaitsAreShort` | `Spec => []NoWaitChain` |

`Inv` there adds what is known of requests under way: the shape of the local variables, that accounts once
seen stay, that an uncommitted account belongs to one transaction (`AccountFacts`), that an organization being
created has no members and one creator (`Creations`), and that the caller of a removal no other overlaps is
still a member (`SoleRemoval`), from which `KeepsMember` follows because the caller is not the one removed.
The refinement also needs `FoundedInv`: only founded organizations have members, and whoever has passed the
access check works on such an organization, so that a second creator's row cannot be a membership. A step maps to
`Ask` when `Access` lets a request through, to `Join` or `Leave` when its change becomes visible, and to
`Withdraw` when it ends without; `Join` needs that the transaction's account is committed with it, `Leave` that
the caller whom `SoleRemoval` keeps is somebody else.
`NoWaitChain` says that nobody waits for somebody who waits, of any three requests: an invitation that waits to
insert a membership waits for one that has inserted the account and the membership both and needs nothing more.
So PostgreSQL never has a circle to break here. A chain takes three requests, one more than the run has, which
is why it is proved and no run checks it. `TypeOK`, `Inv` and `CreatedOnce` of `Membership` and `Inv` of
`ServerLog` are theorems too and no longer in the runs.

`ServerLogProofs` proves from `ServerLogAssumption`, for any sets:

| Theorem | Statement |
| --- | --- |
| `LogInvariance` | `Spec => []Inv` |
| `LogIntegrity` | `Spec => []LogsHaveProject` |
| `StatementsAtomic` | `Spec => LogCatalogSpec` |
| `ImplementsCatalog` | `Spec => ProjectCatalogSpec` |
| `NoStall` | `Spec => []NobodyStuck` |

In `Inv` a report that has passed its first foreign key keeps its revision (`Shares`), a deletion
in progress has locked revisions of its own live project only (`Deletions`), and when it ends all of them
are locked, so no report is between its two locks. This is why both statements are atomic: the INSERT takes
effect with its second lock, when its revision is there by the first, and the DELETE when it ends. `NobodyStuck`
is what `Settle` rests on but for fairness: whoever cannot take a step waits for a deletion of its project, and
that deletion can take one, or a report that holds a revision can, if only to be cancelled as one of a circle.

`LogPagesProofs` proves `PagesInvariance` (`Spec => []Inv`) and `PagesComplete` (`Spec => []NothingSkipped`): at
least `Count * page` entries are ahead of whatever has not been shown (`StillToCome`). The lemma behind it,
`PageRank`, counts: a page that starts not behind an entry and does not contain it is full and wholly ahead
of it. Arrivals only add to what is ahead.

The UI's properties, from the assumptions of their modules, for any organizations, projects, URLs, numbers of
calls and inputs:

| Module | Theorem | Property | By the inductive invariant |
| --- | --- | --- | --- |
| `NewProjectFormProofs` | `VerdictsTrue`, `AuthNeedsOpenEndpoint` | `VerdictTrue`, `AuthOnlyIfOpen` | `FormInv`: without overlap a check under way is of the URL the page waits for, and the option is closed |
| `WebPagesProofs` | `VerdictFits` | `VerdictOfSelected` | `CheckInv`: the stream works towards the project let through last, which is the selected one while there is no verdict |
| | `MembersListed` | `ListTruthful` | `MembersInv`: what is on its way is the present state unless a dialog is about to reload |
| | `RowsOfQuery`, `NoPageSkipped` | `RowsAnswerQuery`, `PagesContiguous` | `TableInv`: a flight is of the query at hand, the page at hand was come to by a full one |
| | `DashboardsBelong`, `ArgumentsAllShown` | `ShownBelongs`, `AllArgumentsShown` | `DashInv`: a flight replaces nothing; pages overlap only if the number of arguments is odd |
| | `ThemeKept` | `ThemeApplied` | `ThemeInv`: a theme that is not the operating system's waits for no event |
| `WebFormsProofs` | `SavedToItsProject`, `StoredShown` | `SavesToItsProject`, `ShowsStored` | `SettingsInv`: loads and saves exclude each other and keep the form closed, and an open form is of the selected project or was kept for it |
| | `StoredFormShown`, `OtherSettingKept` | `FormShowsStored`, `OneSettingAtATime` | `OrgFormInv`: a save belongs to the form with its number, and one at a time has read what is stored |
| | `DeletedStaysGone`, `CreatedIsSelected` | `DeletedGone`, `CreatedSelected` | `ShellInv`: neither the context nor what has been read of the next one lacks what lasts or has what was deleted |
| | `CreatedOrgIsKnown` | `CreatedOrgKnown` | `ShellInv` and `OrgsFound`: whatever organization the user was told of, by the context, an answer or a link, is in every answer read since |

None of these properties is inductive: each speaks of pages at rest, and what is under way decides what they
will show.

Of the liveness properties of the UI the part that is safety is proved: there is always something to wait for, and
what is done comes nearer to the end.

| Module | Theorem | States | Towards |
| --- | --- | --- | --- |
| `NewProjectFormProofs` | `ChecksUnderWay` | `CheckUnderWay`: "Validating..." stands only while a call is under way, whichever answers first | `ValidationEnds` |
| `WebPagesProofs` | `CheckGoesOn` | `CheckAlive`: no project without a verdict has neither delay nor request | `CheckEnds` |
| | `CheckRunsDown` | `CheckDescends`: each step shortens the delay or, by `PollLeft`, the check at hand | `CheckEnds`, `CatchesUp` |
| `WebFormsProofs` | `FormsWait` | `FormWaits`: a closed form has a load or a save under way unless its stream has ended | `FormOpens` |
| | `NavigationsLive` | `NavigationAlive`: a navigation waits for nothing but a context on its way | `NavigationEnds` |
| | `GuardsEnd` | `GuardsDescend`: redirects form no circle; `Distance` is the longest chain of them | `NavigationEnds` |
| | `OrgFormLeadsOn` | `OrgFormWaits`: the answer is to come, or a page whose guard will find an organization | `OrgFormEnds` |

`OrgFormWaits` is the one that could easily be wrong, as the guard of the next page sends a user without
organizations back to the form whose button stays disabled. `WaitsInv` says why it does not: as long as the
context is loading, at first or again, the form is not left, so the reload after the creation is refused only if
the navigation was replaced before, and an accepted reload reads the organization that was just created.

The proofs about the UI use two assumptions that say `undefined` is not an object: `NothingIsNoObject` (no
request and no navigation) and `NothingIsNoRequest` (no save). TLC evaluates both in `webui`.

Only model-checked: the ten liveness properties (`RequestsFinish` of requests and of members, `EventuallyServed`,
`Settle` and the six of the UI), since the provers have no `ENABLED`. What fairness adds to the theorems above is
that an enabled step is taken, and that the context is loaded only finitely often, as forms and changes by
others are bounded. Every other property of the passing runs is proved, among them `FreshInSync` and the three
refinements.

## Plan

1. `GatewaySync`, `ProjectCatalog` and their proofs (done).
2. `Membership`, `ServerLog`, `LogPages` and their proofs (done).
3. The UI: shell, forms, pages and their proofs (done).
4. The log webhook and `GatewaySync` over one catalog, the refinement of `Roster`, the safety half of the
   liveness properties (done).
5. Left: the read-only handlers of the
   projects API and their answers (404 or 500) after a concurrent deletion; the pure algorithms (`TlsAsk`, list
   parameters, gateway configuration validation, analytics) against reference definitions.

## Not modelled

Mail, object storage and metrics exporters (I/O whose failure is logged), the demo data generator, the installer
of metacontroller, generated apply configurations, the UI component library and the components of the UI that
only draw what they are given (charts, cards, log details): they keep no state a property could be about. The
server's start and shutdown is a straight sequence of library calls. `PROJECT.json` lists every part with its
status.

Hazards of the code without a model: `putProjectSettings` reads the fields to inherit before it takes the row
lock, so that of two partial updates the later can bring an earlier value back (`handlers/projects.go:276`; in
the model, in no property); revisions are listed by the time their transaction began
(`db/deployment_revisions.go:116`); `GetProjectSummary` of a project deleted meanwhile ends in 500
(`handlers/projects.go:345`); custom domains are not unique (`db/organizations.go:151`); `IsError` takes a
response without its request for granted (`types/mcp_server_log.go:40`); all servers shut down within one
deadline (`server/main.go:42`); the new-project form can be submitted twice (`new-project.component.ts:311`).
