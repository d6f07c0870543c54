---------------------------- MODULE GatewaySync ----------------------------
(***************************************************************************)
(* How the API server keeps the MCPGateway resource of an organization in  *)
(* step with the database.  The handlers postProject, putProjectSettings,  *)
(* deleteProject and putOrganization run concurrently, one goroutine per   *)
(* request; each changes PostgreSQL and then calls Apply, which lists the  *)
(* organization's projects and overwrites the whole MCPGateway spec.       *)
(* putProjectSettings calls Apply and answers the client BEFORE its        *)
(* transaction commits; the other handlers call Apply after their commit.  *)
(* metacontroller calls the sync webhook, which renders the spec to the    *)
(* gateway's configuration.                                                *)
(*                                                                         *)
(* An optional value (a nil pointer, a NULL column, a resource that may be *)
(* absent) is a set with at most one element.                              *)
(***************************************************************************)
EXTENDS Naturals

CONSTANTS
    Org,          \* organizations, which exist beforehand
    Project,      \* the ids gen_random_uuid() will hand out for projects
    OrgOf,        \* the organization each of those ids is created in
    NameOf,       \* the name of the project that is to get the id
    Slot,         \* goroutines that serve mutating requests concurrently
    Url,          \* proxy and OCI URLs
    BadUrl,       \* the members of Url that url.Parse rejects
    Port,         \* container ports
    Domain,       \* custom domains that validateDomainName accepts
    Bodies,       \* bodies clients send to PUT /projects/{id}/settings
    Changes,      \* bodies clients send to PUT /organizations/{id}
    MaxRevision,  \* bound: no request that inserts a revision arrives after this many
    Failures      \* subset of {"abort", "k8s", "metacontroller"}: what may fail

\* An optional value.
Maybe(S) == {x \in SUBSET S : \A a, b \in x : a = b}

\* What a revision says of its server: the body of a settings request, and the
\* columns oci_url, port and proxy_url of a row.
Body == [oci: Maybe(Url), port: Maybe(Port), proxy: Maybe(Url)]

\* The body of PUT /organizations/{id}: each field may be absent, and an empty
\* customDomain string clears the domain.
Change == [domain: Maybe(Maybe(Domain)), dcr: Maybe(BOOLEAN)]

ASSUME GatewaySyncAssumption ==
    /\ Org # {}
    /\ OrgOf \in [Project -> Org]
    /\ BadUrl \subseteq Url
    /\ Bodies \subseteq Body
    /\ Changes \subseteq Change
    /\ MaxRevision \in Nat
    /\ Failures \subseteq {"abort", "k8s", "metacontroller"}

VARIABLES
    status,     \* [Project -> {"free", "live", "gone"}]: not yet inserted, present, deleted
    latest,     \* Project.latest_deployment_revision_id, joined to its row
    event,      \* the revision of Project.latest_deployment_revision_event_id, 0 for NULL
    revisions,  \* the committed rows of table DeploymentRevision
    nextId,     \* the next revision id: a UUID, numbered here in the order in which
                \* transactions take the row lock of the project
    settings,   \* Organization.settings_*
    req,        \* the request each slot is serving
    gateway,    \* the MCPGateway resource of each organization in Kubernetes
    config,     \* what metacontroller has made of it: the gateway's ConfigMap
    fresh       \* history: the last request that touched the org left it in step

vars == <<status, latest, event, revisions, nextId, settings, req, gateway,
          config, fresh>>

-----------------------------------------------------------------------------
(* Data *)

\* A row of DeploymentRevision.  Rows are never updated, so the id also stands
\* for the columns that are only passed through (authenticated, telemetry, ...).
Row == [id: Nat \ {0}, project: Project, src: Body]

Settings == [domain: Maybe(Domain), dcr: BOOLEAN]

\* MCPGatewaySpec: the organization's settings and one entry per project.
GatewaySpec == [settings: Settings, rows: SUBSET Row]

\* The request a goroutine is serving, with the handler's local variables.
Request ==
    [pc: {"idle", "summary", "store", "list", "apply", "commit"},
     op: {"post", "put", "delete", "org"},
     org: Org,
     project: Maybe(Project),  \* put, delete: the path parameter; post: its new id
     body: Body,               \* put: after "summary", with the inherited fields
     change: Change,           \* org: the decoded request
     snap: Settings,           \* the organization as this request has read it
     row: Maybe(Row),          \* put: the row its open transaction has inserted
     any: BOOLEAN,             \* Apply: len(pss) # 0
     rows: SUBSET Row,         \* Apply: the revisions in pss
     applied: BOOLEAN,         \* Apply has returned nil
     touched: BOOLEAN,         \* history: it has changed what others can see
     solo: BOOLEAN]            \* history: no conflicting request had an effect meanwhile

NoBody == [oci |-> {}, port |-> {}, proxy |-> {}]
NoChange == [domain |-> {}, dcr |-> {}]
NewSettings == [domain |-> {}, dcr |-> TRUE]

Blank == [pc |-> "idle", op |-> "org", org |-> CHOOSE o \in Org : TRUE,
          project |-> {}, body |-> NoBody, change |-> NoChange,
          snap |-> NewSettings, row |-> {}, any |-> FALSE, rows |-> {},
          applied |-> FALSE, touched |-> FALSE, solo |-> FALSE]

\* putProjectSettings' validation of its body.
Acceptable(b) ==
    /\ b.oci = {} \/ b.proxy = {}
    /\ b.oci # {} => b.port # {}
    /\ b.proxy # {} => b.port = {} /\ b.proxy \cap BadUrl = {}

\* The fields the body leaves out are taken from the latest revision.
Inherit(b, last) ==
    [oci   |-> IF b.oci # {} THEN b.oci ELSE UNION {w.src.oci : w \in last},
     port  |-> IF b.port # {} THEN b.port ELSE UNION {w.src.port : w \in last},
     proxy |-> IF b.proxy # {} THEN b.proxy ELSE UNION {w.src.proxy : w \in last}]

\* The organization with the fields of the request written over it.
Patched(s, c) ==
    [domain |-> IF c.domain # {} THEN UNION c.domain ELSE s.domain,
     dcr    |-> IF c.dcr # {} THEN TRUE \in c.dcr ELSE s.dcr]

-----------------------------------------------------------------------------
(* What the queries of the db package return *)

ProjectsOf(o) == {p \in Project : OrgOf[p] = o /\ status[p] = "live"}

\* The constraint project_name_unique: another project of the organization has
\* the name.
NameTaken(p) == \E x \in ProjectsOf(OrgOf[p]) : NameOf[x] = NameOf[p]

\* The revisions in GetProjectSummaries, as a transaction sees them that has
\* itself written `own' as the latest revision of the projects `mine'.
Summaries(o, mine, own) ==
    UNION {IF p \in mine THEN own ELSE latest[p] : p \in ProjectsOf(o)}

InTx(r) == req[r].op = "put" /\ req[r].pc \in {"list", "apply", "commit"}

\* The lock on a Project row that UPDATE takes and the transaction holds.
Locked(p) == \E r \in Slot : InTx(r) /\ p \in req[r].project

Active(r) == req[r].pc # "idle"

\* Two requests can get in each other's way: they work for the same
\* organization and are not two settings updates of one project, which the row
\* lock serializes.
Conflict(a, b) ==
    /\ a.org = b.org
    /\ ~(a.op = "put" /\ b.op = "put" /\ a.project = b.project)

-----------------------------------------------------------------------------
(* How a step changes the slots *)

\* Slot r goes on as q and nobody else can tell.
Goto(r, q) == req' = [req EXCEPT ![r] = q]

\* Slot r goes on as q after an effect the other requests of the organization
\* can see.
GotoSeen(r, q) ==
    req' = [s \in Slot |->
              IF s = r THEN q
              ELSE IF Active(s) /\ Conflict(req[s], req[r])
                   THEN [req[s] EXCEPT !.solo = FALSE]
                   ELSE req[s]]

\* A request ends with its organization in step iff it was undisturbed and its
\* Apply succeeded; one that touched nothing leaves the verdict alone.
Verdict(q) ==
    fresh' = IF q.touched THEN [fresh EXCEPT ![q.org] = q.applied /\ q.solo]
                          ELSE fresh

\* The handler returns.
Return(r) ==
    /\ Goto(r, Blank)
    /\ Verdict(req[r])

-----------------------------------------------------------------------------
Init ==
    /\ status = [p \in Project |-> "free"]
    /\ latest = [p \in Project |-> {}]
    /\ event = [p \in Project |-> 0]
    /\ revisions = {}
    /\ nextId = 1
    /\ settings = [o \in Org |-> NewSettings]
    /\ req = [r \in Slot |-> Blank]
    /\ gateway = [o \in Org |-> {}]
    /\ config = [o \in Org |-> {}]
    /\ fresh = [o \in Org |-> TRUE]

\* CreateDeploymentRevision's row.
NewRow(p, b) == [id |-> nextId, project |-> p, src |-> b]

(* POST /projects: IsUserPartOfOrg reads the organization.  p is the id the
   database is going to generate.                                          *)
BeginPost(r, p, url) ==
    /\ ~Active(r)
    /\ status[p] = "free"
    /\ \A s \in Slot : p \notin req[s].project
    /\ nextId <= MaxRevision
    /\ Goto(r, [Blank EXCEPT !.pc = "store", !.op = "post", !.org = OrgOf[p],
                             !.project = {p},
                             !.body = [NoBody EXCEPT !.proxy = url],
                             !.snap = settings[OrgOf[p]], !.solo = TRUE])
    /\ UNCHANGED <<status, latest, event, revisions, nextId, settings, gateway,
                   config, fresh>>

\* Mutant: the table has no constraint on names.
PostProjectAnyName(r, p) ==
    /\ req[r].op = "post" /\ req[r].pc = "store" /\ p \in req[r].project
    /\ status' = [status EXCEPT ![p] = "live"]
    /\ \/ /\ req[r].body.proxy = {}
          /\ Return(r)
          /\ UNCHANGED <<latest, revisions, nextId>>
       \/ /\ req[r].body.proxy # {}
          /\ latest' = [latest EXCEPT ![p] = {NewRow(p, req[r].body)}]
          /\ revisions' = revisions \cup {NewRow(p, req[r].body)}
          /\ nextId' = nextId + 1
          /\ GotoSeen(r, [req[r] EXCEPT !.pc = "list", !.touched = TRUE])
          /\ UNCHANGED fresh
    /\ UNCHANGED <<event, settings, gateway, config>>

\* The transaction of postProject, which nobody sees before it commits: the
\* project and, if there is a proxyUrl, its first revision.  Without one the
\* handler answers without calling Apply.  The insertion fails if the name is taken.
PostProject(r, p) ==
    /\ req[r].op = "post" /\ req[r].pc = "store" /\ p \in req[r].project
    /\ \/ /\ NameTaken(p)
          /\ Return(r)
          /\ UNCHANGED <<status, latest, revisions, nextId>>
       \/ /\ ~NameTaken(p)
          /\ req[r].body.proxy = {}
          /\ status' = [status EXCEPT ![p] = "live"]
          /\ Return(r)
          /\ UNCHANGED <<latest, revisions, nextId>>
       \/ /\ ~NameTaken(p)
          /\ req[r].body.proxy # {}
          /\ status' = [status EXCEPT ![p] = "live"]
          /\ latest' = [latest EXCEPT ![p] = {NewRow(p, req[r].body)}]
          /\ revisions' = revisions \cup {NewRow(p, req[r].body)}
          /\ nextId' = nextId + 1
          /\ GotoSeen(r, [req[r] EXCEPT !.pc = "list", !.touched = TRUE])
          /\ UNCHANGED fresh
    /\ UNCHANGED <<event, settings, gateway, config>>

(* PUT /projects/{id}/settings: validation and getProjectIDIfAllowed. *)
BeginPut(r, p, b) ==
    /\ ~Active(r)
    /\ status[p] = "live"
    /\ nextId <= MaxRevision
    /\ Acceptable(b)
    /\ Goto(r, [Blank EXCEPT !.pc = "summary", !.op = "put", !.org = OrgOf[p],
                             !.project = {p}, !.body = b, !.solo = TRUE])
    /\ UNCHANGED <<status, latest, event, revisions, nextId, settings, gateway,
                   config, fresh>>

\* The transaction begins: GetProjectSummary, and the fields to inherit.  The
\* handler ends here if the project is gone or has no URL at all.
PutSummary(r, p) ==
    /\ req[r].op = "put" /\ req[r].pc = "summary" /\ p \in req[r].project
    /\ LET b == Inherit(req[r].body, latest[p]) IN
       IF status[p] = "live" /\ (b.oci # {} \/ b.proxy # {})
       THEN /\ Goto(r, [req[r] EXCEPT !.pc = "store", !.body = b,
                                      !.snap = settings[req[r].org]])
            /\ UNCHANGED fresh
       ELSE Return(r)
    /\ UNCHANGED <<status, latest, event, revisions, nextId, settings, gateway,
                   config>>

\* CreateDeploymentRevision's statements, but for the wait: the new row, unless
\* the project is deleted, which violates the foreign key.
StoreRevision(r, p) ==
    /\ req[r].op = "put" /\ req[r].pc = "store" /\ p \in req[r].project
    /\ \/ /\ status[p] = "live"
          /\ nextId' = nextId + 1
          /\ Goto(r, [req[r] EXCEPT !.pc = "list",
                                    !.row = {NewRow(p, req[r].body)}])
          /\ UNCHANGED fresh
       \/ /\ status[p] # "live"
          /\ Return(r)
          /\ UNCHANGED nextId
    /\ UNCHANGED <<status, latest, event, revisions, settings, gateway, config>>

\* Mutant: the pointer is written without waiting for the row lock.
PutRevisionUnlocked(r, p) == StoreRevision(r, p)

\* Mutant: the summary is read FOR SHARE, and the UPDATE waits for everybody who has read it.
PutRevisionUpgrades(r, p) ==
    /\ ~Locked(p)
    /\ \A s \in Slot \ {r} : req[s].op = "put" /\ req[s].pc = "store" => p \notin req[s].project
    /\ StoreRevision(r, p)

\* CreateDeploymentRevision and AddDeploymentRevisionEvent: UPDATE Project waits
\* for the row lock.
PutRevision(r, p) == ~Locked(p) /\ StoreRevision(r, p)

\* Mutant: AddDeploymentRevisionEvent does not move the project's pointer.
PutCommitNoEvent(r, p) ==
    /\ req[r].op = "put" /\ req[r].pc = "commit" /\ p \in req[r].project
    /\ latest' = [latest EXCEPT ![p] = req[r].row]
    /\ revisions' = revisions \cup req[r].row
    /\ GotoSeen(r, Blank)
    /\ Verdict([req[r] EXCEPT !.touched = TRUE])
    /\ UNCHANGED <<status, event, nextId, settings, gateway, config>>

\* Mutant: RunTx rolls back at the end although the function returned nil.
PutRollback(r, p) ==
    /\ req[r].op = "put" /\ req[r].pc = "commit" /\ p \in req[r].project
    /\ GotoSeen(r, Blank)
    /\ Verdict([req[r] EXCEPT !.touched = TRUE])
    /\ UNCHANGED <<status, latest, event, revisions, nextId, settings, gateway,
                   config>>

\* RunTx commits, after Apply and after the client has its answer: the row, the
\* project's pointer to it and, for a hosted server, its first event.
PutCommit(r, p) ==
    /\ req[r].op = "put" /\ req[r].pc = "commit" /\ p \in req[r].project
    /\ latest' = [latest EXCEPT ![p] = req[r].row]
    /\ revisions' = revisions \cup req[r].row
    /\ event' = [event EXCEPT ![p] =
                    IF req[r].body.oci # {} THEN (CHOOSE w \in req[r].row : TRUE).id
                                            ELSE @]
    /\ GotoSeen(r, Blank)
    /\ Verdict([req[r] EXCEPT !.touched = TRUE])
    /\ UNCHANGED <<status, nextId, settings, gateway, config>>

(* DELETE /projects/{id}: getProjectIDIfAllowed. *)
BeginDelete(r, p) ==
    /\ ~Active(r)
    /\ status[p] = "live"
    /\ Goto(r, [Blank EXCEPT !.pc = "summary", !.op = "delete",
                             !.org = OrgOf[p], !.project = {p}, !.solo = TRUE])
    /\ UNCHANGED <<status, latest, event, revisions, nextId, settings, gateway,
                   config, fresh>>

\* GetProjectSummary, for the organization's settings.
DeleteSummary(r, p) ==
    /\ req[r].op = "delete" /\ req[r].pc = "summary" /\ p \in req[r].project
    /\ \/ /\ status[p] = "live"
          /\ Goto(r, [req[r] EXCEPT !.pc = "store", !.snap = settings[req[r].org]])
          /\ UNCHANGED fresh
       \/ /\ status[p] # "live"
          /\ Return(r)
    /\ UNCHANGED <<status, latest, event, revisions, nextId, settings, gateway,
                   config>>

\* DELETE FROM Project, but for the wait: it cascades to the revisions and their
\* events, and fails if another request has deleted the row.
RemoveProject(r, p) ==
    /\ req[r].op = "delete" /\ req[r].pc = "store" /\ p \in req[r].project
    /\ \/ /\ status[p] = "live"
          /\ status' = [status EXCEPT ![p] = "gone"]
          /\ latest' = [latest EXCEPT ![p] = {}]
          /\ event' = [event EXCEPT ![p] = 0]
          /\ revisions' = {w \in revisions : w.project # p}
          /\ GotoSeen(r, [req[r] EXCEPT !.pc = "list", !.touched = TRUE])
          /\ UNCHANGED fresh
       \/ /\ status[p] # "live"
          /\ Return(r)
          /\ UNCHANGED <<status, latest, event, revisions>>
    /\ UNCHANGED <<nextId, settings, gateway, config>>

\* Mutant: the deletion does not wait for a transaction that updates the project.
DeleteProjectUnlocked(r, p) == RemoveProject(r, p)

\* DeleteProject waits for the row lock.
DeleteProject(r, p) == ~Locked(p) /\ RemoveProject(r, p)

(* PUT /organizations/{id}: getOrganizationIfAllowed reads the organization. *)
BeginOrg(r, o, c) ==
    /\ ~Active(r)
    /\ Goto(r, [Blank EXCEPT !.pc = "store", !.op = "org", !.org = o,
                             !.change = c, !.snap = settings[o], !.solo = TRUE])
    /\ UNCHANGED <<status, latest, event, revisions, nextId, settings, gateway,
                   config, fresh>>

\* UpdateOrganization writes every column from the copy read before, unless the
\* request names none.
UpdateOrganization(r) ==
    /\ req[r].op = "org" /\ req[r].pc = "store"
    /\ LET s == Patched(req[r].snap, req[r].change) IN
       IF req[r].change # NoChange
       THEN /\ settings' = [settings EXCEPT ![req[r].org] = s]
            /\ GotoSeen(r, [req[r] EXCEPT !.pc = "list", !.snap = s,
                                          !.touched = TRUE])
       ELSE /\ Goto(r, [req[r] EXCEPT !.pc = "list"])
            /\ UNCHANGED settings
    /\ UNCHANGED <<status, latest, event, revisions, nextId, gateway, config,
                   fresh>>

\* Mutant: Apply reads through the pool instead of the caller's transaction.
ApplyListOutside(r) ==
    /\ req[r].pc = "list"
    /\ Goto(r, [req[r] EXCEPT !.pc = "apply",
                              !.any = ProjectsOf(req[r].org) # {},
                              !.rows = Summaries(req[r].org, {}, {})])
    /\ UNCHANGED <<status, latest, event, revisions, nextId, settings, gateway,
                   config, fresh>>

(* Apply: GetProjectSummaries, in putProjectSettings within its transaction. *)
ApplyList(r) ==
    /\ req[r].pc = "list"
    /\ Goto(r, [req[r] EXCEPT
                  !.pc = "apply",
                  !.any = ProjectsOf(req[r].org) # {},
                  !.rows = IF InTx(r)
                           THEN Summaries(req[r].org, req[r].project, req[r].row)
                           ELSE Summaries(req[r].org, {}, {})])
    /\ UNCHANGED <<status, latest, event, revisions, nextId, settings, gateway,
                   config, fresh>>

\* The whole spec is written with Force, or the resource deleted if the
\* organization has no project.  putProjectSettings then answers and commits,
\* the other handlers answer and return.  If the API's own answer is lost, Apply
\* returns an error, which is only logged.
ApplyWrite(r, answered) ==
    /\ answered \/ "k8s" \in Failures
    /\ req[r].pc = "apply"
    /\ gateway' = [gateway EXCEPT ![req[r].org] =
                      IF req[r].any
                      THEN {[settings |-> req[r].snap, rows |-> req[r].rows]}
                      ELSE {}]
    /\ LET q == [req[r] EXCEPT !.applied = answered, !.touched = TRUE] IN
       IF req[r].op = "put"
       THEN /\ GotoSeen(r, [q EXCEPT !.pc = "commit"])
            /\ UNCHANGED fresh
       ELSE /\ GotoSeen(r, Blank)
            /\ Verdict(q)
    /\ UNCHANGED <<status, latest, event, revisions, nextId, settings, config>>

\* The Kubernetes API refuses the request or never receives it: the handler logs
\* the error and goes on.
ApplyFails(r) ==
    /\ "k8s" \in Failures
    /\ req[r].pc = "apply"
    /\ IF req[r].op = "put"
       THEN /\ Goto(r, [req[r] EXCEPT !.pc = "commit"])
            /\ UNCHANGED fresh
       ELSE Return(r)
    /\ UNCHANGED <<status, latest, event, revisions, nextId, settings, gateway,
                   config>>

\* A query or the commit fails, the client disconnects and cancels the request's
\* context, or the process dies: an open transaction is rolled back and the
\* rest of the handler does not run.
Abort(r) ==
    /\ "abort" \in Failures
    /\ Active(r)
    /\ Goto(r, Blank)
    /\ Verdict([req[r] EXCEPT !.applied = FALSE])
    /\ UNCHANGED <<status, latest, event, revisions, nextId, settings, gateway,
                   config>>

-----------------------------------------------------------------------------
(* The sync webhook *)

\* GetGatewayConfig: the custom domain or else the organization's own host, and
\* one proxy per project entry, at the path made from the project's name.
GetGatewayConfig(o, g) ==
    [host    |-> IF g.settings.domain # {} THEN g.settings.domain ELSE {o},
     dcr     |-> g.settings.dcr,
     proxies |-> {[path |-> NameOf[w.project], webhook |-> w.id, http |-> w.src.proxy] :
                     w \in g.rows}]

\* GetGatewayConfig returns an error if a proxy URL does not parse.
Renderable(g) == \A w \in g.rows : w.src.proxy \cap BadUrl = {}

\* Mutant: the children are created once and never replaced.
SyncOnce(o) ==
    /\ "metacontroller" \notin Failures
    /\ \A g \in gateway[o] : Renderable(g)
    /\ config[o] = {} /\ gateway[o] # {}
    /\ config' = [config EXCEPT ![o] = {GetGatewayConfig(o, g) : g \in gateway[o]}]
    /\ UNCHANGED <<status, latest, event, revisions, nextId, settings, req,
                   gateway, fresh>>

\* metacontroller notices a difference, calls the webhook and replaces the
\* children; without a parent they are garbage collected.
Sync(o) ==
    /\ "metacontroller" \notin Failures
    /\ \A g \in gateway[o] : Renderable(g)
    /\ config[o] # {GetGatewayConfig(o, g) : g \in gateway[o]}
    /\ config' = [config EXCEPT ![o] = {GetGatewayConfig(o, g) : g \in gateway[o]}]
    /\ UNCHANGED <<status, latest, event, revisions, nextId, settings, req,
                   gateway, fresh>>

-----------------------------------------------------------------------------
\* The steps of the handler in slot r, once it has begun.
Handle(r) ==
    \/ \E p \in Project : \/ PostProject(r, p)
                          \/ PutSummary(r, p)
                          \/ PutRevision(r, p)
                          \/ PutCommit(r, p)
                          \/ DeleteSummary(r, p)
                          \/ DeleteProject(r, p)
    \/ UpdateOrganization(r)
    \/ ApplyList(r)
    \/ \E answered \in BOOLEAN : ApplyWrite(r, answered)

\* A client's request arrives in slot r.
Arrive(r) ==
    \/ \E p \in Project, url \in Maybe(Url) : BeginPost(r, p, url)
    \/ \E p \in Project, b \in Bodies : BeginPut(r, p, b)
    \/ \E p \in Project : BeginDelete(r, p)
    \/ \E o \in Org, c \in Changes : BeginOrg(r, o, c)

Next ==
    \/ \E r \in Slot : Arrive(r) \/ Handle(r) \/ ApplyFails(r) \/ Abort(r)
    \/ \E o \in Org : Sync(o)

Spec == Init /\ [][Next]_vars

\* A goroutine is not descheduled forever and the database and Kubernetes
\* answer or fail; PostgreSQL queues the waiters for a row lock; metacontroller
\* resyncs.  Clients need not send anything.
FairSpec ==
    /\ Spec
    /\ \A r \in Slot : /\ WF_vars(Handle(r))
                       /\ SF_vars(\E p \in Project : \/ PutRevision(r, p)
                                                     \/ DeleteProject(r, p))
    /\ \A o \in Org : WF_vars(Sync(o))

-----------------------------------------------------------------------------
(* Properties *)

\* Every variable keeps its type.
TypeOK ==
    /\ status \in [Project -> {"free", "live", "gone"}]
    /\ latest \in [Project -> Maybe(Row)]
    /\ event \in [Project -> Nat]
    /\ revisions \subseteq Row
    /\ nextId \in Nat \ {0}
    /\ settings \in [Org -> Settings]
    /\ req \in [Slot -> Request]
    /\ gateway \in [Org -> SUBSET GatewaySpec]
    /\ fresh \in [Org -> BOOLEAN]

Idle(o) == \A r \in Slot : Active(r) => req[r].org # o

\* What the MCPGateway of o ought to serve.
Desired(o) == Summaries(o, {}, {})

\* The MCPGateway of o says what the database says; it may be absent while no
\* project has a revision.
InSync(o) ==
    \/ gateway[o] = {[settings |-> settings[o], rows |-> Desired(o)]}
    \/ gateway[o] = {} /\ Desired(o) = {}

\* Apply always writes the whole organization, so one request that runs
\* undisturbed to a successful Apply repairs whatever earlier failures and races
\* left behind, and settings updates of one and the same project never disturb
\* each other: when the last request that touched an organization was such a
\* request, the MCPGateway and the database agree once the organization is idle.
FreshInSync == \A o \in Org : fresh[o] /\ Idle(o) => InSync(o)

\* Project.latest_deployment_revision_id points to a row of that project, and
\* concurrent settings updates leave it at the newest one: the row lock held
\* from CreateDeploymentRevision to the commit keeps an older transaction from
\* overwriting a newer one's pointer.
LatestIsNewest ==
    \A p \in Project :
        /\ \A l \in latest[p] : l \in revisions /\ l.project = p
        /\ \A w \in revisions :
              w.project = p => \E l \in latest[p] : w.id <= l.id

\* A hosted latest revision always has its event: the two pointers of a Project
\* move in one transaction, and a later event never belongs to an older
\* revision (the summary query drops an event that is not the latest
\* revision's).
HostedHasEvent ==
    \A p \in Project : \A l \in latest[p] :
        /\ event[p] <= l.id
        /\ l.src.oci # {} => event[p] = l.id

\* The rendered configuration has one proxy per path, although a project may be
\* deleted and its name given to a new one while Apply is at work, and although
\* a transaction's own revision stands in for the committed one.
UniquePaths ==
    \A o \in Org : \A g \in gateway[o] : \A a, b \in GetGatewayConfig(o, g).proxies :
        a.path = b.path => a = b

\* Although Apply runs before the commit, a gateway only names revisions (and so
\* only calls log webhooks) that are committed, about to be, or of a deleted
\* project, as long as no transaction fails after its Apply.
NoPhantomRevision ==
    "abort" \notin Failures =>
        \A o \in Org : \A g \in gateway[o] : \A w \in g.rows :
            \/ w \in revisions
            \/ status[w.project] = "gone"
            \/ \E r \in Slot : InTx(r) /\ w \in req[r].row

\* The published version of each project: the id its pointer holds.
Version == [p \in Project |->
               IF latest[p] = {} THEN 0 ELSE (CHOOSE l \in latest[p] : TRUE).id]

Catalog == INSTANCE ProjectCatalog WITH life <- status, version <- Version

\* The handlers implement the catalog: in the database a project never returns
\* to an older revision, never comes back after its deletion and never keeps a
\* revision beyond it, however requests overlap, fail or die.
CatalogSpec == Catalog!Spec

\* Every request ends: nobody waits for a row lock for ever.
RequestsFinish == \A r \in Slot : Active(r) ~> ~Active(r)

\* The gateways of o are configured from what the database says.
Served(o) ==
    \/ config[o] = {GetGatewayConfig(o, [settings |-> settings[o], rows |-> Desired(o)])}
    \/ config[o] = {} /\ Desired(o) = {}

\* Once an organization stays idle with a good verdict and parsable URLs, its
\* gateways end up configured from what the database says, and stay so.
EventuallyServed ==
    \A o \in Org :
        <>[](Idle(o) /\ fresh[o] /\ \A g \in gateway[o] : Renderable(g))
        => <>[]Served(o)

\* The two halves of EventuallyServed but for the fairness.  An idle organization with a
\* good verdict that is not served has a Sync to come, and that Sync serves it, whatever
\* happens to the other organizations; one that is served stays so.
SyncDue ==
    \A o \in Org : Idle(o) /\ fresh[o] /\ ~Served(o)
        => config[o] # {GetGatewayConfig(o, g) : g \in gateway[o]}

SyncServes ==
    [][\A o \in Org : Idle(o) /\ fresh[o] /\ (Served(o) \/ Sync(o)) => Served(o)']_vars

-----------------------------------------------------------------------------
(* The inductive invariant behind the safety properties *)

\* The local variables of a handler fit the step it is at.
Shape(q) ==
    /\ q.pc = "commit" => q.op = "put"
    /\ q.pc = "summary" => q.op \in {"put", "delete"}
    /\ q.pc # "idle" /\ q.op # "org" =>
          \E p \in Project : q.project = {p} /\ q.org = OrgOf[p]
    /\ q.op = "put" /\ q.pc \in {"list", "apply", "commit"} =>
          \E w \in q.row : q.row = {w} /\ q.project = {w.project} /\ w.src = q.body
    /\ q.pc = "idle" => q.project = {}
    /\ q.pc \in {"summary", "store"} => ~q.touched
    /\ q.applied => q.pc = "commit"
    /\ q.op = "post" /\ q.pc = "store" => q.body.oci = {}

Shapes == \A r \in Slot : Shape(req[r])

\* Rows belong to live projects and have been numbered.
RowsLive ==
    /\ \A w \in revisions : status[w.project] = "live" /\ w.id < nextId
    /\ \A p \in Project : event[p] < nextId /\ (status[p] # "live" => latest[p] = {})

\* An open transaction holds its project alive and its revision is the newest.
TxNewest ==
    \A r \in Slot : InTx(r) =>
        \A w \in req[r].row :
            /\ status[w.project] = "live"
            /\ w.id < nextId
            /\ event[w.project] < w.id
            /\ \A v \in revisions : v.project = w.project => v.id < w.id

\* The row lock: one open transaction per project.
Exclusive ==
    \A r, s \in Slot : InTx(r) /\ InTx(s) /\ req[r].project = req[s].project => r = s

\* The id of a project about to be inserted is nobody else's.
Unborn ==
    \A r \in Slot : req[r].op = "post" /\ req[r].pc = "store" =>
        \A p \in req[r].project :
            /\ status[p] = "free"
            /\ \A s \in Slot : p \in req[s].project => s = r

\* What Apply would list for the request in slot r now.
View(r) == IF InTx(r) THEN Summaries(req[r].org, req[r].project, req[r].row)
                      ELSE Summaries(req[r].org, {}, {})

\* What an undisturbed request has read is still true.
SoloFacts(r) ==
    req[r].solo =>
        /\ req[r].pc \in {"store", "list", "apply", "commit"} =>
              req[r].snap = settings[req[r].org]
        /\ req[r].pc = "apply" =>
              req[r].rows = View(r) /\ (~req[r].any => View(r) = {})
        /\ req[r].pc = "commit" /\ req[r].applied =>
              gateway[req[r].org] = {[settings |-> settings[req[r].org],
                                      rows |-> View(r)]}

\* A good verdict holds until a request has a visible effect.
FreshFacts ==
    \A o \in Org :
        fresh[o] /\ (\A r \in Slot : Active(r) /\ req[r].org = o => ~req[r].touched)
        => InSync(o)

\* The strengthening from which FreshInSync, LatestIsNewest and HostedHasEvent
\* follow: every request's local variables fit its step, the row lock excludes,
\* and what an undisturbed request has read still holds.
Inv ==
    /\ TypeOK
    /\ Shapes
    /\ RowsLive
    /\ LatestIsNewest
    /\ HostedHasEvent
    /\ TxNewest
    /\ Exclusive
    /\ Unborn
    /\ \A r \in Slot : SoloFacts(r)
    /\ FreshFacts

-----------------------------------------------------------------------------
(* What the repository says and the code does not do; see the README. *)

\* "Proxy URL not allowed if OCI URL is set" (putProjectSettings).
OneSource == \A w \in revisions : w.src.oci = {} \/ w.src.proxy = {}

\* "Invalid proxy URL format" (putProjectSettings): proxy URLs parse, so that
\* the sync webhook can render every MCPGateway.
AllRenderable == \A o \in Org : \A g \in gateway[o] : Renderable(g)

\* "Permanently delete this project [...] Your MCP server will stop working."
\* (settings page): when every request has ended without an error, no
\* MCPGateway serves a deleted project.
DeletedStopsWorking ==
    \A p \in Project :
        status[p] = "gone" /\ Idle(OrgOf[p])
        => \A g \in gateway[OrgOf[p]] : \A w \in g.rows : w.project # p

=============================================================================
