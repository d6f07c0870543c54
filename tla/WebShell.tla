------------------------------ MODULE WebShell ------------------------------
(***************************************************************************)
(* The frame of the web UI: the context (the user's organizations and      *)
(* projects, loaded once and again after some changes), the router with    *)
(* its guards, and the forms whose answers change the context and move the *)
(* user on.  What is selected follows from the route and the context, each *)
(* of which changes on its own; a guard lets a navigation wait until the   *)
(* context has loaded, and a newer navigation replaces one that waits.     *)
(***************************************************************************)
EXTENDS Naturals, FiniteSets, WebClient

CONSTANTS
    OrgOf,       \* the organization of a project
    Tab,         \* the pages of a project: "project" is its dashboard
    MaxClicks,   \* bound: links a user follows
    MaxForms,    \* bound: forms a user submits
    MaxChanges   \* bound: changes others make and failures

ASSUME WebShellAssumption ==
    /\ OrgOf \in [Project -> Org]
    /\ Tab \subseteq {"project", "check", "logs", "prompts", "deployments", "monitoring"}
    /\ {"project", "check"} \subseteq Tab
    /\ MaxClicks \in Nat /\ MaxForms \in Nat /\ MaxChanges \in Nat

VARIABLES
    member,      \* database: the organizations the user is a member of
    existing,    \* database: the projects of all organizations
    gone,        \* history: the projects that were deleted
    context,     \* contextService.context; its flight is [orgs, projects] as far as read
    route,       \* the activated route
    navigating,  \* the navigation under way [to, phase]
    naming,      \* the request the form for an organization waits for, 0 if it is open
    requests,    \* what the forms have sent, [number, kind, of, result]
    count,       \* [clicks, forms, changes] so far
    founded,     \* history: organizations this session was told it has created
    announced,   \* history: projects this session has registered as created
    dropped,     \* history: projects this session has registered as deleted
    lost,        \* history: the organizations the user was removed from
    refused,     \* history: a reload of the context was refused, and no other request made since
    interrupted  \* history: a navigation was replaced, or the context failed to load

shellVars == <<member, existing, gone, context, route, navigating, naming, requests, count, founded,
               announced, dropped, lost, refused, interrupted>>
history == <<founded, announced, dropped, lost, refused, interrupted>>

-----------------------------------------------------------------------------
(* Routes *)

At(page, o, p) == [page |-> page, org |-> o, project |-> p]
Plain(page) == At(page, Nothing, Nothing)
OfOrg(page, o) == At(page, o, Nothing)
OfProject(page, p) == At(page, OrgOf[p], p)

OrgForms == {"onboarding", "organizations/new"}

PageName == {"blank", "home", "dashboard", "settings", "new", "project settings"} \cup OrgForms \cup Tab

\* Only the default page may pair a project with an organization that is not its own.
Routes ==
    {r \in [page : PageName, org : Org \cup {Nothing}, project : Project \cup {Nothing}] :
        /\ r.page \in {"dashboard", "settings", "new"} => r.org \in Org
        /\ r.page \in Tab \cup {"project settings"} => r.org \in Org /\ r.project \in Project
        /\ r.page \in (Tab \ {"project"}) \cup {"project settings"} => r.org = OrgOf[r.project]}

Reads == [orgs : (SUBSET Org) \cup {Nothing}, projects : (SUBSET Project) \cup {Nothing}]

\* A request and a navigation are objects, not undefined.
ASSUME NothingIsNoObject ==
    /\ Nothing \notin Reads
    /\ Nothing \notin [to : Routes, phase : {"context", "page"}]

-----------------------------------------------------------------------------
(* What follows from the context and the route *)

organizations == IF context.value = Nothing THEN {} ELSE context.value.orgs
projects == IF context.value = Nothing THEN {} ELSE context.value.projects

ProjectsOf(o) == {p \in projects : OrgOf[p] = o}

selectedOrg == IF route.org \in organizations THEN route.org ELSE Nothing
selectedProject ==
    IF route.project \in projects /\ OrgOf[route.project] = selectedOrg
    THEN route.project ELSE Nothing

\* The menus of the header.
HeaderLinks ==
    {Plain("home"), Plain("organizations/new")}
        \cup {OfOrg("dashboard", o) : o \in organizations}
        \cup {OfProject("project", p) : p \in {q \in projects : OrgOf[q] \in organizations}}
        \cup {OfOrg("settings", o) : o \in {selectedOrg} \ {Nothing}}

\* The line below it.
navItems ==
    IF selectedOrg = Nothing THEN {}
    ELSE IF selectedProject = Nothing
    THEN {OfOrg("dashboard", selectedOrg), OfOrg("settings", selectedOrg)}
    ELSE {OfProject(tab, selectedProject) : tab \in (Tab \ {"check"}) \cup {"project settings"}}

\* The menu beside the settings.
SettingsLinks ==
    IF route.page \in {"settings", "project settings"} /\ selectedOrg # Nothing
    THEN {OfOrg("settings", selectedOrg)}
            \cup {OfProject("project settings", p) : p \in ProjectsOf(selectedOrg)}
    ELSE {}

\* The dashboard offers to create a project as long as it lists none, thus also while the
\* list is loading.
GridLinks == IF route.page = "dashboard" THEN {OfOrg("new", route.org)} ELSE {}

Links ==
    IF route.page = "blank" THEN {}
    ELSE HeaderLinks \cup navItems \cup SettingsLinks \cup GridLinks

-----------------------------------------------------------------------------
(* The router *)

NoReads == [orgs |-> Nothing, projects |-> Nothing]

ShellInit ==
    /\ member \in SUBSET Org
    /\ existing \in {P \in SUBSET Project : \A p \in P : OrgOf[p] \in member}
    /\ gone = {}
    /\ context = Requested(NoReads)
    /\ route = Plain("blank")
    /\ navigating = [to |-> Plain("home"), phase |-> "context"]
    /\ naming = 0
    /\ requests = {}
    /\ count = [clicks |-> 0, forms |-> 0, changes |-> 0]
    /\ founded = {} /\ announced = {} /\ dropped = {} /\ lost = {}
    /\ refused = FALSE /\ interrupted = FALSE

\* A navigation replaces the one under way; one to the current URL is skipped.
Navigate(to) ==
    navigating' = IF to = route THEN Nothing ELSE [to |-> to, phase |-> "context"]

Click(to) ==
    /\ count.clicks < MaxClicks
    /\ count' = [count EXCEPT !.clicks = @ + 1]
    /\ Navigate(to)
    /\ interrupted' = (interrupted \/ navigating # Nothing)
    /\ UNCHANGED <<member, existing, gone, context, route, naming, requests, founded, announced,
                   dropped, lost, refused>>

Arrive(to) ==
    /\ route' = to
    /\ navigating' = Nothing
    /\ naming' = 0

Redirect(to) == Navigate(to) /\ UNCHANGED <<route, naming>>

Cancel == navigating' = Nothing /\ UNCHANGED <<route, naming>>

\* Mutant: the guard waits for a value.
ContextGuardResolved ==
    /\ navigating # Nothing /\ navigating.phase = "context"
    /\ context.status = "resolved"
    /\ LET to == navigating.to IN
       IF organizations = {} /\ to.page # "onboarding" THEN Redirect(Plain("onboarding"))
       ELSE IF to.page = "onboarding" /\ organizations # {} THEN Redirect(Plain("home"))
       ELSE IF to.page \in {"home", "dashboard"}
       THEN navigating' = [navigating EXCEPT !.phase = "page"] /\ UNCHANGED <<route, naming>>
       ELSE Arrive(to)
    /\ UNCHANGED <<member, existing, gone, context, requests, count, history>>

\* contextGuard and, in the same turn, onboardingGuard.  Only two pages have a guard of
\* their own that waits again.
ContextGuard ==
    /\ navigating # Nothing /\ navigating.phase = "context"
    /\ Done(context)
    /\ LET to == navigating.to IN
       IF context.status = "error" THEN Cancel
       ELSE IF organizations = {} /\ to.page # "onboarding" THEN Redirect(Plain("onboarding"))
       ELSE IF to.page = "onboarding" /\ organizations # {} THEN Redirect(Plain("home"))
       ELSE IF to.page \in {"home", "dashboard"}
       THEN navigating' = [navigating EXCEPT !.phase = "page"] /\ UNCHANGED <<route, naming>>
       ELSE Arrive(to)
    /\ UNCHANGED <<member, existing, gone, context, requests, count, history>>

\* redirectToDefaultPage; with an error of the context selectedOrg() throws.
DefaultPage ==
    /\ navigating # Nothing /\ navigating.phase = "page" /\ navigating.to.page = "home"
    /\ Done(context)
    /\ \/ context.status = "error" /\ Cancel
       \/ context.status = "resolved" /\ organizations = {} /\ Arrive(Plain("home"))
       \/ \E o \in IF selectedOrg = Nothing THEN organizations ELSE {selectedOrg} :
             IF Cardinality(organizations) = 1 /\ Cardinality(projects) = 1
             THEN \E p \in projects : Redirect(At("project", o, p))
             ELSE Redirect(OfOrg("dashboard", o))
    /\ UNCHANGED <<member, existing, gone, context, requests, count, history>>

\* redirectOrgDashboardToProject
OrgDashboardToProject ==
    /\ navigating # Nothing /\ navigating.phase = "page" /\ navigating.to.page = "dashboard"
    /\ Done(context)
    /\ LET o == navigating.to.org
           ps == IF o \in organizations THEN ProjectsOf(o) ELSE {}
       IN IF context.status = "error" THEN Cancel
          ELSE IF Cardinality(ps) = 1 THEN \E p \in ps : Redirect(OfProject("project", p))
          ELSE Arrive(navigating.to)
    /\ UNCHANGED <<member, existing, gone, context, requests, count, history>>

-----------------------------------------------------------------------------
(* The context *)

\* GET /context: two queries, one after the other.
ReadOrgs ==
    /\ context.flight # Nothing /\ context.flight.orgs = Nothing
    /\ context' = [context EXCEPT !.flight.orgs = member]
    /\ UNCHANGED <<member, existing, gone, route, navigating, naming, requests, count, history>>

ReadProjects ==
    /\ context.flight # Nothing /\ context.flight.orgs # Nothing
    /\ context.flight.projects = Nothing
    /\ context' = [context EXCEPT !.flight.projects = {p \in existing : OrgOf[p] \in member}]
    /\ UNCHANGED <<member, existing, gone, route, navigating, naming, requests, count, history>>

ContextLoaded ==
    /\ context.flight # Nothing /\ context.flight.projects # Nothing
    /\ context' = Resolved(context.flight)
    /\ UNCHANGED <<member, existing, gone, route, navigating, naming, requests, count, history>>

ContextFails ==
    /\ context.flight # Nothing
    /\ count.changes < MaxChanges
    /\ count' = [count EXCEPT !.changes = @ + 1]
    /\ context' = Broken
    /\ interrupted' = TRUE
    /\ UNCHANGED <<member, existing, gone, route, navigating, naming, requests, founded, announced,
                   dropped, lost, refused>>

-----------------------------------------------------------------------------
(* The forms *)

Send(kind, of) ==
    /\ count.forms < MaxForms
    /\ count' = [count EXCEPT !.forms = @ + 1]
    /\ requests' = requests \cup {[number |-> count.forms + 1, kind |-> kind, of |-> of,
                                 result |-> "sent"]}
    /\ UNCHANGED <<member, existing, gone, context, route, navigating, history>>

SubmitOrg(o) ==
    /\ route.page \in OrgForms
    /\ naming = 0
    /\ naming' = count.forms + 1
    /\ Send("org", o)

SubmitProject(p) ==
    /\ route.page = "new" /\ selectedOrg = OrgOf[p]
    /\ p \notin existing \cup gone
    /\ Send("project", p)
    /\ UNCHANGED naming

SubmitDelete ==
    /\ route.page = "project settings" /\ selectedProject # Nothing
    /\ Send("delete", selectedProject)
    /\ UNCHANGED naming

\* The API: names are unique, and only what exists can be deleted.
ServeRequest(r) ==
    LET allowed == CASE r.kind = "org" -> r.of \notin member \cup lost
                     [] r.kind = "project" -> r.of \notin existing \cup gone /\ OrgOf[r.of] \in member
                     [] r.kind = "delete" -> r.of \in existing /\ OrgOf[r.of] \in member
    IN /\ r.result = "sent"
       /\ requests' = (requests \ {r})
             \cup {[r EXCEPT !.result = IF allowed THEN "done" ELSE "refused"]}
       /\ member' = IF allowed /\ r.kind = "org" THEN member \cup {r.of} ELSE member
       /\ existing' = IF ~allowed THEN existing
                      ELSE CASE r.kind = "org" -> existing
                             [] r.kind = "project" -> existing \cup {r.of}
                             [] r.kind = "delete" -> existing \ {r.of}
       /\ gone' = IF allowed /\ r.kind = "delete" THEN gone \cup {r.of} ELSE gone
       /\ UNCHANGED <<context, route, navigating, naming, count, history>>

\* Mutant: the user is moved on without loading the context again.
OrgCreatedUnloaded(r) ==
    /\ r.kind = "org" /\ r.result = "done"
    /\ requests' = requests \ {r}
    /\ Navigate(OfOrg("new", r.of))
    /\ founded' = founded \cup {r.of}
    /\ interrupted' = (interrupted \/ navigating # Nothing)
    /\ UNCHANGED <<member, existing, gone, context, refused, route, naming, count, announced, dropped,
                   lost>>

\* onSubmit: loading stays set.
OrgCreated(r) ==
    /\ r.kind = "org" /\ r.result = "done"
    /\ requests' = requests \ {r}
    /\ context' = Reloaded(context, NoReads)
    /\ refused' = (refused \/ context.flight # Nothing)
    /\ Navigate(OfOrg("new", r.of))
    /\ founded' = founded \cup {r.of}
    /\ interrupted' = (interrupted \/ navigating # Nothing)
    /\ UNCHANGED <<member, existing, gone, route, naming, count, announced, dropped, lost>>

\* Mutant: the project is not registered.
ProjectCreatedUnregistered(r) ==
    /\ r.kind = "project" /\ r.result = "done"
    /\ requests' = requests \ {r}
    /\ Navigate(OfProject("check", r.of))
    /\ announced' = announced \cup {r.of}
    /\ interrupted' = (interrupted \/ navigating # Nothing)
    /\ UNCHANGED <<member, existing, gone, context, route, naming, count, founded, dropped, lost,
                   refused>>

\* registerCreatedProject changes what the request is computed from.
ProjectCreated(r) ==
    /\ r.kind = "project" /\ r.result = "done"
    /\ requests' = requests \ {r}
    /\ context' = Requested(NoReads)
    /\ refused' = FALSE
    /\ Navigate(OfProject("check", r.of))
    /\ announced' = announced \cup {r.of}
    /\ interrupted' = (interrupted \/ navigating # Nothing)
    /\ UNCHANGED <<member, existing, gone, route, naming, count, founded, dropped, lost>>

\* Mutant: the context keeps the value it has.
ProjectDeletedReloads(r) ==
    /\ r.kind = "delete" /\ r.result = "done"
    /\ requests' = requests \ {r}
    /\ context' = Reloaded(context, NoReads)
    /\ Navigate(OfOrg("settings", OrgOf[r.of]))
    /\ dropped' = dropped \cup {r.of}
    /\ interrupted' = (interrupted \/ navigating # Nothing)
    /\ UNCHANGED <<member, existing, gone, route, naming, count, founded, announced, lost, refused>>

ProjectDeleted(r) ==
    /\ r.kind = "delete" /\ r.result = "done"
    /\ requests' = requests \ {r}
    /\ context' = Requested(NoReads)
    /\ refused' = FALSE
    /\ Navigate(OfOrg("settings", OrgOf[r.of]))
    /\ dropped' = dropped \cup {r.of}
    /\ interrupted' = (interrupted \/ navigating # Nothing)
    /\ UNCHANGED <<member, existing, gone, route, naming, count, founded, announced, lost>>

\* Mutant: the form stays closed after an error.
RefusedStaysClosed(r) ==
    /\ r.result # "done" /\ requests' = requests \ {r}
    /\ UNCHANGED <<member, existing, gone, context, route, navigating, naming, count, history>>

\* An error, which the form shows, or no answer at all.  The flag belongs to the form that
\* was sent, which may be gone.
FormRefused(r) ==
    /\ r.result # "done" /\ requests' = requests \ {r}
    /\ naming' = IF naming = r.number THEN 0 ELSE naming
    /\ UNCHANGED <<member, existing, gone, context, route, navigating, count, history>>

-----------------------------------------------------------------------------
(* The rest of the world *)

\* The user logs out, or an answer is 401: after the login the application starts again.
Restart ==
    /\ count.changes < MaxChanges
    /\ count' = [count EXCEPT !.changes = @ + 1]
    /\ context' = Requested(NoReads)
    /\ route' = Plain("blank")
    /\ navigating' = [to |-> Plain("home"), phase |-> "context"]
    /\ naming' = 0
    /\ requests' = {}
    /\ founded' = {} /\ announced' = {} /\ dropped' = {}
    /\ refused' = FALSE /\ interrupted' = FALSE
    /\ UNCHANGED <<member, existing, gone, lost>>

\* Other members create and delete projects and decide who is a member.
OthersChange ==
    /\ count.changes < MaxChanges
    /\ count' = [count EXCEPT !.changes = @ + 1]
    /\ \/ \E p \in Project \ (existing \cup gone) :
             /\ OrgOf[p] \in member
             /\ existing' = existing \cup {p}
             /\ UNCHANGED <<member, gone, lost>>
       \/ \E p \in existing :
             /\ existing' = existing \ {p}
             /\ gone' = gone \cup {p}
             /\ UNCHANGED <<member, lost>>
       \/ \E o \in Org \ member : member' = member \cup {o} /\ UNCHANGED <<existing, gone, lost>>
       \/ \E o \in member :
             /\ member' = member \ {o}
             /\ lost' = lost \cup {o}
             /\ UNCHANGED <<existing, gone>>
    /\ UNCHANGED <<context, route, navigating, naming, requests, founded, announced, dropped,
                   refused, interrupted>>

-----------------------------------------------------------------------------

Guards == ContextGuard \/ DefaultPage \/ OrgDashboardToProject
Loads == ReadOrgs \/ ReadProjects \/ ContextLoaded
FormAnswered(r) == OrgCreated(r) \/ ProjectCreated(r) \/ ProjectDeleted(r) \/ FormRefused(r)

ShellNext ==
    \/ Guards \/ Loads \/ ContextFails \/ Restart \/ OthersChange
    \/ \E to \in Links : Click(to)
    \/ \E o \in Org : SubmitOrg(o)
    \/ \E p \in Project : SubmitProject(p)
    \/ SubmitDelete
    \/ \E r \in requests : ServeRequest(r) \/ FormAnswered(r)

ShellSpec == ShellInit /\ [][ShellNext]_shellVars

\* Guards are run, and requests answered or reported as failed.
ShellFairness ==
    /\ WF_shellVars(Guards)
    /\ WF_shellVars(Loads \/ ContextFails)
    /\ WF_shellVars(\E r \in requests : ServeRequest(r) \/ FormAnswered(r))

-----------------------------------------------------------------------------
(* Properties *)

ShellTypeOK ==
    /\ member \subseteq Org /\ existing \subseteq Project /\ gone \subseteq Project
    /\ context \in [status : {"loading", "reloading", "resolved", "error"},
                    value : [orgs : SUBSET Org, projects : SUBSET Project] \cup {Nothing},
                    flight : Reads \cup {Nothing}]
    /\ route \in Routes
    /\ navigating \in [to : Routes, phase : {"context", "page"}] \cup {Nothing}
    /\ naming \in 0 .. MaxForms
    /\ requests \subseteq [number : 1 .. MaxForms, kind : {"org", "project", "delete"},
                           of : Org \cup Project, result : {"sent", "done", "refused"}]
    /\ \A r \in requests : r.of \in IF r.kind = "org" THEN Org ELSE Project
    /\ count \in [clicks : 0 .. MaxClicks, forms : 0 .. MaxForms, changes : 0 .. MaxChanges]
    /\ founded \subseteq Org /\ announced \subseteq Project /\ dropped \subseteq Project
    /\ lost \subseteq Org
    /\ refused \in BOOLEAN /\ interrupted \in BOOLEAN

\* Once a project's deletion has been confirmed nothing lists it: neither the context that
\* was on its way nor one asked for later brings it back, whatever else is created or reloaded.
DeletedGone == dropped \cap projects = {}

\* A user who is taken to the check page of a new project finds that project selected: the
\* page does nothing without one.
CreatedSelected ==
    (/\ route.page = "check" /\ route.project \in announced \ gone
     /\ OrgOf[route.project] \notin lost
     /\ context.value # Nothing)
    => selectedProject = route.project

\* A user who is taken to the page of a new organization finds it selected, unless the reload
\* was refused, which lasts until the context is requested anew: that happens when another
\* organization's creation, or a project's creation or deletion, was answered just before.
CreatedOrgKnown ==
    (/\ route.page = "new" /\ route.org \in founded \ lost
     /\ context.value # Nothing /\ ~refused)
    => selectedOrg = route.org

Lasting == {p \in announced \ gone : OrgOf[p] \notin lost}

\* What was answered is stored until others change it; the second query of the context does
\* not run before the first; no list lacks what lasts or has what was deleted.
ShellFacts ==
    /\ gone \cap existing = {}
    /\ dropped \subseteq gone
    /\ \A r \in requests : r.result = "done" =>
          /\ r.kind = "delete" => r.of \in gone
          /\ r.kind = "project" => r.of \in existing \cup gone /\ OrgOf[r.of] \in member \cup lost
    /\ Lasting \subseteq existing /\ \A p \in Lasting : OrgOf[p] \in member
    /\ context.flight # Nothing =>
          /\ context.flight.orgs # Nothing => \A p \in Lasting : OrgOf[p] \in context.flight.orgs
          /\ context.flight.projects # Nothing =>
                /\ context.flight.orgs # Nothing
                /\ Lasting \subseteq context.flight.projects
                /\ dropped \cap context.flight.projects = {}
    /\ context.value # Nothing =>
          Lasting \subseteq projects /\ \A p \in Lasting : OrgOf[p] \in organizations

\* The inductive invariant.
ShellInv == ShellTypeOK /\ ShellFacts /\ DeletedGone /\ CreatedSelected

\* No navigation hangs and no two guards send it in circles, whatever the context becomes.
NavigationEnds == (navigating # Nothing) ~> (navigating = Nothing)

\* A navigation that waits does so for a context whose request is on its way, and only the
\* two pages whose guards wait again are in the second phase: a guard or a request leads on.
NavigationAlive ==
    /\ navigating # Nothing => Done(context) \/ context.flight # Nothing
    /\ navigating # Nothing /\ navigating.phase = "page" => navigating.to.page \in {"home", "dashboard"}

\* How far a navigation is from its end while the context stays as it is.
Distance ==
    IF navigating = Nothing THEN 0
    ELSE IF organizations = {}
    THEN IF navigating.phase = "page" \/ navigating.to.page = "onboarding" THEN 1 ELSE 2
    ELSE IF navigating.phase = "page" THEN IF navigating.to.page = "home" THEN 4 ELSE 2
    ELSE CASE navigating.to.page = "onboarding" -> 6
           [] navigating.to.page = "home" -> 5
           [] navigating.to.page = "dashboard" -> 3
           [] OTHER -> 1

\* No guard sends a navigation back to where it came from: each brings it nearer.
GuardsDescend == [][Guards => Distance' < Distance]_shellVars

\* Once sent, that form has its answer to come, or the navigation to the next page is under
\* way and its guard will find an organization, so that it does not lead back to the form:
\* the reload that page waits for was not refused in favour of an earlier, empty context.
OrgFormWaits ==
    naming # 0 /\ ~interrupted /\ lost = {} =>
        \/ \E r \in requests : r.kind = "org" /\ r.number = naming
        \/ /\ navigating # Nothing /\ navigating.to.page = "new"
           /\ context.status = "resolved" => organizations # {}

\* The form for an organization ends in the next page or opens again, unless the navigation
\* to that page was replaced, the context failed or the organization was taken away: then its
\* button stays disabled.
OrgFormEnds ==
    \A n \in 1 .. MaxForms : (naming = n) ~> (naming # n \/ interrupted \/ lost # {})

=============================================================================
