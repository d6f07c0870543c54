--------------------------- MODULE DashboardPages ---------------------------
(***************************************************************************)
(* The pages that only show something: the dashboards of an organization   *)
(* and of a project, its deployments and its monitoring.  Each piece is a  *)
(* resource of its own, requested for what is selected and for the filters *)
(* of the page.  A page stays, with its filters, when another organization *)
(* or project is selected, and the card with the tools lives as long as    *)
(* there is something to show in it.                                       *)
(***************************************************************************)
EXTENDS Integers, Sequences, WebClient

CONSTANTS
    Version,     \* build numbers of deployment revisions
    VersionsOf,  \* the ones a project has
    Period,      \* the choices of the time filter
    LastDay,     \* the first of them
    Tools,       \* a project's tools: how many arguments each of them has
    MaxLooks     \* bound: what a user selects

ASSUME DashboardPagesAssumption ==
    /\ Nothing \notin Version
    /\ VersionsOf \in [Project -> SUBSET Version]
    /\ LastDay \in Period
    /\ Tools \in [Project -> Seq(Nat)]
    /\ MaxLooks \in Nat

VARIABLES
    view,       \* what is shown [page, org, project], Nothing for what is not selected
    version,    \* selectedDeploymentVersion()
    period,     \* selectedTimeFilter()
    pieces,     \* the resources of all pages
    tool,       \* selectedTool as an index, 0 for the blank one
    argument,   \* currentArgumentIndex
    looks,      \* selections so far
    browsed     \* history: the arguments of the tool that were shown

dashVars == <<view, version, period, pieces, tool, argument, looks, browsed>>

Piece == {"summaries", "recent", "usage", "revisions", "analytics"}
View ==
    {[page |-> "organization", org |-> o, project |-> Nothing] : o \in Org \cup {Nothing}}
        \cup {[page |-> g, org |-> Nothing, project |-> p] :
                 g \in {"project", "deployments", "monitoring"}, p \in Project \cup {Nothing}}

-----------------------------------------------------------------------------
(* Requests *)

OfOrganization(piece, v) ==
    IF v.page = "organization" /\ v.org # Nothing THEN [piece |-> piece, of |-> v.org]
    ELSE Nothing

getProjectSummaries(v) == OfOrganization("summaries", v)
getRecentDeployments(v) == OfOrganization("recent", v)
getUsage(v) == OfOrganization("usage", v)

getDeploymentsForProject(v) ==
    IF v.page # "organization" /\ v.project # Nothing
    THEN [piece |-> "revisions", of |-> v.project] ELSE Nothing

getAnalyticsForProject(v, n, t) ==
    IF v.page = "project" /\ v.project # Nothing
    THEN [piece |-> "analytics", of |-> v.project, version |-> n, period |-> t] ELSE Nothing

Request(piece, v, n, t) ==
    CASE piece = "summaries" -> getProjectSummaries(v)
      [] piece = "recent" -> getRecentDeployments(v)
      [] piece = "usage" -> getUsage(v)
      [] piece = "revisions" -> getDeploymentsForProject(v)
      [] piece = "analytics" -> getAnalyticsForProject(v, n, t)

Fetch(request) == IF request = Nothing THEN Unrequested ELSE Requested(request)

-----------------------------------------------------------------------------
(* The card with the tools *)

Shown(piece) == pieces[piece].value

shownTools ==
    IF Shown("analytics") = Nothing THEN <<>>
    ELSE LET r == Shown("analytics") IN
         IF r.version \in VersionsOf[r.of] \cup {Nothing} THEN Tools[r.of] ELSE <<>>

Arguments == IF tool = 0 THEN 0 ELSE shownTools[tool]
Least(m, n) == IF m < n THEN m ELSE n
Most(m, n) == IF m > n THEN m ELSE n
HalfUp(n) == (n + 1) \div 2

visibleArguments(index, n) == (index + 1) .. Least(index + 2, n)
CanPrevious == argument # 0
CanNext == argument + 2 < Arguments
PageNumber == HalfUp(argument) + 1
PageTotal == HalfUp(Arguments)

-----------------------------------------------------------------------------

DashInit ==
    /\ view \in View
    /\ version = Nothing
    /\ period = LastDay
    /\ pieces = [x \in Piece |-> Fetch(Request(x, view, version, period))]
    /\ tool = 0
    /\ argument = 0
    /\ looks = 0
    /\ browsed = {}

Look == looks < MaxLooks /\ looks' = looks + 1

\* Mutant: an answer that is on its way is still waited for.
ShowLate(v) ==
    LET kept == view.page = v.page IN
    /\ Look
    /\ view' = v
    /\ version' = IF kept THEN version ELSE Nothing
    /\ period' = IF kept THEN period ELSE LastDay
    /\ pieces' = [x \in Piece |->
                    IF kept /\ pieces[x].status = "loading" THEN pieces[x]
                    ELSE Fetch(Request(x, v, version', period'))]
    /\ tool' = 0 /\ argument' = 0 /\ browsed' = {}

\* A link leads to another page or only to another organization or project, or the context
\* is loading or has loaded again: every piece of the page is requested, and its card gone.
Show(v) ==
    LET kept == view.page = v.page IN
    /\ Look
    /\ view' = v
    /\ version' = IF kept THEN version ELSE Nothing
    /\ period' = IF kept THEN period ELSE LastDay
    /\ pieces' = [x \in Piece |-> Fetch(Request(x, v, version', period'))]
    /\ tool' = 0 /\ argument' = 0 /\ browsed' = {}

\* Only the analytics depend on the filters; those of the monitoring page do nothing yet.
Refilter(n, t) ==
    /\ version' = n /\ period' = t
    /\ IF view.page = "project"
       THEN /\ pieces' = [pieces EXCEPT !["analytics"] =
                            Fetch(getAnalyticsForProject(view, n, t))]
            /\ tool' = 0 /\ argument' = 0 /\ browsed' = {}
       ELSE UNCHANGED <<pieces, tool, argument, browsed>>
    /\ UNCHANGED view

onDeploymentVersionChange(n) ==
    /\ view.page \in {"project", "monitoring"} /\ view.project # Nothing
    /\ \/ n = Nothing
       \/ Shown("revisions") # Nothing /\ n \in VersionsOf[Shown("revisions").of]
    /\ n # version
    /\ Look
    /\ Refilter(n, period)

onTimeFilterChange(t) ==
    /\ view.page = "project" /\ view.project # Nothing
    /\ t # period
    /\ Look
    /\ Refilter(version, t)

PieceLoaded(x) ==
    /\ pieces[x].flight # Nothing
    /\ pieces' = [pieces EXCEPT ![x] = Resolved(@.flight)]
    /\ IF x = "analytics" /\ Shown(x) = Nothing
       THEN LET n == IF shownTools' = <<>> THEN 0 ELSE shownTools'[1] IN
            /\ tool' = IF shownTools' = <<>> THEN 0 ELSE 1
            /\ browsed' = visibleArguments(0, n)
       ELSE UNCHANGED <<tool, browsed>>
    /\ UNCHANGED <<view, version, period, argument, looks>>

PieceFails(x) ==
    /\ pieces[x].flight # Nothing
    /\ pieces' = [pieces EXCEPT ![x] = Broken]
    /\ UNCHANGED <<view, version, period, tool, argument, looks, browsed>>

onToolChange(i) ==
    /\ i # tool
    /\ Look
    /\ tool' = i
    /\ argument' = 0
    /\ browsed' = visibleArguments(0, shownTools[i])
    /\ UNCHANGED <<view, version, period, pieces>>

Turn(index) ==
    /\ argument' = index
    /\ browsed' = browsed \cup visibleArguments(index, Arguments)
    /\ UNCHANGED <<view, version, period, pieces, tool, looks>>

previousArgument == CanPrevious /\ Turn(Most(0, argument - 2))

\* Mutant: the last page is the next one.
nextArgumentLast == CanNext /\ Turn(Arguments - 2)

nextArgument == CanNext /\ Turn(Least(Arguments - 2, argument + 2))

DashNext ==
    \/ \E v \in View : Show(v)
    \/ \E n \in Version \cup {Nothing} : onDeploymentVersionChange(n)
    \/ \E t \in Period : onTimeFilterChange(t)
    \/ \E x \in Piece : PieceLoaded(x) \/ PieceFails(x)
    \/ \E i \in 1 .. Len(shownTools) : onToolChange(i)
    \/ previousArgument \/ nextArgument

DashSpec == DashInit /\ [][DashNext]_dashVars

-----------------------------------------------------------------------------
(* Properties *)

Requests ==
    {Request(x, v, n, t) : x \in Piece, v \in View, n \in Version \cup {Nothing}, t \in Period}

DashTypeOK ==
    /\ view \in View
    /\ version \in Version \cup {Nothing}
    /\ period \in Period
    /\ pieces \in [Piece -> [status : {"idle", "loading", "resolved", "error"},
                            value : Requests \cup {Nothing}, flight : Requests \cup {Nothing}]]
    /\ tool \in Nat /\ argument \in Nat /\ looks \in Nat
    /\ browsed \subseteq Nat

\* Whatever is on the page was asked for with the organization or project and the filters
\* the page names, however they are changed while answers are on their way.
ShownBelongs ==
    \A x \in Piece : Shown(x) # Nothing => Shown(x) = Request(x, view, version, period)

\* The card shows a tool of the data and an existing page of its arguments, numbered right,
\* and who turns the pages to the last one has seen every argument, an odd last one too.
AllArgumentsShown ==
    /\ tool \in 0 .. Len(shownTools)
    /\ tool # 0 /\ Arguments > 0 =>
          /\ argument < Arguments /\ PageNumber \in 1 .. PageTotal
          /\ CanNext <=> PageNumber < PageTotal
    /\ tool # 0 /\ ~CanNext => 1 .. Arguments \subseteq browsed

\* What is on its way was asked for by the page and replaces nothing.
PieceFacts ==
    \A x \in Piece :
        pieces[x].flight # Nothing =>
            Shown(x) = Nothing /\ pieces[x].flight = Request(x, view, version, period)

\* Without data there is no tool; the pages of the arguments overlap only if their number is
\* odd, and all arguments up to those in view were shown.
CardFacts ==
    /\ Shown("analytics") = Nothing => tool = 0
    /\ tool \in 0 .. Len(shownTools)
    /\ argument # 0 => tool # 0 /\ argument + 2 <= Arguments
    /\ argument % 2 = 0 \/ Arguments % 2 = 1
    /\ 1 .. Least(argument + 2, Arguments) \subseteq browsed

\* The inductive invariant.
DashInv == DashTypeOK /\ PieceFacts /\ CardFacts /\ ShownBelongs /\ AllArgumentsShown

=============================================================================
