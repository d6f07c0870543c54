------------------------------ MODULE LogsTable ------------------------------
(***************************************************************************)
(* The tables of a project's log and prompts.  The query, and with it the  *)
(* request, is computed from the selected project, the page, its size, the *)
(* order and a filter in the URL; the rows are the answer to the last      *)
(* request.  There is no row count: whether there is a next page shows     *)
(* only when it is empty.                                                  *)
(***************************************************************************)
EXTENDS Naturals, WebClient

CONSTANTS
    PageSize, DefaultSize,
    Filter,      \* the id and mcpSessionId of the URL; Nothing for neither
    Total,       \* the number of rows the API has for a project and a filter
    MaxPage,     \* bound: the pages a user goes to
    MaxInputs    \* bound: changes of project, filter, order and size

ASSUME LogsTableAssumption ==
    /\ PageSize \subseteq Nat \ {0} /\ DefaultSize \in PageSize
    /\ Nothing \in Filter
    /\ Total \in [Project -> [Filter -> Nat]]
    /\ MaxPage \in Nat /\ MaxInputs \in Nat

VARIABLES
    table,      \* which of the two tables it is
    query,      \* [project, page, size, sortBy, desc, filter]
    data,       \* the resource; its flight is the query it was sent with
    inputs,     \* changes so far
    turned,     \* history: the pages that were shown since the first one
    skewed      \* history: the rows were put in another order or filtered in between

tableVars == <<table, query, data, inputs, turned, skewed>>

\* The columns whose header is a button, and the ones the API can sort by.
LogsComponent ==
    [sortable |-> {"started_at", "duration", "http_status_code"},
     sortBy |-> "started_at", desc |-> TRUE]
PromptsComponent ==
    [sortable |-> {"started_at", "tool_name"}, sortBy |-> "started_at", desc |-> TRUE]

Component(t) == IF t = "logs" THEN LogsComponent ELSE PromptsComponent

AllowedSortBy(t) ==
    IF t = "logs" THEN {"started_at", "duration", "http_status_code"}
    ELSE {"started_at", "tool_name", "prompt"}

\* The request that follows from a query: none without a project.
RowsOf(q) == IF q.project = Nothing THEN Unrequested ELSE Requested(q)

RowCount(q) ==
    LET total == Total[q.project][q.filter]
        first == q.page * q.size
    IN IF total <= first THEN 0
       ELSE IF total - first < q.size THEN total - first ELSE q.size

getRowCount == IF data.value = Nothing THEN 0 ELSE data.value.count

TableInit ==
    /\ table \in {"logs", "prompts"}
    /\ \E f \in Filter :
          query = [project |-> Nothing, page |-> 0, size |-> DefaultSize,
                   sortBy |-> Component(table).sortBy, desc |-> Component(table).desc,
                   filter |-> f]
    /\ data = Unrequested
    /\ inputs = 0
    /\ turned = {}
    /\ skewed = FALSE

\* A change of the query takes the rows away and asks for others, in the same turn.
Ask(q) ==
    /\ query' = q
    /\ data' = RowsOf(q)
    /\ UNCHANGED table

Input == inputs < MaxInputs /\ inputs' = inputs + 1

\* Another project, or none while the context loads: the first page, in the default size.
ShowProject(p) ==
    /\ p # query.project
    /\ Input
    /\ Ask([query EXCEPT !.project = p, !.page = 0, !.size = DefaultSize])
    /\ turned' = {}
    /\ skewed' = FALSE

\* The filter changes with the URL, the page stays.
FilterBy(f) ==
    /\ f # query.filter
    /\ Input
    /\ Ask([query EXCEPT !.filter = f])
    /\ skewed' = (skewed \/ query.page > 0)
    /\ turned' = {}

\* Mutant: the rows are sorted where they are.
filterClickLocal(column) ==
    /\ column \in Component(table).sortable
    /\ Input
    /\ query' = [query EXCEPT !.sortBy = column,
                              !.desc = (query.sortBy = column /\ ~query.desc)]
    /\ skewed' = (skewed \/ query.page > 0)
    /\ turned' = {}
    /\ UNCHANGED <<table, data>>

\* The header's button: ascending, and descending if it is ascending; the page stays.
filterClick(column) ==
    /\ column \in Component(table).sortable
    /\ Input
    /\ Ask([query EXCEPT !.sortBy = column,
                         !.desc = (query.sortBy = column /\ ~query.desc)])
    /\ skewed' = (skewed \/ query.page > 0)
    /\ turned' = {}

\* setPageSize and resetPageIndex
setPageSize(n) ==
    /\ n # query.size
    /\ Input
    /\ Ask([query EXCEPT !.size = n, !.page = 0])
    /\ turned' = {}
    /\ skewed' = FALSE

previousPage ==
    /\ query.page > 0
    /\ Ask([query EXCEPT !.page = @ - 1])
    /\ UNCHANGED <<inputs, turned, skewed>>

\* Mutant: the button does not wait for the rows.
nextPageAlways ==
    /\ query.page < MaxPage
    /\ Ask([query EXCEPT !.page = @ + 1])
    /\ UNCHANGED <<inputs, turned, skewed>>

nextPage ==
    /\ getRowCount # 0
    /\ query.page < MaxPage
    /\ Ask([query EXCEPT !.page = @ + 1])
    /\ UNCHANGED <<inputs, turned, skewed>>

\* The button with the arrow.
refresh ==
    /\ data' = Reloaded(data, query)
    /\ UNCHANGED <<table, query, inputs, turned, skewed>>

RowsLoaded ==
    /\ data.flight # Nothing
    /\ data' = Resolved([query |-> data.flight, count |-> RowCount(data.flight)])
    /\ turned' = turned \cup {query.page}
    /\ UNCHANGED <<table, query, inputs, skewed>>

RowsFail ==
    /\ data.flight # Nothing
    /\ data' = Broken
    /\ UNCHANGED <<table, query, inputs, turned, skewed>>

TableNext ==
    \/ \E p \in Project \cup {Nothing} : ShowProject(p)
    \/ \E f \in Filter : FilterBy(f)
    \/ \E column \in Component(table).sortable : filterClick(column)
    \/ \E n \in PageSize : setPageSize(n)
    \/ previousPage \/ nextPage \/ refresh \/ RowsLoaded \/ RowsFail

TableSpec == TableInit /\ [][TableNext]_tableVars

-----------------------------------------------------------------------------
(* Properties *)

\* In particular every order the table offers is one the API accepts.
TableTypeOK ==
    /\ table \in {"logs", "prompts"}
    /\ query \in [project : Project \cup {Nothing}, page : 0 .. MaxPage, size : PageSize,
                  sortBy : AllowedSortBy(table), desc : BOOLEAN, filter : Filter]
    /\ inputs \in 0 .. MaxInputs
    /\ turned \subseteq 0 .. MaxPage
    /\ skewed \in BOOLEAN

\* The rows on the page are those of the project, page, size, order and filter it names,
\* however fast these are changed and however late an answer comes.
RowsAnswerQuery == data.value # Nothing => data.value.query = query

\* Who goes from page to page has been shown all pages before the one at hand, which is what
\* LogPages relies on; sorting or filtering keeps the page's number and breaks this.
PagesContiguous == skewed \/ \A n \in 0 .. query.page : n < query.page => n \in turned

\* What is on its way was asked with the query of the page, and what is shown was counted.
TableFacts ==
    /\ data.flight # Nothing => data.flight = query
    /\ data.value # Nothing => query.page \in turned

\* The inductive invariant.
TableInv == TableTypeOK /\ TableFacts /\ RowsAnswerQuery /\ PagesContiguous

=============================================================================
