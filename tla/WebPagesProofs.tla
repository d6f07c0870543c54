---- MODULE WebPagesProofs ----
(***************************************************************************)
(* Proofs about the pages that show something: the theme, the tables, the  *)
(* list of members, the check page and the dashboards.                     *)
(***************************************************************************)
EXTENDS ThemeSwitch, LogsTable, MembersPage, ProjectCheck, DashboardPages, TLAPS

-----------------------------------------------------------------------------
(* The theme *)

LEMMA ThemeInitial == ThemeInit => ThemeInv
  BY DEF ThemeInit, ThemeInv, ThemeTypeOK, FixedTheme, ThemeApplied, Theme, Valid, DarkFor

LEMMA ThemeStep == ThemeInv /\ [ThemeNext]_themeVars => ThemeInv'
<1> SUFFICES ASSUME ThemeInv, [ThemeNext]_themeVars PROVE ThemeInv'
  OBVIOUS
<1> USE DEF ThemeInv, ThemeTypeOK, FixedTheme, ThemeApplied, Theme, Valid, DarkFor
<1>1. CASE toggleTheme
  BY <1>1 DEF toggleTheme
<1>2. CASE ApplyTheme
  BY <1>2 DEF ApplyTheme
<1>3. CASE SystemChanges
  BY <1>3 DEF SystemChanges
<1>4. CASE MediaChange
  BY <1>4 DEF MediaChange
<1>5. CASE ReloadPage
  BY <1>5 DEF ReloadPage
<1>6. CASE UNCHANGED themeVars
  BY <1>6 DEF themeVars
<1> QED
  BY <1>1, <1>2, <1>3, <1>4, <1>5, <1>6 DEF ThemeNext

\* The page is as dark as the chosen theme says and the theme survives a reload, in whatever
\* order the button, the effect, the operating system and its event come.
THEOREM ThemeKept == ThemeSpec => []ThemeApplied
<1>1. ThemeInv => ThemeApplied
  BY DEF ThemeInv
<1> QED
  BY ThemeInitial, ThemeStep, <1>1, PTL DEF ThemeSpec

-----------------------------------------------------------------------------
(* The tables *)

\* The columns a table offers are columns the API sorts by.
LEMMA OfferedAllowed ==
  ASSUME table \in {"logs", "prompts"}
  PROVE  /\ Component(table).sortable \subseteq AllowedSortBy(table)
         /\ Component(table).sortBy \in AllowedSortBy(table)
  BY DEF Component, LogsComponent, PromptsComponent, AllowedSortBy

LEMMA TableInitial == TableInit => TableInv
<1> SUFFICES ASSUME TableInit PROVE TableInv
  OBVIOUS
<1>0. 0 \in 0 .. MaxPage /\ 0 \in 0 .. MaxInputs /\ DefaultSize \in PageSize
  BY LogsTableAssumption
<1>a. /\ table \in {"logs", "prompts"}
      /\ Component(table).sortBy \in AllowedSortBy(table)
      /\ Component(table).desc \in BOOLEAN
  BY OfferedAllowed DEF TableInit, Component, LogsComponent, PromptsComponent
<1>b. PICK f \in Filter :
         query = [project |-> Nothing, page |-> 0, size |-> DefaultSize,
                  sortBy |-> Component(table).sortBy, desc |-> Component(table).desc,
                  filter |-> f]
  BY DEF TableInit
<1>1. TableTypeOK
  BY <1>0, <1>a, <1>b DEF TableInit, TableTypeOK
<1>2. TableFacts /\ RowsAnswerQuery
  BY DEF TableInit, TableFacts, RowsAnswerQuery, Unrequested
<1>3. PagesContiguous
  BY DEF TableInit, PagesContiguous
<1> QED
  BY <1>1, <1>2, <1>3 DEF TableInv

\* What asking with another query leaves of the rows: nothing is shown, and what is on its
\* way is that query.
LEMMA Asked ==
  ASSUME NEW q, Ask(q)
  PROVE  /\ query' = q /\ table' = table
         /\ data'.value = Nothing
         /\ data'.flight # Nothing => data'.flight = q
  BY DEF Ask, RowsOf, Unrequested, Requested

LEMMA TableStep == TableInv /\ [TableNext]_tableVars => TableInv'
<1> SUFFICES ASSUME TableInv, [TableNext]_tableVars PROVE TableInv'
  OBVIOUS
<1>t. /\ table \in {"logs", "prompts"}
      /\ query \in [project : Project \cup {Nothing}, page : 0 .. MaxPage, size : PageSize,
                    sortBy : AllowedSortBy(table), desc : BOOLEAN, filter : Filter]
      /\ inputs \in 0 .. MaxInputs /\ turned \subseteq 0 .. MaxPage /\ skewed \in BOOLEAN
      /\ MaxPage \in Nat /\ MaxInputs \in Nat /\ DefaultSize \in PageSize /\ Nothing \in Filter
  BY LogsTableAssumption DEF TableInv, TableTypeOK
<1>q. /\ data.flight # Nothing => data.flight = query
      /\ data.value # Nothing => query.page \in turned /\ data.value.query = query
      /\ skewed \/ \A n \in 0 .. query.page : n < query.page => n \in turned
  BY DEF TableInv, TableFacts, RowsAnswerQuery, PagesContiguous
<1>z. 0 \in 0 .. MaxPage /\ \A n \in 0 .. 0 : ~(n < 0)
  BY <1>t
<1>p. query.page > 0 \/ query.page = 0
  BY <1>t
<1>a. ASSUME NEW q, Ask(q),
             q \in [project : Project \cup {Nothing}, page : 0 .. MaxPage, size : PageSize,
                    sortBy : AllowedSortBy(table), desc : BOOLEAN, filter : Filter],
             inputs' \in 0 .. MaxInputs, turned' \subseteq 0 .. MaxPage, skewed' \in BOOLEAN,
             skewed' \/ \A n \in 0 .. q.page : n < q.page => n \in turned'
      PROVE  TableInv'
  <2>1. /\ query' = q /\ table' = table /\ data'.value = Nothing
        /\ data'.flight # Nothing => data'.flight = q
    BY <1>a, Asked
  <2>2. AllowedSortBy(table)' = AllowedSortBy(table)
    BY <2>1 DEF AllowedSortBy
  <2>3. TableTypeOK'
    BY <1>a, <1>t, <2>1, <2>2 DEF TableTypeOK
  <2>4. TableFacts' /\ RowsAnswerQuery' /\ PagesContiguous'
    BY <1>a, <2>1 DEF TableFacts, RowsAnswerQuery, PagesContiguous
  <2> QED
    BY <2>3, <2>4 DEF TableInv
<1>1. ASSUME NEW p \in Project \cup {Nothing}, ShowProject(p) PROVE TableInv'
  <2> DEFINE q == [query EXCEPT !.project = p, !.page = 0, !.size = DefaultSize]
  <2>1. q \in [project : Project \cup {Nothing}, page : 0 .. MaxPage, size : PageSize,
               sortBy : AllowedSortBy(table), desc : BOOLEAN, filter : Filter] /\ q.page = 0
    BY <1>t, <1>z
  <2>2. Ask(q) /\ turned' = {} /\ skewed' = FALSE /\ inputs' \in 0 .. MaxInputs
    BY <1>1, <1>t DEF ShowProject, Input
  <2> HIDE DEF q
  <2>3. skewed' \in BOOLEAN /\ turned' \subseteq 0 .. MaxPage
    BY <2>2
  <2>4. \A i \in 0 .. q.page : i < q.page => i \in turned'
    BY <2>1, <1>z
  <2> QED
    BY <2>1, <2>2, <2>3, <2>4, <1>a
<1>2. ASSUME NEW f \in Filter, FilterBy(f) PROVE TableInv'
  <2> DEFINE q == [query EXCEPT !.filter = f]
  <2>1. q \in [project : Project \cup {Nothing}, page : 0 .. MaxPage, size : PageSize,
               sortBy : AllowedSortBy(table), desc : BOOLEAN, filter : Filter]
        /\ q.page = query.page
    BY <1>t
  <2>2. Ask(q) /\ turned' = {} /\ inputs' \in 0 .. MaxInputs
        /\ skewed' = (skewed \/ query.page > 0)
    BY <1>2, <1>t DEF FilterBy, Input
  <2>3. skewed' \in BOOLEAN /\ (skewed' \/ query.page = 0)
    <3> DEFINE later == query.page > 0
    <3>1. skewed' = (skewed \/ later) /\ (later \/ query.page = 0) /\ later \in BOOLEAN
      BY <2>2, <1>p
    <3> HIDE DEF later
    <3> QED
      BY <3>1, <1>t, Zenon
  <2> HIDE DEF q
  <2> QED
    BY <2>1, <2>2, <2>3, <1>a, <1>t
<1>3. ASSUME NEW c \in Component(table).sortable, filterClick(c) PROVE TableInv'
  <2> DEFINE d == (query.sortBy = c /\ ~query.desc)
             q == [query EXCEPT !.sortBy = c, !.desc = d]
  <2>0. c \in AllowedSortBy(table) /\ d \in BOOLEAN
    BY <1>3, <1>t, OfferedAllowed
  <2>2. Ask(q) /\ turned' = {} /\ inputs' \in 0 .. MaxInputs
        /\ skewed' = (skewed \/ query.page > 0)
    BY <1>3, <1>t DEF filterClick, Input
  <2>3. skewed' \in BOOLEAN /\ (skewed' \/ query.page = 0)
    <3> DEFINE later == query.page > 0
    <3>1. skewed' = (skewed \/ later) /\ (later \/ query.page = 0) /\ later \in BOOLEAN
      BY <2>2, <1>p
    <3> HIDE DEF later
    <3> QED
      BY <3>1, <1>t, Zenon
  <2> HIDE DEF d
  <2>1. q \in [project : Project \cup {Nothing}, page : 0 .. MaxPage, size : PageSize,
               sortBy : AllowedSortBy(table), desc : BOOLEAN, filter : Filter]
        /\ q.page = query.page
    BY <2>0, <1>t
  <2> HIDE DEF q
  <2> QED
    BY <2>1, <2>2, <2>3, <1>a, <1>t
<1>4. ASSUME NEW n \in PageSize, setPageSize(n) PROVE TableInv'
  <2> DEFINE q == [query EXCEPT !.size = n, !.page = 0]
  <2>1. q \in [project : Project \cup {Nothing}, page : 0 .. MaxPage, size : PageSize,
               sortBy : AllowedSortBy(table), desc : BOOLEAN, filter : Filter] /\ q.page = 0
    BY <1>t, <1>z
  <2>2. Ask(q) /\ turned' = {} /\ skewed' = FALSE /\ inputs' \in 0 .. MaxInputs
    BY <1>4, <1>t DEF setPageSize, Input
  <2> HIDE DEF q
  <2>3. skewed' \in BOOLEAN /\ turned' \subseteq 0 .. MaxPage
    BY <2>2
  <2>4. \A i \in 0 .. q.page : i < q.page => i \in turned'
    BY <2>1, <1>z
  <2> QED
    BY <2>1, <2>2, <2>3, <2>4, <1>a
<1>5. CASE previousPage
  <2> DEFINE q == [query EXCEPT !.page = query.page - 1]
  <2>1. q \in [project : Project \cup {Nothing}, page : 0 .. MaxPage, size : PageSize,
               sortBy : AllowedSortBy(table), desc : BOOLEAN, filter : Filter]
        /\ q.page = query.page - 1
    BY <1>5, <1>t DEF previousPage
  <2>2. Ask(q) /\ turned' = turned /\ skewed' = skewed /\ inputs' = inputs
    BY <1>5 DEF previousPage
  <2> HIDE DEF q
  <2>3. skewed' \/ \A n \in 0 .. q.page : n < q.page => n \in turned'
    BY <2>1, <2>2, <1>q, <1>t
  <2> QED
    BY <2>1, <2>2, <2>3, <1>a, <1>t
<1>6. CASE nextPage
  <2> DEFINE q == [query EXCEPT !.page = query.page + 1]
  <2>1. q \in [project : Project \cup {Nothing}, page : 0 .. MaxPage, size : PageSize,
               sortBy : AllowedSortBy(table), desc : BOOLEAN, filter : Filter]
        /\ q.page = query.page + 1
    BY <1>6, <1>t DEF nextPage
  <2>2. Ask(q) /\ turned' = turned /\ skewed' = skewed /\ inputs' = inputs
    BY <1>6 DEF nextPage
  <2>4. query.page \in turned
    BY <1>6, <1>q DEF nextPage, getRowCount
  <2> HIDE DEF q
  <2>3. skewed' \/ \A n \in 0 .. q.page : n < q.page => n \in turned'
    BY <2>1, <2>2, <2>4, <1>q, <1>t
  <2> QED
    BY <2>1, <2>2, <2>3, <1>a, <1>t
<1>b. ASSUME UNCHANGED <<table, query, inputs, skewed>>,
             turned \subseteq turned', turned' \subseteq turned \cup {query.page},
             data'.flight # Nothing => data'.flight = query,
             data'.value # Nothing => query.page \in turned' /\ data'.value.query = query
      PROVE  TableInv'
  <2>2. AllowedSortBy(table)' = AllowedSortBy(table)
    BY <1>b DEF AllowedSortBy
  <2>3. TableTypeOK'
    BY <1>b, <1>t, <2>2 DEF TableTypeOK
  <2>4. TableFacts' /\ RowsAnswerQuery' /\ PagesContiguous'
    BY <1>b, <1>q DEF TableFacts, RowsAnswerQuery, PagesContiguous
  <2> QED
    BY <2>3, <2>4 DEF TableInv
<1>7. CASE refresh
  <2>1. /\ data'.flight # Nothing => data'.flight = query
        /\ data'.value # Nothing => query.page \in turned /\ data'.value.query = query
    BY <1>7, <1>q DEF refresh, Reloaded
  <2> QED
    BY <1>7, <2>1, <1>b DEF refresh
<1>8. CASE RowsLoaded
  <2>1. /\ data'.flight = Nothing
        /\ data'.value.query = query
        /\ turned' = turned \cup {query.page}
    BY <1>8, <1>q DEF RowsLoaded, Resolved
  <2> QED
    BY <1>8, <2>1, <1>b DEF RowsLoaded
<1>9. CASE RowsFail
  <2>1. data'.flight = Nothing /\ data'.value = Nothing
    BY <1>9 DEF RowsFail, Broken
  <2> QED
    BY <1>9, <2>1, <1>b DEF RowsFail
<1>10. CASE UNCHANGED tableVars
  BY <1>10, <1>q, <1>b DEF tableVars
<1> QED
  BY <1>1, <1>2, <1>3, <1>4, <1>5, <1>6, <1>7, <1>8, <1>9, <1>10 DEF TableNext

LEMMA TableAlways == TableSpec => []TableInv
  BY TableInitial, TableStep, PTL DEF TableSpec

\* For any numbers of rows, page sizes and filters, the rows a table shows answer the query
\* that its page, order, filter and project stand for.
THEOREM RowsOfQuery == TableSpec => []RowsAnswerQuery
<1>1. TableInv => RowsAnswerQuery
  BY DEF TableInv
<1> QED
  BY TableAlways, <1>1, PTL

\* Nobody gets to a page without having been shown the ones before it, unless the table was
\* sorted or filtered on the way.
THEOREM NoPageSkipped == TableSpec => []PagesContiguous
<1>1. TableInv => PagesContiguous
  BY DEF TableInv
<1> QED
  BY TableAlways, <1>1, PTL

-----------------------------------------------------------------------------
(* The list of members *)

LEMMA MembersInitial == MembersInit => MembersInv
<1> SUFFICES ASSUME MembersInit PROVE MembersInv
  OBVIOUS
<1> USE DEF MembersInit, MembersOf, Requested
<1>0. /\ 0 \in 0 .. MaxDialogs /\ 0 \in 0 .. MaxRoutes /\ pageOrg # Nothing
      /\ [org |-> pageOrg, people |-> Nothing] # Nothing
  BY MembersPageAssumption, WebClientAssumption
<1>1. MembersTypeOK
  BY <1>0 DEF MembersTypeOK
<1>2. MembersFacts /\ ListTruthful
  BY <1>0 DEF MembersFacts, ListTruthful
<1> QED
  BY <1>1, <1>2 DEF MembersInv

LEMMA MembersStep == MembersInv /\ [MembersNext]_membersVars => MembersInv'
<1> SUFFICES ASSUME MembersInv, [MembersNext]_membersVars PROVE MembersInv'
  OBVIOUS
<1> DEFINE Call == [org : Org, who : Person, phase : {"sent", "done", "refused"}]
           Flight == [org : Org, people : (SUBSET Person) \cup {Nothing}]
<1>t. MembersTypeOK /\ MembersFacts
  BY DEF MembersInv
<1>n. /\ Nothing \notin Call /\ Nothing \notin Flight /\ Nothing \notin SUBSET Person
      /\ Nothing \notin Org /\ MaxDialogs \in Nat /\ MaxRoutes \in Nat
  BY MembersPageAssumption, WebClientAssumption
<1>d. dialog \in [Dialog -> {Nothing} \cup Call]
  BY <1>t DEF MembersTypeOK
<1>b. unreloaded \in BOOLEAN /\ unheard \in BOOLEAN
  BY <1>t DEF MembersTypeOK
\* With the dialogs closed nothing is left to be told.
<1>l. MembersTypeOK' /\ MembersFacts' => MembersInv'
  <2>1. ~unreloaded' /\ ~unheard' /\ (\A d \in Dialog : dialog'[d] = Nothing) => Told'
    BY DEF Told
  <2> QED
    BY <2>1 DEF MembersInv, ListTruthful, MembersFacts
<1>1. ASSUME NEW o \in Org \cup {Nothing}, RouteTo(o) PROVE MembersInv'
  <2>1. dialogs' \in [confirmed : 0 .. MaxDialogs, routes : 0 .. MaxRoutes]
    BY <1>1, <1>t, <1>n DEF RouteTo, MembersTypeOK
  <2>2. [org |-> o, people |-> Nothing] # Nothing \/ o = Nothing
    BY <1>n
  <2>3. members' \in [status : {"idle", "loading", "reloading", "resolved", "error"},
                      value : (SUBSET Person) \cup {Nothing}, flight : Flight \cup {Nothing}]
    BY <1>1 DEF RouteTo, MembersOf, Requested, Unrequested
  <2>4. MembersTypeOK'
    BY <1>1, <1>t, <2>1, <2>3 DEF RouteTo, MembersTypeOK
  <2>5. MembersFacts'
    BY <1>1, <2>2, <1>n DEF RouteTo, MembersFacts, MembersOf, Requested, Unrequested
  <2> QED
    BY <2>4, <2>5, <1>l
<1>2. CASE ReadMembers
  <2> DEFINE f == members.flight
  <2>1. f \in Flight /\ people[f.org] \in SUBSET Person /\ f.org = pageOrg
    BY <1>2, <1>t DEF ReadMembers, MembersTypeOK, MembersFacts
  <2>2. members' = [members EXCEPT !.flight = [f EXCEPT !.people = people[f.org]]]
    BY <1>2 DEF ReadMembers
  <2>3. [f EXCEPT !.people = people[f.org]] \in Flight
    BY <2>1
  <2>4. /\ members'.flight = [f EXCEPT !.people = people[f.org]]
        /\ members'.flight.org = pageOrg /\ members'.flight.people = people[pageOrg]
        /\ members'.status = members.status /\ members'.value = members.value
    BY <2>1, <2>2, <1>t DEF MembersTypeOK
  <2>5. MembersTypeOK'
    BY <1>2, <1>t, <2>2, <2>3 DEF ReadMembers, MembersTypeOK
  <2>6. members'.flight # Nothing
    BY <2>3, <2>4, <1>n
  <2>7. Told' <=> Told
    BY <1>2 DEF ReadMembers, Told
  <2>8. MembersFacts'
    BY <1>2, <1>t, <2>4, <2>6, <2>7 DEF ReadMembers, MembersFacts
  <2> QED
    BY <2>5, <2>8, <1>l
<1>3. CASE MembersLoaded
  <2>1. /\ members'.status = "resolved" /\ members'.flight = Nothing
        /\ members'.value = members.flight.people /\ members.flight.people \in SUBSET Person
    BY <1>3, <1>t DEF MembersLoaded, Resolved, MembersTypeOK
  <2>2. MembersTypeOK'
    BY <1>3, <1>t, <2>1 DEF MembersLoaded, Resolved, MembersTypeOK
  <2>3. Told' <=> Told
    BY <1>3 DEF MembersLoaded, Told
  <2>4. MembersFacts'
    BY <1>3, <1>t, <2>1, <2>3 DEF MembersLoaded, MembersFacts
  <2> QED
    BY <2>2, <2>4, <1>l
<1>4. CASE MembersFail
  <2>2. MembersTypeOK'
    BY <1>4, <1>t DEF MembersFail, Broken, MembersTypeOK
  <2>4. MembersFacts'
    BY <1>4, <1>t DEF MembersFail, Broken, MembersFacts
  <2> QED
    BY <2>2, <2>4, <1>l
<1>5. ASSUME NEW d \in Dialog, NEW who \in Person, Confirm(d, who) PROVE MembersInv'
  <2> DEFINE c == [org |-> pageOrg, who |-> who, phase |-> "sent"]
  <2>1. c \in Call /\ dialog' = [dialog EXCEPT ![d] = c]
    BY <1>5, <1>t DEF Confirm, MembersTypeOK
  <2>2. dialogs' \in [confirmed : 0 .. MaxDialogs, routes : 0 .. MaxRoutes]
    BY <1>5, <1>t, <1>n DEF Confirm, MembersTypeOK
  <2>3. MembersTypeOK'
    BY <1>5, <1>t, <2>1, <2>2 DEF Confirm, MembersTypeOK
  <2>4. Told' => Told
    <3>1. \A e \in Dialog : dialog'[e] = IF e = d THEN c ELSE dialog[e]
      BY <2>1, <1>d
    <3>2. dialog[d] = Nothing
      BY <1>5 DEF Confirm
    <3> QED
      BY <1>5, <3>1, <3>2 DEF Confirm, Told
  <2>5. MembersFacts'
    BY <1>5, <1>t, <2>4 DEF Confirm, MembersFacts
  <2> QED
    BY <2>3, <2>5, <1>l
<1>6. ASSUME NEW d \in Dialog, ServeDialog(d) PROVE MembersInv'
  <2> DEFINE c == dialog[d]
             refuse == d = "remove" /\ c.who = Self
             answer == IF refuse THEN "refused" ELSE "done"
  <2>1. c \in Call /\ refuse \in BOOLEAN
    BY <1>6, <1>d DEF ServeDialog
  <2>2. dialog' = [dialog EXCEPT ![d] = [c EXCEPT !.phase = answer]]
    BY <1>6 DEF ServeDialog
  <2>3. [c EXCEPT !.phase = answer] \in Call
    BY <2>1
  <2>4. people' \in [Org -> SUBSET Person]
    BY <1>6, <1>t, <2>1 DEF ServeDialog, MembersTypeOK
  <2>5. MembersTypeOK'
    BY <1>6, <1>t, <2>2, <2>3, <2>4 DEF ServeDialog, MembersTypeOK
  <2>6. \A e \in Dialog : dialog'[e] = IF e = d THEN [c EXCEPT !.phase = answer] ELSE dialog[e]
    BY <2>2, <1>d
  <2>7. Told' => Told /\ people' = people
    <3>1. dialog'[d] \in Call /\ dialog'[d].phase = answer
      BY <2>1, <2>3, <2>6
    <3>2. Told' => refuse
      BY <3>1, <1>n DEF Told
    <3>3. c.phase = "sent"
      BY <1>6 DEF ServeDialog
    <3> QED
      BY <1>6, <3>2, <3>3, <2>6 DEF ServeDialog, Told
  <2>8. MembersFacts'
    BY <1>6, <1>t, <2>7 DEF ServeDialog, MembersFacts
  <2> QED
    BY <2>5, <2>8, <1>l
<1>7. ASSUME NEW d \in Dialog, DialogDone(d) PROVE MembersInv'
  <2> DEFINE f == [org |-> pageOrg, people |-> Nothing]
  <2>1. dialog' \in [Dialog -> {Nothing} \cup Call]
    BY <1>7, <1>d DEF DialogDone
  <2>2. pageOrg \in Org => f \in Flight /\ f # Nothing
    BY <1>n
  <2>3. Done(members) => pageOrg \in Org
    BY <1>t DEF MembersFacts, MembersTypeOK, Done
  <2>4. /\ unreloaded' \in BOOLEAN /\ unheard' \in BOOLEAN
        /\ members.flight # Nothing => unreloaded'
    BY <1>7, <1>b DEF DialogDone
  <2>5. members' \in [status : {"idle", "loading", "reloading", "resolved", "error"},
                      value : (SUBSET Person) \cup {Nothing}, flight : Flight \cup {Nothing}]
    BY <1>7, <1>t, <2>2, <2>3 DEF DialogDone, Reloaded, MembersTypeOK
  <2>6. MembersTypeOK'
    BY <1>7, <1>t, <1>b, <2>1, <2>4, <2>5 DEF DialogDone, MembersTypeOK
  <2>7. CASE ~Done(members)
    <3>1. members' = members
      BY <1>7, <2>7 DEF DialogDone, Reloaded
    <3>2. members.flight # Nothing => ~Told'
      BY <2>4 DEF Told
    <3>3. MembersFacts'
      BY <1>7, <1>t, <2>7, <3>1, <3>2 DEF DialogDone, MembersFacts, Done
    <3> QED
      BY <3>3, <2>6, <1>l
  <2>8. CASE Done(members)
    <3>1. members'.status = "reloading" /\ members'.flight = f /\ f # Nothing
      BY <1>7, <2>8, <2>2, <2>3 DEF DialogDone, Reloaded
    <3>3. MembersFacts'
      BY <1>7, <1>t, <2>8, <3>1, <2>3, <1>n DEF DialogDone, MembersFacts
    <3> QED
      BY <3>3, <2>6, <1>l
  <2> QED
    BY <2>7, <2>8
<1>8. ASSUME NEW d \in Dialog, DialogFails(d) PROVE MembersInv'
  <2>1. dialog' \in [Dialog -> {Nothing} \cup Call]
    BY <1>8, <1>d DEF DialogFails
  <2>2. unheard' \in BOOLEAN /\ (unheard => unheard') /\ (dialog[d].phase = "done" => unheard')
    BY <1>8, <1>b DEF DialogFails
  <2>3. MembersTypeOK'
    BY <1>8, <1>t, <1>b, <2>1, <2>2 DEF DialogFails, MembersTypeOK
  <2>4. \A e \in Dialog : dialog'[e] = IF e = d THEN Nothing ELSE dialog[e]
    BY <1>8, <1>d DEF DialogFails
  <2>5. Told' => Told
    BY <1>8, <2>2, <2>4 DEF DialogFails, Told
  <2>6. MembersFacts'
    BY <1>8, <1>t, <2>5 DEF DialogFails, MembersFacts
  <2> QED
    BY <2>3, <2>6, <1>l
<1>9. CASE CancelRemove
  <2>3. MembersTypeOK'
    BY <1>9, <1>t DEF CancelRemove, MembersTypeOK
  <2>6. MembersFacts'
    BY <1>9, <1>t DEF CancelRemove, MembersFacts, Told
  <2> QED
    BY <2>3, <2>6, <1>l
<1>10. CASE UNCHANGED membersVars
  <2>3. MembersTypeOK'
    BY <1>10, <1>t DEF membersVars, MembersTypeOK
  <2>6. MembersFacts'
    BY <1>10, <1>t DEF membersVars, MembersFacts, Told
  <2> QED
    BY <2>3, <2>6, <1>l
<1> QED
  BY <1>1, <1>2, <1>3, <1>4, <1>5, <1>6, <1>7, <1>8, <1>9, <1>10 DEF MembersNext

\* For any people and organizations, with both dialogs closed the list shows the members of
\* the selected organization, unless since it was last loaded a reload was refused or an answer
\* lost (reload in organization-settings-members.component.ts).
THEOREM MembersListed == MembersSpec => []ListTruthful
<1>1. MembersInv => ListTruthful
  BY DEF MembersInv
<1> QED
  BY MembersInitial, MembersStep, <1>1, PTL DEF MembersSpec

-----------------------------------------------------------------------------
(* The check of a new project *)

LEMMA CheckInitial == CheckInit => CheckInv
<1> SUFFICES ASSUME CheckInit PROVE CheckInv
  OBVIOUS
<1>0. 0 \in 0 .. RetryCount /\ 0 \in 0 .. MaxSelects /\ <<>> \in Seq(Project)
  BY ProjectCheckAssumption
<1>1. CheckTypeOK
  BY <1>0 DEF CheckInit, CheckTypeOK, Idle
<1>2. PollFacts /\ VerdictOfSelected
  BY DEF CheckInit, PollFacts, VerdictOfSelected, Open
<1> QED
  BY <1>1, <1>2 DEF CheckInv

\* What the stream let through last stays last in the delay when its head leaves it.
LEMMA TailLast ==
  ASSUME NEW s \in Seq(Project), s # <<>>
  PROVE  /\ Head(s) \in Project /\ Tail(s) \in Seq(Project)
         /\ Tail(s) # <<>> => Tail(s)[Len(Tail(s))] = s[Len(s)]
         /\ Tail(s) = <<>> => Head(s) = s[Len(s)]
<1>1. Len(s) \in Nat /\ Len(s) > 0
  OBVIOUS
<1>2. Len(Tail(s)) = Len(s) - 1 /\ \A i \in 1 .. Len(Tail(s)) : Tail(s)[i] = s[i + 1]
  BY <1>1
<1>3. CASE Tail(s) = <<>>
  <2>1. Len(s) = 1
    BY <1>1, <1>2, <1>3
  <2> QED
    BY <2>1, <1>3
<1>4. CASE Tail(s) # <<>>
  <2>1. Len(Tail(s)) \in 1 .. Len(Tail(s))
    BY <1>4
  <2> QED
    BY <2>1, <1>2, <1>1, <1>4
<1> QED
  BY <1>3, <1>4

LEMMA AppendLast ==
  ASSUME NEW s \in Seq(Project), NEW p \in Project
  PROVE  /\ Append(s, p) \in Seq(Project) /\ Append(s, p) # <<>>
         /\ Append(s, p)[Len(Append(s, p))] = p
<1>1. Len(s) \in Nat /\ Len(Append(s, p)) = Len(s) + 1
  OBVIOUS
<1> QED
  BY <1>1

LEMMA CheckStep == CheckInv /\ [CheckNext]_checkVars => CheckInv'
<1> SUFFICES ASSUME CheckInv, [CheckNext]_checkVars PROVE CheckInv'
  OBVIOUS
<1> USE DEF CheckInv, PollFacts, VerdictOfSelected
<1>t. CheckTypeOK /\ RetryCount \in Nat /\ MaxSelects \in Nat
  BY ProjectCheckAssumption
<1>i. poll.phase # "idle" => poll # Idle
  BY DEF Idle
<1>z. 0 \in 0 .. RetryCount
  BY <1>t
<1>j. CheckTypeOK => raced \in BOOLEAN /\ late \in BOOLEAN /\ faulty \in BOOLEAN
  BY DEF CheckTypeOK
<1>k. selects \in 0 .. MaxSelects /\ delayed \in Seq(Project) /\ poll.tries \in 0 .. RetryCount
  BY <1>t DEF CheckTypeOK
<1>s. selects < MaxSelects => selects + 1 \in 0 .. MaxSelects
  BY <1>t, <1>k
<1>1. CASE DelayOver
  <2>1. /\ Head(delayed) \in Project /\ Tail(delayed) \in Seq(Project)
        /\ Tail(delayed) # <<>> => Tail(delayed)[Len(Tail(delayed))] = last
        /\ Tail(delayed) = <<>> => Head(delayed) = last
    BY <1>1, <1>t, TailLast DEF DelayOver, CheckTypeOK
  <2>2. Head(delayed) # Nothing
    BY <2>1, WebClientAssumption
  <2>3. CheckTypeOK'
    BY <1>1, <1>t, <2>1, <1>z DEF DelayOver, CheckTypeOK
  <2>4. poll'.id = Head(delayed) /\ Open' = Open /\ Open
    BY <1>1 DEF DelayOver, Open
  <2> QED
    BY <1>1, <2>1, <2>2, <2>3, <2>4 DEF DelayOver
<1>2. CASE GetStatus
  <2>1. poll'.id = poll.id /\ CheckTypeOK' /\ Open' = Open
    BY <1>2, <1>t DEF GetStatus, CheckTypeOK, Open
  <2> QED
    BY <1>2, <2>1, <1>i DEF GetStatus
<1>3. ASSUME NEW s \in {"success", "error"}, End(s), poll.phase # "idle" PROVE CheckInv'
  <2>a. raced' \in BOOLEAN
    BY <1>3, Zenon DEF End
  <2>b. verdict' \in [state : {"none", "success", "error"}, of : Project \cup {Nothing}]
    BY <1>3, <1>t DEF End, CheckTypeOK
  <2>c. poll' \in [id : Project \cup {Nothing}, tries : 0 .. RetryCount,
                   phase : {"idle", "asked", "ok", "not ok", "waiting"}]
    BY <1>3, <1>z DEF End, Idle
  <2>1. CheckTypeOK'
    <3>1. <<>> \in Seq(Project)
      OBVIOUS
    <3> QED
      BY <1>3, <1>t, <1>j, <2>a, <2>b, <2>c, <3>1 DEF End, CheckTypeOK
  <2>2. ~Open' /\ Open /\ poll # Idle
    BY <1>3, <1>i DEF End, Open
  <2> QED
    BY <1>3, <2>1, <2>2, <1>t DEF End
<1>4. CASE Success
  BY <1>4, <1>3 DEF Success
<1>5. CASE Refused
  <2>1. CASE poll.tries < RetryCount
    <3>0. poll.tries + 1 \in 0 .. RetryCount
      BY <2>1, <1>t, <1>k
    <3>1. poll'.id = poll.id /\ CheckTypeOK' /\ Open' = Open
      BY <1>5, <2>1, <3>0, <1>t DEF Refused, CheckTypeOK, Open
    <3> QED
      BY <1>5, <2>1, <3>1, <1>i DEF Refused
  <2>2. CASE ~(poll.tries < RetryCount)
    BY <1>5, <2>2, <1>3 DEF Refused
  <2> QED
    BY <2>1, <2>2
<1>6. CASE Retry
  <2>1. poll'.id = poll.id /\ CheckTypeOK' /\ Open' = Open
    BY <1>6, <1>t DEF Retry, CheckTypeOK, Open
  <2> QED
    BY <1>6, <2>1, <1>i DEF Retry
<1>7. ASSUME NEW p \in Project \cup {Nothing}, SelectProject(p) PROVE CheckInv'
  <2>1. CASE Open /\ p \notin {Nothing, last}
    <3>0. p \in Project /\ delayed \in Seq(Project)
      BY <2>1, <1>k
    <3>1. /\ Append(delayed, p) \in Seq(Project) /\ Append(delayed, p) # <<>>
          /\ Append(delayed, p)[Len(Append(delayed, p))] = p
      BY <3>0, AppendLast
    <3>2. late' = late /\ Open' = Open
      BY <1>7, <2>1, <1>t, <1>j DEF SelectProject, Open
    <3>3. CheckTypeOK'
      BY <1>7, <2>1, <3>0, <3>1, <3>2, <1>s, <1>t, <1>j DEF SelectProject, CheckTypeOK
    <3> QED
      BY <1>7, <2>1, <3>1, <3>2, <3>3 DEF SelectProject
  <2>2. CASE ~(Open /\ p \notin {Nothing, last})
    <3>1. Open' = Open /\ late' \in BOOLEAN /\ (late => late')
          /\ (~Open /\ p \notin {Nothing, verdict.of} => late')
      BY <1>7, <1>t, <1>j DEF SelectProject, Open
    <3>3. CheckTypeOK'
      BY <1>7, <2>2, <3>1, <1>s, <1>t, <1>j DEF SelectProject, CheckTypeOK
    <3> QED
      BY <1>7, <2>2, <3>1, <3>3 DEF SelectProject
  <2> QED
    BY <2>1, <2>2
<1>8. ASSUME NEW p \in Project, GatewayTurns(p) PROVE CheckInv'
  BY <1>8, <1>t DEF GatewayTurns, CheckTypeOK, Open
<1>9. CASE UNCHANGED checkVars
  BY <1>9, <1>t DEF checkVars, CheckTypeOK, Open
<1> QED
  BY <1>1, <1>2, <1>4, <1>5, <1>6, <1>7, <1>8, <1>9 DEF CheckNext, CheckSteps

\* For every number of projects and retries, the verdict on the check page is about the
\* selected project, unless it was changed within the delay before the verdict or after it.
THEOREM VerdictFits == CheckSpec => []VerdictOfSelected
<1>1. CheckInv => VerdictOfSelected
  BY DEF CheckInv
<1> QED
  BY CheckInitial, CheckStep, <1>1, PTL DEF CheckSpec

LEMMA CheckAlways == CheckSpec => []CheckInv
BY CheckInitial, CheckStep, PTL DEF CheckSpec

\* A page with a project is never left without a delay or a request that leads on, however
\* selections, verdicts and abandoned checks follow each other.
THEOREM CheckGoesOn == CheckSpec => []CheckAlive
<1>1. CheckInit => CheckAlive
  BY DEF CheckInit, CheckAlive
<1>2. CheckInv /\ CheckAlive /\ [CheckNext]_checkVars => CheckAlive'
  <2> SUFFICES ASSUME CheckInv, CheckAlive, [CheckNext]_checkVars PROVE CheckAlive'
    OBVIOUS
  <2> USE DEF CheckAlive, Open
  <2>t. CheckTypeOK
    BY DEF CheckInv
  <2>1. CASE DelayOver
    BY <2>1 DEF DelayOver
  <2>2. CASE GetStatus \/ Retry
    BY <2>2, <2>t DEF GetStatus, Retry, CheckTypeOK
  <2>3. ASSUME NEW s \in {"success", "error"}, End(s) PROVE CheckAlive'
    BY <2>3 DEF End
  <2>4. CASE Refused \/ Success
    BY <2>3, <2>4, <2>t DEF Refused, Success, CheckTypeOK
  <2>5. ASSUME NEW p \in Project \cup {Nothing}, SelectProject(p) PROVE CheckAlive'
    <3>1. CASE last' = last /\ delayed' = delayed
      BY <2>5, <3>1 DEF SelectProject
    <3>2. CASE p \in Project /\ delayed' = Append(delayed, p)
      BY <2>t, <3>2, AppendLast DEF CheckTypeOK
    <3> QED
      BY <2>5, <3>1, <3>2 DEF SelectProject
  <2>6. CASE (\E p \in Project : GatewayTurns(p)) \/ UNCHANGED checkVars
    BY <2>6 DEF GatewayTurns, checkVars
  <2> QED
    BY <2>1, <2>2, <2>4, <2>5, <2>6 DEF CheckNext, CheckSteps
<1> QED
  BY CheckAlways, <1>1, <1>2, PTL DEF CheckSpec

LEMMA Shorter ==
    ASSUME NEW s \in Seq(Project), s # <<>>
    PROVE  Len(Tail(s)) < Len(s) /\ Len(<<>>) < Len(s)
<1>1. Len(s) \in Nat /\ Len(s) > 0 /\ Len(<<>>) = 0
  OBVIOUS
<1>2. Len(Tail(s)) = Len(s) - 1
  BY <1>1
<1> QED
  BY <1>1, <1>2

\* Every step of the stream uses something up: a delay, a retry or a stage of a request.
THEOREM CheckRunsDown == CheckSpec => CheckDescends
<1>1. CheckInv /\ [CheckNext]_checkVars =>
        [CheckSteps =>
           \/ Len(delayed') < Len(delayed)
           \/ /\ delayed' = delayed
              /\ ~Open' \/ PollLeft' < PollLeft]_checkVars
  <2> SUFFICES ASSUME CheckInv, CheckSteps
               PROVE  \/ Len(delayed') < Len(delayed)
                      \/ /\ delayed' = delayed
                         /\ ~Open' \/ PollLeft' < PollLeft
    OBVIOUS
  <2>0. RetryCount \in Nat /\ CheckTypeOK
    BY ProjectCheckAssumption DEF CheckInv, ProjectCheckAssumption
  <2>a. delayed \in Seq(Project) /\ poll.tries \in 0 .. RetryCount
    BY <2>0 DEF CheckTypeOK
  <2>b. poll = [id |-> poll.id, tries |-> poll.tries, phase |-> poll.phase]
    BY <2>0 DEF CheckTypeOK
  <2>t. /\ RetryCount \in Nat /\ delayed \in Seq(Project)
        /\ poll.tries \in Nat /\ poll.tries <= RetryCount
    BY <2>0, <2>a
  <2>1. CASE DelayOver
    <3>1. Len(Tail(delayed)) < Len(delayed)
      BY <2>1, <2>t, Shorter DEF DelayOver
    <3> QED
      BY <2>1, <3>1 DEF DelayOver
  <2>2. CASE GetStatus
    <3>1. /\ delayed' = delayed /\ poll'.tries = poll.tries
          /\ poll.phase = "asked" /\ poll'.phase \in {"ok", "not ok"}
      BY <2>2, <2>b DEF GetStatus
    <3>2. PollLeft = 4 * (RetryCount - poll.tries) + 2
      BY <3>1 DEF PollLeft
    <3>3. PollLeft' = 4 * (RetryCount - poll.tries) + 1
      BY <3>1 DEF PollLeft
    <3>4. PollLeft' < PollLeft
      BY <3>2, <3>3, <2>0, <2>a
    <3> QED
      BY <3>1, <3>4
  <2>3. CASE Retry
    <3>1. /\ delayed' = delayed /\ poll'.tries = poll.tries
          /\ poll.phase = "waiting" /\ poll'.phase = "asked"
      BY <2>3, <2>b DEF Retry
    <3> QED
      BY <3>1, <2>t DEF PollLeft
  <2>4. ASSUME NEW s \in {"success", "error"}, End(s)
        PROVE  Len(delayed') < Len(delayed) \/ (delayed' = delayed /\ ~Open')
    <3>1. delayed' = <<>> /\ ~Open'
      BY <2>4 DEF End, Open
    <3> QED
      BY <3>1, <2>t, Shorter
  <2>5. CASE Refused /\ poll.tries < RetryCount
    <3>1. /\ delayed' = delayed /\ poll'.tries = poll.tries + 1
          /\ poll.phase = "not ok" /\ poll'.phase = "waiting"
      BY <2>5, <2>b DEF Refused
    <3>2. PollLeft = 4 * (RetryCount - poll.tries) + 1
      BY <3>1 DEF PollLeft
    <3>3. PollLeft' = 4 * (RetryCount - (poll.tries + 1)) + 3
      BY <3>1 DEF PollLeft
    <3>4. PollLeft' < PollLeft
      BY <3>2, <3>3, <2>0, <2>a
    <3> QED
      BY <3>1, <3>4
  <2>6. CASE Success \/ (Refused /\ ~(poll.tries < RetryCount))
    BY <2>4, <2>6 DEF Success, Refused
  <2> QED
    BY <2>1, <2>2, <2>3, <2>5, <2>6 DEF CheckSteps
<1> QED
  BY CheckAlways, <1>1, PTL DEF CheckSpec, CheckDescends

-----------------------------------------------------------------------------
(* The dashboards *)

\* The pages of n arguments: a is the first one in view, counted from 0.
LEMMA ArgumentPages ==
  ASSUME NEW a \in Nat, NEW n \in Nat, a # 0 => a + 2 <= n, a % 2 = 0 \/ n % 2 = 1
  PROVE  /\ n > 0 => a < n
         /\ n > 0 => HalfUp(a) + 1 \in 1 .. HalfUp(n)
         /\ n > 0 => (a + 2 < n <=> HalfUp(a) + 1 < HalfUp(n))
         /\ a + 2 < n => /\ Least(n - 2, a + 2) \in Nat
                         /\ Least(n - 2, a + 2) + 2 <= n
                         /\ Least(n - 2, a + 2) <= a + 2
                         /\ Least(n - 2, a + 2) % 2 = 0 \/ n % 2 = 1
         /\ a # 0 => /\ Most(0, a - 2) \in Nat /\ Most(0, a - 2) <= a
                     /\ Most(0, a - 2) % 2 = 0 \/ n % 2 = 1
<1>1. PICK k \in Nat, i \in {0, 1} : a = 2 * k + i /\ a % 2 = i
  <2>1. a = 2 * (a \div 2) + (a % 2) /\ a % 2 \in {0, 1} /\ a \div 2 \in Nat
    OBVIOUS
  <2> QED
    BY <2>1
<1>2. PICK m \in Nat, j \in {0, 1} : n = 2 * m + j /\ n % 2 = j
  <2>1. n = 2 * (n \div 2) + (n % 2) /\ n % 2 \in {0, 1} /\ n \div 2 \in Nat
    OBVIOUS
  <2> QED
    BY <2>1
<1>3. HalfUp(a) = k + i /\ HalfUp(n) = m + j
  BY <1>1, <1>2 DEF HalfUp
<1>4. n > 0 => a < n
  OBVIOUS
<1>5. n > 0 => HalfUp(a) + 1 \in 1 .. HalfUp(n)
  BY <1>1, <1>2, <1>3
<1>6. n > 0 => (a + 2 < n <=> HalfUp(a) + 1 < HalfUp(n))
  BY <1>1, <1>2, <1>3
<1>7. a + 2 < n => Least(n - 2, a + 2) % 2 = 0 \/ n % 2 = 1
  BY <1>1, <1>2 DEF Least
<1>8. a # 0 => /\ Most(0, a - 2) \in Nat /\ Most(0, a - 2) <= a
               /\ Most(0, a - 2) % 2 = 0 \/ n % 2 = 1
  BY <1>1, <1>2 DEF Most
<1> QED
  BY <1>4, <1>5, <1>6, <1>7, <1>8 DEF Least

\* A request of the analytics names a project, and every request is one the pages make.
LEMMA RequestTyped ==
  ASSUME NEW x \in Piece, NEW v \in View, NEW n \in Version \cup {Nothing}, NEW t \in Period
  PROVE  /\ Request(x, v, n, t) \in Requests
         /\ x = "analytics" /\ Request(x, v, n, t) # Nothing => Request(x, v, n, t).of \in Project
<1>1. Request(x, v, n, t) \in Requests
  BY DEF Requests
<1>2. v.page # "organization" /\ v.project # Nothing => v.project \in Project
  BY DEF View
<1>3. Request("analytics", v, n, t) = getAnalyticsForProject(v, n, t)
  BY DEF Request
<1> QED
  BY <1>1, <1>2, <1>3 DEF getAnalyticsForProject

\* The invariant without what follows from the rest of it.
LEMMA DashCore == DashTypeOK /\ PieceFacts /\ CardFacts /\ ShownBelongs =>
                     shownTools \in Seq(Nat) /\ Arguments \in Nat /\ AllArgumentsShown
<1> SUFFICES ASSUME DashTypeOK, PieceFacts, CardFacts, ShownBelongs
             PROVE  shownTools \in Seq(Nat) /\ Arguments \in Nat /\ AllArgumentsShown
  OBVIOUS
<1>1. shownTools \in Seq(Nat)
  <2>1. CASE Shown("analytics") = Nothing
    BY <2>1 DEF shownTools
  <2>2. CASE Shown("analytics") # Nothing
    <3> DEFINE r == Shown("analytics")
    <3>1. r = Request("analytics", view, version, period)
      BY <2>2 DEF ShownBelongs, Piece
    <3>2. r.of \in Project
      BY <3>1, <2>2, RequestTyped DEF DashTypeOK, Piece
    <3>3. Tools[r.of] \in Seq(Nat) /\ <<>> \in Seq(Nat)
      BY <3>2, DashboardPagesAssumption
    <3> QED
      BY <3>3, <2>2 DEF shownTools
  <2> QED
    BY <2>1, <2>2
<1>2. Arguments \in Nat
  <2>1. tool \in 0 .. Len(shownTools) /\ Len(shownTools) \in Nat
    BY <1>1 DEF CardFacts
  <2>2. tool # 0 => shownTools[tool] \in Nat
    BY <1>1, <2>1
  <2> QED
    BY <2>2 DEF Arguments
<1> DEFINE n == Arguments
<1>3. /\ argument \in Nat /\ n \in Nat /\ (argument # 0 => argument + 2 <= n)
      /\ argument % 2 = 0 \/ n % 2 = 1
      /\ 1 .. Least(argument + 2, n) \subseteq browsed
      /\ tool \in 0 .. Len(shownTools)
  BY <1>2 DEF CardFacts, DashTypeOK
<1>4. ~CanNext => Least(argument + 2, n) = n \/ argument + 2 = n
  BY <1>3 DEF CanNext, Least
<1> HIDE DEF n
<1>5. /\ n > 0 => argument < n
      /\ n > 0 => HalfUp(argument) + 1 \in 1 .. HalfUp(n)
      /\ n > 0 => (argument + 2 < n <=> HalfUp(argument) + 1 < HalfUp(n))
  BY <1>3, ArgumentPages
<1>6. CanNext <=> argument + 2 < n
  BY DEF CanNext, n
<1>7. PageNumber = HalfUp(argument) + 1 /\ PageTotal = HalfUp(n) /\ Arguments = n
  BY DEF PageNumber, PageTotal, n
<1>8. Least(argument + 2, n) = n \/ CanNext
  BY <1>3, <1>6 DEF Least
<1> QED
  BY <1>1, <1>2, <1>3, <1>5, <1>6, <1>7, <1>8 DEF AllArgumentsShown

LEMMA DashCorePrimed == (DashTypeOK /\ PieceFacts /\ CardFacts /\ ShownBelongs)' => DashInv'
  BY DashCore, PTL DEF DashInv

\* Asking takes away what was shown; nothing is on its way but what was asked for.
LEMMA Fetched ==
  ASSUME NEW r \in Requests \cup {Nothing}
  PROVE  /\ Fetch(r) \in [status : {"idle", "loading", "resolved", "error"},
                          value : Requests \cup {Nothing}, flight : Requests \cup {Nothing}]
         /\ Fetch(r).value = Nothing /\ Fetch(r).flight = r
  BY DEF Fetch, Unrequested, Requested

\* Without data the card is empty.
LEMMA EmptyCard ==
  Shown("analytics") = Nothing /\ tool = 0 /\ argument = 0 => CardFacts
<1> SUFFICES ASSUME Shown("analytics") = Nothing, tool = 0, argument = 0 PROVE CardFacts
  OBVIOUS
<1>1. shownTools = <<>> /\ Arguments = 0
  BY DEF shownTools, Arguments
<1>2. Least(argument + 2, Arguments) = 0
  BY <1>1 DEF Least
<1>3. 1 .. 0 = {} /\ 0 % 2 = 0
  OBVIOUS
<1> QED
  BY <1>1, <1>2, <1>3 DEF CardFacts

LEMMA EmptyCardPrimed ==
  (Shown("analytics") = Nothing /\ tool = 0 /\ argument = 0)' => CardFacts'
  BY EmptyCard, PTL

\* All pieces of a page are asked for.
LEMMA AllFetched ==
  DashTypeOK /\ pieces = [x \in Piece |-> Fetch(Request(x, view, version, period))]
      => \A x \in Piece : /\ Shown(x) = Nothing
                          /\ pieces[x].flight = Request(x, view, version, period)
<1> SUFFICES ASSUME DashTypeOK,
                    pieces = [x \in Piece |-> Fetch(Request(x, view, version, period))],
                    NEW x \in Piece
             PROVE  /\ Shown(x) = Nothing
                    /\ pieces[x].flight = Request(x, view, version, period)
  OBVIOUS
<1>1. Request(x, view, version, period) \in Requests
  BY RequestTyped DEF DashTypeOK
<1>2. pieces[x] = Fetch(Request(x, view, version, period))
  OBVIOUS
<1> QED
  BY <1>1, <1>2, Fetched DEF Shown

LEMMA AllFetchedTyped ==
  ASSUME NEW v \in View, NEW n \in Version \cup {Nothing}, NEW t \in Period
  PROVE  [x \in Piece |-> Fetch(Request(x, v, n, t))] \in
             [Piece -> [status : {"idle", "loading", "resolved", "error"},
                        value : Requests \cup {Nothing}, flight : Requests \cup {Nothing}]]
<1>1. ASSUME NEW x \in Piece
      PROVE  Fetch(Request(x, v, n, t)) \in
                 [status : {"idle", "loading", "resolved", "error"},
                  value : Requests \cup {Nothing}, flight : Requests \cup {Nothing}]
  BY RequestTyped, Fetched
<1> QED
  BY <1>1

LEMMA DashInitial == DashInit => DashInv
<1> SUFFICES ASSUME DashInit PROVE DashInv
  OBVIOUS
<1>1. DashTypeOK
  BY AllFetchedTyped, DashboardPagesAssumption DEF DashInit, DashTypeOK
<1>2. \A x \in Piece : /\ Shown(x) = Nothing
                       /\ pieces[x].flight = Request(x, view, version, period)
  BY <1>1, AllFetched DEF DashInit
<1>3. PieceFacts /\ ShownBelongs
  BY <1>2 DEF PieceFacts, ShownBelongs
<1>4. CardFacts
  BY <1>2, EmptyCard DEF DashInit, Piece
<1> QED
  BY <1>1, <1>3, <1>4, DashCore DEF DashInv

LEMMA DashStep == DashInv /\ [DashNext]_dashVars => DashInv'
<1> SUFFICES ASSUME DashInv, [DashNext]_dashVars PROVE DashInv'
  OBVIOUS
<1> DEFINE Resource == [status : {"idle", "loading", "resolved", "error"},
                        value : Requests \cup {Nothing}, flight : Requests \cup {Nothing}]
<1>t. /\ view \in View /\ version \in Version \cup {Nothing} /\ period \in Period
      /\ pieces \in [Piece -> Resource]
      /\ tool \in Nat /\ argument \in Nat /\ looks \in Nat /\ browsed \subseteq Nat
  BY DEF DashInv, DashTypeOK
<1>p. DashTypeOK /\ PieceFacts /\ CardFacts /\ ShownBelongs
  BY DEF DashInv
<1>c. shownTools \in Seq(Nat) /\ Arguments \in Nat
  BY <1>p, DashCore
\* The pages of arguments turn, or nothing of the card changes.
<1>k. ASSUME UNCHANGED <<view, version, period>>, pieces' \in [Piece -> Resource],
             \A x \in Piece :
                 \/ pieces'[x] = pieces[x]
                 \/ /\ pieces'[x].flight = Nothing
                    /\ pieces'[x].value \in {Nothing, Request(x, view, version, period)}
      PROVE  PieceFacts' /\ ShownBelongs'
  BY <1>p, <1>k DEF PieceFacts, ShownBelongs, Shown
<1>1. ASSUME NEW v \in View, Show(v) PROVE DashInv'
  <2>1. /\ view' \in View /\ version' \in Version \cup {Nothing} /\ period' \in Period
        /\ tool' = 0 /\ argument' = 0 /\ browsed' = {} /\ looks' \in Nat
    BY <1>1, <1>t, DashboardPagesAssumption DEF Show, Look
  <2>2. pieces' = [x \in Piece |-> Fetch(Request(x, view', version', period'))]
    BY <1>1 DEF Show
  <2>3. DashTypeOK'
    BY <2>1, <2>2, AllFetchedTyped DEF DashTypeOK
  <2>4. (\A x \in Piece : /\ Shown(x) = Nothing
                          /\ pieces[x].flight = Request(x, view, version, period))'
    <3>1. (DashTypeOK /\ pieces = [x \in Piece |-> Fetch(Request(x, view, version, period))])'
      BY <2>2, <2>3
    <3> QED
      BY <3>1, AllFetched, PTL
  <2>5. PieceFacts' /\ ShownBelongs'
    BY <2>4 DEF PieceFacts, ShownBelongs
  <2>6. CardFacts'
    BY <2>1, <2>4, EmptyCardPrimed DEF Piece
  <2> QED
    BY <2>3, <2>5, <2>6, DashCorePrimed
<1>2. ASSUME NEW n \in Version \cup {Nothing}, NEW t \in Period, Refilter(n, t), looks' \in Nat
      PROVE  DashInv'
  <2>1. CASE view.page = "project"
    <3> DEFINE r == getAnalyticsForProject(view, n, t)
    <3>0. /\ view' = view /\ version' = n /\ period' = t
          /\ pieces' = [pieces EXCEPT !["analytics"] = Fetch(r)]
          /\ tool' = 0 /\ argument' = 0 /\ browsed' = {}
      BY <1>2, <2>1 DEF Refilter
    <3>1. r = Request("analytics", view, n, t)
      BY DEF Request
    <3>2. r \in Requests
      BY <3>1, <1>t, RequestTyped DEF Piece
    <3>3. Fetch(r) \in Resource /\ Fetch(r).value = Nothing /\ Fetch(r).flight = r
      BY <3>2, Fetched
    <3> HIDE DEF r
    <3>4. pieces' \in [Piece -> Resource]
      BY <3>0, <3>3, <1>t
    <3>5. DashTypeOK'
      BY <3>0, <3>4, <1>t, <1>2 DEF DashTypeOK
    <3>6. \A x \in Piece : pieces'[x] = IF x = "analytics" THEN Fetch(r) ELSE pieces[x]
      BY <3>0, <1>t
    <3>7. \A x \in Piece \ {"analytics"} :
             Request(x, view, n, t) = Request(x, view, version, period)
      BY DEF Piece, Request
    <3>8. PieceFacts' /\ ShownBelongs'
      BY <3>0, <3>1, <3>3, <3>6, <3>7, <1>p DEF PieceFacts, ShownBelongs, Shown
    <3>9. (Shown("analytics") = Nothing /\ tool = 0 /\ argument = 0)'
      BY <3>0, <3>3, <3>6 DEF Shown, Piece
    <3> QED
      BY <3>5, <3>8, <3>9, EmptyCardPrimed, DashCorePrimed
  <2>2. CASE view.page # "project"
    <3>0. /\ view' = view /\ version' = n /\ period' = t
          /\ UNCHANGED <<pieces, tool, argument, browsed>>
      BY <1>2, <2>2 DEF Refilter
    <3>1. DashTypeOK'
      BY <3>0, <1>t, <1>2 DEF DashTypeOK
    <3>2. \A x \in Piece : Request(x, view, n, t) = Request(x, view, version, period)
      BY <2>2 DEF Piece, Request, getAnalyticsForProject
    <3>3. PieceFacts' /\ ShownBelongs'
      BY <3>0, <3>2, <1>p DEF PieceFacts, ShownBelongs, Shown
    <3>4. CardFacts'
      BY <3>0, <1>p DEF CardFacts, shownTools, Arguments, Shown
    <3> QED
      BY <3>1, <3>3, <3>4, DashCorePrimed
  <2> QED
    BY <2>1, <2>2
<1>3. ASSUME NEW n \in Version \cup {Nothing}, onDeploymentVersionChange(n) PROVE DashInv'
  BY <1>3, <1>2, <1>t DEF onDeploymentVersionChange, Look
<1>4. ASSUME NEW t \in Period, onTimeFilterChange(t) PROVE DashInv'
  BY <1>4, <1>2, <1>t DEF onTimeFilterChange, Look
<1>5. ASSUME NEW x \in Piece, PieceLoaded(x) PROVE DashInv'
  <2> DEFINE r == Request(x, view, version, period)
  <2>0. /\ UNCHANGED <<view, version, period, argument, looks>>
        /\ pieces' = [pieces EXCEPT ![x] = Resolved(pieces[x].flight)]
        /\ pieces[x].flight = r /\ Shown(x) = Nothing /\ r # Nothing /\ r \in Requests
    BY <1>5, <1>p, <1>t, RequestTyped DEF PieceLoaded, PieceFacts
  <2>1. Resolved(r) \in Resource /\ Resolved(r).value = r /\ Resolved(r).flight = Nothing
    BY <2>0 DEF Resolved
  <2> HIDE DEF r
  <2>2. pieces' \in [Piece -> Resource]
    BY <2>0, <2>1, <1>t
  <2>3. \A y \in Piece : pieces'[y] = IF y = x THEN Resolved(r) ELSE pieces[y]
    BY <2>0, <1>t
  <2>4. PieceFacts' /\ ShownBelongs'
    BY <2>0, <2>1, <2>2, <2>3, <1>k DEF r
  <2>5. CASE x = "analytics"
    <3> DEFINE tools == shownTools'
    <3>0. /\ tool' = IF tools = <<>> THEN 0 ELSE 1
          /\ browsed' = visibleArguments(0, IF tools = <<>> THEN 0 ELSE tools[1])
      BY <1>5, <2>0, <2>5 DEF PieceLoaded
    <3>1. tools \in Seq(Nat)
      <4>1. Shown("analytics")' = r
        BY <2>1, <2>3, <2>5 DEF Shown, Piece
      <4>2. r.of \in Project
        BY <2>0, <2>5, <1>t, RequestTyped DEF r, Piece
      <4>3. Tools[r.of] \in Seq(Nat) /\ <<>> \in Seq(Nat)
        BY <4>2, DashboardPagesAssumption
      <4> QED
        BY <4>1, <4>3, <2>0 DEF shownTools
    <3>2. tool = 0 /\ argument = 0
      BY <2>0, <2>5, <1>p DEF CardFacts
    <3>3. Arguments' = IF tools = <<>> THEN 0 ELSE tools[1]
      BY <3>0 DEF Arguments
    <3>4. Arguments' \in Nat /\ tool' \in 0 .. Len(tools)
      BY <3>0, <3>1, <3>3
    <3> HIDE DEF tools
    <3>5. browsed' = 1 .. Least(2, Arguments')
      BY <3>0, <3>3 DEF visibleArguments
    <3>6. CardFacts'
      <4>1. argument' = 0 /\ 0 % 2 = 0
        BY <2>0, <3>2
      <4>2. (Shown("analytics") = Nothing)' => FALSE
        BY <2>0, <2>1, <2>3, <2>5 DEF Shown, Piece
      <4> QED
        BY <4>1, <4>2, <3>4, <3>5 DEF CardFacts, tools
    <3>7. DashTypeOK'
      <4>1. browsed' \subseteq Nat /\ tool' \in Nat
        BY <3>0, <3>4, <3>5 DEF Least
      <4> QED
        BY <4>1, <2>0, <2>2, <1>t DEF DashTypeOK
    <3> QED
      BY <2>4, <3>6, <3>7, DashCorePrimed
  <2>6. CASE x # "analytics"
    <3>0. UNCHANGED <<tool, browsed>> /\ Shown("analytics")' = Shown("analytics")
      BY <1>5, <2>3, <2>6 DEF PieceLoaded, Shown, Piece
    <3>1. DashTypeOK'
      BY <2>0, <2>2, <3>0, <1>t DEF DashTypeOK
    <3>2. CardFacts'
      BY <2>0, <3>0, <1>p DEF CardFacts, shownTools, Arguments
    <3> QED
      BY <2>4, <3>1, <3>2, DashCorePrimed
  <2> QED
    BY <2>5, <2>6
<1>6. ASSUME NEW x \in Piece, PieceFails(x) PROVE DashInv'
  <2>0. /\ UNCHANGED <<view, version, period, tool, argument, looks, browsed>>
        /\ pieces' = [pieces EXCEPT ![x] = Broken]
        /\ Shown(x) = Nothing
    BY <1>6, <1>p DEF PieceFails, PieceFacts
  <2>1. Broken \in Resource /\ Broken.value = Nothing /\ Broken.flight = Nothing
    BY DEF Broken
  <2>2. pieces' \in [Piece -> Resource]
    BY <2>0, <2>1, <1>t
  <2>3. \A y \in Piece : pieces'[y] = IF y = x THEN Broken ELSE pieces[y]
    BY <2>0, <1>t
  <2>4. PieceFacts' /\ ShownBelongs'
    BY <2>0, <2>1, <2>2, <2>3, <1>k
  <2>5. Shown("analytics")' = Shown("analytics")
    BY <2>0, <2>1, <2>3 DEF Shown, Piece
  <2>6. DashTypeOK'
    BY <2>0, <2>2, <1>t DEF DashTypeOK
  <2>7. CardFacts'
    BY <2>0, <2>5, <1>p DEF CardFacts, shownTools, Arguments
  <2> QED
    BY <2>4, <2>6, <2>7, DashCorePrimed
\* The card changes, the pieces do not.
<1>e. ASSUME UNCHANGED <<view, version, period, pieces>>, looks' \in Nat,
             tool' \in 1 .. Len(shownTools), argument' \in Nat, browsed' \subseteq Nat,
             Shown("analytics") # Nothing,
             argument' # 0 => argument' + 2 <= Arguments',
             argument' % 2 = 0 \/ Arguments' % 2 = 1,
             1 .. Least(argument' + 2, Arguments') \subseteq browsed'
      PROVE  DashInv'
  <2>1. DashTypeOK' /\ PieceFacts' /\ ShownBelongs'
    BY <1>e, <1>p, <1>t DEF DashTypeOK, PieceFacts, ShownBelongs, Shown
  <2>2. shownTools' = shownTools /\ (Shown("analytics") = Nothing)' = FALSE
    BY <1>e DEF shownTools, Shown
  <2>3. tool' \in 0 .. Len(shownTools) /\ tool' # 0
    BY <1>e, <1>c
  <2>4. CardFacts'
    BY <1>e, <2>2, <2>3 DEF CardFacts
  <2> QED
    BY <2>1, <2>4, DashCorePrimed
<1>s. shownTools # <<>> => Shown("analytics") # Nothing
  BY DEF shownTools
<1>7. ASSUME NEW i \in 1 .. Len(shownTools), onToolChange(i) PROVE DashInv'
  <2>0. /\ UNCHANGED <<view, version, period, pieces>> /\ looks' \in Nat
        /\ tool' = i /\ argument' = 0 /\ browsed' = visibleArguments(0, shownTools[i])
    BY <1>7, <1>t DEF onToolChange, Look
  <2>1. i # 0 /\ shownTools[i] \in Nat /\ shownTools # <<>>
    BY <1>c
  <2>2. shownTools' = shownTools
    BY <2>0 DEF shownTools, Shown
  <2>3. Arguments' = shownTools[i]
    BY <2>0, <2>1, <2>2 DEF Arguments
  <2>4. browsed' = 1 .. Least(2, Arguments') /\ browsed' \subseteq Nat /\ 0 % 2 = 0 /\ 0 + 2 = 2
    BY <2>0, <2>1, <2>3 DEF visibleArguments, Least
  <2> QED
    BY <2>0, <2>1, <2>4, <1>e, <1>s
<1>g. ASSUME NEW j \in Nat, Turn(j), tool # 0, j # 0 => j + 2 <= Arguments,
             j <= argument + 2, j % 2 = 0 \/ Arguments % 2 = 1
      PROVE  DashInv'
  <2>0. /\ UNCHANGED <<view, version, period, pieces, tool, looks>>
        /\ argument' = j /\ browsed' = browsed \cup visibleArguments(j, Arguments)
    BY <1>g DEF Turn
  <2>1. Arguments' = Arguments
    BY <2>0 DEF Arguments, shownTools, Shown
  <2>2. tool \in 1 .. Len(shownTools) /\ shownTools # <<>>
    BY <1>g, <1>c, <1>p DEF CardFacts
  <2>3. 1 .. Least(argument + 2, Arguments) \subseteq browsed
    BY <1>p DEF CardFacts
  <2> DEFINE n == Arguments
  <2>4. n \in Nat
    BY <1>c
  <2> HIDE DEF n
  <2>5. \A k \in 1 .. Least(j + 2, n) :
           k \in 1 .. Least(argument + 2, n) \/ k \in (j + 1) .. Least(j + 2, n)
    BY <2>4, <1>g, <1>t DEF Least
  <2>6. (j + 1) .. Least(j + 2, n) \subseteq Nat
    BY <2>4 DEF Least
  <2>7. browsed' = browsed \cup ((j + 1) .. Least(j + 2, n))
    BY <2>0 DEF visibleArguments, n
  <2>8. 1 .. Least(j + 2, n) \subseteq browsed' /\ browsed' \subseteq Nat
    BY <2>3, <2>5, <2>6, <2>7, <1>t DEF n
  <2> QED
    BY <2>0, <2>1, <2>2, <2>8, <1>e, <1>g, <1>s, <1>t DEF n
<1>h. /\ argument # 0 => tool # 0 /\ argument + 2 <= Arguments
      /\ argument % 2 = 0 \/ Arguments % 2 = 1
  BY <1>p DEF CardFacts
<1>8. CASE previousArgument
  <2>1. argument # 0 /\ Turn(Most(0, argument - 2))
    BY <1>8 DEF previousArgument, CanPrevious
  <2> DEFINE j == Most(0, argument - 2)
  <2>2. j \in Nat /\ j <= argument /\ (j % 2 = 0 \/ Arguments % 2 = 1)
    BY <2>1, <1>h, <1>c, <1>t, ArgumentPages
  <2> HIDE DEF j
  <2>3. j <= argument + 2 /\ j + 2 <= Arguments
    BY <2>1, <2>2, <1>h, <1>c, <1>t
  <2> QED
    BY <2>1, <2>2, <2>3, <1>g, <1>h DEF j
<1>9. CASE nextArgument
  <2>1. argument + 2 < Arguments /\ Turn(Least(Arguments - 2, argument + 2))
    BY <1>9 DEF nextArgument, CanNext
  <2> DEFINE j == Least(Arguments - 2, argument + 2)
  <2>2. j \in Nat /\ j <= argument + 2 /\ j + 2 <= Arguments /\ (j % 2 = 0 \/ Arguments % 2 = 1)
    BY <2>1, <1>h, <1>c, <1>t, ArgumentPages
  <2> HIDE DEF j
  <2>3. tool # 0
    BY <2>1, <1>t DEF Arguments
  <2> QED
    BY <2>1, <2>2, <2>3, <1>g DEF j
<1>10. CASE UNCHANGED dashVars
  <2>1. DashTypeOK' /\ PieceFacts' /\ ShownBelongs'
    BY <1>10, <1>p DEF dashVars, DashTypeOK, PieceFacts, ShownBelongs, Shown
  <2>2. CardFacts'
    BY <1>10, <1>p DEF dashVars, CardFacts, shownTools, Arguments, Shown
  <2> QED
    BY <2>1, <2>2, DashCorePrimed
<1> QED
  BY <1>1, <1>3, <1>4, <1>5, <1>6, <1>7, <1>8, <1>9, <1>10 DEF DashNext

LEMMA DashAlways == DashSpec => []DashInv
  BY DashInitial, DashStep, PTL DEF DashSpec

\* For any organizations, projects, versions and periods, what a dashboard shows was asked
\* for with the organization or project and the filters it names.
THEOREM DashboardsBelong == DashSpec => []ShownBelongs
<1>1. DashInv => ShownBelongs
  BY DEF DashInv
<1> QED
  BY DashAlways, <1>1, PTL

\* For any tools and numbers of arguments, the pages of a tool's arguments are numbered right
\* and nobody gets to the last one without having been shown all arguments.
THEOREM ArgumentsAllShown == DashSpec => []AllArgumentsShown
<1>1. DashInv => AllArgumentsShown
  BY DEF DashInv
<1> QED
  BY DashAlways, <1>1, PTL

=============================================================================
