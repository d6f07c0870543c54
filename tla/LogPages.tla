------------------------------ MODULE LogPages ------------------------------
(***************************************************************************)
(* Reading the log of a project page by page while new entries arrive.     *)
(* The table in the UI asks for one page after the other; each request is  *)
(* one query with ORDER BY, LIMIT and OFFSET over what is stored at that   *)
(* moment.  Nothing marks where the previous page has ended, and new       *)
(* entries come anywhere in the order: calls are stored when they end and  *)
(* sorted by when they started, how long they took or how they ended.      *)
(***************************************************************************)
EXTENDS Naturals, FiniteSets

CONSTANTS
    Entry,      \* entries of the log of one project
    Key,        \* the column an entry is sorted by
    Descending, \* the sort order
    Count       \* the size of a page

ASSUME LogPagesAssumption ==
    /\ Key \in [Entry -> Nat]
    /\ Descending \in BOOLEAN
    /\ Count \in Nat \ {0}

\* No two entries have the same key, as is the case for started_at in practice
\* but not for http_status_code.
DistinctKeys == \A e, f \in Entry : Key[e] = Key[f] => e = f

VARIABLES
    stored,     \* the entries in the database, a finite set
    page,       \* the page the reader asks for next
    atEnd,      \* the last page was not full
    shown,      \* history: what the reader has been shown
    wanted      \* history: the entries that were there at page 0

vars == <<stored, page, atEnd, shown, wanted>>

Before(e, f) == IF Descending THEN Key[e] > Key[f] ELSE Key[e] < Key[f]

\* F can come first when S is sorted: entries with the same key come in any order,
\* and in another one at the next query.
Prefix(F, S) == F \subseteq S /\ \A e \in F, f \in S \ F : ~Before(f, e)

Smaller(m, n) == IF m < n THEN m ELSE n

\* The results of ORDER BY ... LIMIT Count OFFSET offset.
Results(S, offset) ==
    {P \in SUBSET S :
        \E F \in SUBSET (S \ P) :
            /\ Prefix(F, S)
            /\ Prefix(F \cup P, S)
            /\ Cardinality(F) = Smaller(offset, Cardinality(S))
            /\ Cardinality(F \cup P) = Smaller(offset + Count, Cardinality(S))}

Init ==
    /\ stored = {}
    /\ page = 0
    /\ atEnd = FALSE
    /\ shown = {}
    /\ wanted = {}

\* The webhook stores an entry.
Store(e) ==
    /\ e \notin stored
    /\ stored' = stored \cup {e}
    /\ UNCHANGED <<page, atEnd, shown, wanted>>

\* The reader opens the table, selects another project or goes back to the start.
FirstPage(P) ==
    /\ P \in Results(stored, 0)
    /\ wanted' = stored
    /\ shown' = P
    /\ page' = 1
    /\ atEnd' = (Cardinality(P) < Count)
    /\ UNCHANGED stored

\* Mutant: pages are counted from one.
NextPageFromOne(P) ==
    /\ page > 0 /\ ~atEnd
    /\ P \in Results(stored, Count * (page + 1))
    /\ shown' = shown \cup P
    /\ page' = page + 1
    /\ atEnd' = (Cardinality(P) < Count)
    /\ UNCHANGED <<stored, wanted>>

NextPage(P) ==
    /\ page > 0 /\ ~atEnd
    /\ P \in Results(stored, Count * page)
    /\ shown' = shown \cup P
    /\ page' = page + 1
    /\ atEnd' = (Cardinality(P) < Count)
    /\ UNCHANGED <<stored, wanted>>

Next ==
    \/ \E e \in Entry : Store(e)
    \/ \E P \in SUBSET stored : FirstPage(P) \/ NextPage(P)

Spec == Init /\ [][Next]_vars

-----------------------------------------------------------------------------
(* Properties *)

TypeOK ==
    /\ stored \subseteq Entry /\ IsFiniteSet(stored)
    /\ page \in Nat
    /\ atEnd \in BOOLEAN
    /\ shown \subseteq stored
    /\ wanted \subseteq stored

\* Who reads to the first page that is not full has been shown every entry that
\* was there at the beginning: entries that arrive meanwhile shift the others
\* towards the pages still to come, so pages may repeat entries but skip none.
NothingSkipped == (DistinctKeys /\ atEnd) => wanted \subseteq shown

\* The position of an entry in the sorted log.
Ahead(e) == {f \in stored : Before(f, e)}

\* What has not been shown yet is still to come.
StillToCome ==
    DistinctKeys => \A e \in wanted \ shown : ~atEnd /\ Cardinality(Ahead(e)) >= Count * page

Inv == TypeOK /\ StillToCome /\ NothingSkipped

=============================================================================
