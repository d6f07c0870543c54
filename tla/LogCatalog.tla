----------------------------- MODULE LogCatalog -----------------------------
(***************************************************************************)
(* What the database promises about projects, their revisions and the log: *)
(* each statement happens at one moment.  A call is stored at a moment at  *)
(* which its project is live and its revision there, a project disappears  *)
(* with all its revisions at a moment at which no log refers to it.        *)
(* ServerLog shows that the two statements, which take their row locks one *)
(* after the other and may be cancelled in between, implement this.        *)
(***************************************************************************)
CONSTANTS Project, Revision, ProjectOf, Call, RevisionOf

VARIABLES
    life,       \* of projects
    published,  \* the revisions in the database
    logs        \* the calls in the log

vars == <<life, published, logs>>

Init ==
    /\ life = [p \in Project |-> "free"]
    /\ published = {}
    /\ logs = {}

Create(p) ==
    /\ life[p] = "free"
    /\ life' = [life EXCEPT ![p] = "live"]
    /\ UNCHANGED <<published, logs>>

Publish(r) ==
    /\ life[ProjectOf[r]] = "live"
    /\ r \notin published
    /\ published' = published \cup {r}
    /\ UNCHANGED <<life, logs>>

Store(c) ==
    /\ life[ProjectOf[RevisionOf[c]]] = "live"
    /\ RevisionOf[c] \in published
    /\ c \notin logs
    /\ logs' = logs \cup {c}
    /\ UNCHANGED <<life, published>>

Remove(p) ==
    /\ life[p] = "live"
    /\ \A c \in logs : ProjectOf[RevisionOf[c]] # p
    /\ life' = [life EXCEPT ![p] = "gone"]
    /\ published' = {r \in published : ProjectOf[r] # p}
    /\ UNCHANGED logs

Next ==
    \/ \E p \in Project : Create(p) \/ Remove(p)
    \/ \E r \in Revision : Publish(r)
    \/ \E c \in Call : Store(c)

Spec == Init /\ [][Next]_vars
=============================================================================
