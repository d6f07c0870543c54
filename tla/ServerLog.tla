----------------------------- MODULE ServerLog -----------------------------
(***************************************************************************)
(* The log webhook and the deletion of projects.  A gateway reports each   *)
(* call it has served to /webhook/gateway/{deploymentRevisionID}; the      *)
(* handler stores it in MCPServerLog, whose rows refer to a revision and,  *)
(* since migration 6, to its project as well.  DELETE FROM Project removes *)
(* the project's revisions with it (ON DELETE CASCADE).  Both are single   *)
(* statements, but statements that take several row locks one after the    *)
(* other; a step here is one lock with what is done under it:              *)
(*                                                                         *)
(*   the INSERT  reads project_id in its snapshot, then share-locks the    *)
(*               revision, then the project (the order of its foreign      *)
(*               keys), and commits;                                       *)
(*   the DELETE  locks the project, then one revision after the other,     *)
(*               then looks for logs of the project, and commits.  That    *)
(*               check is due before the deletion of a revision has been   *)
(*               cascaded to the logs, because PostgreSQL runs the         *)
(*               triggers of a cascaded statement after those of the       *)
(*               outer one.                                                *)
(*                                                                         *)
(* The two take their locks in opposite orders.                            *)
(***************************************************************************)
EXTENDS Naturals, FiniteSets

CONSTANTS
    Project,
    Revision,
    ProjectOf,  \* the project of a revision
    Call,       \* calls reported by the gateways
    RevisionOf, \* the revision in the URL of a report
    CanAbort    \* whether a statement may fail or be cancelled

ASSUME ServerLogAssumption ==
    /\ ProjectOf \in [Revision -> Project]
    /\ RevisionOf \in [Call -> Revision]
    /\ CanAbort \in BOOLEAN

VARIABLES
    life,       \* of projects
    published,  \* the revisions in the database
    logs,       \* the calls with a row in MCPServerLog
    call,       \* where the handler of a report is, or its answer
    del,        \* where the deletion of a project is
    doomed,     \* revisions locked and removed by a deletion not yet committed
    unknown,    \* history: reports that named a revision nobody had published
    refused     \* history: projects whose deletion the database has refused

vars == <<life, published, logs, call, del, doomed, unknown, refused>>

Working == {"lookup", "insert", "revision", "project"}

Of(c) == ProjectOf[RevisionOf[c]]

RevisionsOf(p) == {r \in published : ProjectOf[r] = p}

Init ==
    /\ life = [p \in Project |-> "free"]
    /\ published = {}
    /\ logs = {}
    /\ call = [c \in Call |-> "new"]
    /\ del = [p \in Project |-> "idle"]
    /\ doomed = {}
    /\ unknown = {}
    /\ refused = {}

-----------------------------------------------------------------------------
(* Projects and their revisions, in one transaction each *)

CreateProject(p) ==
    /\ life[p] = "free"
    /\ life' = [life EXCEPT ![p] = "live"]
    /\ UNCHANGED <<published, logs, call, del, doomed, unknown, refused>>

\* The foreign key of the new row waits for a deletion of the project.
Publish(r) ==
    /\ life[ProjectOf[r]] = "live" /\ del[ProjectOf[r]] = "idle"
    /\ r \notin published
    /\ published' = published \cup {r}
    /\ UNCHANGED <<life, logs, call, del, doomed, unknown, refused>>

-----------------------------------------------------------------------------
(* The webhook *)

Step(c, from, to) == call[c] = from /\ call' = [call EXCEPT ![c] = to]

\* A report arrives; GetUserByEmail knows its subject or does not.  In the
\* second case the handler returns without an error: the answer is 200.
Report(c) ==
    /\ Step(c, "new", "lookup")
    /\ UNCHANGED <<life, published, logs, del, doomed, unknown, refused>>

LookupUser(c) ==
    /\ Step(c, "lookup", "insert") \/ Step(c, "lookup", "dropped")
    /\ UNCHANGED <<life, published, logs, del, doomed, unknown, refused>>

\* The subquery for project_id finds the revision, or yields NULL and the INSERT
\* violates NOT NULL, which is no foreign key: 500.
InsertRow(c) ==
    /\ IF RevisionOf[c] \in published
       THEN Step(c, "insert", "revision") /\ UNCHANGED unknown
       ELSE Step(c, "insert", "failed") /\ unknown' = unknown \cup {c}
    /\ UNCHANGED <<life, published, logs, del, doomed, refused>>

\* Mutant: the foreign key is checked without a lock.
LockRevisionNoWait(c) ==
    /\ IF RevisionOf[c] \in published
       THEN Step(c, "revision", "project")
       ELSE Step(c, "revision", "bad")
    /\ UNCHANGED <<life, published, logs, del, doomed, unknown, refused>>

\* mcpserverlog_deployment_revision_id_fkey: if the revision has been deleted
\* since, ErrNotFound and 400.
LockRevision(c) ==
    /\ RevisionOf[c] \notin doomed
    /\ IF RevisionOf[c] \in published
       THEN Step(c, "revision", "project")
       ELSE Step(c, "revision", "bad")
    /\ UNCHANGED <<life, published, logs, del, doomed, unknown, refused>>

\* mcpserverlog_project_id_fkey, and the end of the statement.
LockProject(c) ==
    /\ del[Of(c)] = "idle"
    /\ Step(c, "project", "stored")
    /\ logs' = logs \cup {c}
    /\ UNCHANGED <<life, published, del, doomed, unknown, refused>>

-----------------------------------------------------------------------------
(* DELETE FROM Project *)

DeleteProject(p) ==
    /\ life[p] = "live" /\ del[p] = "idle"
    /\ del' = [del EXCEPT ![p] = "cascade"]
    /\ UNCHANGED <<life, published, logs, call, doomed, unknown, refused>>

\* A revision is deleted once no report holds its share lock.
Cascade(r) ==
    /\ del[ProjectOf[r]] = "cascade"
    /\ r \in published \ doomed
    /\ \A c \in Call : RevisionOf[c] = r => call[c] # "project"
    /\ doomed' = doomed \cup {r}
    /\ UNCHANGED <<life, published, logs, call, del, unknown, refused>>

\* Mutant: a statement that has ended keeps its row locks.
EndDeleteLocked(p) ==
    /\ del' = [del EXCEPT ![p] = "idle"]
    /\ UNCHANGED doomed

\* The statement ends and its locks are released.
EndDelete(p) ==
    /\ del' = [del EXCEPT ![p] = "idle"]
    /\ doomed' = doomed \ RevisionsOf(p)

\* Mutant: the logs are not looked for.
FinishDeleteAlways(p) ==
    /\ del[p] = "cascade"
    /\ RevisionsOf(p) \subseteq doomed
    /\ EndDelete(p)
    /\ life' = [life EXCEPT ![p] = "gone"]
    /\ published' = published \ RevisionsOf(p)
    /\ UNCHANGED <<logs, call, unknown, refused>>

\* A log still refers to the project: the statement fails and is rolled back.
FinishDelete(p) ==
    /\ del[p] = "cascade"
    /\ RevisionsOf(p) \subseteq doomed
    /\ EndDelete(p)
    /\ IF \E c \in logs : Of(c) = p
       THEN /\ refused' = refused \cup {p}
            /\ UNCHANGED <<life, published>>
       ELSE /\ life' = [life EXCEPT ![p] = "gone"]
            /\ published' = published \ RevisionsOf(p)
            /\ UNCHANGED refused
    /\ UNCHANGED <<logs, call, unknown>>

-----------------------------------------------------------------------------
(* Failures *)

\* A statement fails or is cancelled.
Fail(c) ==
    /\ call[c] \in Working
    /\ call' = [call EXCEPT ![c] = "failed"]
    /\ UNCHANGED <<life, published, logs, del, doomed, unknown, refused>>

Undo(p) ==
    /\ del[p] = "cascade"
    /\ EndDelete(p)
    /\ UNCHANGED <<life, published, logs, call, unknown, refused>>

Abort == CanAbort /\ ((\E c \in Call : Fail(c)) \/ \E p \in Project : Undo(p))

\* A report that holds its revision waits for the project, whose deletion waits
\* for the revision.  PostgreSQL cancels one of the two.
Deadlock(c) ==
    /\ call[c] = "project" /\ del[Of(c)] = "cascade"
    /\ Fail(c) \/ Undo(Of(c))

-----------------------------------------------------------------------------
Serve(c) == LookupUser(c) \/ InsertRow(c) \/ LockRevision(c) \/ LockProject(c) \/ Deadlock(c)

Remove(p) == FinishDelete(p) \/ \E r \in Revision : ProjectOf[r] = p /\ Cascade(r)

Next ==
    \/ \E p \in Project : CreateProject(p) \/ DeleteProject(p) \/ Remove(p)
    \/ \E r \in Revision : Publish(r)
    \/ \E c \in Call : Report(c) \/ Serve(c)
    \/ Abort

Spec == Init /\ [][Next]_vars

\* Statements run, and PostgreSQL hands a lock to the one who waits for it: a
\* report is not overtaken for ever by deletions that are refused again and again,
\* nor a deletion by new reports.
FairSpec ==
    /\ Spec
    /\ \A c \in Call : WF_vars(Serve(c)) /\ SF_vars(LockRevision(c)) /\ SF_vars(LockProject(c))
    /\ \A p \in Project : WF_vars(Remove(p))
    /\ \A r \in Revision : SF_vars(Cascade(r))

-----------------------------------------------------------------------------
(* Properties *)

TypeOK ==
    /\ life \in [Project -> {"free", "live", "gone"}]
    /\ published \subseteq Revision
    /\ logs \subseteq Call
    /\ call \in [Call -> Working \cup {"new", "stored", "dropped", "bad", "failed"}]
    /\ del \in [Project -> {"idle", "cascade"}]
    /\ doomed \subseteq Revision
    /\ unknown \subseteq Call
    /\ refused \subseteq Project

\* However a report and the deletion of its project overlap, no log is left of a
\* project or a revision that does not exist any more, and a report answered as
\* stored is there: the foreign keys close the gap between the subquery that
\* reads project_id and the end of the INSERT.
LogsHaveProject ==
    /\ \A c \in logs : life[Of(c)] = "live" /\ RevisionOf[c] \in published
    /\ \A c \in Call : call[c] = "stored" => c \in logs

\* The INSERT and the DELETE, which take their locks one after the other and in
\* opposite orders and may be cancelled half way, take effect at one moment each:
\* a call is stored while its revision and its project are there, and a project
\* disappears with all its revisions while no log refers to it.
Atomic == INSTANCE LogCatalog

LogCatalogSpec == Atomic!Spec

\* The number of the revision published last, if they are counted.
Version == [p \in Project |-> Cardinality(RevisionsOf(p))]

Catalog == INSTANCE ProjectCatalog WITH version <- Version

\* Seen from the log webhook, projects and revisions are those the handlers of
\* GatewaySync create, publish and delete: both modules implement one catalog.
ProjectCatalogSpec == Catalog!Spec

\* Reports and deletions end, though they can wait for each other in a circle.
Settle ==
    /\ \A c \in Call : call[c] \in Working ~> call[c] \notin Working
    /\ \A p \in Project : del[p] = "cascade" ~> del[p] = "idle"

\* When a report and a deletion can take a step (Serve and Remove are enabled).
CanServe(c) ==
    \/ call[c] \in {"lookup", "insert", "project"}
    \/ call[c] = "revision" /\ RevisionOf[c] \notin doomed

CanRemove(p) ==
    /\ del[p] = "cascade"
    /\ \/ RevisionsOf(p) \subseteq doomed
       \/ \E r \in RevisionsOf(p) \ doomed :
             \A c \in Call : RevisionOf[c] = r => call[c] # "project"

\* Nobody waits for ever for want of a step: whoever cannot move waits for the
\* deletion of its own project, and either that deletion can move or a report of
\* the project can, which has its project's lock to take or a circle to break.
NobodyStuck ==
    /\ \A c \in Call : call[c] \in Working /\ ~CanServe(c) => del[Of(c)] = "cascade"
    /\ \A p \in Project : del[p] = "cascade" =>
          CanRemove(p) \/ \E c \in Call : Of(c) = p /\ call[c] = "project" /\ CanServe(c)

-----------------------------------------------------------------------------
(* The inductive invariant *)

\* A deletion in progress is of a live project and has locked revisions of it only;
\* revisions in the database are of live projects.
Deletions ==
    /\ \A p \in Project : del[p] = "cascade" => life[p] = "live"
    /\ \A r \in published : life[ProjectOf[r]] = "live"
    /\ \A r \in doomed : r \in published /\ del[ProjectOf[r]] = "cascade"

\* A report that has locked its revision keeps it from being deleted.
Shares ==
    \A c \in Call : call[c] = "project" => RevisionOf[c] \in published \ doomed

\* Each call is stored at most once.
StoredOnce == \A c \in logs : call[c] = "stored"

Inv == TypeOK /\ Deletions /\ Shares /\ LogsHaveProject /\ StoredOnce

-----------------------------------------------------------------------------
(* What the repository says and the code does not do; see the README. *)

\* "This ensures that when a Project is deleted, all dependent records are also
\* deleted" (migration 5): the database never refuses a deletion.
DeletionCascades == refused = {}

\* "bad deployment revision ID" (CreateMCPServerLog): a report of a revision that
\* does not exist is not answered with an internal error.
UnknownIsBad == \A c \in unknown : call[c] # "failed"

=============================================================================
