-------------------------- MODULE ServerLogProofs --------------------------
(* The integrity of the log under concurrent deletions, for any number of *)
(* projects, revisions and reports.                                       *)
EXTENDS ServerLog, FiniteSetTheorems, TLAPS

LEMMA InitInv == Init => Inv
BY DEF Init, Inv, TypeOK, Deletions, Shares, LogsHaveProject, StoredOnce, Working

\* The types of the constants, for the steps that need no more of the assumption.
LEMMA Constants ==
    /\ \A r \in Revision : ProjectOf[r] \in Project
    /\ \A c \in Call : RevisionOf[c] \in Revision /\ Of(c) \in Project
BY ServerLogAssumption DEF ServerLogAssumption, Of

-----------------------------------------------------------------------------
(* Projects and their revisions *)

LEMMA CreateStep ==
    ASSUME Inv, NEW p \in Project, CreateProject(p)
    PROVE  Inv'
<1> USE Constants DEF Inv, CreateProject
<1>1. TypeOK'
  BY DEF TypeOK
<1>2. Deletions'
  BY DEF TypeOK, Deletions
<1>3. Shares'
  BY DEF Shares
<1>4. LogsHaveProject'
  BY DEF TypeOK, LogsHaveProject, Of
<1>9. StoredOnce'
  BY DEF StoredOnce
<1> QED
  BY <1>1, <1>2, <1>3, <1>4, <1>9

LEMMA PublishStep ==
    ASSUME Inv, NEW r \in Revision, Publish(r)
    PROVE  Inv'
<1> USE Constants DEF Inv, Publish
<1>1. TypeOK'
  BY DEF TypeOK
<1>2. Deletions'
  BY DEF TypeOK, Deletions
<1>3. Shares'
  BY DEF Shares
<1>4. LogsHaveProject'
  BY DEF LogsHaveProject, Of
<1>9. StoredOnce'
  BY DEF StoredOnce
<1> QED
  BY <1>1, <1>2, <1>3, <1>4, <1>9

-----------------------------------------------------------------------------
(* Reports *)

\* A handler that neither takes the lock of its revision nor answers that it has
\* stored the call.
LEMMA ElsewhereStep ==
    ASSUME Inv, NEW c \in Call, NEW t \in {"lookup", "insert", "revision", "dropped", "bad", "failed"},
           call[c] # "stored", call' = [call EXCEPT ![c] = t],
           unknown' \subseteq Call,
           UNCHANGED <<life, published, logs, del, doomed, refused>>
    PROVE  Inv'
<1> USE DEF Inv
<1>1. TypeOK'
  BY DEF TypeOK, Working
<1>2. \A d \in Call : call'[d] \in {"project", "stored"} => call'[d] = call[d]
  BY DEF TypeOK
<1>3. Deletions'
  BY DEF Deletions
<1>4. Shares'
  BY <1>2 DEF Shares
<1>5. LogsHaveProject'
  BY <1>2 DEF LogsHaveProject, Of
<1>9. StoredOnce'
  BY DEF StoredOnce, TypeOK
<1> QED
  BY <1>1, <1>3, <1>4, <1>5, <1>9

LEMMA EarlyStep ==
    ASSUME Inv, NEW c \in Call, Report(c) \/ LookupUser(c) \/ InsertRow(c) \/ Fail(c)
    PROVE  Inv'
<1>1. unknown \subseteq Call
  BY DEF Inv, TypeOK
<1>2. CASE Report(c)
  BY <1>1, <1>2, ElsewhereStep DEF Report, Step
<1>3. CASE LookupUser(c)
  BY <1>1, <1>3, ElsewhereStep DEF LookupUser, Step
<1>4. CASE InsertRow(c)
  BY <1>1, <1>4, ElsewhereStep DEF InsertRow, Step
<1>5. CASE Fail(c)
  BY <1>1, <1>5, ElsewhereStep DEF Fail, Working
<1> QED
  BY <1>2, <1>3, <1>4, <1>5

\* The lock is granted only for a revision no deletion has removed.
LEMMA LockRevisionStep ==
    ASSUME Inv, NEW c \in Call, LockRevision(c)
    PROVE  Inv'
<1>1. CASE RevisionOf[c] \notin published
  <2>1. unknown \subseteq Call
    BY DEF Inv, TypeOK
  <2> QED
    BY <1>1, <2>1, ElsewhereStep DEF LockRevision, Step
<1>2. CASE RevisionOf[c] \in published
  <2> USE <1>2 DEF Inv, LockRevision, Step
  <2>1. TypeOK'
    BY DEF TypeOK, Working
  <2>2. \A d \in Call \ {c} : call'[d] = call[d]
    BY DEF TypeOK
  <2>3. call'[c] = "project"
    BY DEF TypeOK
  <2>4. Deletions'
    BY DEF Deletions
  <2>5. Shares'
    BY <2>2, <2>3 DEF Shares
  <2>6. LogsHaveProject'
    BY <2>2, <2>3 DEF LogsHaveProject, Of
  <2>9. StoredOnce'
    BY <2>2, <2>3 DEF StoredOnce, TypeOK
  <2> QED
    BY <2>1, <2>4, <2>5, <2>6, <2>9
<1> QED
  BY <1>1, <1>2

\* Its revision is there, so its project is live, and no deletion holds it.
LEMMA LockProjectStep ==
    ASSUME Inv, NEW c \in Call, LockProject(c)
    PROVE  Inv'
<1> USE DEF Inv, LockProject, Step
<1>1. TypeOK'
  BY DEF TypeOK, Working
<1>2. \A d \in Call \ {c} : call'[d] = call[d]
  BY DEF TypeOK
<1>3. call'[c] = "stored"
  BY DEF TypeOK
<1>4. Deletions'
  BY DEF Deletions
<1>5. Shares'
  BY <1>2, <1>3 DEF Shares
<1>6. RevisionOf[c] \in published /\ life[Of(c)] = "live"
  BY DEF Shares, Deletions, Of
<1>7. LogsHaveProject'
  BY <1>2, <1>6 DEF LogsHaveProject, Of
<1>9. StoredOnce'
  BY <1>2, <1>3 DEF StoredOnce
<1> QED
  BY <1>1, <1>4, <1>5, <1>7, <1>9

-----------------------------------------------------------------------------
(* Deletions *)

LEMMA DeleteStep ==
    ASSUME Inv, NEW p \in Project, DeleteProject(p)
    PROVE  Inv'
<1> USE Constants DEF Inv, DeleteProject
<1>1. TypeOK'
  BY DEF TypeOK
<1>2. \A q \in Project : del'[q] = IF q = p THEN "cascade" ELSE del[q]
  BY DEF TypeOK
<1>3. Deletions'
  BY <1>2 DEF TypeOK, Deletions
<1>4. Shares'
  BY DEF Shares
<1>5. LogsHaveProject'
  BY DEF LogsHaveProject, Of
<1>9. StoredOnce'
  BY DEF StoredOnce
<1> QED
  BY <1>1, <1>3, <1>4, <1>5, <1>9

\* A revision is locked against no report that holds it.
LEMMA CascadeStep ==
    ASSUME Inv, NEW r \in Revision, Cascade(r)
    PROVE  Inv'
<1> USE DEF Inv, Cascade
<1>1. TypeOK'
  BY DEF TypeOK
<1>2. Deletions'
  BY DEF Deletions
<1>3. Shares'
  BY DEF Shares
<1>4. LogsHaveProject'
  BY DEF LogsHaveProject, Of
<1>9. StoredOnce'
  BY DEF StoredOnce
<1> QED
  BY <1>1, <1>2, <1>3, <1>4, <1>9

\* What is locked when a deletion has ended belongs to the others.
LEMMA EndFacts ==
    ASSUME Inv, NEW p \in Project, EndDelete(p)
    PROVE  /\ \A q \in Project : del'[q] = IF q = p THEN "idle" ELSE del[q]
           /\ del' \in [Project -> {"idle", "cascade"}]
           /\ doomed' \subseteq doomed
           /\ \A r \in doomed' : ProjectOf[r] # p
BY DEF Inv, TypeOK, Deletions, EndDelete, RevisionsOf

LEMMA UndoStep ==
    ASSUME Inv, NEW p \in Project, Undo(p)
    PROVE  Inv'
<1>1. EndDelete(p)
  BY DEF Undo
<1> USE Constants, EndFacts, <1>1 DEF Inv
<1>2. TypeOK'
  BY DEF TypeOK, Undo
<1>3. Deletions'
  BY DEF TypeOK, Deletions, Undo
<1>4. Shares'
  BY DEF Shares, Undo
<1>5. LogsHaveProject'
  BY DEF LogsHaveProject, Of, Undo
<1>9. StoredOnce'
  BY DEF StoredOnce, Undo
<1> QED
  BY <1>2, <1>3, <1>4, <1>5, <1>9

\* The project goes only if no log refers to it, and all its revisions are locked
\* by then, so that no report holds one.
LEMMA FinishStep ==
    ASSUME Inv, NEW p \in Project, FinishDelete(p)
    PROVE  Inv'
<1>1. EndDelete(p) /\ del[p] = "cascade"
  BY DEF FinishDelete
<1>2. CASE \E c \in logs : Of(c) = p
  <2> USE <1>1, <1>2, Constants, EndFacts DEF Inv
  <2>0. UNCHANGED <<life, published, logs, call, unknown>> /\ refused' = refused \cup {p}
    BY DEF FinishDelete
  <2>1. TypeOK'
    BY <2>0 DEF TypeOK
  <2>2. Deletions'
    BY <2>0 DEF TypeOK, Deletions
  <2>3. Shares'
    BY <2>0 DEF Shares
  <2>4. LogsHaveProject'
    BY <2>0 DEF LogsHaveProject, Of
  <2>9. StoredOnce'
    BY <2>0 DEF StoredOnce
  <2> QED
    BY <2>1, <2>2, <2>3, <2>4, <2>9
<1>3. CASE ~\E c \in logs : Of(c) = p
  <2> USE <1>1, <1>3, Constants, EndFacts DEF Inv
  <2>0. /\ life' = [life EXCEPT ![p] = "gone"]
        /\ published' = published \ RevisionsOf(p)
        /\ UNCHANGED <<refused, logs, call, unknown>>
        /\ RevisionsOf(p) \subseteq doomed
    BY DEF FinishDelete
  <2>1. TypeOK'
    BY <2>0 DEF TypeOK
  <2>2. \A q \in Project \ {p} : life'[q] = life[q]
    BY <2>0 DEF TypeOK
  <2>3. \A r \in published : r \in published' <=> ProjectOf[r] # p
    BY <2>0 DEF RevisionsOf
  <2>4. Deletions'
    BY <2>0, <2>2, <2>3 DEF TypeOK, Deletions
  <2>5. Shares'
    BY <2>0, <2>3 DEF Shares, RevisionsOf
  <2>6. LogsHaveProject'
    BY <2>0, <2>2, <2>3 DEF TypeOK, LogsHaveProject, Of
  <2>9. StoredOnce'
    BY <2>0 DEF StoredOnce
  <2> QED
    BY <2>1, <2>4, <2>5, <2>6, <2>9
<1> QED
  BY <1>2, <1>3

-----------------------------------------------------------------------------

LEMMA StutterStep == Inv /\ UNCHANGED vars => Inv'
BY DEF vars, Inv, TypeOK, Deletions, Shares, LogsHaveProject, StoredOnce, Of

LEMMA ServeStep ==
    ASSUME Inv, NEW c \in Call, Report(c) \/ Serve(c)
    PROVE  Inv'
<1>1. CASE Report(c) \/ LookupUser(c) \/ InsertRow(c)
  BY <1>1, EarlyStep
<1>2. CASE LockRevision(c)
  BY <1>2, LockRevisionStep
<1>3. CASE LockProject(c)
  BY <1>3, LockProjectStep
<1>4. CASE Deadlock(c)
  BY <1>4, EarlyStep, UndoStep, Constants DEF Deadlock
<1> QED
  BY <1>1, <1>2, <1>3, <1>4 DEF Serve

\* The invariant is inductive: revisions are of live projects, a deletion in
\* progress holds its locks, and a report keeps the revision it has locked.
THEOREM LogInvariance == Spec => []Inv
<1>1. Inv /\ [Next]_vars => Inv'
  <2> SUFFICES ASSUME Inv, [Next]_vars PROVE Inv'
    OBVIOUS
  <2>1. ASSUME NEW p \in Project, CreateProject(p) \/ DeleteProject(p) \/ Remove(p)
        PROVE  Inv'
    BY <2>1, CreateStep, DeleteStep, FinishStep, CascadeStep DEF Remove
  <2>2. ASSUME NEW r \in Revision, Publish(r)
        PROVE  Inv'
    BY <2>2, PublishStep
  <2>3. ASSUME NEW c \in Call, Report(c) \/ Serve(c)
        PROVE  Inv'
    BY <2>3, ServeStep
  <2>4. CASE Abort
    BY <2>4, EarlyStep, UndoStep DEF Abort
  <2>5. CASE UNCHANGED vars
    BY <2>5, StutterStep
  <2> QED
    BY <2>1, <2>2, <2>3, <2>4, <2>5 DEF Next
<1> QED
  BY InitInv, <1>1, PTL DEF Spec

\* However reports and deletions overlap, every log is of a live project and of a
\* revision that exists, and every report answered as stored has its log.
THEOREM LogIntegrity == Spec => []LogsHaveProject
<1>1. Inv => LogsHaveProject
  BY DEF Inv
<1> QED
  BY LogInvariance, <1>1, PTL

\* The locks a waiting report or deletion wants are held by one that can move: a
\* revision is doomed by a deletion of its own project, which is held up by nothing
\* but a report that has the revision and takes the project next.
THEOREM NoStall == Spec => []NobodyStuck
<1>1. ASSUME Inv, NEW c \in Call, call[c] \in Working, ~CanServe(c)
      PROVE  del[Of(c)] = "cascade"
  <2>1. RevisionOf[c] \in doomed
    BY <1>1 DEF CanServe, Working
  <2> QED
    BY <1>1, <2>1 DEF Inv, Deletions, Of
<1>2. ASSUME Inv, NEW p \in Project, del[p] = "cascade", ~CanRemove(p)
      PROVE  \E c \in Call : Of(c) = p /\ call[c] = "project" /\ CanServe(c)
  <2>1. PICK r \in RevisionsOf(p) \ doomed : TRUE
    BY <1>2 DEF CanRemove
  <2>2. PICK c \in Call : RevisionOf[c] = r /\ call[c] = "project"
    BY <1>2, <2>1 DEF CanRemove
  <2> QED
    BY <2>1, <2>2 DEF RevisionsOf, Of, CanServe
<1>3. Inv => NobodyStuck
  BY <1>1, <1>2 DEF NobodyStuck
<1> QED
  BY LogInvariance, <1>3, PTL

-----------------------------------------------------------------------------
(* The two statements are atomic *)

LEMMA CreateRefines ==
    ASSUME NEW p \in Project, CreateProject(p)
    PROVE  Atomic!Create(p)
BY DEF CreateProject, Atomic!Create

LEMMA PublishRefines ==
    ASSUME NEW r \in Revision, Publish(r)
    PROVE  Atomic!Publish(r)
BY DEF Publish, Atomic!Publish

\* The INSERT takes effect when it has its second lock: the first keeps the
\* revision, and the revision its project.
LEMMA LockProjectRefines ==
    ASSUME Inv, NEW c \in Call, LockProject(c)
    PROVE  Atomic!Store(c)
<1>1. RevisionOf[c] \in published /\ call[c] = "project"
  BY DEF Inv, Shares, LockProject, Step
<1>2. life[ProjectOf[RevisionOf[c]]] = "live"
  BY <1>1 DEF Inv, Deletions
<1>3. c \notin logs
  BY <1>1 DEF Inv, StoredOnce
<1> QED
  BY <1>1, <1>2, <1>3 DEF LockProject, Atomic!Store

\* The DELETE takes effect at its end, or not at all if it is refused.
LEMMA FinishRefines ==
    ASSUME Inv, NEW p \in Project, FinishDelete(p)
    PROVE  Atomic!Remove(p) \/ UNCHANGED <<life, published, logs>>
<1>1. life[p] = "live"
  BY DEF Inv, Deletions, FinishDelete
<1>2. published \ RevisionsOf(p) = {r \in published : ProjectOf[r] # p}
  BY DEF RevisionsOf
<1>3. CASE \E c \in logs : Of(c) = p
  BY <1>3 DEF FinishDelete
<1>4. CASE ~\E c \in logs : Of(c) = p
  BY <1>1, <1>2, <1>4 DEF FinishDelete, Of, Atomic!Remove
<1> QED
  BY <1>3, <1>4

\* Every other step, an abort included, leaves the tables alone.
LEMMA OthersSilent ==
    ASSUME \/ \E p \in Project : DeleteProject(p) \/ Undo(p)
           \/ \E r \in Revision : Cascade(r)
           \/ \E c \in Call : Report(c) \/ LookupUser(c) \/ InsertRow(c) \/ LockRevision(c)
                                \/ Fail(c) \/ Deadlock(c)
           \/ UNCHANGED vars
    PROVE  UNCHANGED <<life, published, logs>>
BY DEF DeleteProject, Undo, Cascade, Report, LookupUser, InsertRow, LockRevision, Fail, Deadlock, vars

\* However their locks interleave and whoever PostgreSQL cancels, a report is
\* stored and a project deleted at one moment each, as the handlers take for granted.
THEOREM StatementsAtomic == Spec => LogCatalogSpec
<1>1. Init => Atomic!Init
  BY DEF Init, Atomic!Init
<1>2. Inv /\ [Next]_vars => [Atomic!Next]_<<life, published, logs>>
  <2> SUFFICES ASSUME Inv, [Next]_vars
               PROVE  Atomic!Next \/ UNCHANGED <<life, published, logs>>
    OBVIOUS
  <2>1. ASSUME NEW p \in Project, CreateProject(p) \/ DeleteProject(p) \/ Remove(p)
        PROVE  Atomic!Next \/ UNCHANGED <<life, published, logs>>
    BY <2>1, CreateRefines, FinishRefines, OthersSilent DEF Remove, Atomic!Next
  <2>2. ASSUME NEW r \in Revision, Publish(r)
        PROVE  Atomic!Next
    BY <2>2, PublishRefines DEF Atomic!Next
  <2>3. ASSUME NEW c \in Call, Report(c) \/ Serve(c)
        PROVE  Atomic!Next \/ UNCHANGED <<life, published, logs>>
    BY <2>3, LockProjectRefines, OthersSilent DEF Serve, Atomic!Next
  <2>4. CASE Abort \/ UNCHANGED vars
    BY <2>4, OthersSilent DEF Abort
  <2> QED
    BY <2>1, <2>2, <2>3, <2>4 DEF Next
<1> QED
  BY <1>1, <1>2, LogInvariance, PTL DEF Spec, LogCatalogSpec, Atomic!Spec, Atomic!vars

-----------------------------------------------------------------------------
(* The catalog of GatewaySync, from the atomic statements *)

LEMMA VersionCounts ==
    ASSUME IsFiniteSet(published), NEW p \in Project
    PROVE  /\ IsFiniteSet(RevisionsOf(p))
           /\ Version[p] = Cardinality(RevisionsOf(p)) /\ Version[p] \in Nat
<1>1. RevisionsOf(p) \subseteq published
  BY DEF RevisionsOf
<1>2. IsFiniteSet(RevisionsOf(p))
  BY <1>1, FS_Subset
<1>3. Cardinality(RevisionsOf(p)) \in Nat
  BY <1>2, FS_CardinalityType
<1> QED
  BY <1>2, <1>3 DEF Version

\* A step that leaves the revisions of the other projects alone.
LEMMA VersionAt ==
    ASSUME IsFiniteSet(published), IsFiniteSet(published'), NEW p \in Project,
           \A q \in Project \ {p} : RevisionsOf(q)' = RevisionsOf(q)
    PROVE  Catalog!OnlyVersionOf(p) /\ Version'[p] = Cardinality(RevisionsOf(p)')
<1>1. /\ Version = [q \in Project |-> Cardinality(RevisionsOf(q))]
      /\ Version' = [q \in Project |-> Cardinality(RevisionsOf(q)')]
  BY DEF Version
<1>2. IsFiniteSet(RevisionsOf(p)')
  <2>1. RevisionsOf(p)' \subseteq published'
    BY DEF RevisionsOf
  <2> QED
    BY <2>1, FS_Subset
<1>3. Version'[p] = Cardinality(RevisionsOf(p)') /\ Version'[p] \in Nat
  BY <1>1, <1>2, FS_CardinalityType
<1>4. \A q \in Project \ {p} : Version'[q] = Version[q]
  BY <1>1
<1>5. Version' = [Version EXCEPT ![p] = Version'[p]]
  BY <1>1, <1>4
<1> QED
  BY <1>3, <1>5 DEF Catalog!OnlyVersionOf

LEMMA CatalogCreate ==
    ASSUME IsFiniteSet(published), NEW p \in Project, Atomic!Create(p)
    PROVE  Catalog!Create(p)
<1>1. published' = published
  BY DEF Atomic!Create
<1>2. Catalog!OnlyVersionOf(p)
  BY <1>1, VersionAt DEF RevisionsOf
<1> QED
  BY <1>2 DEF Atomic!Create, Catalog!Create

\* The new revision is counted after those that are there.
LEMMA CatalogPublish ==
    ASSUME IsFiniteSet(published), NEW r \in Revision, Atomic!Publish(r)
    PROVE  Catalog!Publish(ProjectOf[r])
<1> DEFINE p == ProjectOf[r]
<1>1. /\ p \in Project /\ life[p] = "live" /\ life' = life
      /\ r \notin published /\ published' = published \cup {r}
  BY Constants DEF Atomic!Publish
<1>2. IsFiniteSet(published')
  BY <1>1, FS_AddElement
<1>3. \A q \in Project \ {p} : RevisionsOf(q)' = RevisionsOf(q)
  BY <1>1 DEF RevisionsOf
<1>4. RevisionsOf(p)' = RevisionsOf(p) \cup {r} /\ r \notin RevisionsOf(p)
  BY <1>1 DEF RevisionsOf
<1>5. Catalog!OnlyVersionOf(p) /\ Version'[p] = Cardinality(RevisionsOf(p)')
  BY <1>1, <1>2, <1>3, VersionAt
<1>6. /\ IsFiniteSet(RevisionsOf(p))
      /\ Version[p] = Cardinality(RevisionsOf(p)) /\ Version[p] \in Nat
  BY <1>1, VersionCounts
<1>7. Version'[p] = Version[p] + 1
  BY <1>4, <1>5, <1>6, FS_AddElement
<1>8. Version[p] < Version'[p]
  BY <1>6, <1>7
<1> QED
  BY <1>1, <1>5, <1>8 DEF Catalog!Publish

LEMMA CatalogRemove ==
    ASSUME IsFiniteSet(published), NEW p \in Project, Atomic!Remove(p)
    PROVE  Catalog!Remove(p)
<1>1. /\ life[p] = "live" /\ life' = [life EXCEPT ![p] = "gone"]
      /\ published' = {r \in published : ProjectOf[r] # p}
  BY DEF Atomic!Remove
<1>2. IsFiniteSet(published')
  <2>1. published' \subseteq published
    BY <1>1
  <2> QED
    BY <2>1, FS_Subset
<1>3. \A q \in Project \ {p} : RevisionsOf(q)' = RevisionsOf(q)
  BY <1>1 DEF RevisionsOf
<1>4. RevisionsOf(p)' = {}
  BY <1>1 DEF RevisionsOf
<1>5. Catalog!OnlyVersionOf(p) /\ Version'[p] = 0
  BY <1>2, <1>3, <1>4, VersionAt, FS_EmptySet
<1> QED
  BY <1>1, <1>5 DEF Catalog!Remove, Catalog!OnlyVersionOf

\* There are finitely many revisions at any time.
LEMMA PublishedFinite == LogCatalogSpec => []IsFiniteSet(published)
<1>1. Atomic!Init => IsFiniteSet(published)
  BY FS_EmptySet DEF Atomic!Init
<1>2. IsFiniteSet(published) /\ [Atomic!Next]_<<life, published, logs>>
      => IsFiniteSet(published)'
  <2> SUFFICES ASSUME IsFiniteSet(published), [Atomic!Next]_<<life, published, logs>>
               PROVE  IsFiniteSet(published')
    OBVIOUS
  <2>1. ASSUME NEW r \in Revision, Atomic!Publish(r) PROVE IsFiniteSet(published')
    BY <2>1, FS_AddElement DEF Atomic!Publish
  <2>2. CASE published' \subseteq published
    BY <2>2, FS_Subset
  <2> QED
    BY <2>1, <2>2 DEF Atomic!Next, Atomic!Create, Atomic!Remove, Atomic!Store
<1> QED
  BY <1>1, <1>2, PTL DEF LogCatalogSpec, Atomic!Spec, Atomic!vars

\* The log's view of projects and revisions is the catalog GatewaySync implements,
\* although here deletions take several steps and may be refused.
THEOREM ImplementsCatalog == Spec => ProjectCatalogSpec
<1>1. Atomic!Init => Catalog!Init
  <2> SUFFICES ASSUME Atomic!Init PROVE Catalog!Init
    OBVIOUS
  <2>1. \A p \in Project : RevisionsOf(p) = {}
    BY DEF Atomic!Init, RevisionsOf
  <2>2. Version = [p \in Project |-> 0]
    BY <2>1, FS_EmptySet DEF Version
  <2> QED
    BY <2>2 DEF Atomic!Init, Catalog!Init
<1>2. IsFiniteSet(published) /\ [Atomic!Next]_<<life, published, logs>>
      => [Catalog!Next]_<<life, Version>>
  <2> SUFFICES ASSUME IsFiniteSet(published), [Atomic!Next]_<<life, published, logs>>
               PROVE  Catalog!Next \/ UNCHANGED <<life, Version>>
    OBVIOUS
  <2>1. ASSUME NEW p \in Project, Atomic!Create(p) \/ Atomic!Remove(p)
        PROVE  Catalog!Next
    BY <2>1, CatalogCreate, CatalogRemove DEF Catalog!Next
  <2>2. ASSUME NEW r \in Revision, Atomic!Publish(r)
        PROVE  Catalog!Next
    BY <2>2, CatalogPublish, Constants DEF Catalog!Next
  <2>3. CASE UNCHANGED <<life, published>>
    BY <2>3 DEF Version, RevisionsOf
  <2> QED
    BY <2>1, <2>2, <2>3 DEF Atomic!Next, Atomic!Store
<1> QED
  BY <1>1, <1>2, StatementsAtomic, PublishedFinite, PTL
     DEF LogCatalogSpec, Atomic!Spec, Atomic!vars, ProjectCatalogSpec, Catalog!Spec

=============================================================================
