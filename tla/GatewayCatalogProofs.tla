------------------------ MODULE GatewayCatalogProofs ------------------------
(* The handlers implement the catalog, and gateways have one proxy per path. *)
EXTENDS GatewaySyncProofs

-----------------------------------------------------------------------------
(* The refinement *)

LEMMA VersionFacts ==
    ASSUME TypeOK, NEW p \in Project
    PROVE  /\ Version[p] \in Nat
           /\ latest[p] = {} => Version[p] = 0
           /\ \A l \in latest[p] : Version[p] = l.id
<1>1. Version[p] = IF latest[p] = {} THEN 0 ELSE (CHOOSE l \in latest[p] : TRUE).id
  BY DEF Version
<1>2. latest[p] \subseteq Row /\ \A a, b \in latest[p] : a = b
  BY DEF TypeOK, Maybe
<1>3. ASSUME NEW l \in latest[p]
      PROVE  (CHOOSE x \in latest[p] : TRUE) = l /\ l.id \in Nat
  BY <1>2 DEF Row
<1>4. CASE latest[p] = {}
  BY <1>1, <1>4
<1>5. CASE latest[p] # {}
  BY <1>1, <1>3, <1>5
<1> QED
  BY <1>4, <1>5

\* The same after the step.
LEMMA VersionFactsNext ==
    ASSUME TypeOK', NEW p \in Project
    PROVE  /\ Version'[p] \in Nat
           /\ latest'[p] = {} => Version'[p] = 0
           /\ \A l \in latest'[p] : Version'[p] = l.id
<1>1. Version'[p] = IF latest'[p] = {} THEN 0 ELSE (CHOOSE l \in latest'[p] : TRUE).id
  BY DEF Version
<1>2. latest'[p] \subseteq Row /\ \A a, b \in latest'[p] : a = b
  BY DEF TypeOK, Maybe
<1>3. ASSUME NEW l \in latest'[p]
      PROVE  (CHOOSE x \in latest'[p] : TRUE) = l /\ l.id \in Nat
  BY <1>2 DEF Row
<1>4. CASE latest'[p] = {}
  BY <1>1, <1>4
<1>5. CASE latest'[p] # {}
  BY <1>1, <1>3, <1>5
<1> QED
  BY <1>4, <1>5

\* A function that differs from another one at p only.
LEMMA DifferAt ==
    ASSUME NEW f, NEW g, NEW p \in Project,
           f = [x \in Project |-> f[x]], g = [x \in Project |-> g[x]],
           \A x \in Project : x # p => g[x] = f[x]
    PROVE  g = [f EXCEPT ![p] = g[p]]
OBVIOUS

\* A step that moves the pointer of p only changes the version of p only.
LEMMA VersionOnly ==
    ASSUME TypeOK, TypeOK', NEW p \in Project,
           \A q \in Project : q # p => latest'[q] = latest[q]
    PROVE  Version' = [Version EXCEPT ![p] = Version'[p]]
<1>1. ASSUME NEW q \in Project, q # p
      PROVE  Version'[q] = Version[q]
  <2>1. latest'[q] = latest[q]
    BY <1>1
  <2>2. CASE latest[q] = {}
    BY <2>1, <2>2, VersionFacts, VersionFactsNext
  <2>3. ASSUME NEW l \in latest[q] PROVE Version'[q] = Version[q]
    <3>1. Version[q] = l.id
      BY VersionFacts
    <3>2. Version'[q] = l.id
      BY <2>1, VersionFactsNext
    <3> QED
      BY <3>1, <3>2
  <2> QED
    BY <2>2, <2>3
<1>2. Version = [x \in Project |-> Version[x]]
  BY DEF Version
<1>3. Version' = [x \in Project |-> Version'[x]]
  BY DEF Version
<1> QED
  BY <1>1, <1>2, <1>3, DifferAt

LEMMA PostRefines ==
    ASSUME Inv, TypeOK', NEW r \in Slot, NEW p \in Project, PostProject(r, p)
    PROVE  Catalog!Create(p) \/ UNCHANGED <<status, Version>>
<1>1. TypeOK /\ status[p] = "free"
  BY DEF Inv, Unborn, PostProject
<1>2. CASE UNCHANGED <<status, latest>>
  BY <1>2 DEF Version
<1>3. CASE /\ status' = [status EXCEPT ![p] = "live"]
           /\ \A q \in Project : q # p => latest'[q] = latest[q]
  <2>1. Version'[p] \in Nat /\ Version' = [Version EXCEPT ![p] = Version'[p]]
    BY <1>1, <1>3, VersionFactsNext, VersionOnly
  <2> QED
    BY <1>1, <1>3, <2>1 DEF Catalog!Create, Catalog!OnlyVersionOf
<1> QED
  BY <1>1, <1>2, <1>3 DEF PostProject, TypeOK

LEMMA CommitRefines ==
    ASSUME Inv, TypeOK', NEW r \in Slot, NEW p \in Project, PutCommit(r, p)
    PROVE  Catalog!Publish(p)
<1>1. /\ TypeOK /\ InTx(r) /\ p \in req[r].project
      /\ latest' = [latest EXCEPT ![p] = req[r].row] /\ UNCHANGED status
  BY DEF Inv, PutCommit, InTx
<1>2. PICK w \in req[r].row : req[r].row = {w} /\ req[r].project = {w.project}
  BY <1>1 DEF Inv, Shapes, Shape, InTx
<1>3. /\ w.project = p /\ status[p] = "live"
      /\ \A v \in revisions : v.project = p => v.id < w.id
  BY <1>1, <1>2 DEF Inv, TxNewest
<1>4. latest'[p] = {w}
  BY <1>1, <1>2 DEF TypeOK
<1>5. Version'[p] = w.id /\ w.id \in Nat \ {0}
  <2>1. w \in Row
    BY <1>4 DEF TypeOK, Maybe
  <2> QED
    BY <1>4, <2>1, VersionFactsNext DEF Row
<1>6. Version[p] < w.id
  <2>1. CASE latest[p] = {}
    BY <1>1, <1>5, <2>1, VersionFacts
  <2>2. ASSUME NEW l \in latest[p] PROVE Version[p] < w.id
    <3>1. l \in revisions /\ l.project = p
      BY DEF Inv, LatestIsNewest
    <3> QED
      BY <1>1, <1>3, <3>1, VersionFacts
  <2> QED
    BY <2>1, <2>2
<1>7. Version' = [Version EXCEPT ![p] = Version'[p]]
  <2>1. \A q \in Project : q # p => latest'[q] = latest[q]
    BY <1>1 DEF TypeOK
  <2> QED
    BY <1>1, <2>1, VersionOnly
<1> QED
  BY <1>1, <1>3, <1>5, <1>6, <1>7 DEF Catalog!Publish, Catalog!OnlyVersionOf

LEMMA DeleteRefines ==
    ASSUME Inv, TypeOK', NEW r \in Slot, NEW p \in Project, DeleteProject(r, p)
    PROVE  Catalog!Remove(p) \/ UNCHANGED <<status, Version>>
<1>1. TypeOK
  BY DEF Inv
<1>2. CASE UNCHANGED <<status, latest>>
  BY <1>2 DEF Version
<1>3. CASE /\ status[p] = "live" /\ status' = [status EXCEPT ![p] = "gone"]
           /\ latest' = [latest EXCEPT ![p] = {}]
  <2>1. latest'[p] = {} /\ \A q \in Project : q # p => latest'[q] = latest[q]
    BY <1>1, <1>3 DEF TypeOK
  <2>2. Version'[p] = 0 /\ Version' = [Version EXCEPT ![p] = Version'[p]]
    BY <1>1, <2>1, VersionFactsNext, VersionOnly
  <2> QED
    BY <1>3, <2>2 DEF Catalog!Remove
<1> QED
  BY <1>2, <1>3 DEF DeleteProject, RemoveProject

\* No other step touches a project or its pointer.
LEMMA OthersSilent ==
    ASSUME NEW r \in Slot,
           \/ Arrive(r)
           \/ \E p \in Project : PutSummary(r, p) \/ PutRevision(r, p) \/ DeleteSummary(r, p)
           \/ UpdateOrganization(r) \/ ApplyList(r)
           \/ \E answered \in BOOLEAN : ApplyWrite(r, answered)
           \/ ApplyFails(r) \/ Abort(r)
    PROVE  UNCHANGED <<status, latest>>
<1>1. CASE Arrive(r)
  BY <1>1 DEF Arrive, BeginPost, BeginPut, BeginDelete, BeginOrg
<1>2. CASE \E p \in Project : PutSummary(r, p) \/ PutRevision(r, p) \/ DeleteSummary(r, p)
  BY <1>2 DEF PutSummary, PutRevision, StoreRevision, DeleteSummary
<1>3. CASE UpdateOrganization(r) \/ ApplyList(r) \/ ApplyFails(r) \/ Abort(r)
  BY <1>3 DEF UpdateOrganization, ApplyList, ApplyFails, Abort
<1>4. CASE \E answered \in BOOLEAN : ApplyWrite(r, answered)
  BY <1>4 DEF ApplyWrite
<1> QED
  BY <1>1, <1>2, <1>3, <1>4

\* The handlers implement the catalog: versions only move forward, and deleted
\* projects neither come back nor keep a version.
THEOREM RefinesCatalog == Spec => CatalogSpec
<1>1. Init => Catalog!Init
  BY DEF Init, Catalog!Init, Version
<1>2. Inv /\ Inv' /\ [Next]_vars => [Catalog!Next]_<<status, Version>>
  <2> SUFFICES ASSUME Inv, TypeOK', [Next]_vars
               PROVE  Catalog!Next \/ UNCHANGED <<status, Version>>
    BY DEF Inv
  <2>1. ASSUME NEW r \in Slot, NEW p \in Project, PostProject(r, p)
        PROVE  Catalog!Next \/ UNCHANGED <<status, Version>>
    BY <2>1, PostRefines DEF Catalog!Next
  <2>2. ASSUME NEW r \in Slot, NEW p \in Project, PutCommit(r, p)
        PROVE  Catalog!Next
    BY <2>2, CommitRefines DEF Catalog!Next
  <2>3. ASSUME NEW r \in Slot, NEW p \in Project, DeleteProject(r, p)
        PROVE  Catalog!Next \/ UNCHANGED <<status, Version>>
    BY <2>3, DeleteRefines DEF Catalog!Next
  <2>4. UNCHANGED <<status, latest>> => UNCHANGED <<status, Version>>
    BY DEF Version
  <2>5. CASE \E o \in Org : Sync(o)
    BY <2>4, <2>5 DEF Sync
  <2>6. CASE UNCHANGED vars
    BY <2>4, <2>6 DEF vars
  <2>7. ASSUME NEW r \in Slot, Arrive(r) \/ Handle(r) \/ ApplyFails(r) \/ Abort(r)
        PROVE  Catalog!Next \/ UNCHANGED <<status, Version>>
    BY <2>1, <2>2, <2>3, <2>4, <2>7, OthersSilent DEF Handle
  <2> QED
    BY <2>5, <2>6, <2>7 DEF Next
<1> QED
  BY <1>1, <1>2, Invariance, PTL DEF Spec, CatalogSpec, Catalog!Spec

-----------------------------------------------------------------------------
(* One proxy per path *)

OneEach(rows) == \A a, b \in rows : NameOf[a.project] = NameOf[b.project] => a = b

\* The constraint project_name_unique, and what follows for the lists Apply makes.
PathInv ==
    /\ \A p, q \in Project :
          status[p] = "live" /\ status[q] = "live" /\ OrgOf[p] = OrgOf[q]
          /\ NameOf[p] = NameOf[q] => p = q
    /\ \A r \in Slot : OneEach(req[r].rows)
    /\ \A o \in Org : \A g \in gateway[o] : OneEach(g.rows)

LEMMA GotoRows ==
    ASSUME TypeOK, NEW r \in Slot, NEW q, Goto(r, q) \/ GotoSeen(r, q)
    PROVE  \A s \in Slot : req'[s].rows = IF s = r THEN q.rows ELSE req[s].rows
<1>1. CASE Goto(r, q)
  BY <1>1 DEF Goto, TypeOK
<1>2. CASE GotoSeen(r, q)
  <2> SUFFICES ASSUME NEW s \in Slot
               PROVE  req'[s].rows = IF s = r THEN q.rows ELSE req[s].rows
    OBVIOUS
  <2>1. req[s] \in Request
    BY DEF TypeOK
  <2>2. [req[s] EXCEPT !.solo = FALSE].rows = req[s].rows
    BY <2>1 DEF Request
  <2>3. req'[s] = IF s = r THEN q
                  ELSE IF Active(s) /\ Conflict(req[s], req[r])
                       THEN [req[s] EXCEPT !.solo = FALSE] ELSE req[s]
    BY <1>2 DEF GotoSeen
  <2> QED
    BY <2>2, <2>3
<1> QED
  BY <1>1, <1>2

\* Of two requests that keep or clear their lists, nothing new can be said.
RowsKept == \A s \in Slot : req'[s].rows \in {{}, req[s].rows}

LEMMA RowsStep ==
    ASSUME TypeOK, NEW r \in Slot,
           \/ Arrive(r)
           \/ \E p \in Project : \/ PostProject(r, p) \/ PutSummary(r, p) \/ PutRevision(r, p)
                                 \/ PutCommit(r, p) \/ DeleteSummary(r, p) \/ DeleteProject(r, p)
           \/ UpdateOrganization(r)
           \/ \E answered \in BOOLEAN : ApplyWrite(r, answered)
           \/ ApplyFails(r) \/ Abort(r)
    PROVE  RowsKept
<1>0. req[r] \in Request /\ Blank.rows = {}
  BY DEF TypeOK, Blank
<1>a. ASSUME NEW q, q.rows \in {{}, req[r].rows}, Goto(r, q) \/ GotoSeen(r, q)
      PROVE  RowsKept
  BY <1>a, GotoRows DEF RowsKept
<1>b. Return(r) => RowsKept
  BY <1>0, <1>a DEF Return
<1>1. CASE Arrive(r)
  <2>1. ASSUME NEW p \in Project, NEW url \in Maybe(Url), BeginPost(r, p, url)
        PROVE  RowsKept
    <3> DEFINE q == [Blank EXCEPT !.pc = "store", !.op = "post", !.org = OrgOf[p],
                             !.project = {p}, !.body = [NoBody EXCEPT !.proxy = url],
                             !.snap = settings[OrgOf[p]], !.solo = TRUE]
    <3>1. q.rows = {} /\ Goto(r, q)
      BY <2>1 DEF BeginPost, Blank
    <3> HIDE DEF q
    <3> QED
      BY <1>a, <3>1
  <2>2. ASSUME NEW p \in Project, NEW b \in Bodies, BeginPut(r, p, b)
        PROVE  RowsKept
    <3> DEFINE q == [Blank EXCEPT !.pc = "summary", !.op = "put", !.org = OrgOf[p],
                             !.project = {p}, !.body = b, !.solo = TRUE]
    <3>1. q.rows = {} /\ Goto(r, q)
      BY <2>2 DEF BeginPut, Blank
    <3> HIDE DEF q
    <3> QED
      BY <1>a, <3>1
  <2>3. ASSUME NEW p \in Project, BeginDelete(r, p)
        PROVE  RowsKept
    <3> DEFINE q == [Blank EXCEPT !.pc = "summary", !.op = "delete",
                             !.org = OrgOf[p], !.project = {p}, !.solo = TRUE]
    <3>1. q.rows = {} /\ Goto(r, q)
      BY <2>3 DEF BeginDelete, Blank
    <3> HIDE DEF q
    <3> QED
      BY <1>a, <3>1
  <2>4. ASSUME NEW o \in Org, NEW c \in Changes, BeginOrg(r, o, c)
        PROVE  RowsKept
    <3> DEFINE q == [Blank EXCEPT !.pc = "store", !.op = "org", !.org = o,
                             !.change = c, !.snap = settings[o], !.solo = TRUE]
    <3>1. q.rows = {} /\ Goto(r, q)
      BY <2>4 DEF BeginOrg, Blank
    <3> HIDE DEF q
    <3> QED
      BY <1>a, <3>1
  <2> QED
    BY <1>1, <2>1, <2>2, <2>3, <2>4 DEF Arrive
<1>2. ASSUME NEW p \in Project, PostProject(r, p)
      PROVE  RowsKept
  <2> DEFINE q == [req[r] EXCEPT !.pc = "list", !.touched = TRUE]
  <2>1. q.rows = req[r].rows
    BY <1>0 DEF Request
  <2>2. Return(r) \/ GotoSeen(r, q)
    BY <1>2 DEF PostProject
  <2> HIDE DEF q
  <2> QED
    BY <1>a, <1>b, <2>1, <2>2
<1>3. ASSUME NEW p \in Project, PutSummary(r, p)
      PROVE  RowsKept
  <2> DEFINE b == Inherit(req[r].body, latest[p])
             q == [req[r] EXCEPT !.pc = "store", !.body = b, !.snap = settings[req[r].org]]
  <2>1. Return(r) \/ Goto(r, q)
    BY <1>3 DEF PutSummary
  <2> HIDE DEF b
  <2>2. q.rows = req[r].rows
    BY <1>0 DEF Request
  <2> HIDE DEF q
  <2> QED
    BY <1>a, <1>b, <2>1, <2>2
<1>4. ASSUME NEW p \in Project, PutRevision(r, p)
      PROVE  RowsKept
  <2> DEFINE w == NewRow(p, req[r].body)
             q == [req[r] EXCEPT !.pc = "list", !.row = {w}]
  <2>1. Return(r) \/ Goto(r, q)
    BY <1>4 DEF PutRevision, StoreRevision
  <2> HIDE DEF w
  <2>2. q.rows = req[r].rows
    BY <1>0 DEF Request
  <2> HIDE DEF q
  <2> QED
    BY <1>a, <1>b, <2>1, <2>2
<1>5. ASSUME NEW p \in Project, PutCommit(r, p)
      PROVE  RowsKept
  BY <1>0, <1>5, <1>a DEF PutCommit
<1>6. ASSUME NEW p \in Project, DeleteSummary(r, p)
      PROVE  RowsKept
  <2> DEFINE q == [req[r] EXCEPT !.pc = "store", !.snap = settings[req[r].org]]
  <2>1. q.rows = req[r].rows
    BY <1>0 DEF Request
  <2>2. Return(r) \/ Goto(r, q)
    BY <1>6 DEF DeleteSummary
  <2> HIDE DEF q
  <2> QED
    BY <1>a, <1>b, <2>1, <2>2
<1>7. ASSUME NEW p \in Project, DeleteProject(r, p)
      PROVE  RowsKept
  <2> DEFINE q == [req[r] EXCEPT !.pc = "list", !.touched = TRUE]
  <2>1. q.rows = req[r].rows
    BY <1>0 DEF Request
  <2>2. Return(r) \/ GotoSeen(r, q)
    BY <1>7 DEF DeleteProject, RemoveProject
  <2> HIDE DEF q
  <2> QED
    BY <1>a, <1>b, <2>1, <2>2
<1>8. CASE UpdateOrganization(r)
  <2> DEFINE s == Patched(req[r].snap, req[r].change)
             q1 == [req[r] EXCEPT !.pc = "list", !.snap = s, !.touched = TRUE]
             q2 == [req[r] EXCEPT !.pc = "list"]
  <2>1. GotoSeen(r, q1) \/ Goto(r, q2)
    BY <1>8 DEF UpdateOrganization
  <2> HIDE DEF s
  <2>2. q1.rows = req[r].rows /\ q2.rows = req[r].rows
    BY <1>0 DEF Request
  <2> HIDE DEF q1, q2
  <2> QED
    BY <1>a, <2>1, <2>2
<1>9. ASSUME NEW answered \in BOOLEAN, ApplyWrite(r, answered)
      PROVE  RowsKept
  <2> DEFINE q == [req[r] EXCEPT !.applied = answered, !.touched = TRUE]
             q1 == [q EXCEPT !.pc = "commit"]
  <2>1. q.rows = req[r].rows /\ q1.rows = req[r].rows
    BY <1>0 DEF Request
  <2>2. GotoSeen(r, q1) \/ GotoSeen(r, Blank)
    BY <1>9 DEF ApplyWrite
  <2> HIDE DEF q, q1
  <2> QED
    BY <1>0, <1>a, <2>1, <2>2
<1>10. CASE ApplyFails(r)
  <2> DEFINE q == [req[r] EXCEPT !.pc = "commit"]
  <2>1. q.rows = req[r].rows
    BY <1>0 DEF Request
  <2>2. Return(r) \/ Goto(r, q)
    BY <1>10 DEF ApplyFails
  <2> HIDE DEF q
  <2> QED
    BY <1>a, <1>b, <2>1, <2>2
<1>11. CASE Abort(r)
  BY <1>0, <1>11, <1>a DEF Abort
<1> QED
  BY <1>1, <1>2, <1>3, <1>4, <1>5, <1>6, <1>7, <1>8, <1>9, <1>10, <1>11

\* What Apply lists has one revision per name: it takes one of each live project.
LEMMA ViewOneEach ==
    ASSUME Inv, PathInv, NEW r \in Slot
    PROVE  OneEach(View(r))
<1>1. ASSUME NEW p \in Project, status[p] = "live"
      PROVE  /\ \A l \in latest[p] : l.project = p
             /\ \A a, b \in latest[p] : a = b
  BY DEF Inv, LatestIsNewest, TypeOK, Maybe
<1>2. ASSUME InTx(r)
      PROVE  \A w \in req[r].row : req[r].row = {w} /\ req[r].project = {w.project}
  BY <1>2 DEF Inv, Shapes, Shape, InTx
<1> DEFINE O == ProjectsOf(req[r].org)
           own(p) == IF InTx(r) /\ p \in req[r].project THEN req[r].row ELSE latest[p]
<1>3. \A w \in View(r) : w.project \in O /\ w \in own(w.project)
  BY <1>1, <1>2 DEF View, Summaries, ProjectsOf
<1>4. \A p \in O : \A a, b \in own(p) : a = b
  BY <1>1, <1>2 DEF ProjectsOf
<1>5. \A p, q \in O : NameOf[p] = NameOf[q] => p = q
  BY DEF PathInv, ProjectsOf
<1> HIDE DEF O, own
<1> QED
  BY <1>3, <1>4, <1>5 DEF OneEach

\* Names stay unique: a project is created only if its name is free.
LEMMA NamesStep ==
    ASSUME Inv, PathInv, [Next]_vars
    PROVE  \A p, q \in Project :
              status'[p] = "live" /\ status'[q] = "live" /\ OrgOf[p] = OrgOf[q]
              /\ NameOf[p] = NameOf[q] => p = q
<1> USE DEF PathInv
<1>0. TypeOK
  BY DEF Inv
<1>1. CASE UNCHANGED status
  BY <1>1
<1>2. ASSUME NEW r \in Slot, NEW p \in Project, PostProject(r, p), status' # status
      PROVE  \A a, b \in Project :
                status'[a] = "live" /\ status'[b] = "live" /\ OrgOf[a] = OrgOf[b]
                /\ NameOf[a] = NameOf[b] => a = b
  <2>1. status' = [status EXCEPT ![p] = "live"] /\ ~NameTaken(p)
    BY <1>2 DEF PostProject
  <2>2. \A q \in Project : status'[q] = "live" => q = p \/ status[q] = "live"
    BY <1>0, <2>1 DEF TypeOK
  <2>3. \A q \in Project : status[q] = "live" /\ OrgOf[q] = OrgOf[p] => NameOf[q] # NameOf[p]
    BY <2>1 DEF NameTaken, ProjectsOf
  <2> QED
    BY <2>2, <2>3
<1>3. ASSUME NEW r \in Slot, NEW p \in Project, DeleteProject(r, p), status' # status
      PROVE  \A q \in Project : status'[q] = "live" => status[q] = "live"
  BY <1>0, <1>3 DEF DeleteProject, RemoveProject, TypeOK
<1>4. ASSUME NEW r \in Slot, NEW p \in Project, PutCommit(r, p)
      PROVE  UNCHANGED status
  BY <1>4 DEF PutCommit
<1>5. ASSUME NEW r \in Slot, Arrive(r) \/ Handle(r) \/ ApplyFails(r) \/ Abort(r), status' # status
      PROVE  \E p \in Project : PostProject(r, p) \/ DeleteProject(r, p)
  BY <1>4, <1>5, OthersSilent DEF Handle
<1>6. CASE \E o \in Org : Sync(o)
  BY <1>6 DEF Sync
<1>7. CASE UNCHANGED vars
  BY <1>7 DEF vars
<1> QED
  BY <1>1, <1>2, <1>3, <1>5, <1>6, <1>7 DEF Next

\* Every other step leaves the gateways alone.
LEMMA GatewayStep ==
    ASSUME TypeOK, [Next]_vars
    PROVE  \/ UNCHANGED gateway
           \/ \E r \in Slot : \E answered \in BOOLEAN : ApplyWrite(r, answered)
<1>1. ASSUME NEW r \in Slot, Arrive(r)
      PROVE  UNCHANGED gateway
  BY <1>1 DEF Arrive, BeginPost, BeginPut, BeginDelete, BeginOrg
<1>2. ASSUME NEW r \in Slot, NEW p \in Project,
             \/ PostProject(r, p) \/ PutSummary(r, p) \/ PutRevision(r, p)
             \/ PutCommit(r, p) \/ DeleteSummary(r, p) \/ DeleteProject(r, p)
      PROVE  UNCHANGED gateway
  BY <1>2 DEF PostProject, PutSummary, PutRevision, StoreRevision, PutCommit, DeleteSummary,
              DeleteProject, RemoveProject
<1>3. ASSUME NEW r \in Slot, UpdateOrganization(r) \/ ApplyList(r) \/ ApplyFails(r) \/ Abort(r)
      PROVE  UNCHANGED gateway
  BY <1>3 DEF UpdateOrganization, ApplyList, ApplyFails, Abort
<1>4. CASE \E o \in Org : Sync(o)
  BY <1>4 DEF Sync
<1>5. CASE UNCHANGED vars
  BY <1>5 DEF vars
<1> QED
  BY <1>1, <1>2, <1>3, <1>4, <1>5 DEF Next, Handle

LEMMA PathStep == Inv /\ PathInv /\ [Next]_vars => PathInv'
<1> SUFFICES ASSUME Inv, PathInv, [Next]_vars PROVE PathInv'
  OBVIOUS
<1>0. TypeOK
  BY DEF Inv
<1>1. \A r \in Slot : OneEach(req'[r].rows)
  <2>1. CASE RowsKept
    BY <2>1 DEF RowsKept, PathInv, OneEach
  <2>2. ASSUME NEW r \in Slot, ApplyList(r)
        PROVE  \A s \in Slot : OneEach(req'[s].rows)
    <3>1. PICK q : Goto(r, q) /\ q.rows = View(r)
      BY <1>0, <2>2, ApplyListMoves
    <3>2. \A s \in Slot : req'[s].rows = IF s = r THEN View(r) ELSE req[s].rows
      BY <1>0, <3>1, GotoRows
    <3> QED
      BY <3>2, ViewOneEach DEF PathInv
  <2>3. ASSUME NEW r \in Slot, Arrive(r) \/ Handle(r) \/ ApplyFails(r) \/ Abort(r)
        PROVE  RowsKept \/ ApplyList(r)
    BY <1>0, <2>3, RowsStep DEF Handle
  <2>4. CASE UNCHANGED req
    BY <2>4 DEF PathInv
  <2> QED
    BY <2>1, <2>2, <2>3, <2>4 DEF Next, Sync, vars
<1>2. \A o \in Org : \A g \in gateway'[o] : OneEach(g.rows)
  <2>1. CASE UNCHANGED gateway
    BY <2>1 DEF PathInv
  <2>2. ASSUME NEW r \in Slot, NEW answered \in BOOLEAN, ApplyWrite(r, answered)
        PROVE  \A o \in Org : \A g \in gateway'[o] : OneEach(g.rows)
    <3>1. gateway' = [gateway EXCEPT ![req[r].org] =
                         IF req[r].any
                         THEN {[settings |-> req[r].snap, rows |-> req[r].rows]}
                         ELSE {}]
      BY <2>2 DEF ApplyWrite
    <3>2. ASSUME NEW o \in Org, NEW g \in gateway'[o]
          PROVE  g \in gateway[o] \/ g.rows = req[r].rows
      BY <1>0, <3>1, <3>2 DEF TypeOK
    <3> QED
      BY <3>2 DEF PathInv
  <2> QED
    BY <1>0, <2>1, <2>2, GatewayStep
<1>3. PathInv'
  BY <1>1, <1>2, NamesStep DEF PathInv, OneEach
<1> QED
  BY <1>3

\* A gateway's configuration never has two proxies at one path, although names
\* are reused and lists grow old between Apply's two steps.
THEOREM PathsUnique == Spec => []UniquePaths
<1>1. Init => PathInv
  <2>1. Blank.rows = {}
    BY DEF Blank
  <2> QED
    BY <2>1 DEF Init, PathInv, OneEach
<1>2. PathInv => UniquePaths
  <2> SUFFICES ASSUME PathInv, NEW o \in Org, NEW g \in gateway[o],
                      NEW a \in GetGatewayConfig(o, g).proxies,
                      NEW b \in GetGatewayConfig(o, g).proxies, a.path = b.path
               PROVE  a = b
    BY DEF UniquePaths
  <2>1. GetGatewayConfig(o, g).proxies =
           {[path |-> NameOf[w.project], webhook |-> w.id, http |-> w.src.proxy] : w \in g.rows}
    BY DEF GetGatewayConfig
  <2>2. PICK v \in g.rows :
           a = [path |-> NameOf[v.project], webhook |-> v.id, http |-> v.src.proxy]
    BY <2>1
  <2>3. PICK w \in g.rows :
           b = [path |-> NameOf[w.project], webhook |-> w.id, http |-> w.src.proxy]
    BY <2>1
  <2>4. v = w
    BY <2>2, <2>3 DEF PathInv, OneEach
  <2> QED
    BY <2>2, <2>3, <2>4
<1> QED
  BY <1>1, <1>2, PathStep, Invariance, PTL DEF Spec

-----------------------------------------------------------------------------
(* No phantom revisions *)

\* A revision somebody can account for: committed, about to be, or deleted with
\* its project.
Known(w) ==
    \/ w \in revisions
    \/ status[w.project] = "gone"
    \/ \E s \in Slot : InTx(s) /\ w \in req[s].row

\* Every revision that Apply lists or has written is known.
PhantomInv ==
    "abort" \notin Failures =>
        /\ \A r \in Slot : \A w \in req[r].rows : w \in Row /\ Known(w)
        /\ \A o \in Org : \A g \in gateway[o] : \A w \in g.rows : w \in Row /\ Known(w)

\* A step of one slot leaves the local variables of the others alone.
LEMMA OthersKept ==
    ASSUME TypeOK, NEW r \in Slot, Arrive(r) \/ Handle(r) \/ ApplyFails(r) \/ Abort(r)
    PROVE  \A s \in Slot : s # r => req'[s].pc = req[s].pc /\ req'[s].op = req[s].op
                                    /\ req'[s].row = req[s].row
<1>1. ASSUME NEW q, Goto(r, q) \/ GotoSeen(r, q)
      PROVE  \A s \in Slot : s # r => req'[s].pc = req[s].pc /\ req'[s].op = req[s].op
                                      /\ req'[s].row = req[s].row
  <2> SUFFICES ASSUME NEW s \in Slot, s # r
               PROVE  req'[s].pc = req[s].pc /\ req'[s].op = req[s].op
                      /\ req'[s].row = req[s].row
    OBVIOUS
  <2>1. req[s] \in Request
    BY DEF TypeOK
  <2>2. LET d == [req[s] EXCEPT !.solo = FALSE]
        IN  d.pc = req[s].pc /\ d.op = req[s].op /\ d.row = req[s].row
    BY <2>1 DEF Request
  <2>3. req'[s] = req[s] \/ req'[s] = [req[s] EXCEPT !.solo = FALSE]
    BY <1>1 DEF Goto, GotoSeen, TypeOK
  <2> QED
    BY <2>2, <2>3
<1>2. CASE Arrive(r)
  BY <1>1, <1>2 DEF Arrive, BeginPost, BeginPut, BeginDelete, BeginOrg
<1>3. CASE Handle(r)
  BY <1>1, <1>3 DEF Handle, PostProject, PutSummary, PutRevision, StoreRevision, PutCommit,
     DeleteSummary, DeleteProject, RemoveProject, UpdateOrganization, ApplyList, ApplyWrite,
     Return
<1>4. CASE ApplyFails(r) \/ Abort(r)
  BY <1>1, <1>4 DEF ApplyFails, Abort, Return
<1> QED
  BY <1>2, <1>3, <1>4

\* The row w of slot r's transaction is committed or still in it.
RowStays(r, w) == w \in revisions' \/ (InTx(r)' /\ w \in req'[r].row)

\* An open transaction keeps its row until it commits it.
LEMMA OwnRowStays ==
    ASSUME TypeOK, NEW r \in Slot, InTx(r), NEW w \in req[r].row,
           Arrive(r) \/ Handle(r) \/ ApplyFails(r)
    PROVE  RowStays(r, w)
<1>0. req[r].op = "put" /\ req[r].pc \in {"list", "apply", "commit"}
  BY DEF InTx
<1>1. CASE ApplyList(r)
  <2>1. PICK q : /\ Continues(q, req[r]) /\ Goto(r, q)
                 /\ q.pc = "apply" /\ q.row = req[r].row
    BY <1>1, ApplyListMoves
  <2>2. req'[r] = q
    BY <2>1, GotoKeeps DEF TypeOK, Continues
  <2> QED
    BY <1>0, <2>1, <2>2 DEF RowStays, InTx, Continues
<1>2. ASSUME NEW answered \in BOOLEAN, ApplyWrite(r, answered)
      PROVE  RowStays(r, w)
  <2>1. PICK q : Continues(q, req[r]) /\ GotoSeen(r, q) /\ q.pc = "commit" /\ q.row = req[r].row
    BY <1>0, <1>2, ApplyWriteMoves
  <2>2. req'[r] = q
    BY <2>1, GotoKeeps DEF TypeOK, Continues
  <2> QED
    BY <1>0, <2>1, <2>2 DEF RowStays, InTx, Continues
<1>3. CASE ApplyFails(r)
  <2>1. Goto(r, [req[r] EXCEPT !.pc = "commit"])
    BY <1>0, <1>3 DEF ApplyFails
  <2>2. LET q == [req[r] EXCEPT !.pc = "commit"]
        IN  q.op = "put" /\ q.pc = "commit" /\ q.row = req[r].row
    BY <1>0 DEF TypeOK, Request
  <2>3. req'[r] = [req[r] EXCEPT !.pc = "commit"]
    BY <2>1 DEF Goto, TypeOK
  <2> QED
    BY <2>2, <2>3 DEF RowStays, InTx
<1>4. ASSUME NEW p \in Project, PutCommit(r, p)
      PROVE  RowStays(r, w)
  BY <1>4 DEF PutCommit, RowStays
<1>5. ~Arrive(r) /\ ~UpdateOrganization(r)
  BY <1>0 DEF Arrive, BeginPost, BeginPut, BeginDelete, BeginOrg, Active, UpdateOrganization
<1>6. \A p \in Project : /\ ~PostProject(r, p) /\ ~PutSummary(r, p) /\ ~PutRevision(r, p)
                         /\ ~DeleteSummary(r, p) /\ ~DeleteProject(r, p)
  BY <1>0 DEF PostProject, PutSummary, PutRevision, StoreRevision, DeleteSummary, DeleteProject,
              RemoveProject
<1>7. CASE Handle(r)
  BY <1>1, <1>2, <1>4, <1>5, <1>6, <1>7 DEF Handle
<1> QED
  BY <1>3, <1>5, <1>7

\* Committed revisions vanish with their project only, and it stays gone.
LEMMA RevisionsStay ==
    ASSUME Inv, [Next]_vars, NEW w \in Row
    PROVE  /\ w \in revisions => w \in revisions' \/ status'[w.project] = "gone"
           /\ status[w.project] = "gone" => status'[w.project] = "gone"
<1>0. w.project \in Project /\ TypeOK
  BY DEF Row, Inv
<1>1. CASE UNCHANGED <<revisions, status>>
  BY <1>1
<1>2. ASSUME NEW r \in Slot, NEW p \in Project, PostProject(r, p)
      PROVE  /\ revisions \subseteq revisions'
             /\ status[w.project] = "gone" => status'[w.project] = "gone"
  <2>1. status[p] = "free"
    BY <1>2 DEF Inv, Unborn, PostProject
  <2>2. revisions \subseteq revisions'
    BY <1>2 DEF PostProject
  <2>3. UNCHANGED status \/ status' = [status EXCEPT ![p] = "live"]
    BY <1>2 DEF PostProject
  <2> QED
    BY <1>0, <2>1, <2>2, <2>3 DEF TypeOK
<1>3. ASSUME NEW r \in Slot, NEW p \in Project, PutCommit(r, p)
      PROVE  revisions \subseteq revisions' /\ UNCHANGED status
  BY <1>3 DEF PutCommit
<1>4. ASSUME NEW r \in Slot, NEW p \in Project, DeleteProject(r, p)
      PROVE  /\ w \in revisions => w \in revisions' \/ status'[w.project] = "gone"
             /\ status[w.project] = "gone" => status'[w.project] = "gone"
  <2>1. CASE UNCHANGED <<status, revisions>>
    BY <2>1
  <2>2. CASE /\ status' = [status EXCEPT ![p] = "gone"]
             /\ revisions' = {v \in revisions : v.project # p}
    BY <1>0, <2>2 DEF TypeOK
  <2> QED
    BY <1>4, <2>1, <2>2 DEF DeleteProject, RemoveProject
<1>5. ASSUME NEW r \in Slot, Arrive(r) \/ ApplyFails(r) \/ Abort(r)
      PROVE  UNCHANGED <<revisions, status>>
  BY <1>5 DEF Arrive, BeginPost, BeginPut, BeginDelete, BeginOrg, ApplyFails, Abort
<1>6. ASSUME NEW r \in Slot, NEW p \in Project,
             PutSummary(r, p) \/ PutRevision(r, p) \/ DeleteSummary(r, p)
      PROVE  UNCHANGED <<revisions, status>>
  BY <1>6 DEF PutSummary, PutRevision, StoreRevision, DeleteSummary
<1>7. ASSUME NEW r \in Slot, NEW answered \in BOOLEAN,
             UpdateOrganization(r) \/ ApplyList(r) \/ ApplyWrite(r, answered)
      PROVE  UNCHANGED <<revisions, status>>
  BY <1>7 DEF UpdateOrganization, ApplyList, ApplyWrite
<1>8. CASE (\E o \in Org : Sync(o)) \/ UNCHANGED vars
  BY <1>8 DEF Sync, vars
<1> QED
  BY <1>1, <1>2, <1>3, <1>4, <1>5, <1>6, <1>7, <1>8 DEF Next, Handle

LEMMA KnownStays ==
    ASSUME Inv, [Next]_vars, "abort" \notin Failures, NEW w \in Row, Known(w)
    PROVE  Known(w)'
<1>0. TypeOK
  BY DEF Inv
<1>1. CASE w \in revisions \/ status[w.project] = "gone"
  BY <1>1, RevisionsStay DEF Known
<1>2. ASSUME NEW s \in Slot, InTx(s), w \in req[s].row
      PROVE  Known(w)'
  <2>1. CASE UNCHANGED req
    BY <1>2, <2>1 DEF Known, InTx
  <2>2. ASSUME NEW r \in Slot, Arrive(r) \/ Handle(r) \/ ApplyFails(r)
        PROVE  Known(w)'
    <3>1. CASE s = r
      BY <1>0, <1>2, <2>2, <3>1, OwnRowStays DEF Known, RowStays
    <3>2. CASE s # r
      <4>1. InTx(s)' /\ w \in req'[s].row
        BY <1>0, <1>2, <2>2, <3>2, OthersKept DEF InTx
      <4> QED
        BY <4>1 DEF Known
    <3> QED
      BY <3>1, <3>2
  <2>3. \A r \in Slot : ~Abort(r)
    BY DEF Abort
  <2> QED
    BY <2>1, <2>2, <2>3 DEF Next, Sync, vars
<1> QED
  BY <1>1, <1>2 DEF Known

LEMMA PhantomStep == Inv /\ PhantomInv /\ [Next]_vars => PhantomInv'
<1> SUFFICES ASSUME Inv, PhantomInv, [Next]_vars, "abort" \notin Failures
             PROVE  /\ \A r \in Slot : \A w \in req'[r].rows : w \in Row /\ Known(w)'
                    /\ \A o \in Org : \A g \in gateway'[o] : \A w \in g.rows :
                          w \in Row /\ Known(w)'
  BY DEF PhantomInv
<1>0. TypeOK
  BY DEF Inv
<1>1. ASSUME NEW r \in Slot, NEW w \in req'[r].rows
      PROVE  w \in Row /\ Known(w)
  <2>1. CASE RowsKept
    BY <1>1, <2>1 DEF RowsKept, PhantomInv
  <2>2. ASSUME NEW s \in Slot, ApplyList(s)
        PROVE  w \in Row /\ Known(w)
    <3>1. PICK q : Goto(s, q) /\ q.rows = View(s)
      BY <1>0, <2>2, ApplyListMoves
    <3>2. req'[r].rows = IF r = s THEN View(s) ELSE req[r].rows
      BY <1>0, <3>1, GotoRows
    <3>3. ASSUME NEW v \in View(s)
          PROVE  v \in Row /\ Known(v)
      <4>1. v \in revisions \/ (InTx(s) /\ v \in req[s].row)
        <5>0. \A p \in ProjectsOf(req[s].org) : latest[p] \subseteq revisions
          BY DEF ProjectsOf, Inv, LatestIsNewest
        <5>1. CASE InTx(s)
          <6>1. PICK p \in ProjectsOf(req[s].org) :
                   v \in IF p \in req[s].project THEN req[s].row ELSE latest[p]
            BY <3>3, <5>1 DEF View, Summaries
          <6> QED
            BY <5>0, <5>1, <6>1
        <5>2. CASE ~InTx(s)
          <6>1. PICK p \in ProjectsOf(req[s].org) : v \in latest[p]
            BY <3>3, <5>2 DEF View, Summaries
          <6> QED
            BY <5>0, <6>1
        <5> QED
          BY <5>1, <5>2
      <4>2. req[s].row \subseteq Row /\ revisions \subseteq Row
        BY <1>0 DEF TypeOK, Request, Maybe
      <4> QED
        BY <4>1, <4>2 DEF Known
    <3> QED
      BY <1>1, <3>2, <3>3 DEF PhantomInv
  <2>3. ASSUME NEW s \in Slot, Arrive(s) \/ Handle(s) \/ ApplyFails(s) \/ Abort(s)
        PROVE  RowsKept \/ ApplyList(s)
    BY <1>0, <2>3, RowsStep DEF Handle
  <2>4. CASE UNCHANGED req
    BY <1>1, <2>4 DEF PhantomInv
  <2> QED
    BY <2>1, <2>2, <2>3, <2>4 DEF Next, Sync, vars
<1>2. ASSUME NEW o \in Org, NEW g \in gateway'[o], NEW w \in g.rows
      PROVE  w \in Row /\ Known(w)
  <2>1. CASE UNCHANGED gateway
    BY <1>2, <2>1 DEF PhantomInv
  <2>2. ASSUME NEW r \in Slot, NEW answered \in BOOLEAN, ApplyWrite(r, answered)
        PROVE  w \in Row /\ Known(w)
    <3>1. gateway' = [gateway EXCEPT ![req[r].org] =
                         IF req[r].any
                         THEN {[settings |-> req[r].snap, rows |-> req[r].rows]}
                         ELSE {}]
      BY <2>2 DEF ApplyWrite
    <3>2. g \in gateway[o] \/ g.rows = req[r].rows
      BY <1>0, <1>2, <3>1 DEF TypeOK
    <3> QED
      BY <1>2, <3>2 DEF PhantomInv
  <2> QED
    BY <1>0, <2>1, <2>2, GatewayStep
<1> QED
  BY <1>1, <1>2, KnownStays

\* Unless transactions fail after their Apply, a gateway names no revision that
\* does not come to exist, however stale the list it was made from.
THEOREM NoPhantoms == Spec => []NoPhantomRevision
<1>1. Init => PhantomInv
  <2>1. Blank.rows = {}
    BY DEF Blank
  <2> QED
    BY <2>1 DEF Init, PhantomInv
<1>2. PhantomInv => NoPhantomRevision
  BY DEF PhantomInv, NoPhantomRevision, Known
<1> QED
  BY <1>1, <1>2, PhantomStep, Invariance, PTL DEF Spec

-----------------------------------------------------------------------------
(* What an idle organization is served *)

Still(o) ==
    settings'[o] = settings[o] /\ gateway'[o] = gateway[o] /\ Desired(o)' = Desired(o)

\* A request works on its own organization's project.
LEMMA OwnProject ==
    ASSUME Inv, NEW r \in Slot, NEW p \in Project, p \in req[r].project,
           req[r].pc # "idle", req[r].op # "org"
    PROVE  req[r].org = OrgOf[p]
BY DEF Inv, Shapes, Shape

\* As long as no request works for an organization, nothing changes what its gateways
\* ought to serve, nor what its MCPGateway says.
LEMMA IdleStill ==
    ASSUME Inv, [Next]_vars, NEW o \in Org, Idle(o)
    PROVE  Still(o)
<1>0. TypeOK
  BY DEF Inv
<1>1. CASE UNCHANGED <<status, latest, settings, gateway>>
  BY <1>1, SameView DEF Still
<1>2. ASSUME NEW r \in Slot, NEW p \in Project, PostProject(r, p) \/ PutCommit(r, p) \/ DeleteProject(r, p)
      PROVE  Still(o)
  <2>1. p \in req[r].project /\ req[r].pc # "idle" /\ req[r].op # "org"
    BY <1>2 DEF PostProject, PutCommit, DeleteProject, RemoveProject
  <2>2. o # OrgOf[p]
    BY <2>1, OwnProject DEF Idle, Active
  <2>3. UNCHANGED <<settings, gateway>>
    BY <1>2 DEF PostProject, PutCommit, DeleteProject, RemoveProject
  <2>4. \A x \in Project : x # p => status'[x] = status[x] /\ latest'[x] = latest[x]
    BY <1>0, <1>2 DEF PostProject, PutCommit, DeleteProject, RemoveProject, TypeOK
  <2> QED
    BY <2>2, <2>3, <2>4, OtherDesired DEF Still
<1>3. ASSUME NEW r \in Slot, UpdateOrganization(r)
      PROVE  Still(o)
  <2>1. req[r].org # o
    BY <1>3 DEF UpdateOrganization, Idle, Active
  <2> QED
    BY <1>0, <1>3, <2>1, SameView DEF UpdateOrganization, Still, TypeOK
<1>4. ASSUME NEW r \in Slot, NEW answered \in BOOLEAN, ApplyWrite(r, answered)
      PROVE  Still(o)
  <2>1. req[r].org # o
    BY <1>4 DEF ApplyWrite, Idle, Active
  <2>2. gateway'[o] = gateway[o] /\ UNCHANGED <<status, latest, settings>>
    BY <1>0, <1>4, <2>1 DEF ApplyWrite, TypeOK
  <2> QED
    BY <2>2, SameView DEF Still
<1>5. ASSUME NEW r \in Slot, Arrive(r) \/ ApplyFails(r) \/ Abort(r)
      PROVE  Still(o)
  BY <1>1, <1>5 DEF Arrive, BeginPost, BeginPut, BeginDelete, BeginOrg, ApplyFails, Abort
<1>6. ASSUME NEW r \in Slot, Handle(r)
      PROVE  Still(o)
  <2>1. ASSUME NEW p \in Project, PutSummary(r, p) \/ PutRevision(r, p) \/ DeleteSummary(r, p)
        PROVE  Still(o)
    BY <1>1, <2>1 DEF PutSummary, PutRevision, StoreRevision, DeleteSummary
  <2>2. CASE ApplyList(r)
    BY <1>1, <2>2 DEF ApplyList
  <2> QED
    BY <1>2, <1>3, <1>4, <1>6, <2>1, <2>2 DEF Handle
<1>7. CASE (\E x \in Org : Sync(x)) \/ UNCHANGED vars
  BY <1>1, <1>7 DEF Sync, vars
<1> QED
  BY <1>5, <1>6, <1>7 DEF Next

ConfigMap == config = [o \in Org |-> config[o]]

\* Only a Sync changes what the gateways are configured from.
LEMMA ConfigSteps ==
    ASSUME [Next]_vars
    PROVE  UNCHANGED config \/ \E o \in Org : Sync(o)
<1>1. ASSUME NEW r \in Slot, Arrive(r) \/ ApplyFails(r) \/ Abort(r)
      PROVE  UNCHANGED config
  BY <1>1 DEF Arrive, BeginPost, BeginPut, BeginDelete, BeginOrg, ApplyFails, Abort
<1>2. ASSUME NEW r \in Slot, Handle(r)
      PROVE  UNCHANGED config
  BY <1>2 DEF Handle, PostProject, PutSummary, PutRevision, StoreRevision, PutCommit,
              DeleteSummary, DeleteProject, RemoveProject, UpdateOrganization, ApplyList, ApplyWrite
<1> QED
  BY <1>1, <1>2 DEF Next, vars

LEMMA ConfigAlways == Spec => []ConfigMap
<1>1. Init => ConfigMap
  BY DEF Init, ConfigMap
<1>2. Inv /\ ConfigMap /\ [Next]_vars => ConfigMap'
  <2> SUFFICES ASSUME Inv, ConfigMap, [Next]_vars PROVE ConfigMap'
    OBVIOUS
  <2>1. CASE UNCHANGED config
    BY <2>1 DEF ConfigMap
  <2>2. ASSUME NEW o \in Org, Sync(o) PROVE ConfigMap'
    BY <2>2 DEF Sync, ConfigMap
  <2> QED
    BY <2>1, <2>2, ConfigSteps
<1> QED
  BY <1>1, <1>2, Invariance, PTL DEF Spec

\* Where the MCPGateway is in step, its rendering is what ought to be served.
LEMMA RenderedServed ==
    ASSUME NEW o \in Org, InSync(o), NEW c, c = {GetGatewayConfig(o, g) : g \in gateway[o]}
    PROVE  \/ c = {GetGatewayConfig(o, [settings |-> settings[o], rows |-> Desired(o)])}
           \/ c = {} /\ Desired(o) = {}
BY DEF InSync

\* An idle organization with a good verdict whose gateways are configured from anything else
\* has a difference metacontroller will notice.
THEOREM SyncIsDue == Spec => []SyncDue
<1>1. ASSUME Inv, NEW o \in Org, Idle(o), fresh[o],
             config[o] = {GetGatewayConfig(o, g) : g \in gateway[o]}
      PROVE  Served(o)
  <2>1. InSync(o)
    BY <1>1 DEF Inv, FreshFacts, Idle
  <2> QED
    BY <1>1, <2>1, RenderedServed DEF Served
<1>2. Inv => SyncDue
  BY <1>1 DEF SyncDue
<1> QED
  BY <1>2, Invariance, PTL

\* What a good verdict promises is kept: the next Sync of an idle organization serves what
\* the database says (sync.go), and no other request or Sync takes it back.
THEOREM SyncsServe == Spec => SyncServes
<1>1. ASSUME Inv, ConfigMap, [Next]_vars, NEW o \in Org, Idle(o), fresh[o], Served(o) \/ Sync(o)
      PROVE  Served(o)'
  <2>1. Still(o)
    BY <1>1, IdleStill
  <2>2. InSync(o)
    BY <1>1 DEF Inv, FreshFacts, Idle
  <2>3. CASE Sync(o)
    <3>1. config'[o] = {GetGatewayConfig(o, g) : g \in gateway[o]}
      BY <1>1, <2>3 DEF Sync, ConfigMap
    <3>2. \/ config'[o] = {GetGatewayConfig(o, [settings |-> settings[o], rows |-> Desired(o)])}
          \/ config'[o] = {} /\ Desired(o) = {}
      BY <2>2, <3>1, RenderedServed
    <3> QED
      BY <2>1, <3>2 DEF Served, Still, GetGatewayConfig
  <2>4. CASE Served(o) /\ ~Sync(o)
    <3>1. config'[o] = config[o]
      <4>1. CASE UNCHANGED config
        BY <4>1
      <4>2. ASSUME NEW x \in Org, Sync(x) PROVE config'[o] = config[o]
        BY <1>1, <2>4, <4>2 DEF Sync, ConfigMap
      <4> QED
        BY <1>1, <4>1, <4>2, ConfigSteps
    <3> QED
      BY <2>1, <2>4, <3>1 DEF Served, Still, GetGatewayConfig
  <2> QED
    BY <1>1, <2>3, <2>4
<1>2. Inv /\ ConfigMap /\ [Next]_vars
      => [\A o \in Org : Idle(o) /\ fresh[o] /\ (Served(o) \/ Sync(o)) => Served(o)']_vars
  BY <1>1
<1> QED
  BY <1>2, Invariance, ConfigAlways, PTL DEF Spec, SyncServes

=============================================================================
