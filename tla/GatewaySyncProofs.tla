------------------------- MODULE GatewaySyncProofs -------------------------
(* Theorems about GatewaySync, for every number of organizations, projects   *)
(* and concurrent requests, and whatever may fail.                           *)
EXTENDS GatewaySync, TLAPS

-----------------------------------------------------------------------------
(* Types *)

\* The record of a slot without a request is a request.
LEMMA BlankType == Blank \in Request /\ Blank.pc = "idle"
<1>1. (CHOOSE o \in Org : TRUE) \in Org
  BY GatewaySyncAssumption
<1>2. {} \in Maybe(Project) /\ {} \in Maybe(Row) /\ NoBody \in Body
  BY DEF Maybe, NoBody, Body
<1>3. NoChange \in Change /\ NewSettings \in Settings
  BY DEF Maybe, NoChange, Change, NewSettings, Settings
<1> QED
  BY <1>1, <1>2, <1>3 DEF Blank, Request

\* Inheriting fields from at most one row yields a body.
LEMMA InheritType ==
    ASSUME NEW b \in Body, NEW last \in Maybe(Row)
    PROVE  Inherit(b, last) \in Body
<1>1. ASSUME NEW w \in Row PROVE w.src \in Body
  BY DEF Row
<1>2. UNION {w.src.oci : w \in last} \in Maybe(Url)
  BY <1>1 DEF Maybe, Body
<1>3. UNION {w.src.port : w \in last} \in Maybe(Port)
  BY <1>1 DEF Maybe, Body
<1>4. UNION {w.src.proxy : w \in last} \in Maybe(Url)
  BY <1>1 DEF Maybe, Body
<1> QED
  BY <1>2, <1>3, <1>4 DEF Inherit, Body

\* Patching settings yields settings.
LEMMA PatchedType ==
    ASSUME NEW s \in Settings, NEW c \in Change
    PROVE  Patched(s, c) \in Settings
<1>1. c.domain # {} => UNION c.domain \in Maybe(Domain)
  <2> SUFFICES ASSUME NEW d \in c.domain PROVE UNION c.domain = d
    BY DEF Change, Maybe
  <2> QED
    BY DEF Change, Maybe
<1>2. s.domain \in Maybe(Domain) /\ s.dcr \in BOOLEAN
  BY DEF Settings
<1>3. (TRUE \in c.dcr) \in BOOLEAN
  OBVIOUS
<1> QED
  BY <1>1, <1>2, <1>3 DEF Patched, Settings

\* A slot that goes on with a request leaves the slots well typed.
LEMMA GotoType ==
    ASSUME req \in [Slot -> Request], NEW r \in Slot, NEW q \in Request,
           Goto(r, q) \/ GotoSeen(r, q)
    PROVE  req' \in [Slot -> Request]
<1>1. CASE Goto(r, q)
  BY <1>1 DEF Goto
<1>2. CASE GotoSeen(r, q)
  <2>1. ASSUME NEW s \in Slot PROVE [req[s] EXCEPT !.solo = FALSE] \in Request
    <3>1. req[s] \in Request
      OBVIOUS
    <3> QED
      BY <3>1 DEF Request
  <2> QED
    BY <1>2, <2>1 DEF GotoSeen
<1> QED
  BY <1>1, <1>2

\* Initially every variable has its type and no handler is running.
LEMMA InitType == Init => TypeOK /\ Shapes
<1> SUFFICES ASSUME Init PROVE TypeOK /\ Shapes
  OBVIOUS
<1>1. {} \in Maybe(Row) /\ NewSettings \in Settings
  BY DEF Maybe, NewSettings, Settings
<1>2. TypeOK
  BY <1>1, BlankType DEF Init, TypeOK
<1>3. Shape(Blank)
  BY DEF Shape, Blank
<1> QED
  BY <1>2, <1>3 DEF Init, Shapes

\* Every step preserves the types, given that an open transaction has a row.
LEMMA TypeStep ==
    ASSUME TypeOK, Shapes, [Next]_vars
    PROVE  TypeOK'
<1> USE DEF TypeOK
<1>0. ASSUME NEW r \in Slot PROVE req[r] \in Request
  OBVIOUS
<1>f. ASSUME NEW q \in Request, Verdict(q) PROVE fresh' \in [Org -> BOOLEAN]
  BY <1>f DEF Verdict, Request
<1>r. ASSUME NEW r \in Slot, Return(r)
      PROVE  req' \in [Slot -> Request] /\ fresh' \in [Org -> BOOLEAN]
  BY <1>0, <1>f, <1>r, BlankType, GotoType DEF Return
<1>1. ASSUME NEW r \in Slot, NEW p \in Project, NEW url \in Maybe(Url),
             BeginPost(r, p, url)
      PROVE  TypeOK'
  <2> DEFINE q == [Blank EXCEPT !.pc = "store", !.op = "post", !.org = OrgOf[p],
                           !.project = {p},
                           !.body = [NoBody EXCEPT !.proxy = url],
                           !.snap = settings[OrgOf[p]], !.solo = TRUE]
  <2>1. [NoBody EXCEPT !.proxy = url] \in Body /\ {p} \in Maybe(Project)
    BY DEF NoBody, Body, Maybe
  <2>2. OrgOf[p] \in Org /\ settings[OrgOf[p]] \in Settings
    BY GatewaySyncAssumption
  <2>3. q \in Request
    BY <2>1, <2>2, BlankType DEF Request
  <2> QED
    BY <1>1, <2>3, GotoType DEF BeginPost
<1>2. ASSUME NEW r \in Slot, NEW p \in Project, NEW b \in Bodies, BeginPut(r, p, b)
      PROVE  TypeOK'
  <2> DEFINE q == [Blank EXCEPT !.pc = "summary", !.op = "put", !.org = OrgOf[p],
                           !.project = {p}, !.body = b, !.solo = TRUE]
  <2>1. b \in Body /\ {p} \in Maybe(Project) /\ OrgOf[p] \in Org
    BY GatewaySyncAssumption DEF Maybe
  <2>2. q \in Request
    BY <2>1, BlankType DEF Request
  <2> QED
    BY <1>2, <2>2, GotoType DEF BeginPut
<1>3. ASSUME NEW r \in Slot, NEW p \in Project, BeginDelete(r, p)
      PROVE  TypeOK'
  <2> DEFINE q == [Blank EXCEPT !.pc = "summary", !.op = "delete",
                           !.org = OrgOf[p], !.project = {p}, !.solo = TRUE]
  <2>1. {p} \in Maybe(Project) /\ OrgOf[p] \in Org
    BY GatewaySyncAssumption DEF Maybe
  <2>2. q \in Request
    BY <2>1, BlankType DEF Request
  <2> QED
    BY <1>3, <2>2, GotoType DEF BeginDelete
<1>4. ASSUME NEW r \in Slot, NEW o \in Org, NEW c \in Changes, BeginOrg(r, o, c)
      PROVE  TypeOK'
  <2> DEFINE q == [Blank EXCEPT !.pc = "store", !.op = "org", !.org = o,
                           !.change = c, !.snap = settings[o], !.solo = TRUE]
  <2>1. c \in Change /\ settings[o] \in Settings
    BY GatewaySyncAssumption
  <2>2. q \in Request
    BY <2>1, BlankType DEF Request
  <2> QED
    BY <1>4, <2>2, GotoType DEF BeginOrg
<1>5. ASSUME NEW r \in Slot, NEW p \in Project, PostProject(r, p)
      PROVE  TypeOK'
  <2>1. CASE NameTaken(p) \/ req[r].body.proxy = {}
    BY <1>5, <1>r, <2>1 DEF PostProject
  <2>2. CASE ~NameTaken(p) /\ req[r].body.proxy # {}
    <3> DEFINE w == NewRow(p, req[r].body)
               q == [req[r] EXCEPT !.pc = "list", !.touched = TRUE]
    <3>1. w \in Row /\ {w} \in Maybe(Row)
      BY <1>0 DEF NewRow, Row, Request, Maybe
    <3>2. q \in Request
      BY <1>0 DEF Request
    <3>3. req' \in [Slot -> Request]
      BY <1>5, <2>2, <3>2, GotoType DEF PostProject
    <3> HIDE DEF w
    <3>4. /\ status' = [status EXCEPT ![p] = "live"]
          /\ latest' = [latest EXCEPT ![p] = {w}]
          /\ revisions' = revisions \cup {w}
          /\ nextId' = nextId + 1
          /\ UNCHANGED <<event, settings, gateway, fresh>>
      BY <1>5, <2>2 DEF PostProject, w
    <3>5. latest' \in [Project -> Maybe(Row)]
      BY <3>1, <3>4
    <3>6. revisions' \subseteq Row
      BY <3>1, <3>4
    <3> QED
      BY <3>3, <3>4, <3>5, <3>6
  <2> QED
    BY <2>1, <2>2
<1>6. ASSUME NEW r \in Slot, NEW p \in Project, PutSummary(r, p)
      PROVE  TypeOK'
  <2> DEFINE b == Inherit(req[r].body, latest[p])
             q == [req[r] EXCEPT !.pc = "store", !.body = b,
                                 !.snap = settings[req[r].org]]
  <2>1. b \in Body
    BY <1>0, InheritType DEF Request
  <2>2. q \in Request
    BY <1>0, <2>1 DEF Request
  <2> HIDE DEF b
  <2>3. \/ Goto(r, q) /\ UNCHANGED fresh
        \/ Return(r)
    BY <1>6 DEF PutSummary, b
  <2>4. req' \in [Slot -> Request] /\ fresh' \in [Org -> BOOLEAN]
    BY <1>r, <2>2, <2>3, GotoType
  <2> QED
    BY <1>6, <2>4 DEF PutSummary
<1>7. ASSUME NEW r \in Slot, NEW p \in Project, PutRevision(r, p)
      PROVE  TypeOK'
  <2> DEFINE w == NewRow(p, req[r].body)
             q == [req[r] EXCEPT !.pc = "list", !.row = {w}]
  <2>1. w \in Row /\ {w} \in Maybe(Row)
    BY <1>0 DEF NewRow, Row, Request, Maybe
  <2>2. q \in Request
    BY <1>0, <2>1 DEF Request
  <2>3. req' \in [Slot -> Request] /\ fresh' \in [Org -> BOOLEAN]
    BY <1>7, <1>r, <2>2, GotoType DEF PutRevision, StoreRevision
  <2> QED
    BY <1>7, <2>3 DEF PutRevision, StoreRevision
<1>8. ASSUME NEW r \in Slot, NEW p \in Project, PutCommit(r, p)
      PROVE  TypeOK'
  <2>1. req' \in [Slot -> Request]
    BY <1>8, BlankType, GotoType DEF PutCommit
  <2>2. [req[r] EXCEPT !.touched = TRUE] \in Request
    BY <1>0 DEF Request
  <2>3. fresh' \in [Org -> BOOLEAN]
    BY <1>8, <1>f, <2>2 DEF PutCommit
  <2>4. req[r].row \in Maybe(Row) /\ req[r].row \subseteq Row
    BY <1>0 DEF Request, Maybe
  <2>5. (CHOOSE w \in req[r].row : TRUE) \in Row
    BY <1>8, <2>4 DEF PutCommit, Shapes, Shape
  <2> QED
    BY <1>8, <2>1, <2>3, <2>4, <2>5 DEF PutCommit, Row
<1>9. ASSUME NEW r \in Slot, NEW p \in Project, DeleteSummary(r, p)
      PROVE  TypeOK'
  <2> DEFINE q == [req[r] EXCEPT !.pc = "store", !.snap = settings[req[r].org]]
  <2>1. q \in Request
    BY <1>0 DEF Request
  <2>2. req' \in [Slot -> Request] /\ fresh' \in [Org -> BOOLEAN]
    BY <1>9, <1>r, <2>1, GotoType DEF DeleteSummary
  <2> QED
    BY <1>9, <2>2 DEF DeleteSummary
<1>10. ASSUME NEW r \in Slot, NEW p \in Project, DeleteProject(r, p)
       PROVE  TypeOK'
  <2> DEFINE q == [req[r] EXCEPT !.pc = "list", !.touched = TRUE]
  <2>1. q \in Request
    BY <1>0 DEF Request
  <2>2. req' \in [Slot -> Request] /\ fresh' \in [Org -> BOOLEAN]
    BY <1>10, <1>r, <2>1, GotoType DEF DeleteProject, RemoveProject
  <2>3. latest' \in [Project -> Maybe(Row)]
    <3>1. {} \in Maybe(Row)
      BY DEF Maybe
    <3> QED
      BY <1>10, <3>1 DEF DeleteProject, RemoveProject
  <2>4. revisions' \subseteq Row
    BY <1>10 DEF DeleteProject, RemoveProject
  <2>5. /\ status' \in [Project -> {"free", "live", "gone"}]
        /\ event' \in [Project -> Nat]
    BY <1>10 DEF DeleteProject, RemoveProject
  <2> QED
    BY <1>10, <2>2, <2>3, <2>4, <2>5 DEF DeleteProject, RemoveProject
<1>11. ASSUME NEW r \in Slot, UpdateOrganization(r)
       PROVE  TypeOK'
  <2> DEFINE s == Patched(req[r].snap, req[r].change)
             q1 == [req[r] EXCEPT !.pc = "list", !.snap = s, !.touched = TRUE]
             q2 == [req[r] EXCEPT !.pc = "list"]
  <2>1. s \in Settings
    BY <1>0, PatchedType DEF Request
  <2> HIDE DEF s
  <2>2. q1 \in Request /\ q2 \in Request
    BY <1>0, <2>1 DEF Request
  <2>3. \/ settings' = [settings EXCEPT ![req[r].org] = s] /\ GotoSeen(r, q1)
        \/ UNCHANGED settings /\ Goto(r, q2)
    BY <1>11 DEF UpdateOrganization, s
  <2>4. req' \in [Slot -> Request]
    BY <2>2, <2>3, GotoType
  <2>5. settings' \in [Org -> Settings]
    BY <2>1, <2>3
  <2> QED
    BY <1>11, <2>4, <2>5 DEF UpdateOrganization
<1>12. ASSUME NEW r \in Slot, ApplyList(r)
       PROVE  TypeOK'
  <2> DEFINE a == ProjectsOf(req[r].org) # {}
             v == IF InTx(r) THEN Summaries(req[r].org, req[r].project, req[r].row)
                             ELSE Summaries(req[r].org, {}, {})
             q == [req[r] EXCEPT !.pc = "apply", !.any = a, !.rows = v]
  <2>1. v \in SUBSET Row
    BY <1>0 DEF Summaries, ProjectsOf, Maybe, Request
  <2>2. a \in BOOLEAN
    OBVIOUS
  <2> HIDE DEF a, v
  <2>3. q \in Request
    BY <1>0, <2>1, <2>2 DEF Request
  <2>4. Goto(r, q)
    BY <1>12 DEF ApplyList, a, v
  <2>5. req' \in [Slot -> Request]
    BY <2>3, <2>4, GotoType
  <2> QED
    BY <1>12, <2>5 DEF ApplyList
<1>13. ASSUME NEW r \in Slot, NEW answered \in BOOLEAN, ApplyWrite(r, answered)
       PROVE  TypeOK'
  <2> DEFINE q == [req[r] EXCEPT !.applied = answered, !.touched = TRUE]
             q1 == [q EXCEPT !.pc = "commit"]
  <2>1. q \in Request /\ q1 \in Request
    BY <1>0 DEF Request
  <2>2. req' \in [Slot -> Request]
    BY <1>13, <2>1, BlankType, GotoType DEF ApplyWrite
  <2>3. fresh' \in [Org -> BOOLEAN]
    BY <1>13, <1>f, <2>1 DEF ApplyWrite
  <2>4. [settings |-> req[r].snap, rows |-> req[r].rows] \in GatewaySpec
    BY <1>0 DEF GatewaySpec, Request
  <2>5. gateway' \in [Org -> SUBSET GatewaySpec]
    BY <1>13, <2>4 DEF ApplyWrite
  <2> QED
    BY <1>13, <2>2, <2>3, <2>5 DEF ApplyWrite
<1>14. ASSUME NEW r \in Slot, ApplyFails(r)
       PROVE  TypeOK'
  <2> DEFINE q == [req[r] EXCEPT !.pc = "commit"]
  <2>1. q \in Request
    BY <1>0 DEF Request
  <2>2. req' \in [Slot -> Request] /\ fresh' \in [Org -> BOOLEAN]
    BY <1>14, <1>r, <2>1, GotoType DEF ApplyFails
  <2> QED
    BY <1>14, <2>2 DEF ApplyFails
<1>15. ASSUME NEW r \in Slot, Abort(r)
       PROVE  TypeOK'
  <2>1. [req[r] EXCEPT !.applied = FALSE] \in Request
    BY <1>0 DEF Request
  <2>2. req' \in [Slot -> Request] /\ fresh' \in [Org -> BOOLEAN]
    BY <1>15, <1>f, <2>1, BlankType, GotoType DEF Abort
  <2> QED
    BY <1>15, <2>2 DEF Abort
<1>16. ASSUME NEW o \in Org, Sync(o)
       PROVE  TypeOK'
  BY <1>16 DEF Sync
<1>17. CASE UNCHANGED vars
  BY <1>17 DEF vars
<1> QED
  BY <1>1, <1>2, <1>3, <1>4, <1>5, <1>6, <1>7, <1>8, <1>9, <1>10, <1>11, <1>12,
     <1>13, <1>14, <1>15, <1>16, <1>17 DEF Next, Arrive, Handle

-----------------------------------------------------------------------------
(* How a step changes the slots *)

\* Slot s keeps its request, which may at most have been disturbed.
Kept(s) ==
    /\ req'[s].pc = req[s].pc /\ req'[s].op = req[s].op
    /\ req'[s].org = req[s].org /\ req'[s].project = req[s].project
    /\ req'[s].body = req[s].body /\ req'[s].change = req[s].change
    /\ req'[s].snap = req[s].snap /\ req'[s].row = req[s].row
    /\ req'[s].any = req[s].any /\ req'[s].rows = req[s].rows
    /\ req'[s].applied = req[s].applied /\ req'[s].touched = req[s].touched
    /\ req'[s].solo => req[s].solo

\* Only slot r moves, and a visible effect disturbs the conflicting requests.
LEMMA GotoKeeps ==
    ASSUME req \in [Slot -> Request], NEW r \in Slot, NEW q \in Request,
           Goto(r, q) \/ GotoSeen(r, q)
    PROVE  /\ req'[r] = q
           /\ \A s \in Slot : s # r => Kept(s)
           /\ GotoSeen(r, q) =>
                \A s \in Slot : s # r /\ Active(s) /\ req'[s].solo
                                => ~Conflict(req[s], req[r])
<1>1. CASE Goto(r, q) /\ ~GotoSeen(r, q)
  BY <1>1 DEF Goto, Kept
<1>2. CASE GotoSeen(r, q)
  <2>1. req'[r] = q
    BY <1>2 DEF GotoSeen
  <2>2. ASSUME NEW s \in Slot, s # r
        PROVE  Kept(s) /\ (Active(s) /\ req'[s].solo => ~Conflict(req[s], req[r]))
    <3>1. req[s] \in Request
      OBVIOUS
    <3>2. CASE Active(s) /\ Conflict(req[s], req[r])
      <4>1. req'[s] = [req[s] EXCEPT !.solo = FALSE]
        BY <1>2, <2>2, <3>2 DEF GotoSeen
      <4> QED
        BY <3>1, <4>1 DEF Kept, Request
    <3>3. CASE ~(Active(s) /\ Conflict(req[s], req[r]))
      <4>1. req'[s] = req[s]
        BY <1>2, <2>2, <3>3 DEF GotoSeen
      <4> QED
        BY <3>3, <4>1 DEF Kept
    <3> QED
      BY <3>2, <3>3
  <2> QED
    BY <2>1, <2>2
<1> QED
  BY <1>1, <1>2

\* A handler's local variables keep fitting its step if those of the request
\* that moved do.
LEMMA ShapesKept ==
    ASSUME TypeOK, Shapes, NEW r \in Slot, NEW q \in Request,
           Goto(r, q) \/ GotoSeen(r, q), Shape(q)
    PROVE  Shapes'
<1>1. req'[r] = q /\ \A s \in Slot : s # r => Kept(s)
  BY GotoKeeps DEF TypeOK
<1>2. ASSUME NEW s \in Slot, s # r PROVE Shape(req'[s])
  BY <1>1, <1>2 DEF Shapes, Shape, Kept
<1> QED
  BY <1>1, <1>2 DEF Shapes

-----------------------------------------------------------------------------
(* Where each step takes the request that moves *)

\* q is request a one step further: same handler, same target.
Continues(q, a) ==
    /\ q \in Request
    /\ q.op = a.op /\ q.org = a.org /\ q.project = a.project
    /\ q.solo = a.solo

\* q is a new, undisturbed request.
Starts(q, op, o) ==
    /\ q \in Request
    /\ q.op = op /\ q.org = o /\ q.solo /\ ~q.touched /\ ~q.applied

\* A POST starts with the settings it has just read and a new project id.
LEMMA BeginPostMoves ==
    ASSUME TypeOK, NEW r \in Slot, NEW p \in Project, NEW url \in Maybe(Url),
           BeginPost(r, p, url)
    PROVE  \E q : /\ Starts(q, "post", OrgOf[p]) /\ Goto(r, q)
                  /\ q.pc = "store" /\ q.project = {p} /\ q.body.oci = {}
                  /\ q.snap = settings[OrgOf[p]]
<1> DEFINE q == [Blank EXCEPT !.pc = "store", !.op = "post", !.org = OrgOf[p],
                         !.project = {p}, !.body = [NoBody EXCEPT !.proxy = url],
                         !.snap = settings[OrgOf[p]], !.solo = TRUE]
<1>1. [NoBody EXCEPT !.proxy = url] \in Body /\ {p} \in Maybe(Project)
  BY DEF NoBody, Body, Maybe
<1>2. OrgOf[p] \in Org /\ settings[OrgOf[p]] \in Settings
  BY GatewaySyncAssumption DEF TypeOK
<1>3. q \in Request
  BY <1>1, <1>2, BlankType DEF Request
<1>4. /\ q.op = "post" /\ q.org = OrgOf[p] /\ q.solo /\ ~q.touched /\ ~q.applied
      /\ q.pc = "store" /\ q.project = {p} /\ q.snap = settings[OrgOf[p]]
      /\ q.body.oci = {}
  BY DEF Blank, NoBody
<1>5. Goto(r, q)
  BY DEF BeginPost
<1> QED
  BY <1>3, <1>4, <1>5 DEF Starts

\* A settings request starts for a live project and has read nothing yet.
LEMMA BeginPutMoves ==
    ASSUME TypeOK, NEW r \in Slot, NEW p \in Project, NEW b \in Bodies,
           BeginPut(r, p, b)
    PROVE  \E q : /\ Starts(q, "put", OrgOf[p]) /\ Goto(r, q)
                  /\ q.pc = "summary" /\ q.project = {p}
<1> DEFINE q == [Blank EXCEPT !.pc = "summary", !.op = "put", !.org = OrgOf[p],
                         !.project = {p}, !.body = b, !.solo = TRUE]
<1>1. b \in Body /\ {p} \in Maybe(Project) /\ OrgOf[p] \in Org
  BY GatewaySyncAssumption DEF Maybe
<1>2. q \in Request
  BY <1>1, BlankType DEF Request
<1>3. /\ q.op = "put" /\ q.org = OrgOf[p] /\ q.solo /\ ~q.touched /\ ~q.applied
      /\ q.pc = "summary" /\ q.project = {p}
  BY DEF Blank
<1>4. Goto(r, q)
  BY DEF BeginPut
<1> QED
  BY <1>2, <1>3, <1>4 DEF Starts

\* A DELETE starts for a live project and has read nothing yet.
LEMMA BeginDeleteMoves ==
    ASSUME TypeOK, NEW r \in Slot, NEW p \in Project, BeginDelete(r, p)
    PROVE  \E q : /\ Starts(q, "delete", OrgOf[p]) /\ Goto(r, q)
                  /\ q.pc = "summary" /\ q.project = {p}
<1> DEFINE q == [Blank EXCEPT !.pc = "summary", !.op = "delete",
                         !.org = OrgOf[p], !.project = {p}, !.solo = TRUE]
<1>1. {p} \in Maybe(Project) /\ OrgOf[p] \in Org
  BY GatewaySyncAssumption DEF Maybe
<1>2. q \in Request
  BY <1>1, BlankType DEF Request
<1>3. /\ q.op = "delete" /\ q.org = OrgOf[p] /\ q.solo /\ ~q.touched /\ ~q.applied
      /\ q.pc = "summary" /\ q.project = {p}
  BY DEF Blank
<1>4. Goto(r, q)
  BY DEF BeginDelete
<1> QED
  BY <1>2, <1>3, <1>4 DEF Starts

\* An organization update starts with the settings it has just read.
LEMMA BeginOrgMoves ==
    ASSUME TypeOK, NEW r \in Slot, NEW o \in Org, NEW c \in Changes,
           BeginOrg(r, o, c)
    PROVE  \E q : /\ Starts(q, "org", o) /\ Goto(r, q)
                  /\ q.pc = "store" /\ q.snap = settings[o] /\ q.project = {}
<1> DEFINE q == [Blank EXCEPT !.pc = "store", !.op = "org", !.org = o,
                         !.change = c, !.snap = settings[o], !.solo = TRUE]
<1>1. c \in Change /\ settings[o] \in Settings
  BY GatewaySyncAssumption DEF TypeOK
<1>2. q \in Request
  BY <1>1, BlankType DEF Request
<1>3. /\ q.op = "org" /\ q.org = o /\ q.solo /\ ~q.touched /\ ~q.applied
      /\ q.pc = "store" /\ q.snap = settings[o] /\ q.project = {}
  BY DEF Blank
<1>4. Goto(r, q)
  BY DEF BeginOrg
<1> QED
  BY <1>2, <1>3, <1>4 DEF Starts

\* A POST ends without calling Apply, or goes on to list the projects.
LEMMA PostProjectMoves ==
    ASSUME TypeOK, NEW r \in Slot, NEW p \in Project, PostProject(r, p)
    PROVE  \/ Return(r) /\ UNCHANGED <<status, latest, revisions, nextId>>
           \/ /\ Return(r) /\ UNCHANGED <<latest, revisions, nextId>>
              /\ status' = [status EXCEPT ![p] = "live"] /\ ~NameTaken(p)
           \/ /\ UNCHANGED fresh /\ ~NameTaken(p)
              /\ status' = [status EXCEPT ![p] = "live"]
              /\ latest' = [latest EXCEPT ![p] = {NewRow(p, req[r].body)}]
              /\ revisions' = revisions \cup {NewRow(p, req[r].body)}
              /\ nextId' = nextId + 1
              /\ \E q : /\ Continues(q, req[r]) /\ GotoSeen(r, q)
                        /\ q.pc = "list" /\ q.touched
                        /\ q.snap = req[r].snap /\ q.applied = req[r].applied
<1> DEFINE q == [req[r] EXCEPT !.pc = "list", !.touched = TRUE]
<1>1. req[r] \in Request
  BY DEF TypeOK
<1>2. /\ Continues(q, req[r]) /\ q.pc = "list" /\ q.touched
      /\ q.snap = req[r].snap /\ q.applied = req[r].applied
  BY <1>1 DEF Request, Continues
<1> QED
  BY <1>2 DEF PostProject

\* A settings request ends early, or goes on with freshly read settings.
LEMMA PutSummaryMoves ==
    ASSUME TypeOK, NEW r \in Slot, NEW p \in Project, PutSummary(r, p)
    PROVE  \/ Return(r)
           \/ /\ UNCHANGED fresh
              /\ \E q : /\ Continues(q, req[r]) /\ Goto(r, q)
                        /\ q.pc = "store" /\ q.touched = req[r].touched
                        /\ q.snap = settings[req[r].org]
                        /\ q.applied = req[r].applied
<1> DEFINE b == Inherit(req[r].body, latest[p])
           q == [req[r] EXCEPT !.pc = "store", !.body = b,
                               !.snap = settings[req[r].org]]
<1>1. req[r] \in Request
  BY DEF TypeOK
<1>2. b \in Body
  BY <1>1, InheritType DEF Request, TypeOK
<1> HIDE DEF b
<1>3. settings[req[r].org] \in Settings
  BY <1>1 DEF Request, TypeOK
<1>4. /\ Continues(q, req[r]) /\ q.pc = "store" /\ q.touched = req[r].touched
      /\ q.snap = settings[req[r].org] /\ q.applied = req[r].applied
  BY <1>1, <1>2, <1>3 DEF Request, Continues
<1>5. \/ Return(r)
      \/ Goto(r, q) /\ UNCHANGED fresh
  BY DEF PutSummary, b
<1> QED
  BY <1>4, <1>5

\* A settings request finds its project gone, or inserts the newest row.
LEMMA PutRevisionMoves ==
    ASSUME TypeOK, NEW r \in Slot, NEW p \in Project, PutRevision(r, p)
    PROVE  \/ UNCHANGED nextId /\ Return(r)
           \/ /\ UNCHANGED fresh /\ nextId' = nextId + 1 /\ status[p] = "live"
              /\ \E q : /\ Continues(q, req[r]) /\ Goto(r, q)
                        /\ q.pc = "list" /\ q.touched = req[r].touched
                        /\ q.snap = req[r].snap /\ q.applied = req[r].applied
                        /\ q.body = req[r].body
                        /\ q.row = {NewRow(p, req[r].body)}
<1> DEFINE w == NewRow(p, req[r].body)
           q == [req[r] EXCEPT !.pc = "list", !.row = {w}]
<1>1. req[r] \in Request
  BY DEF TypeOK
<1>2. {w} \in Maybe(Row)
  BY <1>1 DEF NewRow, Row, Request, Maybe, TypeOK
<1> HIDE DEF w
<1>3. /\ Continues(q, req[r]) /\ q.pc = "list" /\ q.touched = req[r].touched
      /\ q.snap = req[r].snap /\ q.applied = req[r].applied
      /\ q.body = req[r].body /\ q.row = {w}
  BY <1>1, <1>2 DEF Request, Continues
<1>4. \/ UNCHANGED nextId /\ Return(r)
      \/ Goto(r, q) /\ UNCHANGED fresh /\ nextId' = nextId + 1 /\ status[p] = "live"
  BY DEF PutRevision, StoreRevision, w
<1> QED
  BY <1>3, <1>4 DEF w

\* A DELETE ends early, or goes on with freshly read settings.
LEMMA DeleteSummaryMoves ==
    ASSUME TypeOK, NEW r \in Slot, NEW p \in Project, DeleteSummary(r, p)
    PROVE  \/ Return(r)
           \/ /\ UNCHANGED fresh
              /\ \E q : /\ Continues(q, req[r]) /\ Goto(r, q)
                        /\ q.pc = "store" /\ q.touched = req[r].touched
                        /\ q.snap = settings[req[r].org]
                        /\ q.applied = req[r].applied
<1> DEFINE q == [req[r] EXCEPT !.pc = "store", !.snap = settings[req[r].org]]
<1>1. req[r] \in Request
  BY DEF TypeOK
<1>2. settings[req[r].org] \in Settings
  BY <1>1 DEF Request, TypeOK
<1>3. /\ Continues(q, req[r]) /\ q.pc = "store" /\ q.touched = req[r].touched
      /\ q.snap = settings[req[r].org] /\ q.applied = req[r].applied
  BY <1>1, <1>2 DEF Request, Continues
<1>4. \/ Return(r)
      \/ Goto(r, q) /\ UNCHANGED fresh
  BY DEF DeleteSummary
<1> QED
  BY <1>3, <1>4

\* A DELETE finds its project gone, or removes it with all its rows.
LEMMA DeleteProjectMoves ==
    ASSUME TypeOK, NEW r \in Slot, NEW p \in Project, DeleteProject(r, p)
    PROVE  \/ UNCHANGED <<status, latest, event, revisions>> /\ Return(r)
           \/ /\ UNCHANGED fresh /\ status[p] = "live"
              /\ status' = [status EXCEPT ![p] = "gone"]
              /\ latest' = [latest EXCEPT ![p] = {}]
              /\ event' = [event EXCEPT ![p] = 0]
              /\ revisions' = {w \in revisions : w.project # p}
              /\ \E q : /\ Continues(q, req[r]) /\ GotoSeen(r, q)
                        /\ q.pc = "list" /\ q.touched
                        /\ q.snap = req[r].snap /\ q.applied = req[r].applied
<1> DEFINE q == [req[r] EXCEPT !.pc = "list", !.touched = TRUE]
<1>1. req[r] \in Request
  BY DEF TypeOK
<1>2. /\ Continues(q, req[r]) /\ q.pc = "list" /\ q.touched
      /\ q.snap = req[r].snap /\ q.applied = req[r].applied
  BY <1>1 DEF Request, Continues
<1> QED
  BY <1>2 DEF DeleteProject, RemoveProject

\* An organization update goes on with the settings it has written.
LEMMA UpdateOrganizationMoves ==
    ASSUME TypeOK, NEW r \in Slot, UpdateOrganization(r)
    PROVE  \/ /\ UNCHANGED settings
              /\ \E q : /\ Continues(q, req[r]) /\ Goto(r, q)
                        /\ q.pc = "list" /\ q.touched = req[r].touched
                        /\ q.snap = req[r].snap /\ q.applied = req[r].applied
           \/ \E q : /\ Continues(q, req[r]) /\ GotoSeen(r, q)
                     /\ q.pc = "list" /\ q.touched /\ q.applied = req[r].applied
                     /\ settings' = [settings EXCEPT ![req[r].org] = q.snap]
<1> DEFINE s == Patched(req[r].snap, req[r].change)
           q1 == [req[r] EXCEPT !.pc = "list"]
           q2 == [req[r] EXCEPT !.pc = "list", !.snap = s, !.touched = TRUE]
<1>1. req[r] \in Request
  BY DEF TypeOK
<1>2. s \in Settings
  BY <1>1, PatchedType DEF Request
<1> HIDE DEF s
<1>3. /\ Continues(q1, req[r]) /\ q1.pc = "list" /\ q1.touched = req[r].touched
      /\ q1.snap = req[r].snap /\ q1.applied = req[r].applied
  BY <1>1 DEF Request, Continues
<1>4. /\ Continues(q2, req[r]) /\ q2.pc = "list" /\ q2.touched
      /\ q2.applied = req[r].applied /\ q2.snap = s
  BY <1>1, <1>2 DEF Request, Continues
<1>5. \/ settings' = [settings EXCEPT ![req[r].org] = s] /\ GotoSeen(r, q2)
      \/ UNCHANGED settings /\ Goto(r, q1)
  BY DEF UpdateOrganization, s
<1> QED
  BY <1>3, <1>4, <1>5

\* Apply has listed exactly what its transaction sees.
LEMMA ApplyListMoves ==
    ASSUME TypeOK, NEW r \in Slot, ApplyList(r)
    PROVE  \E q : /\ Continues(q, req[r]) /\ Goto(r, q)
                  /\ q.pc = "apply" /\ q.touched = req[r].touched
                  /\ q.snap = req[r].snap /\ q.applied = req[r].applied
                  /\ q.body = req[r].body /\ q.row = req[r].row
                  /\ q.rows = View(r)
                  /\ q.any = (ProjectsOf(req[r].org) # {})
<1> DEFINE a == ProjectsOf(req[r].org) # {}
           v == IF InTx(r) THEN Summaries(req[r].org, req[r].project, req[r].row)
                           ELSE Summaries(req[r].org, {}, {})
           q == [req[r] EXCEPT !.pc = "apply", !.any = a, !.rows = v]
<1>1. req[r] \in Request
  BY DEF TypeOK
<1>2. v \in SUBSET Row
  BY <1>1 DEF Summaries, ProjectsOf, Maybe, Request, TypeOK
<1>3. a \in BOOLEAN
  OBVIOUS
<1>4. Goto(r, q)
  BY DEF ApplyList
<1> HIDE DEF a, v
<1>5. /\ Continues(q, req[r]) /\ q.pc = "apply" /\ q.touched = req[r].touched
      /\ q.snap = req[r].snap /\ q.applied = req[r].applied
      /\ q.body = req[r].body /\ q.row = req[r].row
      /\ q.rows = v /\ q.any = a
  BY <1>1, <1>2, <1>3 DEF Request, Continues
<1>6. v = View(r) /\ a = (ProjectsOf(req[r].org) # {})
  BY DEF v, View, a
<1> QED
  BY <1>4, <1>5, <1>6

\* After a successful Apply a settings request goes on to its commit and
\* every other handler returns with the verdict.
LEMMA ApplyWriteMoves ==
    ASSUME TypeOK, NEW r \in Slot, NEW answered \in BOOLEAN, ApplyWrite(r, answered)
    PROVE  \/ /\ req[r].op = "put" /\ UNCHANGED fresh
              /\ \E q : /\ Continues(q, req[r]) /\ GotoSeen(r, q)
                        /\ q.pc = "commit" /\ q.touched
                        /\ q.snap = req[r].snap
                        /\ q.body = req[r].body /\ q.row = req[r].row
           \/ /\ req[r].op # "put" /\ GotoSeen(r, Blank)
              /\ fresh' = [fresh EXCEPT ![req[r].org] = answered /\ req[r].solo]
<1> DEFINE q == [req[r] EXCEPT !.applied = answered, !.touched = TRUE]
           q1 == [q EXCEPT !.pc = "commit"]
<1>1. req[r] \in Request
  BY DEF TypeOK
<1>2. /\ Continues(q1, req[r]) /\ q1.pc = "commit" /\ q1.touched
      /\ q1.snap = req[r].snap /\ q1.body = req[r].body /\ q1.row = req[r].row
  BY <1>1 DEF Request, Continues
<1>3. q.touched /\ q.applied = answered /\ q.org = req[r].org /\ q.solo = req[r].solo
  BY <1>1 DEF Request
<1>5. Verdict(q) => fresh' = [fresh EXCEPT ![req[r].org] = answered /\ req[r].solo]
  <2> HIDE DEF q
  <2> QED
    BY <1>3 DEF Verdict
<1>6. \/ req[r].op = "put" /\ GotoSeen(r, q1) /\ UNCHANGED fresh
      \/ req[r].op # "put" /\ GotoSeen(r, Blank) /\ Verdict(q)
  BY DEF ApplyWrite
<1> QED
  BY <1>2, <1>5, <1>6

\* After a failed Apply the handlers go on as if nothing had happened.
LEMMA ApplyFailsMoves ==
    ASSUME TypeOK, NEW r \in Slot, ApplyFails(r)
    PROVE  \/ Return(r)
           \/ /\ req[r].op = "put" /\ UNCHANGED fresh
              /\ \E q : /\ Continues(q, req[r]) /\ Goto(r, q)
                        /\ q.pc = "commit" /\ q.touched = req[r].touched
                        /\ q.snap = req[r].snap /\ q.applied = req[r].applied
                        /\ q.body = req[r].body /\ q.row = req[r].row
<1> DEFINE q == [req[r] EXCEPT !.pc = "commit"]
<1>1. req[r] \in Request
  BY DEF TypeOK
<1>2. /\ Continues(q, req[r]) /\ q.pc = "commit" /\ q.touched = req[r].touched
      /\ q.snap = req[r].snap /\ q.applied = req[r].applied
      /\ q.body = req[r].body /\ q.row = req[r].row
  BY <1>1 DEF Request, Continues
<1> QED
  BY <1>2 DEF ApplyFails

\* Every step leaves the local variables of every handler fit for its step.
LEMMA ShapesStep ==
    ASSUME TypeOK, Shapes, [Next]_vars
    PROVE  Shapes'
<1>0. ASSUME NEW r \in Slot
      PROVE  req[r] \in Request /\ Shape(req[r]) /\ Blank \in Request /\ Shape(Blank)
  <2>1. Shape(Blank)
    BY DEF Shape, Blank
  <2> QED
    BY <2>1, BlankType DEF TypeOK, Shapes
<1>b. ASSUME NEW r \in Slot, Goto(r, Blank) \/ GotoSeen(r, Blank) \/ Return(r)
      PROVE  Shapes'
  BY <1>0, <1>b, ShapesKept DEF Return
<1>q. ASSUME NEW r \in Slot, NEW q, q \in Request, Shape(q),
             Goto(r, q) \/ GotoSeen(r, q)
      PROVE  Shapes'
  BY <1>q, ShapesKept
<1>1. ASSUME NEW r \in Slot, NEW p \in Project, NEW url \in Maybe(Url),
             BeginPost(r, p, url)
      PROVE  Shapes'
  BY <1>1, <1>q, BeginPostMoves DEF Starts, Shape
<1>2. ASSUME NEW r \in Slot, NEW p \in Project, NEW b \in Bodies, BeginPut(r, p, b)
      PROVE  Shapes'
  BY <1>2, <1>q, BeginPutMoves DEF Starts, Shape
<1>3. ASSUME NEW r \in Slot, NEW p \in Project, BeginDelete(r, p)
      PROVE  Shapes'
  BY <1>3, <1>q, BeginDeleteMoves DEF Starts, Shape
<1>4. ASSUME NEW r \in Slot, NEW o \in Org, NEW c \in Changes, BeginOrg(r, o, c)
      PROVE  Shapes'
  BY <1>4, <1>q, BeginOrgMoves DEF Starts, Shape
<1>5. ASSUME NEW r \in Slot, NEW p \in Project, PostProject(r, p)
      PROVE  Shapes'
  <2>1. req[r].op = "post" /\ req[r].pc = "store"
    BY <1>5 DEF PostProject
  <2>2. ASSUME NEW q, Continues(q, req[r]), q.pc = "list", q.applied = req[r].applied
        PROVE  Shape(q)
    BY <1>0, <2>1, <2>2 DEF Continues, Shape
  <2> QED
    BY <1>5, <1>b, <1>q, <2>2, PostProjectMoves DEF Continues
<1>6. ASSUME NEW r \in Slot, NEW p \in Project, PutSummary(r, p)
      PROVE  Shapes'
  <2>1. req[r].op = "put" /\ req[r].pc = "summary"
    BY <1>6 DEF PutSummary
  <2>2. ASSUME NEW q, Continues(q, req[r]), q.pc = "store", q.applied = req[r].applied,
               q.touched = req[r].touched
        PROVE  Shape(q)
    BY <1>0, <2>1, <2>2 DEF Continues, Shape
  <2> QED
    BY <1>6, <1>b, <1>q, <2>2, PutSummaryMoves DEF Continues
<1>7. ASSUME NEW r \in Slot, NEW p \in Project, PutRevision(r, p)
      PROVE  Shapes'
  <2>1. req[r].op = "put" /\ req[r].pc = "store" /\ req[r].project = {p}
    BY <1>0, <1>7 DEF PutRevision, StoreRevision, Shape
  <2>2. ASSUME NEW q, Continues(q, req[r]), q.pc = "list", q.touched = req[r].touched,
               q.applied = req[r].applied, q.body = req[r].body,
               q.row = {NewRow(p, req[r].body)}
        PROVE  Shape(q)
    BY <1>0, <2>1, <2>2 DEF Continues, Shape, NewRow
  <2> QED
    BY <1>7, <1>b, <1>q, <2>2, PutRevisionMoves DEF Continues
<1>8. ASSUME NEW r \in Slot, NEW p \in Project, PutCommit(r, p)
      PROVE  Shapes'
  BY <1>8, <1>b DEF PutCommit
<1>9. ASSUME NEW r \in Slot, NEW p \in Project, DeleteSummary(r, p)
      PROVE  Shapes'
  <2>1. req[r].op = "delete" /\ req[r].pc = "summary"
    BY <1>9 DEF DeleteSummary
  <2>2. ASSUME NEW q, Continues(q, req[r]), q.pc = "store", q.applied = req[r].applied,
               q.touched = req[r].touched
        PROVE  Shape(q)
    BY <1>0, <2>1, <2>2 DEF Continues, Shape
  <2> QED
    BY <1>9, <1>b, <1>q, <2>2, DeleteSummaryMoves DEF Continues
<1>10. ASSUME NEW r \in Slot, NEW p \in Project, DeleteProject(r, p)
       PROVE  Shapes'
  <2>1. req[r].op = "delete" /\ req[r].pc = "store" /\ req[r].project = {p}
    BY <1>0, <1>10 DEF DeleteProject, RemoveProject, Shape
  <2>2. ASSUME NEW q, Continues(q, req[r]), q.pc = "list", q.applied = req[r].applied
        PROVE  Shape(q)
    BY <1>0, <2>1, <2>2 DEF Continues, Shape
  <2> QED
    BY <1>10, <1>b, <1>q, <2>2, DeleteProjectMoves DEF Continues
<1>11. ASSUME NEW r \in Slot, UpdateOrganization(r)
       PROVE  Shapes'
  <2>1. req[r].op = "org" /\ req[r].pc = "store"
    BY <1>11 DEF UpdateOrganization
  <2>2. ASSUME NEW q, Continues(q, req[r]), q.pc = "list", q.applied = req[r].applied
        PROVE  Shape(q)
    BY <1>0, <2>1, <2>2 DEF Continues, Shape
  <2> QED
    BY <1>11, <1>q, <2>2, UpdateOrganizationMoves DEF Continues
<1>12. ASSUME NEW r \in Slot, ApplyList(r)
       PROVE  Shapes'
  <2>1. req[r].pc = "list"
    BY <1>12 DEF ApplyList
  <2>2. ASSUME NEW q, Continues(q, req[r]), q.pc = "apply", q.applied = req[r].applied,
               q.body = req[r].body, q.row = req[r].row
        PROVE  Shape(q)
    BY <1>0, <2>1, <2>2 DEF Continues, Shape
  <2> QED
    BY <1>12, <1>q, <2>2, ApplyListMoves DEF Continues
<1>13. ASSUME NEW r \in Slot, NEW answered \in BOOLEAN, ApplyWrite(r, answered)
       PROVE  Shapes'
  <2>1. req[r].pc = "apply"
    BY <1>13 DEF ApplyWrite
  <2>2. ASSUME NEW q, Continues(q, req[r]), q.pc = "commit", q.op = "put",
               q.body = req[r].body, q.row = req[r].row
        PROVE  Shape(q)
    <3>1. req[r].op = "put" /\ Shape(req[r]) /\ q.project = req[r].project
          /\ q.org = req[r].org
      BY <1>0, <2>2 DEF Continues
    <3> QED
      BY <2>1, <2>2, <3>1 DEF Shape
  <2> QED
    BY <1>13, <1>b, <1>q, <2>2, ApplyWriteMoves DEF Continues
<1>14. ASSUME NEW r \in Slot, ApplyFails(r)
       PROVE  Shapes'
  <2>1. req[r].pc = "apply"
    BY <1>14 DEF ApplyFails
  <2>2. ASSUME NEW q, Continues(q, req[r]), q.pc = "commit", q.op = "put",
               q.body = req[r].body, q.row = req[r].row
        PROVE  Shape(q)
    <3>1. req[r].op = "put" /\ Shape(req[r]) /\ q.project = req[r].project
          /\ q.org = req[r].org
      BY <1>0, <2>2 DEF Continues
    <3> QED
      BY <2>1, <2>2, <3>1 DEF Shape
  <2> QED
    BY <1>14, <1>b, <1>q, <2>2, ApplyFailsMoves DEF Continues
<1>15. ASSUME NEW r \in Slot, Abort(r)
       PROVE  Shapes'
  BY <1>15, <1>b DEF Abort
<1>16. ASSUME NEW o \in Org, Sync(o)
       PROVE  Shapes'
  BY <1>16 DEF Sync, Shapes
<1>17. CASE UNCHANGED vars
  BY <1>17 DEF vars, Shapes
<1> QED
  BY <1>1, <1>2, <1>3, <1>4, <1>5, <1>6, <1>7, <1>8, <1>9, <1>10, <1>11, <1>12,
     <1>13, <1>14, <1>15, <1>16, <1>17 DEF Next, Arrive, Handle

\* Type correctness: whatever requests overlap or fail, every table, resource
\* and local variable of a handler keeps its type.
THEOREM TypeCorrect == Spec => []TypeOK
<1>1. Init => TypeOK /\ Shapes
  BY InitType
<1>2. TypeOK /\ Shapes /\ [Next]_vars => TypeOK' /\ Shapes'
  BY TypeStep, ShapesStep
<1> QED
  BY <1>1, <1>2, PTL DEF Spec
-----------------------------------------------------------------------------
(* The tables *)

TablesInv == RowsLive /\ LatestIsNewest /\ HostedHasEvent /\ TxNewest /\ Exclusive

\* Slot s does not come to hold a row lock, and one it holds keeps its row.
TxKept(s) ==
    InTx(s)' => /\ InTx(s)
                /\ req'[s].project = req[s].project /\ req'[s].row = req[s].row

\* Slot s does not come to reserve a project id or to aim at another project.
PostKept(s) ==
    /\ req'[s].project \subseteq req[s].project
    /\ req'[s].op = "post" /\ req'[s].pc = "store" =>
          /\ req[s].op = "post" /\ req[s].pc = "store"
          /\ req'[s].project = req[s].project

\* A slot that keeps its request keeps its lock and its reservation.
LEMMA KeptKeeps ==
    ASSUME NEW s \in Slot, Kept(s)
    PROVE  TxKept(s) /\ PostKept(s)
BY DEF Kept, TxKept, PostKept, InTx

\* A slot that ends its request, or goes on outside a transaction, releases its
\* lock; one that stays within keeps it.
LEMMA MoveKeeps ==
    ASSUME TypeOK, Shapes, NEW r \in Slot, NEW q \in Request,
           Goto(r, q) \/ GotoSeen(r, q),
           \/ q.pc = "idle" /\ q.project = {}
           \/ /\ q.op = req[r].op /\ q.project = req[r].project
              /\ q.op = "post" => q.pc # "store" 
              /\ \/ q.pc \in {"summary", "store"}
                 \/ q.op # "put"
                 \/ InTx(r) /\ q.row = req[r].row
    PROVE  \A s \in Slot : TxKept(s) /\ PostKept(s)
<1>1. req'[r] = q /\ \A s \in Slot : s # r => Kept(s)
  BY GotoKeeps DEF TypeOK
<1>2. TxKept(r)
  BY <1>1 DEF TxKept, InTx
<1>3. PostKept(r)
  BY <1>1 DEF PostKept
<1> QED
  BY <1>1, <1>2, <1>3, KeptKeeps

\* A step that writes no table and takes no lock preserves what the tables satisfy.
LEMMA TablesSilent ==
    ASSUME TypeOK, TypeOK', TablesInv,
           UNCHANGED <<status, latest, event, revisions>>, nextId <= nextId',
           \A s \in Slot : TxKept(s)
    PROVE  TablesInv'
<1>1. RowsLive'
  BY DEF TypeOK, TablesInv, RowsLive, Row
<1>2. LatestIsNewest' /\ HostedHasEvent'
  BY DEF TablesInv, LatestIsNewest, HostedHasEvent
<1>3. TxNewest'
  <2> SUFFICES ASSUME NEW s \in Slot, InTx(s)', NEW w \in req'[s].row
               PROVE  /\ status[w.project] = "live" /\ w.id < nextId'
                      /\ event[w.project] < w.id
                      /\ \A v \in revisions : v.project = w.project => v.id < w.id
    BY DEF TxNewest
  <2>1. InTx(s) /\ w \in req[s].row
    BY DEF TxKept
  <2>2. w \in Row
    BY <2>1 DEF TypeOK, Request, Maybe
  <2> QED
    BY <2>1, <2>2 DEF TablesInv, TxNewest, TypeOK, Row
<1>4. Exclusive'
  BY DEF TablesInv, Exclusive, TxKept
<1> QED
  BY <1>1, <1>2, <1>3, <1>4 DEF TablesInv

\* A reservation survives unless a step reserves an id or inserts that project.
LEMMA UnbornKept ==
    ASSUME TypeOK, Unborn, \A s \in Slot : PostKept(s),
           \A p \in Project : status[p] = "free" =>
              \/ status'[p] = "free"
              \/ \A s \in Slot : p \in req'[s].project =>
                    ~(req'[s].op = "post" /\ req'[s].pc = "store")
    PROVE  Unborn'
<1> SUFFICES ASSUME NEW r \in Slot, req'[r].op = "post", req'[r].pc = "store",
                    NEW p \in req'[r].project
             PROVE  status'[p] = "free" /\ \A s \in Slot : p \in req'[s].project => s = r
  BY DEF Unborn
<1>1. req[r].op = "post" /\ req[r].pc = "store" /\ p \in req[r].project
  BY DEF PostKept
<1>2. p \in Project
  BY <1>1 DEF TypeOK, Request, Maybe
<1> QED
  BY <1>1, <1>2 DEF Unborn, PostKept

\* Inserting a project, with its first revision or without one.
LEMMA PostProjectTables ==
    ASSUME TypeOK, TypeOK', Shapes, TablesInv, Unborn,
           NEW r \in Slot, NEW p \in Project, PostProject(r, p)
    PROVE  TablesInv'
<1>1. /\ req[r].op = "post" /\ req[r].pc = "store" /\ p \in req[r].project
      /\ status[p] = "free" /\ req[r].body.oci = {}
      /\ UNCHANGED event
  BY DEF PostProject, Unborn, Shapes, Shape
<1>2. latest[p] = {} /\ (\A w \in revisions : w.project # p) /\ event[p] < nextId
  BY <1>1 DEF TablesInv, RowsLive
<1>3. \A s \in Slot : TxKept(s)
  <2>1. ASSUME NEW q, Continues(q, req[r]), q.pc = "list", Goto(r, q) \/ GotoSeen(r, q)
        PROVE  \A s \in Slot : TxKept(s)
    BY <1>1, <2>1, MoveKeeps DEF Continues
  <2>2. CASE Return(r)
    BY <2>2, BlankType, MoveKeeps DEF Return, Blank
  <2> QED
    BY <2>1, <2>2, PostProjectMoves
<1>4. ASSUME NEW s \in Slot, InTx(s)', NEW w \in req'[s].row
      PROVE  /\ w \in Row /\ w \in req[s].row /\ InTx(s) /\ w.project # p
             /\ status[w.project] = "live" /\ w.id < nextId /\ event[w.project] < w.id
             /\ \A v \in revisions : v.project = w.project => v.id < w.id
  <2>1. InTx(s) /\ w \in req[s].row
    BY <1>3, <1>4 DEF TxKept
  <2>2. w \in Row
    BY <2>1 DEF TypeOK, Request, Maybe
  <2> QED
    BY <1>1, <2>1, <2>2 DEF TablesInv, TxNewest
<1>5. Exclusive'
  BY <1>3 DEF TablesInv, Exclusive, TxKept
<1>0. CASE UNCHANGED <<status, latest, revisions, nextId>>
  BY <1>0, <1>1, <1>3, TablesSilent DEF TypeOK
<1>6. CASE UNCHANGED <<latest, revisions, nextId>> /\ status' = [status EXCEPT ![p] = "live"]
  <2>1. UNCHANGED <<latest, revisions, nextId>> /\ status' = [status EXCEPT ![p] = "live"]
    BY <1>6
  <2>2. RowsLive'
    BY <1>1, <2>1 DEF TypeOK, TablesInv, RowsLive, Row
  <2>3. LatestIsNewest' /\ HostedHasEvent'
    BY <1>1, <2>1 DEF TablesInv, LatestIsNewest, HostedHasEvent
  <2>4. TxNewest'
    BY <1>1, <1>4, <2>1 DEF TxNewest, TypeOK, Row
  <2> QED
    BY <1>5, <2>2, <2>3, <2>4 DEF TablesInv
<1>7. CASE /\ status' = [status EXCEPT ![p] = "live"]
           /\ latest' = [latest EXCEPT ![p] = {NewRow(p, req[r].body)}]
           /\ revisions' = revisions \cup {NewRow(p, req[r].body)}
           /\ nextId' = nextId + 1
  <2> DEFINE n == NewRow(p, req[r].body)
  <2>1. n \in Row /\ n.id = nextId /\ n.project = p /\ n.src.oci = {}
    BY <1>1 DEF NewRow, Row, Request, TypeOK
  <2>2. /\ latest' = [latest EXCEPT ![p] = {n}]
        /\ revisions' = revisions \cup {n} /\ nextId' = nextId + 1
        /\ status' = [status EXCEPT ![p] = "live"]
    BY <1>7
  <2> HIDE DEF n
  <2>3. RowsLive'
    BY <1>1, <2>1, <2>2 DEF TypeOK, TablesInv, RowsLive, Row
  <2>4. LatestIsNewest'
    BY <1>2, <2>1, <2>2 DEF TypeOK, TablesInv, LatestIsNewest, Row
  <2>5. HostedHasEvent'
    BY <1>1, <1>2, <2>1, <2>2 DEF TypeOK, TablesInv, HostedHasEvent, Row
  <2>6. TxNewest'
    BY <1>1, <1>4, <2>1, <2>2 DEF TxNewest, TypeOK, Row
  <2> QED
    BY <1>5, <2>3, <2>4, <2>5, <2>6 DEF TablesInv
<1> QED
  BY <1>0, <1>6, <1>7, PostProjectMoves

\* Inserting a revision takes the row lock with a row newer than all others.
LEMMA PutRevisionTables ==
    ASSUME TypeOK, TypeOK', Shapes, TablesInv,
           NEW r \in Slot, NEW p \in Project, PutRevision(r, p)
    PROVE  TablesInv'
<1>1. /\ req[r].op = "put" /\ req[r].pc = "store" /\ req[r].project = {p}
      /\ ~Locked(p) /\ UNCHANGED <<status, latest, event, revisions>>
  BY DEF PutRevision, StoreRevision, Shapes, Shape
<1>2. CASE UNCHANGED nextId /\ Return(r)
  <2>1. \A s \in Slot : TxKept(s)
    BY <1>2, BlankType, MoveKeeps DEF Return, Blank
  <2> QED
    BY <1>1, <1>2, <2>1, TablesSilent DEF TypeOK
<1>3. ASSUME NEW q, Continues(q, req[r]), Goto(r, q), q.row = {NewRow(p, req[r].body)},
             nextId' = nextId + 1, status[p] = "live"
      PROVE  TablesInv'
  <2> DEFINE n == NewRow(p, req[r].body)
  <2>1. n.id = nextId /\ n.project = p
    BY DEF NewRow
  <2> HIDE DEF n
  <2>2. req'[r] = q /\ q.row = {n} /\ q.project = {p} /\ q.op = "put"
    BY <1>1, <1>3, GotoKeeps DEF TypeOK, Continues, n
  <2>3. ASSUME NEW s \in Slot, s # r
        PROVE  /\ Kept(s)
               /\ InTx(s)' => InTx(s) /\ req'[s].row = req[s].row
                             /\ req'[s].project = req[s].project /\ p \notin req[s].project
    BY <1>1, <1>3, <2>3, GotoKeeps DEF TypeOK, Continues, Kept, InTx, Locked
  <2>4. RowsLive'
    BY <1>1, <1>3 DEF TypeOK, TablesInv, RowsLive, Row
  <2>5. LatestIsNewest' /\ HostedHasEvent'
    BY <1>1 DEF TablesInv, LatestIsNewest, HostedHasEvent
  <2>6. Exclusive'
    BY <2>2, <2>3 DEF TablesInv, Exclusive
  <2>7. ASSUME NEW s \in Slot, InTx(s)', NEW w \in req'[s].row
        PROVE  /\ status[w.project] = "live" /\ w.id < nextId'
               /\ event[w.project] < w.id
               /\ \A v \in revisions : v.project = w.project => v.id < w.id
    <3>1. CASE s = r
      <4>1. w = n
        BY <2>2, <2>7, <3>1
      <4> QED
        BY <1>3, <2>1, <4>1 DEF TypeOK, TablesInv, RowsLive
    <3>2. CASE s # r
      <4>1. InTx(s) /\ w \in req[s].row
        BY <2>3, <2>7, <3>2
      <4>2. w \in Row
        BY <4>1 DEF TypeOK, Request, Maybe
      <4> QED
        BY <1>3, <4>1, <4>2 DEF TablesInv, TxNewest, TypeOK, Row
    <3> QED
      BY <3>1, <3>2
  <2>8. TxNewest'
    BY <1>1, <2>7 DEF TxNewest
  <2> QED
    BY <2>4, <2>5, <2>6, <2>8 DEF TablesInv
<1> QED
  BY <1>2, <1>3, PutRevisionMoves

\* A commit makes the transaction's row the latest one of its project; the row
\* lock keeps every other open transaction on another project.
LEMMA PutCommitTables ==
    ASSUME TypeOK, TypeOK', Shapes, TablesInv,
           NEW r \in Slot, NEW p \in Project, PutCommit(r, p)
    PROVE  TablesInv'
<1>1. PICK n \in req[r].row : /\ req[r].row = {n} /\ req[r].project = {n.project}
                              /\ n.src = req[r].body
  BY DEF PutCommit, Shapes, Shape
<1>2. /\ InTx(r) /\ n.project = p /\ n \in Row
  BY <1>1 DEF PutCommit, InTx, TypeOK, Request, Maybe
<1>3. /\ status[p] = "live" /\ n.id < nextId /\ event[p] < n.id
      /\ \A v \in revisions : v.project = p => v.id < n.id
  BY <1>1, <1>2 DEF TablesInv, TxNewest
<1>4. (CHOOSE w \in req[r].row : TRUE).id = n.id
  BY <1>1
<1>5. /\ latest' = [latest EXCEPT ![p] = {n}] /\ revisions' = revisions \cup {n}
      /\ event' = [event EXCEPT ![p] = IF n.src.oci # {} THEN n.id ELSE event[p]]
      /\ UNCHANGED <<status, nextId>>
  BY <1>1, <1>4 DEF PutCommit, TypeOK
<1>6. ASSUME NEW s \in Slot, InTx(s)'
      PROVE  /\ InTx(s) /\ req'[s].row = req[s].row
             /\ req'[s].project = req[s].project /\ s # r /\ req[s].project # {p}
  <2>1. req'[r] = Blank /\ \A t \in Slot : t # r => Kept(t)
    BY BlankType, GotoKeeps DEF PutCommit, TypeOK
  <2>2. s # r
    BY <1>6, <2>1, BlankType DEF InTx
  <2>3. InTx(s) /\ req'[s].row = req[s].row /\ req'[s].project = req[s].project
    BY <1>6, <2>1, <2>2 DEF Kept, InTx
  <2> QED
    BY <1>1, <1>2, <2>2, <2>3 DEF TablesInv, Exclusive
<1>7. RowsLive'
  <2>1. \A w \in revisions' : status'[w.project] = "live" /\ w.id < nextId'
    BY <1>2, <1>3, <1>5 DEF TablesInv, RowsLive
  <2>2. ASSUME NEW x \in Project
        PROVE  event'[x] < nextId' /\ (status'[x] # "live" => latest'[x] = {})
    BY <1>3, <1>5 DEF TypeOK, TablesInv, RowsLive
  <2> QED
    BY <2>1, <2>2 DEF RowsLive
<1>8. LatestIsNewest'
  BY <1>2, <1>3, <1>5 DEF TypeOK, TablesInv, LatestIsNewest, Row
<1>9. HostedHasEvent'
  BY <1>2, <1>3, <1>5 DEF TypeOK, TablesInv, HostedHasEvent, Row
<1>10. Exclusive'
  BY <1>6 DEF TablesInv, Exclusive
<1>11. ASSUME NEW s \in Slot, InTx(s)', NEW w \in req'[s].row
       PROVE  /\ status'[w.project] = "live" /\ w.id < nextId'
              /\ event'[w.project] < w.id
              /\ \A v \in revisions' : v.project = w.project => v.id < w.id
  <2>1. InTx(s) /\ w \in req[s].row
    BY <1>6, <1>11
  <2>2. w \in Row /\ w.project # p
    BY <1>6, <1>11, <2>1 DEF TypeOK, Request, Maybe, Shapes, Shape, InTx
  <2>3. /\ status[w.project] = "live" /\ w.id < nextId /\ event[w.project] < w.id
        /\ \A v \in revisions : v.project = w.project => v.id < w.id
    BY <2>1 DEF TablesInv, TxNewest
  <2> QED
    BY <1>2, <1>5, <2>2, <2>3 DEF TypeOK, Row
<1>12. TxNewest'
  BY <1>11 DEF TxNewest
<1> QED
  BY <1>7, <1>8, <1>9, <1>10, <1>12 DEF TablesInv

\* A deletion takes all of its project's rows with it and waits for the lock, so
\* no open transaction loses its project.
LEMMA DeleteProjectTables ==
    ASSUME TypeOK, TypeOK', Shapes, TablesInv,
           NEW r \in Slot, NEW p \in Project, DeleteProject(r, p)
    PROVE  TablesInv'
<1>1. /\ req[r].op = "delete" /\ req[r].pc = "store" /\ ~Locked(p)
      /\ UNCHANGED nextId
  BY DEF DeleteProject, RemoveProject
<1>2. CASE UNCHANGED <<status, latest, event, revisions>> /\ Return(r)
  <2>1. \A s \in Slot : TxKept(s)
    BY <1>2, BlankType, MoveKeeps DEF Return, Blank
  <2> QED
    BY <1>1, <1>2, <2>1, TablesSilent DEF TypeOK
<1>3. ASSUME NEW q, Continues(q, req[r]), GotoSeen(r, q), q.pc = "list",
             status' = [status EXCEPT ![p] = "gone"],
             latest' = [latest EXCEPT ![p] = {}],
             event' = [event EXCEPT ![p] = 0],
             revisions' = {w \in revisions : w.project # p}
      PROVE  TablesInv'
  <2>1. \A s \in Slot : TxKept(s)
    BY <1>1, <1>3, MoveKeeps DEF Continues
  <2>2. RowsLive'
    <3>1. \A w \in revisions' : status'[w.project] = "live" /\ w.id < nextId'
      BY <1>1, <1>3 DEF TypeOK, TablesInv, RowsLive, Row
    <3>2. ASSUME NEW x \in Project
          PROVE  event'[x] < nextId' /\ (status'[x] # "live" => latest'[x] = {})
      BY <1>1, <1>3 DEF TypeOK, TablesInv, RowsLive
    <3> QED
      BY <3>1, <3>2 DEF RowsLive
  <2>3. LatestIsNewest'
    BY <1>3 DEF TypeOK, TablesInv, LatestIsNewest
  <2>4. HostedHasEvent'
    BY <1>3 DEF TypeOK, TablesInv, HostedHasEvent
  <2>5. Exclusive'
    BY <2>1 DEF TablesInv, Exclusive, TxKept
  <2>6. ASSUME NEW s \in Slot, InTx(s)', NEW w \in req'[s].row
        PROVE  /\ status'[w.project] = "live" /\ w.id < nextId'
               /\ event'[w.project] < w.id
               /\ \A v \in revisions' : v.project = w.project => v.id < w.id
    <3>1. InTx(s) /\ w \in req[s].row /\ p \notin req[s].project
      BY <1>1, <2>1, <2>6 DEF TxKept, Locked
    <3>2. w \in Row /\ w.project # p
      BY <3>1 DEF TypeOK, Request, Maybe, Shapes, Shape, InTx
    <3>3. /\ status[w.project] = "live" /\ w.id < nextId /\ event[w.project] < w.id
          /\ \A v \in revisions : v.project = w.project => v.id < w.id
      BY <3>1 DEF TablesInv, TxNewest
    <3> QED
      BY <1>1, <1>3, <3>2, <3>3 DEF TypeOK, Row
  <2>7. TxNewest'
    BY <2>6 DEF TxNewest
  <2> QED
    BY <2>2, <2>3, <2>4, <2>5, <2>7 DEF TablesInv
<1> QED
  BY <1>2, <1>3, DeleteProjectMoves

\* A request that arrives takes no lock.
LEMMA BeginKeeps ==
    ASSUME TypeOK, NEW r \in Slot, NEW q \in Request, Goto(r, q),
           q.pc \in {"summary", "store"}
    PROVE  \A s \in Slot : TxKept(s)
<1>1. req'[r] = q /\ \A s \in Slot : s # r => Kept(s)
  BY GotoKeeps DEF TypeOK
<1> QED
  BY <1>1, KeptKeeps DEF TxKept, InTx

\* Every step preserves what the tables, the row locks and the reserved ids
\* satisfy.
LEMMA TablesStep ==
    ASSUME TypeOK, Shapes, TablesInv, Unborn, [Next]_vars
    PROVE  TablesInv' /\ Unborn'
<1>0. TypeOK'
  BY TypeStep
<1>s. ASSUME UNCHANGED <<status, latest, event, revisions, nextId>>,
             \A s \in Slot : TxKept(s) /\ PostKept(s)
      PROVE  TablesInv' /\ Unborn'
  BY <1>0, <1>s, TablesSilent, UnbornKept DEF TypeOK
<1>b. ASSUME NEW r \in Slot, Goto(r, Blank) \/ GotoSeen(r, Blank) \/ Return(r)
      PROVE  \A s \in Slot : TxKept(s) /\ PostKept(s)
  <2>1. Blank \in Request /\ Blank.pc = "idle" /\ Blank.project = {}
    BY BlankType DEF Blank
  <2> QED
    BY <1>b, <2>1, MoveKeeps DEF Return
<1>m. ASSUME NEW r \in Slot, NEW q, Continues(q, req[r]), Goto(r, q) \/ GotoSeen(r, q),
             q.op = "post" => q.pc # "store",
             \/ q.pc \in {"summary", "store"}
             \/ q.op # "put"
             \/ InTx(r) /\ q.row = req[r].row
      PROVE  \A s \in Slot : TxKept(s) /\ PostKept(s)
  BY <1>m, MoveKeeps DEF Continues
<1>1. ASSUME NEW r \in Slot, NEW p \in Project, NEW url \in Maybe(Url),
             BeginPost(r, p, url)
      PROVE  TablesInv' /\ Unborn'
  <2>1. PICK q : /\ Starts(q, "post", OrgOf[p]) /\ Goto(r, q)
                 /\ q.pc = "store" /\ q.project = {p}
    BY <1>1, BeginPostMoves
  <2>2. /\ UNCHANGED <<status, latest, event, revisions, nextId>>
        /\ status[p] = "free" /\ \A s \in Slot : p \notin req[s].project
    BY <1>1 DEF BeginPost
  <2>3. TablesInv'
    BY <1>0, <2>1, <2>2, BeginKeeps, TablesSilent DEF Starts, TypeOK
  <2>4. req'[r] = q /\ \A s \in Slot : s # r => Kept(s)
    BY <2>1, GotoKeeps DEF TypeOK, Starts
  <2>5. Unborn'
    BY <2>1, <2>2, <2>4 DEF Unborn, Kept
  <2> QED
    BY <2>3, <2>5
<1>2. ASSUME NEW r \in Slot, NEW p \in Project, NEW q, NEW op \in {"put", "delete"},
             Starts(q, op, OrgOf[p]), Goto(r, q), q.pc = "summary", q.project = {p},
             status[p] = "live", UNCHANGED <<status, latest, event, revisions, nextId>>
      PROVE  TablesInv' /\ Unborn'
  <2>1. TablesInv'
    BY <1>0, <1>2, BeginKeeps, TablesSilent DEF Starts, TypeOK
  <2>2. req'[r] = q /\ \A s \in Slot : s # r => Kept(s)
    BY <1>2, GotoKeeps DEF TypeOK, Starts
  <2>3. Unborn'
    BY <1>2, <2>2 DEF Unborn, Kept
  <2> QED
    BY <2>1, <2>3
<1>3. ASSUME NEW r \in Slot, NEW p \in Project, NEW b \in Bodies, BeginPut(r, p, b)
      PROVE  TablesInv' /\ Unborn'
  <2>1. status[p] = "live" /\ UNCHANGED <<status, latest, event, revisions, nextId>>
    BY <1>3 DEF BeginPut
  <2> QED
    BY <1>2, <1>3, <2>1, BeginPutMoves
<1>4. ASSUME NEW r \in Slot, NEW p \in Project, BeginDelete(r, p)
      PROVE  TablesInv' /\ Unborn'
  <2>1. status[p] = "live" /\ UNCHANGED <<status, latest, event, revisions, nextId>>
    BY <1>4 DEF BeginDelete
  <2> QED
    BY <1>2, <1>4, <2>1, BeginDeleteMoves
<1>5. ASSUME NEW r \in Slot, NEW o \in Org, NEW c \in Changes, BeginOrg(r, o, c)
      PROVE  TablesInv' /\ Unborn'
  <2>1. PICK q : Starts(q, "org", o) /\ Goto(r, q) /\ q.pc = "store" /\ q.project = {}
    BY <1>5, BeginOrgMoves
  <2>2. UNCHANGED <<status, latest, event, revisions, nextId>>
    BY <1>5 DEF BeginOrg
  <2>3. req'[r] = q /\ \A s \in Slot : s # r => Kept(s)
    BY <2>1, GotoKeeps DEF TypeOK, Starts
  <2>4. PostKept(r)
    BY <2>1, <2>3 DEF PostKept, Starts
  <2> QED
    BY <1>s, <2>1, <2>2, <2>3, <2>4, BeginKeeps, KeptKeeps DEF Starts
<1>6. ASSUME NEW r \in Slot, NEW p \in Project, PostProject(r, p)
      PROVE  TablesInv' /\ Unborn'
  <2>1. TablesInv'
    BY <1>0, <1>6, PostProjectTables
  <2>2. /\ req[r].op = "post" /\ req[r].pc = "store" /\ p \in req[r].project
        /\ status' = status \/ status' = [status EXCEPT ![p] = "live"]
    BY <1>6 DEF PostProject
  <2>3. \A s \in Slot : TxKept(s) /\ PostKept(s)
    BY <1>6, <1>b, <1>m, <2>2, PostProjectMoves DEF Continues
  <2>4. req'[r].pc # "store"
    BY <1>6, BlankType, GotoKeeps, PostProjectMoves DEF TypeOK, Continues, Return
  <2>5. \A s \in Slot : p \in req'[s].project => s = r
    BY <2>2, <2>3 DEF Unborn, PostKept
  <2>6. Unborn'
    BY <2>2, <2>3, <2>4, <2>5, UnbornKept DEF TypeOK
  <2> QED
    BY <2>1, <2>6
<1>7. ASSUME NEW r \in Slot, NEW p \in Project, PutSummary(r, p)
      PROVE  TablesInv' /\ Unborn'
  <2>1. UNCHANGED <<status, latest, event, revisions, nextId>> /\ req[r].op = "put"
    BY <1>7 DEF PutSummary
  <2> QED
    BY <1>7, <1>b, <1>m, <1>s, <2>1, PutSummaryMoves DEF Continues
<1>8. ASSUME NEW r \in Slot, NEW p \in Project, PutRevision(r, p)
      PROVE  TablesInv' /\ Unborn'
  <2>1. TablesInv'
    BY <1>0, <1>8, PutRevisionTables
  <2>2. UNCHANGED status /\ req[r].op = "put"
    BY <1>8 DEF PutRevision, StoreRevision
  <2>3. ASSUME NEW q, Continues(q, req[r]), Goto(r, q)
        PROVE  \A s \in Slot : PostKept(s)
    <3>1. req'[r] = q /\ \A s \in Slot : s # r => Kept(s)
      BY <2>3, GotoKeeps DEF TypeOK, Continues
    <3> QED
      BY <2>2, <2>3, <3>1, KeptKeeps DEF PostKept, Continues
  <2>4. \A s \in Slot : PostKept(s)
    BY <1>8, <1>b, <2>3, PutRevisionMoves
  <2> QED
    BY <2>1, <2>2, <2>4, UnbornKept
<1>9. ASSUME NEW r \in Slot, NEW p \in Project, PutCommit(r, p)
      PROVE  TablesInv' /\ Unborn'
  <2>1. UNCHANGED status /\ GotoSeen(r, Blank)
    BY <1>9 DEF PutCommit
  <2> QED
    BY <1>0, <1>9, <1>b, <2>1, PutCommitTables, UnbornKept
<1>10. ASSUME NEW r \in Slot, NEW p \in Project, DeleteSummary(r, p)
       PROVE  TablesInv' /\ Unborn'
  <2>1. UNCHANGED <<status, latest, event, revisions, nextId>> /\ req[r].op = "delete"
    BY <1>10 DEF DeleteSummary
  <2> QED
    BY <1>10, <1>b, <1>m, <1>s, <2>1, DeleteSummaryMoves DEF Continues
<1>11. ASSUME NEW r \in Slot, NEW p \in Project, DeleteProject(r, p)
       PROVE  TablesInv' /\ Unborn'
  <2>1. TablesInv'
    BY <1>0, <1>11, DeleteProjectTables
  <2>2. req[r].op = "delete"
    BY <1>11 DEF DeleteProject, RemoveProject
  <2>3. \A s \in Slot : PostKept(s)
    BY <1>11, <1>b, <1>m, <2>2, DeleteProjectMoves DEF Continues
  <2>4. \A x \in Project : status[x] = "free" => status'[x] = "free"
    BY <1>11, DeleteProjectMoves DEF TypeOK
  <2> QED
    BY <2>1, <2>3, <2>4, UnbornKept
<1>12. ASSUME NEW r \in Slot, UpdateOrganization(r)
       PROVE  TablesInv' /\ Unborn'
  <2>1. UNCHANGED <<status, latest, event, revisions, nextId>> /\ req[r].op = "org"
    BY <1>12 DEF UpdateOrganization
  <2> QED
    BY <1>12, <1>m, <1>s, <2>1, UpdateOrganizationMoves DEF Continues
<1>13. ASSUME NEW r \in Slot, ApplyList(r)
       PROVE  TablesInv' /\ Unborn'
  <2>1. UNCHANGED <<status, latest, event, revisions, nextId>> /\ req[r].pc = "list"
    BY <1>13 DEF ApplyList
  <2> QED
    BY <1>13, <1>m, <1>s, <2>1, ApplyListMoves DEF Continues, InTx
<1>14. ASSUME NEW r \in Slot, NEW answered \in BOOLEAN, ApplyWrite(r, answered)
       PROVE  TablesInv' /\ Unborn'
  <2>1. UNCHANGED <<status, latest, event, revisions, nextId>> /\ req[r].pc = "apply"
    BY <1>14 DEF ApplyWrite
  <2> QED
    BY <1>14, <1>b, <1>m, <1>s, <2>1, ApplyWriteMoves DEF Continues, InTx
<1>15. ASSUME NEW r \in Slot, ApplyFails(r)
       PROVE  TablesInv' /\ Unborn'
  <2>1. UNCHANGED <<status, latest, event, revisions, nextId>> /\ req[r].pc = "apply"
    BY <1>15 DEF ApplyFails
  <2> QED
    BY <1>15, <1>b, <1>m, <1>s, <2>1, ApplyFailsMoves DEF Continues, InTx
<1>16. ASSUME NEW r \in Slot, Abort(r)
       PROVE  TablesInv' /\ Unborn'
  <2>1. UNCHANGED <<status, latest, event, revisions, nextId>> /\ Goto(r, Blank)
    BY <1>16 DEF Abort
  <2> QED
    BY <1>b, <1>s, <2>1
<1>17. ASSUME UNCHANGED <<status, latest, event, revisions, nextId, req>>
       PROVE  TablesInv' /\ Unborn'
  <2>1. \A s \in Slot : TxKept(s) /\ PostKept(s)
    BY <1>17 DEF TxKept, PostKept, InTx
  <2> QED
    BY <1>17, <1>s, <2>1
<1>18. ASSUME NEW o \in Org, Sync(o)
       PROVE  TablesInv' /\ Unborn'
  BY <1>17, <1>18 DEF Sync
<1>19. CASE UNCHANGED vars
  BY <1>17, <1>19 DEF vars
<1> QED
  BY <1>1, <1>3, <1>4, <1>5, <1>6, <1>7, <1>8, <1>9, <1>10, <1>11, <1>12, <1>13,
     <1>14, <1>15, <1>16, <1>18, <1>19 DEF Next, Arrive, Handle

-----------------------------------------------------------------------------
(* What Apply lists *)

\* What project x contributes to the list of a transaction that sees the tables
\* st and la and has itself written w for the projects m.
Share(st, la, m, w, x) ==
    IF st[x] = "live" THEN IF x \in m THEN w ELSE la[x] ELSE {}

\* Summaries, as a function of the tables.
Listed(st, la, o, m, w) ==
    UNION {IF p \in m THEN w ELSE la[p] : p \in {x \in Project : OrgOf[x] = o /\ st[x] = "live"}}

\* The list only depends on what each project of the organization contributes.
LEMMA ListedSame ==
    ASSUME NEW st, NEW la, NEW m, NEW w, NEW st2, NEW la2, NEW m2, NEW w2, NEW o,
           \A x \in Project : OrgOf[x] = o =>
              Share(st, la, m, w, x) = Share(st2, la2, m2, w2, x)
    PROVE  Listed(st, la, o, m, w) = Listed(st2, la2, o, m2, w2)
<1>1. ASSUME NEW a, NEW b, NEW k, NEW c
      PROVE  \A e : e \in Listed(a, b, o, k, c) <=>
               \E x \in Project : OrgOf[x] = o /\ e \in Share(a, b, k, c, x)
  BY DEF Listed, Share
<1>2. \A e : e \in Listed(st, la, o, m, w) <=> e \in Listed(st2, la2, o, m2, w2)
  BY <1>1
<1> QED
  BY <1>2

\* What an undisturbed request, and an idle organization, are compared with.
LEMMA ViewListed ==
    /\ \A r \in Slot : View(r) = IF InTx(r)
          THEN Listed(status, latest, req[r].org, req[r].project, req[r].row)
          ELSE Listed(status, latest, req[r].org, {}, {})
    /\ \A r \in Slot : View(r)' = IF InTx(r)'
          THEN Listed(status', latest', req'[r].org, req'[r].project, req'[r].row)
          ELSE Listed(status', latest', req'[r].org, {}, {})
    /\ \A o \in Org : Desired(o) = Listed(status, latest, o, {}, {})
    /\ \A o \in Org : Desired(o)' = Listed(status', latest', o, {}, {})
BY DEF View, Desired, Summaries, ProjectsOf, Listed

\* A request that is not the one that moves keeps its facts if what it has read
\* has not changed.
LEMMA SoloKept ==
    ASSUME NEW s \in Slot, Kept(s), SoloFacts(s),
           Active(s) /\ req'[s].solo =>
              /\ settings'[req[s].org] = settings[req[s].org]
              /\ req[s].pc \in {"apply", "commit"} => View(s)' = View(s)
              /\ req[s].pc = "commit" => gateway'[req[s].org] = gateway[req[s].org]
    PROVE  SoloFacts(s)'
BY DEF SoloFacts, Kept, Active

\* Projects of other organizations do not matter.
LEMMA OtherOrg ==
    ASSUME NEW s \in Slot, Kept(s), TypeOK, NEW p \in Project, req[s].org # OrgOf[p],
           \A x \in Project : x # p => status'[x] = status[x] /\ latest'[x] = latest[x]
    PROVE  View(s)' = View(s)
<1>1. InTx(s)' = InTx(s)
  BY DEF Kept, InTx
<1>2. ASSUME NEW m, NEW w
      PROVE  Listed(status', latest', req[s].org, m, w) = Listed(status, latest, req[s].org, m, w)
  <2>1. \A x \in Project : OrgOf[x] = req[s].org =>
          Share(status', latest', m, w, x) = Share(status, latest, m, w, x)
    BY DEF Share
  <2> QED
    BY <2>1, ListedSame
<1> QED
  BY <1>1, <1>2, ViewListed DEF Kept

\* Nor, for the verdict on another organization.
LEMMA OtherDesired ==
    ASSUME NEW o \in Org, NEW p \in Project, o # OrgOf[p],
           \A x \in Project : x # p => status'[x] = status[x] /\ latest'[x] = latest[x]
    PROVE  Desired(o)' = Desired(o)
<1>1. \A x \in Project : OrgOf[x] = o =>
        Share(status', latest', {}, {}, x) = Share(status, latest, {}, {}, x)
  BY DEF Share
<1> QED
  BY <1>1, ListedSame, ViewListed

\* With the tables unchanged, what a request sees does not change.
LEMMA SameView ==
    ASSUME UNCHANGED <<status, latest>>
    PROVE  /\ \A s \in Slot : Kept(s) => View(s)' = View(s)
           /\ \A o \in Org : Desired(o)' = Desired(o)
<1>1. ASSUME NEW s \in Slot, Kept(s) PROVE View(s)' = View(s)
  BY <1>1 DEF View, Summaries, ProjectsOf, Kept, InTx
<1>2. ASSUME NEW o \in Org PROVE Desired(o)' = Desired(o)
  BY DEF Desired, Summaries, ProjectsOf
<1> QED
  BY <1>1, <1>2

-----------------------------------------------------------------------------
(* Undisturbed requests and good verdicts *)

AllSolo == \A r \in Slot : SoloFacts(r)

\* The facts of the request that moves, as long as it has not listed anything.
LEMMA OwnFacts ==
    ASSUME NEW r \in Slot,
           req'[r].solo =>
              \/ req'[r].pc \in {"idle", "summary"}
              \/ req'[r].pc \in {"store", "list"} /\ req'[r].snap = settings'[req'[r].org]
              \/ /\ req'[r].pc = "commit" /\ ~req'[r].applied
                 /\ req'[r].snap = settings'[req'[r].org]
    PROVE  SoloFacts(r)'
BY DEF SoloFacts

\* A slot without a request has no facts to keep.
LEMMA BlankFacts ==
    ASSUME NEW r \in Slot, req'[r] = Blank
    PROVE  SoloFacts(r)'
<1>1. req'[r].solo = FALSE
  BY DEF Blank
<1> QED
  BY <1>1, OwnFacts

\* Good verdicts survive a step that changes neither side, unless a request ends
\* that has touched the organization and left no good verdict.
LEMMA FreshSilent ==
    ASSUME FreshFacts, UNCHANGED <<settings, gateway>>,
           \A o \in Org : Desired(o)' = Desired(o) /\ (fresh'[o] => fresh[o]),
           \A s \in Slot : Active(s) /\ req[s].touched /\ fresh'[req[s].org] =>
              Active(s)' /\ req'[s].touched /\ req'[s].org = req[s].org
    PROVE  FreshFacts'
<1> SUFFICES ASSUME NEW o \in Org, fresh'[o],
                    \A s \in Slot : Active(s)' /\ req'[s].org = o => ~req'[s].touched
             PROVE  InSync(o)'
  BY DEF FreshFacts
<1>1. InSync(o)
  BY DEF FreshFacts
<1> QED
  BY <1>1 DEF InSync

\* An effect on one organization leaves the verdicts on the others alone; on its
\* own it suspends the verdict until its request ends.
LEMMA FreshTouched ==
    ASSUME TypeOK, FreshFacts, NEW r \in Slot, \A s \in Slot : s # r => Kept(s),
           Active(r), NEW h \in Org, req[r].org = h,
           \A o \in Org : o # h =>
              /\ Desired(o)' = Desired(o) /\ settings'[o] = settings[o]
              /\ gateway'[o] = gateway[o] /\ fresh'[o] = fresh[o],
           \/ Active(r)' /\ req'[r].touched /\ req'[r].org = h
           \/ ~Active(r)' /\ (fresh'[h] => InSync(h)')
    PROVE  FreshFacts'
<1> SUFFICES ASSUME NEW o \in Org, fresh'[o],
                    \A s \in Slot : Active(s)' /\ req'[s].org = o => ~req'[s].touched
             PROVE  InSync(o)'
  BY DEF FreshFacts
<1>1. CASE o = h
  BY <1>1 DEF Active
<1>2. CASE o # h
  <2>1. \A s \in Slot : Active(s) /\ req[s].org = o => ~req[s].touched
    BY <1>2 DEF Kept, Active
  <2>2. InSync(o)
    BY <1>2, <2>1 DEF FreshFacts
  <2> QED
    BY <1>2, <2>2 DEF InSync
<1> QED
  BY <1>1, <1>2

\* A handler that ends before its commit, or is aborted, leaves no good verdict
\* behind if it has touched anything.
LEMMA ReturnFresh ==
    ASSUME TypeOK, Shapes, FreshFacts, AllSolo, NEW r \in Slot,
           \/ Return(r) /\ req[r].pc # "commit"
           \/ Goto(r, Blank) /\ Verdict([req[r] EXCEPT !.applied = FALSE]),
           UNCHANGED <<settings, gateway>>,
           \A o \in Org : Desired(o)' = Desired(o),
           \A s \in Slot : Kept(s) /\ req[s].pc \in {"apply", "commit"} => View(s)' = View(s)
    PROVE  AllSolo' /\ FreshFacts'
<1>1. req[r] \in Request
  BY DEF TypeOK
<1>2. fresh' = IF req[r].touched THEN [fresh EXCEPT ![req[r].org] = FALSE] ELSE fresh
  <2>1. CASE Return(r) /\ req[r].pc # "commit"
    <3>1. req[r].applied = FALSE
      BY <1>1, <2>1 DEF Shapes, Shape, Request
    <3>2. (req[r].applied /\ req[r].solo) = FALSE
      BY <3>1
    <3> QED
      BY <2>1, <3>2 DEF Return, Verdict
  <2>2. CASE Verdict([req[r] EXCEPT !.applied = FALSE])
    <3> DEFINE q == [req[r] EXCEPT !.applied = FALSE]
    <3>1. /\ q.applied = FALSE /\ q.touched = req[r].touched /\ q.org = req[r].org
      BY <1>1 DEF Request
    <3> HIDE DEF q
    <3>2. (q.applied /\ q.solo) = FALSE
      BY <3>1
    <3>3. Verdict(q)
      BY <2>2 DEF q
    <3> QED
      BY <3>1, <3>2, <3>3 DEF Verdict
  <2> QED
    BY <2>1, <2>2
<1>3. req'[r] = Blank /\ \A s \in Slot : s # r => Kept(s)
  BY BlankType, GotoKeeps DEF TypeOK, Return
<1>4. AllSolo'
  <2>1. ASSUME NEW s \in Slot, s # r PROVE SoloFacts(s)'
    BY <1>3, <2>1, SoloKept DEF AllSolo
  <2> QED
    BY <1>3, <2>1, BlankFacts DEF AllSolo
<1>5. \A o \in Org : fresh'[o] => fresh[o]
  BY <1>1, <1>2 DEF TypeOK, Request
<1>6. ASSUME NEW s \in Slot, Active(s), req[s].touched, fresh'[req[s].org]
      PROVE  Active(s)' /\ req'[s].touched /\ req'[s].org = req[s].org
  <2>1. s # r
    BY <1>1, <1>2, <1>6 DEF TypeOK, Request
  <2> QED
    BY <1>3, <1>6, <2>1 DEF Kept, Active
<1>7. FreshFacts'
  BY <1>5, <1>6, FreshSilent
<1> QED
  BY <1>4, <1>7

\* A step nobody can see.
LEMMA QuietStep ==
    ASSUME TypeOK, FreshFacts, AllSolo, NEW r \in Slot, NEW q \in Request, Goto(r, q),
           UNCHANGED <<status, latest, settings, gateway, fresh>>,
           Active(r) /\ req[r].touched =>
              q.pc # "idle" /\ q.touched /\ q.org = req[r].org,
           SoloFacts(r)'
    PROVE  AllSolo' /\ FreshFacts'
<1>1. req'[r] = q /\ \A s \in Slot : s # r => Kept(s)
  BY GotoKeeps DEF TypeOK
<1>2. ASSUME NEW s \in Slot, s # r PROVE SoloFacts(s)'
  BY <1>1, <1>2, SameView, SoloKept DEF AllSolo
<1>3. \A s \in Slot : Active(s) /\ req[s].touched =>
         Active(s)' /\ req'[s].touched /\ req'[s].org = req[s].org
  BY <1>1 DEF Kept, Active
<1>4. FreshFacts'
  BY <1>3, SameView, FreshSilent
<1> QED
  BY <1>2, <1>4 DEF AllSolo

\* A step the other requests of the organization can see.
LEMMA SeenStep ==
    ASSUME TypeOK, FreshFacts, AllSolo, NEW r \in Slot, NEW q \in Request, GotoSeen(r, q),
           Active(r), NEW h \in Org, req[r].org = h,
           \A s \in Slot : s # r /\ Kept(s) /\ Active(s) /\ ~Conflict(req[s], req[r]) =>
              /\ settings'[req[s].org] = settings[req[s].org]
              /\ req[s].pc \in {"apply", "commit"} => View(s)' = View(s)
              /\ req[s].pc = "commit" => gateway'[req[s].org] = gateway[req[s].org],
           \A o \in Org : o # h =>
              /\ Desired(o)' = Desired(o) /\ settings'[o] = settings[o]
              /\ gateway'[o] = gateway[o] /\ fresh'[o] = fresh[o],
           \/ q.pc # "idle" /\ q.touched /\ q.org = h
           \/ q.pc = "idle" /\ (fresh'[h] => InSync(h)'),
           SoloFacts(r)'
    PROVE  AllSolo' /\ FreshFacts'
<1>1. /\ req'[r] = q /\ \A s \in Slot : s # r => Kept(s)
      /\ \A s \in Slot : s # r /\ Active(s) /\ req'[s].solo => ~Conflict(req[s], req[r])
  BY GotoKeeps DEF TypeOK
<1>2. ASSUME NEW s \in Slot, s # r PROVE SoloFacts(s)'
  BY <1>1, <1>2, SoloKept DEF AllSolo
<1>3. FreshFacts'
  BY <1>1, FreshTouched DEF Active
<1> QED
  BY <1>2, <1>3 DEF AllSolo

\* A project that has no revision contributes nothing, whatever its status.
LEMMA EmptyProjectListed ==
    ASSUME NEW st, NEW la, NEW st2, NEW la2, NEW o, NEW m, NEW w, NEW p \in Project,
           la[p] = {}, p \notin m,
           \A x \in Project : la2[x] = la[x] /\ (x # p => st2[x] = st[x])
    PROVE  Listed(st2, la2, o, m, w) = Listed(st, la, o, m, w)
<1>1. \A x \in Project : OrgOf[x] = o =>
        Share(st2, la2, m, w, x) = Share(st, la, m, w, x)
  BY DEF Share
<1> QED
  BY <1>1, ListedSame

\* Inserting a project without a revision changes nobody's list.
LEMMA EmptyProjectView ==
    ASSUME TypeOK, Shapes, TablesInv, NEW p \in Project, status[p] = "free",
           \A x \in Project : latest'[x] = latest[x] /\ (x # p => status'[x] = status[x])
    PROVE  /\ \A s \in Slot : Kept(s) => View(s)' = View(s)
           /\ \A o \in Org : Desired(o)' = Desired(o)
<1>1. latest[p] = {}
  BY DEF TablesInv, RowsLive
<1>2. ASSUME NEW m, NEW w, NEW o, p \notin m
      PROVE  Listed(status', latest', o, m, w) = Listed(status, latest, o, m, w)
  BY <1>1, <1>2, EmptyProjectListed
<1>3. ASSUME NEW s \in Slot, InTx(s) PROVE p \notin req[s].project
  BY <1>3 DEF Shapes, Shape, InTx, TablesInv, TxNewest
<1>4. ASSUME NEW s \in Slot, Kept(s) PROVE View(s)' = View(s)
  <2>1. InTx(s)' = InTx(s)
    BY <1>4 DEF Kept, InTx
  <2> QED
    BY <1>2, <1>3, <1>4, <2>1, ViewListed DEF Kept
<1>5. ASSUME NEW o \in Org PROVE Desired(o)' = Desired(o)
  BY <1>2, ViewListed
<1> QED
  BY <1>4, <1>5

\* An open transaction's list holds its own row.
LEMMA OwnRowListed ==
    ASSUME TypeOK, Shapes, TablesInv, NEW r \in Slot, InTx(r)
    PROVE  View(r) # {}
<1>1. PICK n \in req[r].row : req[r].row = {n} /\ req[r].project = {n.project}
  BY DEF Shapes, Shape, InTx
<1>2. n \in Row /\ n.project \in Project /\ req[r].org = OrgOf[n.project]
  <2>1. n \in Row
    BY <1>1 DEF TypeOK, Request, Maybe
  <2> QED
    BY <1>1, <2>1 DEF Shapes, Shape, InTx, Row
<1>3. status[n.project] = "live"
  BY <1>1 DEF TablesInv, TxNewest
<1>4. n \in Listed(status, latest, req[r].org, req[r].project, req[r].row)
  BY <1>1, <1>2, <1>3 DEF Listed
<1> QED
  BY <1>4, ViewListed

\* The effect of a request on the projects p of its own organization leaves what
\* undisturbed requests have read alone.
LEMMA ProjectEffect ==
    ASSUME TypeOK, FreshFacts, AllSolo, NEW r \in Slot, NEW q, Continues(q, req[r]),
           GotoSeen(r, q), NEW p \in Project, req[r].org = OrgOf[p], Active(r),
           req[r].op # "put",
           \A x \in Project : x # p => status'[x] = status[x] /\ latest'[x] = latest[x],
           UNCHANGED <<settings, gateway, fresh>>,
           q.pc # "idle", q.touched, SoloFacts(r)'
    PROVE  AllSolo' /\ FreshFacts'
<1>1. q \in Request /\ q.org = OrgOf[p] /\ OrgOf[p] \in Org
  BY GatewaySyncAssumption DEF Continues
<1>2. ASSUME NEW s \in Slot, Kept(s), ~Conflict(req[s], req[r])
      PROVE  View(s)' = View(s)
  <2>1. req[s].org # OrgOf[p]
    BY <1>2 DEF Conflict
  <2> QED
    BY <1>2, <2>1, OtherOrg
<1>3. \A o \in Org : o # OrgOf[p] => Desired(o)' = Desired(o)
  BY OtherDesired
<1> QED
  BY <1>1, <1>2, <1>3, SeenStep

\* PostProject preserves the facts of the undisturbed and the good verdicts.
LEMMA PostProjectSolo ==
    ASSUME TypeOK, Shapes, TablesInv, Unborn, AllSolo, FreshFacts,
           NEW r \in Slot, NEW p \in Project, PostProject(r, p)
    PROVE  AllSolo' /\ FreshFacts'
<1>1. /\ req[r].op = "post" /\ req[r].pc = "store" /\ p \in req[r].project
      /\ UNCHANGED <<settings, gateway>>
  BY DEF PostProject
<1>2. status[p] = "free" /\ req[r].org = OrgOf[p]
  BY <1>1 DEF Unborn, Shapes, Shape
<1>3. CASE Return(r) /\ UNCHANGED latest
           /\ (status' = status \/ status' = [status EXCEPT ![p] = "live"])
  <2>2. \A x \in Project : latest'[x] = latest[x] /\ (x # p => status'[x] = status[x])
    BY <1>3 DEF TypeOK
  <2>3. /\ \A s \in Slot : Kept(s) => View(s)' = View(s)
        /\ \A o \in Org : Desired(o)' = Desired(o)
    BY <1>2, <2>2, EmptyProjectView
  <2> QED
    BY <1>1, <1>3, <2>3, ReturnFresh
<1>4. ASSUME NEW q, UNCHANGED fresh, Continues(q, req[r]),
             GotoSeen(r, q), q.pc = "list", q.touched, q.snap = req[r].snap,
             status' = [status EXCEPT ![p] = "live"],
             latest' = [latest EXCEPT ![p] = {NewRow(p, req[r].body)}]
      PROVE  AllSolo' /\ FreshFacts'
  <2>2. \A x \in Project : x # p => status'[x] = status[x] /\ latest'[x] = latest[x]
    BY <1>4 DEF TypeOK
  <2>3. req'[r] = q
    BY <1>4, GotoKeeps DEF TypeOK, Continues
  <2>4. SoloFacts(r)'
    BY <1>1, <1>4, <2>3, OwnFacts DEF AllSolo, SoloFacts, Continues
  <2> QED
    BY <1>1, <1>2, <1>4, <2>2, <2>4, ProjectEffect DEF Active
<1> QED
  BY <1>3, <1>4, PostProjectMoves

\* DeleteProject preserves the facts of the undisturbed and the good verdicts.
LEMMA DeleteProjectSolo ==
    ASSUME TypeOK, Shapes, AllSolo, FreshFacts,
           NEW r \in Slot, NEW p \in Project, DeleteProject(r, p)
    PROVE  AllSolo' /\ FreshFacts'
<1>1. /\ req[r].op = "delete" /\ req[r].pc = "store" /\ p \in req[r].project
      /\ UNCHANGED <<settings, gateway>>
  BY DEF DeleteProject, RemoveProject
<1>2. req[r].org = OrgOf[p]
  BY <1>1 DEF Shapes, Shape
<1>3. CASE UNCHANGED <<status, latest, event, revisions>> /\ Return(r)
  BY <1>1, <1>3, SameView, ReturnFresh
<1>4. ASSUME NEW q, UNCHANGED fresh, Continues(q, req[r]), GotoSeen(r, q),
             status' = [status EXCEPT ![p] = "gone"],
             latest' = [latest EXCEPT ![p] = {}],
             q.pc = "list", q.touched, q.snap = req[r].snap
      PROVE  AllSolo' /\ FreshFacts'
  <2>1. \A x \in Project : x # p => status'[x] = status[x] /\ latest'[x] = latest[x]
    BY <1>4 DEF TypeOK
  <2>2. req'[r] = q
    BY <1>4, GotoKeeps DEF TypeOK, Continues
  <2>3. SoloFacts(r)'
    BY <1>1, <1>4, <2>2, OwnFacts DEF AllSolo, SoloFacts, Continues
  <2> QED
    BY <1>1, <1>2, <1>4, <2>1, <2>3, ProjectEffect DEF Active
<1> QED
  BY <1>3, <1>4, DeleteProjectMoves

\* PutCommit publishes what an undisturbed request has already applied.
LEMMA PutCommitSolo ==
    ASSUME TypeOK, Shapes, TablesInv, AllSolo, FreshFacts,
           NEW r \in Slot, NEW p \in Project, PutCommit(r, p)
    PROVE  AllSolo' /\ FreshFacts'
<1>1. /\ req[r].op = "put" /\ req[r].pc = "commit" /\ req[r].project = {p}
      /\ req[r].org = OrgOf[p] /\ InTx(r) /\ Active(r)
      /\ latest' = [latest EXCEPT ![p] = req[r].row]
      /\ GotoSeen(r, Blank) /\ Verdict([req[r] EXCEPT !.touched = TRUE])
      /\ UNCHANGED <<status, settings, gateway>>
  BY DEF PutCommit, Shapes, Shape, InTx, Active
<1>2. OrgOf[p] \in Org /\ req[r] \in Request
  BY GatewaySyncAssumption DEF TypeOK
<1>3. fresh' = [fresh EXCEPT ![OrgOf[p]] = req[r].applied /\ req[r].solo]
  <2> DEFINE q == [req[r] EXCEPT !.touched = TRUE]
  <2>1. /\ q.touched /\ q.org = OrgOf[p] /\ q.applied = req[r].applied
        /\ q.solo = req[r].solo
    BY <1>1, <1>2 DEF Request
  <2>2. Verdict(q)
    BY <1>1
  <2> HIDE DEF q
  <2> QED
    BY <2>1, <2>2 DEF Verdict
<1>4. status[p] = "live"
  BY <1>1 DEF TablesInv, TxNewest, Shapes, Shape, InTx
<1>5. \A x \in Project : x # p => status'[x] = status[x] /\ latest'[x] = latest[x]
  BY <1>1 DEF TypeOK
<1>6. ASSUME NEW s \in Slot, s # r, Kept(s), Active(s), ~Conflict(req[s], req[r])
      PROVE  req[s].pc \in {"apply", "commit"} => View(s)' = View(s)
  <2>1. CASE req[s].org # OrgOf[p]
    BY <1>5, <1>6, <2>1, OtherOrg
  <2>2. CASE req[s].op = "put" /\ req[s].project = req[r].project
    <3>1. ~InTx(s)
      BY <1>1, <1>6, <2>2 DEF TablesInv, Exclusive
    <3> QED
      BY <2>2, <3>1 DEF InTx
  <2> QED
    BY <1>1, <1>6, <2>1, <2>2 DEF Conflict
<1>7. ASSUME NEW o \in Org, o # OrgOf[p]
      PROVE  Desired(o)' = Desired(o) /\ fresh'[o] = fresh[o]
  BY <1>3, <1>5, <1>7, OtherDesired DEF TypeOK
<1>8. Listed(status', latest', OrgOf[p], {}, {})
      = Listed(status, latest, OrgOf[p], {p}, req[r].row)
  <2>1. ASSUME NEW x \in Project
        PROVE  Share(status', latest', {}, {}, x) = Share(status, latest, {p}, req[r].row, x)
    BY <1>1 DEF Share, TypeOK
  <2> QED
    BY <2>1, ListedSame
<1>9. ASSUME fresh'[OrgOf[p]] PROVE InSync(OrgOf[p])'
  <2>1. req[r].applied /\ req[r].solo
    BY <1>2, <1>3, <1>9 DEF TypeOK
  <2>2. gateway[OrgOf[p]] = {[settings |-> settings[OrgOf[p]], rows |-> View(r)]}
    BY <1>1, <2>1 DEF AllSolo, SoloFacts
  <2>3. View(r) = Listed(status, latest, OrgOf[p], {p}, req[r].row)
    BY <1>1, ViewListed
  <2>4. Desired(OrgOf[p])' = View(r)
    BY <1>2, <1>8, <2>3, ViewListed
  <2> QED
    BY <1>1, <2>2, <2>4 DEF InSync
<1>10. SoloFacts(r)'
  BY <1>1, BlankType, BlankFacts, GotoKeeps DEF TypeOK
<1> QED
  BY <1>1, <1>2, <1>6, <1>7, <1>9, <1>10, BlankType, SeenStep

\* UpdateOrganization preserves the facts of the undisturbed and the good verdicts.
LEMMA UpdateOrganizationSolo ==
    ASSUME TypeOK, Shapes, AllSolo, FreshFacts, NEW r \in Slot, UpdateOrganization(r)
    PROVE  AllSolo' /\ FreshFacts'
<1>1. /\ req[r].op = "org" /\ req[r].pc = "store" /\ Active(r) /\ req[r] \in Request
      /\ UNCHANGED <<status, latest, gateway, fresh>> /\ ~req[r].touched
  BY DEF UpdateOrganization, Active, TypeOK, Shapes, Shape
<1>2. ASSUME NEW q, UNCHANGED settings, Continues(q, req[r]), Goto(r, q), q.pc = "list",
             q.touched = req[r].touched, q.snap = req[r].snap
      PROVE  AllSolo' /\ FreshFacts'
  <2>1. req'[r] = q
    BY <1>2, GotoKeeps DEF TypeOK, Continues
  <2>2. SoloFacts(r)'
    BY <1>1, <1>2, <2>1, OwnFacts DEF AllSolo, SoloFacts, Continues
  <2> QED
    BY <1>1, <1>2, <2>2, QuietStep DEF Continues
<1>3. ASSUME NEW q, Continues(q, req[r]), GotoSeen(r, q), q.pc = "list", q.touched,
             settings' = [settings EXCEPT ![req[r].org] = q.snap]
      PROVE  AllSolo' /\ FreshFacts'
  <2> DEFINE h == req[r].org
  <2>1. req'[r] = q /\ q \in Request /\ q.org = h /\ h \in Org
    BY <1>1, <1>3, GotoKeeps DEF TypeOK, Continues, Request
  <2>2. settings'[h] = q.snap /\ \A o \in Org : o # h => settings'[o] = settings[o]
    BY <1>3, <2>1 DEF TypeOK
  <2>3. SoloFacts(r)'
    BY <1>3, <2>1, <2>2, OwnFacts
  <2>4. ASSUME NEW s \in Slot, Kept(s), ~Conflict(req[s], req[r])
        PROVE  /\ settings'[req[s].org] = settings[req[s].org]
               /\ View(s)' = View(s) /\ gateway'[req[s].org] = gateway[req[s].org]
    <3>1. req[s].org \in Org /\ req[s].org # h
      BY <1>1, <2>4 DEF Conflict, TypeOK, Request
    <3> QED
      BY <1>1, <2>2, <2>4, <3>1, SameView
  <2> QED
    BY <1>1, <1>3, <2>1, <2>2, <2>3, <2>4, SameView, SeenStep
<1> QED
  BY <1>2, <1>3, UpdateOrganizationMoves

\* A successful Apply writes what its request has read, and leaves an undisturbed
\* request's organization in step.
LEMMA ApplyWriteSolo ==
    ASSUME TypeOK, Shapes, TablesInv, AllSolo, FreshFacts, NEW r \in Slot, NEW answered \in BOOLEAN, ApplyWrite(r, answered)
    PROVE  AllSolo' /\ FreshFacts'
<1> DEFINE g == IF req[r].any THEN {[settings |-> req[r].snap, rows |-> req[r].rows]}
                              ELSE {}
<1>1. /\ req[r].pc = "apply" /\ Active(r) /\ req[r] \in Request
      /\ UNCHANGED <<status, latest, settings>>
      /\ gateway' = [gateway EXCEPT ![req[r].org] = g]
  BY DEF ApplyWrite, Active, TypeOK
<1>2. PICK h \in Org : req[r].org = h
  BY <1>1 DEF Request
<1> HIDE DEF g
<1>3. gateway'[h] = g /\ \A o \in Org : o # h => gateway'[o] = gateway[o]
  BY <1>1, <1>2 DEF TypeOK
<1>4. ASSUME req[r].solo
      PROVE  \/ g = {[settings |-> settings[h], rows |-> View(r)]}
             \/ g = {} /\ View(r) = {}
  BY <1>1, <1>2, <1>4 DEF g, AllSolo, SoloFacts
<1>5. ASSUME NEW s \in Slot, s # r, Kept(s), ~Conflict(req[s], req[r])
      PROVE  /\ settings'[req[s].org] = settings[req[s].org]
             /\ View(s)' = View(s)
             /\ req[s].pc = "commit" => gateway'[req[s].org] = gateway[req[s].org]
  <2>1. req[s].org \in Org
    BY DEF TypeOK, Request
  <2>2. req[s].pc = "commit" => req[s].org # h
    <3>1. SUFFICES ASSUME req[s].pc = "commit", req[s].org = h PROVE FALSE
      OBVIOUS
    <3>2. req[s].op = "put" /\ req[r].op = "put" /\ req[s].project = req[r].project
      BY <1>2, <1>5, <3>1 DEF Conflict
    <3>3. InTx(s) /\ InTx(r)
      BY <1>1, <3>1, <3>2 DEF InTx
    <3> QED
      BY <1>5, <3>2, <3>3 DEF TablesInv, Exclusive
  <2>3. UNCHANGED settings
    BY <1>1
  <2> QED
    BY <1>1, <1>3, <1>5, <2>1, <2>2, <2>3, SameView
<1>6. CASE req[r].op = "put"
  <2>1. PICK q : /\ Continues(q, req[r]) /\ GotoSeen(r, q) /\ UNCHANGED fresh
                 /\ q.pc = "commit" /\ q.touched
                 /\ q.snap = req[r].snap /\ q.row = req[r].row
    BY <1>6, ApplyWriteMoves
  <2>2. req'[r] = q /\ q \in Request /\ q.org = h
    BY <1>2, <2>1, GotoKeeps DEF TypeOK, Continues
  <2>3. InTx(r) /\ InTx(r)'
    BY <1>1, <1>6, <2>1, <2>2 DEF InTx, Continues
  <2>4. View(r)' = View(r)
    BY <1>1, <2>1, <2>2, <2>3 DEF View, Summaries, ProjectsOf, Continues
  <2>5. View(r) # {}
    BY <2>3, OwnRowListed
  <2>6. SoloFacts(r)'
    <3>1. SUFFICES ASSUME q.solo
                   PROVE  /\ q.snap = settings'[h]
                          /\ gateway'[h] = {[settings |-> settings'[h], rows |-> View(r)']}
      BY <2>1, <2>2 DEF SoloFacts
    <3>2. req[r].solo /\ req[r].snap = settings[h]
      BY <1>1, <1>2, <2>1, <3>1 DEF Continues, AllSolo, SoloFacts
    <3>3. settings'[h] = settings[h]
      BY <1>1
    <3>4. g = {[settings |-> settings[h], rows |-> View(r)]}
      BY <1>4, <2>5, <3>2
    <3> QED
      BY <1>3, <2>1, <2>4, <3>2, <3>3, <3>4
  <2> QED
    BY <1>1, <1>2, <1>3, <1>5, <2>1, <2>2, <2>6, SameView, SeenStep
<1>7. CASE req[r].op # "put"
  <2>1. /\ GotoSeen(r, Blank) /\ fresh' = [fresh EXCEPT ![h] = answered /\ req[r].solo]
    BY <1>2, <1>7, ApplyWriteMoves
  <2>2. req'[r] = Blank /\ Blank \in Request /\ Blank.pc = "idle"
    BY <2>1, BlankType, GotoKeeps DEF TypeOK
  <2>3. fresh'[h] = (answered /\ req[r].solo) /\ \A o \in Org : o # h => fresh'[o] = fresh[o]
    BY <2>1 DEF TypeOK
  <2>4. View(r) = Desired(h) /\ Desired(h)' = Desired(h)
    BY <1>1, <1>2, <1>7, SameView, ViewListed DEF InTx
  <2>5. ASSUME fresh'[h] PROVE InSync(h)'
    <3>1. \/ g = {[settings |-> settings[h], rows |-> Desired(h)]}
          \/ g = {} /\ Desired(h) = {}
      BY <1>4, <2>3, <2>4, <2>5
    <3>2. settings'[h] = settings[h]
      BY <1>1
    <3> QED
      BY <1>3, <2>4, <3>1, <3>2 DEF InSync
  <2>6. SoloFacts(r)'
    BY <2>2, BlankFacts
  <2> QED
    BY <1>1, <1>2, <1>3, <1>5, <2>1, <2>2, <2>3, <2>5, <2>6, SameView, SeenStep
<1> QED
  BY <1>6, <1>7

\* Every step preserves the facts of the undisturbed and the good verdicts.
LEMMA SoloStep ==
    ASSUME TypeOK, Shapes, TablesInv, Unborn, AllSolo, FreshFacts, [Next]_vars
    PROVE  AllSolo' /\ FreshFacts'
<1>a. ASSUME NEW r \in Slot
      PROVE  req[r] \in Request /\ Shape(req[r]) /\ SoloFacts(r)
  BY DEF TypeOK, Shapes, AllSolo
<1>n. ASSUME NEW r \in Slot, NEW q, Goto(r, q), q \in Request, q.solo,
             ~Active(r), UNCHANGED <<status, latest, settings, gateway, fresh>>,
             q.pc \in {"summary", "store"},
             q.pc = "store" => q.snap = settings[q.org]
      PROVE  AllSolo' /\ FreshFacts'
  <2>1. req'[r] = q
    BY <1>n, GotoKeeps DEF TypeOK
  <2>2. SoloFacts(r)'
    BY <1>n, <2>1, OwnFacts
  <2> QED
    BY <1>n, <2>2, QuietStep
<1>m. ASSUME NEW r \in Slot, NEW q, Continues(q, req[r]), Goto(r, q),
             UNCHANGED <<status, latest, settings, gateway, fresh>>,
             q.pc # "idle", q.touched = req[r].touched,
             q.solo => \/ q.pc \in {"store", "list"} /\ q.snap = settings[q.org]
                       \/ q.pc = "commit" /\ ~q.applied /\ q.snap = settings[q.org]
      PROVE  AllSolo' /\ FreshFacts'
  <2>1. req'[r] = q
    BY <1>m, GotoKeeps DEF TypeOK, Continues
  <2>2. SoloFacts(r)'
    BY <1>m, <2>1, OwnFacts
  <2> QED
    BY <1>m, <2>2, QuietStep DEF Continues
<1>1. ASSUME NEW r \in Slot, NEW p \in Project, NEW url \in Maybe(Url),
             BeginPost(r, p, url)
      PROVE  AllSolo' /\ FreshFacts'
  <2>1. ~Active(r) /\ UNCHANGED <<status, latest, settings, gateway, fresh>>
    BY <1>1 DEF BeginPost
  <2> QED
    BY <1>1, <1>n, <2>1, BeginPostMoves DEF Starts
<1>2. ASSUME NEW r \in Slot, NEW p \in Project, NEW b \in Bodies, BeginPut(r, p, b)
      PROVE  AllSolo' /\ FreshFacts'
  <2>1. ~Active(r) /\ UNCHANGED <<status, latest, settings, gateway, fresh>>
    BY <1>2 DEF BeginPut
  <2>2. PICK q : Starts(q, "put", OrgOf[p]) /\ Goto(r, q) /\ q.pc = "summary"
    BY <1>2, BeginPutMoves
  <2> QED
    BY <1>n, <2>1, <2>2 DEF Starts
<1>3. ASSUME NEW r \in Slot, NEW p \in Project, BeginDelete(r, p)
      PROVE  AllSolo' /\ FreshFacts'
  <2>1. ~Active(r) /\ UNCHANGED <<status, latest, settings, gateway, fresh>>
    BY <1>3 DEF BeginDelete
  <2>2. PICK q : Starts(q, "delete", OrgOf[p]) /\ Goto(r, q) /\ q.pc = "summary"
    BY <1>3, BeginDeleteMoves
  <2> QED
    BY <1>n, <2>1, <2>2 DEF Starts
<1>4. ASSUME NEW r \in Slot, NEW o \in Org, NEW c \in Changes, BeginOrg(r, o, c)
      PROVE  AllSolo' /\ FreshFacts'
  <2>1. ~Active(r) /\ UNCHANGED <<status, latest, settings, gateway, fresh>>
    BY <1>4 DEF BeginOrg
  <2> QED
    BY <1>4, <1>n, <2>1, BeginOrgMoves DEF Starts
<1>5. ASSUME NEW r \in Slot, NEW p \in Project, PutSummary(r, p)
      PROVE  AllSolo' /\ FreshFacts'
  <2>1. req[r].pc = "summary" /\ UNCHANGED <<status, latest, settings, gateway>>
    BY <1>5 DEF PutSummary
  <2>2. CASE Return(r)
    BY <2>1, <2>2, SameView, ReturnFresh
  <2>3. ASSUME NEW q, UNCHANGED fresh, Continues(q, req[r]), Goto(r, q), q.pc = "store",
               q.touched = req[r].touched, q.snap = settings[req[r].org]
        PROVE  AllSolo' /\ FreshFacts'
    BY <1>m, <2>1, <2>3 DEF Continues
  <2> QED
    BY <1>5, <2>2, <2>3, PutSummaryMoves
<1>6. ASSUME NEW r \in Slot, NEW p \in Project, PutRevision(r, p)
      PROVE  AllSolo' /\ FreshFacts'
  <2>1. req[r].pc = "store" /\ UNCHANGED <<status, latest, settings, gateway>>
    BY <1>6 DEF PutRevision, StoreRevision
  <2>2. CASE Return(r)
    BY <2>1, <2>2, SameView, ReturnFresh
  <2>3. ASSUME NEW q, UNCHANGED fresh, Continues(q, req[r]), Goto(r, q), q.pc = "list",
               q.touched = req[r].touched, q.snap = req[r].snap
        PROVE  AllSolo' /\ FreshFacts'
    BY <1>a, <1>m, <2>1, <2>3 DEF Continues, SoloFacts
  <2> QED
    BY <1>6, <2>2, <2>3, PutRevisionMoves
<1>7. ASSUME NEW r \in Slot, NEW p \in Project, DeleteSummary(r, p)
      PROVE  AllSolo' /\ FreshFacts'
  <2>1. req[r].pc = "summary" /\ UNCHANGED <<status, latest, settings, gateway>>
    BY <1>7 DEF DeleteSummary
  <2>2. CASE Return(r)
    BY <2>1, <2>2, SameView, ReturnFresh
  <2>3. ASSUME NEW q, UNCHANGED fresh, Continues(q, req[r]), Goto(r, q), q.pc = "store",
               q.touched = req[r].touched, q.snap = settings[req[r].org]
        PROVE  AllSolo' /\ FreshFacts'
    BY <1>m, <2>1, <2>3 DEF Continues
  <2> QED
    BY <1>7, <2>2, <2>3, DeleteSummaryMoves
<1>8. ASSUME NEW r \in Slot, ApplyList(r)
      PROVE  AllSolo' /\ FreshFacts'
  <2>1. req[r].pc = "list" /\ UNCHANGED <<status, latest, settings, gateway, fresh>>
    BY <1>8 DEF ApplyList
  <2>2. PICK q : /\ Continues(q, req[r]) /\ Goto(r, q)
                 /\ q.pc = "apply" /\ q.touched = req[r].touched
                 /\ q.snap = req[r].snap /\ q.row = req[r].row
                 /\ q.rows = View(r) /\ q.any = (ProjectsOf(req[r].org) # {})
    BY <1>8, ApplyListMoves
  <2>3. req'[r] = q /\ q \in Request
    BY <2>2, GotoKeeps DEF TypeOK, Continues
  <2>4. InTx(r)' <=> InTx(r)
    BY <2>1, <2>2, <2>3 DEF InTx, Continues
  <2>5. View(r)' = View(r)
    <3>1. /\ req'[r].org = req[r].org /\ req'[r].project = req[r].project
          /\ req'[r].row = req[r].row
      BY <2>2, <2>3 DEF Continues
    <3>2. CASE InTx(r)
      BY <2>1, <2>4, <3>1, <3>2 DEF View, Summaries, ProjectsOf
    <3>3. CASE ~InTx(r)
      BY <2>1, <2>4, <3>1, <3>3 DEF View, Summaries, ProjectsOf
    <3> QED
      BY <3>2, <3>3
  <2>6. ~q.any => View(r) = {}
    BY <2>2 DEF View, Summaries
  <2>7. q.solo => q.snap = settings'[q.org]
    BY <1>a, <2>1, <2>2 DEF SoloFacts, Continues
  <2>8. SoloFacts(r)'
    BY <2>2, <2>3, <2>5, <2>6, <2>7 DEF SoloFacts
  <2> QED
    BY <2>1, <2>2, <2>3, <2>8, QuietStep DEF Continues
<1>9. ASSUME NEW r \in Slot, ApplyFails(r)
      PROVE  AllSolo' /\ FreshFacts'
  <2>1. req[r].pc = "apply" /\ UNCHANGED <<status, latest, settings, gateway>>
    BY <1>9 DEF ApplyFails
  <2>2. CASE Return(r)
    BY <2>1, <2>2, SameView, ReturnFresh
  <2>3. ASSUME NEW q, UNCHANGED fresh, Continues(q, req[r]), Goto(r, q), q.pc = "commit",
               q.touched = req[r].touched, q.snap = req[r].snap, q.applied = req[r].applied
        PROVE  AllSolo' /\ FreshFacts'
    <3>1. ~q.applied
      BY <1>a, <2>1, <2>3 DEF Shape
    <3> QED
      BY <1>a, <1>m, <2>1, <2>3, <3>1 DEF Continues, SoloFacts
  <2> QED
    BY <1>9, <2>2, <2>3, ApplyFailsMoves
<1>10. ASSUME NEW r \in Slot, Abort(r)
       PROVE  AllSolo' /\ FreshFacts'
  <2>1. /\ Goto(r, Blank) /\ Verdict([req[r] EXCEPT !.applied = FALSE])
        /\ UNCHANGED <<status, latest, settings, gateway>>
    BY <1>10 DEF Abort
  <2> QED
    BY <2>1, SameView, ReturnFresh
<1>11. ASSUME UNCHANGED <<status, latest, settings, gateway, fresh, req>>
       PROVE  AllSolo' /\ FreshFacts'
  <2>1. \A s \in Slot : Kept(s)
    BY <1>11 DEF Kept
  <2>2. AllSolo'
    BY <1>11, <2>1, SameView, SoloKept DEF AllSolo
  <2>3. FreshFacts'
    BY <1>11, SameView, FreshSilent DEF Active
  <2> QED
    BY <2>2, <2>3
<1>12. ASSUME NEW o \in Org, Sync(o)
       PROVE  AllSolo' /\ FreshFacts'
  BY <1>11, <1>12 DEF Sync
<1>13. CASE UNCHANGED vars
  BY <1>11, <1>13 DEF vars
<1> QED
  BY <1>1, <1>2, <1>3, <1>4, <1>5, <1>6, <1>7, <1>8, <1>9, <1>10, <1>12, <1>13,
     PostProjectSolo, PutCommitSolo, DeleteProjectSolo, UpdateOrganizationSolo,
     ApplyWriteSolo DEF Next, Arrive, Handle

-----------------------------------------------------------------------------
(* The theorems *)

\* Initially the tables are empty, nobody is working and the verdicts are good.
LEMMA InitInv == Init => Inv
<1> SUFFICES ASSUME Init PROVE Inv
  OBVIOUS
<1>1. TypeOK /\ Shapes
  BY InitType
<1>2. \A r \in Slot : req[r].pc = "idle" /\ ~req[r].solo /\ req[r].op = "org"
  BY DEF Init, Blank
<1>3. RowsLive /\ LatestIsNewest /\ HostedHasEvent
  BY DEF Init, RowsLive, LatestIsNewest, HostedHasEvent
<1>4. TxNewest /\ Exclusive /\ Unborn /\ \A r \in Slot : SoloFacts(r)
  BY <1>2 DEF TxNewest, Exclusive, Unborn, SoloFacts, InTx
<1>5. FreshFacts
  <2>1. \A o \in Org : gateway[o] = {} /\ Desired(o) = {}
    BY DEF Init, Desired, Summaries, ProjectsOf
  <2> QED
    BY <2>1 DEF FreshFacts, InSync
<1> QED
  BY <1>1, <1>3, <1>4, <1>5 DEF Inv

\* The inductive invariant: what the handlers' local variables, the tables, the
\* row locks and the gateways satisfy between any two steps, whatever requests
\* overlap, fail or die.
THEOREM Invariance == Spec => []Inv
<1>1. Inv /\ [Next]_vars => Inv'
  <2> SUFFICES ASSUME Inv, [Next]_vars PROVE Inv'
    OBVIOUS
  <2>1. TypeOK /\ Shapes /\ TablesInv /\ Unborn /\ AllSolo /\ FreshFacts
    BY DEF Inv, TablesInv, AllSolo
  <2>2. TypeOK' /\ Shapes'
    BY <2>1, TypeStep, ShapesStep
  <2>3. TablesInv' /\ Unborn'
    BY <2>1, TablesStep
  <2>4. AllSolo' /\ FreshFacts'
    BY <2>1, SoloStep
  <2> QED
    BY <2>2, <2>3, <2>4 DEF Inv, TablesInv, AllSolo
<1> QED
  BY <1>1, InitInv, PTL DEF Spec

\* One undisturbed request with a successful Apply is enough: if the last request
\* that touched an organization was such a request, its MCPGateway agrees with
\* the database whenever the organization is idle.
THEOREM FreshGateways == Spec => []FreshInSync
<1>1. Inv => FreshInSync
  BY DEF Inv, FreshFacts, FreshInSync, Idle
<1> QED
  BY <1>1, Invariance, PTL

\* Project.latest_deployment_revision_id is the project's newest revision, however
\* settings updates and deletions overlap.
THEOREM PointersNewest == Spec => []LatestIsNewest
<1>1. Inv => LatestIsNewest
  BY DEF Inv
<1> QED
  BY <1>1, Invariance, PTL

\* A hosted latest revision has its event, and no event outlives its revision.
THEOREM EventsFollow == Spec => []HostedHasEvent
<1>1. Inv => HostedHasEvent
  BY DEF Inv
<1> QED
  BY <1>1, Invariance, PTL
=============================================================================
