-------------------------- MODULE MembershipProofs --------------------------
(* Proofs about Membership, for any sets of people, organizations and slots. *)
EXTENDS Membership, TLAPS

\* Who asks for what stays the same.
Carried(r) ==
    /\ req'[r].op = req[r].op /\ req'[r].by = req[r].by
    /\ req'[r].org = req[r].org /\ req'[r].whom = req[r].whom

\* The step changes the local variables of slot r only.
Only(r) ==
    /\ req' \in [Slot -> Request]
    /\ \A s \in Slot : s # r => req'[s] = req[s]

\* A step of a slot changes the local variables of that slot only.
LEMMA GotoOnly ==
    ASSUME TypeOK, NEW r \in Slot, NEW q \in Request, Goto(r, q)
    PROVE  Only(r) /\ req'[r] = q
  BY DEF TypeOK, Goto, Only

\* An idle slot is well typed.
LEMMA BlankRequest == Blank \in Request
  BY DEF Blank, Request

\* A handler that returns leaves its slot idle.
LEMMA ReturnOnly ==
    ASSUME TypeOK, NEW r \in Slot, Return(r)
    PROVE  Only(r) /\ req'[r] = Blank
  BY GotoOnly, BlankRequest DEF Return

-----------------------------------------------------------------------------
\* Arrive: what it does to its slot.
LEMMA ArriveMoves ==
    ASSUME TypeOK, NEW r \in Slot, NEW s \in Spelling, NEW w \in Spelling, NEW o \in Org,
           NEW op \in {"other", "create", "invite", "remove"}, Arrive(r, s, op, o, w)
    PROVE  /\ Only(r)
           /\ req[r].pc = "idle" /\ req'[r].pc = "auth"
           /\ Single(req'[r].by)
           /\ req'[r].op # "other" => Single(req'[r].org)
           /\ req'[r].op \in {"invite", "remove"} => Single(req'[r].whom)
           /\ req'[r].seen => req'[r].by \subseteq accounts
           /\ req'[r].row = {} /\ ~req'[r].joins
  <1> DEFINE q == [Blank EXCEPT !.pc = "auth", !.op = op, !.by = {Lower[s]},
                             !.org = IF op = "other" THEN {} ELSE {o},
                             !.whom = IF op \in {"invite", "remove"} THEN {Lower[w]}
                                                                     ELSE {},
                             !.seen = Lower[s] \in accounts]
  <1>1. Lower[s] \in Email /\ Lower[w] \in Email /\ (Lower[s] \in accounts) \in BOOLEAN
    BY MembershipAssumption
  <1>2. q \in Request
    BY <1>1, BlankRequest DEF Request
  <1>3. Only(r) /\ req'[r] = q
    BY <1>2, GotoOnly DEF Arrive
  <1>4. /\ q.pc = "auth" /\ q.op = op /\ q.by = {Lower[s]} /\ q.row = {} /\ ~q.joins
        /\ q.org = (IF op = "other" THEN {} ELSE {o})
        /\ q.whom = (IF op \in {"invite", "remove"} THEN {Lower[w]} ELSE {})
        /\ q.seen = (Lower[s] \in accounts)
    BY DEF Blank
  <1> HIDE DEF q
  <1>5. req[r].pc = "idle"
    BY DEF Arrive, Active
  <1>6. QED
    BY <1>1, <1>3, <1>4, <1>5 DEF Single

\* Arrive preserves the invariant.
LEMMA ArriveKeeps ==
    ASSUME Inv, NEW r \in Slot, NEW s \in Spelling, NEW w \in Spelling, NEW o \in Org,
           NEW op \in {"other", "create", "invite", "remove"}, Arrive(r, s, op, o, w)
    PROVE  Inv'
  <1>0. TypeOK
    BY DEF Inv
  <1>m. /\ Only(r)
        /\ req[r].pc = "idle" /\ req'[r].pc = "auth"
        /\ Single(req'[r].by)
        /\ req'[r].op # "other" => Single(req'[r].org)
        /\ req'[r].op \in {"invite", "remove"} => Single(req'[r].whom)
        /\ req'[r].seen => req'[r].by \subseteq accounts
        /\ req'[r].row = {} /\ ~req'[r].joins
    BY <1>0, ArriveMoves
  <1>1. TypeOK'
    BY <1>0, <1>m DEF TypeOK, Arrive, Only
  <1>2. Shapes'
    BY <1>0, <1>m DEF Inv, Shapes, Arrive, Only, Shape, Single, Carried
  <1>3. AccountFacts'
    BY <1>0, <1>m DEF Inv, AccountFacts, Arrive, Only, Shapes, Shape, Single, Carried, AccountPending
  <1>4. MemberFacts'
    BY <1>0, <1>m DEF Inv, MemberFacts, Arrive, Only, AccountFacts, Shapes, Shape, Single, Carried, MembersOf
  <1>5. SoleRemoval'
    BY <1>0, <1>m DEF Inv, SoleRemoval, Arrive, Only, Removing, MembersOf, Shapes, Shape, Single, Carried
  <1>6. Creations'
    BY <1>0, <1>m DEF Inv, Creations, Arrive, Only, MemberFacts, Shapes, Shape, Single, Carried
  <1>7. KeepsMember'
    BY <1>0, <1>m DEF Inv, KeepsMember, Arrive, Only, MembersOf, SoleRemoval, Removing, Shapes, Shape, Single
  <1>8. NoGhostAccount'
    BY <1>0, <1>m DEF Inv, NoGhostAccount, Arrive, Only, AccountFacts, Shapes, Shape, Single
  <1>9. QED
    BY <1>1, <1>2, <1>3, <1>4, <1>5, <1>6, <1>7, <1>8 DEF Inv

-----------------------------------------------------------------------------
\* Authenticate: what it does to its slot.
LEMMA AuthenticateMoves ==
    ASSUME TypeOK, NEW r \in Slot, NEW e \in Email, Authenticate(r, e)
    PROVE  /\ Only(r)
           /\ req[r].pc = "auth" /\ req[r].by = {e} /\ ~AccountPending(r, e)
           /\ \/ req'[r] = Blank
              \/ /\ req[r].op # "other" /\ Carried(r)
                 /\ req'[r].pc = (IF req[r].op = "create" THEN "create" ELSE "access")
                 /\ req'[r].row = req[r].row /\ req'[r].joins = req[r].joins
                 /\ entered' = entered \cup {e} /\ accounts' = accounts \cup {e}
  BY GotoOnly, ReturnOnly DEF Authenticate, Goto, Return, Blank, Request, TypeOK, Only, Carried, Admitted

\* Authenticate preserves the invariant.
LEMMA AuthenticateKeeps ==
    ASSUME Inv, NEW r \in Slot, NEW e \in Email, Authenticate(r, e)
    PROVE  Inv'
  <1>0. TypeOK
    BY DEF Inv
  <1>m. /\ Only(r)
        /\ req[r].pc = "auth" /\ req[r].by = {e} /\ ~AccountPending(r, e)
        /\ \/ req'[r] = Blank
           \/ /\ req[r].op # "other" /\ Carried(r)
              /\ req'[r].pc = (IF req[r].op = "create" THEN "create" ELSE "access")
              /\ req'[r].row = req[r].row /\ req'[r].joins = req[r].joins
              /\ entered' = entered \cup {e} /\ accounts' = accounts \cup {e}
    BY <1>0, AuthenticateMoves
  <1>1. TypeOK'
    BY <1>0, <1>m DEF TypeOK, Authenticate, Only, Blank
  <1>2. Shapes'
    <2>1. req[r].op # "create" => req[r].op = "other" \/ req[r].op \in {"invite", "remove"}
      BY <1>0 DEF TypeOK, Request
    <2>2. Shape(req'[r])
      BY <1>0, <1>m, <2>1 DEF Inv, Shapes, Shape, Single, Carried, Blank
    <2>3. QED
      BY <1>m, <2>2 DEF Inv, Shapes, Only
  <1>3. AccountFacts'
    BY <1>0, <1>m DEF Inv, AccountFacts, Authenticate, Only, Blank, Shapes, Shape, Single, Carried, AccountPending
  <1>4. MemberFacts'
    BY <1>0, <1>m DEF Inv, MemberFacts, Authenticate, Only, Blank, AccountFacts, Shapes, Shape, Single, Carried, MembersOf
  <1>5. SoleRemoval'
    BY <1>0, <1>m DEF Inv, SoleRemoval, Authenticate, Only, Blank, Removing, MembersOf, Shapes, Shape, Single, Carried
  <1>6. Creations'
    BY <1>0, <1>m DEF Inv, Creations, Authenticate, Only, Blank, MemberFacts, Shapes, Shape, Single, Carried
  <1>7. KeepsMember'
    BY DEF Inv, KeepsMember, Authenticate, MembersOf
  <1>8. NoGhostAccount'
    BY <1>0, <1>m DEF Inv, NoGhostAccount, Authenticate, Only, Blank, AccountFacts, Shapes, Shape, Single
  <1>9. QED
    BY <1>1, <1>2, <1>3, <1>4, <1>5, <1>6, <1>7, <1>8 DEF Inv

-----------------------------------------------------------------------------
\* CreateOrganization: what it does to its slot.
LEMMA CreateOrganizationMoves ==
    ASSUME TypeOK, NEW r \in Slot, NEW o \in Org, CreateOrganization(r, o)
    PROVE  /\ Only(r)
           /\ req[r].pc = "create" /\ req[r].org = {o}
           /\ \/ req'[r] = Blank
              \/ /\ o \notin orgs /\ Carried(r) /\ req'[r].pc = "owner"
                 /\ req'[r].row = req[r].row /\ req'[r].joins = req[r].joins
  BY GotoOnly, ReturnOnly DEF CreateOrganization, Goto, Return, Blank, Request, TypeOK, Only, Carried

\* CreateOrganization preserves the invariant.
LEMMA CreateOrganizationKeeps ==
    ASSUME Inv, NEW r \in Slot, NEW o \in Org, CreateOrganization(r, o)
    PROVE  Inv'
  <1>0. TypeOK
    BY DEF Inv
  <1>m. /\ Only(r)
        /\ req[r].pc = "create" /\ req[r].org = {o}
        /\ \/ req'[r] = Blank
           \/ /\ o \notin orgs /\ Carried(r) /\ req'[r].pc = "owner"
              /\ req'[r].row = req[r].row /\ req'[r].joins = req[r].joins
    BY <1>0, CreateOrganizationMoves
  <1>1. TypeOK'
    BY <1>0, <1>m DEF TypeOK, CreateOrganization, Only, Blank
  <1>2. Shapes'
    BY <1>0, <1>m DEF Inv, Shapes, CreateOrganization, Only, Blank, Shape, Single, Carried
  <1>3. AccountFacts'
    BY <1>0, <1>m DEF Inv, AccountFacts, CreateOrganization, Only, Blank, Shapes, Shape, Single, Carried, AccountPending
  <1>4. MemberFacts'
    BY <1>0, <1>m DEF Inv, MemberFacts, CreateOrganization, Only, Blank, AccountFacts, Shapes, Shape, Single, Carried, MembersOf
  <1>5. SoleRemoval'
    BY <1>0, <1>m DEF Inv, SoleRemoval, CreateOrganization, Only, Blank, Removing, MembersOf, Shapes, Shape, Single, Carried
  <1>6. Creations'
    BY <1>0, <1>m DEF Inv, Creations, CreateOrganization, Only, Blank, MemberFacts, Shapes, Shape, Single, Carried
  <1>7. KeepsMember'
    BY DEF Inv, KeepsMember, CreateOrganization, MembersOf
  <1>8. NoGhostAccount'
    BY <1>0, <1>m DEF Inv, NoGhostAccount, CreateOrganization, Only, Blank, AccountFacts, Shapes, Shape, Single
  <1>9. QED
    BY <1>1, <1>2, <1>3, <1>4, <1>5, <1>6, <1>7, <1>8 DEF Inv

-----------------------------------------------------------------------------
\* AddOwner: what it does to its slot.
LEMMA AddOwnerMoves ==
    ASSUME TypeOK, NEW r \in Slot, NEW o \in Org, AddOwner(r, o)
    PROVE  /\ Only(r)
           /\ req[r].pc = "owner" /\ req[r].org = {o} /\ req'[r] = Blank
  BY GotoOnly, ReturnOnly DEF AddOwner, Goto, Return, Blank, Request, TypeOK, Only, Carried

\* AddOwner preserves the invariant.
LEMMA AddOwnerKeeps ==
    ASSUME Inv, NEW r \in Slot, NEW o \in Org, AddOwner(r, o)
    PROVE  Inv'
  <1>0. TypeOK
    BY DEF Inv
  <1>m. /\ Only(r)
        /\ req[r].pc = "owner" /\ req[r].org = {o} /\ req'[r] = Blank
    BY <1>0, AddOwnerMoves
  <1>a. PICK x \in Email : req[r].by = {x}
    BY <1>0, <1>m DEF Inv, Shapes, Shape, Single, TypeOK, Request
  <1>b. members' = members \cup {<<o, x>>} /\ founded' = founded \cup {o}
    BY <1>a DEF AddOwner
  <1>c. x \in entered
    BY <1>a, <1>m DEF Inv, AccountFacts
  <1>1. TypeOK'
    BY <1>0, <1>m, <1>b DEF TypeOK, AddOwner, Only
  <1>2. Shapes'
    BY <1>0, <1>m DEF Inv, Shapes, AddOwner, Only, Blank, Shape, Single, Carried
  <1>3. AccountFacts'
    BY <1>0, <1>m DEF Inv, AccountFacts, AddOwner, Only, Blank, Shapes, Shape, Single, Carried, AccountPending
  <1>4. MemberFacts'
    <2>1. o \in orgs
      BY <1>m DEF Inv, Creations
    <2>2. QED
      BY <1>m, <1>b, <1>c, <2>1 DEF Inv, MemberFacts, AddOwner, Only, Blank
  <1>5. SoleRemoval'
    BY <1>0, <1>m DEF Inv, SoleRemoval, AddOwner, Only, Blank, Removing, MembersOf, Shapes, Shape, Single, Carried
  <1>6. Creations'
    <2>1. ASSUME NEW s \in Slot, s # r, req[s].pc = "owner" PROVE o \notin req[s].org
      <3>1. PICK h : req[s].org = {h}
        BY <2>1 DEF Inv, Shapes, Shape, Single
      <3>2. req[s].org # req[r].org
        BY <2>1, <1>m DEF Inv, Creations
      <3>3. QED
        BY <3>1, <3>2, <1>m
    <2>2. orgs' = orgs
      BY DEF AddOwner
    <2>3. QED
      BY <1>m, <1>b, <2>1, <2>2 DEF Inv, Creations, Only, Blank
  <1>7. KeepsMember'
    <2>1. x \in MembersOf(o)'
      BY <1>b DEF MembersOf
    <2>2. \A h \in Org : MembersOf(h) \subseteq MembersOf(h)'
      BY <1>b DEF MembersOf
    <2>3. overlapped' = overlapped
      BY DEF AddOwner
    <2>4. founded \subseteq Org
      BY <1>0 DEF TypeOK
    <2>5. ASSUME NEW h \in founded' \ overlapped' PROVE MembersOf(h)' # {}
      <3>1. CASE h = o
        BY <3>1, <2>1
      <3>2. CASE h # o
        BY <3>2, <1>b, <2>2, <2>3, <2>4, <2>5 DEF Inv, KeepsMember
      <3>3. QED
        BY <3>1, <3>2
    <2>6. QED
      BY <2>5 DEF KeepsMember
  <1>8. NoGhostAccount'
    BY <1>0, <1>m DEF Inv, NoGhostAccount, AddOwner, Only, Blank, AccountFacts, Shapes, Shape, Single
  <1>9. QED
    BY <1>1, <1>2, <1>3, <1>4, <1>5, <1>6, <1>7, <1>8 DEF Inv

-----------------------------------------------------------------------------
\* Access: what it does to its slot.
LEMMA AccessMoves ==
    ASSUME Inv, NEW r \in Slot, NEW o \in Org, Access(r, o)
    PROVE  /\ Only(r)
           /\ req[r].pc = "access" /\ req[r].org = {o}
           /\ \/ /\ req'[r] = Blank
                 /\ UNCHANGED overlapped
              \/ /\ req[r].by \subseteq MembersOf(o)
                 /\ req[r].op = "remove" => req[r].whom # req[r].by
                 /\ Carried(r) /\ req'[r].pc = req[r].op
                 /\ req'[r].row = req[r].row /\ req'[r].joins = req[r].joins
  <1> DEFINE q == [req[r] EXCEPT !.pc = req[r].op]
  <1>0. TypeOK
    BY DEF Inv
  <1>1. req[r] \in Request /\ req[r].pc = "access" /\ req[r].org = {o}
    BY <1>0 DEF TypeOK, Access
  <1>2. CASE Goto(r, q) /\ req[r].by \subseteq MembersOf(o)
             /\ (req[r].op = "remove" => req[r].whom # req[r].by)
    <2>1. CASE req[r].op \in {"invite", "remove"}
      <3>1. q \in Request
        BY <1>1, <2>1 DEF Request
      <3>2. Only(r) /\ req'[r] = q
        BY <1>0, <1>2, <3>1, GotoOnly
      <3>3. QED
        BY <1>1, <1>2, <3>2 DEF Carried, Request
    <2>2. QED
      BY <1>1, <2>1 DEF Inv, Shapes, Shape
  <1>3. CASE Return(r) /\ UNCHANGED overlapped
    BY <1>0, <1>1, <1>3, ReturnOnly
  <1>4. QED
    BY <1>2, <1>3 DEF Access

\* Access preserves the invariant.
LEMMA AccessKeeps ==
    ASSUME Inv, NEW r \in Slot, NEW o \in Org, Access(r, o)
    PROVE  Inv'
  <1>0. TypeOK
    BY DEF Inv
  <1>m. /\ Only(r)
        /\ req[r].pc = "access" /\ req[r].org = {o}
        /\ \/ /\ req'[r] = Blank
              /\ UNCHANGED overlapped
           \/ /\ req[r].by \subseteq MembersOf(o)
              /\ req[r].op = "remove" => req[r].whom # req[r].by
              /\ Carried(r) /\ req'[r].pc = req[r].op
              /\ req'[r].row = req[r].row /\ req'[r].joins = req[r].joins
    BY <1>0, AccessMoves
  <1>1. TypeOK'
    BY <1>0, <1>m DEF TypeOK, Access, Only, Blank, Removing, MembersOf
  <1>2. Shapes'
    BY <1>0, <1>m DEF Inv, Shapes, Access, Only, Blank, Shape, Single, Carried, Removing, MembersOf
  <1>3. AccountFacts'
    BY <1>0, <1>m DEF Inv, AccountFacts, Access, Only, Blank, Shapes, Shape, Single, Carried, AccountPending, Removing, MembersOf
  <1>4. MemberFacts'
    <2>1. req[r].by \subseteq MembersOf(o) => o \in orgs
      <3>1. PICK x : req[r].by = {x}
        BY <1>m DEF Inv, Shapes, Shape, Single
      <3>2. x \in MembersOf(o) => <<o, x>> \in members
        BY DEF MembersOf
      <3>3. <<o, x>> \in members => o \in orgs
        BY DEF Inv, MemberFacts
      <3>4. QED
        BY <3>1, <3>2, <3>3
    <2>2. UNCHANGED <<members, orgs, founded, entered>>
      BY DEF Access
    <2>3. \A s \in Slot : s # r => req'[s] = req[s]
      BY <1>m DEF Only
    <2>4. req'[r].pc # "idle" => req'[r].org \subseteq orgs
      BY <1>m, <2>1 DEF Blank, Carried
    <2>5. QED
      BY <2>2, <2>3, <2>4 DEF Inv, MemberFacts
  <1>5. SoleRemoval'
    BY <1>0, <1>m DEF Inv, SoleRemoval, Access, Only, Blank, Removing, MembersOf, Shapes, Shape, Single, Carried
  <1>6. Creations'
    BY <1>0, <1>m DEF Inv, Creations, Access, Only, Blank, MemberFacts, Shapes, Shape, Single, Carried, Removing, MembersOf
  <1>7. KeepsMember'
    BY <1>0, <1>m DEF Inv, KeepsMember, Access, Only, Blank, MembersOf, SoleRemoval, Removing, Shapes, Shape, Single
  <1>8. NoGhostAccount'
    BY <1>0, <1>m DEF Inv, NoGhostAccount, Access, Only, Blank, AccountFacts, Shapes, Shape, Single, Removing, MembersOf
  <1>9. QED
    BY <1>1, <1>2, <1>3, <1>4, <1>5, <1>6, <1>7, <1>8 DEF Inv

-----------------------------------------------------------------------------
\* RemoveMember: what it does to its slot.
LEMMA RemoveMemberMoves ==
    ASSUME TypeOK, NEW r \in Slot, NEW o \in Org, RemoveMember(r, o)
    PROVE  /\ Only(r)
           /\ req[r].pc = "remove" /\ req[r].org = {o} /\ req'[r] = Blank
  BY GotoOnly, ReturnOnly DEF RemoveMember, Goto, Return, Blank, Request, TypeOK, Only, Carried

\* RemoveMember preserves the invariant.
LEMMA RemoveMemberKeeps ==
    ASSUME Inv, NEW r \in Slot, NEW o \in Org, RemoveMember(r, o)
    PROVE  Inv'
  <1>0. TypeOK
    BY DEF Inv
  <1>m. /\ Only(r)
        /\ req[r].pc = "remove" /\ req[r].org = {o} /\ req'[r] = Blank
    BY <1>0, RemoveMemberMoves
  <1>a. PICK x \in Email : req[r].whom = {x}
    BY <1>0, <1>m DEF Inv, Shapes, Shape, Single, TypeOK, Request
  <1>b. PICK y \in Email : req[r].by = {y} /\ y # x
    BY <1>0, <1>m, <1>a DEF Inv, Shapes, Shape, Single, TypeOK, Request
  <1>c. members' = members \ {<<o, x>>}
    BY <1>a DEF RemoveMember
  <1>1. TypeOK'
    BY <1>0, <1>m DEF TypeOK, RemoveMember, Only, Blank
  <1>2. Shapes'
    BY <1>0, <1>m DEF Inv, Shapes, RemoveMember, Only, Blank, Shape, Single, Carried
  <1>3. AccountFacts'
    BY <1>0, <1>m DEF Inv, AccountFacts, RemoveMember, Only, Blank, Shapes, Shape, Single, Carried, AccountPending
  <1>4. MemberFacts'
    BY <1>0, <1>m DEF Inv, MemberFacts, RemoveMember, Only, Blank, AccountFacts, Shapes, Shape, Single, Carried, MembersOf
  <1>5. SoleRemoval'
    BY <1>0, <1>m DEF Inv, SoleRemoval, RemoveMember, Only, Blank, Removing, MembersOf, Shapes, Shape, Single, Carried
  <1>6. Creations'
    BY <1>0, <1>m DEF Inv, Creations, RemoveMember, Only, Blank, MemberFacts, Shapes, Shape, Single, Carried
  <1>7. KeepsMember'
    <2>1. \A h \in Org : h # o => MembersOf(h) \subseteq MembersOf(h)'
      BY <1>c DEF MembersOf
    <2>2. o \notin overlapped => y \in MembersOf(o)
      BY <1>b, <1>m DEF Inv, SoleRemoval, Removing
    <2>3. o \notin overlapped => y \in MembersOf(o)'
      BY <1>b, <1>c, <2>2 DEF MembersOf
    <2>4. UNCHANGED <<overlapped, founded>>
      BY DEF RemoveMember
    <2>5. founded \subseteq Org
      BY <1>0 DEF TypeOK
    <2>6. ASSUME NEW h \in founded' \ overlapped' PROVE MembersOf(h)' # {}
      <3>1. CASE h = o
        BY <3>1, <2>3, <2>4, <2>6
      <3>2. CASE h # o
        BY <3>2, <2>1, <2>4, <2>5, <2>6 DEF Inv, KeepsMember
      <3>3. QED
        BY <3>1, <3>2
    <2>7. QED
      BY <2>6 DEF KeepsMember
  <1>8. NoGhostAccount'
    BY <1>0, <1>m DEF Inv, NoGhostAccount, RemoveMember, Only, Blank, AccountFacts, Shapes, Shape, Single
  <1>9. QED
    BY <1>1, <1>2, <1>3, <1>4, <1>5, <1>6, <1>7, <1>8 DEF Inv

-----------------------------------------------------------------------------
\* Invite: what it does to its slot.
LEMMA InviteMoves ==
    ASSUME TypeOK, NEW r \in Slot, NEW e \in Email, Invite(r, e)
    PROVE  /\ Only(r)
           /\ req[r].pc = "invite" /\ req[r].whom = {e}
           /\ Carried(r) /\ req'[r].pc = "account"
           /\ req'[r].seen => req[r].whom \subseteq accounts
           /\ req'[r].row = req[r].row /\ req'[r].joins = req[r].joins
  <1> DEFINE q == [req[r] EXCEPT !.pc = "account", !.seen = e \in accounts]
  <1>1. req[r] \in Request /\ (e \in accounts) \in BOOLEAN
    BY DEF TypeOK
  <1>2. q \in Request
    BY <1>1 DEF Request
  <1>3. Only(r) /\ req'[r] = q
    BY <1>2, GotoOnly DEF Invite
  <1>4. /\ q.pc = "account" /\ q.seen = (e \in accounts) /\ q.row = req[r].row
        /\ q.joins = req[r].joins /\ q.op = req[r].op /\ q.by = req[r].by
        /\ q.org = req[r].org /\ q.whom = req[r].whom
    BY <1>1 DEF Request
  <1> HIDE DEF q
  <1>5. QED
    BY <1>3, <1>4 DEF Carried, Invite

\* Invite preserves the invariant.
LEMMA InviteKeeps ==
    ASSUME Inv, NEW r \in Slot, NEW e \in Email, Invite(r, e)
    PROVE  Inv'
  <1>0. TypeOK
    BY DEF Inv
  <1>m. /\ Only(r)
        /\ req[r].pc = "invite" /\ req[r].whom = {e}
        /\ Carried(r) /\ req'[r].pc = "account"
        /\ req'[r].seen => req[r].whom \subseteq accounts
        /\ req'[r].row = req[r].row /\ req'[r].joins = req[r].joins
    BY <1>0, InviteMoves
  <1>1. TypeOK'
    BY <1>0, <1>m DEF TypeOK, Invite, Only
  <1>2. Shapes'
    BY <1>0, <1>m DEF Inv, Shapes, Invite, Only, Shape, Single, Carried
  <1>3. AccountFacts'
    BY <1>0, <1>m DEF Inv, AccountFacts, Invite, Only, Shapes, Shape, Single, Carried, AccountPending
  <1>4. MemberFacts'
    BY <1>0, <1>m DEF Inv, MemberFacts, Invite, Only, AccountFacts, Shapes, Shape, Single, Carried, MembersOf
  <1>5. SoleRemoval'
    BY <1>0, <1>m DEF Inv, SoleRemoval, Invite, Only, Removing, MembersOf, Shapes, Shape, Single, Carried
  <1>6. Creations'
    BY <1>0, <1>m DEF Inv, Creations, Invite, Only, MemberFacts, Shapes, Shape, Single, Carried
  <1>7. KeepsMember'
    BY <1>0, <1>m DEF Inv, KeepsMember, Invite, Only, MembersOf, SoleRemoval, Removing, Shapes, Shape, Single
  <1>8. NoGhostAccount'
    BY <1>0, <1>m DEF Inv, NoGhostAccount, Invite, Only, AccountFacts, Shapes, Shape, Single
  <1>9. QED
    BY <1>1, <1>2, <1>3, <1>4, <1>5, <1>6, <1>7, <1>8 DEF Inv

-----------------------------------------------------------------------------
\* InviteAccount: what it does to its slot.
LEMMA InviteAccountMoves ==
    ASSUME TypeOK, NEW r \in Slot, NEW e \in Email, InviteAccount(r, e)
    PROVE  /\ Only(r)
           /\ req[r].pc = "account" /\ req[r].whom = {e} /\ ~AccountPending(r, e)
           /\ \/ req'[r] = Blank
              \/ /\ Carried(r) /\ req'[r].pc = "member"
                 /\ req'[r].row = {e} \ accounts /\ req'[r].joins = req[r].joins
  <1> DEFINE q == [req[r] EXCEPT !.pc = "member", !.row = {e} \ accounts]
  <1>1. /\ req[r] \in Request /\ req[r].pc = "account" /\ req[r].whom = {e}
        /\ ~AccountPending(r, e)
    BY DEF TypeOK, InviteAccount
  <1>2. CASE Goto(r, q)
    <2>1. q \in Request
      BY <1>1 DEF Request
    <2>2. Only(r) /\ req'[r] = q
      BY <1>2, <2>1, GotoOnly
    <2>3. QED
      BY <1>1, <2>2 DEF Carried, Request
  <1>3. CASE Return(r)
    BY <1>1, <1>3, ReturnOnly
  <1>4. QED
    BY <1>2, <1>3 DEF InviteAccount

\* InviteAccount preserves the invariant.
LEMMA InviteAccountKeeps ==
    ASSUME Inv, NEW r \in Slot, NEW e \in Email, InviteAccount(r, e)
    PROVE  Inv'
  <1>0. TypeOK
    BY DEF Inv
  <1>m. /\ Only(r)
        /\ req[r].pc = "account" /\ req[r].whom = {e} /\ ~AccountPending(r, e)
        /\ \/ req'[r] = Blank
           \/ /\ Carried(r) /\ req'[r].pc = "member"
              /\ req'[r].row = {e} \ accounts /\ req'[r].joins = req[r].joins
    BY <1>0, InviteAccountMoves
  <1>1. TypeOK'
    BY <1>0, <1>m DEF TypeOK, InviteAccount, Only, Blank
  <1>2. Shapes'
    BY <1>0, <1>m DEF Inv, Shapes, InviteAccount, Only, Blank, Shape, Single, Carried
  <1>3. AccountFacts'
    BY <1>0, <1>m DEF Inv, AccountFacts, InviteAccount, Only, Blank, Shapes, Shape, Single, Carried, AccountPending
  <1>4. MemberFacts'
    BY <1>0, <1>m DEF Inv, MemberFacts, InviteAccount, Only, Blank, AccountFacts, Shapes, Shape, Single, Carried, MembersOf
  <1>5. SoleRemoval'
    BY <1>0, <1>m DEF Inv, SoleRemoval, InviteAccount, Only, Blank, Removing, MembersOf, Shapes, Shape, Single, Carried
  <1>6. Creations'
    BY <1>0, <1>m DEF Inv, Creations, InviteAccount, Only, Blank, MemberFacts, Shapes, Shape, Single, Carried
  <1>7. KeepsMember'
    BY <1>0, <1>m DEF Inv, KeepsMember, InviteAccount, Only, Blank, MembersOf, SoleRemoval, Removing, Shapes, Shape, Single
  <1>8. NoGhostAccount'
    BY <1>0, <1>m DEF Inv, NoGhostAccount, InviteAccount, Only, Blank, AccountFacts, Shapes, Shape, Single
  <1>9. QED
    BY <1>1, <1>2, <1>3, <1>4, <1>5, <1>6, <1>7, <1>8 DEF Inv

-----------------------------------------------------------------------------
\* InviteMember: what it does to its slot.
LEMMA InviteMemberMoves ==
    ASSUME TypeOK, NEW r \in Slot, NEW o \in Org, NEW e \in Email, InviteMember(r, o, e)
    PROVE  /\ Only(r)
           /\ req[r].pc = "member" /\ req[r].org = {o} /\ req[r].whom = {e}
           /\ Carried(r) /\ req'[r].pc = "commit"
           /\ req'[r].row = req[r].row
           /\ req'[r].joins = (<<o, e>> \notin members)
  <1> DEFINE q == [req[r] EXCEPT !.pc = "commit", !.joins = <<o, e>> \notin members]
  <1>1. /\ req[r] \in Request /\ req[r].pc = "member" /\ req[r].org = {o}
        /\ req[r].whom = {e} /\ (<<o, e>> \notin members) \in BOOLEAN
    BY DEF TypeOK, InviteMember
  <1>2. q \in Request
    BY <1>1 DEF Request
  <1>3. Only(r) /\ req'[r] = q
    BY <1>2, GotoOnly DEF InviteMember
  <1>4. /\ q.pc = "commit" /\ q.joins = (<<o, e>> \notin members) /\ q.row = req[r].row
        /\ q.op = req[r].op /\ q.by = req[r].by
        /\ q.org = req[r].org /\ q.whom = req[r].whom
    BY <1>1 DEF Request
  <1> HIDE DEF q
  <1>5. QED
    BY <1>1, <1>3, <1>4 DEF Carried

\* InviteMember preserves the invariant.
LEMMA InviteMemberKeeps ==
    ASSUME Inv, NEW r \in Slot, NEW o \in Org, NEW e \in Email, InviteMember(r, o, e)
    PROVE  Inv'
  <1>0. TypeOK
    BY DEF Inv
  <1>m. /\ Only(r)
        /\ req[r].pc = "member" /\ req[r].org = {o} /\ req[r].whom = {e}
        /\ Carried(r) /\ req'[r].pc = "commit"
        /\ req'[r].row = req[r].row
        /\ req'[r].joins = (<<o, e>> \notin members)
    BY <1>0, InviteMemberMoves
  <1>1. TypeOK'
    BY <1>0, <1>m DEF TypeOK, InviteMember, Only
  <1>2. Shapes'
    BY <1>0, <1>m DEF Inv, Shapes, InviteMember, Only, Shape, Single, Carried
  <1>3. AccountFacts'
    <2>1. req[r].row # {} => <<o, e>> \notin members
      BY <1>0, <1>m DEF Inv, AccountFacts, MemberFacts, Shapes, Shape
    <2>2. UNCHANGED <<accounts, entered>>
      BY DEF InviteMember
    <2>3. /\ req'[r].pc = "commit" /\ req'[r].by = req[r].by /\ req'[r].row = req[r].row
          /\ req'[r].whom = req[r].whom
          /\ req[r].row # {} => req'[r].joins
      BY <1>m, <2>1 DEF Carried
    <2>4. \A s \in Slot : s # r => req'[s] = req[s]
      BY <1>m DEF Only
    <2>5. req[r].pc = "member"
      BY <1>m
    <2>6. QED
      BY <2>2, <2>3, <2>4, <2>5 DEF Inv, AccountFacts
  <1>4. MemberFacts'
    BY <1>0, <1>m DEF Inv, MemberFacts, InviteMember, Only, AccountFacts, Shapes, Shape, Single, Carried, MembersOf
  <1>5. SoleRemoval'
    BY <1>0, <1>m DEF Inv, SoleRemoval, InviteMember, Only, Removing, MembersOf, Shapes, Shape, Single, Carried
  <1>6. Creations'
    BY <1>0, <1>m DEF Inv, Creations, InviteMember, Only, MemberFacts, Shapes, Shape, Single, Carried
  <1>7. KeepsMember'
    BY DEF Inv, KeepsMember, InviteMember, MembersOf
  <1>8. NoGhostAccount'
    BY <1>0, <1>m DEF Inv, NoGhostAccount, InviteMember, Only, AccountFacts, Shapes, Shape, Single
  <1>9. QED
    BY <1>1, <1>2, <1>3, <1>4, <1>5, <1>6, <1>7, <1>8 DEF Inv

-----------------------------------------------------------------------------
\* InviteCommit: what it does to its slot.
LEMMA InviteCommitMoves ==
    ASSUME TypeOK, NEW r \in Slot, NEW o \in Org, NEW e \in Email, InviteCommit(r, o, e)
    PROVE  /\ Only(r)
           /\ req[r].pc = "commit" /\ req[r].org = {o} /\ req[r].whom = {e} /\ req'[r] = Blank
  BY GotoOnly, ReturnOnly DEF InviteCommit, Goto, Return, Blank, Request, TypeOK, Only, Carried

\* InviteCommit preserves the invariant.
LEMMA InviteCommitKeeps ==
    ASSUME Inv, NEW r \in Slot, NEW o \in Org, NEW e \in Email, InviteCommit(r, o, e)
    PROVE  Inv'
  <1>0. TypeOK
    BY DEF Inv
  <1>m. /\ Only(r)
        /\ req[r].pc = "commit" /\ req[r].org = {o} /\ req[r].whom = {e} /\ req'[r] = Blank
    BY <1>0, InviteCommitMoves
  <1>1. TypeOK'
    <2>1. req[r].row \subseteq Email
      BY <1>0 DEF TypeOK, Request
    <2>2. accounts' \subseteq Email /\ members' \subseteq Org \X Email /\ entered' \subseteq Email
      BY <1>0, <2>1 DEF TypeOK, InviteCommit
    <2>3. QED
      BY <1>0, <1>m, <2>2 DEF TypeOK, InviteCommit, Only
  <1>2. Shapes'
    BY <1>0, <1>m DEF Inv, Shapes, InviteCommit, Only, Blank, Shape, Single, Carried
  <1>3. AccountFacts'
    BY <1>0, <1>m DEF Inv, AccountFacts, InviteCommit, Only, Blank, Shapes, Shape, Single, Carried, AccountPending
  <1>4. MemberFacts'
    <2>1. entered \subseteq entered' /\ UNCHANGED <<orgs, founded>>
      BY DEF InviteCommit
    <2>2. req[r].joins => members' = members \cup {<<o, e>>} /\ e \in entered'
      BY DEF InviteCommit
    <2>3. ~req[r].joins => members' = members
      BY DEF InviteCommit
    <2>4. o \in orgs
      BY <1>m DEF Inv, MemberFacts
    <2>5. QED
      BY <1>m, <2>1, <2>2, <2>3, <2>4 DEF Inv, MemberFacts, Only, Blank
  <1>5. SoleRemoval'
    BY <1>0, <1>m DEF Inv, SoleRemoval, InviteCommit, Only, Blank, Removing, MembersOf, Shapes, Shape, Single, Carried
  <1>6. Creations'
    BY <1>0, <1>m DEF Inv, Creations, InviteCommit, Only, Blank, MemberFacts, Shapes, Shape, Single, Carried
  <1>7. KeepsMember'
    BY <1>0, <1>m DEF Inv, KeepsMember, InviteCommit, Only, Blank, MembersOf, SoleRemoval, Removing, Shapes, Shape, Single
  <1>8. NoGhostAccount'
    BY <1>0, <1>m DEF Inv, NoGhostAccount, InviteCommit, Only, Blank, AccountFacts, Shapes, Shape, Single
  <1>9. QED
    BY <1>1, <1>2, <1>3, <1>4, <1>5, <1>6, <1>7, <1>8 DEF Inv

-----------------------------------------------------------------------------
\* Abort: what it does to its slot.
LEMMA AbortMoves ==
    ASSUME TypeOK, NEW r \in Slot, Abort(r)
    PROVE  /\ Only(r)
           /\ req'[r] = Blank
  BY GotoOnly, ReturnOnly DEF Abort, Goto, Return, Blank, Request, TypeOK, Only, Carried, Active

\* Abort preserves the invariant.
LEMMA AbortKeeps ==
    ASSUME Inv, NEW r \in Slot, Abort(r)
    PROVE  Inv'
  <1>0. TypeOK
    BY DEF Inv
  <1>m. /\ Only(r)
        /\ req'[r] = Blank
    BY <1>0, AbortMoves
  <1>1. TypeOK'
    BY <1>0, <1>m DEF TypeOK, Abort, Only, Blank
  <1>2. Shapes'
    BY <1>0, <1>m DEF Inv, Shapes, Abort, Only, Blank, Shape, Single, Carried
  <1>3. AccountFacts'
    BY <1>0, <1>m DEF Inv, AccountFacts, Abort, Only, Blank, Shapes, Shape, Single, Carried, AccountPending
  <1>4. MemberFacts'
    BY <1>0, <1>m DEF Inv, MemberFacts, Abort, Only, Blank, AccountFacts, Shapes, Shape, Single, Carried, MembersOf
  <1>5. SoleRemoval'
    BY <1>0, <1>m DEF Inv, SoleRemoval, Abort, Only, Blank, Removing, MembersOf, Shapes, Shape, Single, Carried
  <1>6. Creations'
    BY <1>0, <1>m DEF Inv, Creations, Abort, Only, Blank, MemberFacts, Shapes, Shape, Single, Carried
  <1>7. KeepsMember'
    BY DEF Inv, KeepsMember, Abort, MembersOf
  <1>8. NoGhostAccount'
    BY <1>0, <1>m DEF Inv, NoGhostAccount, Abort, Only, Blank, AccountFacts, Shapes, Shape, Single
  <1>9. QED
    BY <1>1, <1>2, <1>3, <1>4, <1>5, <1>6, <1>7, <1>8 DEF Inv

-----------------------------------------------------------------------------
\* The empty database satisfies the invariant.
LEMMA InitInv == Init => Inv
  <1> SUFFICES ASSUME Init PROVE Inv
    OBVIOUS
  <1>1. TypeOK
    BY BlankRequest DEF Init, TypeOK
  <1>2. \A r \in Slot : req[r] = Blank
    BY DEF Init
  <1>3. Shapes /\ AccountFacts
    BY <1>2 DEF Init, Shapes, Shape, AccountFacts, Blank
  <1>4. MemberFacts /\ SoleRemoval /\ Creations
    BY <1>2 DEF Init, MemberFacts, SoleRemoval, Removing, Creations, Blank
  <1>5. KeepsMember /\ NoGhostAccount
    BY DEF Init, KeepsMember, NoGhostAccount
  <1>6. QED
    BY <1>1, <1>3, <1>4, <1>5 DEF Inv

\* Every step preserves the invariant: one lemma per action.
LEMMA StepInv == Inv /\ [Next]_vars => Inv'
  <1> SUFFICES ASSUME Inv, [Next]_vars PROVE Inv'
    OBVIOUS
  <1>1. ASSUME NEW r \in Slot, Handle(r) PROVE Inv'
    <2>1. ASSUME NEW e \in Email, Authenticate(r, e) \/ Invite(r, e) \/ InviteAccount(r, e)
          PROVE  Inv'
      BY <2>1, AuthenticateKeeps, InviteKeeps, InviteAccountKeeps
    <2>2. ASSUME NEW o \in Org, \/ CreateOrganization(r, o) \/ AddOwner(r, o)
                                \/ Access(r, o) \/ RemoveMember(r, o)
          PROVE  Inv'
      BY <2>2, CreateOrganizationKeeps, AddOwnerKeeps, AccessKeeps, RemoveMemberKeeps
    <2>3. ASSUME NEW o \in Org, NEW e \in Email, InviteMember(r, o, e) \/ InviteCommit(r, o, e)
          PROVE  Inv'
      BY <2>3, InviteMemberKeeps, InviteCommitKeeps
    <2>4. QED
      BY <1>1, <2>1, <2>2, <2>3 DEF Handle
  <1>2. CASE UNCHANGED vars
    BY <1>2 DEF vars, Inv, TypeOK, Shapes, AccountFacts, MemberFacts, SoleRemoval, Removing,
                MembersOf, Creations, KeepsMember, NoGhostAccount
  <1>3. QED
    BY <1>1, <1>2, ArriveKeeps, AbortKeeps DEF Next

\* The inductive invariant.
THEOREM Invariance == Spec => []Inv
  <1>1. QED
    BY InitInv, StepInv, PTL DEF Spec

\* Every variable keeps its type.
THEOREM TypeCorrect == Spec => []TypeOK
  <1>1. Inv => TypeOK
    BY DEF Inv
  <1>2. QED
    BY <1>1, Invariance, PTL

\* An organization that has got its first member keeps one unless two removals
\* overlap.
THEOREM OrganizationsKeepMember == Spec => []KeepsMember
  <1>1. Inv => KeepsMember
    BY DEF Inv
  <1>2. QED
    BY <1>1, Invariance, PTL

\* A failed invitation leaves no account behind.
THEOREM InvitationsAtomic == Spec => []NoGhostAccount
  <1>1. Inv => NoGhostAccount
    BY DEF Inv
  <1>2. QED
    BY <1>1, Invariance, PTL

\* One creator per organization.
THEOREM OneCreator == Spec => []CreatedOnce
  <1>1. Inv => CreatedOnce
    BY DEF Inv, Creations, CreatedOnce
  <1>2. QED
    BY <1>1, Invariance, PTL

-----------------------------------------------------------------------------
(* Who waits for whom *)

\* Whoever waits for an account waits for a transaction that goes on to insert a
\* membership or to commit.  Another transaction with that membership would have
\* found the account in the table or inserted it itself.
LEMMA NoChain == Inv => NoWaitChain
  <1> SUFFICES ASSUME Inv, NEW r \in Slot, NEW s \in Slot, NEW t \in Slot,
                      WaitsFor(r, s), WaitsFor(s, t)
               PROVE  FALSE
    BY DEF NoWaitChain
  <1>1. Shape(req[s]) /\ Shape(req[t])
    BY DEF Inv, Shapes
  <1>2. req[s].pc \in {"auth", "account", "member"}
    BY DEF WaitsFor
  <1>3. ~req[s].joins
    BY <1>1, <1>2 DEF Shape
  <1>4. req[r].pc \in {"auth", "account"} /\ req[s].row # {}
    BY <1>3 DEF WaitsFor
  <1>5. /\ req[s].pc = "member" /\ req[t].joins /\ req[t].whom = req[s].whom /\ s # t
    BY <1>1, <1>2, <1>4 DEF WaitsFor, Shape
  <1>6. PICK e \in req[s].row : e \in req[t].whom
    BY <1>1, <1>4, <1>5 DEF Shape
  <1>7. e \notin accounts
    BY <1>6 DEF Inv, AccountFacts
  <1>8. req[t].pc = "commit"
    BY <1>1, <1>5 DEF Shape
  <1>9. e \in req[t].row
    BY <1>6, <1>7, <1>8 DEF Inv, AccountFacts
  <1>10. QED
    BY <1>5, <1>6, <1>9 DEF Inv, AccountFacts

\* A request that waits, waits for one that does not, for any number of requests.
THEOREM WaitsAreShort == Spec => []NoWaitChain
  <1>1. QED
    BY NoChain, Invariance, PTL

-----------------------------------------------------------------------------
(* The roster *)

\* Only founded organizations have members, and requests that have passed the
\* access check are for such organizations.
FoundedInv ==
    /\ members \subseteq founded \X Email
    /\ \A r \in Slot : req[r].pc \in {"remove", "invite", "account", "member", "commit"}
                       => req[r].org \subseteq founded

\* Founding and joining preserve it, and every other step leaves founded alone.
LEMMA FoundedStep == Inv /\ FoundedInv /\ [Next]_vars => FoundedInv'
  <1> SUFFICES ASSUME Inv, FoundedInv, [Next]_vars PROVE FoundedInv'
    OBVIOUS
  <1>0. TypeOK
    BY DEF Inv
  <1>s. ASSUME NEW r \in Slot, Only(r), UNCHANGED founded, members' \subseteq members,
               req'[r].pc \in {"remove", "invite", "account", "member", "commit"}
               => req'[r].org \subseteq founded
        PROVE  FoundedInv'
    BY <1>s DEF FoundedInv, Only
  <1>1. ASSUME NEW r \in Slot, NEW s \in Spelling, NEW w \in Spelling, NEW o \in Org,
               NEW op \in {"other", "create", "invite", "remove"}, Arrive(r, s, op, o, w)
        PROVE  FoundedInv'
    <2>1. Only(r) /\ req'[r].pc = "auth"
      BY <1>0, <1>1, ArriveMoves
    <2>2. QED
      BY <1>1, <1>s, <2>1 DEF Arrive
  <1>2. ASSUME NEW r \in Slot, NEW e \in Email, Authenticate(r, e)
        PROVE  FoundedInv'
    <2>1. Only(r) /\ req'[r].pc \in {"idle", "create", "access"}
      BY <1>0, <1>2, AuthenticateMoves DEF Blank
    <2>2. QED
      BY <1>2, <1>s, <2>1 DEF Authenticate
  <1>3. ASSUME NEW r \in Slot, NEW o \in Org, CreateOrganization(r, o)
        PROVE  FoundedInv'
    <2>1. Only(r) /\ req'[r].pc \in {"idle", "owner"}
      BY <1>0, <1>3, CreateOrganizationMoves DEF Blank
    <2>2. QED
      BY <1>3, <1>s, <2>1 DEF CreateOrganization
  <1>4. ASSUME NEW r \in Slot, NEW o \in Org, AddOwner(r, o)
        PROVE  FoundedInv'
    <2>1. Only(r) /\ req'[r].pc = "idle"
      BY <1>0, <1>4, AddOwnerMoves DEF Blank
    <2>2. req[r].by \subseteq Email
      BY <1>0 DEF TypeOK, Request
    <2>3. QED
      BY <1>4, <2>1, <2>2 DEF FoundedInv, AddOwner, Only
  <1>5. ASSUME NEW r \in Slot, NEW o \in Org, Access(r, o)
        PROVE  FoundedInv'
    <2>1. PICK u : req[r].by = {u}
      BY <1>5 DEF Access, Inv, Shapes, Shape, Single
    <2>2. req[r].by \subseteq MembersOf(o) => o \in founded
      BY <2>1 DEF FoundedInv, MembersOf
    <2>3. /\ Only(r) /\ req[r].org = {o}
          /\ \/ req'[r].pc = "idle"
             \/ req[r].by \subseteq MembersOf(o) /\ req'[r].org = req[r].org
      BY <1>5, AccessMoves DEF Blank, Carried
    <2>4. QED
      BY <1>5, <1>s, <2>2, <2>3 DEF Access
  <1>6. ASSUME NEW r \in Slot, NEW o \in Org, RemoveMember(r, o)
        PROVE  FoundedInv'
    <2>1. Only(r) /\ req'[r].pc = "idle"
      BY <1>0, <1>6, RemoveMemberMoves DEF Blank
    <2>2. QED
      BY <1>6, <1>s, <2>1 DEF RemoveMember
  <1>7. ASSUME NEW r \in Slot, NEW e \in Email, Invite(r, e) \/ InviteAccount(r, e)
        PROVE  FoundedInv'
    <2>1. /\ Only(r) /\ req[r].pc \in {"invite", "account"}
          /\ req'[r].pc = "idle" \/ req'[r].org = req[r].org
      BY <1>0, <1>7, InviteMoves, InviteAccountMoves DEF Blank, Carried
    <2>2. UNCHANGED <<founded, members>>
      BY <1>7 DEF Invite, InviteAccount
    <2>3. req[r].org \subseteq founded
      BY <2>1 DEF FoundedInv
    <2>4. QED
      BY <1>s, <2>1, <2>2, <2>3
  <1>8. ASSUME NEW r \in Slot, NEW o \in Org, NEW e \in Email, InviteMember(r, o, e)
        PROVE  FoundedInv'
    <2>1. Only(r) /\ req[r].pc = "member" /\ req'[r].org = req[r].org
      BY <1>0, <1>8, InviteMemberMoves DEF Carried
    <2>2. QED
      BY <1>8, <1>s, <2>1 DEF InviteMember, FoundedInv
  <1>9. ASSUME NEW r \in Slot, NEW o \in Org, NEW e \in Email, InviteCommit(r, o, e)
        PROVE  FoundedInv'
    <2>1. /\ Only(r) /\ req[r].pc = "commit" /\ req[r].org = {o} /\ req'[r].pc = "idle"
      BY <1>0, <1>9, InviteCommitMoves DEF Blank
    <2>2. UNCHANGED founded /\ members' \subseteq members \cup {<<o, e>>}
      BY <1>9 DEF InviteCommit
    <2>3. o \in founded
      BY <2>1 DEF FoundedInv
    <2>4. QED
      BY <2>1, <2>2, <2>3 DEF FoundedInv, Only
  <1>10. ASSUME NEW r \in Slot, Abort(r)
         PROVE  FoundedInv'
    <2>1. Only(r) /\ req'[r].pc = "idle"
      BY <1>0, <1>10, AbortMoves DEF Blank
    <2>2. QED
      BY <1>10, <1>s, <2>1 DEF Abort
  <1>11. CASE UNCHANGED vars
    BY <1>11 DEF vars, FoundedInv
  <1>12. QED
    BY <1>1, <1>2, <1>3, <1>4, <1>5, <1>6, <1>7, <1>8, <1>9, <1>10, <1>11 DEF Next, Handle

\* What the handlers do to the roster: nothing, or one of its steps.
Silent == UNCHANGED <<accounts, orgs, members, founded, Asked, overlapped>>

\* What is asked for does not change with a step of a slot that asks for the
\* same before and after it.
LEMMA AskedSame ==
    ASSUME NEW r \in Slot, Only(r), \A t : Asks(req'[r], t) <=> Asks(req[r], t)
    PROVE  Asked' = Asked
  BY DEF Asked, Only

\* A slot that asks for something adds it, and may take it back at the end.
LEMMA AskedMore ==
    ASSUME NEW r \in Slot, Only(r), NEW u \in {"invite", "remove"} \X Org \X Email,
           \A t : ~Asks(req[r], t), Asks(req'[r], u),
           \A t \in {"invite", "remove"} \X Org \X Email : Asks(req'[r], t) => t = u
    PROVE  Asked' = Asked \cup {u}
  BY DEF Asked, Only

LEMMA AskedLess ==
    ASSUME NEW r \in Slot, Only(r), NEW u \in {"invite", "remove"} \X Org \X Email,
           \A t \in {"invite", "remove"} \X Org \X Email : Asks(req[r], t) => t = u,
           \A t : ~Asks(req'[r], t)
    PROVE  Asked' \in {Asked, Asked \ {u}}
  <1> DEFINE others == \E s \in Slot : s # r /\ Asks(req[s], u)
  <1>1. \A t \in {"invite", "remove"} \X Org \X Email :
            t # u => ((\E s \in Slot : Asks(req'[s], t)) <=> \E s \in Slot : Asks(req[s], t))
    BY DEF Only
  <1>2. (\E s \in Slot : Asks(req'[s], u)) <=> others
    BY DEF Only
  <1>3. CASE others
    <2>1. Asked' = Asked
      BY <1>1, <1>2, <1>3 DEF Asked
    <2>2. QED
      BY <2>1
  <1>4. CASE ~others
    <2>1. Asked' = Asked \ {u}
      BY <1>1, <1>2, <1>4 DEF Asked
    <2>2. QED
      BY <2>1
  <1>5. QED
    BY <1>3, <1>4

\* A slot between the access check and its end asks for one thing.
LEMMA AsksOne ==
    ASSUME Inv, NEW r \in Slot,
           req[r].pc \in {"remove", "invite", "account", "member", "commit"}
    PROVE  \E op \in {"invite", "remove"}, o \in Org, u \in Email :
             /\ req[r].op = op /\ req[r].org = {o} /\ req[r].whom = {u}
             /\ \A t \in {"invite", "remove"} \X Org \X Email :
                    Asks(req[r], t) => t = <<op, o, u>>
  <1>1. req[r].op \in {"invite", "remove"}
    BY DEF Inv, Shapes, Shape
  <1>2. PICK o \in Org : req[r].org = {o}
    BY <1>1 DEF Inv, Shapes, Shape, Single, TypeOK, Request
  <1>3. PICK u \in Email : req[r].whom = {u}
    BY <1>1 DEF Inv, Shapes, Shape, Single, TypeOK, Request
  <1>4. ASSUME NEW t \in {"invite", "remove"} \X Org \X Email, Asks(req[r], t)
        PROVE  t = <<req[r].op, o, u>>
    BY <1>2, <1>3, <1>4 DEF Asks
  <1>5. QED
    BY <1>1, <1>2, <1>3, <1>4

\* A request that ends with what it asked for.
LEMMA EndsAsking ==
    ASSUME Inv, NEW r \in Slot, Only(r), req'[r] = Blank,
           NEW op \in {"invite", "remove"}, NEW o \in Org, NEW u \in Email,
           Asks(req[r], <<op, o, u>>)
    PROVE  <<op, o, u>> \in Asked /\ Asked' \in {Asked, Asked \ {<<op, o, u>>}}
  <1>1. \A t : ~Asks(req'[r], t)
    BY DEF Asks, Blank
  <1>2. req[r].op = op /\ req[r].org = {o} /\ req[r].whom = {u}
    BY DEF Asks
  <1>3. ASSUME NEW t \in {"invite", "remove"} \X Org \X Email, Asks(req[r], t)
        PROVE  t = <<op, o, u>>
    BY <1>2, <1>3 DEF Asks
  <1>4. <<op, o, u>> \in {"invite", "remove"} \X Org \X Email
    OBVIOUS
  <1>5. Asked' \in {Asked, Asked \ {<<op, o, u>>}}
    BY <1>1, <1>3, <1>4, AskedLess
  <1>6. QED
    BY <1>4, <1>5 DEF Asked

\* A request that ends withdraws what it asked for, if anything.
LEMMA EndRefines ==
    ASSUME Inv, NEW r \in Slot, Only(r), req'[r] = Blank,
           UNCHANGED <<accounts, orgs, members, founded, overlapped>>
    PROVE  Silent \/ \E op \in {"invite", "remove"}, o \in Org, u \in Email :
                        Promised!Withdraw(op, o, u)
  <1>1. \A t : ~Asks(req'[r], t)
    BY DEF Asks, Blank
  <1>2. CASE req[r].pc \in {"remove", "invite", "account", "member", "commit"}
    <2>1. PICK op \in {"invite", "remove"}, o \in Org, u \in Email :
             \A t \in {"invite", "remove"} \X Org \X Email : Asks(req[r], t) => t = <<op, o, u>>
      BY <1>2, AsksOne
    <2>2. Asked' \in {Asked, Asked \ {<<op, o, u>>}}
      BY <1>1, <2>1, AskedLess
    <2>3. QED
      BY <2>2 DEF Promised!Withdraw, Promised!Done
  <1>3. CASE req[r].pc \notin {"remove", "invite", "account", "member", "commit"}
    <2>1. \A t : ~Asks(req[r], t)
      BY <1>3 DEF Asks
    <2>2. QED
      BY <1>1, <2>1, AskedSame DEF Silent
  <1>4. QED
    BY <1>2, <1>3

\* Before the access check a request asks for nothing.
LEMMA BeforeSilent ==
    ASSUME NEW r \in Slot, Only(r),
           req[r].pc \in {"idle", "auth", "access", "create", "owner"},
           req'[r].pc \in {"idle", "auth", "access", "create", "owner"}
    PROVE  Asked' = Asked
  <1>1. \A t : ~Asks(req[r], t) /\ ~Asks(req'[r], t)
    BY DEF Asks
  <1>2. QED
    BY <1>1, AskedSame

\* An invitation asks for the same from statement to statement.
LEMMA InvitingSilent ==
    ASSUME NEW r \in Slot, Only(r), Carried(r),
           req[r].pc \in {"remove", "invite", "account", "member", "commit"},
           req'[r].pc \in {"remove", "invite", "account", "member", "commit"}
    PROVE  Asked' = Asked
  <1>1. \A t : Asks(req'[r], t) <=> Asks(req[r], t)
    BY DEF Asks, Carried
  <1>2. QED
    BY <1>1, AskedSame

LEMMA AuthenticateRefines ==
    ASSUME Inv, NEW r \in Slot, NEW e \in Email, Authenticate(r, e)
    PROVE  Promised!SignUp(e) \/ Silent
  <1>1. /\ Only(r) /\ req[r].pc = "auth"
        /\ req'[r].pc \in {"idle", "auth", "access", "create", "owner"}
    BY AuthenticateMoves DEF Inv, Blank
  <1>2. Asked' = Asked
    BY <1>1, BeforeSilent
  <1>3. QED
    BY <1>2 DEF Authenticate, Promised!SignUp, Silent

LEMMA CreateOrganizationRefines ==
    ASSUME Inv, NEW r \in Slot, NEW o \in Org, CreateOrganization(r, o)
    PROVE  Promised!Register(o) \/ Silent
  <1>1. /\ Only(r) /\ req[r].pc = "create"
        /\ req'[r].pc \in {"idle", "auth", "access", "create", "owner"}
    BY CreateOrganizationMoves DEF Inv, Blank
  <1>2. Asked' = Asked
    BY <1>1, BeforeSilent
  <1>3. QED
    BY <1>2 DEF CreateOrganization, Promised!Register, Silent

\* The organization is new: it has no members, and its creator has an account.
LEMMA AddOwnerRefines ==
    ASSUME Inv, FoundedInv, NEW r \in Slot, NEW o \in Org, AddOwner(r, o)
    PROVE  \E u \in Email : Promised!Found(o, u)
  <1>1. Only(r) /\ req[r].pc = "owner" /\ req[r].org = {o} /\ req'[r].pc = "idle"
    BY AddOwnerMoves DEF Inv, Blank
  <1>2. PICK u \in Email : req[r].by = {u}
    BY <1>1 DEF Inv, Shapes, Shape, Single, TypeOK, Request
  <1>3. o \in orgs \ founded
    BY <1>1 DEF Inv, Creations
  <1>4. u \in accounts
    BY <1>1, <1>2 DEF Inv, AccountFacts
  <1>5. \A v \in Email : <<o, v>> \notin members
    BY <1>3 DEF FoundedInv
  <1>6. members' = members \cup {<<o, u>>}
    BY <1>2 DEF AddOwner
  <1>7. Asked' = Asked
    BY <1>1, BeforeSilent
  <1>8. QED
    BY <1>3, <1>4, <1>5, <1>6, <1>7 DEF AddOwner, Promised!Found

\* The check passes if the caller, who is not removing themselves, is a member;
\* whoever asks for a removal while another one is under way contests it.
LEMMA AccessRefines ==
    ASSUME Inv, NEW r \in Slot, NEW o \in Org, Access(r, o)
    PROVE  Silent \/ \E op \in {"invite", "remove"}, u \in Email : Promised!Ask(op, o, u)
  <1>1. /\ Only(r) /\ req[r].pc = "access" /\ req[r].org = {o}
        /\ req[r].op \in {"invite", "remove"}
    BY AccessMoves DEF Inv, Shapes, Shape
  <1>2. CASE req'[r] = Blank /\ UNCHANGED overlapped
    <2>1. Asked' = Asked
      BY <1>1, <1>2, BeforeSilent DEF Blank
    <2>2. QED
      BY <1>2, <2>1 DEF Access, Silent
  <1>3. CASE /\ req[r].by \subseteq MembersOf(o)
             /\ req[r].op = "remove" => req[r].whom # req[r].by
             /\ Carried(r) /\ req'[r].pc = req[r].op
             /\ overlapped' = IF req[r].op = "remove" /\ \E s \in Slot : Removing(s, o)
                              THEN overlapped \cup {o} ELSE overlapped
    <2>1. PICK u \in Email : req[r].whom = {u}
      BY <1>1 DEF Inv, Shapes, Shape, Single, TypeOK, Request
    <2>2. PICK v \in Email : req[r].by = {v}
      BY <1>1 DEF Inv, Shapes, Shape, Single, TypeOK, Request
    <2>3. <<o, v>> \in members /\ (req[r].op = "remove" => v # u)
      BY <1>3, <2>1, <2>2 DEF MembersOf
    <2> DEFINE op == req[r].op
    <2>4. \A t : ~Asks(req[r], t)
      BY <1>1 DEF Asks
    <2>5. Asked' = Asked \cup {<<op, o, u>>}
      <3>1. Asks(req'[r], <<op, o, u>>)
        BY <1>1, <1>3, <2>1 DEF Asks, Carried
      <3>2. ASSUME NEW t \in {"invite", "remove"} \X Org \X Email, Asks(req'[r], t)
            PROVE  t = <<op, o, u>>
        BY <1>1, <1>3, <2>1, <3>2 DEF Asks, Carried
      <3>3. <<op, o, u>> \in {"invite", "remove"} \X Org \X Email
        BY <1>1
      <3>4. QED
        BY <1>1, <2>4, <3>1, <3>2, <3>3, AskedMore
    <2>6. (\E s \in Slot : Removing(s, o)) <=> \E w \in Email : <<"remove", o, w>> \in Asked
      <3>1. ASSUME NEW s \in Slot, Removing(s, o)
            PROVE  \E w \in Email : <<"remove", o, w>> \in Asked
        <4>1. PICK w \in Email : req[s].whom = {w}
          BY <3>1 DEF Removing, Inv, Shapes, Shape, Single, TypeOK, Request
        <4>2. Asks(req[s], <<"remove", o, w>>)
          BY <3>1, <4>1 DEF Asks, Removing, Inv, Shapes, Shape
        <4>3. QED
          BY <4>2 DEF Asked
      <3>2. ASSUME NEW w \in Email, <<"remove", o, w>> \in Asked
            PROVE  \E s \in Slot : Removing(s, o)
        <4>1. PICK s \in Slot : Asks(req[s], <<"remove", o, w>>)
          BY <3>2 DEF Asked
        <4>2. req[s].op = "remove" /\ req[s].org = {o}
              /\ req[s].pc \in {"remove", "invite", "account", "member", "commit"}
          BY <4>1 DEF Asks
        <4>3. req[s].pc = "remove"
          BY <4>2 DEF Inv, Shapes, Shape
        <4>4. QED
          BY <4>2, <4>3 DEF Removing
      <3>3. QED
        BY <3>1, <3>2
    <2>7. UNCHANGED <<accounts, orgs, members, founded>>
      BY DEF Access
    <2>8. Promised!Ask(op, o, u)
      BY <1>3, <2>3, <2>5, <2>6, <2>7 DEF Promised!Ask
    <2>9. QED
      BY <1>1, <2>8
  <1>4. QED
    BY <1>2, <1>3, AccessMoves DEF Access

\* Whoever removes a member stays, unless somebody removes them meanwhile.
LEMMA RemoveMemberRefines ==
    ASSUME Inv, NEW r \in Slot, NEW o \in Org, RemoveMember(r, o)
    PROVE  \E u \in Email : Promised!Leave(o, u)
  <1>1. Only(r) /\ req[r].pc = "remove" /\ req[r].org = {o} /\ req'[r] = Blank
    BY RemoveMemberMoves DEF Inv
  <1>2. PICK u \in Email : req[r].whom = {u}
    BY <1>1 DEF Inv, Shapes, Shape, Single, TypeOK, Request
  <1>3. PICK v \in Email : req[r].by = {v} /\ v # u
    BY <1>1, <1>2 DEF Inv, Shapes, Shape, Single, TypeOK, Request
  <1>4. o \notin overlapped => <<o, v>> \in members
    BY <1>1, <1>3 DEF Inv, SoleRemoval, Removing, MembersOf
  <1>5. members' = members \ {<<o, u>>}
    BY <1>2 DEF RemoveMember
  <1>6. Asks(req[r], <<"remove", o, u>>)
    BY <1>1, <1>2 DEF Asks, Inv, Shapes, Shape
  <1>7. <<"remove", o, u>> \in Asked /\ Asked' \in {Asked, Asked \ {<<"remove", o, u>>}}
    BY <1>1, <1>2, <1>6, EndsAsking
  <1>8. QED
    BY <1>3, <1>4, <1>5, <1>7 DEF RemoveMember, Promised!Leave, Promised!Done

\* The account an invitation has inserted becomes visible with the membership.
LEMMA InviteCommitRefines ==
    ASSUME Inv, NEW r \in Slot, NEW o \in Org, NEW e \in Email, InviteCommit(r, o, e)
    PROVE  Promised!Join(o, e) \/ Promised!Withdraw("invite", o, e)
  <1>1. /\ Only(r) /\ req[r].pc = "commit" /\ req[r].org = {o} /\ req[r].whom = {e}
        /\ req'[r] = Blank
    BY InviteCommitMoves DEF Inv
  <1>2. Asks(req[r], <<"invite", o, e>>)
    BY <1>1 DEF Asks, Inv, Shapes, Shape
  <1>3. <<"invite", o, e>> \in Asked /\ Asked' \in {Asked, Asked \ {<<"invite", o, e>>}}
    BY <1>1, <1>2, EndsAsking
  <1>4. CASE req[r].joins
    <2>1. accounts \cup req[r].row = accounts \cup {e}
      BY <1>1 DEF Inv, Shapes, Shape, AccountFacts
    <2>2. QED
      BY <1>3, <1>4, <2>1 DEF InviteCommit, Promised!Join, Promised!Done
  <1>5. CASE ~req[r].joins
    <2>1. req[r].row = {}
      BY <1>1, <1>5 DEF Inv, AccountFacts
    <2>2. QED
      BY <1>3, <1>5, <2>1 DEF InviteCommit, Promised!Withdraw, Promised!Done
  <1>6. QED
    BY <1>4, <1>5

LEMMA InviteRefines ==
    ASSUME Inv, NEW r \in Slot, NEW e \in Email, Invite(r, e)
    PROVE  Silent
  <1>1. Only(r) /\ Carried(r) /\ req[r].pc = "invite" /\ req'[r].pc = "account"
    BY InviteMoves DEF Inv
  <1>2. Asked' = Asked
    BY <1>1, InvitingSilent
  <1>3. QED
    BY <1>2 DEF Invite, Silent

LEMMA InviteAccountRefines ==
    ASSUME Inv, NEW r \in Slot, NEW e \in Email, InviteAccount(r, e)
    PROVE  Promised!Next \/ Silent
  <1>1. UNCHANGED <<accounts, orgs, members, founded, overlapped>>
    BY DEF InviteAccount
  <1>2. /\ Only(r) /\ req[r].pc = "account"
        /\ req'[r] = Blank \/ (Carried(r) /\ req'[r].pc = "member")
    BY InviteAccountMoves DEF Inv
  <1>3. CASE req'[r] = Blank
    BY <1>1, <1>2, <1>3, EndRefines DEF Promised!Next
  <1>4. CASE Carried(r) /\ req'[r].pc = "member"
    BY <1>1, <1>2, <1>4, InvitingSilent DEF Silent
  <1>5. QED
    BY <1>2, <1>3, <1>4

LEMMA InviteMemberRefines ==
    ASSUME Inv, NEW r \in Slot, NEW o \in Org, NEW e \in Email, InviteMember(r, o, e)
    PROVE  Silent
  <1>1. Only(r) /\ Carried(r) /\ req[r].pc = "member" /\ req'[r].pc = "commit"
    BY InviteMemberMoves DEF Inv
  <1>2. Asked' = Asked
    BY <1>1, InvitingSilent
  <1>3. QED
    BY <1>2 DEF InviteMember, Silent

LEMMA ArriveRefines ==
    ASSUME Inv, NEW r \in Slot, NEW s \in Spelling, NEW w \in Spelling, NEW o \in Org,
           NEW op \in {"other", "create", "invite", "remove"}, Arrive(r, s, op, o, w)
    PROVE  Silent
  <1>1. Only(r) /\ req[r].pc = "idle" /\ req'[r].pc = "auth"
    BY ArriveMoves DEF Inv
  <1>2. Asked' = Asked
    BY <1>1, BeforeSilent
  <1>3. QED
    BY <1>2 DEF Arrive, Silent

LEMMA AbortRefines ==
    ASSUME Inv, NEW r \in Slot, Abort(r)
    PROVE  Promised!Next \/ Silent
  <1>1. Only(r) /\ req'[r] = Blank
    BY AbortMoves DEF Inv
  <1>2. UNCHANGED <<accounts, orgs, members, founded, overlapped>>
    BY DEF Abort
  <1>3. QED
    BY <1>1, <1>2, EndRefines DEF Promised!Next

\* The handlers implement the roster, however their statements interleave and
\* wherever they fail.
THEOREM RefinesRoster == Spec => RosterSpec
  <1>1. Init => Promised!Init /\ FoundedInv
    BY DEF Init, Promised!Init, FoundedInv, Blank, Asked, Asks
  <1>2. Inv /\ FoundedInv /\ [Next]_vars
        => [Promised!Next]_<<accounts, orgs, members, founded, Asked, overlapped>>
    <2> SUFFICES ASSUME Inv, FoundedInv, [Next]_vars
                 PROVE  Promised!Next \/ Silent
      BY DEF Silent
    <2>1. ASSUME NEW r \in Slot, NEW e \in Email,
                 Authenticate(r, e) \/ Invite(r, e) \/ InviteAccount(r, e)
          PROVE  Promised!Next \/ Silent
      <3>1. ASSUME Authenticate(r, e) PROVE Promised!Next \/ Silent
        BY <3>1, AuthenticateRefines DEF Promised!Next
      <3>2. QED
        BY <2>1, <3>1, InviteRefines, InviteAccountRefines
    <2>2. ASSUME NEW r \in Slot, NEW o \in Org, \/ CreateOrganization(r, o) \/ AddOwner(r, o)
                                                \/ Access(r, o) \/ RemoveMember(r, o)
          PROVE  Promised!Next \/ Silent
      BY <2>2, CreateOrganizationRefines, AddOwnerRefines, AccessRefines, RemoveMemberRefines
         DEF Promised!Next
    <2>3. ASSUME NEW r \in Slot, NEW o \in Org, NEW e \in Email,
                 InviteMember(r, o, e) \/ InviteCommit(r, o, e)
          PROVE  Promised!Next \/ Silent
      BY <2>3, InviteCommitRefines, InviteMemberRefines DEF Promised!Next
    <2>4. ASSUME NEW r \in Slot, NEW s \in Spelling, NEW w \in Spelling, NEW o \in Org,
                 NEW op \in {"other", "create", "invite", "remove"}, Arrive(r, s, op, o, w)
          PROVE  Silent
      BY <2>4, ArriveRefines
    <2>5. ASSUME NEW r \in Slot, Abort(r) PROVE Promised!Next \/ Silent
      BY <2>5, AbortRefines
    <2>6. CASE UNCHANGED vars
      BY <2>6 DEF vars, Silent, Asked
    <2>7. QED
      BY <2>1, <2>2, <2>3, <2>4, <2>5, <2>6 DEF Next, Handle
  <1>3. Init => Inv
    BY InitInv
  <1>4. QED
    BY <1>1, <1>2, <1>3, FoundedStep, StepInv, PTL
       DEF Spec, RosterSpec, Promised!Spec, Promised!vars
=============================================================================
