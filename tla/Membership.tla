----------------------------- MODULE Membership -----------------------------
(***************************************************************************)
(* Accounts, organizations and their members.  Every API request passes    *)
(* AuthMiddleware, which creates the caller's account at the first one;    *)
(* POST /organizations, PUT .../members and DELETE .../members/{userId}    *)
(* then change the tables Organization, UserAccount and                    *)
(* Organization_UserAccount.  One goroutine serves each request; a step is *)
(* one statement of PostgreSQL with the computation around it, except that *)
(* GetUserByEmailOrCreate is two steps, since its INSERT may have to wait  *)
(* for another transaction while its SELECT keeps to the snapshot taken at *)
(* the beginning.                                                          *)
(***************************************************************************)
EXTENDS Naturals

CONSTANTS
    Spelling,   \* e-mail addresses as tokens and invitations spell them
    Email,      \* the same in lower case: the key of UserAccount
    Lower,      \* strings.ToLower
    Org,        \* the names of organizations
    Slot,       \* goroutines
    CanAbort    \* whether a query may fail or a request be cancelled

ASSUME MembershipAssumption ==
    /\ Lower \in [Spelling -> Email]
    /\ CanAbort \in BOOLEAN

VARIABLES
    accounts,   \* the e-mails of the committed rows of UserAccount
    orgs,       \* the names of the rows of Organization
    members,    \* the committed rows of Organization_UserAccount
    req,        \* the request each slot is serving
    refused,    \* history: who has last been answered 401
    entered,    \* history: who has called the API or become a member
    founded,    \* history: the organizations whose creation has added the first member
    overlapped  \* history: the organizations where two removals have overlapped

vars == <<accounts, orgs, members, req, refused, entered, founded, overlapped>>

-----------------------------------------------------------------------------
(* Requests *)

Request ==
    [pc: {"idle", "auth", "access", "create", "owner", "remove", "invite",
          "account", "member", "commit"},
     op: {"other", "create", "invite", "remove"},
     by: SUBSET Email,       \* the caller, in lower case: a singleton once the slot is busy
     org: SUBSET Org,        \* the organization: a singleton for every op but "other"
     whom: SUBSET Email,     \* who is invited or removed: a singleton for these two
     seen: BOOLEAN,          \* the account was in the snapshot of the get-or-create statement
     row: SUBSET Email,      \* the account the open transaction has inserted
     joins: BOOLEAN]         \* the open transaction has inserted the membership

Blank == [pc |-> "idle", op |-> "other", by |-> {}, org |-> {}, whom |-> {},
          seen |-> FALSE, row |-> {}, joins |-> FALSE]

Active(r) == req[r].pc # "idle"

Goto(r, q) == req' = [req EXCEPT ![r] = q]

Return(r) == Goto(r, Blank)

MembersOf(o) == {u \in Email : <<o, u>> \in members}

\* An INSERT of e waits for the transaction that has inserted the same key.
AccountPending(r, e) == \E s \in Slot \ {r} : e \in req[s].row

MembershipPending(r, o, e) ==
    \E s \in Slot \ {r} : req[s].joins /\ req[s].org = {o} /\ req[s].whom = {e}

-----------------------------------------------------------------------------
Init ==
    /\ accounts = {}
    /\ orgs = {}
    /\ members = {}
    /\ req = [r \in Slot |-> Blank]
    /\ refused = {}
    /\ entered = {}
    /\ founded = {}
    /\ overlapped = {}

\* A request with a valid token arrives, and GetUserByEmailOrCreate takes the
\* snapshot of its statement.
Arrive(r, s, op, o, w) ==
    /\ ~Active(r)
    /\ Goto(r, [Blank EXCEPT !.pc = "auth", !.op = op, !.by = {Lower[s]},
                             !.org = IF op = "other" THEN {} ELSE {o},
                             !.whom = IF op \in {"invite", "remove"} THEN {Lower[w]}
                                                                     ELSE {},
                             !.seen = Lower[s] \in accounts])
    /\ UNCHANGED <<accounts, orgs, members, refused, entered, founded, overlapped>>

\* Where the request goes on after AuthMiddleware.
Admitted(q) ==
    CASE q.op = "other"  -> Blank
      [] q.op = "create" -> [q EXCEPT !.pc = "create"]
      [] OTHER           -> [q EXCEPT !.pc = "access"]

\* AuthMiddleware: the INSERT ... ON CONFLICT DO NOTHING, once nobody's open
\* transaction has the key.  If the account is there and the snapshot does not
\* show it, the statement returns no row and the caller gets 401.
Authenticate(r, e) ==
    /\ req[r].pc = "auth" /\ req[r].by = {e}
    /\ ~AccountPending(r, e)
    /\ \/ /\ req[r].seen \/ e \notin accounts
          /\ accounts' = accounts \cup {e}
          /\ entered' = entered \cup {e}
          /\ refused' = refused \ {e}
          /\ Goto(r, Admitted(req[r]))
       \/ /\ ~req[r].seen /\ e \in accounts
          /\ refused' = refused \cup {e}
          /\ Return(r)
          /\ UNCHANGED <<accounts, entered>>
    /\ UNCHANGED <<orgs, members, founded, overlapped>>

-----------------------------------------------------------------------------
(* POST /organizations *)

\* Mutant: a taken name returns the organization that has it.
CreateOrganizationAgain(r, o) ==
    /\ req[r].pc = "create" /\ req[r].org = {o}
    /\ orgs' = orgs \cup {o}
    /\ Goto(r, [req[r] EXCEPT !.pc = "owner"])
    /\ UNCHANGED <<accounts, members, refused, entered, founded, overlapped>>

\* CreateOrganization: the name is unique.
CreateOrganization(r, o) ==
    /\ req[r].pc = "create" /\ req[r].org = {o}
    /\ orgs' = orgs \cup {o}
    /\ IF o \in orgs THEN Return(r) ELSE Goto(r, [req[r] EXCEPT !.pc = "owner"])
    /\ UNCHANGED <<accounts, members, refused, entered, founded, overlapped>>

\* AddUserToOrganization for the caller, a statement of its own.
AddOwner(r, o) ==
    /\ req[r].pc = "owner" /\ req[r].org = {o}
    /\ members' = members \cup {<<o, u>> : u \in req[r].by}
    /\ founded' = founded \cup {o}
    /\ Return(r)
    /\ UNCHANGED <<accounts, orgs, refused, entered, overlapped>>

-----------------------------------------------------------------------------
(* getOrganizationIfAllowed, for the operations on an organization *)

Removing(s, o) == req[s].pc = "remove" /\ req[s].org = {o}

\* Mutant: members may remove themselves.
AccessOneself(r, o) ==
    /\ req[r].pc = "access" /\ req[r].org = {o}
    /\ IF req[r].by \subseteq MembersOf(o)
       THEN /\ Goto(r, [req[r] EXCEPT !.pc = req[r].op])
            /\ overlapped' = IF req[r].op = "remove" /\ \E s \in Slot : Removing(s, o)
                             THEN overlapped \cup {o} ELSE overlapped
       ELSE /\ Return(r)
            /\ UNCHANGED overlapped
    /\ UNCHANGED <<accounts, orgs, members, refused, entered, founded>>

\* IsUserPartOfOrg, and in deleteOrganizationMember the comparison with the caller.
Access(r, o) ==
    /\ req[r].pc = "access" /\ req[r].org = {o}
    /\ IF /\ req[r].by \subseteq MembersOf(o)
          /\ req[r].op = "remove" => req[r].whom # req[r].by
       THEN /\ Goto(r, [req[r] EXCEPT !.pc = req[r].op])
            /\ overlapped' = IF req[r].op = "remove" /\ \E s \in Slot : Removing(s, o)
                             THEN overlapped \cup {o} ELSE overlapped
       ELSE /\ Return(r)
            /\ UNCHANGED overlapped
    /\ UNCHANGED <<accounts, orgs, members, refused, entered, founded>>

\* RemoveUserFromOrganization: no error if there was no such member.
RemoveMember(r, o) ==
    /\ req[r].pc = "remove" /\ req[r].org = {o}
    /\ members' = members \ {<<o, u>> : u \in req[r].whom}
    /\ Return(r)
    /\ UNCHANGED <<accounts, orgs, refused, entered, founded, overlapped>>

-----------------------------------------------------------------------------
(* PUT /organizations/{id}/members: one transaction *)

\* The transaction begins with the snapshot of GetUserByEmailOrCreate.
Invite(r, e) ==
    /\ req[r].pc = "invite" /\ req[r].whom = {e}
    /\ Goto(r, [req[r] EXCEPT !.pc = "account", !.seen = e \in accounts])
    /\ UNCHANGED <<accounts, orgs, members, refused, entered, founded, overlapped>>

\* Mutant: the statement runs outside the transaction.
InviteAccountOutside(r, e) ==
    /\ req[r].pc = "account" /\ req[r].whom = {e}
    /\ accounts' = accounts \cup {e}
    /\ Goto(r, [req[r] EXCEPT !.pc = "member"])
    /\ UNCHANGED <<orgs, members, refused, entered, founded, overlapped>>

\* Mutant: a statement that has returned no row is repeated on its old snapshot.
InviteAccountAgain(r, e) ==
    /\ req[r].pc = "account" /\ req[r].whom = {e}
    /\ ~AccountPending(r, e)
    /\ IF ~req[r].seen /\ e \in accounts
       THEN UNCHANGED req
       ELSE Goto(r, [req[r] EXCEPT !.pc = "member", !.row = {e} \ accounts])
    /\ UNCHANGED <<accounts, orgs, members, refused, entered, founded, overlapped>>

\* Its INSERT: the new account stays invisible until the commit.  If somebody
\* else has just created it, the statement returns no row and the invitation
\* fails.
InviteAccount(r, e) ==
    /\ req[r].pc = "account" /\ req[r].whom = {e}
    /\ ~AccountPending(r, e)
    /\ IF ~req[r].seen /\ e \in accounts
       THEN Return(r)
       ELSE Goto(r, [req[r] EXCEPT !.pc = "member", !.row = {e} \ accounts])
    /\ UNCHANGED <<accounts, orgs, members, refused, entered, founded, overlapped>>

\* AddUserToOrganization, ON CONFLICT DO NOTHING.
InviteMember(r, o, e) ==
    /\ req[r].pc = "member" /\ req[r].org = {o} /\ req[r].whom = {e}
    /\ ~MembershipPending(r, o, e)
    /\ Goto(r, [req[r] EXCEPT !.pc = "commit", !.joins = <<o, e>> \notin members])
    /\ UNCHANGED <<accounts, orgs, members, refused, entered, founded, overlapped>>

\* RunTx commits; the invitation mail changes no state.
InviteCommit(r, o, e) ==
    /\ req[r].pc = "commit" /\ req[r].org = {o} /\ req[r].whom = {e}
    /\ accounts' = accounts \cup req[r].row
    /\ members' = IF req[r].joins THEN members \cup {<<o, e>>} ELSE members
    /\ entered' = IF req[r].joins THEN entered \cup {e} ELSE entered
    /\ Return(r)
    /\ UNCHANGED <<orgs, refused, founded, overlapped>>

\* A query fails, the client goes away or the process dies.
Abort(r) ==
    /\ CanAbort
    /\ Active(r)
    /\ Return(r)
    /\ UNCHANGED <<accounts, orgs, members, refused, entered, founded, overlapped>>

-----------------------------------------------------------------------------
Handle(r) ==
    \/ \E e \in Email : Authenticate(r, e) \/ Invite(r, e) \/ InviteAccount(r, e)
    \/ \E o \in Org : \/ CreateOrganization(r, o)
                      \/ AddOwner(r, o)
                      \/ Access(r, o)
                      \/ RemoveMember(r, o)
    \/ \E o \in Org, e \in Email : InviteMember(r, o, e) \/ InviteCommit(r, o, e)

Next ==
    \E r \in Slot :
        \/ \E s, w \in Spelling, o \in Org, op \in {"other", "create", "invite", "remove"} :
              Arrive(r, s, op, o, w)
        \/ Handle(r)
        \/ Abort(r)

Spec == Init /\ [][Next]_vars

\* A goroutine is not descheduled for ever, and PostgreSQL grants the lock of an
\* index entry to those who wait for it.
FairSpec ==
    /\ Spec
    /\ \A r \in Slot :
          /\ WF_vars(Handle(r))
          /\ SF_vars(\E e \in Email : \/ Authenticate(r, e)
                                      \/ InviteAccount(r, e)
                                      \/ \E o \in Org : InviteMember(r, o, e))

-----------------------------------------------------------------------------
(* Properties *)

TypeOK ==
    /\ accounts \subseteq Email
    /\ orgs \subseteq Org
    /\ members \subseteq Org \X Email
    /\ req \in [Slot -> Request]
    /\ refused \subseteq Email
    /\ entered \subseteq Email
    /\ founded \subseteq Org
    /\ overlapped \subseteq Org

\* Nobody can remove themselves, so an organization that has got its first member
\* keeps one: whoever removes a member has passed the access check and stays.
\* That needs removals not to overlap, since nothing holds the check's answer
\* until the DELETE.
KeepsMember ==
    \A o \in founded \ overlapped : MembersOf(o) # {}

\* An invitation that fails half way, or that races with another or with the
\* invited person's first request, leaves no account of somebody who has neither
\* called the API nor become a member.
NoGhostAccount == accounts \subseteq entered

\* An organization is created for one caller only, and nobody is made the first
\* member of an organization that already has had one.
CreatedOnce ==
    \A r, s \in Slot : \A o \in Org :
        (req[r].pc = "owner" /\ req[r].org = {o} /\ req[s].pc = "owner" /\ req[s].org = {o})
        => r = s /\ o \notin founded

\* t is what a member asks for with q, from the access check to the end of the request.
Asks(q, t) ==
    /\ q.pc \in {"remove", "invite", "account", "member", "commit"}
    /\ q.op = t[1] /\ q.org = {t[2]} /\ q.whom = {t[3]}

Asked == {t \in {"invite", "remove"} \X Org \X Email : \E r \in Slot : Asks(req[r], t)}

Promised == INSTANCE Roster WITH asked <- Asked, contested <- overlapped

\* The handlers implement the roster: whatever requests overlap or fail between
\* their statements, nobody gets into an organization or out of it except as its
\* creator or because a member asked for it, and the last member stays.
RosterSpec == Promised!Spec

\* r cannot go on before the transaction of s has ended: s has inserted the
\* account or the membership that r is about to insert.
WaitsFor(r, s) ==
    /\ r # s
    /\ \/ req[r].pc = "auth" /\ req[r].by \cap req[s].row # {}
       \/ req[r].pc = "account" /\ req[r].whom \cap req[s].row # {}
       \/ /\ req[r].pc = "member" /\ req[s].joins
          /\ req[s].org = req[r].org /\ req[s].whom = req[r].whom

\* Nobody waits for somebody who waits: although an invitation inserts two rows
\* others may be waiting for, an account nobody else has cannot be invited by
\* anybody else before the commit, so its inserter finds the membership free.
NoWaitChain ==
    \A r, s, t \in Slot : WaitsFor(r, s) => ~WaitsFor(s, t)

\* Every request ends, although requests wait for each other's insertions.
RequestsFinish == \A r \in Slot : Active(r) ~> ~Active(r)

-----------------------------------------------------------------------------
(* The inductive invariant behind the safety properties *)

Single(S) == \E x \in S : S = {x}

\* The local variables of a handler fit the statement it is at.
Shape(q) ==
    /\ q.pc # "idle" => Single(q.by)
    /\ q.pc # "idle" /\ q.op # "other" => Single(q.org)
    /\ q.pc # "idle" /\ q.op \in {"invite", "remove"} => Single(q.whom)
    /\ q.pc \in {"create", "owner"} => q.op = "create"
    /\ q.pc = "access" => q.op \in {"invite", "remove"}
    /\ q.pc = "remove" => q.op = "remove" /\ q.by # q.whom
    /\ q.pc \in {"invite", "account", "member", "commit"} => q.op = "invite"
    /\ q.pc \notin {"member", "commit"} => q.row = {}
    /\ q.row \subseteq q.whom
    /\ q.joins => q.pc = "commit"

Shapes == \A r \in Slot : Shape(req[r])

\* What a request has read of the accounts, which are never deleted, and an
\* account that is not committed yet.
AccountFacts ==
    /\ \A r \in Slot :
          /\ req[r].pc = "auth" /\ req[r].seen => req[r].by \subseteq accounts
          /\ req[r].pc = "account" /\ req[r].seen => req[r].whom \subseteq accounts
          /\ req[r].pc \notin {"idle", "auth"} => req[r].by \subseteq entered
          /\ req[r].row \cap accounts = {}
          /\ req[r].pc \in {"member", "commit"} => req[r].whom \subseteq accounts \cup req[r].row
          /\ req[r].pc = "commit" /\ req[r].row # {} => req[r].joins
    /\ \A r, s \in Slot : \A e \in req[r].row \cap req[s].row : r = s
    /\ entered \subseteq accounts

\* Members are members of known organizations and have been admitted or invited.
MemberFacts ==
    /\ members \subseteq orgs \X entered
    /\ \A r \in Slot : req[r].pc \in {"remove", "invite", "account", "member", "commit"}
                       => req[r].org \subseteq orgs
    /\ founded \subseteq orgs

\* A removal that no other overlaps leaves the caller a member.
SoleRemoval ==
    \A r \in Slot : \A o \in Org \ overlapped :
        Removing(r, o) =>
            /\ req[r].by \subseteq MembersOf(o)
            /\ \A s \in Slot : Removing(s, o) => s = r

\* An organization under creation is registered, and its creator is the only one.
Creations ==
    \A r \in Slot : req[r].pc = "owner" =>
        /\ req[r].org \subseteq orgs \ founded
        /\ \A s \in Slot : req[s].pc = "owner" /\ req[s].org = req[r].org => r = s

Inv ==
    /\ TypeOK
    /\ Shapes
    /\ AccountFacts
    /\ MemberFacts
    /\ SoleRemoval
    /\ Creations
    /\ KeepsMember
    /\ NoGhostAccount

-----------------------------------------------------------------------------
(* What the repository says and the code does not do; see the README. *)

\* "no user found for email" (AuthMiddleware): who is answered 401 has no account.
RefusedUnknown == refused \cap accounts = {}

=============================================================================
