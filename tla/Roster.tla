------------------------------- MODULE Roster -------------------------------
(***************************************************************************)
(* What the API promises about people and organizations, whatever requests *)
(* overlap or fail half way.  A name is registered once; an organization   *)
(* gets its first member once and takes no one before; after that nobody   *)
(* becomes a member, or ceases to be one, unless a member has asked for    *)
(* it; and nobody leaves who is the last member, unless two removals have  *)
(* been under way at once.  A new member has an account by then.           *)
(* Membership shows that the handlers implement this roster.               *)
(***************************************************************************)
CONSTANTS Email, Org

VARIABLES
    accounts,   \* who has an account
    orgs,       \* the names that are taken
    members,    \* pairs of an organization and a person
    founded,    \* the organizations that have had their first member
    asked,      \* what members have asked for: <<"invite" or "remove", organization, person>>
    contested   \* the organizations in which two removals have been under way at once

vars == <<accounts, orgs, members, founded, asked, contested>>

Init ==
    /\ accounts = {} /\ orgs = {} /\ members = {} /\ founded = {}
    /\ asked = {} /\ contested = {}

SignUp(u) ==
    /\ accounts' = accounts \cup {u}
    /\ UNCHANGED <<orgs, members, founded, asked, contested>>

Register(o) ==
    /\ o \notin orgs
    /\ orgs' = orgs \cup {o}
    /\ UNCHANGED <<accounts, members, founded, asked, contested>>

\* The creator, who has an account, becomes the first and only member.
Found(o, u) ==
    /\ o \in orgs \ founded /\ u \in accounts
    /\ \A v \in Email : <<o, v>> \notin members
    /\ founded' = founded \cup {o}
    /\ members' = members \cup {<<o, u>>}
    /\ UNCHANGED <<accounts, orgs, asked, contested>>

\* A member asks for a change; nobody removes themselves.
Ask(op, o, u) ==
    /\ \E v \in Email : <<o, v>> \in members /\ (op = "remove" => v # u)
    /\ asked' = asked \cup {<<op, o, u>>}
    /\ contested' = IF op = "remove" /\ \E w \in Email : <<"remove", o, w>> \in asked
                    THEN contested \cup {o} ELSE contested
    /\ UNCHANGED <<accounts, orgs, members, founded>>

\* A request ends; another one may have asked for the same.
Done(op, o, u) == asked' \in {asked, asked \ {<<op, o, u>>}}

Withdraw(op, o, u) ==
    /\ Done(op, o, u)
    /\ UNCHANGED <<accounts, orgs, members, founded, contested>>

\* Account and membership are one change.
Join(o, u) ==
    /\ <<"invite", o, u>> \in asked
    /\ accounts' = accounts \cup {u}
    /\ members' = members \cup {<<o, u>>}
    /\ Done("invite", o, u)
    /\ UNCHANGED <<orgs, founded, contested>>

Leave(o, u) ==
    /\ <<"remove", o, u>> \in asked
    /\ o \in contested \/ \E v \in Email \ {u} : <<o, v>> \in members
    /\ members' = members \ {<<o, u>>}
    /\ Done("remove", o, u)
    /\ UNCHANGED <<accounts, orgs, founded, contested>>

Next ==
    \/ \E u \in Email : SignUp(u)
    \/ \E o \in Org : Register(o)
    \/ \E o \in Org, u \in Email :
          \/ Found(o, u) \/ Join(o, u) \/ Leave(o, u)
          \/ \E op \in {"invite", "remove"} : Ask(op, o, u) \/ Withdraw(op, o, u)

Spec == Init /\ [][Next]_vars
=============================================================================
