----------------------------- MODULE MembersPage -----------------------------
(***************************************************************************)
(* The members of an organization: a list that is loaded for the selected  *)
(* organization, a dialog that invites and one that removes.  Both load    *)
(* the list again when they are done, which the list refuses while an      *)
(* answer is on the way, such as that to the other dialog's reload.        *)
(***************************************************************************)
EXTENDS Naturals, WebClient

CONSTANTS
    Person,     \* users, by e-mail address
    Self,       \* the user at the page
    MaxDialogs, \* bound: invitations and removals a user confirms
    MaxRoutes   \* bound: changes of the selected organization

ASSUME MembersPageAssumption ==
    /\ Self \in Person
    /\ MaxDialogs \in Nat /\ MaxRoutes \in Nat
    /\ \A P \in SUBSET Person : P # Nothing
    /\ \A f \in [org : Org, people : (SUBSET Person) \cup {Nothing}] : f # Nothing
    /\ \A c \in [org : Org, who : Person, phase : {"sent", "done", "refused"}] : c # Nothing

VARIABLES
    people,     \* database: the members of each organization
    pageOrg,    \* selectedOrg(), Nothing while the context is loading
    members,    \* the resource; its flight is [org, people]
    dialog,     \* loading() and removeLoading(): the call each dialog waits for, or Nothing
    message,    \* error(), which the dialogs share: the dialog it is from
    dialogs,    \* [confirmed, routes] so far
    unreloaded, \* history: a reload was refused, and none has been made since
    unheard     \* history: an answer was lost, and the list not been loaded since

membersVars == <<people, pageOrg, members, dialog, message, dialogs, unreloaded, unheard>>

Dialog == {"invite", "remove"}

MembersOf(o) ==
    IF o = Nothing THEN Unrequested ELSE Requested([org |-> o, people |-> Nothing])

MembersInit ==
    /\ people \in [Org -> {P \in SUBSET Person : Self \in P}]
    /\ pageOrg \in Org
    /\ members = MembersOf(pageOrg)
    /\ dialog = [d \in Dialog |-> Nothing]
    /\ message = Nothing
    /\ dialogs = [confirmed |-> 0, routes |-> 0]
    /\ unreloaded = FALSE
    /\ unheard = FALSE

\* The context loads again or the route changes: the request is another one even for the
\* same organization.
RouteTo(o) ==
    /\ dialogs.routes < MaxRoutes
    /\ dialogs' = [dialogs EXCEPT !.routes = @ + 1]
    /\ pageOrg' = o
    /\ members' = MembersOf(o)
    /\ unreloaded' = FALSE /\ unheard' = FALSE
    /\ UNCHANGED <<people, dialog, message>>

ReadMembers ==
    /\ members.flight # Nothing /\ members.flight.people = Nothing
    /\ members' = [members EXCEPT !.flight.people = people[members.flight.org]]
    /\ UNCHANGED <<people, pageOrg, dialog, message, dialogs, unreloaded, unheard>>

MembersLoaded ==
    /\ members.flight # Nothing /\ members.flight.people # Nothing
    /\ members' = Resolved(members.flight.people)
    /\ UNCHANGED <<people, pageOrg, dialog, message, dialogs, unreloaded, unheard>>

MembersFail ==
    /\ members.flight # Nothing
    /\ members' = Broken
    /\ UNCHANGED <<people, pageOrg, dialog, message, dialogs, unreloaded, unheard>>

Listed == IF members.status = "error" \/ members.value = Nothing THEN {} ELSE members.value

\* onSubmit and removeUser, for a member that is listed.
Confirm(d, who) ==
    /\ pageOrg # Nothing
    /\ dialog[d] = Nothing
    /\ d = "remove" => who \in Listed
    /\ dialogs.confirmed < MaxDialogs
    /\ dialogs' = [dialogs EXCEPT !.confirmed = @ + 1]
    /\ dialog' = [dialog EXCEPT ![d] = [org |-> pageOrg, who |-> who, phase |-> "sent"]]
    /\ message' = Nothing
    /\ UNCHANGED <<people, pageOrg, members, unreloaded, unheard>>

\* The API: inviting a member again changes nothing, removing oneself is refused.
ServeDialog(d) ==
    LET c == dialog[d]
        refuse == d = "remove" /\ c.who = Self
    IN /\ c # Nothing /\ c.phase = "sent"
       /\ dialog' = [dialog EXCEPT ![d].phase = IF refuse THEN "refused" ELSE "done"]
       /\ people' = IF refuse THEN people
                    ELSE [people EXCEPT ![c.org] =
                             IF d = "invite" THEN @ \cup {c.who} ELSE @ \ {c.who}]
       /\ UNCHANGED <<pageOrg, members, message, dialogs, unreloaded, unheard>>

\* Mutant: only the invitation loads the list again.
DialogDoneOnce(d) ==
    /\ dialog[d] # Nothing /\ dialog[d].phase = "done"
    /\ dialog' = [dialog EXCEPT ![d] = Nothing]
    /\ message' = IF d = "remove" THEN Nothing ELSE message
    /\ members' = IF d = "remove" THEN members
                  ELSE Reloaded(members, [org |-> pageOrg, people |-> Nothing])
    /\ unreloaded' = (members.flight # Nothing)
    /\ unheard' = (unheard /\ members.flight # Nothing)
    /\ UNCHANGED <<people, pageOrg, dialogs>>

\* The dialog closes, the list is told to reload.
DialogDone(d) ==
    /\ dialog[d] # Nothing /\ dialog[d].phase = "done"
    /\ dialog' = [dialog EXCEPT ![d] = Nothing]
    /\ message' = IF d = "remove" THEN Nothing ELSE message
    /\ members' = Reloaded(members, [org |-> pageOrg, people |-> Nothing])
    /\ unreloaded' = (members.flight # Nothing)
    /\ unheard' = (unheard /\ members.flight # Nothing)
    /\ UNCHANGED <<people, pageOrg, dialogs>>

DialogFails(d) ==
    /\ dialog[d] # Nothing
    /\ dialog' = [dialog EXCEPT ![d] = Nothing]
    /\ message' = d
    /\ unheard' = (unheard \/ dialog[d].phase = "done")
    /\ UNCHANGED <<people, pageOrg, members, dialogs, unreloaded>>

\* closeRemoveDialog
CancelRemove ==
    /\ message # Nothing /\ Listed # {}
    /\ message' = Nothing
    /\ UNCHANGED <<people, pageOrg, members, dialog, dialogs, unreloaded, unheard>>

MembersNext ==
    \/ \E o \in Org \cup {Nothing} : RouteTo(o)
    \/ ReadMembers \/ MembersLoaded \/ MembersFail \/ CancelRemove
    \/ \E d \in Dialog :
          \/ \E who \in Person : Confirm(d, who)
          \/ ServeDialog(d) \/ DialogDone(d) \/ DialogFails(d)

MembersSpec == MembersInit /\ [][MembersNext]_membersVars

-----------------------------------------------------------------------------
(* Properties *)

MembersTypeOK ==
    /\ people \in [Org -> SUBSET Person]
    /\ pageOrg \in Org \cup {Nothing}
    /\ members \in [status : {"idle", "loading", "reloading", "resolved", "error"},
                    value : (SUBSET Person) \cup {Nothing},
                    flight : [org : Org, people : (SUBSET Person) \cup {Nothing}] \cup {Nothing}]
    /\ dialog \in [Dialog -> {Nothing} \cup
                      [org : Org, who : Person, phase : {"sent", "done", "refused"}]]
    /\ message \in Dialog \cup {Nothing}
    /\ dialogs \in [confirmed : 0 .. MaxDialogs, routes : 0 .. MaxRoutes]
    /\ <<unreloaded, unheard>> \in BOOLEAN \X BOOLEAN

\* With both dialogs closed a list that has loaded is the organization's, unless a dialog was
\* done while an answer was awaited, or its own answer was lost: then the list may stay as old
\* as it is until it is next loaded.
ListTruthful ==
    (members.status = "resolved" /\ ~unreloaded /\ ~unheard
        /\ \A d \in Dialog : dialog[d] = Nothing)
    => members.value = people[pageOrg]

\* No dialog has changed the members without having told the list.
Told == ~unreloaded /\ ~unheard /\ \A d \in Dialog : dialog[d] # Nothing => dialog[d].phase # "done"

\* What the list has, or is about to get, is the present state unless a dialog is about to
\* have it loaded again.
MembersFacts ==
    /\ members.status = "idle" <=> pageOrg = Nothing
    /\ members.flight # Nothing <=> members.status \in {"loading", "reloading"}
    /\ members.flight # Nothing => members.flight.org = pageOrg
    /\ Told /\ members.flight # Nothing =>
          members.flight.people \in {Nothing, people[pageOrg]}
    /\ Told /\ members.status = "resolved" => members.value = people[pageOrg]

\* The inductive invariant.
MembersInv == MembersTypeOK /\ MembersFacts /\ ListTruthful

=============================================================================
