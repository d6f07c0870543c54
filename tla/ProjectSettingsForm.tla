------------------------ MODULE ProjectSettingsForm -------------------------
(***************************************************************************)
(* The settings page of a project.  Links beside the form lead from one    *)
(* project to the next without leaving the page: its form is filled again  *)
(* from the project selected by then.  Loading replaces an earlier load,   *)
(* but a save that is under way is not cancelled, and the stream of loads  *)
(* ends with its first error.  A project created without a URL has no      *)
(* settings yet: the form then keeps what it had.                          *)
(***************************************************************************)
EXTENDS Naturals, WebClient

CONSTANTS
    Setting,    \* URL, authentication and telemetry of a project
    Invalid,    \* the settings the form's validator rejects
    Unusable,   \* the settings the API rejects: their URL has no scheme or no host
    Blank,      \* the form before anything is loaded, and without a URL
    NoRevision, \* what is stored for a project until its settings are saved first
    Stored,     \* the projects' settings there may be when the page is opened
    MaxWrites   \* bound: saves and deletions a user starts

ASSUME SettingsFormAssumption ==
    /\ Setting \cap {Nothing, NoRevision, "none", "asked"} = {}
    /\ NoRevision \notin {Nothing, "none", "asked"}
    /\ Invalid \subseteq Setting /\ Unusable \subseteq Setting
    /\ Blank \in Unusable \ Invalid
    /\ Stored \subseteq [Project -> (Setting \ Invalid) \cup {NoRevision}]
    /\ MaxWrites \in Nat

WriteRequest ==
    [kind : {"put", "delete"}, project : Project, value : Setting \ Invalid,
     of : Project \cup {Nothing}, kept : BOOLEAN, result : {"sent", "done", "refused"}]

\* A request is an object, not undefined.
ASSUME NothingIsNoRequest == Nothing \notin WriteRequest

VARIABLES
    settings,     \* the settings in the database; Nothing for a deleted project
    chosen,     \* selectedProject(), Nothing while the context is loading
    load,       \* the request for a summary [id, answer]
    ended,      \* the stream of loads has ended with an error
    form,       \* [of, value, enabled, edited, kept]; the history is of, whose settings it was
                \* last filled with, edited, and kept, whether the last project had none
    busy,       \* loading()
    writes,     \* by number, the saves and deletions without an answer yet
    writeCount,
    onPage,
    crossed     \* history: a load began during a save, or has failed

settingsVars == <<settings, chosen, load, ended, form, busy, writes, writeCount, onPage,
                  crossed>>

Write == 1 .. MaxWrites
Writing == {i \in Write : writes[i] # Nothing}
Saving == {i \in Writing : writes[i].kind = "put"}

NoLoad == [id |-> Nothing, answer |-> "none"]

SettingsInit ==
    /\ settings \in Stored
    /\ chosen = Nothing
    /\ load = NoLoad
    /\ ended = FALSE
    /\ form = [of |-> Nothing, value |-> Blank, enabled |-> TRUE, edited |-> FALSE,
               kept |-> FALSE]
    /\ busy = FALSE
    /\ writes = [i \in Write |-> Nothing]
    /\ writeCount = 0
    /\ onPage = TRUE
    /\ crossed = FALSE

\* Mutant: the form stays open while the next project's settings are loading.
ChooseOpen(p) ==
    /\ onPage
    /\ p # chosen
    /\ chosen' = p
    /\ IF ended \/ p = Nothing
       THEN UNCHANGED <<load, form, busy, crossed>>
       ELSE /\ load' = [id |-> p, answer |-> "asked"]
            /\ crossed' = (crossed \/ Saving # {})
            /\ UNCHANGED <<form, busy>>
    /\ UNCHANGED <<settings, ended, writes, writeCount, onPage>>

\* Another project is selected, or the context is loading or has loaded again
\* (distinctUntilChanged: p # chosen).
Choose(p) ==
    /\ onPage
    /\ p # chosen
    /\ chosen' = p
    /\ IF ended \/ p = Nothing
       THEN UNCHANGED <<load, form, busy, crossed>>
       ELSE /\ load' = [id |-> p, answer |-> "asked"]
            /\ form' = [form EXCEPT !.enabled = FALSE]
            /\ busy' = TRUE
            /\ crossed' = (crossed \/ Saving # {})
    /\ UNCHANGED <<settings, ended, writes, writeCount, onPage>>

\* GET /projects/{id}: the answer is what is stored when the request is served.
GetSummary ==
    /\ onPage
    /\ load.answer = "asked"
    /\ load' = [load EXCEPT !.answer = settings[load.id]]
    /\ UNCHANGED <<settings, chosen, ended, form, busy, writes, writeCount, onPage, crossed>>

\* updateFormValues fills the form with the latest revision; without one the form opens with
\* what it had, the previous project's settings or what was typed over them.
Loaded ==
    /\ onPage
    /\ load.answer \in Setting \cup {NoRevision}
    /\ form' = IF load.answer = NoRevision
               THEN [form EXCEPT !.enabled = TRUE, !.kept = TRUE]
               ELSE [of |-> load.id, value |-> load.answer, enabled |-> TRUE, edited |-> FALSE,
                     kept |-> FALSE]
    /\ busy' = FALSE
    /\ load' = NoLoad
    /\ UNCHANGED <<settings, chosen, ended, writes, writeCount, onPage, crossed>>

\* Mutant: a failed load leaves the form closed.
LoadFailsClosed ==
    /\ onPage
    /\ load # NoLoad
    /\ ended' = TRUE
    /\ load' = NoLoad
    /\ crossed' = TRUE
    /\ UNCHANGED <<settings, chosen, form, busy, writes, writeCount, onPage>>

\* The project is gone, or the request or its answer is lost.
LoadFails ==
    /\ onPage
    /\ load # NoLoad
    /\ form' = [form EXCEPT !.enabled = TRUE]
    /\ busy' = FALSE
    /\ ended' = TRUE
    /\ load' = NoLoad
    /\ crossed' = TRUE
    /\ UNCHANGED <<settings, chosen, writes, writeCount, onPage>>

Edit(v) ==
    /\ onPage
    /\ form.enabled
    /\ form' = [form EXCEPT !.value = v, !.edited = TRUE]
    /\ UNCHANGED <<settings, chosen, load, ended, busy, writes, writeCount, onPage, crossed>>

Start(w) ==
    /\ writeCount < MaxWrites
    /\ writeCount' = writeCount + 1
    /\ writes' = [writes EXCEPT ![writeCount + 1] = w]

\* Without a project nothing is sent and the form stays closed until one is loaded.
Submit ==
    /\ onPage
    /\ ~busy
    /\ form.value \notin Invalid
    /\ busy' = TRUE
    /\ form' = [form EXCEPT !.enabled = FALSE]
    /\ IF chosen # Nothing
       THEN Start([kind |-> "put", project |-> chosen, value |-> form.value, of |-> form.of,
                   kept |-> form.kept, result |-> "sent"])
       ELSE UNCHANGED <<writes, writeCount>>
    /\ UNCHANGED <<settings, chosen, load, ended, onPage, crossed>>

\* The dialog's button; nothing is disabled while the deletion is under way.
Delete ==
    /\ onPage
    /\ chosen # Nothing
    /\ Start([kind |-> "delete", project |-> chosen, value |-> Blank, of |-> chosen,
              kept |-> FALSE, result |-> "sent"])
    /\ UNCHANGED <<settings, chosen, load, ended, form, busy, onPage, crossed>>

\* The API writes, unless the project is gone or the URL not one it can use.
Serve(i) ==
    /\ writes[i].result = "sent"
    /\ LET w == writes[i] IN
       IF settings[w.project] = Nothing \/ (w.kind = "put" /\ w.value \in Unusable)
       THEN /\ writes' = [writes EXCEPT ![i].result = "refused"]
            /\ UNCHANGED settings
       ELSE /\ writes' = [writes EXCEPT ![i].result = "done"]
            /\ settings' = [settings EXCEPT ![w.project] = IF w.kind = "put" THEN w.value ELSE Nothing]
    /\ UNCHANGED <<chosen, load, ended, form, busy, writeCount, onPage, crossed>>

\* Mutant: the form is reset to what it was at first.
SavedBlank(i) ==
    /\ writes[i].kind = "put" /\ writes[i].result = "done"
    /\ writes' = [writes EXCEPT ![i] = Nothing]
    /\ form' = [of |-> writes[i].project, value |-> Blank, enabled |-> TRUE, edited |-> FALSE,
                kept |-> FALSE]
    /\ busy' = FALSE
    /\ UNCHANGED <<settings, chosen, load, ended, writeCount, onPage, crossed>>

\* The form shows what was saved, and of which project, whatever it shows now.
Saved(i) ==
    /\ writes[i].kind = "put" /\ writes[i].result = "done"
    /\ writes' = [writes EXCEPT ![i] = Nothing]
    /\ form' = [of |-> writes[i].project, value |-> writes[i].value, enabled |-> TRUE,
                edited |-> FALSE, kept |-> FALSE]
    /\ busy' = FALSE
    /\ UNCHANGED <<settings, chosen, load, ended, writeCount, onPage, crossed>>

\* A save that is refused, or whose answer is lost after it was or was not done.
SaveFails(i) ==
    /\ writes[i].kind = "put"
    /\ writes' = [writes EXCEPT ![i] = Nothing]
    /\ form' = [form EXCEPT !.enabled = TRUE, !.edited = TRUE]
    /\ busy' = FALSE
    /\ UNCHANGED <<settings, chosen, load, ended, writeCount, onPage, crossed>>

\* registerDeletedProject makes the context load again; the user is taken to the
\* organization's settings.
Deleted(i) ==
    /\ writes[i].kind = "delete" /\ writes[i].result = "done"
    /\ writes' = [writes EXCEPT ![i] = Nothing]
    /\ chosen' = Nothing
    /\ onPage' = FALSE
    /\ UNCHANGED <<settings, load, ended, form, busy, writeCount, crossed>>

DeleteFails(i) ==
    /\ writes[i].kind = "delete"
    /\ writes' = [writes EXCEPT ![i] = Nothing]
    /\ UNCHANGED <<settings, chosen, load, ended, form, busy, writeCount, onPage, crossed>>

\* Somebody else deletes the project.
OthersDelete(p) ==
    /\ settings[p] # Nothing
    /\ settings' = [settings EXCEPT ![p] = Nothing]
    /\ UNCHANGED <<chosen, load, ended, form, busy, writes, writeCount, onPage, crossed>>

SettingsAnswers ==
    \/ GetSummary \/ Loaded \/ LoadFails
    \/ \E i \in Writing : Serve(i) \/ Saved(i) \/ SaveFails(i) \/ Deleted(i) \/ DeleteFails(i)

SettingsNext ==
    \/ \E p \in Project \cup {Nothing} : Choose(p)
    \/ \E v \in Setting : Edit(v)
    \/ \E p \in Project : OthersDelete(p)
    \/ Submit \/ Delete \/ SettingsAnswers

SettingsSpec == SettingsInit /\ [][SettingsNext]_settingsVars

\* The API answers, or the browser reports that it has not.
SettingsFairness ==
    /\ WF_settingsVars(GetSummary \/ Loaded \/ LoadFails)
    /\ WF_settingsVars(\E i \in Saving : Serve(i) \/ Saved(i) \/ SaveFails(i))

-----------------------------------------------------------------------------
(* Properties *)

SettingsTypeOK ==
    /\ settings \in [Project -> (Setting \ Invalid) \cup {NoRevision, Nothing}]
    /\ chosen \in Project \cup {Nothing}
    /\ load \in [id : Project \cup {Nothing},
                 answer : {"none", "asked", NoRevision, Nothing} \cup Setting]
    /\ form \in [of : Project \cup {Nothing}, value : Setting, enabled : BOOLEAN,
                 edited : BOOLEAN, kept : BOOLEAN]
    /\ writes \in [Write -> {Nothing} \cup WriteRequest]
    /\ writeCount \in 0 .. MaxWrites
    /\ <<ended, busy, onPage, crossed>> \in BOOLEAN \X BOOLEAN \X BOOLEAN \X BOOLEAN

\* What a user saves was loaded from, or typed over the settings of, the project it is saved
\* to, unless a load failed, the user changed projects during a save, or that project had no
\* settings when it was loaded: then one project's settings are shown, and can be saved, under
\* another's name.
SavesToItsProject ==
    ~crossed => \A i \in Saving : writes[i].kept \/ writes[i].of = writes[i].project

\* With nobody else saving, an open form that has not been edited shows what is stored, if
\* anything is: also for a project whose first settings were saved from this form.
ShowsStored ==
    (/\ onPage /\ ~crossed /\ ~busy /\ ~form.edited
     /\ chosen # Nothing /\ settings[chosen] \in Setting)
    => form.of = chosen /\ form.value = settings[chosen]

\* A load is of a project.  Under ~crossed loads and saves exclude each other, both keep the
\* form closed, and what they carry is stored or the project is deleted.
SettingsFacts ==
    /\ load # NoLoad => load.id \in Project
    /\ ~crossed =>
        /\ ~ended
        /\ load # NoLoad => busy /\ Saving = {} /\ chosen \in {load.id, Nothing}
        /\ load.answer \in Setting \cup {NoRevision} =>
              settings[load.id] \in {load.answer, Nothing}
        /\ \A i \in Saving :
              /\ busy
              /\ \A j \in Saving : i = j
              /\ form.kept \/ form.of = writes[i].project
              /\ chosen \in {writes[i].project, Nothing}
              /\ writes[i].result = "done" =>
                    settings[writes[i].project] \in {writes[i].value, Nothing}
        /\ onPage /\ ~busy /\ chosen # Nothing => form.kept \/ form.of = chosen

\* The inductive invariant.
SettingsInv == SettingsTypeOK /\ SettingsFacts /\ SavesToItsProject /\ ShowsStored

\* A form that waits does so for a load or a save that is to be answered: a load that is
\* replaced, a project that is deselected for a while or a deletion does not leave it closed.
FormWaits ==
    onPage /\ busy /\ chosen # Nothing /\ ~ended => load # NoLoad \/ Saving # {}

\* A form that waits opens again while its project stays selected, even after a load has
\* failed; only a form submitted without a project after that stays closed.
FormOpens ==
    \A p \in Project :
        (busy /\ chosen = p /\ (~ended \/ Saving # {})) ~> (~busy \/ chosen # p \/ ~onPage)

=============================================================================
