-------------------------- MODULE OrganizationForms --------------------------
(***************************************************************************)
(* The two forms for the settings of an organization: the custom domain    *)
(* and the kind of OAuth client.  A form is filled once, when it opens,    *)
(* from the context, which saving does not load again; each form sends its *)
(* own setting, and the API writes it together with the other one as it    *)
(* was when the request came in.                                           *)
(***************************************************************************)
EXTENDS Naturals, WebClient

CONSTANTS
    Domain,     \* what can be in the field for the domain
    BadDomain,  \* the ones the validator rejects
    NoDomain,   \* the empty field
    MaxSaves,   \* bound: saves a user starts
    MaxOpens    \* bound: forms a user opens or goes back to

ASSUME OrganizationFormsAssumption ==
    /\ BadDomain \subseteq Domain
    /\ NoDomain \in Domain \ BadDomain
    /\ MaxSaves \in Nat /\ MaxOpens \in Nat

VARIABLES
    row,        \* database: the settings of the organizations
    seen,       \* the settings as the context has them
    shownForm,  \* the form that is open [kind, org, number, value, edited, fresh]
    saves,      \* by number, the saves without an answer
    tally,      \* the number of [saves, opens] so far
    outdated,   \* history: organizations with changes the context has not got
    crossing,   \* history: two saves were under way at once
    jumped      \* history: another organization came under an open form

orgFormVars == <<row, seen, shownForm, saves, tally, outdated, crossing, jumped>>

ClientType == {"public", "private"}
Kinds == {"general", "authorization"}
Value(kind) == IF kind = "general" THEN Domain ELSE ClientType
OrgSettings == [general : Domain, authorization : ClientType]

Blanks == [general |-> NoDomain, authorization |-> "private"]
Save == 1 .. MaxSaves
Unsaved == {i \in Save : saves[i] # Nothing}
UpToDate(o) == o \notin outdated /\ \A i \in Unsaved : saves[i].org # o

OrgFormInit ==
    /\ row = [o \in Org |-> Blanks]
    /\ seen = row
    /\ shownForm = Nothing
    /\ saves = [i \in Save |-> Nothing]
    /\ tally = [saves |-> 0, opens |-> 0]
    /\ outdated = {}
    /\ crossing = FALSE
    /\ jumped = FALSE

\* ngOnInit
OpenForm(kind, o) ==
    /\ tally.opens < MaxOpens
    /\ tally' = [tally EXCEPT !.opens = @ + 1]
    /\ shownForm' = [kind |-> kind, org |-> o, number |-> tally.opens + 1,
                     value |-> seen[o][kind], edited |-> FALSE,
                     fresh |-> UpToDate(o)]
    /\ UNCHANGED <<row, seen, saves, outdated, crossing, jumped>>

\* The route's parameter changes and the form stays.  No link leads there, the browser's
\* history does.
JumpBack(o) ==
    /\ shownForm # Nothing /\ o # shownForm.org
    /\ tally.opens < MaxOpens
    /\ tally' = [tally EXCEPT !.opens = @ + 1]
    /\ shownForm' = [shownForm EXCEPT !.org = o]
    /\ jumped' = TRUE
    /\ UNCHANGED <<row, seen, saves, outdated, crossing>>

EditSetting(v) ==
    /\ shownForm # Nothing /\ v \in Value(shownForm.kind)
    /\ shownForm' = [shownForm EXCEPT !.value = v, !.edited = TRUE]
    /\ UNCHANGED <<row, seen, saves, tally, outdated, crossing, jumped>>

CanSave == shownForm # Nothing /\ shownForm.edited /\ shownForm.value \notin BadDomain

\* updateSettings; the button can be clicked again before the answer.
SubmitSetting ==
    /\ CanSave
    /\ tally.saves < MaxSaves
    /\ tally' = [tally EXCEPT !.saves = @ + 1]
    /\ saves' = [saves EXCEPT ![tally.saves + 1] =
                    [org |-> shownForm.org, kind |-> shownForm.kind,
                     value |-> shownForm.value, number |-> shownForm.number,
                     phase |-> "sent", row |-> Nothing]]
    /\ crossing' = (crossing \/ Unsaved # {})
    /\ UNCHANGED <<row, seen, shownForm, outdated, jumped>>

\* Mutant: the settings to keep are those of the context.
ReadRowSeen(i) ==
    /\ saves[i].phase = "sent"
    /\ saves' = [saves EXCEPT ![i] =
                    [saves[i] EXCEPT !.phase = "read", !.row = seen[saves[i].org]]]
    /\ UNCHANGED <<row, seen, shownForm, tally, outdated, crossing, jumped>>

\* PUT /organizations/{id}: the handler reads both settings, changes one and writes both.
ReadRow(i) ==
    /\ saves[i].phase = "sent"
    /\ saves' = [saves EXCEPT ![i] =
                    [saves[i] EXCEPT !.phase = "read", !.row = row[saves[i].org]]]
    /\ UNCHANGED <<row, seen, shownForm, tally, outdated, crossing, jumped>>

WriteRow(i) ==
    LET s == saves[i]
        new == [s.row EXCEPT ![s.kind] = s.value]
    IN /\ s.phase = "read"
       /\ row' = [row EXCEPT ![s.org] = new]
       /\ saves' = [saves EXCEPT ![i] = [s EXCEPT !.phase = "written", !.row = new]]
       /\ outdated' = outdated \cup {s.org}
       /\ UNCHANGED <<seen, shownForm, tally, crossing, jumped>>

\* Mutant: the form is filled from the context again.
SettingSavedReset(i) ==
    LET s == saves[i] IN
    /\ s.phase = "written"
    /\ saves' = [saves EXCEPT ![i] = Nothing]
    /\ shownForm' =
          IF shownForm # Nothing /\ shownForm.number = s.number
          THEN [shownForm EXCEPT !.value = seen[s.org][s.kind], !.edited = FALSE,
                                 !.fresh = TRUE]
          ELSE shownForm
    /\ UNCHANGED <<row, seen, tally, outdated, crossing, jumped>>

\* The form that was sent, if it is still there, shows the answer, whatever was typed since.
SettingSaved(i) ==
    LET s == saves[i] IN
    /\ s.phase = "written"
    /\ saves' = [saves EXCEPT ![i] = Nothing]
    /\ shownForm' =
          IF shownForm # Nothing /\ shownForm.number = s.number
          THEN [shownForm EXCEPT !.value = s.row[s.kind], !.edited = FALSE,
                                 !.fresh = TRUE]
          ELSE shownForm
    /\ UNCHANGED <<row, seen, tally, outdated, crossing, jumped>>

\* An error, or no answer: the form stays as it is.
SettingFails(i) ==
    /\ saves' = [saves EXCEPT ![i] = Nothing]
    /\ UNCHANGED <<row, seen, shownForm, tally, outdated, crossing, jumped>>

\* The context loads again, for another reason.
ContextComes ==
    /\ seen # row
    /\ seen' = row
    /\ outdated' = {}
    /\ UNCHANGED <<row, shownForm, saves, tally, crossing, jumped>>

OrgFormNext ==
    \/ \E kind \in Kinds, o \in Org : OpenForm(kind, o)
    \/ \E o \in Org : JumpBack(o)
    \/ \E v \in Domain \cup ClientType : EditSetting(v)
    \/ SubmitSetting \/ ContextComes
    \/ \E i \in Unsaved : ReadRow(i) \/ WriteRow(i) \/ SettingSaved(i) \/ SettingFails(i)

OrgFormSpec == OrgFormInit /\ [][OrgFormNext]_orgFormVars

-----------------------------------------------------------------------------
(* Properties *)

OrgFormTypeOK ==
    /\ row \in [Org -> OrgSettings] /\ seen \in [Org -> OrgSettings]
    /\ shownForm \in {Nothing} \cup
          [kind : Kinds, org : Org, number : Nat, value : Domain \cup ClientType,
           edited : BOOLEAN, fresh : BOOLEAN]
    /\ shownForm # Nothing => shownForm.value \in Value(shownForm.kind)
    /\ saves \in [Save -> {Nothing} \cup
          [org : Org, kind : Kinds, value : Domain \cup ClientType, number : Nat,
           phase : {"sent", "read", "written"}, row : OrgSettings \cup {Nothing}]]
    /\ \A i \in Unsaved : /\ saves[i].value \in Value(saves[i].kind)
                          /\ saves[i].phase # "sent" => saves[i].row \in OrgSettings
    /\ tally \in [saves : 0 .. MaxSaves, opens : 0 .. MaxOpens]
    /\ outdated \subseteq Org
    /\ <<crossing, jumped>> \in BOOLEAN \X BOOLEAN

\* Saving one setting never takes the other one back, even after the context has become
\* outdated, unless two saves were under way at once.
OneSettingAtATime ==
    [][~crossing =>
          \A o \in Org : \E kind \in Kinds : row'[o][kind] = row[o][kind]]_orgFormVars

\* A form that has not been touched shows what is stored, unless it was opened after a save
\* of another form has begun: then it shows the setting as it was before.
FormShowsStored ==
    (shownForm # Nothing /\ ~shownForm.edited /\ shownForm.fresh
        /\ Unsaved = {} /\ ~crossing /\ ~jumped)
    => shownForm.value = row[shownForm.org][shownForm.kind]

\* A save belongs to the form with its number, and one save at a time has read what is
\* stored; a fresh form has no save of another form to fear.
OrgFormFacts ==
    /\ shownForm # Nothing => shownForm.number <= tally.opens
    /\ \A i \in Unsaved : saves[i].number <= tally.opens
    /\ \A i \in Unsaved :
          shownForm # Nothing /\ saves[i].number = shownForm.number =>
              /\ saves[i].kind = shownForm.kind
              /\ ~jumped => saves[i].org = shownForm.org
              /\ ~crossing => shownForm.edited
    /\ \A o \in Org \ outdated : seen[o] = row[o]
    /\ ~crossing =>
          \A i \in Unsaved :
              /\ \A j \in Unsaved : i = j
              /\ saves[i].phase # "sent" => saves[i].row = row[saves[i].org]
    /\ (~crossing /\ ~jumped /\ shownForm # Nothing) =>
          (~shownForm.edited /\ shownForm.fresh =>
              /\ shownForm.value = row[shownForm.org][shownForm.kind]
              /\ \A i \in Unsaved : saves[i].org # shownForm.org)

\* The inductive invariant.
OrgFormInv == OrgFormTypeOK /\ OrgFormFacts /\ FormShowsStored

=============================================================================
