---- MODULE WebFormsProofs ----
(***************************************************************************)
(* Proofs about the forms for settings and the context: what is shown and  *)
(* what is saved is of the project or organization it is shown or saved    *)
(* under, what was deleted is not listed and what was created is found.    *)
(***************************************************************************)
EXTENDS ProjectSettingsForm, OrganizationForms, WebShell, TLAPS

-----------------------------------------------------------------------------
(* The settings of a project *)

LEMMA SettingsInitial == SettingsInit => SettingsInv
<1> SUFFICES ASSUME SettingsInit PROVE SettingsInv
  OBVIOUS
<1>0. 0 \in 0 .. MaxWrites /\ Blank \in Setting /\ "none" \notin Setting
      /\ NoRevision # "none"
      /\ Stored \subseteq [Project -> (Setting \ Invalid) \cup {NoRevision, Nothing}]
  BY SettingsFormAssumption
<1>1. SettingsTypeOK
  BY <1>0 DEF SettingsInit, SettingsTypeOK, WriteRequest, NoLoad
<1>2. Saving = {}
  BY DEF SettingsInit, Saving, Writing
<1>3. SettingsFacts /\ SavesToItsProject /\ ShowsStored
  BY <1>0, <1>2 DEF SettingsInit, SettingsFacts, SavesToItsProject, ShowsStored, NoLoad
<1> QED
  BY <1>1, <1>3 DEF SettingsInv

LEMMA SettingsStep == SettingsInv /\ [SettingsNext]_settingsVars => SettingsInv'
<1> SUFFICES ASSUME SettingsInv, [SettingsNext]_settingsVars PROVE SettingsInv'
  OBVIOUS
<1> DEFINE W == [kind : {"put", "delete"}, project : Project, value : Setting \ Invalid,
                 of : Project \cup {Nothing}, kept : BOOLEAN,
                 result : {"sent", "done", "refused"}]
           F == [of : Project \cup {Nothing}, value : Setting, enabled : BOOLEAN,
                 edited : BOOLEAN, kept : BOOLEAN]
           A == Setting \cup {NoRevision}
           L == [id : Project \cup {Nothing}, answer : {"none", "asked", Nothing} \cup A]
<1> USE DEF SettingsInv
<1>n. /\ MaxWrites \in Nat /\ Nothing \notin Project /\ Nothing \notin Setting
      /\ "none" \notin A /\ "asked" \notin A /\ Nothing \notin A /\ NoRevision \notin Setting
      /\ Blank \in Setting \ Invalid
  BY SettingsFormAssumption, WebClientAssumption
<1>t. SettingsTypeOK
  OBVIOUS
<1>f. /\ settings \in [Project -> (Setting \ Invalid) \cup {NoRevision, Nothing}]
      /\ chosen \in Project \cup {Nothing} /\ load \in L /\ form \in F
      /\ writes \in [Write -> {Nothing} \cup W] /\ writeCount \in 0 .. MaxWrites
      /\ ended \in BOOLEAN /\ busy \in BOOLEAN /\ onPage \in BOOLEAN /\ crossed \in BOOLEAN
  BY DEF SettingsTypeOK, WriteRequest
<1>w. \A i \in Saving : i \in Write /\ writes[i] \in W /\ writes[i].kind = "put"
  BY <1>f DEF Saving, Writing
<1>p. load # NoLoad => load.id \in Project
  BY DEF SettingsFacts
<1>g. ASSUME ~crossed
      PROVE  /\ ~ended
             /\ load # NoLoad => busy /\ Saving = {} /\ chosen \in {load.id, Nothing}
             /\ load.answer \in A => settings[load.id] \in {load.answer, Nothing}
             /\ \A i \in Saving :
                   /\ busy
                   /\ \A j \in Saving : i = j
                   /\ form.kept \/ form.of = writes[i].project
                   /\ chosen \in {writes[i].project, Nothing}
                   /\ writes[i].result = "done" =>
                         settings[writes[i].project] \in {writes[i].value, Nothing}
                   /\ writes[i].kept \/ writes[i].of = writes[i].project
             /\ onPage /\ ~busy /\ chosen # Nothing => form.kept \/ form.of = chosen
             /\ onPage /\ ~busy /\ ~form.edited /\ chosen # Nothing /\ settings[chosen] \in Setting
                   => form.of = chosen /\ form.value = settings[chosen]
  BY <1>g DEF SettingsFacts, SavesToItsProject, ShowsStored
\* What there is to prove of each step.
<1>i. ASSUME SettingsTypeOK',
             load' # NoLoad => load'.id \in Project,
             ~crossed' =>
               /\ ~ended'
               /\ load' # NoLoad => busy' /\ Saving' = {} /\ chosen' \in {load'.id, Nothing}
               /\ load'.answer \in A => settings'[load'.id] \in {load'.answer, Nothing}
               /\ \A i \in Saving' :
                     /\ busy'
                     /\ \A j \in Saving' : i = j
                     /\ form'.kept \/ form'.of = writes'[i].project
                     /\ chosen' \in {writes'[i].project, Nothing}
                     /\ writes'[i].result = "done" =>
                           settings'[writes'[i].project] \in {writes'[i].value, Nothing}
                     /\ writes'[i].kept \/ writes'[i].of = writes'[i].project
               /\ onPage' /\ ~busy' /\ chosen' # Nothing => form'.kept \/ form'.of = chosen'
               /\ onPage' /\ ~busy' /\ ~form'.edited /\ chosen' # Nothing
                     /\ settings'[chosen'] \in Setting
                     => form'.of = chosen' /\ form'.value = settings'[chosen']
      PROVE  SettingsInv'
  BY <1>i DEF SettingsFacts, SavesToItsProject, ShowsStored, NoLoad
<1>u. UNCHANGED writes => Saving' = Saving
  BY DEF Saving, Writing
<1>1. ASSUME NEW p \in Project \cup {Nothing}, Choose(p) PROVE SettingsInv'
  <2>0. UNCHANGED <<settings, ended, writes, writeCount, onPage>> /\ chosen' = p /\ Saving' = Saving
    BY <1>1, <1>u DEF Choose
  <2>1. CASE ended \/ p = Nothing
    <3>1. UNCHANGED <<load, form, busy, crossed>>
      BY <1>1, <2>1 DEF Choose
    <3>2. SettingsTypeOK'
      BY <2>0, <3>1, <1>t DEF SettingsTypeOK, WriteRequest
    <3> QED
      BY <2>0, <2>1, <3>1, <3>2, <1>i, <1>p, <1>g
  <2>2. CASE ~(ended \/ p = Nothing)
    <3> DEFINE inSave == Saving # {}
    <3>1. /\ load' = [id |-> p, answer |-> "asked"] /\ busy' = TRUE
          /\ form' = [form EXCEPT !.enabled = FALSE] /\ crossed' = (crossed \/ inSave)
          /\ inSave \in BOOLEAN
      BY <1>1, <2>2 DEF Choose
    <3> HIDE DEF inSave
    <3>2. crossed' \in BOOLEAN /\ (~crossed' => ~crossed /\ ~inSave)
      BY <3>1, <1>f, Zenon
    <3>3. form' \in F /\ form'.of = form.of /\ form'.kept = form.kept
      BY <3>1, <1>f
    <3>4. SettingsTypeOK'
      BY <2>0, <3>1, <3>2, <3>3, <1>t DEF SettingsTypeOK, WriteRequest
    <3>5. ~crossed' => Saving' = {}
      BY <2>0, <3>2 DEF inSave
    <3> QED
      BY <2>0, <2>2, <3>1, <3>2, <3>4, <3>5, <1>i, <1>n, <1>g
  <2> QED
    BY <2>1, <2>2
<1>2. CASE GetSummary
  <2>0. /\ load.answer = "asked"
        /\ load' = [load EXCEPT !.answer = settings[load.id]]
        /\ UNCHANGED <<settings, chosen, ended, form, busy, writes, writeCount, onPage, crossed>>
        /\ Saving' = Saving
    BY <1>2, <1>u DEF GetSummary
  <2>1. load # NoLoad /\ load.id \in Project
    BY <2>0, <1>p DEF NoLoad
  <2>2. load' \in L /\ load'.id = load.id /\ load'.answer = settings[load.id]
    BY <2>0, <2>1, <1>f
  <2>3. SettingsTypeOK'
    BY <2>0, <2>2, <1>t DEF SettingsTypeOK, WriteRequest
  <2> QED
    BY <2>0, <2>1, <2>2, <2>3, <1>i, <1>g
<1>3. CASE Loaded
  <2>0. /\ load.answer \in A /\ load' = NoLoad /\ busy' = FALSE
        /\ UNCHANGED <<settings, chosen, ended, writes, writeCount, onPage, crossed>>
        /\ Saving' = Saving
    BY <1>3, <1>u DEF Loaded
  <2>1. load # NoLoad /\ NoLoad \in L /\ NoLoad.answer \notin A
    BY <2>0, <1>n DEF NoLoad
  <2>2. CASE load.answer = NoRevision
    <3>1. form' \in F /\ form'.kept
      BY <2>2, <1>3, <1>f DEF Loaded
    <3>2. SettingsTypeOK'
      BY <2>0, <2>1, <3>1, <1>t, <1>f DEF SettingsTypeOK, WriteRequest
    \* The project that is selected has nothing stored that the form could show.
    <3>3. ~crossed' /\ chosen' # Nothing => settings'[chosen'] \notin Setting
      BY <2>0, <2>1, <2>2, <1>g, <1>n
    <3> QED
      BY <2>0, <2>1, <3>1, <3>2, <3>3, <1>i, <1>g, <1>p
  <2>3. CASE load.answer # NoRevision
    <3>1. form' = [of |-> load.id, value |-> load.answer, enabled |-> TRUE, edited |-> FALSE,
                   kept |-> FALSE]
      BY <2>3, <1>3 DEF Loaded
    <3>2. SettingsTypeOK'
      BY <2>0, <2>1, <2>3, <3>1, <1>t, <1>f DEF SettingsTypeOK, WriteRequest
    <3> QED
      BY <2>0, <2>1, <3>1, <3>2, <1>i, <1>g, <1>p, <1>n
  <2> QED
    BY <2>2, <2>3
<1>4. CASE LoadFails
  <2>1. SettingsTypeOK' /\ load' = NoLoad /\ crossed'
    BY <1>4, <1>t DEF LoadFails, SettingsTypeOK, WriteRequest, NoLoad
  <2> QED
    BY <2>1, <1>i
<1>5. ASSUME NEW v \in Setting, Edit(v) PROVE SettingsInv'
  <2>0. /\ UNCHANGED <<settings, chosen, load, ended, busy, writes, writeCount, onPage, crossed>>
        /\ Saving' = Saving /\ form' \in F /\ form'.of = form.of /\ form'.edited
        /\ form'.kept = form.kept
    BY <1>5, <1>f, <1>u DEF Edit
  <2>1. SettingsTypeOK'
    BY <2>0, <1>t DEF SettingsTypeOK, WriteRequest
  <2> QED
    BY <2>0, <2>1, <1>i, <1>g, <1>p
<1>6. ASSUME NEW p \in Project, OthersDelete(p) PROVE SettingsInv'
  <2>0. /\ UNCHANGED <<chosen, load, ended, form, busy, writes, writeCount, onPage, crossed>>
        /\ Saving' = Saving /\ settings' = [settings EXCEPT ![p] = Nothing]
    BY <1>6, <1>u DEF OthersDelete
  <2>1. SettingsTypeOK'
    BY <2>0, <1>t DEF SettingsTypeOK, WriteRequest
  <2>2. \A x \in Project : settings'[x] \in {settings[x], Nothing}
    BY <2>0, <1>f
  <2>3. \A i \in Saving : writes[i].project \in Project
    BY <1>w
  <2>4. load.answer \in A => load.id \in Project
    BY <1>p, <1>n DEF NoLoad
  <2> QED
    BY <2>0, <2>1, <2>2, <2>3, <2>4, <1>f, <1>i, <1>g, <1>p, <1>n
\* A write takes the next number, a number that goes out of use takes its write with it.
<1>s. ASSUME NEW w \in W, Start(w)
      PROVE  /\ writeCount + 1 \in Write /\ writeCount' \in 0 .. MaxWrites
             /\ writes' \in [Write -> {Nothing} \cup W] /\ writes'[writeCount + 1] = w
             /\ \A i \in Saving' : i = writeCount + 1 \/ (i \in Saving /\ writes'[i] = writes[i])
  <2>1. /\ writeCount < MaxWrites /\ writeCount' = writeCount + 1
        /\ writes' = [writes EXCEPT ![writeCount + 1] = w]
    BY <1>s DEF Start
  <2>2. writeCount + 1 \in Write /\ writeCount' \in 0 .. MaxWrites
    BY <2>1, <1>f, <1>n DEF Write
  <2>3. \A i \in Write : writes'[i] = IF i = writeCount + 1 THEN w ELSE writes[i]
    BY <2>1, <1>f
  <2> QED
    BY <2>1, <2>2, <2>3, <1>f DEF Saving, Writing
<1>r. ASSUME NEW i \in Writing, writes' = [writes EXCEPT ![i] = Nothing]
      PROVE  /\ writes' \in [Write -> {Nothing} \cup W]
             /\ \A j \in Saving' : j # i /\ j \in Saving /\ writes'[j] = writes[j]
  BY <1>r, <1>f DEF Saving, Writing
<1>7. CASE Submit
  <2>0. /\ onPage /\ ~busy /\ form.value \notin Invalid /\ busy' = TRUE
        /\ form' = [form EXCEPT !.enabled = FALSE]
        /\ UNCHANGED <<settings, chosen, load, ended, onPage, crossed>>
    BY <1>7 DEF Submit
  <2>1. form' \in F /\ form'.of = form.of /\ form'.kept = form.kept
    BY <2>0, <1>f
  <2>2. ~crossed => load = NoLoad /\ Saving = {}
    BY <2>0, <1>g
  <2>3. CASE chosen # Nothing
    <3> DEFINE w == [kind |-> "put", project |-> chosen, value |-> form.value, of |-> form.of,
                     kept |-> form.kept, result |-> "sent"]
    <3>1. Start(w) /\ w \in W
      BY <2>0, <2>3, <1>7, <1>f DEF Submit
    <3>2. w.project = chosen /\ w.of = form.of /\ w.kept = form.kept /\ w.result = "sent"
      OBVIOUS
    <3> HIDE DEF w
    <3>3. /\ writeCount' \in 0 .. MaxWrites /\ writes' \in [Write -> {Nothing} \cup W]
          /\ writes'[writeCount + 1] = w
          /\ \A i \in Saving' : i = writeCount + 1 \/ i \in Saving
      BY <3>1, <1>s
    <3>4. SettingsTypeOK'
      BY <2>0, <2>1, <3>3, <1>t DEF SettingsTypeOK, WriteRequest
    <3>5. ~crossed => form.kept \/ form.of = chosen
      BY <2>0, <2>3, <1>g
    <3>6. ~crossed => \A i \in Saving' : i = writeCount + 1 /\ writes'[i] = w
      BY <2>2, <3>3
    <3>7. NoLoad.answer \notin A
      BY <1>n DEF NoLoad
    <3>8. ~crossed => \A i \in Saving' : /\ \A j \in Saving' : i = j
                                         /\ writes'[i].project = chosen
                                         /\ writes'[i].kept \/ writes'[i].of = chosen
                                         /\ writes'[i].result = "sent"
      BY <3>2, <3>5, <3>6
    <3> QED
      BY <2>0, <2>1, <2>2, <3>4, <3>5, <3>7, <3>8, <1>i, <1>p, <1>g
  <2>4. CASE chosen = Nothing
    <3>1. UNCHANGED <<writes, writeCount>> /\ Saving' = Saving
      BY <2>4, <1>7, <1>u DEF Submit
    <3>2. SettingsTypeOK'
      BY <2>0, <2>1, <3>1, <1>t DEF SettingsTypeOK, WriteRequest
    <3> QED
      BY <2>0, <2>1, <3>1, <3>2, <1>i, <1>p, <1>g
  <2> QED
    BY <2>3, <2>4
<1>8. CASE Delete
  <2> DEFINE w == [kind |-> "delete", project |-> chosen, value |-> Blank, of |-> chosen,
                   kept |-> FALSE, result |-> "sent"]
  <2>0. /\ Start(w) /\ w \in W /\ w.kind = "delete"
        /\ UNCHANGED <<settings, chosen, load, ended, form, busy, onPage, crossed>>
    BY <1>8, <1>f, <1>n DEF Delete
  <2> HIDE DEF w
  <2>1. /\ writeCount' \in 0 .. MaxWrites /\ writes' \in [Write -> {Nothing} \cup W]
        /\ writes'[writeCount + 1] = w
        /\ \A i \in Saving' : i = writeCount + 1 \/ (i \in Saving /\ writes'[i] = writes[i])
    BY <2>0, <1>s
  <2>2. \A i \in Saving' : i \in Saving /\ writes'[i] = writes[i]
    BY <2>0, <2>1 DEF Saving
  <2>3. SettingsTypeOK'
    BY <2>0, <2>1, <1>t DEF SettingsTypeOK, WriteRequest
  <2>4. Saving = {} => Saving' = {}
    BY <2>2
  <2> QED
    BY <2>0, <2>2, <2>3, <2>4, <1>i, <1>p, <1>g
<1>9. ASSUME NEW i \in Writing, Serve(i) PROVE SettingsInv'
  <2> DEFINE w == writes[i]
  <2>0. /\ w.result = "sent" /\ i \in Write /\ w \in W
        /\ UNCHANGED <<chosen, load, ended, form, busy, writeCount, onPage, crossed>>
    BY <1>9, <1>f DEF Writing, Serve
  <2>k. load.answer \in A => load # NoLoad /\ load.id \in Project
    BY <1>p, <1>n DEF NoLoad
  <2>1. CASE settings[w.project] = Nothing \/ (w.kind = "put" /\ w.value \in Unusable)
    <3> DEFINE v == [w EXCEPT !.result = "refused"]
    <3>1. writes' = [writes EXCEPT ![i] = v] /\ settings' = settings
      BY <1>9, <2>1 DEF Serve
    <3>2. v \in W /\ v.kind = w.kind /\ v.project = w.project /\ v.of = w.of /\ v.value = w.value
          /\ v.kept = w.kept /\ v.result = "refused"
      BY <2>0
    <3> HIDE DEF v
    <3>3. writes' \in [Write -> {Nothing} \cup W]
          /\ \A j \in Write : writes'[j] = IF j = i THEN v ELSE writes[j]
      BY <3>1, <3>2, <2>0, <1>f
    <3>4. \A j \in Saving' : /\ j \in Saving
                             /\ j = i => writes'[j] = v
                             /\ j # i => writes'[j] = writes[j]
      BY <3>2, <3>3, <1>9 DEF Saving, Writing
    <3>5. \A j \in Saving' : /\ j \in Saving /\ writes'[j].project = writes[j].project
                             /\ writes'[j].of = writes[j].of /\ writes'[j].value = writes[j].value
                             /\ writes'[j].kept = writes[j].kept
                             /\ writes'[j].result = "done" => writes[j].result = "done"
      BY <3>2, <3>4
    <3>6. SettingsTypeOK'
      BY <2>0, <3>1, <3>3, <1>t DEF SettingsTypeOK, WriteRequest
    <3>7. Saving = {} => Saving' = {}
      BY <3>5
    <3> QED
      BY <2>0, <3>1, <3>5, <3>6, <3>7, <1>i, <1>p, <1>g
  <2>2. CASE ~(settings[w.project] = Nothing \/ (w.kind = "put" /\ w.value \in Unusable))
    <3> DEFINE v == [w EXCEPT !.result = "done"]
               new == IF w.kind = "put" THEN w.value ELSE Nothing
    <3>1. writes' = [writes EXCEPT ![i] = v] /\ settings' = [settings EXCEPT ![w.project] = new]
      BY <1>9, <2>2 DEF Serve
    <3>2. v \in W /\ v.kind = w.kind /\ v.project = w.project /\ v.of = w.of /\ v.value = w.value
          /\ v.kept = w.kept /\ w.project \in Project /\ new \in (Setting \ Invalid) \cup {Nothing}
      BY <2>0
    <3> HIDE DEF v
    <3>3. writes' \in [Write -> {Nothing} \cup W]
          /\ \A j \in Write : writes'[j] = IF j = i THEN v ELSE writes[j]
      BY <3>1, <3>2, <2>0, <1>f
    <3>4. \A j \in Saving' : /\ j \in Saving
                             /\ j = i => writes'[j] = v
                             /\ j # i => writes'[j] = writes[j]
      BY <3>2, <3>3, <1>9 DEF Saving, Writing
    <3>5. \A j \in Saving' : /\ j \in Saving /\ writes'[j].project = writes[j].project
                             /\ writes'[j].of = writes[j].of /\ writes'[j].value = writes[j].value
                             /\ writes'[j].kept = writes[j].kept
                             /\ j # i => writes'[j].result = writes[j].result
      BY <3>2, <3>4
    <3>6. SettingsTypeOK'
      BY <2>0, <3>1, <3>2, <3>3, <1>t DEF SettingsTypeOK, WriteRequest
    <3>7. Saving = {} => Saving' = {}
      BY <3>5
    <3>8. \A x \in Project : settings'[x] = IF x = w.project THEN new ELSE settings[x]
      BY <3>1, <1>f
    \* The save that is served is the only one, and nothing is loading.
    <3>9. CASE w.kind = "put"
      <4>1. i \in Saving /\ new = w.value
        BY <3>9, <1>9 DEF Saving
      <4>2. ~crossed => load = NoLoad /\ busy /\ \A j \in Saving' : j = i
        BY <4>1, <3>5, <1>g
      <4>3. ~crossed => load.answer \notin A
        BY <4>2, <1>n DEF NoLoad
      <4>4. ~crossed => \A j \in Saving' : settings'[writes'[j].project] = writes'[j].value
        BY <4>1, <4>2, <3>2, <3>5, <3>8
      <4> QED
        BY <2>0, <3>5, <3>6, <4>1, <4>2, <4>3, <4>4, <1>i, <1>p, <1>g
    <3>10. CASE w.kind # "put"
      <4>1. i \notin Saving' /\ \A x \in Project : settings'[x] \in {settings[x], Nothing}
        BY <3>2, <3>3, <3>8, <3>10, <2>0 DEF Saving
      <4>2. \A j \in Saving' : writes'[j].result = writes[j].result /\ writes[j].project \in Project
        BY <4>1, <3>5, <1>w
      <4> QED
        BY <2>0, <2>k, <3>5, <3>6, <3>7, <4>1, <4>2, <1>f, <1>i, <1>p, <1>g, <1>n
    <3> QED
      BY <3>9, <3>10
  <2> QED
    BY <2>1, <2>2
<1>10. ASSUME NEW i \in Writing, Saved(i) PROVE SettingsInv'
  <2> DEFINE w == writes[i]
  <2>0. /\ w.kind = "put" /\ w.result = "done" /\ w \in W /\ i \in Saving
        /\ writes' = [writes EXCEPT ![i] = Nothing] /\ busy' = FALSE
        /\ form' = [of |-> w.project, value |-> w.value, enabled |-> TRUE, edited |-> FALSE,
                    kept |-> FALSE]
        /\ UNCHANGED <<settings, chosen, load, ended, writeCount, onPage, crossed>>
    BY <1>10, <1>f DEF Writing, Saving, Saved
  <2>1. /\ writes' \in [Write -> {Nothing} \cup W]
        /\ \A j \in Saving' : j # i /\ j \in Saving
    BY <2>0, <1>r
  <2>2. SettingsTypeOK'
    BY <2>0, <2>1, <1>t, <1>n DEF SettingsTypeOK, WriteRequest
  <2>3. ~crossed => load = NoLoad /\ Saving' = {}
    BY <2>0, <2>1, <1>g
  <2>4. NoLoad.answer \notin A /\ form'.of = w.project /\ form'.value = w.value
    BY <2>0, <1>n DEF NoLoad
  <2> QED
    BY <2>0, <2>2, <2>3, <2>4, <1>i, <1>p, <1>g, <1>n
<1>11. ASSUME NEW i \in Writing, SaveFails(i) PROVE SettingsInv'
  <2> DEFINE w == writes[i]
  <2>0. /\ w.kind = "put" /\ w \in W /\ i \in Saving
        /\ writes' = [writes EXCEPT ![i] = Nothing] /\ busy' = FALSE
        /\ form' = [form EXCEPT !.enabled = TRUE, !.edited = TRUE]
        /\ UNCHANGED <<settings, chosen, load, ended, writeCount, onPage, crossed>>
    BY <1>11, <1>f DEF Writing, Saving, SaveFails
  <2>1. /\ writes' \in [Write -> {Nothing} \cup W]
        /\ \A j \in Saving' : j # i /\ j \in Saving
    BY <2>0, <1>r
  <2>2. form' \in F /\ form'.of = form.of /\ form'.kept = form.kept /\ form'.edited
    BY <2>0, <1>f
  <2>3. SettingsTypeOK'
    BY <2>0, <2>1, <2>2, <1>t DEF SettingsTypeOK, WriteRequest
  <2>4. ~crossed => /\ load = NoLoad /\ Saving' = {} /\ (form.kept \/ form.of = w.project)
                    /\ chosen \in {w.project, Nothing}
    BY <2>0, <2>1, <1>g
  <2>5. NoLoad.answer \notin A
    BY <1>n DEF NoLoad
  <2> QED
    BY <2>0, <2>2, <2>3, <2>4, <2>5, <1>i, <1>p, <1>g
<1>12. ASSUME NEW i \in Writing, Deleted(i) PROVE SettingsInv'
  <2>0. /\ writes' = [writes EXCEPT ![i] = Nothing] /\ chosen' = Nothing /\ onPage' = FALSE
        /\ UNCHANGED <<settings, load, ended, form, busy, writeCount, crossed>>
    BY <1>12 DEF Deleted
  <2>1. /\ writes' \in [Write -> {Nothing} \cup W]
        /\ \A j \in Saving' : j \in Saving /\ writes'[j] = writes[j]
    BY <2>0, <1>r
  <2>2. SettingsTypeOK'
    BY <2>0, <2>1, <1>t DEF SettingsTypeOK, WriteRequest
  <2>3. Saving = {} => Saving' = {}
    BY <2>1
  <2> QED
    BY <2>0, <2>1, <2>2, <2>3, <1>i, <1>p, <1>g
<1>13. ASSUME NEW i \in Writing, DeleteFails(i) PROVE SettingsInv'
  <2>0. /\ writes' = [writes EXCEPT ![i] = Nothing]
        /\ UNCHANGED <<settings, chosen, load, ended, form, busy, writeCount, onPage, crossed>>
    BY <1>13 DEF DeleteFails
  <2>1. /\ writes' \in [Write -> {Nothing} \cup W]
        /\ \A j \in Saving' : j \in Saving /\ writes'[j] = writes[j]
    BY <2>0, <1>r
  <2>2. SettingsTypeOK'
    BY <2>0, <2>1, <1>t DEF SettingsTypeOK, WriteRequest
  <2>3. Saving = {} => Saving' = {}
    BY <2>1
  <2> QED
    BY <2>0, <2>1, <2>2, <2>3, <1>i, <1>p, <1>g
<1>14. CASE UNCHANGED settingsVars
  <2>0. /\ UNCHANGED <<settings, chosen, load, ended, form, busy, writes, writeCount, onPage,
                       crossed>>
        /\ Saving' = Saving
    BY <1>14, <1>u DEF settingsVars
  <2>1. SettingsTypeOK'
    BY <2>0, <1>t DEF SettingsTypeOK, WriteRequest
  <2> QED
    BY <2>0, <2>1, <1>i, <1>p, <1>g
<1> QED
  BY <1>1, <1>2, <1>3, <1>4, <1>5, <1>6, <1>7, <1>8, <1>9, <1>10, <1>11, <1>12, <1>13, <1>14
  DEF SettingsNext, SettingsAnswers

LEMMA SettingsAlways == SettingsSpec => []SettingsInv
  BY SettingsInitial, SettingsStep, PTL DEF SettingsSpec

\* For any projects, settings and numbers of saves: what is saved to a project was filled in
\* from it, unless a load failed or began during a save, or the project had no settings yet
\* (onSubmit and updateFormValues in project-settings-general.component.ts).
THEOREM SavedToItsProject == SettingsSpec => []SavesToItsProject
<1>1. SettingsInv => SavesToItsProject
  BY DEF SettingsInv
<1> QED
  BY SettingsAlways, <1>1, PTL

\* Unless a load failed or began during a save, a form at rest shows what is stored of the
\* selected project, if anything is.
THEOREM StoredShown == SettingsSpec => []ShowsStored
<1>1. SettingsInv => ShowsStored
  BY DEF SettingsInv
<1> QED
  BY SettingsAlways, <1>1, PTL

\* Writes are numbered in the order they begin in, so that none takes another's place.
Numbered == \A i \in Writing : i <= writeCount

WaitInv == Numbered /\ FormWaits

LEMMA WriteTypes == SettingsTypeOK =>
    /\ writes \in [Write -> {Nothing} \cup WriteRequest] /\ MaxWrites \in Nat
    /\ writeCount \in 0 .. MaxWrites
    /\ chosen \in Project \cup {Nothing} /\ busy \in BOOLEAN /\ ended \in BOOLEAN /\ onPage \in BOOLEAN
BY SettingsFormAssumption DEF SettingsTypeOK

LEMMA StartFacts ==
    ASSUME SettingsTypeOK, Numbered, NEW w \in WriteRequest, Start(w)
    PROVE  /\ Numbered'
           /\ Saving \subseteq Saving'
           /\ w.kind = "put" => Saving' # {}
<1>1. /\ writeCount \in 0 .. MaxWrites /\ MaxWrites \in Nat /\ writeCount + 1 \in Write
      /\ writeCount' = writeCount + 1 /\ w # Nothing
  BY WriteTypes, NothingIsNoRequest DEF Start, Write
<1>2. \A i \in Write : writes'[i] = IF i = writeCount + 1 THEN w ELSE writes[i]
  BY <1>1, WriteTypes DEF Start
<1>3. writeCount + 1 \notin Writing
  BY <1>1 DEF Numbered
<1>4. \A i \in Write : i \in Writing' <=> i \in Writing \/ i = writeCount + 1
  BY <1>1, <1>2, <1>3 DEF Writing
<1>5. Numbered'
  BY <1>1, <1>4 DEF Numbered, Writing, Write
<1> QED
  BY <1>1, <1>2, <1>3, <1>4, <1>5 DEF Saving, Writing

\* An answer takes one write away, or only changes its result.
LEMMA AnswerFacts ==
    ASSUME SettingsTypeOK, Numbered, NEW i \in Writing, UNCHANGED writeCount,
           NEW result \in {"sent", "done", "refused"},
           \/ writes' = [writes EXCEPT ![i] = Nothing] /\ writes[i].kind = "delete"
           \/ writes' = [writes EXCEPT ![i] = Nothing] /\ (~busy \/ ~onPage)'
           \/ writes' = [writes EXCEPT ![i].result = result]
    PROVE  /\ Numbered'
           /\ (busy /\ onPage)' => Saving \subseteq Saving'
<1>1. i \in Write /\ writes[i] \in WriteRequest
  BY WriteTypes DEF Writing
<1>2. \A j \in Write : j # i => writes'[j] = writes[j]
  BY <1>1, WriteTypes
<1>3. Numbered'
  BY <1>2 DEF Numbered, Writing
<1>4. CASE writes[i].kind = "delete" \/ (~busy \/ ~onPage)'
  <2>1. ASSUME writes[i].kind = "delete", NEW j \in Saving PROVE j \in Saving'
    <3>1. j # i /\ j \in Write
      BY <2>1 DEF Saving, Writing
    <3>2. writes'[j] = writes[j]
      BY <1>2, <3>1
    <3> QED
      BY <3>2, <2>1 DEF Saving, Writing
  <2>2. writes[i].kind = "delete" => Saving \subseteq Saving'
    BY <2>1
  <2> QED
    BY <1>3, <1>4, <2>2
<1>5. CASE writes' = [writes EXCEPT ![i].result = result]
  <2>1. writes'[i] = [writes[i] EXCEPT !.result = result]
    BY <1>1, <1>5, WriteTypes
  <2>2. writes'[i] \in WriteRequest /\ writes'[i].kind = writes[i].kind
    BY <1>1, <2>1 DEF WriteRequest
  <2>3. writes'[i] # Nothing
    BY <2>2, NothingIsNoRequest
  <2>4. ASSUME NEW j \in Saving PROVE j \in Saving'
    <3>1. j \in Write /\ writes[j] # Nothing /\ writes[j].kind = "put"
      BY DEF Saving, Writing
    <3>2. writes'[j] # Nothing /\ writes'[j].kind = "put"
      BY <1>2, <2>2, <2>3, <3>1
    <3> QED
      BY <3>1, <3>2 DEF Saving, Writing
  <2> QED
    BY <1>3, <2>4
<1> QED
  BY <1>3, <1>4, <1>5

LEMMA WaitStep == SettingsInv /\ WaitInv /\ [SettingsNext]_settingsVars => WaitInv'
<1> SUFFICES ASSUME SettingsInv, WaitInv, [SettingsNext]_settingsVars PROVE WaitInv'
  OBVIOUS
<1>t. SettingsTypeOK /\ Numbered /\ FormWaits
  BY DEF SettingsInv, WaitInv
<1>n. Nothing \notin Project
  BY WebClientAssumption
<1>1. ASSUME UNCHANGED <<writes, writeCount>>, FormWaits' PROVE WaitInv'
  BY <1>1, <1>t DEF WaitInv, Numbered, Writing
<1>2. CASE UNCHANGED <<chosen, load, ended, busy, writes, writeCount, onPage>>
  BY <1>1, <1>2, <1>t DEF FormWaits, Saving, Writing
<1>3. ASSUME NEW p \in Project \cup {Nothing}, Choose(p) PROVE WaitInv'
  <2>1. CASE ended \/ p = Nothing
    <3>1. (ended /\ ended') \/ chosen' = Nothing
      BY <1>3, <2>1 DEF Choose
    <3> QED
      BY <1>1, <1>3, <3>1 DEF Choose, FormWaits
  <2>2. CASE ~(ended \/ p = Nothing)
    <3>1. load' = [id |-> p, answer |-> "asked"]
      BY <1>3, <2>2 DEF Choose
    <3>2. load'.answer # NoLoad.answer
      BY <3>1 DEF NoLoad
    <3> QED
      BY <1>1, <1>3, <3>2 DEF Choose, FormWaits
  <2> QED
    BY <2>1, <2>2
<1>4. CASE GetSummary
  <2>1. load # NoLoad /\ load.id \in Project
    BY <1>4 DEF GetSummary, NoLoad, SettingsInv, SettingsFacts
  <2>2. load'.id = load.id
    BY <1>4, <1>t DEF GetSummary, SettingsTypeOK
  <2>3. load' # NoLoad
    BY <1>n, <2>1, <2>2 DEF NoLoad
  <2> QED
    BY <1>1, <1>4, <2>3 DEF GetSummary, FormWaits
<1>5. CASE Loaded \/ LoadFails
  BY <1>1, <1>5 DEF Loaded, LoadFails, FormWaits
<1>6. CASE Submit
  <2>1. CASE chosen = Nothing
    BY <1>1, <1>6, <2>1 DEF Submit, FormWaits
  <2>2. CASE chosen # Nothing
    <3> DEFINE w == [kind |-> "put", project |-> chosen, value |-> form.value, of |-> form.of,
                     kept |-> form.kept, result |-> "sent"]
    <3>1. Start(w)
      BY <1>6, <2>2 DEF Submit
    <3>2. w \in WriteRequest /\ w.kind = "put"
      BY <1>6, <1>t, <2>2 DEF Submit, SettingsTypeOK, WriteRequest
    <3> HIDE DEF w
    <3> QED
      BY <1>t, <3>1, <3>2, StartFacts DEF WaitInv, FormWaits
  <2> QED
    BY <2>1, <2>2
<1>7. CASE Delete
  <2> DEFINE w == [kind |-> "delete", project |-> chosen, value |-> Blank, of |-> chosen,
                   kept |-> FALSE, result |-> "sent"]
  <2>1. Start(w) /\ UNCHANGED <<chosen, load, ended, busy, onPage>>
    BY <1>7 DEF Delete
  <2>2. w \in WriteRequest
    BY <1>7, <1>t, SettingsFormAssumption DEF Delete, SettingsTypeOK, WriteRequest
  <2> HIDE DEF w
  <2> QED
    BY <1>t, <2>1, <2>2, StartFacts DEF WaitInv, FormWaits
<1>8. ASSUME NEW i \in Writing, Serve(i) PROVE WaitInv'
  <2>1. /\ \E result \in {"sent", "done", "refused"} : writes' = [writes EXCEPT ![i].result = result]
        /\ UNCHANGED <<chosen, load, ended, busy, onPage, writeCount>>
    BY <1>8 DEF Serve
  <2>2. Numbered' /\ ((busy /\ onPage)' => Saving \subseteq Saving')
    BY <1>t, <2>1, AnswerFacts
  <2> QED
    BY <1>t, <2>1, <2>2 DEF WaitInv, FormWaits
<1>9. ASSUME NEW i \in Writing, Saved(i) \/ SaveFails(i) \/ Deleted(i) \/ DeleteFails(i) PROVE WaitInv'
  <2>1. /\ \/ writes[i].kind = "delete" /\ UNCHANGED <<chosen, load, ended, busy, onPage>>
           \/ (~busy \/ ~onPage)'
        /\ writes' = [writes EXCEPT ![i] = Nothing] /\ UNCHANGED writeCount
    BY <1>9 DEF Saved, SaveFails, Deleted, DeleteFails
  <2>2. Numbered' /\ ((busy /\ onPage)' => Saving \subseteq Saving')
    BY <1>t, <2>1, AnswerFacts
  <2> QED
    BY <1>t, <2>1, <2>2 DEF WaitInv, FormWaits
<1>10. CASE (\E v \in Setting : Edit(v)) \/ (\E p \in Project : OthersDelete(p)) \/ UNCHANGED settingsVars
  BY <1>2, <1>10 DEF Edit, OthersDelete, settingsVars
<1> QED
  BY <1>3, <1>4, <1>5, <1>6, <1>7, <1>8, <1>9, <1>10 DEF SettingsNext, SettingsAnswers

\* A closed form of a selected project has an answer to wait for, however loads replace each
\* other and saves and deletions overlap, as long as no load has failed.
THEOREM FormsWait == SettingsSpec => []FormWaits
<1>1. SettingsInit => WaitInv
  BY DEF SettingsInit, WaitInv, Numbered, FormWaits, Writing
<1>2. WaitInv => FormWaits
  BY DEF WaitInv
<1> QED
  BY SettingsAlways, WaitStep, <1>1, <1>2, PTL DEF SettingsSpec

-----------------------------------------------------------------------------
(* The settings of an organization *)

\* Writing one setting of an organization leaves the other one as it is.
LEMMA OneSetting ==
  ASSUME NEW r \in OrgSettings, NEW k \in Kinds
  PROVE  /\ r[k] \in Value(k)
         /\ \A v \in Value(k) : /\ [r EXCEPT ![k] = v] \in OrgSettings
                                /\ [r EXCEPT ![k] = v][k] = v
                                /\ \E o \in Kinds : [r EXCEPT ![k] = v][o] = r[o]
<1>1. CASE k = "general"
  <2>1. ASSUME NEW v \in Domain
        PROVE  /\ [r EXCEPT !["general"] = v] \in OrgSettings
               /\ [r EXCEPT !["general"] = v]["general"] = v
               /\ [r EXCEPT !["general"] = v]["authorization"] = r["authorization"]
    BY DEF OrgSettings
  <2> QED
    BY <1>1, <2>1 DEF OrgSettings, Value, Kinds
<1>2. CASE k = "authorization"
  <2>1. ASSUME NEW v \in ClientType
        PROVE  /\ [r EXCEPT !["authorization"] = v] \in OrgSettings
               /\ [r EXCEPT !["authorization"] = v]["authorization"] = v
               /\ [r EXCEPT !["authorization"] = v]["general"] = r["general"]
    BY DEF OrgSettings
  <2> QED
    BY <1>2, <2>1 DEF OrgSettings, Value, Kinds
<1> QED
  BY <1>1, <1>2 DEF Kinds

LEMMA OrgFormInitial == OrgFormInit => OrgFormInv
<1> SUFFICES ASSUME OrgFormInit PROVE OrgFormInv
  OBVIOUS
<1>0. /\ 0 \in 0 .. MaxSaves /\ 0 \in 0 .. MaxOpens /\ Blanks \in OrgSettings
      /\ Unsaved = {}
  BY OrganizationFormsAssumption DEF OrgFormInit, Blanks, OrgSettings, ClientType, Unsaved
<1>1. OrgFormTypeOK
  BY <1>0 DEF OrgFormInit, OrgFormTypeOK
<1>2. OrgFormFacts /\ FormShowsStored
  BY <1>0 DEF OrgFormInit, OrgFormFacts, FormShowsStored
<1> QED
  BY <1>1, <1>2 DEF OrgFormInv

LEMMA OrgFormStep == OrgFormInv /\ [OrgFormNext]_orgFormVars =>
                        OrgFormInv' /\ (~crossing => \A o \in Org : \E kind \in Kinds :
                                                        row'[o][kind] = row[o][kind])
<1> SUFFICES ASSUME OrgFormInv, [OrgFormNext]_orgFormVars
             PROVE  OrgFormInv' /\ (~crossing => \A o \in Org : \E kind \in Kinds :
                                                    row'[o][kind] = row[o][kind])
  OBVIOUS
<1> DEFINE Form == [kind : Kinds, org : Org, number : Nat, value : Domain \cup ClientType,
                    edited : BOOLEAN, fresh : BOOLEAN]
           S == [org : Org, kind : Kinds, value : Domain \cup ClientType, number : Nat,
                 phase : {"sent", "read", "written"}, row : OrgSettings \cup {Nothing}]
           Untouched == \A o \in Org : \E kind \in Kinds : row'[o][kind] = row[o][kind]
<1>n. MaxSaves \in Nat /\ MaxOpens \in Nat /\ Nothing \notin Org
  BY OrganizationFormsAssumption, WebClientAssumption
<1>t. OrgFormTypeOK /\ OrgFormFacts
  BY DEF OrgFormInv
<1>f. /\ row \in [Org -> OrgSettings] /\ seen \in [Org -> OrgSettings]
      /\ shownForm \in {Nothing} \cup Form
      /\ saves \in [Save -> {Nothing} \cup S]
      /\ tally \in [saves : 0 .. MaxSaves, opens : 0 .. MaxOpens]
      /\ tally.saves \in 0 .. MaxSaves /\ tally.opens \in 0 .. MaxOpens
      /\ crossing \in BOOLEAN /\ jumped \in BOOLEAN
  BY <1>t DEF OrgFormTypeOK
<1>u. UNCHANGED saves => Unsaved' = Unsaved
  BY DEF Unsaved
<1>e. UNCHANGED row => Untouched
  BY DEF Kinds
<1>l. OrgFormTypeOK' /\ OrgFormFacts' => OrgFormInv'
  BY DEF OrgFormInv, OrgFormFacts, FormShowsStored
<1>i. \A i \in Unsaved : i \in Save /\ saves[i] \in S
  BY <1>f DEF Unsaved
<1>1. ASSUME NEW kind \in Kinds, NEW o \in Org, OpenForm(kind, o) PROVE OrgFormInv' /\ Untouched
  <2> DEFINE fresh == UpToDate(o)
             opened == [kind |-> kind, org |-> o, number |-> tally.opens + 1,
                      value |-> seen[o][kind], edited |-> FALSE, fresh |-> fresh]
  <2>0. /\ tally' = [tally EXCEPT !.opens = tally.opens + 1] /\ tally.opens < MaxOpens
        /\ shownForm' = opened /\ Unsaved' = Unsaved
        /\ UNCHANGED <<row, seen, saves, outdated, crossing, jumped>>
    BY <1>1, <1>u DEF OpenForm
  <2>1. fresh => o \notin outdated /\ \A i \in Unsaved : saves[i].org # o
    BY DEF UpToDate
  <2>2. fresh \in BOOLEAN
    BY Zenon DEF UpToDate
  <2> HIDE DEF fresh
  <2>3. seen[o][kind] \in Value(kind) /\ Value(kind) \subseteq Domain \cup ClientType
    BY <1>f, OneSetting DEF Value
  <2>4. /\ opened \in Form /\ opened.kind = kind /\ opened.org = o /\ opened.number = tally.opens + 1
        /\ opened.value = seen[o][kind] /\ opened.edited = FALSE /\ opened.fresh = fresh
    BY <2>2, <2>3, <1>f
  <2> HIDE DEF opened
  <2>5. tally' \in [saves : 0 .. MaxSaves, opens : 0 .. MaxOpens] /\ tally'.opens = tally.opens + 1
    BY <2>0, <1>f, <1>n
  <2>6. OrgFormTypeOK'
    BY <2>0, <2>3, <2>4, <2>5, <1>t DEF OrgFormTypeOK
  <2>7. \A i \in Unsaved : saves[i].number < tally.opens + 1 /\ saves[i].number # tally.opens + 1
    BY <1>i, <1>f, <1>t DEF OrgFormFacts
  <2>8. OrgFormFacts'
    <3>1. /\ shownForm'.number <= tally'.opens
          /\ \A i \in Unsaved' : saves'[i].number <= tally'.opens
          /\ \A i \in Unsaved' : saves'[i].number # shownForm'.number
      BY <2>0, <2>4, <2>5, <2>7, <1>i, <1>f, <1>t DEF OrgFormFacts
    <3>2. fresh => seen[o][kind] = row[o][kind]
      BY <2>1, <1>t DEF OrgFormFacts
    <3> QED
      BY <2>0, <2>1, <2>4, <3>1, <3>2, <1>t DEF OrgFormFacts
  <2> QED
    BY <2>0, <2>6, <2>8, <1>l, <1>e
<1>2. ASSUME NEW o \in Org, JumpBack(o) PROVE OrgFormInv' /\ Untouched
  <2>0. /\ tally' = [tally EXCEPT !.opens = tally.opens + 1] /\ tally.opens < MaxOpens
        /\ shownForm' = [shownForm EXCEPT !.org = o] /\ jumped' = TRUE /\ Unsaved' = Unsaved
        /\ shownForm \in Form
        /\ UNCHANGED <<row, seen, saves, outdated, crossing>>
    BY <1>2, <1>u, <1>f DEF JumpBack
  <2>1. /\ shownForm' \in Form /\ shownForm'.number = shownForm.number
        /\ shownForm'.kind = shownForm.kind /\ shownForm'.edited = shownForm.edited
        /\ shownForm'.value = shownForm.value
    BY <2>0
  <2>2. tally' \in [saves : 0 .. MaxSaves, opens : 0 .. MaxOpens] /\ tally'.opens = tally.opens + 1
    BY <2>0, <1>f, <1>n
  <2>n. shownForm # Nothing
    BY <1>2 DEF JumpBack
  <2>3. OrgFormTypeOK'
    BY <2>0, <2>1, <2>2, <2>n, <1>t DEF OrgFormTypeOK
  <2>4. /\ shownForm.number <= tally.opens + 1
        /\ \A i \in Unsaved : saves[i].number <= tally.opens + 1
    BY <2>0, <2>n, <1>i, <1>f, <1>t DEF OrgFormFacts
  <2>5. OrgFormFacts'
    BY <2>0, <2>1, <2>2, <2>4, <2>n, <1>t DEF OrgFormFacts
  <2> QED
    BY <2>0, <2>3, <2>5, <1>l, <1>e
<1>3. ASSUME NEW v \in Domain \cup ClientType, EditSetting(v) PROVE OrgFormInv' /\ Untouched
  <2>0. /\ shownForm' = [shownForm EXCEPT !.value = v, !.edited = TRUE] /\ Unsaved' = Unsaved
        /\ shownForm # Nothing /\ shownForm \in Form /\ v \in Value(shownForm.kind)
        /\ UNCHANGED <<row, seen, saves, tally, outdated, crossing, jumped>>
    BY <1>3, <1>u, <1>f DEF EditSetting
  <2>1. /\ shownForm' \in Form /\ shownForm'.number = shownForm.number
        /\ shownForm'.kind = shownForm.kind /\ shownForm'.org = shownForm.org
        /\ shownForm'.edited = TRUE /\ shownForm'.value = v
    BY <2>0
  <2>2. OrgFormTypeOK'
    BY <2>0, <2>1, <1>t DEF OrgFormTypeOK
  <2>3. OrgFormFacts'
    BY <2>0, <2>1, <1>t DEF OrgFormFacts
  <2> QED
    BY <2>0, <2>2, <2>3, <1>l, <1>e
<1>4. CASE SubmitSetting
  <2> DEFINE s == [org |-> shownForm.org, kind |-> shownForm.kind,
                   value |-> shownForm.value, number |-> shownForm.number,
                   phase |-> "sent", row |-> Nothing]
             n == tally.saves + 1
             others == Unsaved # {}
  <2>0. /\ shownForm # Nothing /\ shownForm \in Form /\ shownForm.edited
        /\ tally' = [tally EXCEPT !.saves = n] /\ tally.saves < MaxSaves
        /\ saves' = [saves EXCEPT ![n] = s]
        /\ crossing' = (crossing \/ others) /\ others \in BOOLEAN
        /\ UNCHANGED <<row, seen, shownForm, outdated, jumped>>
    BY <1>4, <1>f DEF SubmitSetting, CanSave
  <2>1. /\ s \in S /\ s.org = shownForm.org /\ s.kind = shownForm.kind
        /\ s.value = shownForm.value /\ s.number = shownForm.number /\ s.phase = "sent"
    BY <2>0
  <2> HIDE DEF s, others
  <2>2. crossing' \in BOOLEAN /\ (~crossing' => ~crossing /\ ~others)
    BY <2>0, <1>f, Zenon
  <2>3. /\ n \in Save /\ tally' \in [saves : 0 .. MaxSaves, opens : 0 .. MaxOpens]
        /\ tally'.opens = tally.opens
    BY <2>0, <1>f, <1>n DEF Save
  <2> HIDE DEF n
  <2>4. /\ saves' \in [Save -> {Nothing} \cup S]
        /\ \A i \in Save : saves'[i] = IF i = n THEN s ELSE saves[i]
    BY <2>0, <2>1, <2>3, <1>f
  <2>5. \A i \in Unsaved' : (i = n /\ saves'[i] = s) \/ (i \in Unsaved /\ saves'[i] = saves[i])
    BY <2>4 DEF Unsaved
  <2>6. ~crossing' => \A i \in Unsaved' : i = n /\ saves'[i] = s
    BY <2>2, <2>5 DEF others
  <2>7. OrgFormTypeOK'
    BY <2>0, <2>1, <2>2, <2>3, <2>4, <2>5, <1>t DEF OrgFormTypeOK
  <2>8. OrgFormFacts'
    BY <2>0, <2>1, <2>2, <2>3, <2>5, <2>6, <1>t DEF OrgFormFacts
  <2> QED
    BY <2>0, <2>7, <2>8, <1>l, <1>e
<1>5. CASE ContextComes
  <2>0. /\ seen' = row /\ outdated' = {} /\ Unsaved' = Unsaved
        /\ UNCHANGED <<row, shownForm, saves, tally, crossing, jumped>>
    BY <1>5, <1>u DEF ContextComes
  <2>1. OrgFormTypeOK'
    BY <2>0, <1>t DEF OrgFormTypeOK
  <2>2. OrgFormFacts'
    BY <2>0, <1>t DEF OrgFormFacts
  <2> QED
    BY <2>0, <2>1, <2>2, <1>l, <1>e
<1>6. ASSUME NEW i \in Unsaved, ReadRow(i) PROVE OrgFormInv' /\ Untouched
  <2> DEFINE s == [saves[i] EXCEPT !.phase = "read", !.row = row[saves[i].org]]
  <2>0. /\ saves' = [saves EXCEPT ![i] = s]
        /\ UNCHANGED <<row, seen, shownForm, tally, outdated, crossing, jumped>>
        /\ i \in Save /\ saves[i] \in S
    BY <1>6, <1>i DEF ReadRow
  <2>1. /\ s \in S /\ s.org = saves[i].org /\ s.kind = saves[i].kind /\ s.value = saves[i].value
        /\ s.number = saves[i].number /\ s.row = row[s.org] /\ s.row \in OrgSettings
    BY <2>0, <1>f
  <2> HIDE DEF s
  <2>2. /\ saves' \in [Save -> {Nothing} \cup S]
        /\ \A j \in Save : saves'[j] = IF j = i THEN s ELSE saves[j]
    BY <2>0, <2>1, <1>f
  <2>3. \A j \in Unsaved' : /\ j \in Unsaved
                            /\ (j = i /\ saves'[j] = s) \/ (j # i /\ saves'[j] = saves[j])
    BY <2>2, <1>6 DEF Unsaved
  <2>4. OrgFormTypeOK'
    BY <2>0, <2>1, <2>2, <2>3, <1>t, <1>6 DEF OrgFormTypeOK
  <2>5. OrgFormFacts'
    BY <2>0, <2>1, <2>3, <1>t, <1>6 DEF OrgFormFacts
  <2> QED
    BY <2>0, <2>4, <2>5, <1>l, <1>e
<1>7. ASSUME NEW i \in Unsaved, WriteRow(i) PROVE OrgFormInv' /\ (~crossing => Untouched)
  <2> DEFINE old == saves[i]
             new == [old.row EXCEPT ![old.kind] = old.value]
             s == [old EXCEPT !.phase = "written", !.row = new]
  <2>0. /\ old.phase = "read" /\ row' = [row EXCEPT ![old.org] = new]
        /\ saves' = [saves EXCEPT ![i] = s] /\ outdated' = outdated \cup {old.org}
        /\ UNCHANGED <<seen, shownForm, tally, crossing, jumped>>
        /\ i \in Save /\ old \in S
    BY <1>7, <1>i DEF WriteRow
  <2>1. old.row \in OrgSettings /\ old.value \in Value(old.kind) /\ old.kind \in Kinds
    BY <2>0, <1>t, <1>7 DEF OrgFormTypeOK
  <2>2. new \in OrgSettings /\ \E k \in Kinds : new[k] = old.row[k]
    BY <2>1, OneSetting
  <2> HIDE DEF new
  <2>3. /\ s \in S /\ s.org = old.org /\ s.kind = old.kind /\ s.value = old.value
        /\ s.number = old.number /\ s.row = new /\ s.phase = "written"
    BY <2>0, <2>2
  <2> HIDE DEF s
  <2>4. /\ saves' \in [Save -> {Nothing} \cup S]
        /\ \A j \in Save : saves'[j] = IF j = i THEN s ELSE saves[j]
    BY <2>0, <2>3, <1>f
  <2>5. \A j \in Unsaved' : /\ j \in Unsaved
                            /\ (j = i /\ saves'[j] = s) \/ (j # i /\ saves'[j] = saves[j])
    BY <2>4, <1>7 DEF Unsaved
  <2>6. /\ row' \in [Org -> OrgSettings]
        /\ \A o \in Org : row'[o] = IF o = old.org THEN new ELSE row[o]
    BY <2>0, <2>2, <1>f
  <2>7. OrgFormTypeOK'
    BY <2>0, <2>2, <2>3, <2>4, <2>5, <2>6, <1>t, <1>7 DEF OrgFormTypeOK
  <2>8. OrgFormFacts'
    <3>1. shownForm # Nothing => shownForm.org \in Org
      BY <1>f
    <3> QED
      BY <2>0, <2>3, <2>5, <2>6, <3>1, <1>t, <1>7 DEF OrgFormFacts
  <2>9. ~crossing => old.row = row[old.org]
    BY <2>0, <1>t, <1>7 DEF OrgFormFacts
  <2>10. ~crossing => Untouched
    BY <2>2, <2>6, <2>9 DEF Kinds
  <2> QED
    BY <2>7, <2>8, <2>10, <1>l
<1>r. ASSUME NEW i \in Unsaved, saves' = [saves EXCEPT ![i] = Nothing]
      PROVE  /\ saves' \in [Save -> {Nothing} \cup S]
             /\ \A j \in Unsaved' : j # i /\ j \in Unsaved /\ saves'[j] = saves[j]
  BY <1>r, <1>f DEF Unsaved
<1>8. ASSUME NEW i \in Unsaved, SettingSaved(i) PROVE OrgFormInv' /\ Untouched
  <2> DEFINE s == saves[i]
  <2>0. /\ s.phase = "written" /\ s \in S
        /\ saves' = [saves EXCEPT ![i] = Nothing]
        /\ UNCHANGED <<row, seen, tally, outdated, crossing, jumped>>
    BY <1>8, <1>i DEF SettingSaved
  <2>1. /\ saves' \in [Save -> {Nothing} \cup S]
        /\ \A j \in Unsaved' : j # i /\ j \in Unsaved /\ saves'[j] = saves[j]
    BY <2>0, <1>r
  <2>2. ~crossing => Unsaved' = {} /\ s.row = row[s.org]
    BY <2>0, <2>1, <1>8, <1>t DEF OrgFormFacts
  <2>3. CASE ~(shownForm # Nothing /\ shownForm.number = s.number)
    <3>1. shownForm' = shownForm
      BY <1>8, <2>3 DEF SettingSaved
    <3>2. OrgFormTypeOK'
      BY <2>0, <2>1, <3>1, <1>t DEF OrgFormTypeOK
    <3>3. OrgFormFacts'
      BY <2>0, <2>1, <2>2, <3>1, <1>t DEF OrgFormFacts
    <3> QED
      BY <2>0, <3>2, <3>3, <1>l, <1>e
  <2>4. CASE shownForm # Nothing /\ shownForm.number = s.number
    <3>0. shownForm \in Form /\ s.kind = shownForm.kind
          /\ (~jumped => s.org = shownForm.org)
      BY <2>4, <1>f, <1>t, <1>8 DEF OrgFormFacts
    <3>1. s.row \in OrgSettings /\ s.kind \in Kinds
      BY <2>0, <1>t, <1>8 DEF OrgFormTypeOK
    <3>2. s.row[s.kind] \in Value(s.kind) /\ Value(s.kind) \subseteq Domain \cup ClientType
      BY <3>1, OneSetting DEF Value
    <3>3. shownForm' = [shownForm EXCEPT !.value = s.row[s.kind], !.edited = FALSE,
                                         !.fresh = TRUE]
      BY <1>8, <2>4 DEF SettingSaved
    <3>4. /\ shownForm' \in Form /\ shownForm'.value = s.row[s.kind]
          /\ shownForm'.kind = shownForm.kind /\ shownForm'.org = shownForm.org
          /\ shownForm'.number = shownForm.number
      BY <3>0, <3>2, <3>3
    <3>5. OrgFormTypeOK'
      BY <2>0, <2>1, <3>0, <3>2, <3>4, <1>t DEF OrgFormTypeOK
    <3>6. OrgFormFacts'
      BY <2>0, <2>1, <2>2, <2>4, <3>0, <3>4, <1>t DEF OrgFormFacts
    <3> QED
      BY <2>0, <3>5, <3>6, <1>l, <1>e
  <2> QED
    BY <2>3, <2>4
<1>9. ASSUME NEW i \in Unsaved, SettingFails(i) PROVE OrgFormInv' /\ Untouched
  <2>0. /\ saves' = [saves EXCEPT ![i] = Nothing]
        /\ UNCHANGED <<row, seen, shownForm, tally, outdated, crossing, jumped>>
    BY <1>9 DEF SettingFails
  <2>1. /\ saves' \in [Save -> {Nothing} \cup S]
        /\ \A j \in Unsaved' : j # i /\ j \in Unsaved /\ saves'[j] = saves[j]
    BY <2>0, <1>r
  <2>2. OrgFormTypeOK'
    BY <2>0, <2>1, <1>t DEF OrgFormTypeOK
  <2>3. OrgFormFacts'
    BY <2>0, <2>1, <1>t DEF OrgFormFacts
  <2> QED
    BY <2>0, <2>2, <2>3, <1>l, <1>e
<1>10. CASE UNCHANGED orgFormVars
  <2>0. /\ UNCHANGED <<row, seen, shownForm, saves, tally, outdated, crossing, jumped>>
        /\ Unsaved' = Unsaved
    BY <1>10, <1>u DEF orgFormVars
  <2>1. OrgFormTypeOK'
    BY <2>0, <1>t DEF OrgFormTypeOK
  <2>2. OrgFormFacts'
    BY <2>0, <1>t DEF OrgFormFacts
  <2> QED
    BY <2>0, <2>1, <2>2, <1>l, <1>e
<1> QED
  BY <1>1, <1>2, <1>3, <1>4, <1>5, <1>6, <1>7, <1>8, <1>9, <1>10 DEF OrgFormNext

LEMMA OrgFormAlways == OrgFormSpec => []OrgFormInv
  BY OrgFormInitial, OrgFormStep, PTL DEF OrgFormSpec

\* For any organizations, domains and numbers of saves: an untouched form shows what is
\* stored, unless it was opened after a save of another form has begun.
THEOREM StoredFormShown == OrgFormSpec => []FormShowsStored
<1>1. OrgFormInv => FormShowsStored
  BY DEF OrgFormInv
<1> QED
  BY OrgFormAlways, <1>1, PTL

\* Unless two saves are under way at once, saving one setting leaves the other one alone,
\* however old the context is that the form was filled from.
THEOREM OtherSettingKept == OrgFormSpec => OneSettingAtATime
<1>1. OrgFormInv /\ [OrgFormNext]_orgFormVars =>
          [~crossing => \A o \in Org : \E kind \in Kinds :
                           row'[o][kind] = row[o][kind]]_orgFormVars
  BY OrgFormStep
<1> QED
  BY OrgFormAlways, <1>1, PTL DEF OrgFormSpec, OneSettingAtATime

-----------------------------------------------------------------------------
(* The context *)

\* At the check page of a project the route names its organization.
LEMMA CheckRoute ==
  ASSUME route \in Routes, route.page = "check"
  PROVE  route.org = OrgOf[route.project] /\ route.project \in Project
  BY WebShellAssumption DEF Routes

\* What lasts is selected as soon as the user is taken to it.
LEMMA SelectedFollows == ShellTypeOK /\ ShellFacts => CreatedSelected
<1> SUFFICES ASSUME ShellTypeOK, ShellFacts,
                    route.page = "check", route.project \in announced \ gone,
                    OrgOf[route.project] \notin lost, context.value # Nothing
             PROVE  selectedProject = route.project
  BY DEF CreatedSelected
<1>1. route.org = OrgOf[route.project]
  BY CheckRoute DEF ShellTypeOK
<1>2. route.project \in Lasting
  BY DEF Lasting
<1>3. route.project \in projects /\ OrgOf[route.project] \in organizations
  BY <1>2 DEF ShellFacts
<1> QED
  BY <1>1, <1>3 DEF selectedProject, selectedOrg

LEMMA ShellCorePrimed == (ShellTypeOK /\ ShellFacts /\ DeletedGone)' => ShellInv'
  BY SelectedFollows, PTL DEF ShellInv

\* Which URLs are routes.
LEMMA KnownRoutes ==
  /\ \A page \in {"blank", "home"} \cup OrgForms : Plain(page) \in Routes
  /\ \A page \in {"dashboard", "settings", "new"} : \A o \in Org : OfOrg(page, o) \in Routes
  /\ \A page \in Tab \cup {"project settings"} : \A p \in Project : OfProject(page, p) \in Routes
  /\ \A o \in Org : \A p \in Project : At("project", o, p) \in Routes
<1>1. ASSUME NEW page \in {"blank", "home"} \cup OrgForms PROVE Plain(page) \in Routes
  BY WebShellAssumption DEF Routes, PageName, OrgForms, Plain, At
<1>2. ASSUME NEW page \in {"dashboard", "settings", "new"}, NEW o \in Org
      PROVE  OfOrg(page, o) \in Routes
  BY WebShellAssumption DEF Routes, PageName, OrgForms, OfOrg, At
<1>3. ASSUME NEW page \in Tab \cup {"project settings"}, NEW p \in Project
      PROVE  OfProject(page, p) \in Routes
  <2>1. OrgOf[p] \in Org /\ page \in PageName /\ page \notin {"dashboard", "settings", "new"}
    BY WebShellAssumption DEF PageName, OrgForms
  <2> QED
    BY <2>1 DEF Routes, OfProject, At
<1>4. ASSUME NEW o \in Org, NEW p \in Project PROVE At("project", o, p) \in Routes
  BY WebShellAssumption DEF Routes, PageName, OrgForms, At
<1> QED
  BY <1>1, <1>2, <1>3, <1>4

LEMMA DashboardRoute ==
  ASSUME route \in Routes, route.page = "dashboard"
  PROVE  route.org \in Org
  BY DEF Routes

\* Every link of the page leads to a route.
LEMMA LinksLead == ShellTypeOK => Links \subseteq Routes
<1> SUFFICES ASSUME ShellTypeOK PROVE Links \subseteq Routes
  OBVIOUS
<1>1. organizations \subseteq Org /\ projects \subseteq Project
  BY DEF ShellTypeOK, organizations, projects
<1>2. /\ selectedOrg \in Org \cup {Nothing} /\ selectedProject \in Project \cup {Nothing}
      /\ \A o : ProjectsOf(o) \subseteq Project
  BY <1>1 DEF selectedOrg, selectedProject, ProjectsOf
<1>3. HeaderLinks \subseteq Routes
  <2>1. \A o \in organizations : OfOrg("dashboard", o) \in Routes
    BY <1>1, KnownRoutes
  <2>2. \A p \in projects : OfProject("project", p) \in Routes
    BY <1>1, KnownRoutes, WebShellAssumption
  <2>3. \A o \in {selectedOrg} \ {Nothing} : OfOrg("settings", o) \in Routes
    BY <1>2, KnownRoutes
  <2>4. Plain("home") \in Routes /\ Plain("organizations/new") \in Routes
    BY KnownRoutes DEF OrgForms
  <2> QED
    BY <2>1, <2>2, <2>3, <2>4 DEF HeaderLinks
<1>4. navItems \subseteq Routes
  BY <1>2, KnownRoutes DEF navItems
<1>5. SettingsLinks \subseteq Routes
  BY <1>2, KnownRoutes DEF SettingsLinks
<1>6. GridLinks \subseteq Routes
  BY DashboardRoute, KnownRoutes DEF GridLinks, ShellTypeOK
<1> QED
  BY <1>3, <1>4, <1>5, <1>6 DEF Links

LEMMA ShellInitial == ShellInit => ShellInv
<1> SUFFICES ASSUME ShellInit PROVE ShellInv
  OBVIOUS
<1>0. /\ 0 \in 0 .. MaxClicks /\ 0 \in 0 .. MaxForms /\ 0 \in 0 .. MaxChanges
      /\ NoReads \in Reads
  BY WebShellAssumption DEF NoReads, Reads
<1>1. ShellTypeOK
  BY <1>0, KnownRoutes DEF ShellInit, ShellTypeOK, Requested
<1>2. ShellFacts /\ DeletedGone
  BY DEF ShellInit, ShellFacts, DeletedGone, Lasting, Requested, NoReads
<1> QED
  BY <1>1, <1>2, SelectedFollows DEF ShellInv

-----------------------------------------------------------------------------
(* The steps of the shell *)

\* What the facts speak of is unchanged.
FactsVars == <<member, existing, gone, context, requests, announced, dropped, lost>>

LEMMA FactsKept ==
  ASSUME ShellFacts, DeletedGone, UNCHANGED FactsVars
  PROVE  ShellFacts' /\ DeletedGone'
BY DEF ShellFacts, DeletedGone, Lasting, projects, organizations, FactsVars

\* The type of what the router changes.
RouterTypeOK ==
  /\ route \in Routes
  /\ navigating \in [to : Routes, phase : {"context", "page"}] \cup {Nothing}
  /\ naming \in 0 .. MaxForms

LEMMA RouterMoves ==
  ASSUME ShellTypeOK
  PROVE  /\ \A to \in Routes : Navigate(to) => navigating' \in [to : Routes, phase : {"context", "page"}]
                                                              \cup {Nothing}
         /\ \A to \in Routes : Arrive(to) => RouterTypeOK'
         /\ \A to \in Routes : Redirect(to) => RouterTypeOK'
         /\ Cancel => RouterTypeOK'
<1>1. \A to \in Routes : Navigate(to) => navigating' \in [to : Routes, phase : {"context", "page"}]
                                                              \cup {Nothing}
  BY DEF Navigate
<1>2. 0 \in 0 .. MaxForms
  BY WebShellAssumption
<1> QED
  BY <1>1, <1>2 DEF Arrive, Redirect, Cancel, RouterTypeOK, ShellTypeOK

LEMMA GuardsRoute ==
  ASSUME ShellInv, Guards
  PROVE  RouterTypeOK'
<1>0. ShellTypeOK
  BY DEF ShellInv
<1>1. ASSUME navigating # Nothing
      PROVE  /\ navigating.to \in Routes
             /\ [navigating EXCEPT !.phase = "page"] \in [to : Routes, phase : {"context", "page"}]
  BY <1>0, <1>1 DEF ShellTypeOK
<1>2. organizations \subseteq Org /\ projects \subseteq Project
  BY <1>0 DEF ShellTypeOK, organizations, projects
<1>3. Plain("onboarding") \in Routes /\ Plain("home") \in Routes
  BY KnownRoutes DEF OrgForms
<1>4. CASE ContextGuard
  <2>1. CASE context.status = "error"
    BY <1>0, <1>4, <2>1, RouterMoves DEF ContextGuard
  <2>2. CASE context.status # "error" /\ organizations = {} /\ navigating.to.page # "onboarding"
    BY <1>0, <1>3, <1>4, <2>2, RouterMoves DEF ContextGuard
  <2>3. CASE /\ context.status # "error" /\ organizations # {} /\ navigating.to.page = "onboarding"
    BY <1>0, <1>3, <1>4, <2>3, RouterMoves DEF ContextGuard
  <2>4. CASE /\ context.status # "error"
             /\ organizations = {} <=> navigating.to.page = "onboarding"
    <3>1. CASE navigating.to.page \in {"home", "dashboard"}
      <4>1. navigating' = [navigating EXCEPT !.phase = "page"] /\ UNCHANGED <<route, naming>>
        BY <1>4, <2>4, <3>1 DEF ContextGuard
      <4> QED
        BY <4>1, <1>0, <1>1, <1>4 DEF RouterTypeOK, ShellTypeOK, ContextGuard
    <3>2. CASE navigating.to.page \notin {"home", "dashboard"}
      <4>1. Arrive(navigating.to)
        BY <1>4, <2>4, <3>2 DEF ContextGuard
      <4> QED
        BY <4>1, <1>0, <1>1, <1>4, RouterMoves DEF ContextGuard
    <3> QED
      BY <3>1, <3>2
  <2> QED
    BY <2>1, <2>2, <2>3, <2>4
<1>5. CASE DefaultPage
  <2>1. CASE Cancel \/ Arrive(Plain("home"))
    BY <1>0, <1>3, <2>1, RouterMoves
  <2>2. CASE \E o \in IF selectedOrg = Nothing THEN organizations ELSE {selectedOrg} :
             IF Cardinality(organizations) = 1 /\ Cardinality(projects) = 1
             THEN \E p \in projects : Redirect(At("project", o, p))
             ELSE Redirect(OfOrg("dashboard", o))
    <3>1. PICK o \in Org : \/ \E p \in Project : Redirect(At("project", o, p))
                           \/ Redirect(OfOrg("dashboard", o))
      BY <2>2, <1>2 DEF selectedOrg
    <3> QED
      BY <3>1, <1>0, RouterMoves, KnownRoutes
  <2> QED
    BY <1>5, <2>1, <2>2 DEF DefaultPage
<1>6. CASE OrgDashboardToProject
  <2>1. \/ Cancel \/ Arrive(navigating.to)
        \/ \E p \in Project : Redirect(OfProject("project", p))
    BY <1>2, <1>6, Zenon DEF OrgDashboardToProject, ProjectsOf
  <2>2. \A p \in Project : OfProject("project", p) \in Routes
    BY KnownRoutes, WebShellAssumption
  <2> QED
    BY <2>1, <2>2, <1>0, <1>1, <1>6, RouterMoves DEF OrgDashboardToProject
<1> QED
  BY <1>4, <1>5, <1>6 DEF Guards

\* The facts of the requests that are under way.
AnswersHold ==
  \A r \in requests : r.result = "done" =>
     /\ r.kind = "delete" => r.of \in gone
     /\ r.kind = "project" => r.of \in existing \cup gone /\ OrgOf[r.of] \in member \cup lost

\* What happens in the database leaves the facts as they are: what goes is gone for good.
LEMMA WorldTurns ==
  ASSUME ShellFacts, UNCHANGED <<context, announced, dropped>>, AnswersHold',
         existing' \cap gone' = {}, existing \subseteq existing' \cup gone', gone \subseteq gone',
         member \subseteq member' \cup lost', lost \subseteq lost'
  PROVE  ShellFacts'
<1>1. Lasting' \subseteq Lasting
  BY DEF Lasting
<1>2. Lasting' \subseteq existing' /\ \A p \in Lasting' : OrgOf[p] \in member'
  <2>1. \A p \in Lasting' : p \in Lasting /\ p \notin gone' /\ OrgOf[p] \notin lost'
    BY <1>1 DEF Lasting
  <2> QED
    BY <2>1 DEF ShellFacts
<1>3. dropped' \subseteq gone'
  BY DEF ShellFacts
<1>4. (context.flight # Nothing =>
          /\ context.flight.orgs # Nothing => \A p \in Lasting : OrgOf[p] \in context.flight.orgs
          /\ context.flight.projects # Nothing =>
                /\ context.flight.orgs # Nothing
                /\ Lasting \subseteq context.flight.projects
                /\ dropped \cap context.flight.projects = {})'
  BY <1>1 DEF ShellFacts
<1>5. (context.value # Nothing =>
          Lasting \subseteq projects /\ \A p \in Lasting : OrgOf[p] \in organizations)'
  BY <1>1 DEF ShellFacts, projects, organizations
<1> QED
  BY <1>2, <1>3, <1>4, <1>5 DEF ShellFacts, AnswersHold

\* No bound is exceeded.
LEMMA Counted ==
  ASSUME ShellTypeOK
  PROVE  LET C == [clicks : 0 .. MaxClicks, forms : 0 .. MaxForms, changes : 0 .. MaxChanges] IN
         /\ count.clicks < MaxClicks => [count EXCEPT !.clicks = @ + 1] \in C
         /\ count.forms < MaxForms =>
               [count EXCEPT !.forms = @ + 1] \in C /\ count.forms + 1 \in 1 .. MaxForms
         /\ count.changes < MaxChanges => [count EXCEPT !.changes = @ + 1] \in C
<1>1. /\ count \in [clicks : 0 .. MaxClicks, forms : 0 .. MaxForms, changes : 0 .. MaxChanges]
      /\ MaxClicks \in Nat /\ MaxForms \in Nat /\ MaxChanges \in Nat
  BY WebShellAssumption DEF ShellTypeOK
<1> QED
  BY <1>1

LEMMA ShellStep == ShellInv /\ [ShellNext]_shellVars => ShellInv'
<1> SUFFICES ASSUME ShellInv, [ShellNext]_shellVars
             PROVE  (ShellTypeOK /\ ShellFacts /\ DeletedGone)'
  BY ShellCorePrimed
<1> USE DEF ShellInv
<1>1. CASE Guards
  <2>1. UNCHANGED <<member, existing, gone, context, requests, count, history>>
    BY <1>1 DEF Guards, ContextGuard, DefaultPage, OrgDashboardToProject
  <2>2. ShellFacts' /\ DeletedGone'
    BY <2>1, FactsKept DEF FactsVars, history
  <2>3. ShellTypeOK'
    BY <2>1, <1>1, GuardsRoute DEF ShellTypeOK, RouterTypeOK, history
  <2> QED
    BY <2>2, <2>3
<1>2. CASE ReadOrgs
  <2>0. /\ UNCHANGED <<member, existing, gone, route, navigating, naming, requests, count, history>>
        /\ context.flight \in Reads /\ context.flight.projects = Nothing
    BY <1>2 DEF ReadOrgs, ShellTypeOK, ShellFacts
  <2>1. context' = [status |-> context.status, value |-> context.value,
                    flight |-> [orgs |-> member, projects |-> Nothing]]
    BY <1>2, <2>0 DEF ReadOrgs, ShellTypeOK, Reads
  <2>2. ShellTypeOK'
    BY <2>0, <2>1 DEF ShellTypeOK, history, Reads
  <2>3. ShellFacts' /\ DeletedGone'
    BY <2>0, <2>1 DEF ShellFacts, DeletedGone, Lasting, projects, organizations, history
  <2> QED
    BY <2>2, <2>3
<1>3. CASE ReadProjects
  <2> DEFINE found == {p \in existing : OrgOf[p] \in member}
  <2>0. /\ UNCHANGED <<member, existing, gone, route, navigating, naming, requests, count, history>>
        /\ context.flight \in Reads
    BY <1>3 DEF ReadProjects, ShellTypeOK
  <2>1. context' = [status |-> context.status, value |-> context.value,
                    flight |-> [orgs |-> context.flight.orgs, projects |-> found]]
    BY <1>3, <2>0 DEF ReadProjects, ShellTypeOK, Reads
  <2>2. found \subseteq Project /\ found \subseteq existing /\ Lasting \subseteq found
    BY DEF ShellTypeOK, ShellFacts
  <2> HIDE DEF found
  <2>3. ShellTypeOK'
    BY <2>0, <2>1, <2>2 DEF ShellTypeOK, history, Reads
  <2>4. context.flight # Nothing /\ context.flight.orgs # Nothing
    BY <1>3 DEF ReadProjects
  <2>5. ShellFacts' /\ DeletedGone'
    BY <2>0, <2>1, <2>2, <2>4 DEF ShellFacts, DeletedGone, Lasting, projects, organizations, history
  <2> QED
    BY <2>3, <2>5
<1>4. CASE ContextLoaded
  <2>0. UNCHANGED <<member, existing, gone, route, navigating, naming, requests, count, history>>
    BY <1>4 DEF ContextLoaded
  <2>1. context' = Resolved(context.flight) /\ context.flight # Nothing
    BY <1>4 DEF ContextLoaded
  <2>2. /\ context.flight.orgs # Nothing /\ context.flight.projects # Nothing
        /\ context.flight \in [orgs : SUBSET Org, projects : SUBSET Project]
    BY <1>4 DEF ContextLoaded, ShellTypeOK, ShellFacts, Reads
  <2>3. ShellTypeOK'
    BY <2>0, <2>1, <2>2 DEF ShellTypeOK, history, Resolved
  <2>4. ShellFacts' /\ DeletedGone'
    BY <2>0, <2>1, <2>2
       DEF ShellFacts, DeletedGone, Lasting, projects, organizations, history, Resolved
  <2> QED
    BY <2>3, <2>4
<1>5. CASE ContextFails
  <2>1. ShellTypeOK'
    BY <1>5, Counted DEF ContextFails, ShellTypeOK, Broken
  <2>2. ShellFacts' /\ DeletedGone'
    BY <1>5 DEF ContextFails, ShellFacts, DeletedGone, Lasting, projects, organizations, Broken
  <2> QED
    BY <2>1, <2>2
<1>6. CASE Restart
  <2>0. /\ UNCHANGED <<member, existing, gone, lost>>
        /\ context' = Requested(NoReads) /\ requests' = {} /\ announced' = {} /\ dropped' = {}
    BY <1>6 DEF Restart
  <2>1. ShellTypeOK'
    <3>1. Plain("home") \in Routes /\ Plain("blank") \in Routes
      BY KnownRoutes
    <3>2. NoReads \in Reads
      BY DEF NoReads, Reads
    <3>3. 0 \in 0 .. MaxForms
      BY WebShellAssumption
    <3> QED
      BY <3>1, <3>2, <3>3, <1>6, Counted DEF Restart, ShellTypeOK, Requested
  <2>2. ShellFacts' /\ DeletedGone'
    BY <2>0 DEF ShellFacts, DeletedGone, Lasting, projects, organizations, Requested, NoReads
  <2> QED
    BY <2>1, <2>2
<1>7. CASE OthersChange
  <2>0. UNCHANGED <<context, route, navigating, naming, requests, founded, announced, dropped,
                    refused, interrupted>>
    BY <1>7 DEF OthersChange
  <2>1. ShellTypeOK'
    BY <1>7, Counted DEF OthersChange, ShellTypeOK
  <2>2. DeletedGone'
    BY <2>0 DEF DeletedGone, projects
  <2>3. /\ existing' \cap gone' = {} /\ existing \subseteq existing' \cup gone' /\ gone \subseteq gone'
        /\ member \subseteq member' \cup lost' /\ lost \subseteq lost'
    BY <1>7 DEF OthersChange, ShellFacts
  <2>4. AnswersHold'
    BY <2>0, <2>3 DEF ShellFacts, AnswersHold
  <2>5. ShellFacts'
    BY <2>0, <2>3, <2>4, WorldTurns
  <2> QED
    BY <2>1, <2>2, <2>5
<1>8. ASSUME NEW to \in Links, Click(to) PROVE (ShellTypeOK /\ ShellFacts /\ DeletedGone)'
  <2>1. navigating' \in [to : Routes, phase : {"context", "page"}] \cup {Nothing}
    BY <1>8, LinksLead, RouterMoves DEF Click
  <2>2. ShellTypeOK'
    <3>1. interrupted' \in BOOLEAN
      BY <1>8, Zenon DEF Click
    <3> QED
      BY <1>8, <2>1, <3>1, Counted DEF Click, ShellTypeOK
  <2>3. UNCHANGED FactsVars
    BY <1>8 DEF Click, FactsVars
  <2> QED
    BY <2>2, <2>3, FactsKept
<1>9. ASSUME NEW kind \in {"org", "project", "delete"}, NEW of \in Org \cup Project,
             of \in IF kind = "org" THEN Org ELSE Project, Send(kind, of),
             naming' \in {naming, count.forms + 1}
      PROVE  (ShellTypeOK /\ ShellFacts /\ DeletedGone)'
  <2> DEFINE new == [number |-> count.forms + 1, kind |-> kind, of |-> of, result |-> "sent"]
  <2>1. /\ requests' = requests \cup {new} /\ count' = [count EXCEPT !.forms = @ + 1]
        /\ count.forms < MaxForms
        /\ UNCHANGED <<member, existing, gone, context, route, navigating, history>>
    BY <1>9 DEF Send
  <2>2. /\ new \in [number : 1 .. MaxForms, kind : {"org", "project", "delete"},
                    of : Org \cup Project, result : {"sent", "done", "refused"}]
        /\ new.of \in IF new.kind = "org" THEN Org ELSE Project
        /\ new.result # "done" /\ naming' \in 0 .. MaxForms
    BY <1>9, <2>1, Counted DEF ShellTypeOK
  <2> HIDE DEF new
  <2>3. ShellTypeOK'
    BY <2>1, <2>2, Counted DEF ShellTypeOK, history
  <2>4. AnswersHold'
    BY <2>1, <2>2 DEF ShellFacts, AnswersHold, history
  <2>5. ShellFacts'
    BY <2>1, <2>4, WorldTurns DEF ShellFacts, history
  <2>6. DeletedGone'
    BY <2>1 DEF DeletedGone, projects, history
  <2> QED
    BY <2>3, <2>5, <2>6
<1>10. ASSUME NEW o \in Org, SubmitOrg(o) PROVE (ShellTypeOK /\ ShellFacts /\ DeletedGone)'
  BY <1>9, <1>10 DEF SubmitOrg
<1>11. ASSUME NEW p \in Project, SubmitProject(p) PROVE (ShellTypeOK /\ ShellFacts /\ DeletedGone)'
  BY <1>9, <1>11 DEF SubmitProject
<1>12. CASE SubmitDelete
  <2>1. selectedProject \in Project
    BY <1>12 DEF SubmitDelete, selectedProject, projects, ShellTypeOK
  <2> QED
    BY <1>9, <1>12, <2>1 DEF SubmitDelete
<1>13. ASSUME NEW r \in requests, ServeRequest(r)
       PROVE  (ShellTypeOK /\ ShellFacts /\ DeletedGone)'
  <2> DEFINE new(result) == [r EXCEPT !.result = result]
  <2>1. /\ r.kind \in {"org", "project", "delete"} /\ r.result = "sent"
        /\ r.of \in IF r.kind = "org" THEN Org ELSE Project
        /\ UNCHANGED <<context, route, navigating, naming, count, history>>
    BY <1>13 DEF ServeRequest, ShellTypeOK
  <2>2. \A result \in {"done", "refused"} :
           /\ new(result) \in [number : 1 .. MaxForms, kind : {"org", "project", "delete"},
                               of : Org \cup Project, result : {"sent", "done", "refused"}]
           /\ new(result).of = r.of /\ new(result).kind = r.kind /\ new(result).result = result
    BY DEF ShellTypeOK
  <2> HIDE DEF new
  <2>3. \/ /\ requests' = (requests \ {r}) \cup {new("refused")}
           /\ UNCHANGED <<member, existing, gone>>
        \/ /\ requests' = (requests \ {r}) \cup {new("done")}
           /\ \/ /\ r.kind = "org" /\ member' = member \cup {r.of} /\ UNCHANGED <<existing, gone>>
              \/ /\ r.kind = "project" /\ r.of \notin existing \cup gone /\ OrgOf[r.of] \in member
                 /\ existing' = existing \cup {r.of} /\ UNCHANGED <<member, gone>>
              \/ /\ r.kind = "delete" /\ r.of \in existing
                 /\ existing' = existing \ {r.of} /\ gone' = gone \cup {r.of} /\ UNCHANGED member
    BY <1>13, <2>1 DEF ServeRequest, new
  <2>4. ShellTypeOK'
    BY <2>1, <2>2, <2>3 DEF ShellTypeOK, history
  <2>5. AnswersHold'
    BY <2>1, <2>2, <2>3 DEF ShellFacts, AnswersHold, history
  <2>6. /\ existing' \cap gone' = {} /\ existing \subseteq existing' \cup gone' /\ gone \subseteq gone'
        /\ member \subseteq member' \cup lost' /\ lost \subseteq lost'
    BY <2>1, <2>3 DEF ShellFacts, history
  <2>7. ShellFacts'
    BY <2>1, <2>5, <2>6, WorldTurns DEF history
  <2>8. DeletedGone'
    BY <2>1 DEF DeletedGone, projects, history
  <2> QED
    BY <2>4, <2>7, <2>8
<1>14. ASSUME NEW r \in requests, FormRefused(r)
       PROVE  (ShellTypeOK /\ ShellFacts /\ DeletedGone)'
  <2>1. /\ requests' = requests \ {r} /\ naming' \in {0, naming}
        /\ UNCHANGED <<member, existing, gone, context, route, navigating, count, history>>
    BY <1>14 DEF FormRefused
  <2>2. ShellTypeOK'
    <3>1. naming' \in 0 .. MaxForms
      BY <2>1, WebShellAssumption DEF ShellTypeOK
    <3> QED
      BY <2>1, <3>1 DEF ShellTypeOK, history
  <2>3. AnswersHold'
    BY <2>1 DEF ShellFacts, AnswersHold, history
  <2>4. ShellFacts' /\ DeletedGone'
    BY <2>1, <2>3, WorldTurns DEF ShellFacts, DeletedGone, projects, history
  <2> QED
    BY <2>2, <2>4
<1>15. ASSUME NEW r \in requests, OrgCreated(r)
       PROVE  (ShellTypeOK /\ ShellFacts /\ DeletedGone)'
  <2>0. /\ r.of \in Org
        /\ requests' = requests \ {r}
        /\ UNCHANGED <<member, existing, gone, route, naming, count, announced, dropped, lost>>
        /\ founded' = founded \cup {r.of}
    BY <1>15 DEF OrgCreated, ShellTypeOK
  <2>1. navigating' \in [to : Routes, phase : {"context", "page"}] \cup {Nothing}
    BY <1>15, <2>0, KnownRoutes, RouterMoves DEF OrgCreated
  <2>2. refused' \in BOOLEAN /\ interrupted' \in BOOLEAN
    BY <1>15, Zenon DEF OrgCreated
  <2>3. \/ UNCHANGED context
        \/ context' = [status |-> "reloading", value |-> context.value, flight |-> NoReads]
    BY <1>15 DEF OrgCreated, Reloaded
  <2>4. NoReads \in Reads
    BY DEF NoReads, Reads
  <2>5. ShellTypeOK'
    BY <2>0, <2>1, <2>2, <2>3, <2>4 DEF ShellTypeOK
  <2>6. ShellFacts'
    BY <2>0, <2>3 DEF ShellFacts, Lasting, projects, organizations, NoReads
  <2>7. DeletedGone'
    BY <2>0, <2>3 DEF DeletedGone, projects
  <2> QED
    BY <2>5, <2>6, <2>7
<1>16. ASSUME NEW r \in requests, ProjectCreated(r) \/ ProjectDeleted(r)
       PROVE  (ShellTypeOK /\ ShellFacts /\ DeletedGone)'
  <2>0. /\ r.of \in Project /\ r.result = "done"
        /\ requests' = requests \ {r} /\ context' = Requested(NoReads)
        /\ UNCHANGED <<member, existing, gone, route, naming, count, founded, lost>>
        /\ refused' = FALSE
        /\ \/ r.kind = "project" /\ announced' = announced \cup {r.of} /\ dropped' = dropped
           \/ r.kind = "delete" /\ dropped' = dropped \cup {r.of} /\ announced' = announced
    BY <1>16 DEF ProjectCreated, ProjectDeleted, ShellTypeOK
  <2>1. OfProject("check", r.of) \in Routes /\ OfOrg("settings", OrgOf[r.of]) \in Routes
    BY <2>0, KnownRoutes, WebShellAssumption
  <2>2. navigating' \in [to : Routes, phase : {"context", "page"}] \cup {Nothing}
    BY <1>16, <2>1, RouterMoves DEF ProjectCreated, ProjectDeleted
  <2>3. interrupted' \in BOOLEAN
    BY <1>16, Zenon DEF ProjectCreated, ProjectDeleted
  <2>4. NoReads \in Reads
    BY DEF NoReads, Reads
  <2>5. ShellTypeOK'
    BY <2>0, <2>2, <2>3, <2>4 DEF ShellTypeOK, Requested
  <2>6. /\ r.kind = "delete" => r.of \in gone
        /\ r.kind = "project" => r.of \in existing \cup gone /\ OrgOf[r.of] \in member \cup lost
    BY <2>0 DEF ShellFacts
  <2>7. ShellFacts'
    BY <2>0, <2>6 DEF ShellFacts, Lasting, projects, organizations, Requested, NoReads
  <2>8. DeletedGone'
    BY <2>0 DEF DeletedGone, projects, Requested
  <2> QED
    BY <2>5, <2>7, <2>8
<1>17. CASE UNCHANGED shellVars
  <2>1. ShellFacts' /\ DeletedGone'
    BY <1>17, FactsKept DEF FactsVars, shellVars
  <2> QED
    BY <1>17, <2>1 DEF ShellTypeOK, shellVars
<1> QED
  BY <1>1, <1>2, <1>3, <1>4, <1>5, <1>6, <1>7, <1>8, <1>10, <1>11, <1>12, <1>13, <1>14, <1>15,
     <1>16, <1>17 DEF ShellNext, Loads, FormAnswered

\* After a project's deletion has been confirmed nothing lists it again (registerDeletedProject
\* in context.service.ts), whichever contexts were on their way.
THEOREM DeletedStaysGone == ShellSpec => []DeletedGone
<1>1. ShellInv => DeletedGone
  BY DEF ShellInv
<1> QED
  BY <1>1, ShellInitial, ShellStep, PTL DEF ShellSpec

\* The check page of a project that was just created finds that project selected
\* (registerCreatedProject in context.service.ts).
THEOREM CreatedIsSelected == ShellSpec => []CreatedSelected
<1>1. ShellInv => CreatedSelected
  BY DEF ShellInv
<1> QED
  BY <1>1, ShellInitial, ShellStep, PTL DEF ShellSpec

-----------------------------------------------------------------------------
(* Navigations *)

\* A context that is neither there nor broken has a request on its way.
ContextAlive == Done(context) \/ context.flight # Nothing

NavigationInv == ContextAlive /\ NavigationAlive

\* The steps that neither navigate nor touch the context.
LEMMA NavigationKept ==
    ASSUME NavigationInv, UNCHANGED <<context, navigating>>
    PROVE  NavigationInv'
BY DEF NavigationInv, ContextAlive, NavigationAlive, Done

LEMMA NavigatesAnew ==
    ASSUME ContextAlive', NEW to, Navigate(to) \/ navigating' = Nothing
    PROVE  NavigationInv'
BY DEF NavigationInv, ContextAlive, NavigationAlive, Navigate

LEMMA RequestAlive ==
    /\ context' = Requested(NoReads) => ContextAlive'
    /\ ContextAlive /\ context' = Reloaded(context, NoReads) => ContextAlive'
<1>1. NoReads # Nothing
  BY NothingIsNoObject DEF NoReads, Reads
<1> QED
  BY <1>1 DEF ContextAlive, Requested, Reloaded, Done

\* What a guard does to the navigation.
LEMMA GuardMoves ==
    ASSUME Guards
    PROVE  /\ UNCHANGED context
           /\ \/ navigating' = Nothing
              \/ \E to : Navigate(to)
              \/ /\ navigating' = [navigating EXCEPT !.phase = "page"]
                 /\ navigating.to.page \in {"home", "dashboard"}
<1>1. CASE ContextGuard
  BY <1>1, Zenon DEF ContextGuard, Cancel, Redirect, Arrive
<1>2. CASE DefaultPage
  BY <1>2, Zenon DEF DefaultPage, Cancel, Redirect, Arrive
<1>3. CASE OrgDashboardToProject
  BY <1>3, Zenon DEF OrgDashboardToProject, Cancel, Redirect, Arrive
<1> QED
  BY <1>1, <1>2, <1>3 DEF Guards

LEMMA NavigationStep == ShellInv /\ NavigationInv /\ [ShellNext]_shellVars => NavigationInv'
<1> SUFFICES ASSUME ShellInv, NavigationInv, [ShellNext]_shellVars PROVE NavigationInv'
  OBVIOUS
<1>t. ShellTypeOK
  BY DEF ShellInv
<1>a. ContextAlive
  BY DEF NavigationInv
<1>1. CASE Guards
  <2>1. ContextAlive'
    BY <1>a, <1>1, GuardMoves DEF ContextAlive, Done
  <2>2. CASE navigating' = Nothing \/ \E to : Navigate(to)
    BY <2>1, <2>2, NavigatesAnew
  <2>3. CASE /\ navigating' = [navigating EXCEPT !.phase = "page"]
             /\ navigating.to.page \in {"home", "dashboard"}
    <3>1. navigating # Nothing
      BY <1>1 DEF Guards, ContextGuard, DefaultPage, OrgDashboardToProject
    <3>2. navigating'.to = navigating.to
      BY <1>t, <2>3, <3>1 DEF ShellTypeOK
    <3> QED
      BY <2>1, <2>3, <3>2 DEF NavigationInv, NavigationAlive, ContextAlive
  <2> QED
    BY <1>1, <2>2, <2>3, GuardMoves
<1>2. CASE ReadOrgs \/ ReadProjects
  <2>1. context.flight \in Reads
    BY <1>t, <1>2 DEF ReadOrgs, ReadProjects, ShellTypeOK
  <2>2. context'.flight \in Reads
    BY <1>t, <1>2, <2>1 DEF ReadOrgs, ReadProjects, ShellTypeOK, Reads
  <2>3. context'.flight # Nothing
    BY <2>2, NothingIsNoObject
  <2> QED
    BY <1>2, <2>3 DEF ReadOrgs, ReadProjects, NavigationInv, NavigationAlive, ContextAlive
<1>3. CASE ContextLoaded \/ ContextFails
  BY <1>3 DEF ContextLoaded, ContextFails, Resolved, Broken, Done, NavigationInv, NavigationAlive,
              ContextAlive
<1>4. CASE Restart
  <2>1. ContextAlive' /\ navigating'.phase = "context"
    BY <1>4, RequestAlive DEF Restart
  <2> QED
    BY <2>1 DEF NavigationInv, NavigationAlive, ContextAlive
<1>5. ASSUME NEW to, Click(to) PROVE NavigationInv'
  <2>1. ContextAlive'
    BY <1>a, <1>5 DEF Click, ContextAlive, Done
  <2> QED
    BY <1>5, <2>1, NavigatesAnew DEF Click
<1>6. ASSUME NEW r, OrgCreated(r) \/ ProjectCreated(r) \/ ProjectDeleted(r) PROVE NavigationInv'
  <2>1. ContextAlive'
    BY <1>a, <1>6, RequestAlive DEF OrgCreated, ProjectCreated, ProjectDeleted
  <2> QED
    BY <1>6, <2>1, NavigatesAnew DEF OrgCreated, ProjectCreated, ProjectDeleted
<1>7. ASSUME NEW kind, NEW of, Send(kind, of) PROVE NavigationInv'
  BY <1>7, NavigationKept DEF Send
<1>8. CASE SubmitDelete \/ (\E o \in Org : SubmitOrg(o)) \/ (\E p \in Project : SubmitProject(p))
  BY <1>7, <1>8 DEF SubmitDelete, SubmitOrg, SubmitProject
<1>9. ASSUME NEW r, ServeRequest(r) \/ FormRefused(r) PROVE NavigationInv'
  BY <1>9, NavigationKept DEF ServeRequest, FormRefused
<1>10. CASE OthersChange \/ UNCHANGED shellVars
  BY <1>10, NavigationKept DEF OthersChange, shellVars
<1> QED
  BY <1>1, <1>2, <1>3, <1>4, <1>5, <1>6, <1>8, <1>9, <1>10 DEF ShellNext, Loads, FormAnswered

LEMMA ShellAlways == ShellSpec => []ShellInv
BY ShellInitial, ShellStep, PTL DEF ShellSpec

LEMMA NavigationAlways == ShellSpec => []NavigationInv
<1>1. ShellInit => NavigationInv
  <2> SUFFICES ASSUME ShellInit PROVE NavigationInv
    OBVIOUS
  <2>1. NoReads # Nothing
    BY NothingIsNoObject DEF NoReads, Reads
  <2> QED
    BY <2>1 DEF ShellInit, NavigationInv, NavigationAlive, ContextAlive, Requested, Done
<1> QED
  BY ShellAlways, NavigationStep, <1>1, PTL DEF ShellSpec

\* No navigation waits for a context nobody asks for (contextGuard waits for status() to
\* leave "loading" and "reloading"), whichever answers, reloads and failures come between.
THEOREM NavigationsLive == ShellSpec => []NavigationAlive
<1>1. NavigationInv => NavigationAlive
  BY DEF NavigationInv
<1> QED
  BY NavigationAlways, <1>1, PTL

\* A redirection leads nearer, if its page comes after the one it is from.
LEMMA RedirectNearer ==
    ASSUME NEW to, Navigate(to), UNCHANGED context, navigating # Nothing,
           \/ /\ organizations = {} /\ to.page = "onboarding"
              /\ navigating.phase = "context" /\ navigating.to.page # "onboarding"
           \/ /\ organizations # {} /\ to.page = "home"
              /\ navigating.phase = "context" /\ navigating.to.page = "onboarding"
           \/ /\ organizations # {} /\ to.page \in {"dashboard", "project"}
              /\ navigating.phase = "page" /\ navigating.to.page = "home"
           \/ /\ organizations # {} /\ to.page = "project"
              /\ navigating.phase = "page" /\ navigating.to.page = "dashboard"
    PROVE  Distance' < Distance
<1>1. organizations' = organizations
  BY DEF organizations
<1>2. navigating' = Nothing \/ (navigating'.to = to /\ navigating'.phase = "context")
  BY DEF Navigate
<1> QED
  BY <1>1, <1>2 DEF Distance

LEMMA ArrivalNearest ==
    ASSUME navigating # Nothing, navigating' = Nothing
    PROVE  Distance' < Distance
BY DEF Distance

LEMMA GuardNearer ==
    ASSUME ShellTypeOK, Guards
    PROVE  Distance' < Distance
<1>1. CASE ContextGuard
  <2>0. /\ navigating # Nothing /\ navigating.phase = "context" /\ UNCHANGED context
        /\ navigating \in [to : Routes, phase : {"context", "page"}]
    BY <1>1 DEF ContextGuard, ShellTypeOK
  <2>1. \/ navigating' = Nothing
        \/ organizations = {} /\ navigating.to.page # "onboarding" /\ Navigate(Plain("onboarding"))
        \/ organizations # {} /\ navigating.to.page = "onboarding" /\ Navigate(Plain("home"))
        \/ /\ organizations # {} /\ navigating.to.page \in {"home", "dashboard"}
           /\ navigating' = [navigating EXCEPT !.phase = "page"]
    BY <1>1, Zenon DEF ContextGuard, Cancel, Redirect, Arrive
  <2>2. CASE navigating' = Nothing
    BY <2>0, <2>2, ArrivalNearest
  <2>3. CASE organizations = {} /\ navigating.to.page # "onboarding" /\ Navigate(Plain("onboarding"))
    BY <2>0, <2>3, RedirectNearer DEF Plain, At
  <2>4. CASE organizations # {} /\ navigating.to.page = "onboarding" /\ Navigate(Plain("home"))
    BY <2>0, <2>4, RedirectNearer DEF Plain, At
  <2>5. CASE /\ organizations # {} /\ navigating.to.page \in {"home", "dashboard"}
             /\ navigating' = [navigating EXCEPT !.phase = "page"]
    <3>1. organizations' = organizations /\ navigating'.to = navigating.to /\ navigating'.phase = "page"
      BY <2>0, <2>5 DEF organizations
    <3> QED
      BY <2>0, <2>5, <3>1 DEF Distance
  <2> QED
    BY <2>1, <2>2, <2>3, <2>4, <2>5
<1>2. CASE DefaultPage
  <2>0. /\ navigating # Nothing /\ navigating.phase = "page" /\ navigating.to.page = "home"
        /\ UNCHANGED context
    BY <1>2 DEF DefaultPage
  <2>1. CASE navigating' = Nothing
    BY <2>0, <2>1, ArrivalNearest
  <2>2. CASE \E o \in IF selectedOrg = Nothing THEN organizations ELSE {selectedOrg} :
             IF Cardinality(organizations) = 1 /\ Cardinality(projects) = 1
             THEN \E p \in projects : Redirect(At("project", o, p))
             ELSE Redirect(OfOrg("dashboard", o))
    <3>1. organizations # {}
      BY <2>2 DEF selectedOrg
    <3>2. \E to : Navigate(to) /\ to.page \in {"dashboard", "project"}
      <4>1. \E o : (\E p : Navigate(At("project", o, p))) \/ Navigate(OfOrg("dashboard", o))
        BY <2>2, Zenon DEF Redirect
      <4>2. \A o, p : At("project", o, p).page = "project" /\ OfOrg("dashboard", o).page = "dashboard"
        BY DEF At, OfOrg
      <4> QED
        BY <4>1, <4>2, Zenon
    <3> QED
      BY <2>0, <3>1, <3>2, RedirectNearer
  <2> QED
    BY <1>2, <2>1, <2>2 DEF DefaultPage, Cancel, Arrive
<1>3. CASE OrgDashboardToProject
  <2>0. /\ navigating # Nothing /\ navigating.phase = "page" /\ navigating.to.page = "dashboard"
        /\ UNCHANGED context
    BY <1>3 DEF OrgDashboardToProject
  <2>1. \/ navigating' = Nothing
        \/ /\ organizations # {}
           /\ \E p : Navigate(OfProject("project", p))
    <3> DEFINE o == navigating.to.org
               ps == IF o \in organizations THEN ProjectsOf(o) ELSE {}
    <3>1. \/ navigating' = Nothing
          \/ \E p \in ps : Navigate(OfProject("project", p))
      BY <1>3, Zenon DEF OrgDashboardToProject, Cancel, Redirect, Arrive
    <3> QED
      BY <3>1
  <2> QED
    BY <2>0, <2>1, ArrivalNearest, RedirectNearer DEF OfProject, At
<1> QED
  BY <1>1, <1>2, <1>3 DEF Guards

\* The guards send nobody in circles: from the onboarding to the home page, from there to a
\* dashboard and on to a project, or from anywhere to the onboarding, and never back.
THEOREM GuardsEnd == ShellSpec => GuardsDescend
<1>1. ShellInv /\ [ShellNext]_shellVars => [Guards => Distance' < Distance]_shellVars
  BY GuardNearer DEF ShellInv
<1> QED
  BY ShellAlways, <1>1, PTL DEF ShellSpec, GuardsDescend

-----------------------------------------------------------------------------
(* The organizations the user was told of *)

\* An organization the user was told of is found: it is in every answer that was read since,
\* unless the user was removed from it.
Found(o) ==
  /\ o \in member \cup lost
  /\ context.flight # Nothing /\ context.flight.orgs # Nothing => o \in context.flight.orgs \cup lost
  /\ context.status = "resolved" => o \in organizations \cup lost

Target == IF navigating = Nothing THEN Nothing ELSE navigating.to.org

\* What the user was told of: by the context, by an answer to a form or by a link.
Known == (organizations \cup founded \cup {route.org, Target}) \ {Nothing}

OrgAnswers ==
  \A r \in requests : r.result = "done" =>
     (IF r.kind = "org" THEN r.of ELSE OrgOf[r.of]) \in member \cup lost

\* The inductive invariant, relative to ShellInv: a refused reload leaves the context with less
\* than the user knows of.
OrgsFound ==
  /\ OrgAnswers
  /\ Known \subseteq member \cup lost
  /\ context.flight # Nothing /\ context.flight.orgs # Nothing =>
        context.flight.orgs \subseteq member \cup lost
  /\ ~refused =>
        /\ \A o \in Known : Found(o)
        /\ context.value # Nothing => route.org \in organizations \cup lost \cup {Nothing}

LEMMA LinksKnown == \A to \in Links : to.org \in Known \cup {Nothing}
<1>0. \A page, o, p : At(page, o, p).org = o
  BY DEF At
<1>1. organizations \subseteq Known \cup {Nothing} /\ route.org \in Known \cup {Nothing}
  BY DEF Known
<1>2. selectedOrg \in organizations \cup {Nothing}
  BY DEF selectedOrg
<1>3. \A to \in HeaderLinks : to.org \in Known \cup {Nothing}
  BY <1>0, <1>1, <1>2 DEF HeaderLinks, Plain, OfOrg, OfProject
<1>4. selectedProject # Nothing => OrgOf[selectedProject] = selectedOrg
  BY DEF selectedProject
<1>5. \A to \in navItems : to.org \in Known \cup {Nothing}
  <2>1. \A to \in {OfOrg("dashboard", selectedOrg), OfOrg("settings", selectedOrg)} :
           to.org = selectedOrg
    BY <1>0 DEF OfOrg
  <2>2. \A tab : OfProject(tab, selectedProject).org = OrgOf[selectedProject]
    BY <1>0 DEF OfProject
  <2> QED
    BY <1>1, <1>2, <1>4, <2>1, <2>2 DEF navItems
<1>6. \A to \in SettingsLinks : to.org \in Known \cup {Nothing}
  <2>1. \A p \in ProjectsOf(selectedOrg) : OfProject("project settings", p).org = selectedOrg
    BY <1>0 DEF OfProject, ProjectsOf
  <2>2. OfOrg("settings", selectedOrg).org = selectedOrg
    BY <1>0 DEF OfOrg
  <2> QED
    BY <1>1, <1>2, <2>1, <2>2 DEF SettingsLinks
<1>7. \A to \in GridLinks : to.org \in Known \cup {Nothing}
  BY <1>0, <1>1 DEF GridLinks, OfOrg
<1> QED
  BY <1>3, <1>5, <1>6, <1>7 DEF Links

\* A step that leaves the context alone and tells of nothing new keeps what is found.
LEMMA FoundKept ==
  ASSUME OrgsFound, UNCHANGED context, OrgAnswers', refused' = refused,
         member \subseteq member' \cup lost', lost \subseteq lost', Known' \subseteq Known,
         ~refused /\ context.value # Nothing => route.org' \in organizations \cup lost \cup {Nothing}
  PROVE  OrgsFound'
BY DEF OrgsFound, Found, organizations

LEMMA OrgsStep == ShellInv /\ NavigationInv /\ OrgsFound /\ [ShellNext]_shellVars => OrgsFound'
<1> SUFFICES ASSUME ShellInv, NavigationInv, OrgsFound, [ShellNext]_shellVars PROVE OrgsFound'
  OBVIOUS
<1>0. ShellTypeOK /\ ShellFacts
  BY DEF ShellInv
<1>1. CASE Guards
  <2>0. UNCHANGED <<member, existing, gone, context, requests, count, history>>
    BY <1>1 DEF Guards, ContextGuard, DefaultPage, OrgDashboardToProject
  <2>1. OrgAnswers'
    BY <2>0 DEF OrgsFound, OrgAnswers, history
  <2>2. \/ /\ route' = route
           /\ \/ navigating' = Nothing
              \/ navigating' # Nothing /\ navigating'.to.org \in Known \cup {Nothing}
        \/ /\ navigating' = Nothing /\ context.status = "resolved"
           /\ route'.org \in {Target, Nothing}
    <3>0. \A page, o, p : At(page, o, p).org = o
      BY DEF At
    <3>1. Plain("home").org = Nothing /\ Plain("onboarding").org = Nothing
      BY <3>0 DEF Plain
    <3>2. navigating # Nothing /\ navigating.to.org = Target /\ Target \in Known \cup {Nothing}
      BY <1>1 DEF Guards, ContextGuard, DefaultPage, OrgDashboardToProject, Target, Known
    <3>3. \A to : Redirect(to) /\ to.org \in Known \cup {Nothing} =>
             /\ route' = route
             /\ \/ navigating' = Nothing
                \/ navigating' # Nothing /\ navigating'.to.org \in Known \cup {Nothing}
      <4>1. \A to : [to |-> to, phase |-> "context"].to = to
        OBVIOUS
      <4> QED
        BY <4>1 DEF Redirect, Navigate
    <3>4. Cancel => route' = route /\ navigating' = Nothing
      BY DEF Cancel
    <3>5. \A to : Arrive(to) => route' = to /\ navigating' = Nothing
      BY DEF Arrive
    <3>6. CASE ContextGuard
      <4>1. \/ Cancel \/ Redirect(Plain("onboarding")) \/ Redirect(Plain("home"))
            \/ /\ navigating' = [navigating EXCEPT !.phase = "page"] /\ UNCHANGED <<route, naming>>
            \/ Arrive(navigating.to) /\ context.status = "resolved"
        BY <3>6 DEF ContextGuard, Done
      <4>2. [navigating EXCEPT !.phase = "page"].to = navigating.to
        BY <1>0, <3>2 DEF ShellTypeOK
      <4> QED
        BY <3>1, <3>2, <3>3, <3>4, <3>5, <4>1, <4>2
    <3>7. CASE DefaultPage
      <4>1. \/ Cancel
            \/ Arrive(Plain("home")) /\ context.status = "resolved"
            \/ \E o \in organizations : \E page, p : Redirect(At(page, o, p))
        <5>1. CASE \E o \in IF selectedOrg = Nothing THEN organizations ELSE {selectedOrg} :
                     IF Cardinality(organizations) = 1 /\ Cardinality(projects) = 1
                     THEN \E p \in projects : Redirect(At("project", o, p))
                     ELSE Redirect(OfOrg("dashboard", o))
          <6>1. PICK o \in organizations : \/ \E p \in projects : Redirect(At("project", o, p))
                                          \/ Redirect(At("dashboard", o, Nothing))
            BY <5>1 DEF selectedOrg, OfOrg
          <6> QED
            BY <6>1
        <5>2. \/ Cancel
              \/ Arrive(Plain("home")) /\ context.status = "resolved"
              \/ \E o \in IF selectedOrg = Nothing THEN organizations ELSE {selectedOrg} :
                     IF Cardinality(organizations) = 1 /\ Cardinality(projects) = 1
                     THEN \E p \in projects : Redirect(At("project", o, p))
                     ELSE Redirect(OfOrg("dashboard", o))
          BY <3>7, Zenon DEF DefaultPage
        <5> QED
          BY <5>1, <5>2
      <4>2. organizations \subseteq Known \cup {Nothing}
        BY DEF Known
      <4> QED
        BY <3>0, <3>1, <3>2, <3>3, <3>4, <3>5, <4>1, <4>2
    <3>8. CASE OrgDashboardToProject
      <4>1. \/ Cancel
            \/ Arrive(navigating.to) /\ context.status = "resolved"
            \/ \E p \in ProjectsOf(navigating.to.org) : Redirect(OfProject("project", p))
        BY <3>8, Zenon DEF OrgDashboardToProject, Done
      <4>2. \A p \in ProjectsOf(navigating.to.org) : OfProject("project", p).org = navigating.to.org
        BY <3>0 DEF OfProject, ProjectsOf
      <4> QED
        BY <3>2, <3>3, <3>4, <3>5, <4>1, <4>2
    <3> QED
      BY <1>1, <3>6, <3>7, <3>8 DEF Guards
  <2>3. Known' \subseteq Known
    BY <2>0, <2>2 DEF Known, Target, organizations, history
  <2>4. ~refused /\ context.value # Nothing => route.org' \in organizations \cup lost \cup {Nothing}
    BY <2>2 DEF OrgsFound, Known, Found, Target
  <2> QED
    BY <2>0, <2>1, <2>3, <2>4, FoundKept DEF history
<1>2. CASE ReadOrgs
  <2>1. /\ context' = [context EXCEPT !.flight.orgs = member]
        /\ UNCHANGED <<member, route, navigating, requests, founded, lost, refused>>
    BY <1>2 DEF ReadOrgs, history
  <2>2. /\ context'.value = context.value /\ context'.status = context.status
        /\ context'.flight.orgs = member
    BY <1>0, <1>2, <2>1 DEF ReadOrgs, ShellTypeOK, Reads
  <2> QED
    BY <2>1, <2>2 DEF OrgsFound, OrgAnswers, Known, Found, Target, organizations
<1>3. CASE ReadProjects
  <2>1. UNCHANGED <<member, route, navigating, requests, founded, lost, refused>>
    BY <1>3 DEF ReadProjects, history
  <2>2. /\ context'.value = context.value /\ context'.status = context.status
        /\ context.flight # Nothing /\ context'.flight.orgs = context.flight.orgs
        /\ context.flight.orgs # Nothing
    BY <1>0, <1>3 DEF ReadProjects, ShellTypeOK, Reads
  <2> QED
    BY <2>1, <2>2 DEF OrgsFound, OrgAnswers, Known, Found, Target, organizations
<1>4. CASE ContextLoaded
  <2>1. /\ UNCHANGED <<member, route, navigating, requests, founded, lost, refused>>
        /\ context' = Resolved(context.flight) /\ context.flight # Nothing
        /\ context.flight.orgs # Nothing
    BY <1>0, <1>4 DEF ContextLoaded, history, ShellFacts
  <2>2. organizations' \subseteq context.flight.orgs /\ context'.flight = Nothing
    BY <2>1 DEF organizations, Resolved
  <2>3. context.flight # Nothing => organizations' = context.flight.orgs
    BY <2>1 DEF organizations, Resolved
  <2>4. Known' \subseteq Known \cup context.flight.orgs
    BY <2>1, <2>2 DEF Known, Target
  <2> QED
    BY <2>1, <2>2, <2>3, <2>4 DEF OrgsFound, OrgAnswers, Found, Known
<1>5. CASE ContextFails
  <2>1. /\ UNCHANGED <<member, route, navigating, requests, founded, lost, refused>>
        /\ context' = Broken
    BY <1>5 DEF ContextFails
  <2>2. Known' \subseteq Known
    BY <2>1 DEF Known, Target, organizations, Broken
  <2> QED
    BY <2>1, <2>2 DEF OrgsFound, OrgAnswers, Found, Broken
<1>6. CASE Restart
  <2>1. Plain("blank").org = Nothing /\ Plain("home").org = Nothing
    BY DEF Plain, At
  <2>2. /\ navigating' = [to |-> Plain("home"), phase |-> "context"] /\ route' = Plain("blank")
        /\ context' = Requested(NoReads) /\ founded' = {} /\ requests' = {}
    BY <1>6 DEF Restart
  <2>3. Known' = {}
    BY <2>1, <2>2 DEF Known, Target, organizations, Requested
  <2> QED
    BY <2>2, <2>3 DEF OrgsFound, OrgAnswers, Requested, NoReads
<1>7. CASE OthersChange
  <2>1. /\ UNCHANGED <<context, route, navigating, requests, founded, refused>>
        /\ member \subseteq member' \cup lost' /\ lost \subseteq lost'
    BY <1>7 DEF OthersChange
  <2>2. OrgAnswers'
    BY <2>1 DEF OrgsFound, OrgAnswers
  <2>3. Known' = Known
    BY <2>1 DEF Known, Target, organizations
  <2> QED
    BY <2>1, <2>2, <2>3, FoundKept DEF OrgsFound
<1>8. ASSUME NEW to \in Links, Click(to) PROVE OrgsFound'
  <2>1. UNCHANGED <<member, context, route, requests, founded, lost, refused>>
    BY <1>8 DEF Click
  <2>2. Target' \in {to.org, Nothing}
    BY <1>8 DEF Click, Navigate, Target
  <2>3. Known' \subseteq Known
    BY <2>1, <2>2, LinksKnown DEF Known, organizations
  <2>4. OrgAnswers'
    BY <2>1 DEF OrgsFound, OrgAnswers
  <2> QED
    BY <2>1, <2>3, <2>4, FoundKept DEF OrgsFound
<1>9. ASSUME NEW kind, NEW of, Send(kind, of) PROVE OrgsFound'
  <2>1. /\ UNCHANGED <<member, context, route, navigating, founded, lost, refused>>
        /\ \A r \in requests' : r \in requests \/ r.result = "sent"
    BY <1>9 DEF Send, history
  <2>2. OrgAnswers'
    BY <2>1 DEF OrgsFound, OrgAnswers
  <2>3. Known' = Known
    BY <2>1 DEF Known, Target, organizations
  <2> QED
    BY <2>1, <2>2, <2>3, FoundKept DEF OrgsFound
<1>10. ASSUME NEW r \in requests, ServeRequest(r) PROVE OrgsFound'
  <2>1. /\ UNCHANGED <<context, route, navigating, founded, lost, refused>>
        /\ member \subseteq member'
    BY <1>10 DEF ServeRequest, history
  <2>2. ASSUME NEW s \in requests', s.result = "done", s \notin requests
        PROVE  (IF s.kind = "org" THEN s.of ELSE OrgOf[s.of]) \in member'
    <3>1. PICK result \in {"done", "refused"} : s = [r EXCEPT !.result = result]
      BY <1>10, <2>2 DEF ServeRequest
    <3>2. s.of = r.of /\ s.kind = r.kind /\ s.result = result /\ r.kind \in {"org", "project", "delete"}
      BY <1>0, <3>1 DEF ShellTypeOK
    <3>3. [r EXCEPT !.result = "refused"].result = "refused"
      BY <1>0 DEF ShellTypeOK
    <3>4. CASE r.kind = "org"
      BY <1>10, <2>2, <3>2, <3>3, <3>4 DEF ServeRequest
    <3>5. CASE r.kind = "project"
      BY <1>10, <2>2, <3>2, <3>3, <3>5 DEF ServeRequest
    <3>6. CASE r.kind = "delete"
      BY <1>10, <2>2, <3>2, <3>3, <3>6 DEF ServeRequest
    <3> QED
      BY <3>2, <3>4, <3>5, <3>6
  <2>3. OrgAnswers'
    BY <2>1, <2>2 DEF OrgsFound, OrgAnswers
  <2>4. Known' = Known
    BY <2>1 DEF Known, Target, organizations
  <2> QED
    BY <2>1, <2>3, <2>4, FoundKept DEF OrgsFound
<1>11. ASSUME NEW r \in requests, FormRefused(r) PROVE OrgsFound'
  <2>1. /\ UNCHANGED <<member, context, route, navigating, founded, lost, refused>>
        /\ requests' \subseteq requests
    BY <1>11 DEF FormRefused, history
  <2>2. OrgAnswers'
    BY <2>1 DEF OrgsFound, OrgAnswers
  <2>3. Known' = Known
    BY <2>1 DEF Known, Target, organizations
  <2> QED
    BY <2>1, <2>2, <2>3, FoundKept DEF OrgsFound
<1>12. ASSUME NEW r \in requests, OrgCreated(r) PROVE OrgsFound'
  <2>1. /\ UNCHANGED <<member, route, lost>> /\ requests' \subseteq requests
        /\ founded' = founded \cup {r.of} /\ r.of \in member \cup lost
    BY <1>12 DEF OrgCreated, OrgsFound, OrgAnswers
  <2>2. Target' \in {r.of, Nothing}
    BY <1>12 DEF OrgCreated, Navigate, Target, OfOrg, At
  <2>3. OrgAnswers'
    BY <2>1 DEF OrgsFound, OrgAnswers
  <2>r. refused' = (refused \/ context.flight # Nothing) /\ refused \in BOOLEAN
    BY <1>0, <1>12 DEF OrgCreated, ShellTypeOK
  <2>4. CASE ~Done(context)
    <3>1. context' = context
      BY <1>12, <2>4 DEF OrgCreated, Reloaded
    <3>2. refused'
      BY <2>4, <2>r DEF NavigationInv, ContextAlive
    <3>3. Known' \subseteq Known \cup {r.of}
      BY <2>1, <2>2, <3>1 DEF Known, organizations
    <3> QED
      BY <2>1, <2>3, <3>1, <3>2, <3>3 DEF OrgsFound
  <2>5. CASE Done(context)
    <3>1. context' = [status |-> "reloading", value |-> context.value, flight |-> NoReads]
      BY <1>12, <2>5 DEF OrgCreated, Reloaded
    <3>r. refused => refused'
      BY <2>r, Zenon
    <3>2. organizations' = organizations /\ context'.flight.orgs = Nothing
          /\ context'.status = "reloading" /\ context'.value = context.value
      BY <3>1 DEF organizations, NoReads
    <3>3. Known' \subseteq Known \cup {r.of}
      BY <2>1, <2>2, <3>2 DEF Known
    <3> QED
      BY <2>1, <2>3, <3>1, <3>2, <3>3, <3>r DEF OrgsFound, Found
  <2> QED
    BY <2>4, <2>5
<1>13. ASSUME NEW r \in requests, ProjectCreated(r) \/ ProjectDeleted(r) PROVE OrgsFound'
  <2>1. /\ UNCHANGED <<member, route, lost, founded>> /\ requests' \subseteq requests
        /\ context' = Requested(NoReads) /\ OrgOf[r.of] \in member \cup lost
    BY <1>13 DEF ProjectCreated, ProjectDeleted, OrgsFound, OrgAnswers
  <2>2. Target' \in {OrgOf[r.of], Nothing}
    BY <1>13 DEF ProjectCreated, ProjectDeleted, Navigate, Target, OfProject, OfOrg, At
  <2>3. OrgAnswers'
    BY <2>1 DEF OrgsFound, OrgAnswers
  <2>4. Known' \subseteq Known \cup {OrgOf[r.of]}
    BY <2>1, <2>2 DEF Known, organizations, Requested
  <2> QED
    BY <2>1, <2>3, <2>4 DEF OrgsFound, Found, Requested, NoReads
<1>14. CASE UNCHANGED shellVars
  BY <1>14 DEF shellVars, OrgsFound, OrgAnswers, Known, Found, Target, organizations
<1> QED
  BY <1>1, <1>2, <1>3, <1>4, <1>5, <1>6, <1>7, <1>8, <1>9, <1>10, <1>11, <1>12, <1>13, <1>14
     DEF ShellNext, Loads, FormAnswered, SubmitOrg, SubmitProject, SubmitDelete

LEMMA OrgsInitial == ShellInit => OrgsFound
<1> SUFFICES ASSUME ShellInit PROVE OrgsFound
  OBVIOUS
<1>1. Plain("blank").org = Nothing /\ Plain("home").org = Nothing
  BY DEF Plain, At
<1>2. Known = {}
  BY <1>1 DEF ShellInit, Known, Target, organizations, Requested
<1> QED
  BY <1>2 DEF ShellInit, OrgsFound, OrgAnswers, Requested, NoReads

\* Whoever is taken to the page of a new organization finds it selected, unless the reload was
\* refused because the context was loading, at first or again, and has not been requested anew
\* since (reload() in onboarding.component.ts, selectedOrg in context.service.ts).
THEOREM CreatedOrgIsKnown == ShellSpec => []CreatedOrgKnown
<1>1. ShellInv /\ OrgsFound => CreatedOrgKnown
  BY DEF CreatedOrgKnown, OrgsFound, selectedOrg, ShellInv
<1> QED
  BY <1>1, ShellAlways, NavigationAlways, OrgsInitial, OrgsStep, PTL DEF ShellSpec

-----------------------------------------------------------------------------
(* The form for an organization *)

\* The navigation to the page after the form, from the form.
ToNew == route.page \in OrgForms /\ navigating # Nothing /\ navigating.to.page = "new"

\* The context has an organization, or will have when it is read.
MemberRead ==
  /\ context.flight # Nothing =>
       IF context.flight.orgs = Nothing THEN member # {} ELSE context.flight.orgs # {}
  /\ context.status = "resolved" => organizations # {}

\* The inductive invariant, relative to ShellInv and OrgsFound: a context that is loading, at
\* first or again, keeps the form from being left for the next page, so that the reload is not refused.
WaitsInv ==
  /\ context.status = "error" => interrupted
  /\ route.page \in OrgForms /\ ~Done(context) => navigating # Nothing \/ interrupted
  /\ naming # 0 => route.page \in OrgForms
  /\ ToNew /\ ~interrupted /\ lost = {} => MemberRead
  /\ OrgFormWaits

LEMMA FormPages ==
  /\ \A o : OfOrg("new", o).page = "new" /\ OfOrg("settings", o).page = "settings"
  /\ \A p : OfProject("check", p).page = "check"
  /\ Plain("blank").page = "blank" /\ Plain("onboarding").page = "onboarding"
  /\ Plain("home").page = "home" /\ Plain("organizations/new").page = "organizations/new"
  /\ {"new", "settings", "check", "blank", "home"} \cap OrgForms = {}
BY DEF OfOrg, OfProject, Plain, At, OrgForms

\* Every link on the pages of the form leads elsewhere than to a new project.
LEMMA FormLinks ==
  ASSUME route.page \in OrgForms, NEW to \in Links
  PROVE  to.page # "new"
<1>1. route.page # "dashboard" /\ "new" \notin Tab
  BY WebShellAssumption DEF OrgForms
<1>2. GridLinks = {} /\ SettingsLinks = {}
  BY <1>1 DEF GridLinks, SettingsLinks, OrgForms
<1>3. \A x \in HeaderLinks : x.page # "new"
  BY DEF HeaderLinks, Plain, OfOrg, OfProject, At
<1>4. \A x \in navItems : x.page # "new"
  <2>1. \A tab, p : OfProject(tab, p).page = tab
    BY DEF OfProject, At
  <2>2. \A o : OfOrg("dashboard", o).page = "dashboard" /\ OfOrg("settings", o).page = "settings"
    BY DEF OfOrg, At
  <2>3. "new" \notin (Tab \ {"check"}) \cup {"project settings"}
    BY <1>1
  <2>4. CASE selectedOrg = Nothing
    BY <2>4 DEF navItems
  <2>5. CASE selectedOrg # Nothing /\ selectedProject = Nothing
    <3>1. navItems = {OfOrg("dashboard", selectedOrg), OfOrg("settings", selectedOrg)}
      BY <2>5 DEF navItems
    <3> QED
      BY <2>2, <3>1
  <2>6. CASE selectedOrg # Nothing /\ selectedProject # Nothing
    <3>1. navItems = {OfProject(tab, selectedProject) :
                        tab \in (Tab \ {"check"}) \cup {"project settings"}}
      BY <2>6 DEF navItems
    <3>2. ASSUME NEW tab \in (Tab \ {"check"}) \cup {"project settings"}
          PROVE  OfProject(tab, selectedProject).page # "new"
      <4>1. tab # "new"
        BY <2>3, <3>2, Zenon
      <4>2. OfProject(tab, selectedProject).page = tab
        BY <2>1, Zenon
      <4> QED
        BY <4>1, <4>2, Zenon
    <3> QED
      BY <3>1, <3>2
  <2> QED
    BY <2>4, <2>5, <2>6
<1> QED
  BY <1>2, <1>3, <1>4 DEF Links

\* A navigation from a form to another page is under way afterwards.
LEMMA LeavesForm ==
  ASSUME NEW to \in Routes, Navigate(to), to.page # route.page
  PROVE  navigating' # Nothing /\ navigating'.to = to
<1>1. navigating' = [to |-> to, phase |-> "context"]
  BY DEF Navigate
<1>2. navigating' \in [to : Routes, phase : {"context", "page"}]
  BY <1>1
<1> QED
  BY <1>1, <1>2, NothingIsNoObject

\* Steps that leave the router and the context alone and take no request for an organization.
LEMMA WaitsKept ==
  ASSUME WaitsInv, UNCHANGED <<context, route, navigating, naming, interrupted>>,
         lost \subseteq lost', lost' = {} => (member # {} => member' # {}),
         \A r \in requests : r.kind = "org" =>
            \E q \in requests' : q.kind = "org" /\ q.number = r.number
  PROVE  WaitsInv'
BY DEF WaitsInv, ToNew, MemberRead, OrgFormWaits, organizations, Done

\* Steps of the router.
LEMMA WaitsRouted ==
  ASSUME WaitsInv, UNCHANGED <<context, member, lost, requests>>,
         interrupted => interrupted',
         \/ /\ UNCHANGED <<route, naming>>
            /\ (~Done(context) \/ ToNew) /\ ~interrupted' => navigating' = navigating
            /\ navigating' # Nothing /\ navigating'.to.page = "new" /\ route.page \in OrgForms =>
                  navigating' = navigating \/ interrupted'
         \/ Done(context) /\ navigating' = Nothing /\ naming' = 0
  PROVE  WaitsInv'
<1>1. CASE Done(context) /\ navigating' = Nothing /\ naming' = 0
  BY <1>1 DEF WaitsInv, ToNew, OrgFormWaits, Done
<1>2. CASE /\ UNCHANGED <<route, naming>>
           /\ (~Done(context) \/ ToNew) /\ ~interrupted' => navigating' = navigating
           /\ navigating' # Nothing /\ navigating'.to.page = "new" /\ route.page \in OrgForms =>
                 navigating' = navigating \/ interrupted'
  BY <1>2 DEF WaitsInv, ToNew, MemberRead, OrgFormWaits, organizations, Done
<1> QED
  BY <1>1, <1>2

LEMMA WaitsStep == ShellInv /\ OrgsFound /\ WaitsInv /\ [ShellNext]_shellVars => WaitsInv'
<1> SUFFICES ASSUME ShellInv, OrgsFound, WaitsInv, [ShellNext]_shellVars PROVE WaitsInv'
  OBVIOUS
<1>t. ShellTypeOK /\ ShellFacts
  BY DEF ShellInv
<1>b. interrupted \in BOOLEAN
  BY <1>t DEF ShellTypeOK
<1>1. CASE Guards
  <2>0. UNCHANGED <<context, member, lost, requests, interrupted>> /\ Done(context) /\ navigating # Nothing
    BY <1>1 DEF Guards, ContextGuard, DefaultPage, OrgDashboardToProject, history
  <2>1. CASE \E to : Arrive(to)
    BY <2>0, <2>1, WaitsRouted DEF Arrive
  <2>2. CASE Cancel /\ context.status = "error"
    BY <2>0, <2>2, WaitsRouted DEF WaitsInv, Cancel, Done
  <2>3. CASE \E to : Redirect(to) /\ to.page # "new" /\ (ToNew => interrupted \/ lost # {})
    BY <2>0, <2>3 DEF WaitsInv, ToNew, MemberRead, OrgFormWaits, organizations, Redirect, Navigate, Done
  <2>4. CASE /\ navigating' = [navigating EXCEPT !.phase = "page"] /\ UNCHANGED <<route, naming>>
             /\ navigating.to.page \in {"home", "dashboard"}
    <3>1. navigating'.to = navigating.to
      BY <1>t, <2>0, <2>4 DEF ShellTypeOK
    <3> QED
      BY <2>0, <2>4, <3>1 DEF WaitsInv, ToNew, OrgFormWaits, Done
  <2>5. \/ \E to : Arrive(to)
        \/ Cancel /\ context.status = "error"
        \/ \E to : Redirect(to) /\ to.page # "new" /\ (ToNew => interrupted \/ lost # {})
        \/ /\ navigating' = [navigating EXCEPT !.phase = "page"] /\ UNCHANGED <<route, naming>>
           /\ navigating.to.page \in {"home", "dashboard"}
    <3>1. CASE ContextGuard
      <4>1. ASSUME organizations = {}, context.status # "error", ToNew PROVE interrupted \/ lost # {}
        BY <2>0, <4>1 DEF WaitsInv, MemberRead, Done
      <4>2. ToNew => navigating.to.page = "new"
        BY DEF ToNew
      <4>3. \/ \E to : Arrive(to)
            \/ Cancel /\ context.status = "error"
            \/ Redirect(Plain("onboarding")) /\ organizations = {} /\ context.status # "error"
            \/ Redirect(Plain("home")) /\ navigating.to.page = "onboarding"
            \/ /\ navigating' = [navigating EXCEPT !.phase = "page"] /\ UNCHANGED <<route, naming>>
               /\ navigating.to.page \in {"home", "dashboard"}
        BY <3>1, Zenon DEF ContextGuard
      <4> QED
        BY <4>1, <4>2, <4>3, FormPages
    <3>2. CASE DefaultPage
      <4>1. ~ToNew
        BY <3>2 DEF DefaultPage, ToNew
      <4>2. \A o, p : At("project", o, p).page # "new" /\ OfOrg("dashboard", o).page # "new"
        BY DEF At, OfOrg
      <4>3. \/ \E to : Arrive(to)
            \/ Cancel /\ context.status = "error"
            \/ \E o, p : Redirect(At("project", o, p)) \/ Redirect(OfOrg("dashboard", o))
        BY <3>2, Zenon DEF DefaultPage
      <4> QED
        BY <4>1, <4>2, <4>3
    <3>3. CASE OrgDashboardToProject
      <4>1. ~ToNew
        BY <3>3 DEF OrgDashboardToProject, ToNew
      <4>2. \A p : OfProject("project", p).page # "new"
        BY DEF At, OfProject
      <4>3. \/ \E to : Arrive(to)
            \/ Cancel /\ context.status = "error"
            \/ \E p : Redirect(OfProject("project", p))
        BY <3>3, Zenon DEF OrgDashboardToProject
      <4> QED
        BY <4>1, <4>2, <4>3
    <3> QED
      BY <1>1, <3>1, <3>2, <3>3 DEF Guards
  <2> QED
    BY <2>1, <2>2, <2>3, <2>4, <2>5
<1>2. CASE ReadOrgs \/ ReadProjects
  <2>0. /\ UNCHANGED <<member, route, navigating, naming, requests, lost, interrupted>>
        /\ context.flight # Nothing
    BY <1>2 DEF ReadOrgs, ReadProjects, history
  <2>1. context'.status = context.status /\ context'.value = context.value
    BY <1>t, <1>2 DEF ReadOrgs, ReadProjects, ShellTypeOK
  <2>2. \/ context.flight.orgs = Nothing /\ context'.flight.orgs = member
        \/ context.flight.orgs # Nothing /\ context'.flight.orgs = context.flight.orgs
    BY <1>t, <1>2 DEF ReadOrgs, ReadProjects, ShellTypeOK, Reads
  <2>3. MemberRead => MemberRead'
    BY <2>0, <2>1, <2>2 DEF MemberRead, organizations
  <2> QED
    BY <2>0, <2>1, <2>3 DEF WaitsInv, ToNew, OrgFormWaits, MemberRead, organizations, Done
<1>3. CASE ContextLoaded
  <2>0. /\ UNCHANGED <<member, route, navigating, naming, requests, lost, interrupted>>
        /\ context.flight # Nothing /\ context.flight.orgs # Nothing
    BY <1>t, <1>3 DEF ContextLoaded, ShellFacts, history
  <2>1. context' = Resolved(context.flight)
    BY <1>3 DEF ContextLoaded
  <2>2. MemberRead => MemberRead'
    BY <2>0, <2>1 DEF MemberRead, organizations, Resolved
  <2> QED
    BY <2>0, <2>1, <2>2 DEF WaitsInv, ToNew, OrgFormWaits, MemberRead, Resolved, Done
<1>4. CASE ContextFails
  BY <1>4 DEF ContextFails, WaitsInv, Broken, OrgFormWaits
<1>5. CASE Restart
  BY <1>5, FormPages DEF Restart, WaitsInv, ToNew, OrgFormWaits, Requested
<1>6. CASE OthersChange
  <2>1. lost \subseteq lost' /\ (lost' = {} => member \subseteq member')
    BY <1>6 DEF OthersChange
  <2> QED
    BY <1>6, <2>1, WaitsKept DEF OthersChange
<1>7. ASSUME NEW to \in Links, Click(to) PROVE WaitsInv'
  <2>1. /\ UNCHANGED <<context, member, lost, requests, route, naming>>
        /\ interrupted' = (interrupted \/ navigating # Nothing) /\ Navigate(to)
    BY <1>7 DEF Click
  <2>2. (interrupted => interrupted') /\ (navigating # Nothing => interrupted')
    BY <2>1, <1>b, Zenon
  <2>3. ~Done(context) /\ route.page \in OrgForms => interrupted'
    BY <2>2 DEF WaitsInv
  <2>4. navigating' = Nothing \/ navigating'.to = to
    BY <2>1 DEF Navigate
  <2>5. route.page \in OrgForms => to.page # "new"
    BY FormLinks
  <2> QED
    BY <2>1, <2>2, <2>3, <2>4, <2>5 DEF WaitsInv, ToNew, OrgFormWaits, organizations
<1>8. ASSUME NEW o \in Org, SubmitOrg(o) PROVE WaitsInv'
  <2> DEFINE q == [number |-> count.forms + 1, kind |-> "org", of |-> o, result |-> "sent"]
  <2>q. q \in requests' /\ naming' = count.forms + 1
    BY <1>8 DEF SubmitOrg, Send
  <2>f. q.kind = "org" /\ q.number = count.forms + 1
    OBVIOUS
  <2> HIDE DEF q
  <2>1. /\ UNCHANGED <<context, member, lost, route, navigating, interrupted>>
        /\ route.page \in OrgForms
        /\ \E r \in requests' : r.kind = "org" /\ r.number = naming'
    BY <1>8, <2>q, <2>f DEF SubmitOrg, Send, history
  <2> QED
    BY <2>1 DEF WaitsInv, ToNew, OrgFormWaits, MemberRead, organizations
<1>9. ASSUME NEW kind, NEW of, Send(kind, of), UNCHANGED naming PROVE WaitsInv'
  BY <1>9, WaitsKept DEF Send, history
<1>10. CASE (\E p \in Project : SubmitProject(p)) \/ SubmitDelete
  BY <1>9, <1>10 DEF SubmitProject, SubmitDelete
<1>11. ASSUME NEW r \in requests, ServeRequest(r) PROVE WaitsInv'
  <2>1. /\ UNCHANGED <<context, route, navigating, naming, interrupted, lost>>
        /\ member \subseteq member'
        /\ \E result : requests' = (requests \ {r}) \cup {[r EXCEPT !.result = result]}
    BY <1>11 DEF ServeRequest, history
  <2>2. \A result : [r EXCEPT !.result = result].kind = r.kind
                    /\ [r EXCEPT !.result = result].number = r.number
    BY <1>t DEF ShellTypeOK
  <2>3. \A x \in requests : x.kind = "org" =>
           \E q \in requests' : q.kind = "org" /\ q.number = x.number
    BY <2>1, <2>2
  <2> QED
    BY <2>1, <2>3, WaitsKept
<1>12. ASSUME NEW r \in requests, FormRefused(r) PROVE WaitsInv'
  <2>1. /\ UNCHANGED <<context, route, navigating, member, lost, interrupted>>
        /\ requests' = requests \ {r}
        /\ naming' = IF naming = r.number THEN 0 ELSE naming
    BY <1>12 DEF FormRefused, history
  <2> QED
    BY <2>1 DEF WaitsInv, ToNew, OrgFormWaits, MemberRead, organizations
<1>13. ASSUME NEW r \in requests, OrgCreated(r) PROVE WaitsInv'
  <2>1. /\ UNCHANGED <<member, lost, route, naming>> /\ requests' = requests \ {r}
        /\ interrupted' = (interrupted \/ navigating # Nothing)
        /\ Navigate(OfOrg("new", r.of)) /\ context' = Reloaded(context, NoReads)
        /\ r.of \in Org /\ r.of \in member \cup lost /\ r.kind = "org"
    BY <1>t, <1>13 DEF OrgCreated, ShellTypeOK, OrgsFound, OrgAnswers
  <2>2. (interrupted => interrupted') /\ (navigating # Nothing => interrupted')
    BY <2>1, <1>b, Zenon
  <2>3. OfOrg("new", r.of) \in Routes
    BY <2>1, KnownRoutes
  <2>4. route.page \in OrgForms => navigating' # Nothing /\ navigating'.to.page = "new"
    BY <2>1, <2>3, LeavesForm, FormPages
  <2>5. \/ context' = context /\ ~Done(context)
        \/ context' = [status |-> "reloading", value |-> context.value, flight |-> NoReads]
    BY <2>1 DEF Reloaded
  <2>6. route.page \in OrgForms /\ ~interrupted' /\ lost = {} => MemberRead' /\ context'.status = "reloading"
    <3>1. ASSUME route.page \in OrgForms, ~interrupted', lost = {}
          PROVE  context' = [status |-> "reloading", value |-> context.value, flight |-> NoReads]
                 /\ member # {}
      BY <2>1, <2>2, <2>5, <3>1 DEF WaitsInv
    <3> QED
      BY <2>1, <3>1 DEF MemberRead, NoReads
  <2> QED
    BY <2>1, <2>2, <2>4, <2>5, <2>6 DEF WaitsInv, ToNew, OrgFormWaits
<1>14. ASSUME NEW r \in requests, ProjectCreated(r) \/ ProjectDeleted(r) PROVE WaitsInv'
  <2>1. /\ UNCHANGED <<member, lost, route, naming>> /\ requests' = requests \ {r} /\ r.kind # "org"
        /\ interrupted' = (interrupted \/ navigating # Nothing)
        /\ Navigate(OfProject("check", r.of)) \/ Navigate(OfOrg("settings", OrgOf[r.of]))
        /\ context' = Requested(NoReads) /\ r.of \in Project
    BY <1>t, <1>14 DEF ProjectCreated, ProjectDeleted, ShellTypeOK
  <2>2. (interrupted => interrupted') /\ (navigating # Nothing => interrupted')
    BY <2>1, <1>b, Zenon
  <2>3. OfProject("check", r.of) \in Routes /\ OfOrg("settings", OrgOf[r.of]) \in Routes
    BY <2>1, KnownRoutes, WebShellAssumption
  <2>4. route.page \in OrgForms => navigating' # Nothing /\ navigating'.to.page # "new"
    BY <2>1, <2>3, LeavesForm, FormPages
  <2> QED
    BY <2>1, <2>2, <2>4 DEF WaitsInv, ToNew, OrgFormWaits, Requested
<1>15. CASE UNCHANGED shellVars
  BY <1>15, WaitsKept DEF shellVars
<1> QED
  BY <1>1, <1>2, <1>3, <1>4, <1>5, <1>6, <1>7, <1>8, <1>10, <1>11, <1>12, <1>13, <1>14, <1>15
     DEF ShellNext, Loads, FormAnswered

\* Whoever has sent the form for an organization is taken on: the answer is to come, or the
\* next page is, whose guard waits for a context that lists the new organization (onSubmit in
\* the form, reload in context.service.ts).
THEOREM OrgFormLeadsOn == ShellSpec => []OrgFormWaits
<1>1. ShellInit => WaitsInv
  BY FormPages DEF ShellInit, WaitsInv, ToNew, OrgFormWaits, Requested
<1>2. WaitsInv => OrgFormWaits
  BY DEF WaitsInv
<1> QED
  BY <1>1, <1>2, ShellAlways, NavigationAlways, OrgsInitial, OrgsStep, WaitsStep, PTL DEF ShellSpec

=============================================================================
