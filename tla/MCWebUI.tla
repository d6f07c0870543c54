------------------------------ MODULE MCWebUI -------------------------------
(***************************************************************************)
(* The web UI page by page.  Init chooses what the user is looking at, and *)
(* only that moves: everything else rests in one state, where none of its  *)
(* fair actions is enabled.  Thus the run explores the disjoint union of   *)
(* the state spaces of the pages.                                          *)
(***************************************************************************)
EXTENDS LogPages, NewProjectForm, ProjectCheck, ProjectSettingsForm, WebShell,
        OrganizationForms, MembersPage, LogsTable, DashboardPages, ThemeSwitch

CONSTANTS o1, o2, p1, p2, s0, s1, s2

VARIABLE open

webVars == <<vars, formVars, checkVars, settingsVars, shellVars, orgFormVars, membersVars,
             tableVars, dashVars, themeVars, open>>

Pages == {"log", "form", "check", "settings", "shell", "orgForms", "members", "table",
          "dashboards", "theme"}

-----------------------------------------------------------------------------
(* Values of the constants *)

Identity == [e \in Entry |-> e]
UrlKind == [u \in ValidUrl |-> IF u = "a" THEN "success" ELSE "authenticated"]
\* The second project has the settings of one with an image instead of a URL, usable settings
\* of its own, or none.
InitialSettings == {[x \in Project |-> IF x = p1 THEN s1 ELSE v] : v \in {s0, s2, NoRevision}}
OneOrg == [x \in Project |-> o1]
RowTotals == [x \in Project |-> [f \in Filter |-> IF f = Nothing /\ x = p1 THEN 3 ELSE 1]]
ProjectVersions == [x \in Project |-> IF x = p1 THEN {1, 2} ELSE {1}]
ProjectTools == [x \in Project |-> IF x = p1 THEN <<5, 2>> ELSE <<0>>]

-----------------------------------------------------------------------------

\* The shell around a page, once it has come to rest.
ShellAtRest ==
    /\ member = {} /\ existing = {} /\ gone = {}
    /\ context = Resolved([orgs |-> {}, projects |-> {}])
    /\ route = Plain("onboarding")
    /\ navigating = Nothing
    /\ naming = 0
    /\ requests = {}
    /\ count = [clicks |-> 0, forms |-> 0, changes |-> 0]
    /\ founded = {} /\ announced = {} /\ dropped = {} /\ lost = {}
    /\ refused = FALSE /\ interrupted = FALSE

WebInit ==
    /\ open \in Pages
    /\ IF open = "shell" THEN ShellInit ELSE ShellAtRest
    /\ Init /\ FormInit /\ CheckInit /\ SettingsInit /\ OrgFormInit
    /\ MembersInit /\ TableInit /\ DashInit /\ ThemeInit
    /\ open # "form" => ~taken
    /\ open # "check" => up = {}
    /\ open # "settings" => settings[p2] = NoRevision
    /\ open # "members" => pageOrg = o1 /\ people = [x \in Org |-> {Self}]
    /\ open # "table" => table = "logs" /\ query.filter = Nothing
    /\ open # "dashboards" => view = [page |-> "organization", org |-> Nothing, project |-> Nothing]
    /\ open # "theme" => savedTheme = "none" /\ ~prefersDark

Only(x) ==
    /\ open = x
    /\ UNCHANGED open
    /\ x # "log" => UNCHANGED vars
    /\ x # "form" => UNCHANGED formVars
    /\ x # "check" => UNCHANGED checkVars
    /\ x # "settings" => UNCHANGED settingsVars
    /\ x # "shell" => UNCHANGED shellVars
    /\ x # "orgForms" => UNCHANGED orgFormVars
    /\ x # "members" => UNCHANGED membersVars
    /\ x # "table" => UNCHANGED tableVars
    /\ x # "dashboards" => UNCHANGED dashVars
    /\ x # "theme" => UNCHANGED themeVars

WebNext ==
    \/ Only("log") /\ Next
    \/ Only("form") /\ FormNext
    \/ Only("check") /\ CheckNext
    \/ Only("settings") /\ SettingsNext
    \/ Only("shell") /\ ShellNext
    \/ Only("orgForms") /\ OrgFormNext
    \/ Only("members") /\ MembersNext
    \/ Only("table") /\ TableNext
    \/ Only("dashboards") /\ DashNext
    \/ Only("theme") /\ ThemeNext

\* At rest none of the fair actions is enabled.
WebSpec ==
    /\ WebInit /\ [][WebNext]_webVars
    /\ FormFairness /\ CheckFairness /\ SettingsFairness /\ ShellFairness

=============================================================================
