---------------------------- MODULE ThemeSwitch -----------------------------
(***************************************************************************)
(* The service behind the button that switches between the light theme,    *)
(* the dark one and that of the operating system.  Two things redraw the   *)
(* page, neither at once: an effect that follows the chosen theme and also *)
(* saves it, and the browser's event about the operating system.           *)
(***************************************************************************)

VARIABLES
    theme,       \* _theme
    isDark,      \* _isDark, and the class of the document
    savedTheme,  \* localStorage; "none" if there is nothing valid in it
    prefersDark, \* mediaQuery.matches
    effectDue,   \* the effect is to run
    changeDue    \* the event about prefersDark is to be delivered

themeVars == <<theme, isDark, savedTheme, prefersDark, effectDue, changeDue>>

Theme == {"light", "dark", "system"}

Valid(saved) == IF saved \in Theme THEN saved ELSE "system"

DarkFor(t) == t = "dark" \/ (t = "system" /\ prefersDark)

ThemeInit ==
    /\ savedTheme \in Theme \cup {"none"}
    /\ prefersDark \in BOOLEAN
    /\ theme = Valid(savedTheme)
    /\ isDark = FALSE
    /\ effectDue = TRUE
    /\ changeDue = FALSE

toggleTheme ==
    /\ theme' = CASE theme = "light" -> "dark"
                  [] theme = "dark" -> "system"
                  [] theme = "system" -> "light"
    /\ effectDue' = TRUE
    /\ UNCHANGED <<isDark, savedTheme, prefersDark, changeDue>>

\* Mutant: the theme is saved only.
ApplyThemeSaves ==
    /\ effectDue
    /\ savedTheme' = theme
    /\ effectDue' = FALSE
    /\ UNCHANGED <<theme, isDark, prefersDark, changeDue>>

\* The effect.
ApplyTheme ==
    /\ effectDue
    /\ isDark' = DarkFor(theme)
    /\ savedTheme' = theme
    /\ effectDue' = FALSE
    /\ UNCHANGED <<theme, prefersDark, changeDue>>

\* Day and night: what the media query matches changes before its event is delivered.
SystemChanges ==
    /\ prefersDark' = ~prefersDark
    /\ changeDue' = TRUE
    /\ UNCHANGED <<theme, isDark, savedTheme, effectDue>>

\* The listener.
MediaChange ==
    /\ changeDue
    /\ changeDue' = FALSE
    /\ isDark' = IF theme = "system" THEN DarkFor(theme) ELSE isDark
    /\ UNCHANGED <<theme, savedTheme, prefersDark, effectDue>>

\* The page is loaded again and the service made anew.
ReloadPage ==
    /\ theme' = Valid(savedTheme)
    /\ isDark' = FALSE
    /\ effectDue' = TRUE
    /\ changeDue' = FALSE
    /\ UNCHANGED <<savedTheme, prefersDark>>

ThemeNext ==
    \/ toggleTheme \/ ApplyTheme \/ SystemChanges \/ MediaChange \/ ReloadPage

ThemeSpec == ThemeInit /\ [][ThemeNext]_themeVars

-----------------------------------------------------------------------------
(* Properties *)

ThemeTypeOK ==
    /\ theme \in Theme /\ savedTheme \in Theme \cup {"none"}
    /\ isDark \in BOOLEAN /\ prefersDark \in BOOLEAN
    /\ effectDue \in BOOLEAN /\ changeDue \in BOOLEAN

\* Once the effect has run the theme is saved, and will survive a reload of the page; once
\* the event has run too the page is as dark as the theme says, in whichever order the user,
\* the operating system, the effect and the event came.
ThemeApplied ==
    ~effectDue => /\ Valid(savedTheme) = theme
                  /\ ~changeDue => (isDark <=> DarkFor(theme))

\* A theme that is not the operating system's waits for no event.
FixedTheme == ~effectDue /\ theme # "system" => (isDark <=> theme = "dark")

\* The inductive invariant.
ThemeInv == ThemeTypeOK /\ FixedTheme /\ ThemeApplied

=============================================================================
