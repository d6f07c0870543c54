--------------------------- MODULE NewProjectForm ---------------------------
(***************************************************************************)
(* The form for a new project.  Before a project can be created the        *)
(* endpoint in its URL field is checked: the API calls it and answers with *)
(* its tools or an error.  The field can be edited while a check is under  *)
(* way, the example buttons start another one, nothing cancels the first,  *)
(* and the answers carry no URL: whichever comes last decides.             *)
(***************************************************************************)
EXTENDS Naturals, WebClient

CONSTANTS
    Url,       \* what can be in the URL field
    ValidUrl,  \* the ones that match the field's pattern
    Example,   \* the URLs of the example buttons
    Kind,      \* what the endpoint behind a URL answers to a check
    BlankUrl,  \* the empty field
    MaxCalls   \* bound: checks and creations a user starts

ASSUME NewProjectAssumption ==
    /\ Example \subseteq ValidUrl /\ ValidUrl \subseteq Url
    /\ BlankUrl \in Url \ ValidUrl
    /\ Kind \in [ValidUrl -> {"success", "authenticated", "error"}]
    /\ MaxCalls \in Nat
    /\ Nothing \notin Url

VARIABLES
    field,      \* proxyUrl, the controls of the form
    nameOk,     \* the project name is valid
    auth,       \* the checkbox [value, enabled]
    validation, \* validationUrl and validationState
    checks,     \* by number, the URLs whose check has no answer yet
    posts,      \* by number, the creations that have no answer yet
    started,    \* the number of checks and creations so far
    taken,      \* the name is that of an existing project of the organization
    failed,     \* error()
    place,      \* where the user is: at the form, at the check page, elsewhere
    created,    \* history: the project the database has got from this form
    overlapped  \* history: two checks were under way at once

formVars == <<field, nameOk, auth, validation, checks, posts, started, taken, failed, place,
              created, overlapped>>

Verdicts == {"success", "authenticated", "error"}
Body == [url : ValidUrl, auth : BOOLEAN]
Post == [body : Body, result : {"sent", "created", "refused"}]

Call == 1 .. MaxCalls
Checking == {i \in Call : checks[i] # Nothing}
Posting == {i \in Call : posts[i] # Nothing}

FormInit ==
    /\ field = BlankUrl
    /\ nameOk = FALSE
    /\ auth = [value |-> FALSE, enabled |-> FALSE]
    /\ validation = [url |-> Nothing, state |-> "none"]
    /\ checks = [i \in Call |-> Nothing]
    /\ posts = [i \in Call |-> Nothing]
    /\ started = 0
    /\ taken \in BOOLEAN
    /\ failed = FALSE
    /\ place = "form"
    /\ created = Nothing
    /\ overlapped = FALSE

UrlOk == field \in ValidUrl
FormOk == UrlOk /\ nameOk

\* Mutant: a verdict stays on the page when the URL is edited.
ShownVerdictStays == IF UrlOk /\ validation.state \in Verdicts THEN validation.state ELSE "none"

\* What the page says about the endpoint, and what its buttons offer.
ShownVerdict ==
    IF validation.url = field /\ UrlOk /\ validation.state \in Verdicts
    THEN validation.state ELSE "none"

CanValidate == UrlOk /\ validation.state # "progress" /\ validation.url # field

Action ==
    IF validation.url # field THEN "Validate"
    ELSE IF validation.state = "error" THEN "Continue anyways"
    ELSE IF validation.state \in {"success", "authenticated"} THEN "Continue"
    ELSE "Validating"

CanSubmit == FormOk /\ Action # "Validating"

Type(u) ==
    /\ place = "form"
    /\ field' = u
    /\ UNCHANGED <<nameOk, auth, validation, checks, posts, started, taken, failed, place,
                   created, overlapped>>

TypeName ==
    /\ place = "form"
    /\ nameOk' = ~nameOk
    /\ UNCHANGED <<field, auth, validation, checks, posts, started, taken, failed, place,
                   created, overlapped>>

ToggleAuth ==
    /\ place = "form"
    /\ auth.enabled
    /\ auth' = [auth EXCEPT !.value = ~auth.value]
    /\ UNCHANGED <<field, nameOk, validation, checks, posts, started, taken, failed, place,
                   created, overlapped>>

\* Mutant: the checkbox stays as the previous check has left it.
VerifyKeepsAuth(u) ==
    /\ started < MaxCalls
    /\ started' = started + 1
    /\ validation' = [url |-> u, state |-> "progress"]
    /\ checks' = [checks EXCEPT ![started + 1] = u]
    /\ overlapped' = (overlapped \/ Checking # {})
    /\ UNCHANGED <<nameOk, auth, posts, taken, failed, place, created>>

\* Mutant: the page goes back to "Validate" and asks only at the next click.
VerifyForgets(u) ==
    /\ started < MaxCalls
    /\ started' = started + 1
    /\ validation' = [url |-> u, state |-> "progress"]
    /\ auth' = [auth EXCEPT !.enabled = FALSE]
    /\ checks' = IF validation.url = Nothing THEN [checks EXCEPT ![started + 1] = u] ELSE checks
    /\ overlapped' = (overlapped \/ Checking # {})
    /\ UNCHANGED <<nameOk, posts, taken, failed, place, created>>

\* verifyMcpEndpoint() for the URL u that the field has, or gets in the same click.
Verify(u) ==
    /\ started < MaxCalls
    /\ started' = started + 1
    /\ validation' = [url |-> u, state |-> "progress"]
    /\ auth' = [auth EXCEPT !.enabled = FALSE]
    /\ checks' = [checks EXCEPT ![started + 1] = u]
    /\ overlapped' = (overlapped \/ Checking # {})
    /\ UNCHANGED <<nameOk, posts, taken, failed, place, created>>

Validate ==
    /\ place = "form"
    /\ CanValidate
    /\ Verify(field)
    /\ UNCHANGED field

FillProxyUrl(u) ==
    /\ place = "form"
    /\ field' = u
    /\ Verify(u)

SubmitVerifies ==
    /\ place = "form"
    /\ CanSubmit /\ validation.url # field
    /\ Verify(field)
    /\ UNCHANGED field

\* The value of a disabled control is not part of the form's value.  Nothing keeps the
\* button from being clicked again before the answer.
SubmitPosts ==
    /\ place = "form"
    /\ CanSubmit /\ validation.url = field
    /\ started < MaxCalls
    /\ started' = started + 1
    /\ posts' = [posts EXCEPT ![started + 1] =
                    [body |-> [url |-> field, auth |-> auth.enabled /\ auth.value],
                     result |-> "sent"]]
    /\ UNCHANGED <<field, nameOk, auth, validation, checks, taken, failed, place, created,
                   overlapped>>

\* The answer to check i, which the endpoint may fail to give.
VerifyAnswered(i) ==
    /\ checks' = [checks EXCEPT ![i] = Nothing]
    /\ \/ /\ validation' = [validation EXCEPT !.state = Kind[checks[i]]]
          /\ auth' = IF Kind[checks[i]] = "success"
                     THEN [auth EXCEPT !.enabled = TRUE]
                     ELSE [auth EXCEPT !.value = FALSE]
       \/ /\ validation' = [validation EXCEPT !.state = "error"]
          /\ auth' = [value |-> FALSE, enabled |-> FALSE]
    /\ UNCHANGED <<field, nameOk, posts, started, taken, failed, place, created, overlapped>>

\* The API creates the project, or refuses it because its name is taken.
Create(i) ==
    /\ posts[i].result = "sent"
    /\ posts' = [posts EXCEPT ![i].result = IF taken THEN "refused" ELSE "created"]
    /\ created' = IF taken THEN created ELSE posts[i].body
    /\ taken' = TRUE
    /\ UNCHANGED <<field, nameOk, auth, validation, checks, started, failed, place, overlapped>>

\* The continuation of submit(), which also runs when the user has left the form.
PostAnswered(i) ==
    /\ posts[i].result # "sent"
    /\ posts' = [posts EXCEPT ![i] = Nothing]
    /\ IF posts[i].result = "created"
       THEN place' = "check" /\ UNCHANGED failed
       ELSE failed' = TRUE /\ UNCHANGED place
    /\ UNCHANGED <<field, nameOk, auth, validation, checks, started, taken, created, overlapped>>

\* A request that is lost on the way or whose answer is.
PostFails(i) ==
    /\ posts' = [posts EXCEPT ![i] = Nothing]
    /\ failed' = TRUE
    /\ UNCHANGED <<field, nameOk, auth, validation, checks, started, taken, place, created,
                   overlapped>>

Leave ==
    /\ place = "form"
    /\ place' = "elsewhere"
    /\ UNCHANGED <<field, nameOk, auth, validation, checks, posts, started, taken, failed,
                   created, overlapped>>

FormAnswers ==
    \/ \E i \in Checking : VerifyAnswered(i)
    \/ \E i \in Posting : Create(i) \/ PostAnswered(i) \/ PostFails(i)

FormNext ==
    \/ \E u \in Url : Type(u)
    \/ \E u \in Example : FillProxyUrl(u)
    \/ TypeName \/ ToggleAuth \/ Validate \/ SubmitVerifies \/ SubmitPosts \/ Leave
    \/ FormAnswers

\* The browser delivers the answer to every check or reports that there is none.
FormFairness == WF_formVars(\E i \in Checking : VerifyAnswered(i))

FormSpec == FormInit /\ [][FormNext]_formVars

-----------------------------------------------------------------------------
(* Properties *)

FormTypeOK ==
    /\ field \in Url
    /\ nameOk \in BOOLEAN
    /\ auth \in [value : BOOLEAN, enabled : BOOLEAN]
    /\ validation \in [url : ValidUrl \cup {Nothing},
                       state : {"none", "progress"} \cup Verdicts]
    /\ checks \in [Call -> ValidUrl \cup {Nothing}]
    /\ posts \in [Call -> Post \cup {Nothing}]
    /\ started \in 0 .. MaxCalls
    /\ taken \in BOOLEAN
    /\ failed \in BOOLEAN
    /\ place \in {"form", "check", "elsewhere"}
    /\ created \in Body \cup {Nothing}
    /\ overlapped \in BOOLEAN

\* What the page says of the endpoint is true of the URL in the field as long as no two
\* checks overlap, whatever is edited and clicked in between.  It is not true otherwise.
VerdictTrue ==
    ~overlapped =>
        (ShownVerdict \in {"success", "authenticated"} => ShownVerdict = Kind[field])

\* A project is created with authentication at the gateway only if its endpoint was seen to
\* work without: one that authenticates itself would be unusable.
AuthOnlyIfOpen ==
    ~overlapped =>
        /\ created # Nothing /\ created.auth => Kind[created.url] = "success"
        /\ \A i \in Posting : posts[i].body.auth => Kind[posts[i].body.url] = "success"

\* While no two checks overlap, there is one in flight exactly while the page waits for it,
\* and the checkbox is open only after a success.
CheckFacts ==
    ~overlapped =>
        /\ \A i, j \in Checking : i = j
        /\ \A i \in Checking :
              /\ validation = [url |-> checks[i], state |-> "progress"]
              /\ ~auth.enabled
        /\ validation.state \in {"success", "authenticated"} =>
              validation.url # Nothing /\ Kind[validation.url] = validation.state
        /\ auth.enabled => validation.state = "success"

\* The inductive invariant.
FormInv == FormTypeOK /\ CheckFacts /\ VerdictTrue /\ AuthOnlyIfOpen

\* While the button says "Validating..." an answer is to come: the page waits for no check
\* that has already been answered, although an earlier one may answer in its place.
CheckUnderWay == validation.state = "progress" => Checking # {}

\* The button comes back: no check, overlapping or not, leaves it at "Validating..." for ever.
ValidationEnds == (validation.state = "progress") ~> (validation.state # "progress")

=============================================================================
