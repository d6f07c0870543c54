---- MODULE NewProjectFormProofs ----
(***************************************************************************)
(* Proofs about the form for a new project: with one check at a time, what *)
(* it says of an endpoint is true, and a project gets authentication at    *)
(* the gateway only if its endpoint works without.                         *)
(***************************************************************************)
EXTENDS NewProjectForm, TLAPS

\* What is said of the endpoint is the verdict on the URL that was checked.
LEMMA VerdictFollows == CheckFacts => VerdictTrue
  BY DEF CheckFacts, VerdictTrue, ShownVerdict

LEMMA FormCorePrimed == (FormTypeOK /\ CheckFacts /\ AuthOnlyIfOpen)' => FormInv'
  BY VerdictFollows, PTL DEF FormInv

LEMMA FormInitial == FormInit => FormInv
<1> SUFFICES ASSUME FormInit PROVE FormInv
  OBVIOUS
<1>0. 0 \in 0 .. MaxCalls /\ BlankUrl \in Url
  BY NewProjectAssumption
<1>1. FormTypeOK
  BY <1>0 DEF FormInit, FormTypeOK
<1>2. Checking = {} /\ Posting = {}
  BY DEF FormInit, Checking, Posting
<1>3. CheckFacts /\ AuthOnlyIfOpen
  BY <1>2 DEF FormInit, CheckFacts, AuthOnlyIfOpen
<1> QED
  BY <1>1, <1>3, VerdictFollows DEF FormInv

LEMMA FormStep == FormInv /\ [FormNext]_formVars => FormInv'
<1> SUFFICES ASSUME FormInv, [FormNext]_formVars PROVE FormInv'
  OBVIOUS
<1>t. FormTypeOK /\ CheckFacts /\ AuthOnlyIfOpen
  BY DEF FormInv
<1>n. /\ MaxCalls \in Nat /\ Nothing \notin ValidUrl /\ ValidUrl \subseteq Url
      /\ Example \subseteq ValidUrl /\ Kind \in [ValidUrl -> Verdicts]
  BY NewProjectAssumption DEF Verdicts
<1>f. /\ checks \in [Call -> ValidUrl \cup {Nothing}] /\ posts \in [Call -> Post \cup {Nothing}]
      /\ auth \in [value : BOOLEAN, enabled : BOOLEAN] /\ overlapped \in BOOLEAN
      /\ field \in Url /\ started \in 0 .. MaxCalls
  BY <1>t DEF FormTypeOK
<1>s. started < MaxCalls => started + 1 \in Call /\ started + 1 \in 0 .. MaxCalls
  BY <1>f, <1>n DEF Call
\* Nothing happens to checks and creations.
<1>a. ASSUME UNCHANGED <<validation, checks, posts, created, overlapped>>, FormTypeOK',
             auth'.enabled = auth.enabled
      PROVE  FormInv'
  <2>1. CheckFacts' /\ AuthOnlyIfOpen'
    BY <1>a, <1>t DEF CheckFacts, AuthOnlyIfOpen, Checking, Posting
  <2> QED
    BY <1>a, <2>1, FormCorePrimed
<1>1. ASSUME NEW u \in Url, Type(u) PROVE FormInv'
  BY <1>1, <1>a, <1>t DEF Type, FormTypeOK
<1>2. CASE TypeName
  BY <1>2, <1>a, <1>t DEF TypeName, FormTypeOK
<1>3. CASE ToggleAuth
  <2>1. auth' \in [value : BOOLEAN, enabled : BOOLEAN] /\ auth'.enabled = auth.enabled
    BY <1>3, <1>f DEF ToggleAuth
  <2> QED
    BY <1>3, <2>1, <1>a, <1>t DEF ToggleAuth, FormTypeOK
<1>4. CASE Leave
  BY <1>4, <1>a, <1>t DEF Leave, FormTypeOK
\* A check begins; if it is the only one, it is the one the page waits for.
<1>b. ASSUME NEW u \in ValidUrl, Verify(u), field' \in Url PROVE FormInv'
  <2>0. /\ started' = started + 1 /\ started + 1 \in Call /\ started + 1 \in 0 .. MaxCalls
        /\ validation' = [url |-> u, state |-> "progress"]
        /\ auth' = [auth EXCEPT !.enabled = FALSE]
        /\ checks' = [checks EXCEPT ![started + 1] = u]
        /\ UNCHANGED <<nameOk, posts, taken, failed, place, created>>
    BY <1>b, <1>s DEF Verify
  <2> DEFINE others == Checking # {}
  <2>1. overlapped' = (overlapped \/ others) /\ others \in BOOLEAN
    BY <1>b DEF Verify
  <2> HIDE DEF others
  <2>2. overlapped' \in BOOLEAN /\ (~overlapped' => ~overlapped /\ ~others)
    BY <2>1, <1>f, Zenon
  <2>3. /\ auth' \in [value : BOOLEAN, enabled : BOOLEAN] /\ ~auth'.enabled
        /\ checks' \in [Call -> ValidUrl \cup {Nothing}]
    BY <2>0, <1>f
  <2>4. FormTypeOK'
    BY <1>b, <1>t, <2>0, <2>2, <2>3 DEF FormTypeOK
  <2>5. ~overlapped' => Checking' = {started + 1} /\ checks'[started + 1] = u
    <3>1. ~overlapped' => \A i \in Call : checks[i] = Nothing
      BY <2>2 DEF others, Checking
    <3>2. \A i \in Call : checks'[i] = IF i = started + 1 THEN u ELSE checks[i]
      BY <2>0, <1>f
    <3> QED
      BY <3>1, <3>2, <2>0, <1>n DEF Checking
  <2>6. CheckFacts'
    BY <2>0, <2>2, <2>3, <2>5 DEF CheckFacts
  <2>7. AuthOnlyIfOpen'
    BY <2>0, <2>2, <1>t DEF AuthOnlyIfOpen, Posting
  <2> QED
    BY <2>4, <2>6, <2>7, FormCorePrimed
<1>5. CASE Validate
  BY <1>5, <1>b, <1>f DEF Validate, CanValidate, UrlOk
<1>6. ASSUME NEW u \in Example, FillProxyUrl(u) PROVE FormInv'
  BY <1>6, <1>b, <1>n DEF FillProxyUrl
<1>7. CASE SubmitVerifies
  BY <1>7, <1>b, <1>f DEF SubmitVerifies, CanSubmit, FormOk, UrlOk
<1>8. CASE SubmitPosts
  <2> DEFINE b == [url |-> field, auth |-> (auth.enabled /\ auth.value)]
             p == [body |-> b, result |-> "sent"]
  <2>0. /\ started' = started + 1 /\ started + 1 \in Call /\ started + 1 \in 0 .. MaxCalls
        /\ posts' = [posts EXCEPT ![started + 1] = p]
        /\ field \in ValidUrl /\ validation.url = field
        /\ UNCHANGED <<field, nameOk, auth, validation, checks, taken, failed, place, created,
                       overlapped>>
    BY <1>8, <1>s DEF SubmitPosts, CanSubmit, FormOk, UrlOk
  <2>1. (auth.enabled /\ auth.value) \in BOOLEAN
    BY <1>f
  <2>2. p \in Post
    BY <2>0, <2>1 DEF Post, Body
  <2>3. FormTypeOK'
    BY <2>0, <2>2, <1>t, <1>f DEF FormTypeOK
  <2>4. b.url = field /\ (b.auth => auth.enabled) /\ p.body = b
    OBVIOUS
  <2> HIDE DEF b
  <2>5. ~overlapped => (b.auth => Kind[b.url] = "success")
    BY <2>0, <2>4, <1>t DEF CheckFacts
  <2>6. \A i \in Call : posts'[i] = IF i = started + 1 THEN p ELSE posts[i]
    BY <2>0, <1>f
  <2> HIDE DEF p
  <2>7. AuthOnlyIfOpen'
    BY <2>0, <2>4, <2>5, <2>6, <1>t DEF AuthOnlyIfOpen, Posting
  <2>8. CheckFacts'
    BY <2>0, <1>t DEF CheckFacts, Checking
  <2> QED
    BY <2>3, <2>7, <2>8, FormCorePrimed
<1>9. ASSUME NEW i \in Checking, VerifyAnswered(i) PROVE FormInv'
  <2>0. /\ i \in Call /\ checks[i] \in ValidUrl /\ Kind[checks[i]] \in Verdicts
        /\ checks' = [checks EXCEPT ![i] = Nothing]
        /\ UNCHANGED <<field, nameOk, posts, started, taken, failed, place, created, overlapped>>
    BY <1>9, <1>f, <1>n DEF Checking, VerifyAnswered
  <2>1. \A j \in Call : checks'[j] = IF j = i THEN Nothing ELSE checks[j]
    BY <2>0, <1>f
  <2>2. Checking' = Checking \ {i}
    BY <2>0, <2>1 DEF Checking
  <2>3. ~overlapped => /\ Checking' = {} /\ ~auth.enabled
                       /\ validation = [url |-> checks[i], state |-> "progress"]
    BY <2>2, <1>9, <1>t DEF CheckFacts
  <2>4. AuthOnlyIfOpen'
    BY <2>0, <1>t DEF AuthOnlyIfOpen, Posting
  <2>5. checks' \in [Call -> ValidUrl \cup {Nothing}]
    BY <2>0, <1>f
  <2>6. CASE /\ validation' = [validation EXCEPT !.state = Kind[checks[i]]]
             /\ auth' = IF Kind[checks[i]] = "success"
                        THEN [auth EXCEPT !.enabled = TRUE]
                        ELSE [auth EXCEPT !.value = FALSE]
    <3>1. /\ auth' \in [value : BOOLEAN, enabled : BOOLEAN]
          /\ Kind[checks[i]] = "success" \/ auth'.enabled = auth.enabled
          /\ validation'.url = validation.url /\ validation'.state = Kind[checks[i]]
          /\ validation' \in [url : ValidUrl \cup {Nothing},
                              state : {"none", "progress"} \cup Verdicts]
      BY <2>0, <2>6, <1>f, <1>t DEF FormTypeOK
    <3>2. FormTypeOK'
      BY <2>0, <2>5, <3>1, <1>t DEF FormTypeOK
    <3>3. CheckFacts'
      BY <2>0, <2>3, <3>1, <1>n DEF CheckFacts
    <3> QED
      BY <2>4, <3>2, <3>3, FormCorePrimed
  <2>7. CASE /\ validation' = [validation EXCEPT !.state = "error"]
             /\ auth' = [value |-> FALSE, enabled |-> FALSE]
    <3>1. FormTypeOK' /\ ~auth'.enabled /\ validation'.state = "error"
      BY <2>0, <2>5, <2>7, <1>t DEF FormTypeOK, Verdicts
    <3>3. CheckFacts'
      BY <2>0, <2>3, <3>1 DEF CheckFacts
    <3> QED
      BY <2>4, <3>1, <3>3, FormCorePrimed
  <2> QED
    BY <1>9, <2>6, <2>7 DEF VerifyAnswered
<1>10. ASSUME NEW i \in Posting, Create(i) PROVE FormInv'
  <2> DEFINE r == IF taken THEN "refused" ELSE "created"
  <2>0. /\ i \in Call /\ posts[i] \in Post
        /\ posts' = [posts EXCEPT ![i] = [posts[i] EXCEPT !.result = r]]
        /\ created' = (IF taken THEN created ELSE posts[i].body) /\ taken' = TRUE
        /\ UNCHANGED <<field, nameOk, auth, validation, checks, started, failed, place,
                       overlapped>>
    BY <1>10, <1>f DEF Posting, Create
  <2>1. /\ [posts[i] EXCEPT !.result = r] \in Post
        /\ [posts[i] EXCEPT !.result = r].body = posts[i].body /\ posts[i].body \in Body
    BY <2>0 DEF Post
  <2>2. FormTypeOK'
    BY <2>0, <2>1, <1>t, <1>f DEF FormTypeOK
  <2>3. \A j \in Call : posts'[j] = IF j = i THEN [posts[i] EXCEPT !.result = r] ELSE posts[j]
    BY <2>0, <1>f
  <2>4. \A j \in Posting' : j \in Posting /\ posts'[j].body = posts[j].body
    BY <2>1, <2>3, <1>10 DEF Posting
  <2>5. AuthOnlyIfOpen'
    BY <2>0, <2>4, <1>10, <1>t DEF AuthOnlyIfOpen
  <2>6. CheckFacts'
    BY <2>0, <1>t DEF CheckFacts, Checking
  <2> QED
    BY <2>2, <2>5, <2>6, FormCorePrimed
<1>c. ASSUME NEW i \in Posting, posts' = [posts EXCEPT ![i] = Nothing],
             failed' \in BOOLEAN, place' \in {"form", "check", "elsewhere"},
             UNCHANGED <<field, nameOk, auth, validation, checks, started, taken, created,
                         overlapped>>
      PROVE  FormInv'
  <2>1. FormTypeOK'
    BY <1>c, <1>t, <1>f DEF FormTypeOK
  <2>2. \A j \in Posting' : j \in Posting /\ posts'[j] = posts[j]
    BY <1>c, <1>f DEF Posting
  <2>3. AuthOnlyIfOpen'
    BY <1>c, <2>2, <1>t DEF AuthOnlyIfOpen
  <2>4. CheckFacts'
    BY <1>c, <1>t DEF CheckFacts, Checking
  <2> QED
    BY <2>1, <2>3, <2>4, FormCorePrimed
<1>11. ASSUME NEW i \in Posting, PostAnswered(i) PROVE FormInv'
  <2>1. failed' \in BOOLEAN /\ place' \in {"form", "check", "elsewhere"}
    BY <1>11, <1>t DEF PostAnswered, FormTypeOK
  <2> QED
    BY <1>11, <2>1, <1>c DEF PostAnswered
<1>12. ASSUME NEW i \in Posting, PostFails(i) PROVE FormInv'
  BY <1>12, <1>c, <1>t DEF PostFails, FormTypeOK
<1>13. CASE UNCHANGED formVars
  BY <1>13, <1>a, <1>t DEF formVars, FormTypeOK
<1> QED
  BY <1>1, <1>2, <1>3, <1>4, <1>5, <1>6, <1>7, <1>8, <1>9, <1>10, <1>11, <1>12, <1>13
  DEF FormNext, FormAnswers

LEMMA FormAlways == FormSpec => []FormInv
  BY FormInitial, FormStep, PTL DEF FormSpec

\* For any URLs and numbers of clicks: as long as no two checks overlap, the verdict next to
\* the URL is what its endpoint answers, whatever is typed while a check is under way.
THEOREM VerdictsTrue == FormSpec => []VerdictTrue
<1>1. FormInv => VerdictTrue
  BY DEF FormInv
<1> QED
  BY FormAlways, <1>1, PTL

\* As long as no two checks overlap, authentication at the gateway is asked for only in front
\* of an endpoint that was seen to work without.
THEOREM AuthNeedsOpenEndpoint == FormSpec => []AuthOnlyIfOpen
<1>1. FormInv => AuthOnlyIfOpen
  BY DEF FormInv
<1> QED
  BY FormAlways, <1>1, PTL

\* validationState is "progress" only while verifyMcpEndpoint has an answer to come, however
\* checks overlap, and every answer to a check ends it.
THEOREM ChecksUnderWay == FormSpec => []CheckUnderWay
<1>1. FormInit => CheckUnderWay
  BY DEF FormInit, CheckUnderWay
<1>2. FormInv /\ CheckUnderWay /\ [FormNext]_formVars => CheckUnderWay'
  <2> SUFFICES ASSUME FormInv, CheckUnderWay, [FormNext]_formVars PROVE CheckUnderWay'
    OBVIOUS
  <2>t. /\ checks \in [Call -> ValidUrl \cup {Nothing}] /\ MaxCalls \in Nat /\ started \in 0 .. MaxCalls
        /\ validation \in [url : ValidUrl \cup {Nothing}, state : {"none", "progress"} \cup Verdicts]
    BY NewProjectAssumption DEF FormInv, FormTypeOK
  <2>n. Nothing \notin ValidUrl /\ Example \subseteq ValidUrl
        /\ Kind \in [ValidUrl -> {"success", "authenticated", "error"}]
    BY NewProjectAssumption
  <2>1. ASSUME NEW u \in ValidUrl, Verify(u) PROVE CheckUnderWay'
    <3>1. started + 1 \in Call /\ checks' = [checks EXCEPT ![started + 1] = u]
      BY <2>1, <2>t DEF Verify, Call
    <3>2. checks'[started + 1] # Nothing
      BY <3>1, <2>t, <2>n
    <3> QED
      BY <3>1, <3>2 DEF CheckUnderWay, Checking
  <2>2. CASE (\E u \in Example : FillProxyUrl(u)) \/ Validate \/ SubmitVerifies
    BY <2>1, <2>2, <2>n DEF FillProxyUrl, Validate, SubmitVerifies, CanValidate, CanSubmit, FormOk, UrlOk
  <2>3. ASSUME NEW i \in Checking, VerifyAnswered(i) PROVE CheckUnderWay'
    <3>1. Kind[checks[i]] \in {"success", "authenticated", "error"}
      BY <2>t, <2>n DEF Checking
    <3>2. validation'.state # "progress"
      BY <2>3, <2>t, <3>1 DEF VerifyAnswered
    <3> QED
      BY <3>2 DEF CheckUnderWay
  <2>4. CASE UNCHANGED <<validation, checks>>
    BY <2>4 DEF CheckUnderWay, Checking
  <2> QED
    BY <2>2, <2>3, <2>4
       DEF FormNext, FormAnswers, Type, TypeName, ToggleAuth, SubmitPosts, Leave, Create,
           PostAnswered, PostFails, formVars
<1> QED
  BY FormAlways, <1>1, <1>2, PTL DEF FormSpec

=============================================================================
