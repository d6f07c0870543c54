---------------------------- MODULE ProjectCheck ----------------------------
(***************************************************************************)
(* The page a user waits at for a new project's gateway.  It asks for the  *)
(* status of the selected project until the gateway answers, a bounded     *)
(* number of times.  The page stays when another project is selected, and  *)
(* the stream of checks ends with its first verdict.                       *)
(***************************************************************************)
EXTENDS Naturals, Sequences, WebClient

CONSTANTS
    RetryCount,  \* retries after the first request; 60 in the code
    MaxSelects   \* bound: changes of the selected project

ASSUME ProjectCheckAssumption ==
    /\ RetryCount \in Nat /\ MaxSelects \in Nat

VARIABLES
    selected,   \* selectedProject(), Nothing while the context is loading
    last,       \* the project the stream has let through last
    delayed,    \* projects in delay(5_000)
    poll,       \* the inner stream [id, tries, phase]
    verdict,    \* success() or errorMessage(), [state, of]
    up,         \* the gateways that answer as they should
    selects,    \* changes of the selection so far
    raced,      \* history: the verdict came while another project was in the delay
    late,       \* history: another project was selected after the verdict
    faulty      \* history: a request for the status failed

checkVars == <<selected, last, delayed, poll, verdict, up, selects, raced, late, faulty>>

Idle == [id |-> Nothing, tries |-> 0, phase |-> "idle"]
Open == verdict.state = "none"

CheckInit ==
    /\ selected = Nothing
    /\ last = Nothing
    /\ delayed = <<>>
    /\ poll = Idle
    /\ verdict = [state |-> "none", of |-> Nothing]
    /\ up \in SUBSET Project
    /\ selects = 0
    /\ raced = FALSE
    /\ late = FALSE
    /\ faulty = FALSE

\* The context has loaded, is loading again, or the route has changed.
SelectProject(p) ==
    /\ selects < MaxSelects
    /\ selects' = selects + 1
    /\ selected' = p
    /\ IF Open /\ p \notin {Nothing, last}
       THEN last' = p /\ delayed' = Append(delayed, p)
       ELSE UNCHANGED <<last, delayed>>
    /\ late' = (late \/ (~Open /\ p \notin {Nothing, verdict.of}))
    /\ UNCHANGED <<poll, verdict, up, raced, faulty>>

\* Mutant: a check under way is not abandoned (exhaustMap for switchMap).
DelayOverIgnored ==
    /\ delayed # <<>>
    /\ delayed' = Tail(delayed)
    /\ poll' = IF poll = Idle THEN [id |-> Head(delayed), tries |-> 0, phase |-> "asked"] ELSE poll
    /\ UNCHANGED <<selected, last, verdict, up, selects, raced, late, faulty>>

\* switchMap: the checks of the previous project are abandoned.
DelayOver ==
    /\ delayed # <<>>
    /\ delayed' = Tail(delayed)
    /\ poll' = [id |-> Head(delayed), tries |-> 0, phase |-> "asked"]
    /\ UNCHANGED <<selected, last, verdict, up, selects, raced, late, faulty>>

\* The API calls the gateway; the request or its answer may be lost.
GetStatus ==
    /\ poll.phase = "asked"
    /\ \/ /\ poll' = [poll EXCEPT !.phase = IF poll.id \in up THEN "ok" ELSE "not ok"]
          /\ UNCHANGED faulty
       \/ /\ poll' = [poll EXCEPT !.phase = "not ok"]
          /\ faulty' = TRUE
    /\ UNCHANGED <<selected, last, delayed, verdict, up, selects, raced, late>>

\* take(1), and an error after the last retry, end the stream and all that is in it.
End(state) ==
    /\ verdict' = [state |-> state, of |-> poll.id]
    /\ raced' = (delayed # <<>>)
    /\ delayed' = <<>>
    /\ poll' = Idle
    /\ UNCHANGED <<selected, last, up, selects, late, faulty>>

Success ==
    /\ poll.phase = "ok"
    /\ End("success")

\* Mutant: retries are not counted.
RefusedUncounted ==
    /\ poll.phase = "not ok"
    /\ poll' = [poll EXCEPT !.phase = "waiting"]
    /\ UNCHANGED <<selected, last, delayed, verdict, up, selects, raced, late, faulty>>

\* retry({ count: RetryCount, delay: 5_000 })
Refused ==
    /\ poll.phase = "not ok"
    /\ IF poll.tries < RetryCount
       THEN /\ poll' = [poll EXCEPT !.phase = "waiting", !.tries = poll.tries + 1]
            /\ UNCHANGED <<selected, last, delayed, verdict, up, selects, raced, late, faulty>>
       ELSE End("error")

\* Mutant: the answer is kept for the retries.
RetryKept ==
    /\ poll.phase = "waiting"
    /\ poll' = [poll EXCEPT !.phase = "not ok"]
    /\ UNCHANGED <<selected, last, delayed, verdict, up, selects, raced, late, faulty>>

Retry ==
    /\ poll.phase = "waiting"
    /\ poll' = [poll EXCEPT !.phase = "asked"]
    /\ UNCHANGED <<selected, last, delayed, verdict, up, selects, raced, late, faulty>>

\* A gateway starts, or stops answering.
GatewayTurns(p) ==
    /\ up' = IF p \in up THEN up \ {p} ELSE up \cup {p}
    /\ UNCHANGED <<selected, last, delayed, poll, verdict, selects, raced, late, faulty>>

CheckSteps == DelayOver \/ GetStatus \/ Success \/ Refused \/ Retry

CheckNext ==
    \/ CheckSteps
    \/ \E p \in Project \cup {Nothing} : SelectProject(p)
    \/ \E p \in Project : GatewayTurns(p)

CheckSpec == CheckInit /\ [][CheckNext]_checkVars

\* Timers run out and requests are answered or fail.
CheckFairness == WF_checkVars(CheckSteps)

-----------------------------------------------------------------------------
(* Properties *)

CheckTypeOK ==
    /\ selected \in Project \cup {Nothing}
    /\ last \in Project \cup {Nothing}
    /\ delayed \in Seq(Project)
    /\ poll \in [id : Project \cup {Nothing}, tries : 0 .. RetryCount,
                 phase : {"idle", "asked", "ok", "not ok", "waiting"}]
    /\ verdict \in [state : {"none", "success", "error"}, of : Project \cup {Nothing}]
    /\ up \subseteq Project
    /\ selects \in 0 .. MaxSelects
    /\ <<raced, late, faulty>> \in BOOLEAN \X BOOLEAN \X BOOLEAN

\* "Your MCP Endpoint is ready" stands above the selected project's URL: it is about that
\* project, unless another one was selected within the delay before the verdict or after it.
VerdictOfSelected ==
    (~Open /\ selected # Nothing /\ ~raced /\ ~late) => verdict.of = selected

\* The stream works towards the project it has let through last, which is the selected one
\* as long as there is no verdict.
PollFacts ==
    /\ Open /\ selected # Nothing => selected = last
    /\ delayed # <<>> => Open /\ delayed[Len(delayed)] = last
    /\ poll # Idle => Open /\ poll.id # Nothing
    /\ delayed = <<>> /\ poll # Idle => poll.id = last
    /\ ~Open /\ ~raced => verdict.of = last
    /\ ~Open /\ ~late /\ ~raced /\ selected # Nothing => selected = verdict.of

\* The inductive invariant.
CheckInv == CheckTypeOK /\ PollFacts /\ VerdictOfSelected

\* Every page that has a project gets its verdict, however the gateway behaves.
CheckEnds == (last # Nothing) ~> ~Open

\* While a page has a project and no verdict there is something to wait for: a delay or a
\* request (CheckSteps is enabled).
CheckAlive == Open /\ last # Nothing => delayed # <<>> \/ poll.phase # "idle"

\* What a check has before it: its retries and the stages of its request.
PollLeft ==
    4 * (RetryCount - poll.tries)
        + (IF poll.phase = "waiting" THEN 3 ELSE IF poll.phase = "asked" THEN 2 ELSE 1)

\* And each of these steps comes nearer to the end: either fewer projects are in the delay,
\* or as many are and less is left of the check under way, whose retries are counted.
CheckDescends ==
    [][CheckSteps =>
         \/ Len(delayed') < Len(delayed)
         \/ /\ delayed' = delayed
            /\ ~Open' \/ PollLeft' < PollLeft]_checkVars

\* A gateway that answers before the last retry, and keeps to it, is noticed, unless the user
\* goes to another project or the request itself fails.
CatchesUp ==
    \A p \in Project :
        (poll.id = p /\ p \in up /\ poll.phase = "waiting")
            ~> (verdict.state = "success" \/ p \notin up \/ last # p \/ raced \/ faulty)

=============================================================================
