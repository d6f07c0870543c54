----------------------------- MODULE WebClient ------------------------------
(***************************************************************************)
(* What the pages of the web UI have in common: the organizations and      *)
(* projects they are about, and Angular's httpResource, which they read    *)
(* with.  A resource sends a request whenever the signals its request is   *)
(* computed from change, and again when it is told to reload.              *)
(***************************************************************************)

CONSTANTS
    Org,
    Project,
    Nothing     \* undefined

ASSUME WebClientAssumption == Nothing \notin Org \cup Project

(***************************************************************************)
(* A resource is [status, value, flight]: flight is the request that has   *)
(* no answer yet.                                                          *)
(***************************************************************************)

Unrequested == [status |-> "idle", value |-> Nothing, flight |-> Nothing]

\* The request is another one: the value is dropped, the request under way aborted.
Requested(f) == [status |-> "loading", value |-> Nothing, flight |-> f]

Resolved(v) == [status |-> "resolved", value |-> v, flight |-> Nothing]
Broken == [status |-> "error", value |-> Nothing, flight |-> Nothing]

Done(r) == r.status \in {"resolved", "error"}

\* reload() keeps the value, but does nothing while an answer is awaited, to the first request
\* or to an earlier reload.
Reloaded(r, f) ==
    IF Done(r) THEN [status |-> "reloading", value |-> r.value, flight |-> f] ELSE r

=============================================================================
