--------------------------- MODULE ProjectCatalog ---------------------------
(***************************************************************************)
(* What the projects API promises about the database, whatever requests    *)
(* overlap or fail half way: a project id is created once and deleted at   *)
(* most once, its published version only ever moves forward while it is    *)
(* live, and a deleted project has no version any more.  GatewaySync shows *)
(* that the handlers implement this catalog.                               *)
(***************************************************************************)
EXTENDS Naturals

CONSTANT Project

VARIABLES
    life,     \* [Project -> {"free", "live", "gone"}]
    version   \* the published revision of each project, 0 if there is none

Init ==
    /\ life = [p \in Project |-> "free"]
    /\ version = [p \in Project |-> 0]

\* Only p's version changes, and it stays a number.
OnlyVersionOf(p) ==
    /\ version'[p] \in Nat
    /\ version' = [version EXCEPT ![p] = version'[p]]

\* A project appears, with its first version or without any.
Create(p) ==
    /\ life[p] = "free"
    /\ life' = [life EXCEPT ![p] = "live"]
    /\ OnlyVersionOf(p)

\* A live project moves to a newer version.
Publish(p) ==
    /\ life[p] = "live"
    /\ OnlyVersionOf(p)
    /\ version[p] < version'[p]
    /\ UNCHANGED life

\* A live project disappears with all its versions.
Remove(p) ==
    /\ life[p] = "live"
    /\ life' = [life EXCEPT ![p] = "gone"]
    /\ version' = [version EXCEPT ![p] = 0]

Next == \E p \in Project : Create(p) \/ Publish(p) \/ Remove(p)

Spec == Init /\ [][Next]_<<life, version>>
=============================================================================
