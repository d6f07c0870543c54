---------------------------- MODULE MCServerLog ----------------------------
(* A project with two revisions, of which one serves two calls. *)
EXTENDS ServerLog

CONSTANTS p1, v1, v2, c1, c2, c3

TheProjects == [r \in Revision |-> p1]

TheRevisions == [c \in Call |-> IF c = c2 THEN v2 ELSE v1]
=============================================================================
