--------------------------- MODULE MCGatewaySync ---------------------------
(* Small instances of GatewaySync: one organization, or two of which one has *)
(* two projects of the same name.                                            *)
EXTENDS GatewaySync, TLC

CONSTANTS o1, o2, p1, p2, p3, r1, r2, r3, u1, ubad, d1

OneOrg == [p \in Project |-> o1]
OwnName == [p \in Project |-> p]
MixedOrgs == [p \in Project |-> IF p = p2 THEN o2 ELSE o1]
TwoNames == [p \in Project |-> IF p = p2 THEN "other" ELSE "name"]

\* A body without URLs, one that names a proxy and one that names an image.
MCBodies == {NoBody,
             [NoBody EXCEPT !.proxy = {u1}],
             [NoBody EXCEPT !.oci = {u1}, !.port = {8080}]}
Toggle == {NoBody}
Proxied == {NoBody, [NoBody EXCEPT !.proxy = {u1}]}
Hosting == {NoBody, [NoBody EXCEPT !.oci = {u1}, !.port = {8080}]}

\* Setting and clearing the domain, switching the DCR client, an empty request.
MCChanges == {NoChange,
              [NoChange EXCEPT !.domain = {{d1}}],
              [NoChange EXCEPT !.domain = {{}}],
              [NoChange EXCEPT !.dcr = {FALSE}]}
DomainOnly == {NoChange, [NoChange EXCEPT !.domain = {{d1}}]}
SetDomain == {[NoChange EXCEPT !.domain = {{d1}}]}
NoChanges == {}

Symmetry == Permutations(Slot) \cup Permutations(Project)
SlotSymmetry == Permutations(Slot)
=============================================================================
