SPECIFICATION Spec
CONSTANTS
  o1 = o1  o2 = o2  p1 = p1  p2 = p2  p3 = p3  r1 = r1  r2 = r2  r3 = r3
  u1 = u1  ubad = ubad  d1 = d1
  Org = {o1}
  Project = {p1}
  OrgOf <- OneOrg
  NameOf <- OwnName
  Slot = {r1}
  Url = {u1, ubad}
  BadUrl = {ubad}
  Port = {8080}
  Domain = {d1}
  Bodies <- MCBodies
  Changes <- NoChanges
  MaxRevision = 2
  Failures = {}
INVARIANT AllRenderable
CHECK_DEADLOCK FALSE
