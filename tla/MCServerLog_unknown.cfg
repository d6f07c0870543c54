SPECIFICATION Spec
CONSTANTS
  p1 = p1  v1 = v1  v2 = v2  c1 = c1  c2 = c2  c3 = c3
  ProjectOf <- TheProjects
  RevisionOf <- TheRevisions
  Project = {p1}
  Revision = {v1}
  Call = {c1}
  CanAbort = FALSE
INVARIANT UnknownIsBad
CHECK_DEADLOCK FALSE
