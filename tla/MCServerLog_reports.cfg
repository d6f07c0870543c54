SPECIFICATION FairSpec
CONSTANTS
  p1 = p1  v1 = v1  v2 = v2  c1 = c1  c2 = c2  c3 = c3
  ProjectOf <- TheProjects
  RevisionOf <- TheRevisions
  Project = {p1}
  Revision = {v1, v2}
  Call = {c1, c2, c3}
  CanAbort = TRUE
INVARIANT LogsHaveProject
PROPERTIES LogCatalogSpec Settle
CHECK_DEADLOCK FALSE
