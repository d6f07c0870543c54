SPECIFICATION Spec
CONSTANTS
  a = a  A = A  b = b  c = c  o1 = o1  o2 = o2  r1 = r1  r2 = r2  r3 = r3
  Org = {o1}
  Email = {a}
  Spelling = {a}
  Lower <- LowerA
  Slot = {r1, r2}
  CanAbort = FALSE
INVARIANT RefusedUnknown
