\* Three classes of weight 2, 2 and 1 and a class without weight; executions come back.
CONSTANTS
  c1 = c1  c2 = c2  n1 = n1  n2 = n2  b1 = b1  u1 = u1
  critical = critical  normal = normal  background = background  custom = custom
  Execs = {c1, c2, n1, n2, b1, u1}
  Classes = {critical, normal, background, custom}
  Ranked = {critical, normal, background}
  Weight <- MCWeight
  Rank <- MCRank
  ClassOf <- MCClassOf
  Filters <- MCFilters
  None = None
SPECIFICATION Spec
INVARIANTS BoundedBypass
PROPERTY ImplementsPool
