CONSTANTS
  i1 = i1 i2 = i2 o1 = o1 o2 = o2 n1 = n1
  c1 = c1 c2 = c2 r1 = r1 r2 = r2
  Ids = {i1, i2}
  Objects = {o1, o2}
  Names = {n1}
  Local = {c1, c2}
  Remote = {}
  Operations = {"spawn", "destroy"}
  OverlapShutdown = TRUE
SPECIFICATION Spec
CHECK_DEADLOCK FALSE
INVARIANTS
  FreedOnlyWhenDrained
