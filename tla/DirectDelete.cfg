SPECIFICATION Spec
CONSTANTS
  Writers = {w1, w2, w3}
  Objects = {o1}
  Blobs = {b1}
  Org = org
  Old = old
  None = none
  Coalescing = FALSE
  Ops <- AllOps
  Cap = 1
  MaxNils = 0
  Free = free
  Loop = loop
INVARIANT DeletesReportOnce
