SPECIFICATION Spec
CONSTANTS
  Writers = {w1, w2}
  Objects = {o1}
  Blobs = {}
  Org = org
  Old = old
  None = none
  Coalescing = TRUE
  Ops = {"create", "delete", "tx"}
  Cap = 2
  MaxNils = 1
  Free = free
  Loop = loop
PROPERTY CloseReturns
