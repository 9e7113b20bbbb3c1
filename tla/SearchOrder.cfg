SPECIFICATION Spec
CONSTANTS
  Procs = {p1, p2}
  NumIds = 1
  Documents <- AllDocuments
  Requests <- Updates
  Populations <- OneValued
  Indexes = {1, 2, 3}
  Bulk = 1
  MaxCache = 1
  MaxInt = 7
  MaxRequests = 3
  MaxErrors = 0
  Garbled = garbled
  NoDoc = nodoc
  NoIndex = 0
  Nobody = nobody
INVARIANT IndexKeptCurrent
SYMMETRY Symmetry
