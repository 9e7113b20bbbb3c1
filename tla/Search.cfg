SPECIFICATION Spec
CONSTANTS
  Procs = {p1, p2}
  NumIds = 5
  Documents <- AllDocuments
  Requests <- AllRequests
  Populations <- Seeds
  Indexes = {1, 2, 3}
  Bulk = 1
  MaxCache = 1
  MaxInt = 7
  MaxRequests = 3
  MaxErrors = 1
  Garbled = garbled
  NoDoc = nodoc
  NoIndex = 0
  Nobody = nobody
INVARIANTS TypeOK IndexCurrent RegisteredIsWhole ExactResults PlanAgrees PageExact
SYMMETRY Symmetry
