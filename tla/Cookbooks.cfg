SPECIFICATION Spec
CONSTANTS
  Procs = {p1, p2}
  Sums = {"s1", "s2", "s3"}
  Requests <- AllRequests
  Populations <- Seeds
  Environments <- PinnedEnv
  Decimal <- DecimalRank
  SegmentOrder <- SegmentList
  MaxRequests = 2
  MaxErrors = 1
  NoDoc = nodoc
INVARIANTS TypeOK FilesPresent NoLeak ACLsOfTheLiving NewestShown SolverSound ShapesAgree UniverseIsCurrent
SYMMETRY Symmetry
