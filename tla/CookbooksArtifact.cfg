SPECIFICATION Spec
CONSTANTS
  Procs = {p1, p2}
  Sums = {"s1", "s2", "s3"}
  Requests <- ArtifactPuts
  Populations <- Seeds
  Environments <- PinnedEnv
  Decimal <- DecimalRank
  SegmentOrder <- SegmentList
  MaxRequests = 2
  MaxErrors = 0
  NoDoc = nodoc
PROPERTY ArtifactsImmutable
