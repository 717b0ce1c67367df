\* Two targets; files are edited or lost twice, enough to swap a raw file and
\* swap it back; two loads with either batch size.
SPECIFICATION Spec
CONSTANTS
  Collectors = {"collect"}
  Loaders = {"load"}
  Targets <- TwoTargets
  Raws <- TwoRaws
  Publishes <- TwoPublish
  Inputs <- OneInput
  Releases <- OneRelease
  RowCount <- MCRowCount
  BatchSizes = {1, 2}
  Destinations = {"staging"}
  SharedDocument = FALSE
  MaxCollects = 1
  MaxLoads = 2
  MaxDamages = 2
INVARIANTS TypeOK OnlyAttestedDelivered WholeBundleFirst LineageTrue
PROPERTY LoadDelivers
CHECK_DEADLOCK FALSE
