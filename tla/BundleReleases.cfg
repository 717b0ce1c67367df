\* One amended target under two sets of inputs and two normalizer releases, and
\* two loads at once; nobody touches the files.
SPECIFICATION Spec
CONSTANTS
  Collectors = {"collect"}
  Loaders = {l1, l2}
  Targets <- OneTarget
  Raws <- OneRaws
  Publishes <- OnePublish
  Inputs <- TwoInputs
  Releases <- TwoReleases
  RowCount <- MCRowCount
  BatchSizes = {1}
  Destinations = {"staging"}
  SharedDocument = TRUE
  MaxCollects = 2
  MaxLoads = 2
  MaxDamages = 0
SYMMETRY LoaderSymmetry
INVARIANTS RefusedForCause OneNormalization IInv OutcomeInv
PROPERTY ImplementsLedger
CHECK_DEADLOCK FALSE
