\* The same bundle, loaded into one database and then into another.
SPECIFICATION Spec
CONSTANTS
  Collectors = {"collect"}
  Loaders = {"load"}
  Targets <- OneTarget
  Raws <- StillRaws
  Publishes <- StillPublish
  Inputs <- OneInput
  Releases <- OneRelease
  RowCount <- MCRowCount
  BatchSizes = {1, 2}
  Destinations = {"staging", "remote"}
  SharedDocument = TRUE
  MaxCollects = 1
  MaxLoads = 2
  MaxDamages = 0
PROPERTY LoadDelivers
CHECK_DEADLOCK FALSE
