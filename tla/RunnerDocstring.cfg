SPECIFICATION Spec
CONSTANTS
  Procs <- MCProcs
  Targets <- MCTargets
  Contents <- MCContents
  Yields <- MCYields
  GroupSizes <- MCGroupSizes
  BatchSizes <- MCBatchSizes
  Reversible = FALSE
  MaxRuns = 2
PROPERTY ReprocessedIsSkipped

CHECK_DEADLOCK FALSE
