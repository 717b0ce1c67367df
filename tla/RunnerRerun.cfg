SPECIFICATION FairSpec
CONSTANTS
  Procs <- MCProcs
  Targets <- MCTargets
  Contents <- MCContents
  Yields <- MCYields
  GroupSizes <- MCGroupSizes
  BatchSizes <- MCBatchSizes
  Reversible = FALSE
  MaxRuns = 3
INVARIANTS SummaryHonest GraphCurrent RunInv
PROPERTIES SealedNotReloaded RunTerminates
CHECK_DEADLOCK FALSE
