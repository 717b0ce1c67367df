\* Two processes on one manifest, crashes, failures and an amendment.
SPECIFICATION Spec
CONSTANTS
  Procs = {p1, p2}
  Targets <- OneTarget
  Contents <- OneContents
  Yields <- OneYields
  GroupSizes <- OneGroupSizes
  BatchSizes <- MCBatchSizes
  Reversible = TRUE
  MaxRuns = 3
SYMMETRY TwoSymmetric
INVARIANTS LoadedBacked CompletionBacked IInv
PROPERTY ImplementsLedger
CHECK_DEADLOCK FALSE
