\* The same documents against the promise of the docstrings.
SPECIFICATION Spec
CONSTANTS
  Texts <- MCTexts
  Upper <- MCUpper
  Isins <- MCIsins
  Placeholders <- MCPlaceholders
  Crosswalks <- MCCrosswalks
  Documents <- MCDocuments
INVARIANT QuarantinesNotCrashes
CHECK_DEADLOCK FALSE
