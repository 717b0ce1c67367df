\* Crosswalks and documents of up to three rows, for both sources.
SPECIFICATION Spec
CONSTANTS
  Texts <- MCTexts
  Upper <- MCUpper
  Isins <- MCIsins
  Placeholders <- MCPlaceholders
  Crosswalks <- MCCrosswalks
  Documents <- MCDocuments
INVARIANTS IndexFaithful IdentityAttested EveryRowOnce IInv
  DerivedShares
CHECK_DEADLOCK FALSE
