\* Three publishers, one derived and one raw name, crashes, power loss and
\* outside interference.
SPECIFICATION Spec
CONSTANTS
  Publishers = {p1, p2, p3}
  Derived = {"records"}
  Raw = {"document"}
SYMMETRY PublisherSymmetry
INVARIANTS NeverTorn NoFalseConflict IInv
PROPERTIES ExistingKept ImplementsWriteOnce
CHECK_DEADLOCK FALSE
