SPECIFICATION Spec
CONSTANTS
  Sessions = {"s1", "s2"}
  Names = {"a"}
  NameOf <- OneName
  Inodes = {i1, i2, i3}
  MaxLines = 1
  MaxLost = 2
  MaxTamper = 0
  Tampering <- NoTampering
  Faults <- WriteFaults
  StaleLines = 1
SYMMETRY InodeSymmetry
INVARIANT NothingOverwritten
CHECK_DEADLOCK FALSE
