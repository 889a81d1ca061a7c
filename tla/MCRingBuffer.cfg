SPECIFICATION RingSpec
CONSTANTS
  N = 3
  T <- MCValues
  Default = 0
INVARIANTS
  RingInv
PROPERTIES
  ImplementsFifo
