CONSTANTS
  w1 = w1
  Readers <- MCReaders
  MaxSet = 2

SPECIFICATION Spec

INVARIANT ReadersHoldLiveRules
