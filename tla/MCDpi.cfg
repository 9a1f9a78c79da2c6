CONSTANTS
  Messages <- MCMessages
  MaxBuffer = 80
  MaxScan = 12
  MaxJumps = 2

SPECIFICATION DpiSpec

CHECK_DEADLOCK FALSE

INVARIANTS
  ReadsOnlyWhatArrived
  DecisionsSurviveSplits
