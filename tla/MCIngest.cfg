CONSTANTS
  Files <- MCFiles
  MaxPacketSize = 80
  NoRoute = NoRoute

SPECIFICATION Spec

CHECK_DEADLOCK FALSE

INVARIANTS
  TypeOK
  DecodersStayInside
  FlowsRoutedByTheirKey
  DirectionsShareOneFlow
  IngestsReadablePrefix
