CONSTANTS
  Packets <- MCPackets
  Signatures <- MCSignatures
  Times = {0, 1, 3, 5}
  CleanupEvery = 3
  MaxPackets = 4
  MaxTracked = 2
  ScanWindow = 2
  PortThreshold = 2
  HostThreshold = 2
  SynWindow = 3
  HalfOpenTimeout = 2
  HalfOpenThreshold = 2
  SynThreshold = 3
  MinIntervals = 2
  MinInterval = 1
  MaxInterval = 2
  JitterPercent = 15
  MinForward = 4000
  MinByteRatio = 20
  UnclassifiedBytes = 50
  BurstPackets = 3
  MaxHosts = 2
  RingCapacity = 2
  NoAlert = NoAlert

SPECIFICATION MCSpec

CHECK_DEADLOCK FALSE

INVARIANTS
  StateBounded
  AlertsJustified
  ScansReported
  RingKeepsNewest
  HostProfilesExact
