CONSTANTS
  c1 = c1
  c2 = c2
  f1 = f1
  f2 = f2
  g1 = g1
  bad = bad
  flowF = flowF
  flowG = flowG
  NoPacket = NoPacket
  NoKey = NoKey
  Clients <- MCClients
  Packets <- MCPackets
  Keys <- MCKeys
  KeyOf <- MCKeyOf
  Hash <- MCHash
  Tracked <- MCTracked
  NumWorkers = 2
  Capacity = 1

SPECIFICATION Spec

INVARIANTS
  TypeOK
  NothingLostOrReordered
  DrainedWhenStopped
  FlowsPinned
  LifecycleCoherent

PROPERTIES
  QueuesUsedAsFifos
  StopReturns
  DispatchReturns
  AcceptedGetsHandled
