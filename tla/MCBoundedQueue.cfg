CONSTANTS
  p1 = p1
  p2 = p2
  c1 = c1
  c2 = c2
  k1 = k1
  k2 = k2
  a = a
  b = b
  NoItem = NoItem
  Producers <- MCProducers
  Consumers <- MCConsumers
  Closers <- MCClosers
  Items <- MCItems
  RequestedCapacity = 2

SPECIFICATION Spec

INVARIANTS
  TypeOK
  NoSleepingConsumerForgotten
  NoSleepingProducerForgotten

PROPERTIES
  ImplementsClosableFifo
  ShutdownReleasesEveryCall
