CONSTANTS
  A = A
  B = B
  C = C
  hello = hello
  junk = junk
  evil = evil
  NoFlow = NoFlow
  Keys <- MCKeys
  Pieces <- MCPieces
  Payloads <- MCPayloads
  Metas <- MCMetas
  Recognise <- MCRecognise
  MaxBuffer = 2
  Segs <- MCSegs
  Times = {0, 1}
  ClockTimes = {0, 1, 2}
  RuleSets <- MCRuleSets
  SynTimeout = 0
  ClosedTimeout = 0
  UdpTimeout = 1
  EstablishedTimeout = 1
  GenericTimeout = 0

SPECIFICATION Spec

INVARIANTS
  TypeOK
  FlowCoherent
  BufferOnlyWhileUndecided
  VerdictJustified

PROPERTIES
  DecidedForGood
  OnlyPrecedenceOverrides
  TeardownNotUndone
  OldestEvictedFirst
