SPECIFICATION Spec
CONSTANTS
  id1 = id1
  id2 = id2
  anonymous = anonymous
  Spans <- MCSpans
  ContentHash <- MCContentHash
  SizeOf <- MCSizeOf
  NoIdentity = anonymous
  ZeroTime <- MCZeroTime
  TTL = 1
  MaxSpans = 3
  MaxBytes = 4
  MaxBatch = 2
  MaxExports = 3
  MaxTime = 2
  MaxStepBacks = 1
INVARIANTS
  TypeOK
  Consistent
  BytesAccounted
  GaugesAgree
  Ledger
  AnswerMatchesStore
PROPERTIES
  ImplementsWindow
  NeverReadmitted
