CONSTANTS
  Inputs <- MCInputs
  Window = 2
  MaxDuration = 100
  Strong = {"environment"}
  Weak = {"address"}
  None = None
  Wildcard = Wildcard
  Audits <- MCAudits
  AppliesTo <- MCAppliesTo
  Failing <- MCFailing
  FailOnInsufficient = FALSE
  QueueLatency = 1
  ClockSkewTolerance = 1
  DuplicateThreshold = 1
  ExpectedEdges <- MCExpectedEdges
  DeniedEdges <- MCDeniedEdges
  IgnoredEdges <- MCIgnoredEdges
  a = a
  b = b
  m = m
  shop = shop
  till = till
SPECIFICATION Spec
CHECK_DEADLOCK FALSE
INVARIANT TypeOK
INVARIANT NothingVanishes
INVARIANT AbsenceDoesNotDecide
PROPERTY OrphanConsumerStands
PROPERTY ObservedStands
