SPECIFICATION Spec
CONSTANTS
  g = g
  h = h
  Requests = {g, h}
  GrpcRequests = {g}
  MaxFailures = 3
INVARIANTS
  TypeOK
  ListenersReleased
  FinalAuditCovers
  ReadyIsHonest
PROPERTIES
  Stops
  NoSenderBlocked
CHECK_DEADLOCK FALSE
