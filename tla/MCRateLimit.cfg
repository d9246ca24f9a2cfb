SPECIFICATION Spec
CONSTANTS
  http = http
  grpc = grpc
  Transports = {http, grpc}
  Cost = 4
  Rates = {0, 3}
  Bursts = {1, 2}
  MaxTime = 4
  MaxRequests = 4
INVARIANTS
  TypeOK
  RateBounded
PROPERTY
  OnlyExcessRefused
