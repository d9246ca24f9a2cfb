SPECIFICATION Spec
CONSTANTS
  a = a
  b = b
  x = x
  y = y
  m = m
  None = None
  Strong = {"environment"}
  Weak = {"address"}
  Window = 1
  MaxDuration = 4
  Inputs <- MCInputs
INVARIANTS
  TypeOK
  RouteNearest
  TenantIsolation
  ReferencesTell
  PointersInRange
PROPERTY
  Finishes
CHECK_DEADLOCK FALSE
