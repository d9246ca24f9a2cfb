CONSTANTS
  id1 = id1
  id2 = id2
  anonymous = anonymous
  x = x
  y = y
  xs = xs
  ys = ys
  oneValue = oneValue
  Inputs <- MCInputs
  Documents <- MCDocuments
  Malformed = Malformed
  Redactions = {{}, {"user"}}
  PayloadAttributes = {}
  Value <- MCValue
  Redacted = Redacted
  NaN = NaN
  NoIdentity = anonymous
  MaxBytes = 2
  MaxSpans = 3
  MaxWrites = 1
SPECIFICATION Spec
CHECK_DEADLOCK FALSE
INVARIANT EveryLineIsAudited
