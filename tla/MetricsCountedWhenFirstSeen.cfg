SPECIFICATION Spec
CONSTANTS
  o = o
  t = t
  Findings <- MCFindings
  Reports <- DistinctReports
  RulesCounted = {"orphan"}
  MaxAudits = 3
INVARIANT
  CountedWhenFirstSeen
