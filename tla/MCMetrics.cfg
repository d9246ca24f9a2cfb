SPECIFICATION Spec
CONSTANTS
  o = o
  t = t
  Findings <- MCFindings
  Reports <- MCReports
  RulesCounted = {"orphan"}
  MaxAudits = 3
INVARIANTS
  TypeOK
  CountedOnAppearance
PROPERTY
  ScrapeOfOneReport
