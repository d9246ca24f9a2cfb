SPECIFICATION Spec
CONSTANTS
  s1 = s1
  s2 = s2
  RawSpans <- MCRawSpans
  Configs <- MCConfigs
  FirstConfig <- plain
  BadFile = BadFile
  Exporters = {e1, e2}
  Reloaders = {sighup, post}
  TTL = 1
  MaxSpans = 1
  NoSpan = NoSpan
  NoReport = NoReport
  MaxExports = 2
  MaxWrites = 1
  MaxReloads = 2
  MaxTime = 1
INVARIANT
  RetriesDoNotConflict
