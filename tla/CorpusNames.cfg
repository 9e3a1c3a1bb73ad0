SPECIFICATION CorpusSpec
CONSTANTS
  a = a
  b = b
  s = s
  t = t
  tail = tail
  Docs = {a, b}
  Series = {s, t}
  Home <- TwoSeries
  IdOf <- SeriesShare
  Chunks <- Shrinking
  Limit = 3
  MaxRevisions = 3
  MaxFailures = 0
  MaxRestarts = 0
  MaxScripts = 0
INVARIANTS SkipsWhole
CHECK_DEADLOCK FALSE
