SPECIFICATION Spec
CONSTANTS
  d1 = d1
  Docs = {d1}
  c1 = c1
  c2 = c2
  Clients = {c1, c2}
  N = 3
  Kind <- OcrClarifyEmbed
  Input <- Chain
  SkipType <- NoSkip
  SkipSize = {}
  NeedsContext = {2}
  PreText <- NoText
  MaxConcurrent <- One
  RetryLimit = 1
  UserOps = {"stop", "approve", "reject", "retry", "replay", "context", "clear", "edit"}
  MaxOps = 2
  MaxCrashes = 0
SYMMETRY TwoUsers
INVARIANTS RunningIsOwned HandOff NoGaps BlockHolds
PROPERTY OutputsKept
