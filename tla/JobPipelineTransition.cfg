SPECIFICATION Spec
CONSTANTS
  d1 = d1
  Docs = {d1}
  c1 = c1
  Clients = {c1}
  N = 3
  Kind <- OcrClarifyEmbed
  Input <- Chain
  SkipType <- NoSkip
  SkipSize = {2}
  NeedsContext = {2}
  PreText <- NoText
  MaxConcurrent <- One
  RetryLimit = 2
  UserOps = {"stop"}
  MaxOps = 1
  MaxCrashes = 0
PROPERTY OnlyValidTransitions
