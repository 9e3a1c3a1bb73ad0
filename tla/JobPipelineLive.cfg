SPECIFICATION FairSpec
CONSTANTS
  d1 = d1
  d2 = d2
  Docs = {d1, d2}
  c1 = c1
  Clients = {c1}
  N = 2
  Kind <- TranscribeOcr
  Input <- FromUpload
  SkipType <- MediaSkip
  SkipSize = {}
  NeedsContext = {}
  PreText <- MediaText
  MaxConcurrent <- One
  RetryLimit = 3
  UserOps = {"retry", "replay"}
  MaxOps = 1
  MaxCrashes = 1
PROPERTY Settles
